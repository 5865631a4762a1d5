--------------------------- MODULE SingleUseTicket ---------------------------
(***************************************************************************)
(* What step-up verification promises of its challenges, without calls,    *)
(* clocks or rows: a challenge gets one proof of its own, only that proof  *)
(* is ever shown to the client, and it is accepted once or never.          *)
(***************************************************************************)
EXTENDS Naturals

CONSTANTS Ticket, Proof, NoProof

VARIABLES
  stage, \* "none", "open", "ready", "used" or "dead"
  proof, \* the proof a ticket was made ready with
  shown, \* proofs the client has been given
  uses   \* how often each ticket was accepted

tickets == <<stage, proof, shown, uses>>

TicketInit ==
  /\ stage = [t \in Ticket |-> "none"]
  /\ proof = [t \in Ticket |-> NoProof]
  /\ shown = {}
  /\ uses = [t \in Ticket |-> 0]

Enter(t) ==
  /\ stage[t] = "none"
  /\ stage' = [stage EXCEPT ![t] = "open"]
  /\ UNCHANGED <<proof, shown, uses>>

Ready(t, p) ==
  /\ stage[t] = "open"
  /\ p \notin shown /\ \A u \in Ticket : proof[u] # p
  /\ stage' = [stage EXCEPT ![t] = "ready"]
  /\ proof' = [proof EXCEPT ![t] = p]
  /\ UNCHANGED <<shown, uses>>

Show(t) ==
  /\ stage[t] \in {"ready", "used", "dead"} /\ proof[t] # NoProof
  /\ shown' = shown \cup {proof[t]}
  /\ UNCHANGED <<stage, proof, uses>>

Use(t) ==
  /\ stage[t] = "ready" /\ proof[t] \in shown
  /\ stage' = [stage EXCEPT ![t] = "used"]
  /\ uses' = [uses EXCEPT ![t] = @ + 1]
  /\ UNCHANGED <<proof, shown>>

\* Tickets that are still good die together or one by one.
Die(T) ==
  /\ \A t \in T : stage[t] \in {"open", "ready"}
  /\ stage' = [t \in Ticket |-> IF t \in T THEN "dead" ELSE stage[t]]
  /\ UNCHANGED <<proof, shown, uses>>

TicketNext ==
  \/ \E t \in Ticket : Enter(t) \/ Show(t) \/ Use(t) \/ \E p \in Proof : Ready(t, p)
  \/ \E T \in SUBSET Ticket : Die(T)

TicketSpec == TicketInit /\ [][TicketNext]_tickets
=============================================================================
