------------------------- MODULE StepUpVerification -------------------------
(***************************************************************************)
(* The step-up challenges of one user for one purpose and target           *)
(* (StepUpVerificationService): creating a challenge, issuing its          *)
(* assertion once the linked attempt has passed, consuming the assertion,  *)
(* and the lazy expiry every call begins with.                             *)
(*                                                                         *)
(* Statements run under READ COMMITTED as in RefreshRotation.  Refusals    *)
(* that precede expireDue change nothing and are left out, and so are      *)
(* unique indexes on attempt numbers, which would only forbid behaviours.  *)
(***************************************************************************)
EXTENDS Naturals

CONSTANTS
  Call,           \* slots for requests in flight
  AssertionToken, \* assertions; TokenService never generates one twice
  Free, NoTime, NoToken, NoChallenge,
  ChallengeTtl, \* STEP_UP_CHALLENGE_TTL_SECONDS, in ticks
  AssertionTtl, \* STEP_UP_ASSERTION_TTL_SECONDS, in ticks
  MaxChallenge, \* bound: challenge rows
  MaxClock      \* bound: the last tick

Challenge == 1..MaxChallenge

ASSUME SlotAssumption ==
  /\ Free \notin Call
  /\ NoToken \notin AssertionToken
ASSUME LimitAssumption ==
  /\ ChallengeTtl \in Nat \ {0} /\ AssertionTtl \in Nat \ {0}
  /\ MaxChallenge \in Nat \ {0} /\ MaxClock \in Nat
  /\ NoTime \notin Nat /\ NoChallenge \notin Nat

VARIABLES
  status, expiresAt, assertion, sealed, assertionExpiresAt, \* columns
  attempt,   \* the linked attempt: "open", "PASSED", or "over" otherwise
  row,       \* row-lock holders
  clock,
  pc,
  local,     \* what a call keeps between its steps
  todo,      \* challenges a call's expireDue has found
  delivered, \* history: assertions the client has received
  accepted   \* history: how often each challenge was reported verified

columns == <<status, expiresAt, assertion, sealed, assertionExpiresAt>>
history == <<delivered, accepted>>
vars == <<columns, attempt, row, clock, pc, local, todo, history>>

Usable    == {"PENDING", "VERIFIED"}
Operation == {"create", "look", "issue", "consume"}
Time      == 0..MaxClock
Expiry    == 0..(MaxClock + ChallengeTtl)

Local == [op : Operation,
          challenge : Challenge \cup {NoChallenge}, \* the challenge a call is about
          now : Time,                               \* its `now`
          token : AssertionToken \cup {NoToken},             \* the assertion it minted or presents
          until : Expiry]                           \* the assertionExpiresAt it computed
Nothing == [op |-> "look", challenge |-> NoChallenge, now |-> 0, token |-> NoToken,
            until |-> 0]

TypeOK ==
  /\ status \in [Challenge -> {"none", "CONSUMED", "EXPIRED"} \cup Usable]
  /\ expiresAt \in [Challenge -> Expiry]
  /\ assertion \in [Challenge -> AssertionToken \cup {NoToken}]
  /\ sealed \in [Challenge -> BOOLEAN]
  /\ assertionExpiresAt \in [Challenge -> Expiry \cup {NoTime}]
  /\ attempt \in [Challenge -> {"open", "PASSED", "over"}]
  /\ row \in [Challenge -> Call \cup {Free}]
  /\ clock \in Time
  /\ pc \in [Call -> {"idle", "scan", "expire", "find", "insert", "read", "claim",
                      "commit", "deliver", "lookup", "consume"}]
  /\ local \in [Call -> Local]
  /\ todo \in [Call -> SUBSET Challenge]
  /\ delivered \subseteq AssertionToken
  /\ accepted \in [Challenge -> Nat]

Init ==
  /\ status = [h \in Challenge |-> "none"]
  /\ expiresAt = [h \in Challenge |-> 0]
  /\ assertion = [h \in Challenge |-> NoToken]
  /\ sealed = [h \in Challenge |-> FALSE]
  /\ assertionExpiresAt = [h \in Challenge |-> NoTime]
  /\ attempt = [h \in Challenge |-> "open"]
  /\ row = [h \in Challenge |-> Free]
  /\ clock = 0
  /\ pc = [c \in Call |-> "idle"]
  /\ local = [c \in Call |-> Nothing]
  /\ todo = [c \in Call |-> {}]
  /\ delivered = {}
  /\ accepted = [h \in Challenge |-> 0]

Goto(c, label) == pc' = [pc EXCEPT ![c] = label]

\* The end of a call, with an answer or an exception.
Finish(c) ==
  /\ Goto(c, "idle")
  /\ local' = [local EXCEPT ![c] = Nothing]
  /\ todo' = [todo EXCEPT ![c] = {}]
  /\ row' = [h \in Challenge |-> IF row[h] = c THEN Free ELSE row[h]]

-----------------------------------------------------------------------------
(* Every call takes its `now` and expires what is due                      *)

\* "look" is the GET of a challenge, and a presentation that fails on the
\* purpose or the target.
Begin(c) ==
  /\ pc[c] = "idle"
  /\ \/ \E op \in {"create", "look"} : local' = [local EXCEPT ![c].op = op, ![c].now = clock]
     \/ \E h \in Challenge :
          /\ status[h] # "none"
          /\ local' = [local EXCEPT ![c].op = "issue", ![c].now = clock, ![c].challenge = h]
     \/ \E t \in delivered :
          local' = [local EXCEPT ![c].op = "consume", ![c].now = clock, ![c].token = t]
  /\ Goto(c, "scan")
  /\ UNCHANGED <<columns, attempt, row, clock, todo, history>>

Due(h, t) ==
  /\ status[h] \in Usable
  /\ \/ expiresAt[h] <= t
     \/ assertionExpiresAt[h] # NoTime /\ assertionExpiresAt[h] <= t

\* Start of the UPDATE: its snapshot.
ExpireScan(c) ==
  /\ pc[c] = "scan"
  /\ todo' = [todo EXCEPT ![c] = {h \in Challenge : Due(h, local[c].now)}]
  /\ Goto(c, "expire")
  /\ UNCHANGED <<columns, attempt, row, clock, local, history>>

AfterExpiry == [create |-> "find", look |-> "look", issue |-> "read", consume |-> "lookup"]

\* The rows it found are tested again under their locks.
ExpireCommit(c) ==
  /\ pc[c] = "expire"
  /\ \A h \in todo[c] : row[h] = Free
  /\ LET dead == {h \in todo[c] : Due(h, local[c].now)}
     IN /\ status' = [h \in Challenge |-> IF h \in dead THEN "EXPIRED" ELSE status[h]]
        /\ sealed' = [h \in Challenge |-> sealed[h] /\ h \notin dead]
  /\ \/ local[c].op = "look" /\ Finish(c)
     \/ /\ local[c].op # "look"
        /\ Goto(c, AfterExpiry[local[c].op])
        /\ todo' = [todo EXCEPT ![c] = {}]
        /\ UNCHANGED <<row, local>>
  /\ UNCHANGED <<expiresAt, assertion, assertionExpiresAt, attempt, clock, history>>

-----------------------------------------------------------------------------
(* POST /step-up/challenges                                                *)

Reserved == {local[c].challenge : c \in {d \in Call : pc[d] = "insert"}}
Unused   == {h \in Challenge : status[h] = "none"} \ Reserved

\* An open challenge is returned, an ineligible user refused; otherwise a row
\* will be inserted, whatever rivals are about to insert.
CreateFind(c) ==
  /\ pc[c] = "find"
  /\ \/ Finish(c)
     \/ /\ \A h \in Challenge : status[h] \in Usable => expiresAt[h] <= local[c].now
        /\ \E h \in Unused :
             /\ \A g \in Unused : h <= g
             /\ local' = [local EXCEPT ![c].challenge = h]
        /\ Goto(c, "insert")
        /\ UNCHANGED <<row, todo>>
  /\ UNCHANGED <<columns, attempt, clock, history>>

CreateCommit(c) ==
  /\ pc[c] = "insert"
  /\ status' = [status EXCEPT ![local[c].challenge] = "PENDING"]
  /\ expiresAt' = [expiresAt EXCEPT ![local[c].challenge] = local[c].now + ChallengeTtl]
  /\ Finish(c)
  /\ UNCHANGED <<assertion, sealed, assertionExpiresAt, attempt, clock, history>>

\* The linked attempt passes for good, or is over otherwise, which the code may
\* take back (IdentityVerification, RecordUnavailable).
AttemptEnds(h) ==
  /\ status[h] # "none" /\ attempt[h] # "PASSED"
  /\ \E s \in {"PASSED", "over"} \ {attempt[h]} : attempt' = [attempt EXCEPT ![h] = s]
  /\ UNCHANGED <<columns, row, clock, pc, local, todo, history>>

-----------------------------------------------------------------------------
(* POST /step-up/challenges/:challengeId/assertion                         *)

\* The stored assertion can be opened and returned again.
Replayable(h, t) == status[h] = "VERIFIED" /\ sealed[h] /\ t < assertionExpiresAt[h]

AttemptPassed(h) == attempt[h] = "PASSED"

\* TokenService draws 48 random bytes: never an assertion anybody still knows.
InUse == delivered \cup {assertion[h] : h \in Challenge} \cup {local[c].token : c \in Call}

Until(h, t) == IF t + AssertionTtl <= expiresAt[h] THEN t + AssertionTtl ELSE expiresAt[h]

IssueRead(c) ==
  /\ pc[c] = "read"
  /\ LET h == local[c].challenge
         now == local[c].now
     IN \/ /\ status[h] \in Usable /\ Replayable(h, now)
           /\ local' = [local EXCEPT ![c].token = assertion[h]]
           /\ Goto(c, "deliver")
           /\ UNCHANGED <<row, todo>>
        \/ /\ status[h] \in Usable /\ ~Replayable(h, now) /\ AttemptPassed(h)
           /\ AssertionToken \ InUse # {}
           /\ local' = [local EXCEPT ![c].token = CHOOSE t \in AssertionToken \ InUse : TRUE,
                                     ![c].until = Until(h, now)]
           /\ Goto(c, "claim")
           /\ UNCHANGED <<row, todo>>
        \/ /\ status[h] \notin Usable \/ (~Replayable(h, now) /\ ~AttemptPassed(h))
           /\ Finish(c)
  /\ UNCHANGED <<columns, attempt, clock, history>>

\* Mutant of Claimable: a challenge that is verified already is claimed again.
ClaimableTwice(c) == status[local[c].challenge] \in Usable

Claimable(c) ==
  status[local[c].challenge] = "PENDING" /\ local[c].now < expiresAt[local[c].challenge]

\* The conditional UPDATE; if it changes no row the call starts over.
IssueClaim(c) ==
  /\ pc[c] = "claim"
  /\ \/ /\ Claimable(c)
        /\ row[local[c].challenge] = Free
        /\ row' = [row EXCEPT ![local[c].challenge] = c]
        /\ Goto(c, "commit")
        /\ UNCHANGED local
     \/ /\ ~Claimable(c)
        /\ local' = [local EXCEPT ![c].now = clock, ![c].token = NoToken]
        /\ Goto(c, "scan")
        /\ UNCHANGED row
  /\ UNCHANGED <<columns, attempt, clock, todo, history>>

IssueCommit(c) ==
  /\ pc[c] = "commit"
  /\ LET h == local[c].challenge
     IN /\ status' = [status EXCEPT ![h] = "VERIFIED"]
        /\ assertion' = [assertion EXCEPT ![h] = local[c].token]
        /\ sealed' = [sealed EXCEPT ![h] = TRUE]
        /\ assertionExpiresAt' = [assertionExpiresAt EXCEPT ![h] = local[c].until]
        /\ row' = [row EXCEPT ![h] = Free]
  /\ Goto(c, "deliver")
  /\ UNCHANGED <<expiresAt, attempt, clock, local, todo, history>>

\* The answer reaches the client.
Deliver(c) ==
  /\ pc[c] = "deliver"
  /\ delivered' = delivered \cup {local[c].token}
  /\ Finish(c)
  /\ UNCHANGED <<columns, attempt, clock, accepted>>

-----------------------------------------------------------------------------
(* POST /internal/step-up/assertions/consume                               *)

\* The challenge a presented assertion verifies, if any.
Presented(c) ==
  {h \in Challenge : /\ assertion[h] = local[c].token
                     /\ status[h] = "VERIFIED" /\ local[c].now < assertionExpiresAt[h]}

ConsumeRead(c) ==
  /\ pc[c] = "lookup"
  /\ \/ \E h \in Presented(c) :
          /\ local' = [local EXCEPT ![c].challenge = h]
          /\ Goto(c, "consume")
          /\ UNCHANGED <<row, todo>>
     \/ Presented(c) = {} /\ Finish(c)
  /\ UNCHANGED <<columns, attempt, clock, history>>

Consumable(c) ==
  /\ status[local[c].challenge] = "VERIFIED"
  /\ local[c].now < assertionExpiresAt[local[c].challenge]

Unsealed(h) == [sealed EXCEPT ![h] = FALSE]

ConsumeUpdate(c) ==
  /\ pc[c] = "consume"
  /\ LET h == local[c].challenge
     IN \/ /\ Consumable(c)
           /\ row[h] = Free
           /\ status' = [status EXCEPT ![h] = "CONSUMED"]
           /\ sealed' = Unsealed(h)
           /\ accepted' = [accepted EXCEPT ![h] = @ + 1]
        \/ ~Consumable(c) /\ UNCHANGED <<status, sealed, accepted>>
  /\ Finish(c)
  /\ UNCHANGED <<expiresAt, assertion, assertionExpiresAt, attempt, clock, delivered>>

-----------------------------------------------------------------------------
(* Failures and time                                                       *)

\* A crash or an error: a transaction is rolled back, an answer is lost.
Abandon(c) ==
  /\ pc[c] # "idle"
  /\ Finish(c)
  /\ UNCHANGED <<columns, attempt, clock, history>>

Tick ==
  /\ clock < MaxClock
  /\ clock' = clock + 1
  /\ UNCHANGED <<columns, attempt, row, pc, local, todo, history>>

CallStep(c) ==
  \/ ExpireScan(c) \/ ExpireCommit(c)
  \/ CreateFind(c) \/ CreateCommit(c)
  \/ IssueRead(c) \/ IssueClaim(c) \/ IssueCommit(c) \/ Deliver(c)
  \/ ConsumeRead(c) \/ ConsumeUpdate(c)

Next ==
  \/ \E c \in Call : Begin(c) \/ CallStep(c) \/ Abandon(c)
  \/ \E h \in Challenge : AttemptEnds(h)
  \/ Tick

Spec == Init /\ [][Next]_vars

\* A call that has begun goes on; PostgreSQL queues the waiters of a row, so one
\* whose row is freed again and again gets it (strong fairness).
Fairness ==
  \A c \in Call :
    WF_vars(CallStep(c)) /\ SF_vars(IssueClaim(c) \/ ExpireCommit(c))

FairSpec == Spec /\ Fairness

-----------------------------------------------------------------------------
(* Properties                                                              *)

\* What is consumed rests on a passed attempt, although consumeAssertion never
\* looks at the attempt.
ConsumedByPass ==
  \A h \in Challenge : status[h] = "CONSUMED" => attempt[h] = "PASSED"

\* docs/step-up-verification.md:66: the assertion can be opened exactly while it
\* can be used; whichever call ends it removes the envelope.
SealedWhileUsable ==
  \A h \in Challenge : sealed[h] <=> status[h] = "VERIFIED"

\* Retried and concurrent calls show the client one assertion per challenge, and
\* consumers are told once that it is verified.
StageOf == [none |-> "none", PENDING |-> "open", VERIFIED |-> "ready", CONSUMED |-> "used",
            EXPIRED |-> "dead"]
Stage == [h \in Challenge |-> StageOf[status[h]]]
Tickets == INSTANCE SingleUseTicket
             WITH Ticket <- Challenge, Proof <- AssertionToken, NoProof <- NoToken,
                  stage <- Stage, proof <- assertion, shown <- delivered, uses <- accepted
ImplementsTickets == Tickets!TicketSpec
=============================================================================
