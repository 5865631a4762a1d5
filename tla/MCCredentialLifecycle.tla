------------------------ MODULE MCCredentialLifecycle ------------------------
(***************************************************************************)
(* Small instances of CredentialLifecycle for TLC.  CallsSpec leaves out   *)
(* session upgrades, the passing of time and hashes of an older profile,   *)
(* all of which MCSessions has, and so affords two resets and liveness.    *)
(***************************************************************************)
EXTENDS CredentialLifecycle, TLC

CallsInit == Init /\ ~hash.legacy

CallsNext ==
  \/ \E c \in Call : Begin(c) \/ CallStep(c)
  \/ \E a \in Actor : Abandon(a)
  \/ \E r \in Reset : ExpireReset(r)

CallsSpec == CallsInit /\ [][CallsNext]_vars /\ Fairness

\* Calls and rows are interchangeable (sound for the safety runs only).
Interchangeable ==
  Permutations(Call) \cup Permutations(Reset) \cup Permutations(Session)
=============================================================================
