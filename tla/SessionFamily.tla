---------------------------- MODULE SessionFamily ----------------------------
(***************************************************************************)
(* What refresh rotation promises of a session family, without locks,      *)
(* transactions or failures: while the session is ACTIVE exactly one       *)
(* generation can be exchanged, each exchange moves to the next one, and   *)
(* an ended session can exchange nothing and never becomes ACTIVE again.   *)
(***************************************************************************)
EXTENDS Naturals

VARIABLES
  status,    \* AuthSession.status
  spendable  \* the generations a refresh call could exchange

family == <<status, spendable>>

FamilyInit ==
  /\ status = "ACTIVE"
  /\ spendable = {0}

Rotate ==
  /\ status = "ACTIVE"
  /\ spendable' = {n + 1 : n \in spendable}
  /\ UNCHANGED status

End ==
  /\ status = "ACTIVE"
  /\ status' \in {"REVOKED", "EXPIRED"}
  /\ spendable' = {}

\* Replay detection marks the family whatever became of the session before.
Compromise ==
  /\ status' = "COMPROMISED"
  /\ spendable' = {}

FamilyNext == Rotate \/ End \/ Compromise

FamilySpec == FamilyInit /\ [][FamilyNext]_family
=============================================================================
