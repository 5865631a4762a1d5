-------------------------- MODULE EnrollmentLedger --------------------------
(***************************************************************************)
(* What identity verification promises of one user's enrollment, without   *)
(* calls, rows or an engine: an attempt is decided at most once, for good, *)
(* and the user's identity status is that of the latest event, the start   *)
(* of an attempt or a decision.                                            *)
(***************************************************************************)
CONSTANTS Attempt, Undecided

VARIABLES
  outcome, \* what each attempt was decided to be, if it was
  user     \* User.identityVerificationStatus

ledger == <<outcome, user>>

Verdict == {"PASSED", "FAILED", "RETRY_REQUIRED", "REVIEW_REQUIRED"}

Standing ==
  [v \in Verdict |-> IF v = "PASSED" THEN "VERIFIED"
                     ELSE IF v = "REVIEW_REQUIRED" THEN v ELSE "RETRY_REQUIRED"]

LedgerInit ==
  /\ outcome = [a \in Attempt |-> Undecided]
  /\ user = "NOT_STARTED"

Begin ==
  /\ user' = "PENDING"
  /\ UNCHANGED outcome

Settle(a, v) ==
  /\ outcome[a] = Undecided
  /\ outcome' = [outcome EXCEPT ![a] = v]
  /\ user' = Standing[v]

LedgerNext == Begin \/ \E a \in Attempt, v \in Verdict : Settle(a, v)

LedgerSpec == LedgerInit /\ [][LedgerNext]_ledger
=============================================================================
