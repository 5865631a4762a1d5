----------------------------- MODULE MCDeferredWork -----------------------------
(***************************************************************************)
(* Small instances for TLC of the work requests leave to others: the mails *)
(* of the outbox, and identity-verification attempts whose evaluation died *)
(* with its replica.  A behaviour is of one of the two, chosen in          *)
(* DeferredInit; the variables of the other keep their values.             *)
(***************************************************************************)
EXTENDS MailOutbox

CONSTANTS Call, Job, Free, NoTime, NoAttempt \* IdentityVerification

VARIABLES
  scenario,
  userStatus, idVerified, status, number, startedAt, retryAfter, liveness, media, userRow,
  attemptRow, clock, iPc, local, todo

identityVars ==
  <<userStatus, idVerified, status, number, startedAt, retryAfter, liveness, media, userRow,
    attemptRow, clock, iPc, local, todo>>
deferredVars == <<scenario, vars, identityVars>>

\* The module of proofs extends the component's: what is proved there can be cited here.
I == INSTANCE IdentityVerificationProofs WITH
       NumberUnique <- FALSE, MaxAttempts <- 2, Window <- 2, RetryDelay <- 1, Stale <- 1,
       MaxAttempt <- 2, MaxStart <- 1, MaxClock <- 2, pc <- iPc

ASSUME DeferredAssumption == I!SlotAssumption /\ I!LimitAssumption

DeferredInit == scenario \in {"mail", "identity"} /\ Init /\ I!Init

InMail     == scenario = "mail" /\ UNCHANGED <<scenario, identityVars>>
InIdentity == scenario = "identity" /\ UNCHANGED <<scenario, vars>>

DeferredNext ==
  \/ InMail /\ \E w \in Worker : AcquireLock(w)
  \/ InMail /\ \E w \in Worker : BatchStep(w)
  \/ InMail /\ \E w \in Worker : Crash(w)
  \/ InMail /\ \E w \in Worker, e \in Event : EventStep(w, e)
  \/ InMail /\ \E w \in Worker, e \in Event : AbandonBatch(w, e)
  \/ InMail /\ LockExpires
  \/ InMail /\ \E e \in Event : FallsDue(e)
  \/ InMail /\ \E e \in Event : LeaseRunsOut(e)
  \/ InIdentity /\ \E c \in Call : I!Begin(c)
  \/ InIdentity /\ \E c \in Call : I!CallStep(c)
  \/ InIdentity /\ \E c \in Call : I!Abandon(c)
  \/ InIdentity /\ \E j \in Job : I!JobStep(j)
  \/ InIdentity /\ \E j \in Job : I!JobFails(j)
  \/ InIdentity /\ \E a \in I!Attempt : I!MediaDeleted(a)
  \/ InIdentity /\ I!Tick

\* The fairness of MailOutbox and of IdentityVerification, each in its own behaviours.
MailFairness ==
  /\ WF_vars(scenario = "mail" /\ LockExpires)
  /\ \A w \in Worker :
       SF_vars(scenario = "mail" /\ AcquireLock(w)) /\ WF_vars(scenario = "mail" /\ BatchStep(w))
  /\ \A w \in Worker, e \in Event : WF_vars(scenario = "mail" /\ EventStep(w, e))
  /\ \A e \in Event :
       /\ WF_vars(scenario = "mail" /\ FallsDue(e))
       /\ WF_vars(scenario = "mail" /\ LeaseRunsOut(e))

IdentityFairness ==
  /\ \A c \in Call : WF_identityVars(scenario = "identity" /\ I!CallStep(c))
  /\ \A j \in Job :
       /\ WF_identityVars(scenario = "identity" /\ I!JobStep(j))
       /\ <>[][scenario = "identity" => ~I!JobFails(j)]_identityVars
  /\ WF_identityVars(scenario = "identity" /\ I!Tick)

DeferredSpec ==
  DeferredInit /\ [][DeferredNext]_deferredVars /\ MailFairness /\ IdentityFairness

-------------------------------------------------------------------------------
(* Properties                                                              *)

\* The type invariants of the outbox and of the attempts.
TypesHold == (scenario = "mail" => TypeOK) /\ (scenario = "identity" => I!TypeOK)

\* Every mail event is published or has had all its attempts in the end.
MailsSettle == scenario = "mail" => EventsSettle

\* No attempt whose evaluation died with its replica stays PROCESSING.
StuckAttemptsEnd == scenario = "identity" => I!StuckAttemptsEnd
===============================================================================
