------------------------ MODULE IdentityVerification ------------------------
(***************************************************************************)
(* One user's account-enrollment attempts (IdentityVerificationService):   *)
(* creating an attempt, gathering its evidence, submitting it to the       *)
(* engine and recording the outcome, with the operational job that expires *)
(* stale attempts running beside.                                          *)
(*                                                                         *)
(* Transactions run statement by statement under READ COMMITTED as in      *)
(* RefreshRotation.  The user has an ACTIVE account, a linked citizen and  *)
(* biometric consent throughout.  Step-up attempts, which leave the user's *)
(* status alone, and the deletion of media objects are left out.           *)
(***************************************************************************)
EXTENDS Naturals, FiniteSets

CONSTANTS
  Call,         \* slots for requests in flight
  Job,          \* slots for cycles of the operational job
  Free, NoTime, NoAttempt,
  NumberUnique, \* whether (user, purpose, attemptNumber) carries a unique index
  MaxAttempts,  \* VERIFICATION_MAX_ATTEMPTS
  Window,       \* VERIFICATION_ATTEMPT_WINDOW_HOURS, in ticks
  RetryDelay,   \* VERIFICATION_RETRY_DELAY_SECONDS, in ticks
  Stale,        \* STALE_VERIFICATION_ATTEMPT_HOURS, in ticks
  MaxAttempt,   \* bound: attempt rows
  MaxStart,     \* bound: the last tick an attempt is begun in
  MaxClock      \* bound: the last tick

Actor   == Call \cup Job
Attempt == 1..MaxAttempt

ASSUME SlotAssumption ==
  /\ Call \cap Job = {}
  /\ Free \notin Actor
ASSUME LimitAssumption ==
  /\ NumberUnique \in BOOLEAN
  /\ MaxAttempts \in Nat \ {0} /\ Window \in Nat \ {0}
  /\ RetryDelay \in Nat \ {0} /\ Stale \in Nat \ {0}
  /\ MaxAttempt \in Nat \ {0} /\ MaxStart \in Nat /\ MaxClock \in Nat
  /\ NoTime \notin Nat /\ NoAttempt \notin Nat

VARIABLES
  userStatus, \* User.identityVerificationStatus
  idVerified, \* User.isIdVerified
  status, number, startedAt, retryAfter, \* columns of the attempt rows
  liveness,   \* whether livenessSessionId is set
  media,      \* the attempt's ID document row
  userRow, attemptRow, \* row-lock holders
  clock,
  pc,
  local,      \* what a call keeps between its steps
  todo        \* attempts a job has selected

userVars    == <<userStatus, idVerified>>
attemptVars == <<status, number, startedAt, retryAfter>>
evidence    == <<liveness, media>>
rowVars     == <<userRow, attemptRow>>
vars == <<userVars, attemptVars, evidence, rowVars, clock, pc, local, todo>>

Verdict    == {"PASSED", "FAILED", "RETRY_REQUIRED", "REVIEW_REQUIRED"}
Unfinished == {"MEDIA_PENDING", "PROCESSING", "PROVIDER_UNAVAILABLE"}
Submittable == {"MEDIA_PENDING", "PROVIDER_UNAVAILABLE"}
UserStatus == {"NOT_STARTED", "PENDING", "VERIFIED", "RETRY_REQUIRED", "REVIEW_REQUIRED"}
Starting   == {"count", "active", "latest", "insert", "touchUser", "create"}
Working    == {"evaluate", "unavailable", "complete", "decideUser", "decide"}
Time       == 0..MaxClock

Local == [target : Attempt \cup {NoAttempt}, \* the attempt a call is about
          seen : Submittable,                \* its status when it was read
          now : Time,                        \* the `now` of the call
          next : Nat,                        \* the attemptNumber to insert
          verdict : Verdict]                 \* what the engine decided
Nothing == [target |-> NoAttempt, seen |-> "MEDIA_PENDING", now |-> 0, next |-> 0,
            verdict |-> "FAILED"]

TypeOK ==
  /\ userStatus \in UserStatus /\ idVerified \in BOOLEAN
  /\ status \in [Attempt -> {"none", "EXPIRED"} \cup Unfinished \cup Verdict]
  /\ number \in [Attempt -> Nat]
  /\ startedAt \in [Attempt -> Time]
  /\ retryAfter \in [Attempt -> 0..(MaxClock + RetryDelay) \cup {NoTime}]
  /\ liveness \in [Attempt -> BOOLEAN]
  /\ media \in [Attempt -> {"none", "stored", "deleted"}]
  /\ userRow \in Call \cup {Free}
  /\ attemptRow \in [Attempt -> Actor \cup {Free}]
  /\ clock \in Time
  /\ pc \in [Actor -> {"idle", "liveness", "confirm", "claim", "scan", "lock"}
                        \cup Starting \cup Working]
  /\ local \in [Call -> Local]
  /\ todo \in [Job -> SUBSET Attempt]

Init ==
  /\ userStatus = "NOT_STARTED" /\ idVerified = FALSE
  /\ status = [a \in Attempt |-> "none"]
  /\ number = [a \in Attempt |-> 0]
  /\ startedAt = [a \in Attempt |-> 0]
  /\ retryAfter = [a \in Attempt |-> NoTime]
  /\ liveness = [a \in Attempt |-> FALSE]
  /\ media = [a \in Attempt |-> "none"]
  /\ userRow = Free
  /\ attemptRow = [a \in Attempt |-> Free]
  /\ clock = 0
  /\ pc = [x \in Actor |-> "idle"]
  /\ local = [c \in Call |-> Nothing]
  /\ todo = [j \in Job |-> {}]

Goto(x, label) == pc' = [pc EXCEPT ![x] = label]

Created == {a \in Attempt : status[a] # "none"}

FreeRows(x) ==
  /\ userRow' = IF userRow = x THEN Free ELSE userRow
  /\ attemptRow' = [a \in Attempt |-> IF attemptRow[a] = x THEN Free ELSE attemptRow[a]]

\* The end of a call: its rows are given back, its locals mean nothing more.
Finish(c) ==
  /\ FreeRows(c)
  /\ Goto(c, "idle")
  /\ local' = [local EXCEPT ![c] = Nothing]

\* An exception: the transaction, if there is one, is rolled back.
Refuse(c) ==
  /\ Finish(c)
  /\ UNCHANGED <<userVars, attemptVars, evidence, clock, todo>>

-----------------------------------------------------------------------------
(* POST /identity-verification/attempts: one transaction of many reads     *)

StartRead(c) ==
  /\ pc[c] = "idle"
  /\ clock <= MaxStart
  /\ userStatus # "VERIFIED"
  /\ local' = [local EXCEPT ![c].now = clock]
  /\ Goto(c, "count")
  /\ UNCHANGED <<userVars, attemptVars, evidence, rowVars, clock, todo>>

InWindow(c) == {a \in Created : local[c].now <= startedAt[a] + Window}

StartCount(c) ==
  /\ pc[c] = "count"
  /\ \/ /\ Cardinality(InWindow(c)) < MaxAttempts
        /\ Goto(c, "active")
        /\ UNCHANGED <<userVars, attemptVars, evidence, rowVars, clock, local, todo>>
     \/ MaxAttempts <= Cardinality(InWindow(c)) /\ Refuse(c)

\* An attempt whose provider was unavailable does not count as active.
ActiveAttempts == {a \in Attempt : status[a] \in {"MEDIA_PENDING", "PROCESSING"}}

StartActive(c) ==
  /\ pc[c] = "active"
  /\ \/ /\ ActiveAttempts = {}
        /\ Goto(c, "latest")
        /\ UNCHANGED <<userVars, attemptVars, evidence, rowVars, clock, local, todo>>
     \/ ActiveAttempts # {} /\ Refuse(c)

RetryDue(a, t) == retryAfter[a] # NoTime => retryAfter[a] <= t

Latest(a) == a \in Created /\ \A b \in Created : number[b] <= number[a]

StartLatest(c) ==
  /\ pc[c] = "latest"
  /\ \/ /\ Created = {}
        /\ local' = [local EXCEPT ![c].next = 1]
        /\ Goto(c, "insert")
        /\ UNCHANGED <<userVars, attemptVars, evidence, rowVars, clock, todo>>
     \/ \E a \in Attempt :
          /\ Latest(a)
          /\ RetryDue(a, local[c].now)
          /\ local' = [local EXCEPT ![c].next = number[a] + 1]
          /\ Goto(c, "insert")
          /\ UNCHANGED <<userVars, attemptVars, evidence, rowVars, clock, todo>>
     \/ \E a \in Attempt :
          /\ Latest(a)
          /\ ~RetryDue(a, local[c].now)
          /\ Refuse(c)

\* The calls whose inserted row is not committed yet.
Inserting == {c \in Call : pc[c] \in {"touchUser", "create"}}

NumberTaken(c) == \E a \in Created : number[a] = local[c].next

\* With a unique index the INSERT waits for a rival's and then fails.
StartInsert(c) ==
  /\ pc[c] = "insert"
  /\ \/ /\ NumberUnique => ~NumberTaken(c) /\ \A d \in Inserting : local[d].next # local[c].next
        /\ Goto(c, "touchUser")
        /\ UNCHANGED <<userVars, attemptVars, evidence, rowVars, clock, local, todo>>
     \/ NumberUnique /\ NumberTaken(c) /\ Refuse(c)

StartTouchUser(c) ==
  /\ pc[c] = "touchUser"
  /\ userRow = Free
  /\ userRow' = c
  /\ Goto(c, "create")
  /\ UNCHANGED <<userVars, attemptVars, evidence, attemptRow, clock, local, todo>>

\* The user's status is overwritten whatever it has become.
StartCommit(c) ==
  /\ pc[c] = "create"
  /\ \E a \in Attempt \ Created :
       /\ \A b \in Attempt \ Created : a <= b
       /\ status' = [status EXCEPT ![a] = "MEDIA_PENDING"]
       /\ number' = [number EXCEPT ![a] = local[c].next]
       /\ startedAt' = [startedAt EXCEPT ![a] = local[c].now]
  /\ userStatus' = "PENDING"
  /\ Finish(c)
  /\ UNCHANGED <<idVerified, retryAfter, evidence, clock, todo>>

-----------------------------------------------------------------------------
(* Evidence: the liveness session and the ID document                      *)

\* The attempt is looked up; the engine or the object store answers later.
EvidenceRead(c, a, step) ==
  /\ pc[c] = "idle"
  /\ status[a] = "MEDIA_PENDING"
  /\ step = "liveness" => ~liveness[a]
  /\ local' = [local EXCEPT ![c].target = a]
  /\ Goto(c, step)
  /\ UNCHANGED <<userVars, attemptVars, evidence, rowVars, clock, todo>>

\* The conditional update keeps the first session; 409 for the others.
StoreLiveness(c) ==
  /\ pc[c] = "liveness"
  /\ attemptRow[local[c].target] = Free
  /\ liveness' = [liveness EXCEPT ![local[c].target] = @ \/ status[local[c].target] = "MEDIA_PENDING"]
  /\ Finish(c)
  /\ UNCHANGED <<userVars, attemptVars, media, clock, todo>>

\* The row is inserted whatever the attempt has become; a second one conflicts.
StoreMedia(c) ==
  /\ pc[c] = "confirm"
  /\ media' = [media EXCEPT ![local[c].target] = IF @ = "none" THEN "stored" ELSE @]
  /\ Finish(c)
  /\ UNCHANGED <<userVars, attemptVars, liveness, clock, todo>>

\* The media worker deletes a document at a time of its own.
MediaDeleted(a) ==
  /\ media[a] = "stored"
  /\ media' = [media EXCEPT ![a] = "deleted"]
  /\ UNCHANGED <<userVars, attemptVars, liveness, rowVars, clock, pc, local, todo>>

-----------------------------------------------------------------------------
(* POST /identity-verification/attempts/:attemptId/submit                  *)

SubmitRead(c, a) ==
  /\ pc[c] = "idle"
  /\ status[a] \in Submittable
  /\ liveness[a] /\ media[a] = "stored"
  /\ RetryDue(a, clock)
  /\ local' = [local EXCEPT ![c].target = a, ![c].seen = status[a]]
  /\ Goto(c, "claim")
  /\ UNCHANGED <<userVars, attemptVars, evidence, rowVars, clock, todo>>

\* Mutant of Claimable: the attempt is claimed by its id alone.
ClaimableAlways(c) == TRUE

Claimable(c) == status[local[c].target] = local[c].seen

\* One UPDATE, committed before the engine is asked; 409 if it changes no row.
SubmitClaim(c) ==
  /\ pc[c] = "claim"
  /\ attemptRow[local[c].target] = Free
  /\ \/ /\ Claimable(c)
        /\ status' = [status EXCEPT ![local[c].target] = "PROCESSING"]
        /\ retryAfter' = [retryAfter EXCEPT ![local[c].target] = NoTime]
        /\ Goto(c, "evaluate")
        /\ UNCHANGED <<userVars, number, startedAt, evidence, rowVars, clock, local, todo>>
     \/ ~Claimable(c) /\ Refuse(c)

\* The engine decides, or it is unavailable: out of reach, PROVIDER_UNAVAILABLE,
\* an invalid answer, another policy, an unbound document or a stale evaluation.
Evaluate(c) ==
  /\ pc[c] = "evaluate"
  /\ \/ \E v \in Verdict :
          /\ local' = [local EXCEPT ![c].verdict = v, ![c].now = clock]
          /\ Goto(c, "complete")
     \/ /\ local' = [local EXCEPT ![c].now = clock]
        /\ Goto(c, "unavailable")
  /\ UNCHANGED <<userVars, attemptVars, evidence, rowVars, clock, todo>>

\* Mutant of RetryAt: seconds taken for milliseconds.
RetryInMilliseconds(t) == t + 1000 * RetryDelay

RetryAt(t) == t + RetryDelay

\* The update is by id alone.
RecordUnavailable(c) ==
  /\ pc[c] = "unavailable"
  /\ attemptRow[local[c].target] = Free
  /\ status' = [status EXCEPT ![local[c].target] = "PROVIDER_UNAVAILABLE"]
  /\ retryAfter' = [retryAfter EXCEPT ![local[c].target] = RetryAt(local[c].now)]
  /\ Finish(c)
  /\ UNCHANGED <<userVars, number, startedAt, evidence, clock, todo>>

\* completeAttempt: the attempt first, then the user.
CompleteAttempt(c) ==
  /\ pc[c] = "complete"
  /\ attemptRow[local[c].target] = Free
  /\ \/ /\ status[local[c].target] = "PROCESSING"
        /\ attemptRow' = [attemptRow EXCEPT ![local[c].target] = c]
        /\ Goto(c, "decideUser")
        /\ UNCHANGED <<userVars, attemptVars, evidence, userRow, clock, local, todo>>
     \/ status[local[c].target] # "PROCESSING" /\ Refuse(c)

DecideUser(c) ==
  /\ pc[c] = "decideUser"
  /\ userRow = Free
  /\ userRow' = c
  /\ Goto(c, "decide")
  /\ UNCHANGED <<userVars, attemptVars, evidence, attemptRow, clock, local, todo>>

\* Mutant of UserStatusOf: a manual review counts as a pass.
ReviewCountsAsPass(v) ==
  IF v \in {"PASSED", "REVIEW_REQUIRED"} THEN "VERIFIED" ELSE "RETRY_REQUIRED"

\* mapDecision.
UserStatusOf(v) ==
  CASE v = "PASSED" -> "VERIFIED"
    [] v = "REVIEW_REQUIRED" -> "REVIEW_REQUIRED"
    [] OTHER -> "RETRY_REQUIRED"

CommitDecision(c) ==
  /\ pc[c] = "decide"
  /\ LET a == local[c].target
         v == local[c].verdict
     IN /\ status' = [status EXCEPT ![a] = v]
        /\ retryAfter' = [retryAfter EXCEPT ![a] =
             IF v = "RETRY_REQUIRED" THEN RetryAt(local[c].now) ELSE NoTime]
        /\ userStatus' = UserStatusOf(v)
        /\ idVerified' = (idVerified \/ UserStatusOf(v) = "VERIFIED")
  /\ Finish(c)
  /\ UNCHANGED <<number, startedAt, evidence, clock, todo>>

-----------------------------------------------------------------------------
(* expireStaleAttempts of the operational job                              *)

\* Mutant of Expirable: attempts under evaluation are never stale.
UnlessProcessing(s) == s \in Submittable

Expirable(s) == s \in Unfinished

StaleAttempts == {a \in Attempt : Expirable(status[a]) /\ startedAt[a] + Stale <= clock}

\* The attempts are selected before the transaction.
JobSelect(j) ==
  /\ pc[j] = "idle"
  /\ StaleAttempts # {}
  /\ todo' = [todo EXCEPT ![j] = StaleAttempts]
  /\ Goto(j, "scan")
  /\ UNCHANGED <<userVars, attemptVars, evidence, rowVars, clock, local>>

\* Start of the UPDATE: its snapshot.
JobScan(j) ==
  /\ pc[j] = "scan"
  /\ todo' = [todo EXCEPT ![j] = {a \in @ : Expirable(status[a])}]
  /\ Goto(j, "lock")
  /\ UNCHANGED <<userVars, attemptVars, evidence, rowVars, clock, local>>

\* Mutant of StillExpirable: the status is not tested again under the row lock.
ExpirableOnce(a) == TRUE

StillExpirable(a) == Expirable(status[a])

JobLock(j, a) ==
  /\ pc[j] = "lock"
  /\ a \in todo[j]
  /\ attemptRow[a] = Free
  /\ attemptRow' = IF StillExpirable(a) THEN [attemptRow EXCEPT ![a] = j] ELSE attemptRow
  /\ todo' = [todo EXCEPT ![j] = @ \ {a}]
  /\ UNCHANGED <<userVars, attemptVars, evidence, userRow, clock, pc, local>>

JobCommit(j) ==
  /\ pc[j] = "lock"
  /\ todo[j] = {}
  /\ status' = [a \in Attempt |-> IF attemptRow[a] = j THEN "EXPIRED" ELSE status[a]]
  /\ FreeRows(j)
  /\ Goto(j, "idle")
  /\ UNCHANGED <<userVars, number, startedAt, retryAfter, evidence, clock, local, todo>>

-----------------------------------------------------------------------------
(* Failures and time                                                       *)

\* A crash or an error, wherever the call stands: a claimed attempt stays
\* PROCESSING.
Abandon(c) ==
  /\ pc[c] # "idle"
  /\ Refuse(c)

JobFails(j) ==
  /\ pc[j] # "idle"
  /\ FreeRows(j)
  /\ todo' = [todo EXCEPT ![j] = {}]
  /\ Goto(j, "idle")
  /\ UNCHANGED <<userVars, attemptVars, evidence, clock, local>>

Tick ==
  /\ clock < MaxClock
  /\ clock' = clock + 1
  /\ UNCHANGED <<userVars, attemptVars, evidence, rowVars, pc, local, todo>>

Begin(c) ==
  \/ StartRead(c)
  \/ \E a \in Attempt : \/ \E step \in {"liveness", "confirm"} : EvidenceRead(c, a, step)
                        \/ SubmitRead(c, a)

CallStep(c) ==
  \/ StartCount(c) \/ StartActive(c) \/ StartLatest(c)
  \/ StartInsert(c) \/ StartTouchUser(c) \/ StartCommit(c)
  \/ StoreLiveness(c) \/ StoreMedia(c)
  \/ SubmitClaim(c) \/ Evaluate(c) \/ RecordUnavailable(c)
  \/ CompleteAttempt(c) \/ DecideUser(c) \/ CommitDecision(c)

JobStep(j) ==
  \/ JobSelect(j) \/ JobScan(j) \/ JobCommit(j)
  \/ \E a \in Attempt : JobLock(j, a)

Next ==
  \/ \E c \in Call : Begin(c) \/ CallStep(c) \/ Abandon(c)
  \/ \E j \in Job : JobStep(j) \/ JobFails(j)
  \/ \E a \in Attempt : MediaDeleted(a)
  \/ Tick

Spec == Init /\ [][Next]_vars

\* Begun calls go on (the engine has a timeout), the job's timer fires and does
\* not fail for ever, and time passes.  A call may die wherever it stands.
Fairness ==
  /\ \A c \in Call : WF_vars(CallStep(c))
  /\ \A j \in Job : WF_vars(JobStep(j)) /\ <>[][~JobFails(j)]_vars
  /\ WF_vars(Tick)

FairSpec == Spec /\ Fairness

-----------------------------------------------------------------------------
(* Properties                                                              *)

\* Retried and concurrent submits, and an expiry in between, never have one
\* attempt evaluated by two calls at once.
OneEvaluator ==
  \A c, d \in Call :
    pc[c] \in Working /\ pc[d] \in Working /\ local[c].target = local[d].target => c = d

\* A recorded outcome is final: no late answer, retry or job changes it.
OutcomeIsFinal ==
  [][\A a \in Attempt : status[a] \in Verdict => status'[a] = status[a]]_vars

\* A user counts as verified only by an attempt that passed, whatever the
\* attempts beside it have done to the user's row.
VerifiedByPass ==
  userStatus = "VERIFIED" \/ idVerified => \E a \in Attempt : status[a] = "PASSED"

\* An attempt whose evaluation died with its replica does not stay PROCESSING.
StuckAttemptsEnd ==
  \A a \in Attempt : []<>(status[a] # "PROCESSING")

\* Seen from outside, attempts and the user's status behave as the ledger: they
\* are decided together, although several statements and calls are involved.
Outcome == [a \in Attempt |-> IF status[a] \in Verdict THEN status[a] ELSE "undecided"]
Ledger == INSTANCE EnrollmentLedger
            WITH Undecided <- "undecided", outcome <- Outcome, user <- userStatus
ImplementsLedger == Ledger!LedgerSpec

\* docs/operational-jobs.md:42: "Stale attempts are marked `EXPIRED`", listed
\* under the cleanup of non-terminal attempts, so an expired one is over.
ExpiredIsFinal ==
  [][\A a \in Attempt : status[a] = "EXPIRED" => status'[a] = "EXPIRED"]_vars

\* docs/identity-verification.md:88-89: on pass one transaction marks "the attempt
\* passed and the user identity verified".
PassVerifiesUser ==
  (\E a \in Attempt : status[a] = "PASSED") => userStatus = "VERIFIED"
=============================================================================
