--------------------- MODULE IdentityVerificationProofs ---------------------
(***************************************************************************)
(* Theorems about IdentityVerification for every number of requests, job   *)
(* cycles and attempts, every delay and window, and with or without the    *)
(* unique index on the attempt number.                                     *)
(***************************************************************************)
EXTENDS IdentityVerification, TLAPS

USE SlotAssumption, LimitAssumption DEF SlotAssumption, LimitAssumption, Actor, Attempt, Time

LEMMA NothingTyped == Nothing \in Local
  BY DEF Nothing, Local, Submittable, Verdict

LEMMA TypeInit == Init => TypeOK
<1> SUFFICES ASSUME Init PROVE TypeOK
  OBVIOUS
<1>1. local \in [Call -> Local]
  BY NothingTyped DEF Init
<1>2. idVerified \in BOOLEAN /\ liveness \in [Attempt -> BOOLEAN]
  BY DEF Init
<1>3. /\ retryAfter \in [Attempt -> 0..(MaxClock + RetryDelay) \cup {NoTime}]
      /\ startedAt \in [Attempt -> Time] /\ number \in [Attempt -> Nat]
  BY DEF Init
<1> QED
  BY <1>1, <1>2, <1>3 DEF Init, TypeOK, UserStatus

\* The fields of a call's locals may be set one by one.
LEMMA LocalTyped ==
  ASSUME NEW f \in [Call -> Local], NEW c \in Call
  PROVE  /\ \A t \in Time : [f EXCEPT ![c].now = t] \in [Call -> Local]
         /\ \A n \in Nat : [f EXCEPT ![c].next = n] \in [Call -> Local]
         /\ \A a \in Attempt : [f EXCEPT ![c].target = a] \in [Call -> Local]
         /\ \A a \in Attempt, s \in Submittable :
              [f EXCEPT ![c].target = a, ![c].seen = s] \in [Call -> Local]
         /\ \A v \in Verdict, t \in Time :
              [f EXCEPT ![c].verdict = v, ![c].now = t] \in [Call -> Local]
<1>1. \A r \in Local, t \in Time : [r EXCEPT !.now = t] \in Local
  BY DEF Local
<1>2. \A r \in Local, n \in Nat : [r EXCEPT !.next = n] \in Local
  BY DEF Local
<1>3. \A r \in Local, a \in Attempt : [r EXCEPT !.target = a] \in Local
  BY DEF Local
<1>4. \A r \in Local, s \in Submittable : [r EXCEPT !.seen = s] \in Local
  BY DEF Local
<1>5. \A r \in Local, v \in Verdict : [r EXCEPT !.verdict = v] \in Local
  BY DEF Local
<1> HIDE DEF Attempt, Time
<1>6. f[c] \in Local
  OBVIOUS
<1> QED
  BY <1>1, <1>2, <1>3, <1>4, <1>5, <1>6

\* A call that ends leaves well-typed rows and locals.
LEMMA FinishTyped ==
  ASSUME TypeOK, NEW c \in Call, Finish(c)
  PROVE  /\ userRow' \in Call \cup {Free}
         /\ attemptRow' \in [Attempt -> Actor \cup {Free}]
         /\ pc' \in [Actor -> {"idle", "liveness", "confirm", "claim", "scan", "lock"}
                                \cup Starting \cup Working]
         /\ local' \in [Call -> Local]
  BY NothingTyped DEF Finish, FreeRows, Goto, TypeOK

LEMMA RefuseTyped ==
  ASSUME TypeOK, NEW c \in Call, Refuse(c)
  PROVE  TypeOK'
  BY FinishTyped DEF Refuse, TypeOK, userVars, attemptVars, evidence

LEMMA RetryTyped == \A t \in Time : RetryAt(t) \in 0..(MaxClock + RetryDelay)
  BY DEF RetryAt

LEMMA TypeStep == TypeOK /\ [Next]_vars => TypeOK'
<1> SUFFICES ASSUME TypeOK, [Next]_vars PROVE TypeOK'
  OBVIOUS
<1> USE DEF userVars, attemptVars, evidence, rowVars, Goto
<1>1. ASSUME NEW c \in Call, StartRead(c) PROVE TypeOK'
  BY <1>1, LocalTyped DEF StartRead, TypeOK, Starting
<1>2. ASSUME NEW c \in Call, StartCount(c) PROVE TypeOK'
  BY <1>2, RefuseTyped DEF StartCount, TypeOK, Starting
<1>3. ASSUME NEW c \in Call, StartActive(c) PROVE TypeOK'
  BY <1>3, RefuseTyped DEF StartActive, TypeOK, Starting
<1>4. ASSUME NEW c \in Call, StartLatest(c) PROVE TypeOK'
  <2>1. CASE Refuse(c)
    BY <2>1, RefuseTyped
  <2>2. CASE /\ \E n \in Nat : local' = [local EXCEPT ![c].next = n]
             /\ Goto(c, "insert")
             /\ UNCHANGED <<userVars, attemptVars, evidence, rowVars, clock, todo>>
    <3>1. local' \in [Call -> Local]
      <4>1. PICK n \in Nat : local' = [local EXCEPT ![c].next = n]
        BY <2>2
      <4>2. local \in [Call -> Local]
        BY DEF TypeOK
      <4> QED
        BY <4>1, <4>2, LocalTyped
    <3> QED
      BY <2>2, <3>1 DEF TypeOK, Starting
  <2>3. \A a \in Attempt : number[a] + 1 \in Nat
    BY DEF TypeOK
  <2> QED
    BY <1>4, <2>1, <2>2, <2>3 DEF StartLatest
<1>5. ASSUME NEW c \in Call, StartInsert(c) PROVE TypeOK'
  BY <1>5, RefuseTyped DEF StartInsert, TypeOK, Starting
<1>6. ASSUME NEW c \in Call, StartTouchUser(c) PROVE TypeOK'
  BY <1>6 DEF StartTouchUser, TypeOK, Starting
<1>7. ASSUME NEW c \in Call, StartCommit(c) PROVE TypeOK'
  <2>1. local[c].next \in Nat /\ local[c].now \in Time
    BY DEF TypeOK, Local
  <2> QED
    BY <1>7, <2>1, FinishTyped DEF StartCommit, TypeOK, UserStatus, Unfinished
<1>8. ASSUME NEW c \in Call, NEW a \in Attempt, NEW step \in {"liveness", "confirm"},
             EvidenceRead(c, a, step) PROVE TypeOK'
  BY <1>8, LocalTyped DEF EvidenceRead, TypeOK
<1>9. ASSUME NEW c \in Call, StoreLiveness(c) PROVE TypeOK'
  <2>1. liveness' \in [Attempt -> BOOLEAN]
    BY <1>9 DEF StoreLiveness, TypeOK
  <2> QED
    BY <1>9, <2>1, FinishTyped DEF StoreLiveness, TypeOK
<1>10. ASSUME NEW c \in Call, StoreMedia(c) PROVE TypeOK'
  <2>1. media' \in [Attempt -> {"none", "stored", "deleted"}]
    BY <1>10 DEF StoreMedia, TypeOK
  <2> QED
    BY <1>10, <2>1, FinishTyped DEF StoreMedia, TypeOK
<1>11. ASSUME NEW c \in Call, NEW a \in Attempt, SubmitRead(c, a) PROVE TypeOK'
  BY <1>11, LocalTyped DEF SubmitRead, TypeOK
<1>12. ASSUME NEW c \in Call, SubmitClaim(c) PROVE TypeOK'
  <2>1. CASE Refuse(c)
    BY <2>1, RefuseTyped
  <2>2. CASE ~Refuse(c)
    <3>1. status' \in [Attempt -> {"none", "EXPIRED"} \cup Unfinished \cup Verdict]
      BY <1>12, <2>2 DEF SubmitClaim, TypeOK, Unfinished
    <3>2. retryAfter' \in [Attempt -> 0..(MaxClock + RetryDelay) \cup {NoTime}]
      BY <1>12, <2>2 DEF SubmitClaim, TypeOK
    <3>3. pc' \in [Actor -> {"idle", "liveness", "confirm", "claim", "scan", "lock"}
                             \cup Starting \cup Working]
      BY <1>12, <2>2 DEF SubmitClaim, TypeOK, Working
    <3> QED
      BY <1>12, <2>2, <3>1, <3>2, <3>3 DEF SubmitClaim, TypeOK
  <2> QED
    BY <2>1, <2>2
<1>13. ASSUME NEW c \in Call, Evaluate(c) PROVE TypeOK'
  <2>1. local \in [Call -> Local] /\ clock \in Time
    BY DEF TypeOK
  <2>2. local' \in [Call -> Local]
    <3>1. CASE local' = [local EXCEPT ![c].now = clock]
      BY <2>1, <3>1, LocalTyped
    <3>2. CASE \E v \in Verdict : local' = [local EXCEPT ![c].verdict = v, ![c].now = clock]
      <4>1. PICK v \in Verdict : local' = [local EXCEPT ![c].verdict = v, ![c].now = clock]
        BY <3>2
      <4> QED
        BY <2>1, <4>1, LocalTyped
    <3> QED
      BY <1>13, <3>1, <3>2 DEF Evaluate
  <2>3. pc' \in [Actor -> {"idle", "liveness", "confirm", "claim", "scan", "lock"}
                           \cup Starting \cup Working]
    BY <1>13 DEF Evaluate, TypeOK, Working
  <2> QED
    BY <1>13, <2>2, <2>3 DEF Evaluate, TypeOK
<1>14. ASSUME NEW c \in Call, RecordUnavailable(c) PROVE TypeOK'
  <2>1. local[c].now \in Time
    BY DEF TypeOK, Local
  <2>2. retryAfter' \in [Attempt -> 0..(MaxClock + RetryDelay) \cup {NoTime}]
    BY <1>14, <2>1, RetryTyped DEF RecordUnavailable, TypeOK
  <2> QED
    BY <1>14, <2>2, FinishTyped DEF RecordUnavailable, TypeOK, Unfinished
<1>15. ASSUME NEW c \in Call, CompleteAttempt(c) PROVE TypeOK'
  <2>1. CASE Refuse(c)
    BY <2>1, RefuseTyped
  <2>2. CASE ~Refuse(c)
    <3>1. attemptRow' \in [Attempt -> Actor \cup {Free}]
      BY <1>15, <2>2 DEF CompleteAttempt, TypeOK
    <3>2. pc' \in [Actor -> {"idle", "liveness", "confirm", "claim", "scan", "lock"}
                             \cup Starting \cup Working]
      BY <1>15, <2>2 DEF CompleteAttempt, TypeOK, Working
    <3> QED
      BY <1>15, <2>2, <3>1, <3>2 DEF CompleteAttempt, TypeOK
  <2> QED
    BY <2>1, <2>2
<1>16. ASSUME NEW c \in Call, DecideUser(c) PROVE TypeOK'
  BY <1>16 DEF DecideUser, TypeOK, Working
<1>17. ASSUME NEW c \in Call, CommitDecision(c) PROVE TypeOK'
  <2>1. local[c].now \in Time /\ local[c].verdict \in Verdict
    BY DEF TypeOK, Local
  <2>2. retryAfter' \in [Attempt -> 0..(MaxClock + RetryDelay) \cup {NoTime}]
    BY <1>17, <2>1, RetryTyped DEF CommitDecision, TypeOK
  <2>3. userStatus' \in UserStatus /\ idVerified' \in BOOLEAN
    BY <1>17, <2>1 DEF CommitDecision, UserStatusOf, UserStatus, Verdict, TypeOK
  <2> QED
    BY <1>17, <2>1, <2>2, <2>3, FinishTyped DEF CommitDecision, TypeOK
<1>18. ASSUME NEW j \in Job, JobSelect(j) PROVE TypeOK'
  BY <1>18 DEF JobSelect, StaleAttempts, TypeOK
<1>19. ASSUME NEW j \in Job, JobScan(j) PROVE TypeOK'
  BY <1>19 DEF JobScan, TypeOK
<1>20. ASSUME NEW j \in Job, NEW a \in Attempt, JobLock(j, a) PROVE TypeOK'
  BY <1>20 DEF JobLock, TypeOK
<1>21. ASSUME NEW j \in Job, JobCommit(j) PROVE TypeOK'
  BY <1>21 DEF JobCommit, FreeRows, TypeOK
<1>22. ASSUME NEW c \in Call, Abandon(c) PROVE TypeOK'
  BY <1>22, RefuseTyped DEF Abandon
<1>23. ASSUME NEW j \in Job, JobFails(j) PROVE TypeOK'
  BY <1>23 DEF JobFails, FreeRows, TypeOK
<1>24. ASSUME NEW a \in Attempt, MediaDeleted(a) PROVE TypeOK'
  BY <1>24 DEF MediaDeleted, TypeOK
<1>25. CASE Tick
  BY <1>25 DEF Tick, TypeOK
<1>26. CASE UNCHANGED vars
  BY <1>26 DEF vars, TypeOK
<1> QED
  BY <1>1, <1>2, <1>3, <1>4, <1>5, <1>6, <1>7, <1>8, <1>9, <1>10, <1>11, <1>12,
     <1>13, <1>14, <1>15, <1>16, <1>17, <1>18, <1>19, <1>20, <1>21, <1>22, <1>23,
     <1>24, <1>25, <1>26 DEF Next, Begin, CallStep, JobStep
-----------------------------------------------------------------------------
(* The inductive invariant                                                 *)

\* The attempt a call works on was claimed by it and by no other; the stale
\* attempt job may have expired it since.
ClaimsOK ==
  \A c \in Call :
    /\ pc[c] \in Working \cup {"claim"} => local[c].target \in Attempt
    /\ pc[c] \in Working => status[local[c].target] \in {"PROCESSING", "EXPIRED"}

\* A call that is deciding holds the attempt's row, which stays PROCESSING, and
\* the job holds only rows it may expire.
RowsOK ==
  /\ \A c \in Call : pc[c] \in {"decideUser", "decide"} =>
       attemptRow[local[c].target] = c /\ status[local[c].target] = "PROCESSING"
  /\ \A a \in Attempt : attemptRow[a] \in Job => Expirable(status[a])

IInv == TypeOK /\ ClaimsOK /\ RowsOK /\ OneEvaluator /\ VerifiedByPass

LEMMA Base == Init => IInv
<1> SUFFICES ASSUME Init PROVE IInv
  OBVIOUS
<1>1. \A c \in Call : pc[c] = "idle"
  BY DEF Init
<1>2. ClaimsOK /\ OneEvaluator
  BY <1>1 DEF ClaimsOK, OneEvaluator, Working
<1>3. RowsOK
  BY <1>1 DEF RowsOK, Init
<1>4. VerifiedByPass
  BY DEF VerifiedByPass, Init
<1> QED
  BY <1>2, <1>3, <1>4, TypeInit DEF IInv

\* A call that ends without writing a status disturbs nothing.
LEMMA FinishSafe ==
  ASSUME IInv, NEW c \in Call, Finish(c), UNCHANGED <<status, userVars>>
  PROVE  ClaimsOK' /\ RowsOK' /\ OneEvaluator' /\ VerifiedByPass'
<1> USE DEF Finish, FreeRows, Goto, userVars
<1>1. /\ pc'[c] = "idle"
      /\ \A d \in Call \ {c} : pc'[d] = pc[d] /\ local'[d] = local[d]
  BY DEF IInv, TypeOK
<1>2. \A a \in Attempt : attemptRow'[a] = IF attemptRow[a] = c THEN Free ELSE attemptRow[a]
  OBVIOUS
<1>3. status' = status /\ userStatus' = userStatus /\ idVerified' = idVerified
  OBVIOUS
<1> HIDE DEF Finish, FreeRows, Goto, Attempt
<1>4. ClaimsOK'
  BY <1>1, <1>3 DEF IInv, ClaimsOK, Working
<1>5. RowsOK'
  BY <1>1, <1>2, <1>3 DEF IInv, ClaimsOK, RowsOK, Working
<1>6. OneEvaluator'
  BY <1>1 DEF IInv, OneEvaluator, Working
<1>7. VerifiedByPass'
  BY <1>3 DEF IInv, VerifiedByPass
<1> QED
  BY <1>4, <1>5, <1>6, <1>7

\* A step that touches no attempt's status, no user and no attempt's row, and
\* leaves every call where it was or somewhere it holds no claim.
Harmless ==
  /\ status' = status /\ userStatus' = userStatus /\ idVerified' = idVerified
  /\ attemptRow' = attemptRow
  /\ \A d \in Call :
       \/ pc'[d] = pc[d] /\ local'[d] = local[d]
       \/ pc'[d] \notin Working \cup {"claim"}
       \/ pc'[d] = "claim" /\ local'[d].target \in Attempt

LEMMA HarmlessSafe ==
  ASSUME IInv, Harmless
  PROVE  ClaimsOK' /\ RowsOK' /\ OneEvaluator' /\ VerifiedByPass'
<1> HIDE DEF Attempt
<1>1. ClaimsOK'
  BY DEF IInv, ClaimsOK, Harmless, Working
<1>2. RowsOK'
  BY DEF IInv, RowsOK, Harmless, Working
<1>3. OneEvaluator'
  BY DEF IInv, OneEvaluator, Harmless, Working
<1>4. VerifiedByPass'
  BY DEF IInv, VerifiedByPass, Harmless
<1> QED
  BY <1>1, <1>2, <1>3, <1>4

LEMMA RefuseSafe ==
  ASSUME IInv, NEW c \in Call, Refuse(c)
  PROVE  ClaimsOK' /\ RowsOK' /\ OneEvaluator' /\ VerifiedByPass'
  BY FinishSafe DEF Refuse, attemptVars, userVars

\* The writes that end a call: what it wrote about its own attempt while no
\* other call worked on it, and possibly about the user.
LEMMA OwnWriteSafe ==
  ASSUME IInv, NEW c \in Call, Finish(c), pc[c] \in Working,
         NEW s, status' = [status EXCEPT ![local[c].target] = s],
         attemptRow[local[c].target] \in {Free, c},
         status[local[c].target] # "PASSED",
         \/ s = "PASSED"
         \/ userStatus' \in {userStatus, "PENDING", "RETRY_REQUIRED", "REVIEW_REQUIRED"}
            /\ idVerified' = idVerified
  PROVE  ClaimsOK' /\ RowsOK' /\ OneEvaluator' /\ VerifiedByPass'
<1> DEFINE a == local[c].target
<1>1. a \in Attempt
  BY DEF IInv, ClaimsOK
<1>2. /\ pc'[c] = "idle"
      /\ \A d \in Call \ {c} : pc'[d] = pc[d] /\ local'[d] = local[d]
  BY DEF IInv, TypeOK, Finish, Goto
<1>3. /\ \A b \in Attempt : attemptRow'[b] = IF attemptRow[b] = c THEN Free ELSE attemptRow[b]
      /\ c \notin Job
  BY DEF Finish, FreeRows
<1>4. status'[a] = s /\ \A b \in Attempt \ {a} : status'[b] = status[b]
  BY <1>1 DEF IInv, TypeOK
<1> HIDE DEF Attempt, a, Finish
<1>5. \A d \in Call \ {c} : pc[d] \in Working => local[d].target # a
  BY DEF IInv, OneEvaluator, a
<1>6. ClaimsOK'
  BY <1>2, <1>4, <1>5 DEF IInv, ClaimsOK, Working
<1>7. RowsOK'
  <2>1. attemptRow'[a] = Free
    BY <1>1, <1>3 DEF a
  <2>2. \A d \in Call : pc'[d] \in {"decideUser", "decide"} =>
           attemptRow'[local'[d].target] = d /\ status'[local'[d].target] = "PROCESSING"
    BY <1>2, <1>3, <1>4, <1>5 DEF IInv, ClaimsOK, RowsOK, Working
  <2>3. \A b \in Attempt : attemptRow'[b] \in Job => Expirable(status'[b])
    BY <1>3, <1>4, <2>1 DEF IInv, RowsOK
  <2> QED
    BY <2>2, <2>3 DEF RowsOK
<1>8. OneEvaluator'
  BY <1>2 DEF IInv, OneEvaluator, Working
<1>9. VerifiedByPass'
  <2>1. CASE s = "PASSED"
    BY <1>1, <1>4, <2>1 DEF VerifiedByPass
  <2>2. CASE s # "PASSED"
    BY <1>1, <1>4, <2>2 DEF IInv, VerifiedByPass, a
  <2> QED
    BY <2>1, <2>2
<1> QED
  BY <1>6, <1>7, <1>8, <1>9

LEMMA Step ==
  ASSUME IInv, [Next]_vars
  PROVE  ClaimsOK' /\ RowsOK' /\ OneEvaluator' /\ VerifiedByPass'
<1> DEFINE Safe == ClaimsOK' /\ RowsOK' /\ OneEvaluator' /\ VerifiedByPass'
<1> SUFFICES Safe
  OBVIOUS
<1> USE DEF userVars, attemptVars, evidence, rowVars, Goto
<1>1. pc \in [Actor -> {"idle", "liveness", "confirm", "claim", "scan", "lock"}
                          \cup Starting \cup Working]
  BY DEF IInv, TypeOK
<1>2. local \in [Call -> Local]
  BY DEF IInv, TypeOK
<1>3. ASSUME NEW c \in Call, NEW l \in {"idle"} \cup Starting, Goto(c, l),
             \A d \in Call \ {c} : local'[d] = local[d],
             UNCHANGED <<userVars, attemptVars, attemptRow>>
      PROVE  Safe
  BY <1>1, <1>3, HarmlessSafe DEF Harmless, Starting, Working
<1>4. ASSUME NEW c \in Call, StartRead(c) PROVE Safe
  BY <1>2, <1>3, <1>4 DEF StartRead, Starting
<1>5. ASSUME NEW c \in Call, StartCount(c) PROVE Safe
  BY <1>3, <1>5, RefuseSafe DEF StartCount, Starting
<1>6. ASSUME NEW c \in Call, StartActive(c) PROVE Safe
  BY <1>3, <1>6, RefuseSafe DEF StartActive, Starting
<1>7. ASSUME NEW c \in Call, StartLatest(c) PROVE Safe
  <2>1. CASE Refuse(c)
    BY <2>1, RefuseSafe
  <2>2. CASE /\ \E n : local' = [local EXCEPT ![c].next = n]
             /\ Goto(c, "insert")
             /\ UNCHANGED <<userVars, attemptVars, attemptRow>>
    BY <1>2, <1>3, <2>2 DEF Starting
  <2> QED
    BY <1>7, <2>1, <2>2 DEF StartLatest
<1>8. ASSUME NEW c \in Call, StartInsert(c) PROVE Safe
  BY <1>3, <1>8, RefuseSafe DEF StartInsert, Starting
<1>9. ASSUME NEW c \in Call, StartTouchUser(c) PROVE Safe
  BY <1>3, <1>9 DEF StartTouchUser, Starting
<1>10. ASSUME NEW c \in Call, StartCommit(c) PROVE Safe
  <2>1. PICK a \in Attempt \ Created : status' = [status EXCEPT ![a] = "MEDIA_PENDING"]
    BY <1>10 DEF StartCommit
  <2>2. /\ pc'[c] = "idle" /\ pc[c] = "create"
        /\ \A d \in Call \ {c} : pc'[d] = pc[d] /\ local'[d] = local[d]
    BY <1>1, <1>2, <1>10 DEF StartCommit, Finish
  <2>3. \A b \in Attempt : attemptRow'[b] = IF attemptRow[b] = c THEN Free ELSE attemptRow[b]
    BY <1>10 DEF StartCommit, Finish, FreeRows
  <2>4. /\ status[a] = "none" /\ status'[a] = "MEDIA_PENDING"
        /\ \A b \in Attempt \ {a} : status'[b] = status[b]
    BY <2>1 DEF Created, IInv, TypeOK
  <2>5. userStatus' = "PENDING" /\ idVerified' = idVerified /\ c \notin Job
    BY <1>10 DEF StartCommit
  <2> HIDE DEF Attempt
  <2>6. ClaimsOK'
    BY <2>2, <2>4 DEF IInv, ClaimsOK, Working
  <2>7. RowsOK'
    BY <2>2, <2>3, <2>4, <2>5 DEF IInv, RowsOK, ClaimsOK, Working, Expirable, Unfinished
  <2>8. OneEvaluator'
    BY <2>2 DEF IInv, OneEvaluator, Working
  <2>9. VerifiedByPass'
    BY <2>4, <2>5 DEF IInv, VerifiedByPass
  <2> QED
    BY <2>6, <2>7, <2>8, <2>9
<1>11. ASSUME NEW c \in Call, NEW a \in Attempt, NEW step \in {"liveness", "confirm"},
              EvidenceRead(c, a, step) PROVE Safe
  <2>1. Harmless
    BY <1>1, <1>2, <1>11 DEF EvidenceRead, Harmless, Working
  <2> QED
    BY <2>1, HarmlessSafe
<1>12. ASSUME NEW c \in Call, StoreLiveness(c) \/ StoreMedia(c) PROVE Safe
  BY <1>12, FinishSafe DEF StoreLiveness, StoreMedia
<1>13. ASSUME NEW c \in Call, NEW a \in Attempt, SubmitRead(c, a) PROVE Safe
  <2>1. local'[c].target = a /\ \A d \in Call \ {c} : local'[d] = local[d]
    BY <1>2, <1>13 DEF SubmitRead, Local
  <2>2. Harmless
    BY <1>1, <1>13, <2>1 DEF SubmitRead, Harmless, Working
  <2> QED
    BY <2>2, HarmlessSafe
<1>14. ASSUME NEW c \in Call, SubmitClaim(c) PROVE Safe
  <2>1. CASE Refuse(c)
    BY <2>1, RefuseSafe
  <2>2. CASE ~Refuse(c)
    <3> DEFINE a == local[c].target
    <3>1. a \in Attempt /\ attemptRow[a] = Free /\ status[a] \in Submittable
      BY <1>2, <1>14, <2>2 DEF SubmitClaim, Claimable, Local, IInv, ClaimsOK
    <3>2. status'[a] = "PROCESSING" /\ \A b \in Attempt \ {a} : status'[b] = status[b]
      BY <1>14, <2>2, <3>1 DEF SubmitClaim, IInv, TypeOK
    <3>3. /\ pc[c] = "claim" /\ pc'[c] = "evaluate" /\ \A d \in Call \ {c} : pc'[d] = pc[d]
          /\ local' = local /\ attemptRow' = attemptRow
          /\ userStatus' = userStatus /\ idVerified' = idVerified
      BY <1>1, <1>14, <2>2 DEF SubmitClaim
    <3> HIDE DEF Attempt
    <3>4. \A d \in Call : pc[d] \in Working => local[d].target # a
      BY <3>1 DEF IInv, ClaimsOK, Submittable
    <3>5. ClaimsOK'
      BY <3>1, <3>2, <3>3 DEF IInv, ClaimsOK, Working
    <3>6. RowsOK'
      BY <3>1, <3>2, <3>3, <3>4 DEF IInv, RowsOK, ClaimsOK, Working, Expirable, Unfinished
    <3>7. OneEvaluator'
      BY <3>3, <3>4 DEF IInv, OneEvaluator, Working
    <3>8. VerifiedByPass'
      BY <3>1, <3>2, <3>3 DEF IInv, VerifiedByPass, Submittable
    <3> QED
      BY <3>5, <3>6, <3>7, <3>8
  <2> QED
    BY <2>1, <2>2
<1>15. ASSUME NEW c \in Call, Evaluate(c) PROVE Safe
  <2>1. /\ pc[c] = "evaluate" /\ pc'[c] \in {"complete", "unavailable"}
        /\ \A d \in Call \ {c} : pc'[d] = pc[d]
    BY <1>1, <1>15 DEF Evaluate
  <2>2. \A d \in Call : local'[d].target = local[d].target
    <3>1. CASE local' = [local EXCEPT ![c].now = clock]
      BY <1>2, <3>1 DEF Local
    <3>2. CASE \E v \in Verdict : local' = [local EXCEPT ![c].verdict = v, ![c].now = clock]
      BY <1>2, <3>2 DEF Local
    <3> QED
      BY <1>15, <3>1, <3>2 DEF Evaluate
  <2>3. UNCHANGED <<userVars, attemptVars, attemptRow>>
    BY <1>15 DEF Evaluate
  <2> HIDE DEF Attempt
  <2>4. ClaimsOK' /\ RowsOK' /\ VerifiedByPass'
    BY <2>1, <2>2, <2>3 DEF IInv, ClaimsOK, RowsOK, VerifiedByPass, Working
  <2>5. OneEvaluator'
    BY <2>1, <2>2 DEF IInv, OneEvaluator, Working
  <2> QED
    BY <2>4, <2>5
<1>16. ASSUME NEW c \in Call, RecordUnavailable(c) PROVE Safe
  <2>1. status[local[c].target] # "PASSED" /\ pc[c] \in Working
    BY <1>16 DEF RecordUnavailable, IInv, ClaimsOK, Working
  <2> QED
    BY <1>16, <2>1, OwnWriteSafe DEF RecordUnavailable
<1>17. ASSUME NEW c \in Call, CompleteAttempt(c) PROVE Safe
  <2>1. CASE Refuse(c)
    BY <2>1, RefuseSafe
  <2>2. CASE ~Refuse(c)
    <3> DEFINE a == local[c].target
    <3>1. a \in Attempt /\ attemptRow[a] = Free /\ status[a] = "PROCESSING" /\ c \notin Job
      BY <1>17, <2>2 DEF CompleteAttempt, IInv, ClaimsOK, Working
    <3>2. attemptRow'[a] = c /\ \A b \in Attempt \ {a} : attemptRow'[b] = attemptRow[b]
      BY <1>17, <2>2, <3>1 DEF CompleteAttempt, IInv, TypeOK
    <3>3. /\ pc[c] = "complete" /\ pc'[c] = "decideUser" /\ \A d \in Call \ {c} : pc'[d] = pc[d]
          /\ local' = local /\ status' = status
          /\ userStatus' = userStatus /\ idVerified' = idVerified
      BY <1>1, <1>17, <2>2 DEF CompleteAttempt
    <3> HIDE DEF Attempt
    <3>4. ClaimsOK' /\ VerifiedByPass'
      BY <3>3 DEF IInv, ClaimsOK, VerifiedByPass, Working
    <3>5. RowsOK'
      BY <3>1, <3>2, <3>3 DEF IInv, ClaimsOK, RowsOK, Working, OneEvaluator
    <3>6. OneEvaluator'
      BY <3>3 DEF IInv, OneEvaluator, Working
    <3> QED
      BY <3>4, <3>5, <3>6
  <2> QED
    BY <2>1, <2>2
<1>18. ASSUME NEW c \in Call, DecideUser(c) PROVE Safe
  <2>1. /\ pc[c] = "decideUser" /\ pc'[c] = "decide" /\ \A d \in Call \ {c} : pc'[d] = pc[d]
        /\ local' = local /\ UNCHANGED <<userVars, attemptVars, attemptRow>>
    BY <1>1, <1>18 DEF DecideUser
  <2> HIDE DEF Attempt
  <2>2. ClaimsOK' /\ RowsOK' /\ VerifiedByPass'
    BY <2>1 DEF IInv, ClaimsOK, RowsOK, VerifiedByPass, Working
  <2>3. OneEvaluator'
    BY <2>1 DEF IInv, OneEvaluator, Working
  <2> QED
    BY <2>2, <2>3
<1>19. ASSUME NEW c \in Call, CommitDecision(c) PROVE Safe
  <2>1. /\ pc[c] \in Working /\ attemptRow[local[c].target] = c
        /\ status[local[c].target] # "PASSED"
    BY <1>19 DEF CommitDecision, IInv, RowsOK, Working
  <2>2. local[c].verdict \in Verdict
    BY <1>2 DEF Local
  <2>3. \/ local[c].verdict = "PASSED"
        \/ userStatus' \in {"RETRY_REQUIRED", "REVIEW_REQUIRED"} /\ idVerified' = idVerified
    <3>1. \/ local[c].verdict = "PASSED"
          \/ UserStatusOf(local[c].verdict) \in {"RETRY_REQUIRED", "REVIEW_REQUIRED"}
      BY <2>2 DEF UserStatusOf, Verdict
    <3>2. /\ userStatus' = UserStatusOf(local[c].verdict)
          /\ idVerified' = (idVerified \/ UserStatusOf(local[c].verdict) = "VERIFIED")
          /\ idVerified \in BOOLEAN
      BY <1>19, Zenon DEF CommitDecision, IInv, TypeOK
    <3>3. CASE UserStatusOf(local[c].verdict) \in {"RETRY_REQUIRED", "REVIEW_REQUIRED"}
      <4>1. idVerified' = idVerified
        BY <3>2, <3>3
      <4> QED
        BY <3>2, <3>3, <4>1
    <3> QED
      BY <3>1, <3>3
  <2> QED
    BY <1>19, <2>1, <2>3, OwnWriteSafe DEF CommitDecision
<1>20. ASSUME NEW j \in Job, JobSelect(j) \/ JobScan(j) PROVE Safe
  <2>1. Harmless
    BY <1>1, <1>20 DEF JobSelect, JobScan, Harmless
  <2> QED
    BY <2>1, HarmlessSafe
<1>21. ASSUME NEW j \in Job, NEW a \in Attempt, JobLock(j, a) PROVE Safe
  <2>1. /\ attemptRow[a] = Free
        /\ \/ attemptRow' = attemptRow
           \/ Expirable(status[a]) /\ attemptRow' = [attemptRow EXCEPT ![a] = j]
        /\ pc' = pc /\ local' = local /\ UNCHANGED <<userVars, attemptVars>>
    <3>1. /\ attemptRow[a] = Free /\ pc' = pc /\ local' = local
          /\ UNCHANGED <<userVars, attemptVars>>
      BY <1>21 DEF JobLock
    <3>2. CASE Expirable(status[a])
      BY <1>21, <3>1, <3>2 DEF JobLock, StillExpirable
    <3>3. CASE ~Expirable(status[a])
      BY <1>21, <3>1, <3>3 DEF JobLock, StillExpirable
    <3> QED
      BY <3>2, <3>3
  <2>2. ClaimsOK' /\ OneEvaluator' /\ VerifiedByPass'
    BY <2>1 DEF IInv, ClaimsOK, OneEvaluator, VerifiedByPass
  <2>3. RowsOK'
    <3>1. CASE attemptRow' = attemptRow
      BY <2>1, <3>1 DEF IInv, RowsOK
    <3>2. CASE Expirable(status[a]) /\ attemptRow' = [attemptRow EXCEPT ![a] = j]
      <4>1. attemptRow'[a] = j /\ \A b \in Attempt \ {a} : attemptRow'[b] = attemptRow[b]
        BY <3>2 DEF IInv, TypeOK
      <4> HIDE DEF Attempt
      <4>2. \A d \in Call : pc[d] \in {"decideUser", "decide"} => local[d].target # a
        BY <2>1 DEF IInv, RowsOK
      <4> QED
        BY <2>1, <3>2, <4>1, <4>2 DEF IInv, ClaimsOK, RowsOK, Working
    <3> QED
      BY <2>1, <3>1, <3>2
  <2> QED
    BY <2>2, <2>3
<1>22. ASSUME NEW j \in Job, JobCommit(j) PROVE Safe
  <2>1. /\ \A a \in Attempt : status'[a] = IF attemptRow[a] = j THEN "EXPIRED" ELSE status[a]
        /\ \A a \in Attempt : attemptRow'[a] = IF attemptRow[a] = j THEN Free ELSE attemptRow[a]
        /\ \A c \in Call : pc'[c] = pc[c]
        /\ local' = local /\ UNCHANGED userVars /\ j \notin Call
    BY <1>1, <1>22 DEF JobCommit, FreeRows
  <2>2. \A a \in Attempt : attemptRow[a] = j => status[a] # "PASSED"
    BY DEF IInv, RowsOK, Expirable, Unfinished
  <2> HIDE DEF Attempt
  <2>3. ClaimsOK'
    BY <2>1 DEF IInv, ClaimsOK
  <2>4. RowsOK'
    BY <2>1 DEF IInv, ClaimsOK, RowsOK, Working
  <2>5. OneEvaluator'
    BY <2>1 DEF IInv, OneEvaluator
  <2>6. VerifiedByPass'
    BY <2>1, <2>2 DEF IInv, VerifiedByPass
  <2> QED
    BY <2>3, <2>4, <2>5, <2>6
<1>23. ASSUME NEW j \in Job, JobFails(j) PROVE Safe
  <2>1. /\ \A a \in Attempt : attemptRow'[a] = IF attemptRow[a] = j THEN Free ELSE attemptRow[a]
        /\ \A c \in Call : pc'[c] = pc[c]
        /\ local' = local /\ UNCHANGED <<userVars, attemptVars>> /\ j \notin Call
    BY <1>1, <1>23 DEF JobFails, FreeRows
  <2> HIDE DEF Attempt
  <2>2. ClaimsOK' /\ OneEvaluator' /\ VerifiedByPass'
    BY <2>1 DEF IInv, ClaimsOK, OneEvaluator, VerifiedByPass
  <2>3. RowsOK'
    BY <2>1 DEF IInv, ClaimsOK, RowsOK, Working
  <2> QED
    BY <2>2, <2>3
<1>24. ASSUME NEW c \in Call, Abandon(c) PROVE Safe
  BY <1>24, RefuseSafe DEF Abandon
<1>25. CASE Tick \/ (\E a \in Attempt : MediaDeleted(a)) \/ UNCHANGED vars
  <2>1. Harmless
    BY <1>25 DEF Tick, MediaDeleted, vars, Harmless
  <2> QED
    BY <2>1, HarmlessSafe
<1> QED
  BY <1>4, <1>5, <1>6, <1>7, <1>8, <1>9, <1>10, <1>11, <1>12, <1>13, <1>14, <1>15,
     <1>16, <1>17, <1>18, <1>19, <1>20, <1>21, <1>22, <1>23, <1>24, <1>25
     DEF Next, Begin, CallStep, JobStep

LEMMA Invariance == Spec => []IInv
<1>1. IInv /\ [Next]_vars => IInv'
  <2> SUFFICES ASSUME IInv, [Next]_vars PROVE IInv'
    OBVIOUS
  <2>1. TypeOK'
    BY TypeStep DEF IInv
  <2> QED
    BY <2>1, Step DEF IInv
<1> QED
  BY Base, <1>1, PTL DEF Spec

-----------------------------------------------------------------------------
(* Theorems                                                                *)

\* Every variable keeps its type, for every number of calls and attempts.
THEOREM TypeCorrect == Spec => []TypeOK
<1>1. IInv => TypeOK
  BY DEF IInv
<1> QED
  BY Invariance, <1>1, PTL

\* Retried and concurrent submits never have one attempt evaluated twice at once.
THEOREM SingleEvaluation == Spec => []OneEvaluator
<1>1. IInv => OneEvaluator
  BY DEF IInv
<1> QED
  BY Invariance, <1>1, PTL

\* A user who counts as verified has an attempt that passed.
THEOREM VerifiedOnlyByPass == Spec => []VerifiedByPass
<1>1. IInv => VerifiedByPass
  BY DEF IInv
<1> QED
  BY Invariance, <1>1, PTL

\* What a step does to the attempts and the user, seen from outside: nothing,
\* the start of an attempt, or the decision of an undecided one.
LEMMA Effect ==
  ASSUME IInv, [Next]_vars
  PROVE  \/ userStatus' \in {userStatus, "PENDING"} /\ Outcome' = Outcome
         \/ \E c \in Call : /\ CommitDecision(c)
                            /\ local[c].target \in Attempt
                            /\ status[local[c].target] = "PROCESSING"
                            /\ local[c].verdict \in Verdict
<1> USE DEF userVars, attemptVars
<1>1. ASSUME \A a \in Attempt : status'[a] = status[a] \/ {status[a], status'[a]} \cap Verdict = {}
      PROVE  Outcome' = Outcome
  BY <1>1 DEF Outcome
<1>2. ASSUME UNCHANGED <<status, userStatus>>
      PROVE  userStatus' \in {userStatus, "PENDING"} /\ Outcome' = Outcome
  BY <1>1, <1>2
<1>3. ASSUME NEW c \in Call, NEW s \in {"PROCESSING", "PROVIDER_UNAVAILABLE"},
             local[c].target \in Attempt, status[local[c].target] \notin Verdict,
             status' = [status EXCEPT ![local[c].target] = s], userStatus' = userStatus
      PROVE  userStatus' \in {userStatus, "PENDING"} /\ Outcome' = Outcome
  <2>1. \A a \in Attempt : status'[a] = IF a = local[c].target THEN s ELSE status[a]
    BY <1>3 DEF IInv, TypeOK
  <2>2. s \notin Verdict
    BY DEF Verdict
  <2> HIDE DEF Attempt
  <2> QED
    BY <1>1, <1>3, <2>1, <2>2
<1>4. ASSUME NEW c \in Call, StartCommit(c)
      PROVE  userStatus' \in {userStatus, "PENDING"} /\ Outcome' = Outcome
  <2>1. PICK a \in Attempt \ Created : status' = [status EXCEPT ![a] = "MEDIA_PENDING"]
    BY <1>4 DEF StartCommit
  <2>2. /\ status[a] = "none"
        /\ \A b \in Attempt : status'[b] = IF b = a THEN "MEDIA_PENDING" ELSE status[b]
    BY <2>1 DEF Created, IInv, TypeOK
  <2>3. Outcome' = Outcome
    BY <1>1, <2>2 DEF Verdict
  <2> QED
    BY <1>4, <2>3 DEF StartCommit
<1>5. ASSUME NEW c \in Call, SubmitClaim(c)
      PROVE  userStatus' \in {userStatus, "PENDING"} /\ Outcome' = Outcome
  <2>1. /\ local[c].target \in Attempt
        /\ Claimable(c) => status[local[c].target] \notin Verdict
    <3>1. pc[c] = "claim" /\ local[c].seen \in Submittable
      BY <1>5 DEF SubmitClaim, IInv, TypeOK, Local
    <3>2. local[c].target \in Attempt
      BY <3>1 DEF IInv, ClaimsOK
    <3>3. Submittable \cap Verdict = {}
      BY DEF Submittable, Verdict
    <3> QED
      BY <3>1, <3>2, <3>3 DEF Claimable
  <2> QED
    BY <1>2, <1>3, <1>5, <2>1 DEF SubmitClaim, Refuse
<1>6. ASSUME NEW c \in Call, RecordUnavailable(c)
      PROVE  userStatus' \in {userStatus, "PENDING"} /\ Outcome' = Outcome
  <2>1. local[c].target \in Attempt /\ status[local[c].target] \notin Verdict
    BY <1>6 DEF RecordUnavailable, IInv, ClaimsOK, Working, Verdict
  <2> QED
    BY <1>3, <1>6, <2>1 DEF RecordUnavailable
<1>7. ASSUME NEW c \in Call, CommitDecision(c)
      PROVE  /\ local[c].target \in Attempt
             /\ status[local[c].target] = "PROCESSING"
             /\ local[c].verdict \in Verdict
  BY <1>7 DEF CommitDecision, IInv, TypeOK, Local, ClaimsOK, RowsOK, Working
<1>8. ASSUME NEW j \in Job, JobCommit(j)
      PROVE  userStatus' \in {userStatus, "PENDING"} /\ Outcome' = Outcome
  <2>1. \A a \in Attempt : status'[a] = IF attemptRow[a] = j THEN "EXPIRED" ELSE status[a]
    BY <1>8 DEF JobCommit
  <2>2. \A a \in Attempt : attemptRow[a] = j => status[a] \notin Verdict
    BY DEF IInv, RowsOK, Expirable, Unfinished, Verdict
  <2>3. "EXPIRED" \notin Verdict
    BY DEF Verdict
  <2>4. Outcome' = Outcome
    <3> HIDE DEF Attempt
    <3> QED
      BY <1>1, <2>1, <2>2, <2>3
  <2> QED
    BY <1>8, <2>4 DEF JobCommit
<1>9. ASSUME NEW c \in Call,
             \/ StartRead(c) \/ StartCount(c) \/ StartActive(c) \/ StartLatest(c)
             \/ StartInsert(c) \/ StartTouchUser(c) \/ StoreLiveness(c) \/ StoreMedia(c)
             \/ Evaluate(c) \/ CompleteAttempt(c) \/ DecideUser(c) \/ Abandon(c)
      PROVE  UNCHANGED <<status, userStatus>>
  BY <1>9 DEF StartRead, StartCount, StartActive, StartLatest, StartInsert, StartTouchUser,
     StoreLiveness, StoreMedia, Evaluate, CompleteAttempt, DecideUser, Abandon, Refuse
<1>10. ASSUME NEW c \in Call, NEW a \in Attempt,
              \/ \E step \in {"liveness", "confirm"} : EvidenceRead(c, a, step)
              \/ SubmitRead(c, a)
       PROVE  UNCHANGED <<status, userStatus>>
  BY <1>10 DEF EvidenceRead, SubmitRead
<1>11. ASSUME \/ \E j \in Job : JobSelect(j) \/ JobScan(j) \/ JobFails(j)
                                  \/ \E a \in Attempt : JobLock(j, a)
              \/ Tick \/ (\E a \in Attempt : MediaDeleted(a)) \/ UNCHANGED vars
       PROVE  UNCHANGED <<status, userStatus>>
  BY <1>11 DEF JobSelect, JobScan, JobFails, JobLock, Tick, MediaDeleted, vars
<1> HIDE DEF Attempt, Actor, SlotAssumption, LimitAssumption
<1> QED
  BY <1>2, <1>4, <1>5, <1>6, <1>7, <1>8, <1>9, <1>10, <1>11 DEF Next, Begin, CallStep, JobStep

\* A decision changes its own attempt, from undecided to the verdict.
LEMMA DecisionEffect ==
  ASSUME IInv, NEW c \in Call, CommitDecision(c), local[c].target \in Attempt
  PROVE  /\ status' = [status EXCEPT ![local[c].target] = local[c].verdict]
         /\ userStatus' = UserStatusOf(local[c].verdict)
         /\ \A a \in Attempt : status'[a] = IF a = local[c].target THEN local[c].verdict
                                            ELSE status[a]
  BY DEF CommitDecision, IInv, TypeOK

\* A recorded outcome is final: no late answer, retry or job changes it.
THEOREM OutcomesAreFinal == Spec => OutcomeIsFinal
<1>1. IInv /\ [Next]_vars => [\A a \in Attempt : status[a] \in Verdict => status'[a] = status[a]]_vars
  <2> SUFFICES ASSUME IInv, [Next]_vars, NEW a \in Attempt, status[a] \in Verdict
               PROVE  status'[a] = status[a]
    OBVIOUS
  <2> HIDE DEF Attempt
  <2>1. CASE Outcome' = Outcome
    <3>1. Outcome[a] = status[a] /\ Outcome'[a] = status[a]
      BY <2>1 DEF Outcome
    <3>2. Outcome'[a] \in {status'[a], "undecided"} /\ "undecided" \notin Verdict
      BY DEF Outcome, Verdict
    <3> QED
      BY <3>1, <3>2
  <2>2. ASSUME NEW c \in Call, CommitDecision(c), local[c].target \in Attempt,
               status[local[c].target] = "PROCESSING"
        PROVE  status'[a] = status[a]
    BY <2>2, DecisionEffect DEF Verdict
  <2> QED
    BY <2>1, <2>2, Effect
<1> QED
  BY Invariance, <1>1, PTL DEF Spec, OutcomeIsFinal

\* Attempts and the user's status implement the ledger: every step of every
\* call and job is a step of the ledger or none.
THEOREM Refinement == Spec => ImplementsLedger
<1>1. Init => Ledger!LedgerInit
  BY DEF Init, Ledger!LedgerInit, Outcome, Verdict
<1>2. IInv /\ [Next]_vars => [Ledger!LedgerNext]_(Ledger!ledger)
  <2> SUFFICES ASSUME IInv, [Next]_vars PROVE [Ledger!LedgerNext]_(Ledger!ledger)
    OBVIOUS
  <2> HIDE DEF Attempt
  <2>1. CASE userStatus' \in {userStatus, "PENDING"} /\ Outcome' = Outcome
    BY <2>1 DEF Ledger!LedgerNext, Ledger!Begin, Ledger!ledger
  <2>2. ASSUME NEW c \in Call, CommitDecision(c), local[c].target \in Attempt,
               status[local[c].target] = "PROCESSING", local[c].verdict \in Verdict
        PROVE  Ledger!Settle(local[c].target, local[c].verdict)
    <3> DEFINE a == local[c].target  v == local[c].verdict
    <3>1. Outcome[a] = "undecided"
      BY <2>2 DEF Outcome, Verdict
    <3>2. Outcome' = [Outcome EXCEPT ![a] = v]
      BY <2>2, DecisionEffect DEF Outcome
    <3>3. userStatus' = Ledger!Standing[v]
      BY <2>2, DecisionEffect DEF UserStatusOf, Verdict, Ledger!Standing, Ledger!Verdict
    <3> QED
      BY <3>1, <3>2, <3>3 DEF Ledger!Settle
  <2> QED
    BY <2>1, <2>2, Effect DEF Ledger!LedgerNext, Ledger!Verdict, Verdict
<1> QED
  BY Invariance, <1>1, <1>2, PTL DEF Spec, ImplementsLedger, Ledger!LedgerSpec
=============================================================================
