---------------------------- MODULE BackgroundProofs ----------------------------
(***************************************************************************)
(* Theorems about what runs beside the requests, for every value of the    *)
(* constants: the components of MCBackground one after the other, and then *)
(* their composition.                                                      *)
(***************************************************************************)
EXTENDS MCBackground, FiniteSetTheorems, SequenceTheorems, WellFoundedInduction, TLAPS

-----------------------------------------------------------------------------
(* RetentionJobs: any number of replicas and rows, any size of a batch     *)

LEMMA JobsAre ==
  /\ Len(Jobs) = 4
  /\ Jobs[1] = "deleteTokens" /\ Jobs[2] = "expireSessions"
  /\ Jobs[3] = "deleteSessions" /\ Jobs[4] = "deleteEvents"
  BY DEF Jobs

LEMMA MinOfTwo ==
  ASSUME NEW a \in Int, NEW b \in Int
  PROVE  Min({a, b}) \in {a, b} /\ Min({a, b}) <= a /\ Min({a, b}) <= b
<1>1. \E x \in {a, b} : \A y \in {a, b} : x =< y
  OBVIOUS
<1> QED
  BY <1>1 DEF Min

\* A batch is a part of what is eligible, no larger than its size.
LEMMA BatchBounds ==
  ASSUME ReplicaAssumption, NEW S, IsFiniteSet(S), NEW B \in Batches(S)
  PROVE  B \subseteq S /\ IsFiniteSet(B) /\ Cardinality(B) <= Batch
<1>1. Cardinality(S) \in Nat
  BY FS_CardinalityType
<1>2. Min({Batch, Cardinality(S)}) <= Batch
  BY <1>1, MinOfTwo DEF ReplicaAssumption
<1>3. B \in SUBSET S /\ Cardinality(B) = Min({Batch, Cardinality(S)})
  BY DEF Batches, kSubset
<1>4. IsFiniteSet(B)
  BY <1>3, FS_Subset
<1> QED
  BY <1>2, <1>3, <1>4

LEMMA EligibleRows ==
  ASSUME RowAssumption, NEW i \in 1..4
  PROVE  Eligible(Jobs[i]) \subseteq Row /\ IsFiniteSet(Eligible(Jobs[i]))
<1>1. Eligible(Jobs[i]) \subseteq Row
  BY JobsAre DEF Eligible, RetainedSessions, RetainedEvents, Row
<1>2. IsFiniteSet(Row)
  BY DEF RowAssumption, Row
<1> QED
  BY <1>1, <1>2, FS_Subset

-------------------------------------------------------------------------------
(* Types                                                                   *)

LEMMA TypeInit == ASSUME RowAssumption, ReplicaAssumption, Init PROVE TypeOK
<1>1. Cardinality({}) = 0 /\ 0 <= Batch
  BY FS_EmptySet DEF ReplicaAssumption
<1>2. \A r \in Replica : Cardinality(picked[r]) <= Batch
  BY <1>1 DEF Init
<1> QED
  BY <1>2, JobsAre DEF Init, TypeOK, ReplicaAssumption

\* The end of a cycle.
LEMMA EndTyped ==
  ASSUME RowAssumption, ReplicaAssumption, TypeOK, NEW r \in Replica, EndCycle(r)
  PROVE  /\ lease' \in Replica \cup {Nobody} /\ owns' \subseteq {q \in Replica : job'[q] # 0}
         /\ job' \in [Replica -> 0..Len(Jobs)] /\ picked' \in [Replica -> SUBSET Row]
         /\ \A q \in Replica : Cardinality(picked'[q]) <= Batch
<1>1. Cardinality({}) <= Batch
  BY FS_EmptySet DEF ReplicaAssumption
<1>2. /\ picked' = [picked EXCEPT ![r] = {}] /\ job' = [job EXCEPT ![r] = 0]
      /\ owns' = owns \ {r} /\ lease' \in {Nobody, lease}
  BY DEF EndCycle, Release
<1> QED
  BY <1>1, <1>2, JobsAre DEF TypeOK

LEMMA AdvanceTyped ==
  ASSUME RowAssumption, ReplicaAssumption, TypeOK, NEW r \in Replica, job[r] # 0, Advance(r)
  PROVE  /\ lease' \in Replica \cup {Nobody} /\ owns' \subseteq {q \in Replica : job'[q] # 0}
         /\ job' \in [Replica -> 0..Len(Jobs)] /\ picked' \in [Replica -> SUBSET Row]
         /\ \A q \in Replica : Cardinality(picked'[q]) <= Batch
         /\ UNCHANGED failures
<1>1. CASE job[r] = Len(Jobs)
  BY <1>1, EndTyped DEF Advance
<1>2. CASE job[r] # Len(Jobs)
  <2>1. Cardinality({}) <= Batch
    BY FS_EmptySet DEF ReplicaAssumption
  <2>2. /\ job' = [job EXCEPT ![r] = @ + 1] /\ picked' = [picked EXCEPT ![r] = {}]
        /\ UNCHANGED <<lease, owns, failures>>
    BY <1>2 DEF Advance
  <2>3. job[r] + 1 \in 0..Len(Jobs) /\ job[r] + 1 # 0
    BY <1>2, JobsAre DEF TypeOK
  <2> QED
    BY <2>1, <2>2, <2>3 DEF TypeOK
<1> QED
  BY <1>1, <1>2

LEMMA TypeStep ==
  ASSUME RowAssumption, ReplicaAssumption, TypeOK, [Next]_vars PROVE TypeOK'
<1> USE DEF lock, rows
<1>1. ASSUME NEW x \in Row, Grow(x) PROVE TypeOK'
  <2>1. age' \in [Row -> 0..2]
    BY <1>1 DEF Grow, TypeOK
  <2> QED
    BY <1>1, <2>1 DEF Grow, TypeOK
<1>2. ASSUME NEW s \in Session, Revoke(s) PROVE TypeOK'
  BY <1>2 DEF Revoke, TypeOK
<1>3. ASSUME NEW e \in Event, Hold(e) PROVE TypeOK'
  <2>1. hold' \subseteq Event /\ safe' \subseteq hold'
    BY <1>3 DEF Hold, TypeOK
  <2> QED
    BY <1>3, <2>1 DEF Hold, TypeOK
<1>4. CASE Lapse
  BY <1>4 DEF Lapse, TypeOK
<1>5. ASSUME NEW r \in Replica, RunCycle(r) PROVE TypeOK'
  <2>1. job' \in [Replica -> 0..Len(Jobs)]
    BY <1>5, JobsAre DEF RunCycle, TypeOK
  <2>2. owns' \subseteq {q \in Replica : job'[q] # 0}
    BY <1>5, JobsAre DEF RunCycle, TypeOK
  <2> QED
    BY <1>5, <2>1, <2>2 DEF RunCycle, TypeOK
<1>6. ASSUME NEW r \in Replica, FailCycle(r) PROVE TypeOK'
  <2>1. failures' \in 0..MaxFailures
    BY <1>6 DEF FailCycle, TypeOK, ReplicaAssumption
  <2> QED
    BY <1>6, <2>1, EndTyped DEF FailCycle, TypeOK
<1>7. ASSUME NEW r \in Replica, Crash(r) PROVE TypeOK'
  <2>1. failures' \in 0..MaxFailures
    BY <1>7 DEF Crash, TypeOK, ReplicaAssumption
  <2>2. Cardinality({}) <= Batch
    BY FS_EmptySet DEF ReplicaAssumption
  <2>3. /\ job' = [job EXCEPT ![r] = 0] /\ picked' = [picked EXCEPT ![r] = {}]
        /\ owns' = owns \ {r} /\ UNCHANGED <<lease, rows>>
    BY <1>7 DEF Crash
  <2>4. job' \in [Replica -> 0..Len(Jobs)] /\ owns' \subseteq {q \in Replica : job'[q] # 0}
    BY <2>3, JobsAre DEF TypeOK
  <2>5. /\ picked' \in [Replica -> SUBSET Row]
        /\ \A q \in Replica : Cardinality(picked'[q]) <= Batch
    BY <2>2, <2>3 DEF TypeOK
  <2> QED
    BY <2>1, <2>3, <2>4, <2>5 DEF TypeOK
<1>8. ASSUME NEW r \in Replica, Select(r) PROVE TypeOK'
  <2>1. CASE Advance(r)
    BY <1>8, <2>1, AdvanceTyped DEF Select, TypeOK
  <2>2. CASE ~Advance(r)
    <3>1. job[r] \in 1..4
      BY <1>8, JobsAre DEF Select, TypeOK
    <3>2. PICK B \in Batches(Eligible(Jobs[job[r]])) : picked' = [picked EXCEPT ![r] = B]
      BY <1>8, <2>2 DEF Select
    <3>3. B \subseteq Row /\ Cardinality(B) <= Batch
      BY <3>1, <3>2, EligibleRows, BatchBounds
    <3>4. /\ picked' \in [Replica -> SUBSET Row]
          /\ \A q \in Replica : Cardinality(picked'[q]) <= Batch
      BY <3>2, <3>3 DEF TypeOK
    <3> QED
      BY <1>8, <2>2, <3>4 DEF Select, TypeOK
  <2> QED
    BY <2>1, <2>2
<1>9. ASSUME NEW r \in Replica, ExpireSessions(r) \/ DeleteByIds(r) PROVE TypeOK'
  <2>1. row' \in [Row -> {"live", "ACTIVE", "EXPIRED", "REVOKED", "deleted"}]
    BY <1>9 DEF ExpireSessions, DeleteByIds, TypeOK
  <2>2. job[r] # 0 /\ Advance(r) /\ UNCHANGED <<age, hold, safe>>
    BY <1>9 DEF ExpireSessions, DeleteByIds
  <2> QED
    BY <2>1, <2>2, AdvanceTyped DEF TypeOK
<1>10. CASE UNCHANGED vars
  BY <1>10 DEF vars, TypeOK
<1> QED
  BY <1>1, <1>2, <1>3, <1>4, <1>5, <1>6, <1>7, <1>8, <1>9, <1>10 DEF Next

\* Every variable of RetentionJobs keeps its type; no cycle picks more rows than a batch.
THEOREM TypeCorrect == ASSUME RowAssumption, ReplicaAssumption PROVE Spec => []TypeOK
  BY TypeInit, TypeStep, PTL DEF Spec

-------------------------------------------------------------------------------
(* One cycle at a time                                                     *)

\* A replica that has not seen its lease lapse holds it.
OwnerLeased == \A r \in owns : lease = r

LEMMA OwnerInit == ASSUME Init PROVE OwnerLeased
  BY DEF Init, OwnerLeased

LEMMA OwnerStep ==
  ASSUME ReplicaAssumption, TypeOK, OwnerLeased, [Next]_vars PROVE OwnerLeased'
<1> USE DEF lock, rows
<1>1. ASSUME NEW r \in Replica, RunCycle(r) PROVE OwnerLeased'
  <2>1. owns = {}
    BY <1>1 DEF RunCycle, OwnerLeased, TypeOK, ReplicaAssumption
  <2> QED
    BY <1>1, <2>1 DEF RunCycle, OwnerLeased
<1>2. ASSUME NEW r \in Replica, EndCycle(r) PROVE OwnerLeased'
  BY <1>2 DEF EndCycle, Release, OwnerLeased
<1>3. ASSUME NEW r \in Replica, Crash(r) PROVE OwnerLeased'
  BY <1>3 DEF Crash, OwnerLeased
<1>4. CASE Lapse
  BY <1>4 DEF Lapse, OwnerLeased
<1>5. CASE UNCHANGED <<lease, owns>>
  BY <1>5 DEF OwnerLeased
<1> QED
  BY <1>1, <1>2, <1>3, <1>4, <1>5
  DEF Next, vars, Grow, Revoke, Hold, FailCycle, Select, Advance, ExpireSessions, DeleteByIds

\* Two cycles run together only when the lease of one has lapsed.
THEOREM CyclesExclude ==
  ASSUME RowAssumption, ReplicaAssumption PROVE Spec => []OneCycleUnlessLapsed
<1>1. OwnerLeased => OneCycleUnlessLapsed
  BY DEF OwnerLeased, OneCycleUnlessLapsed
<1> QED
  BY <1>1, TypeInit, TypeStep, OwnerInit, OwnerStep, PTL DEF Spec

-------------------------------------------------------------------------------
(* What is deleted                                                         *)

\* A session that may be deleted never becomes one that may not.
Ended == {s \in Session : row[s] \in {"EXPIRED", "REVOKED", "deleted"} /\ age[s] = 2}

\* Rows are of their table's states, and what a cycle holds is what its job selects, though
\* a session of it may have been deleted by another cycle.
PickedOK ==
  /\ \A s \in Session : row[s] # "live"
  /\ \A r \in Replica : picked[r] # {} => job[r] \in 1..4
  /\ \A r \in Replica :
       /\ job[r] = 1 => picked[r] \subseteq Token
       /\ job[r] = 2 => picked[r] \subseteq Session
       /\ job[r] = 3 => picked[r] \subseteq Ended
       /\ job[r] = 4 => picked[r] \subseteq Event

\* A held event that was in no cycle's hands when it came under its hold never gets there.
SafeOK ==
  /\ \A r \in Replica : picked[r] \cap safe = {}
  /\ \A e \in safe : row[e] # "deleted"

LEMMA PickedInit == ASSUME RowAssumption, Init PROVE PickedOK /\ SafeOK
  BY DEF Init, PickedOK, SafeOK, Row

\* A cycle that ends or moves on has nothing in its hands.
LEMMA Emptied ==
  ASSUME TypeOK, NEW r \in Replica, EndCycle(r) \/ Advance(r)
  PROVE  /\ picked'[r] = {}
         /\ \A q \in Replica \ {r} : picked'[q] = picked[q] /\ job'[q] = job[q]
  BY DEF EndCycle, Advance, TypeOK

LEMMA EndedStays ==
  ASSUME RowAssumption, TypeOK, [Next]_vars PROVE Ended \subseteq Ended'
<1> SUFFICES ASSUME NEW s \in Session, row[s] \in {"EXPIRED", "REVOKED", "deleted"}, age[s] = 2
             PROVE  row'[s] \in {"EXPIRED", "REVOKED", "deleted"} /\ age'[s] = 2
  BY DEF Ended
<1>0. s \in Row
  BY DEF Row
<1>1. ASSUME NEW x \in Row, Grow(x)
      PROVE  row'[s] \in {"EXPIRED", "REVOKED", "deleted"} /\ age'[s] = 2
  BY <1>0, <1>1 DEF Grow, TypeOK
<1>2. ASSUME NEW t \in Session, Revoke(t)
      PROVE  row'[s] \in {"EXPIRED", "REVOKED", "deleted"} /\ age'[s] = 2
  BY <1>0, <1>2 DEF Revoke, TypeOK, Row
<1>3. ASSUME NEW r \in Replica, ExpireSessions(r) \/ DeleteByIds(r)
      PROVE  row'[s] \in {"EXPIRED", "REVOKED", "deleted"} /\ age'[s] = 2
  BY <1>0, <1>3 DEF ExpireSessions, DeleteByIds, TypeOK
<1>4. CASE UNCHANGED <<row, age>>
  BY <1>4
<1> QED
  BY <1>1, <1>2, <1>3, <1>4
  DEF Next, vars, rows, lock, Hold, Lapse, RunCycle, FailCycle, Crash, Select

\* A cycle without rows in its hands, and those that stay as they are.
LEMMA PickedKept ==
  ASSUME RowAssumption, TypeOK, PickedOK, [Next]_vars,
         \A r \in Replica : picked'[r] = {} \/ (picked'[r] = picked[r] /\ job'[r] = job[r]),
         \A s \in Session : row'[s] # "live"
  PROVE  PickedOK'
<1>1. \A r \in Replica : picked'[r] # {} => job'[r] \in 1..4
  BY DEF PickedOK
<1>2. ASSUME NEW r \in Replica
      PROVE  /\ job'[r] = 1 => picked'[r] \subseteq Token
             /\ job'[r] = 2 => picked'[r] \subseteq Session
             /\ job'[r] = 3 => picked'[r] \subseteq Ended'
             /\ job'[r] = 4 => picked'[r] \subseteq Event
  BY <1>2, EndedStays DEF PickedOK
<1> QED
  BY <1>1, <1>2 DEF PickedOK

LEMMA PickedStep ==
  ASSUME RowAssumption, ReplicaAssumption, TypeOK, PickedOK, SafeOK, [Next]_vars
  PROVE  PickedOK' /\ SafeOK'
<1> USE DEF lock, rows
<1>1. ASSUME NEW x \in Row, Grow(x) PROVE PickedOK' /\ SafeOK'
  <2>1. UNCHANGED <<job, picked, row, safe>>
    BY <1>1 DEF Grow
  <2> QED
    BY <2>1, PickedKept DEF PickedOK, SafeOK
<1>2. ASSUME NEW s \in Session, Revoke(s) PROVE PickedOK' /\ SafeOK'
  <2>1. UNCHANGED <<job, picked, safe>>
    BY <1>2 DEF Revoke
  <2>2. \A x \in Row : row'[x] = IF x = s THEN "REVOKED" ELSE row[x]
    BY <1>2 DEF Revoke, TypeOK
  <2>3. Session \subseteq Row /\ safe \subseteq Row
    BY DEF Row, TypeOK
  <2> QED
    BY <2>1, <2>2, <2>3, PickedKept DEF PickedOK, SafeOK
<1>3. ASSUME NEW e \in Event, Hold(e) PROVE PickedOK' /\ SafeOK'
  <2>1. UNCHANGED <<job, picked, row>> /\ row[e] # "deleted"
    BY <1>3 DEF Hold
  <2>2. safe' = safe \/ (safe' = safe \cup {e} /\ \A r \in Replica : e \notin picked[r])
    BY <1>3 DEF Hold
  <2>3. PickedOK'
    BY <2>1, PickedKept DEF PickedOK
  <2>4. SafeOK'
    BY <2>1, <2>2 DEF SafeOK
  <2> QED
    BY <2>3, <2>4
<1>4. CASE Lapse
  BY <1>4, PickedKept DEF Lapse, PickedOK, SafeOK
<1>5. ASSUME NEW r \in Replica, RunCycle(r) PROVE PickedOK' /\ SafeOK'
  <2>1. UNCHANGED <<picked, row, safe>> /\ job[r] = 0 /\ job' = [job EXCEPT ![r] = 1]
    BY <1>5 DEF RunCycle
  <2>2. picked[r] = {}
    BY <2>1 DEF PickedOK
  <2>3. \A q \in Replica \ {r} : job'[q] = job[q]
    BY <2>1 DEF TypeOK
  <2>4. PickedOK'
    <3>1. \A s \in Session : row'[s] # "live"
      BY <2>1 DEF PickedOK
    <3>2. \A q \in Replica : picked'[q] = {} \/ (picked'[q] = picked[q] /\ job'[q] = job[q])
      BY <2>1, <2>2, <2>3
    <3> QED
      BY <3>1, <3>2, PickedKept
  <2>5. SafeOK'
    BY <2>1 DEF SafeOK
  <2> QED
    BY <2>4, <2>5
<1>6. ASSUME NEW r \in Replica, FailCycle(r) \/ Crash(r) PROVE PickedOK' /\ SafeOK'
  <2>1. UNCHANGED <<row, safe>>
    BY <1>6 DEF FailCycle, Crash
  <2>2. picked'[r] = {} /\ \A q \in Replica \ {r} : picked'[q] = picked[q] /\ job'[q] = job[q]
    BY <1>6, Emptied DEF FailCycle, Crash, TypeOK
  <2>3. PickedOK'
    <3>1. \A s \in Session : row'[s] # "live"
      BY <2>1 DEF PickedOK
    <3>2. \A q \in Replica : picked'[q] = {} \/ (picked'[q] = picked[q] /\ job'[q] = job[q])
      BY <2>2
    <3> QED
      BY <3>1, <3>2, PickedKept
  <2>4. SafeOK'
    BY <2>1, <2>2 DEF SafeOK
  <2> QED
    BY <2>3, <2>4
<1>7. ASSUME NEW r \in Replica, Select(r) PROVE PickedOK' /\ SafeOK'
  <2>1. UNCHANGED <<row, age, hold, safe>> /\ job[r] # 0
    BY <1>7 DEF Select
  <2>2. CASE Advance(r)
    <3>1. picked'[r] = {} /\ \A q \in Replica \ {r} : picked'[q] = picked[q] /\ job'[q] = job[q]
      BY <2>2, Emptied
    <3>2. PickedOK'
      <4>1. \A s \in Session : row'[s] # "live"
        BY <2>1 DEF PickedOK
      <4>2. \A q \in Replica : picked'[q] = {} \/ (picked'[q] = picked[q] /\ job'[q] = job[q])
        BY <3>1
      <4> QED
        BY <4>1, <4>2, PickedKept
    <3>3. SafeOK'
      BY <2>1, <3>1 DEF SafeOK
    <3> QED
      BY <3>2, <3>3
  <2>3. CASE ~Advance(r)
    <3>1. job[r] \in 1..4
      BY <2>1, JobsAre DEF TypeOK
    <3>2. PICK B \in Batches(Eligible(Jobs[job[r]])) : picked' = [picked EXCEPT ![r] = B]
      BY <1>7, <2>3 DEF Select
    <3>3. UNCHANGED job
      BY <1>7, <2>3 DEF Select
    <3>4. B \subseteq Eligible(Jobs[job[r]])
      BY <3>1, <3>2, EligibleRows, BatchBounds
    <3>5. picked'[r] = B /\ \A q \in Replica \ {r} : picked'[q] = picked[q]
      BY <3>2 DEF TypeOK
    <3>6. /\ job[r] = 1 => B \subseteq Token
          /\ job[r] = 2 => B \subseteq Session
          /\ job[r] = 3 => B \subseteq Ended
          /\ job[r] = 4 => B \subseteq Event \ hold
      BY <3>1, <3>4, JobsAre DEF Eligible, RetainedSessions, RetainedEvents, Ended
    <3>7. Ended' = Ended
      BY <2>1 DEF Ended
    <3>8. B \cap safe = {}
      <4>1. safe \subseteq Event /\ safe \subseteq hold
        BY DEF TypeOK
      <4>2. Ended \subseteq Session
        BY DEF Ended
      <4> QED
        BY <3>1, <3>6, <4>1, <4>2 DEF RowAssumption
    <3>9. PickedOK'
      BY <2>1, <3>1, <3>3, <3>5, <3>6, <3>7 DEF PickedOK
    <3>10. SafeOK'
      BY <2>1, <3>5, <3>8 DEF SafeOK
    <3> QED
      BY <3>9, <3>10
  <2> QED
    BY <2>2, <2>3
<1>8. ASSUME NEW r \in Replica, ExpireSessions(r) \/ DeleteByIds(r) PROVE PickedOK' /\ SafeOK'
  <2>1. Advance(r) /\ UNCHANGED <<age, hold, safe>>
    BY <1>8 DEF ExpireSessions, DeleteByIds
  <2>2. picked'[r] = {} /\ \A q \in Replica \ {r} : picked'[q] = picked[q] /\ job'[q] = job[q]
    BY <2>1, Emptied
  <2>3. \A x \in Row : \/ row'[x] = row[x] \/ row'[x] = "EXPIRED"
                       \/ row'[x] = "deleted" /\ x \in picked[r]
    BY <1>8 DEF ExpireSessions, DeleteByIds
  <2>4. Session \subseteq Row /\ safe \subseteq Row
    BY DEF Row, TypeOK
  <2>5. PickedOK'
    <3>1. \A s \in Session : row'[s] # "live"
      BY <2>3, <2>4 DEF PickedOK
    <3>2. \A q \in Replica : picked'[q] = {} \/ (picked'[q] = picked[q] /\ job'[q] = job[q])
      BY <2>2
    <3> QED
      BY <3>1, <3>2, PickedKept
  <2>6. SafeOK'
    BY <2>1, <2>2, <2>3, <2>4 DEF SafeOK
  <2> QED
    BY <2>5, <2>6
<1>9. CASE UNCHANGED vars
  <2>1. UNCHANGED <<job, picked, row, safe>>
    BY <1>9 DEF vars
  <2> QED
    BY <2>1, PickedKept DEF PickedOK, SafeOK
<1> QED
  BY <1>1, <1>2, <1>3, <1>4, <1>5, <1>6, <1>7, <1>8, <1>9 DEF Next

\* An event that came under a hold before a cycle selected it is not deleted.
THEOREM HoldsAreKept ==
  ASSUME RowAssumption, ReplicaAssumption PROVE Spec => []HeldEventsStay
<1>1. SafeOK => HeldEventsStay
  BY DEF SafeOK, HeldEventsStay
<1> QED
  BY <1>1, TypeInit, TypeStep, PickedInit, PickedStep, PTL DEF Spec

LEMMA SessionStep ==
  ASSUME RowAssumption, TypeOK, PickedOK, [Next]_vars, NEW s \in Session, row'[s] # row[s]
  PROVE  \/ row[s] = "ACTIVE" /\ row'[s] \in {"EXPIRED", "REVOKED"}
         \/ row[s] \in {"EXPIRED", "REVOKED"} /\ age[s] = 2 /\ row'[s] = "deleted"
<1>0. s \in Row
  BY DEF Row
<1>1. ASSUME NEW t \in Session, Revoke(t)
      PROVE  row[s] = "ACTIVE" /\ row'[s] \in {"EXPIRED", "REVOKED"}
  BY <1>0, <1>1 DEF Revoke, TypeOK, Row
<1>2. ASSUME NEW r \in Replica, ExpireSessions(r)
      PROVE  row[s] = "ACTIVE" /\ row'[s] \in {"EXPIRED", "REVOKED"}
  BY <1>0, <1>2 DEF ExpireSessions, Expirable
<1>3. ASSUME NEW r \in Replica, DeleteByIds(r)
      PROVE  row[s] \in {"EXPIRED", "REVOKED"} /\ age[s] = 2 /\ row'[s] = "deleted"
  <2>1. s \in picked[r] /\ row'[s] = "deleted"
    BY <1>0, <1>3 DEF DeleteByIds
  <2>2. job[r] \in {1, 3, 4}
    BY <1>3, JobsAre DEF DeleteByIds, TypeOK
  <2>3. s \in Ended
    BY <2>1, <2>2 DEF PickedOK, RowAssumption
  <2> QED
    BY <2>1, <2>3 DEF Ended
<1>4. row' # row
  OBVIOUS
<1> QED
  BY <1>1, <1>2, <1>3, <1>4
  DEF Next, vars, rows, lock, Grow, Hold, Lapse, RunCycle, FailCycle, Crash, Select

\* Sessions end once and are deleted only after that, by whatever late or overlapping cycles.
THEOREM SessionsEnd ==
  ASSUME RowAssumption, ReplicaAssumption PROVE Spec => SessionsEndOnce
<1>1. TypeOK /\ PickedOK /\ [Next]_vars
        => [\A s \in Session : row'[s] # row[s] =>
              \/ row[s] = "ACTIVE" /\ row'[s] \in {"EXPIRED", "REVOKED"}
              \/ row[s] \in {"EXPIRED", "REVOKED"} /\ age[s] = 2 /\ row'[s] = "deleted"]_vars
  BY RowAssumption, SessionStep
<1> QED
  BY <1>1, TypeInit, TypeStep, PickedInit, PickedStep, PTL DEF Spec, SessionsEndOnce

-----------------------------------------------------------------------------
(* CitizenProvider: any number of lookups, ids and retries, any threshold  *)

\* An attempt that is waited for is one of those that are left.
DelaysEnd == \A n \in Number : request[n] = "delay" => tries[n] < MaxRetries

LEMMA CitizenTypeInit ==
  ASSUME Nida!IdAssumption, Nida!BoundAssumption, Nida!Init
  PROVE  Nida!TypeOK /\ DelaysEnd
<1>1. (CHOOSE n \in Number : TRUE) \in Number
  BY DEF Nida!IdAssumption
<1>2. id \in [Call -> Number]
  BY <1>1 DEF Nida!Init
<1>3. probing \in BOOLEAN /\ elapsed \in BOOLEAN /\ up \in BOOLEAN
  BY DEF Nida!Init
<1>4. failed \in 0..Threshold /\ tries \in [Number -> 0..MaxRetries]
  BY DEF Nida!Init, Nida!BoundAssumption
<1> QED
  BY <1>2, <1>3, <1>4 DEF Nida!Init, Nida!TypeOK, Nida!Answers, DelaysEnd

BreakerOK ==
  /\ state \in {"closed", "open", "half-open"} /\ failed \in 0..Threshold
  /\ probing \in BOOLEAN /\ elapsed \in BOOLEAN

LEMMA BreakerTyped ==
  ASSUME Nida!BoundAssumption, BreakerOK,
         \/ Nida!RecordSuccess \/ Nida!RecordFailure
         \/ \E n \in Number : Nida!AssertRequestAllowed(n)
  PROVE  BreakerOK'
<1>1. failed' \in 0..Threshold
  <2>1. failed \in 0..Threshold /\ Threshold \in Nat
    BY DEF BreakerOK, Nida!BoundAssumption
  <2>2. \/ failed' = 0 \/ failed' = failed
        \/ failed' = IF failed < Threshold THEN failed + 1 ELSE failed
    BY DEF Nida!RecordSuccess, Nida!RecordFailure, Nida!AssertRequestAllowed
  <2> QED
    BY <2>1, <2>2
<1>2. state' \in {"closed", "open", "half-open"}
  BY DEF Nida!RecordSuccess, Nida!RecordFailure, Nida!AssertRequestAllowed, BreakerOK
<1>3. probing' = FALSE \/ probing' = TRUE \/ probing' = probing
  BY DEF Nida!RecordSuccess, Nida!RecordFailure, Nida!AssertRequestAllowed
<1>4. elapsed' = FALSE \/ elapsed' = elapsed
  BY DEF Nida!RecordSuccess, Nida!RecordFailure, Nida!AssertRequestAllowed
<1> QED
  BY <1>1, <1>2, <1>3, <1>4 DEF BreakerOK

LEMMA CitizenTypeStep ==
  ASSUME Nida!BoundAssumption, Nida!TypeOK, DelaysEnd, [Nida!Next]_(Nida!vars)
  PROVE  Nida!TypeOK' /\ DelaysEnd'
<1> USE DEF Nida!callVars, Nida!reqVars, Nida!breaker, Nida!Answers
<1>1. ASSUME NEW c \in Call, NEW n \in Number, Nida!FindByNationalId(c, n)
      PROVE  Nida!TypeOK' /\ DelaysEnd'
  BY <1>1 DEF Nida!TypeOK, DelaysEnd, Nida!FindByNationalId
<1>2. ASSUME NEW c \in Call, Nida!ReadHit(c) \/ Nida!Join(c) PROVE Nida!TypeOK' /\ DelaysEnd'
  BY <1>2 DEF Nida!TypeOK, DelaysEnd, Nida!ReadHit, Nida!Join, Nida!Answer, Nida!Missed
<1>3. ASSUME NEW c \in Call, Nida!Fetch(c) PROVE Nida!TypeOK' /\ DelaysEnd'
  <2>1. id[c] \in Number /\ Nida!AssertRequestAllowed(id[c])
    BY <1>3 DEF Nida!TypeOK, DelaysEnd, Nida!Fetch
  <2>2. BreakerOK'
    BY <2>1, BreakerTyped DEF Nida!TypeOK, BreakerOK
  <2>3. /\ call' \in [Call -> {"idle", "cache", "joined"}] /\ id' \in [Call -> Number]
        /\ answer' \in [Call -> Nida!Answers \cup {"none"}]
        /\ cached' \subseteq Number /\ up' \in BOOLEAN
    BY <1>3, <2>1 DEF Nida!TypeOK, DelaysEnd, Nida!Fetch, Nida!Answer, Nida!Missed
  <2>4. /\ request' \in
             [Number -> {"none", "call", "delay", "write", "not_found", "unavailable"}]
        /\ tries' \in [Number -> 0..MaxRetries]
        /\ probes' \subseteq {n \in Number : request'[n] # "none"}
        /\ \A n \in Number : request'[n] = "delay" => tries'[n] < MaxRetries
    BY <1>3, <2>1 DEF Nida!TypeOK, DelaysEnd, Nida!Fetch, Nida!AssertRequestAllowed,
           Nida!BoundAssumption
  <2> QED
    BY <2>2, <2>3, <2>4 DEF Nida!TypeOK, BreakerOK, DelaysEnd
<1>4. ASSUME NEW n \in Number, Nida!Found(n) \/ Nida!NotFound(n) \/ Nida!Fail(n)
      PROVE  Nida!TypeOK' /\ DelaysEnd'
  <2>1. BreakerOK'
    BY <1>4, BreakerTyped DEF Nida!Found, Nida!NotFound, Nida!Fail, Nida!TypeOK, BreakerOK
  <2> QED
    BY <1>4, <2>1 DEF Nida!TypeOK, BreakerOK, DelaysEnd, Nida!Found, Nida!NotFound, Nida!Fail,
           Nida!Step, Nida!GivesUp
<1>5. ASSUME NEW n \in Number, Nida!Retry(n) PROVE Nida!TypeOK' /\ DelaysEnd'
  BY <1>5 DEF Nida!TypeOK, DelaysEnd, Nida!Retry, Nida!Retries, Nida!Step
<1>6. ASSUME NEW n \in Number, Nida!EndDelay(n) PROVE Nida!TypeOK' /\ DelaysEnd'
  BY <1>6 DEF Nida!BoundAssumption, Nida!TypeOK, DelaysEnd, Nida!EndDelay
<1>7. ASSUME NEW n \in Number, Nida!Settle(n) PROVE Nida!TypeOK' /\ DelaysEnd'
  BY <1>7 DEF Nida!TypeOK, DelaysEnd, Nida!Settle
<1>8. ASSUME NEW n \in Number, Nida!ExpireCached(n) PROVE Nida!TypeOK' /\ DelaysEnd'
  BY <1>8 DEF Nida!TypeOK, DelaysEnd, Nida!ExpireCached
<1>9. CASE Nida!Elapse \/ Nida!ProviderChanges
  BY <1>9 DEF Nida!TypeOK, DelaysEnd, Nida!Elapse, Nida!ProviderChanges
<1>10. CASE UNCHANGED Nida!vars
  BY <1>10 DEF Nida!TypeOK, DelaysEnd, Nida!vars
<1> QED
  BY <1>1, <1>2, <1>3, <1>4, <1>5, <1>6, <1>7, <1>8, <1>9, <1>10 DEF Nida!Next

\* Type correctness of lookups, their requests and the breaker.
THEOREM CitizenTypeCorrect ==
  ASSUME Nida!IdAssumption, Nida!BoundAssumption
  PROVE  Nida!Spec => []Nida!TypeOK
<1> DEFINE TypedInv == Nida!TypeOK /\ DelaysEnd
<1>1. Nida!Init => TypedInv
  BY CitizenTypeInit
<1>2. TypedInv /\ [Nida!Next]_(Nida!vars) => TypedInv'
  BY CitizenTypeStep
<1>3. TypedInv => Nida!TypeOK
  OBVIOUS
<1> HIDE DEF TypedInv
<1> QED
  BY <1>1, <1>2, <1>3, PTL DEF Nida!Spec

-----------------------------------------------------------------------------
(* The inductive invariant                                                 *)

\* The place of the probe is taken in a half-open breaker only.
ProbingHalfOpen == state # "half-open" => ~probing

\* What a request ends with and what the cache holds is what the provider knows.
ResultsTrue ==
  /\ cached \subseteq Citizen
  /\ \A n \in Number : /\ request[n] = "write" => n \in Citizen
                       /\ request[n] = "not_found" => n \notin Citizen

BreakerInv ==
  /\ Nida!TypeOK /\ DelaysEnd
  /\ ProbingHalfOpen /\ Nida!ProbeUnderWay /\ Nida!ClosedBelowThreshold
  /\ ResultsTrue /\ Nida!AnswersAreTrue

LEMMA BreakerInit == ASSUME Nida!IdAssumption, Nida!BoundAssumption, Nida!Init PROVE BreakerInv
<1>1. Nida!TypeOK /\ DelaysEnd
  BY CitizenTypeInit
<1>2. ProbingHalfOpen /\ Nida!ProbeUnderWay /\ Nida!ClosedBelowThreshold
  BY DEF Nida!Init, ProbingHalfOpen, Nida!ProbeUnderWay, Nida!ClosedBelowThreshold,
         Nida!BoundAssumption
<1>3. ResultsTrue /\ Nida!AnswersAreTrue
  BY DEF Nida!Init, ResultsTrue, Nida!AnswersAreTrue
<1> QED
  BY <1>1, <1>2, <1>3 DEF BreakerInv

\* The breaker: a probe is a request at its call or in a delay, and every such request
\* ends by closing or opening the breaker.
LEMMA BreakerStep ==
  ASSUME Nida!BoundAssumption, BreakerInv, [Nida!Next]_(Nida!vars)
  PROVE  ProbingHalfOpen' /\ Nida!ProbeUnderWay' /\ Nida!ClosedBelowThreshold'
<1> USE DEF Nida!breaker, Nida!reqVars, Nida!callVars
<1>0. failed \in 0..Threshold /\ Threshold \in Nat \ {0} /\ request \in
        [Number -> {"none", "call", "delay", "write", "not_found", "unavailable"}]
  BY DEF BreakerInv, Nida!TypeOK, Nida!BoundAssumption
<1>1. ASSUME NEW c \in Call, Nida!Fetch(c)
      PROVE  ProbingHalfOpen' /\ Nida!ProbeUnderWay' /\ Nida!ClosedBelowThreshold'
  <2> DEFINE n == id[c]
  <2>1. n \in Number /\ Nida!AssertRequestAllowed(n) /\ request[n] = "none"
    BY <1>1 DEF BreakerInv, Nida!TypeOK, Nida!Fetch, Nida!Joins
  <2>2. ProbingHalfOpen' /\ Nida!ClosedBelowThreshold'
    BY <2>1 DEF BreakerInv, ProbingHalfOpen, Nida!ClosedBelowThreshold,
           Nida!AssertRequestAllowed
  <2>3. CASE Nida!Admitted
    <3>1. request' = [request EXCEPT ![n] = "call"]
      BY <1>1, <2>3 DEF Nida!Fetch
    <3>2. state' = "half-open" => probing' /\ n \in probes'
      BY <2>1, <2>3 DEF Nida!AssertRequestAllowed
    <3> HIDE DEF n
    <3>3. request'[n] = "call"
      BY <1>0, <2>1, <3>1
    <3> QED
      BY <2>1, <2>2, <3>2, <3>3 DEF Nida!ProbeUnderWay
  <2>4. CASE ~Nida!Admitted
    <3>1. request' = request /\ probes' = probes
      BY <1>1, <2>1, <2>4 DEF Nida!Fetch, Nida!AssertRequestAllowed
    <3>2. state' = "half-open" => state = "half-open"
      BY <2>1, <2>4 DEF Nida!AssertRequestAllowed, Nida!Admitted, BreakerInv, ProbingHalfOpen
    <3>3. state' = "half-open" => probing'
      BY <2>1 DEF Nida!AssertRequestAllowed
    <3> QED
      BY <2>2, <3>1, <3>2, <3>3 DEF BreakerInv, Nida!ProbeUnderWay
  <2> QED
    BY <2>3, <2>4
<1>2. ASSUME NEW n \in Number, Nida!Found(n) \/ Nida!NotFound(n)
      PROVE  ProbingHalfOpen' /\ Nida!ProbeUnderWay' /\ Nida!ClosedBelowThreshold'
  BY <1>0, <1>2 DEF Nida!Found, Nida!NotFound, Nida!RecordSuccess, ProbingHalfOpen,
         Nida!ProbeUnderWay,
                    Nida!ClosedBelowThreshold
<1>3. ASSUME NEW n \in Number, Nida!Fail(n)
      PROVE  ProbingHalfOpen' /\ Nida!ProbeUnderWay' /\ Nida!ClosedBelowThreshold'
  <2>1. Nida!RecordFailure
    BY <1>3 DEF Nida!Fail
  <2>2. state' # "half-open" /\ ~probing'
    BY <2>1 DEF Nida!RecordFailure, Nida!Opens
  <2>3. state' = "closed" => failed' < Threshold
    BY <1>0, <2>1 DEF Nida!RecordFailure, Nida!Opens
  <2> QED
    BY <2>2, <2>3 DEF ProbingHalfOpen, Nida!ProbeUnderWay, Nida!ClosedBelowThreshold
<1>4. ASSUME NEW n \in Number, Nida!Retry(n) \/ Nida!EndDelay(n) \/ Nida!Settle(n)
      PROVE  ProbingHalfOpen' /\ Nida!ProbeUnderWay' /\ Nida!ClosedBelowThreshold'
  <2>1. UNCHANGED Nida!breaker
    BY <1>4 DEF Nida!Retry, Nida!EndDelay, Nida!Settle
  <2>2. ASSUME NEW m \in probes, request[m] \in {"call", "delay"}
        PROVE  m \in probes' /\ request'[m] \in {"call", "delay"}
    BY <1>0, <1>4, <2>2 DEF Nida!Retry, Nida!EndDelay, Nida!Settle, Nida!Step, BreakerInv,
           Nida!TypeOK
  <2> QED
    BY <2>1, <2>2 DEF BreakerInv, ProbingHalfOpen, Nida!ProbeUnderWay, Nida!ClosedBelowThreshold
<1>5. ASSUME UNCHANGED <<state, failed, probing, request, probes>>
      PROVE  ProbingHalfOpen' /\ Nida!ProbeUnderWay' /\ Nida!ClosedBelowThreshold'
  BY <1>5 DEF BreakerInv, ProbingHalfOpen, Nida!ProbeUnderWay, Nida!ClosedBelowThreshold
<1>6. ASSUME NEW c \in Call, NEW n \in Number, Nida!FindByNationalId(c, n)
      PROVE  ProbingHalfOpen' /\ Nida!ProbeUnderWay' /\ Nida!ClosedBelowThreshold'
  BY <1>5, <1>6 DEF Nida!FindByNationalId
<1>7. ASSUME NEW c \in Call, Nida!ReadHit(c) \/ Nida!Join(c)
      PROVE  ProbingHalfOpen' /\ Nida!ProbeUnderWay' /\ Nida!ClosedBelowThreshold'
  BY <1>5, <1>7 DEF Nida!ReadHit, Nida!Join
<1>8. ASSUME NEW n \in Number, Nida!ExpireCached(n)
      PROVE  ProbingHalfOpen' /\ Nida!ProbeUnderWay' /\ Nida!ClosedBelowThreshold'
  BY <1>5, <1>8 DEF Nida!ExpireCached
<1>9. CASE Nida!ProviderChanges \/ UNCHANGED Nida!vars
  BY <1>5, <1>9 DEF Nida!ProviderChanges, Nida!vars
<1>10. CASE Nida!Elapse
  BY <1>5, <1>10 DEF Nida!Elapse
<1> QED
  BY <1>1, <1>2, <1>3, <1>4, <1>6, <1>7, <1>8, <1>9, <1>10 DEF Nida!Next

\* Answers: they come from the cache, from a request's result or from the breaker.
LEMMA AnswerStep ==
  ASSUME Nida!BoundAssumption, BreakerInv, [Nida!Next]_(Nida!vars)
  PROVE  ResultsTrue' /\ Nida!AnswersAreTrue'
<1> USE DEF Nida!breaker, Nida!reqVars, Nida!callVars
<1>0. /\ call \in [Call -> {"idle", "cache", "joined"}] /\ id \in [Call -> Number]
      /\ answer \in [Call -> Nida!Answers \cup {"none"}]
      /\ request \in [Number -> {"none", "call", "delay", "write", "not_found", "unavailable"}]
      /\ ResultsTrue /\ Nida!AnswersAreTrue
  BY DEF BreakerInv, Nida!TypeOK
<1>1. ASSUME NEW c \in Call, NEW n \in Number, Nida!FindByNationalId(c, n)
      PROVE  ResultsTrue' /\ Nida!AnswersAreTrue'
  BY <1>0, <1>1 DEF Nida!FindByNationalId, ResultsTrue, Nida!AnswersAreTrue
<1>2. ASSUME NEW c \in Call, Nida!ReadHit(c) PROVE ResultsTrue' /\ Nida!AnswersAreTrue'
  BY <1>0, <1>2 DEF Nida!ReadHit, Nida!Answer, ResultsTrue, Nida!AnswersAreTrue
<1>3. ASSUME NEW c \in Call, Nida!Join(c) PROVE ResultsTrue' /\ Nida!AnswersAreTrue'
  BY <1>0, <1>3 DEF Nida!Join, Nida!Missed, ResultsTrue, Nida!AnswersAreTrue
<1>4. ASSUME NEW c \in Call, Nida!Fetch(c) PROVE ResultsTrue' /\ Nida!AnswersAreTrue'
  BY <1>0, <1>4 DEF Nida!Fetch, Nida!Missed, Nida!Answer, ResultsTrue, Nida!AnswersAreTrue
<1>5. ASSUME NEW n \in Number, Nida!Found(n) \/ Nida!NotFound(n) \/ Nida!Fail(n) \/ Nida!Retry(n)
      PROVE  ResultsTrue' /\ Nida!AnswersAreTrue'
  BY <1>0, <1>5 DEF Nida!Found, Nida!NotFound, Nida!Fail, Nida!GivesUp, Nida!Retry, Nida!Step,
         ResultsTrue, Nida!AnswersAreTrue
<1>6. ASSUME NEW n \in Number, Nida!EndDelay(n) PROVE ResultsTrue' /\ Nida!AnswersAreTrue'
  BY <1>0, <1>6 DEF Nida!EndDelay, ResultsTrue, Nida!AnswersAreTrue
<1>7. ASSUME NEW n \in Number, Nida!Settle(n) PROVE ResultsTrue' /\ Nida!AnswersAreTrue'
  <2>1. ResultsTrue'
    BY <1>0, <1>7 DEF Nida!Settle, ResultsTrue
  <2>2. Nida!AnswersAreTrue'
    BY <1>0, <1>7 DEF Nida!Settle, ResultsTrue, Nida!AnswersAreTrue
  <2> QED
    BY <2>1, <2>2
<1>8. ASSUME NEW n \in Number, Nida!ExpireCached(n) PROVE ResultsTrue' /\ Nida!AnswersAreTrue'
  BY <1>0, <1>8 DEF Nida!ExpireCached, ResultsTrue, Nida!AnswersAreTrue
<1>9. CASE Nida!Elapse \/ Nida!ProviderChanges \/ UNCHANGED Nida!vars
  BY <1>0, <1>9 DEF Nida!Elapse, Nida!ProviderChanges, Nida!vars, ResultsTrue,
         Nida!AnswersAreTrue
<1> QED
  BY <1>1, <1>2, <1>3, <1>4, <1>5, <1>6, <1>7, <1>8, <1>9 DEF Nida!Next

LEMMA BreakerInvStep ==
  ASSUME Nida!BoundAssumption, BreakerInv, [Nida!Next]_(Nida!vars)
  PROVE  BreakerInv'
  BY CitizenTypeStep, BreakerStep, AnswerStep DEF BreakerInv

\* Whatever outcomes come late and whatever interval passes under them, a half-open
\* breaker has a probe that will close or open it, a closed one is below its threshold,
\* and no lookup is answered with what the provider does not say.
THEOREM BreakerKeeps ==
  ASSUME Nida!IdAssumption, Nida!BoundAssumption
  PROVE  Nida!Spec => []Nida!BreakerHolds
<1>1. BreakerInv => Nida!BreakerHolds
  BY DEF BreakerInv, Nida!BreakerHolds
<1> QED
  BY BreakerInit, BreakerInvStep, <1>1, PTL DEF Nida!Spec

\* Of several lookups of one national id, none begins a second request beside the first.
THEOREM RequestsShared ==
  ASSUME Nida!IdAssumption, Nida!BoundAssumption
  PROVE  Nida!Spec => Nida!LookupsShare
<1> DEFINE Shared == \A n \in Number : request[n] # "none" /\ request'[n] = "call" =>
                       IF request[n] = "delay"
                       THEN tries'[n] = tries[n] + 1
                       ELSE request[n] = "call" /\ tries'[n] = tries[n]
<1>1. BreakerInv /\ [Nida!Next]_(Nida!vars) => [Shared]_(Nida!vars)
  <2> SUFFICES ASSUME BreakerInv, Nida!Next, NEW n \in Number,
                      request[n] # "none", request'[n] = "call"
               PROVE  IF request[n] = "delay"
                      THEN tries'[n] = tries[n] + 1
                      ELSE request[n] = "call" /\ tries'[n] = tries[n]
    OBVIOUS
  <2>0. /\ request \in
             [Number -> {"none", "call", "delay", "write", "not_found", "unavailable"}]
        /\ tries \in [Number -> 0..MaxRetries] /\ id \in [Call -> Number]
    BY DEF BreakerInv, Nida!TypeOK
  <2>1. ASSUME NEW c \in Call, Nida!Fetch(c)
        PROVE  request'[n] = request[n] /\ tries'[n] = tries[n]
    BY <2>0, <2>1 DEF Nida!Fetch, Nida!Joins
  <2>2. ASSUME NEW m \in Number,
               \/ Nida!Found(m) \/ Nida!NotFound(m) \/ Nida!Fail(m)
               \/ Nida!Retry(m) \/ Nida!Settle(m)
        PROVE  request'[n] = request[n] /\ tries'[n] = tries[n]
    BY <2>0, <2>2 DEF Nida!Found, Nida!NotFound, Nida!Fail, Nida!GivesUp, Nida!Retry, Nida!Step,
           Nida!Settle
  <2>3. ASSUME NEW m \in Number, Nida!EndDelay(m)
        PROVE  IF request[n] = "delay"
               THEN tries'[n] = tries[n] + 1
               ELSE request[n] = "call" /\ tries'[n] = tries[n]
    BY <2>0, <2>3 DEF Nida!EndDelay
  <2>4. ASSUME UNCHANGED Nida!reqVars PROVE request'[n] = request[n] /\ tries'[n] = tries[n]
    BY <2>4 DEF Nida!reqVars
  <2>5. \/ \E c \in Call, m \in Number : Nida!FindByNationalId(c, m)
        \/ \E c \in Call : Nida!ReadHit(c) \/ Nida!Join(c)
        \/ \E m \in Number : Nida!ExpireCached(m)
        \/ Nida!Elapse \/ Nida!ProviderChanges
        => UNCHANGED Nida!reqVars
    BY DEF Nida!FindByNationalId, Nida!ReadHit, Nida!Join, Nida!ExpireCached, Nida!Elapse,
           Nida!ProviderChanges
  <2>6. \/ request'[n] = request[n] /\ tries'[n] = tries[n]
        \/ \E m \in Number : Nida!EndDelay(m)
    BY <2>1, <2>2, <2>4, <2>5 DEF Nida!Next
  <2>7. CASE request'[n] = request[n] /\ tries'[n] = tries[n]
    BY <2>7
  <2> QED
    BY <2>3, <2>6, <2>7
<1> QED
  BY BreakerInit, BreakerInvStep, <1>1, PTL DEF Nida!Spec, Nida!LookupsShare

-------------------------------------------------------------------------------
(* CallSlots: any number of callers, any limit                             *)

\* The operators of FiniteSets that CallSlots uses are those of the library's theorems.
LEMMA SlotsCount == ASSUME NEW A PROVE Slots!Cardinality(A) = Cardinality(A)
  BY DEF Slots!Cardinality, Cardinality

Waiting == {c \in Caller : pc[c] = "waiting"}
Calling == {c \in Caller : pc[c] = "calling"}
Queued  == {waiters[i] : i \in DOMAIN waiters}

\* Each waiter waits once, and somebody is there whose release comes after its turn.
SlotInv ==
  /\ pc \in [Caller -> {"idle", "waiting", "woken", "calling"}]
  /\ active \in Nat /\ waiters \in Seq(Caller)
  /\ Queued = Waiting /\ Len(waiters) = Cardinality(Waiting)
  /\ \A i, j \in 1..Len(waiters) : waiters[i] = waiters[j] => i = j
  /\ IsFiniteSet(Waiting) /\ IsFiniteSet(Calling)
  /\ active = Cardinality(Calling)
  /\ waiters # <<>> => \E c \in Caller : pc[c] \in {"calling", "woken"}

LEMMA SlotMeans ==
  ASSUME SlotInv
  PROVE  Slots!TypeOK /\ Slots!ActiveIsCalling /\ Slots!NobodyStranded
<1>1. Slots!At("waiting") = Waiting /\ Slots!At("calling") = Calling
  BY DEF Slots!At, Waiting, Calling
<1>2. Slots!TypeOK
  BY <1>1, SlotsCount DEF SlotInv, Slots!TypeOK, Queued
<1>3. Slots!ActiveIsCalling
  BY <1>1, SlotsCount DEF SlotInv, Slots!ActiveIsCalling
<1>4. Slots!NobodyStranded
  BY DEF SlotInv, Slots!NobodyStranded, Slots!At
<1> QED
  BY <1>2, <1>3, <1>4

LEMMA SlotInit == ASSUME Slots!MaximumAssumption, Slots!Init PROVE SlotInv
<1>1. Waiting = {} /\ Calling = {}
  BY DEF Slots!Init, Waiting, Calling
<1>2. IsFiniteSet({}) /\ Cardinality({}) = 0
  BY FS_EmptySet
<1>3. waiters = <<>> /\ waiters \in Seq(Caller) /\ Len(waiters) = 0
  BY DEF Slots!Init
<1>4. Queued = {}
  BY <1>3 DEF Queued
<1>5. /\ pc \in [Caller -> {"idle", "waiting", "woken", "calling"}] /\ active = 0
      /\ \A c \in Caller : pc[c] # "woken"
  BY DEF Slots!Init
<1> QED
  BY <1>1, <1>2, <1>3, <1>4, <1>5 DEF SlotInv

\* The waiters of the sequence are those that wait: what the end of the queue adds, ...
LEMMA QueueGrows ==
  ASSUME NEW X, NEW q \in Seq(X), NEW c \in X,
         \A i \in 1..Len(q) : q[i] # c,
         \A i, j \in 1..Len(q) : q[i] = q[j] => i = j
  PROVE  /\ Append(q, c) \in Seq(X) /\ Len(Append(q, c)) = Len(q) + 1
         /\ {Append(q, c)[i] : i \in DOMAIN Append(q, c)} = {q[i] : i \in DOMAIN q} \cup {c}
         /\ \A i, j \in 1..Len(Append(q, c)) : Append(q, c)[i] = Append(q, c)[j] => i = j
<1> DEFINE r == Append(q, c)
<1>1. /\ r \in Seq(X) /\ Len(r) = Len(q) + 1 /\ DOMAIN r = 1..(Len(q) + 1)
      /\ DOMAIN q = 1..Len(q) /\ Len(q) \in Nat
      /\ \A i \in 1..Len(q) : r[i] = q[i]
      /\ r[Len(q) + 1] = c
  OBVIOUS
<1> HIDE DEF r
<1>2. \A i \in DOMAIN r : i \in DOMAIN q \/ i = Len(q) + 1
  BY <1>1
<1>3. {r[i] : i \in DOMAIN r} = {q[i] : i \in DOMAIN q} \cup {c}
  <2>1. ASSUME NEW i \in DOMAIN r PROVE r[i] \in {q[j] : j \in DOMAIN q} \cup {c}
    BY <1>1, <1>2
  <2>2. ASSUME NEW i \in DOMAIN q PROVE i \in DOMAIN r /\ r[i] = q[i]
    BY <1>1
  <2>3. Len(q) + 1 \in DOMAIN r
    BY <1>1
  <2> QED
    BY <1>1, <2>1, <2>2, <2>3
<1>4. \A i, j \in 1..Len(r) : r[i] = r[j] => i = j
  BY <1>1, <1>2
<1> QED
  BY <1>1, <1>3, <1>4 DEF r

\* ... and what its head takes away.
LEMMA QueueShrinks ==
  ASSUME NEW X, NEW q \in Seq(X), q # <<>>,
         \A i, j \in 1..Len(q) : q[i] = q[j] => i = j
  PROVE  /\ Head(q) \in X /\ Tail(q) \in Seq(X) /\ Len(Tail(q)) = Len(q) - 1
         /\ Head(q) \in {q[i] : i \in DOMAIN q}
         /\ {Tail(q)[i] : i \in DOMAIN Tail(q)} = {q[i] : i \in DOMAIN q} \ {Head(q)}
         /\ \A i, j \in 1..Len(Tail(q)) : Tail(q)[i] = Tail(q)[j] => i = j
<1> DEFINE r == Tail(q)
<1>1. /\ r \in Seq(X) /\ Len(r) = Len(q) - 1 /\ DOMAIN r = 1..(Len(q) - 1)
      /\ DOMAIN q = 1..Len(q) /\ Len(q) \in Nat /\ Len(q) # 0
      /\ \A i \in 1..(Len(q) - 1) : r[i] = q[i + 1]
      /\ Head(q) = q[1] /\ q[1] \in X
  OBVIOUS
<1> HIDE DEF r
<1>2. {r[i] : i \in DOMAIN r} = {q[i] : i \in DOMAIN q} \ {Head(q)}
  <2>1. ASSUME NEW i \in DOMAIN r PROVE r[i] \in {q[j] : j \in DOMAIN q} \ {Head(q)}
    <3>1. i + 1 \in DOMAIN q /\ r[i] = q[i + 1] /\ i + 1 # 1 /\ 1 \in DOMAIN q
      BY <1>1
    <3> QED
      BY <1>1, <3>1
  <2>2. ASSUME NEW i \in DOMAIN q, q[i] # Head(q) PROVE q[i] \in {r[j] : j \in DOMAIN r}
    <3>1. i # 1 /\ i - 1 \in DOMAIN r /\ r[i - 1] = q[i]
      BY <1>1, <2>2
    <3> QED
      BY <3>1
  <2> QED
    BY <2>1, <2>2
<1>3. \A i, j \in 1..Len(r) : r[i] = r[j] => i = j
  <2> SUFFICES ASSUME NEW i \in 1..Len(r), NEW j \in 1..Len(r), r[i] = r[j] PROVE i = j
    OBVIOUS
  <2>1. i + 1 \in 1..Len(q) /\ j + 1 \in 1..Len(q) /\ q[i + 1] = q[j + 1]
    BY <1>1
  <2>2. i + 1 = j + 1
    BY <2>1
  <2> QED
    BY <1>1, <2>2
<1>4. 1 \in DOMAIN q
  BY <1>1
<1> QED
  BY <1>1, <1>2, <1>3, <1>4 DEF r

LEMMA SlotStep ==
  ASSUME Slots!MaximumAssumption, SlotInv, [Slots!Next]_(Slots!vars) PROVE SlotInv'
<1>0. /\ pc \in [Caller -> {"idle", "waiting", "woken", "calling"}]
      /\ active \in Nat /\ waiters \in Seq(Caller)
      /\ Queued = Waiting /\ Len(waiters) = Cardinality(Waiting)
      /\ \A i, j \in 1..Len(waiters) : waiters[i] = waiters[j] => i = j
      /\ IsFiniteSet(Waiting) /\ IsFiniteSet(Calling)
      /\ active = Cardinality(Calling)
      /\ waiters # <<>> => \E c \in Caller : pc[c] \in {"calling", "woken"}
      /\ Maximum \in Nat \ {0}
  BY DEF SlotInv, Slots!MaximumAssumption
<1>1. ASSUME NEW c \in Caller, Slots!Acquire(c), Slots!Full PROVE SlotInv'
  <2>1. /\ pc[c] = "idle" /\ pc' = [pc EXCEPT ![c] = "waiting"]
        /\ waiters' = Append(waiters, c) /\ active' = active /\ active >= Maximum
    BY <1>1 DEF Slots!Acquire, Slots!Full
  <2>2. Waiting' = Waiting \cup {c} /\ c \notin Waiting /\ Calling' = Calling
    BY <1>0, <2>1 DEF Waiting, Calling
  <2>3. \A i \in 1..Len(waiters) : waiters[i] # c
    <3>1. DOMAIN waiters = 1..Len(waiters) /\ c \notin Queued
      BY <1>0, <2>2
    <3> QED
      BY <3>1 DEF Queued
  <2>4. /\ waiters' \in Seq(Caller) /\ Len(waiters') = Len(waiters) + 1
        /\ Queued' = Queued \cup {c}
        /\ \A i, j \in 1..Len(waiters') : waiters'[i] = waiters'[j] => i = j
    <3>1. /\ waiters \in Seq(Caller)
          /\ \A i, j \in 1..Len(waiters) : waiters[i] = waiters[j] => i = j
      BY <1>0
    <3>2. /\ Append(waiters, c) \in Seq(Caller) /\ Len(Append(waiters, c)) = Len(waiters) + 1
          /\ {Append(waiters, c)[i] : i \in DOMAIN Append(waiters, c)}
               = {waiters[i] : i \in DOMAIN waiters} \cup {c}
          /\ \A i, j \in 1..Len(Append(waiters, c)) :
               Append(waiters, c)[i] = Append(waiters, c)[j] => i = j
      BY <2>3, <3>1, QueueGrows
    <3>3. Queued' = {Append(waiters, c)[i] : i \in DOMAIN Append(waiters, c)}
      BY <2>1 DEF Queued
    <3> QED
      BY <2>1, <3>2, <3>3 DEF Queued
  <2>5. IsFiniteSet(Waiting') /\ Cardinality(Waiting') = Cardinality(Waiting) + 1
    BY <1>0, <2>2, FS_AddElement
  <2>6. \E d \in Caller : pc'[d] = "calling"
    <3>1. Calling # {}
      <4>1. Cardinality({}) = 0
        BY FS_EmptySet
      <4>2. Cardinality(Calling) # 0
        BY <1>0, <2>1
      <4> QED
        BY <4>1, <4>2
    <3> QED
      BY <2>2, <3>1 DEF Calling
  <2>7. pc' \in [Caller -> {"idle", "waiting", "woken", "calling"}]
    BY <1>0, <2>1
  <2> QED
    BY <1>0, <2>1, <2>2, <2>4, <2>5, <2>6, <2>7 DEF SlotInv
<1>2. ASSUME NEW c \in Caller, Slots!Resume(c) \/ (Slots!Acquire(c) /\ ~Slots!Full)
      PROVE  SlotInv'
  <2>1. /\ pc[c] \in {"idle", "woken"} /\ pc' = [pc EXCEPT ![c] = "calling"]
        /\ waiters' = waiters /\ active' = active + 1
    BY <1>2 DEF Slots!Acquire, Slots!Resume
  <2>2. Waiting' = Waiting /\ Calling' = Calling \cup {c} /\ c \notin Calling
    BY <1>0, <2>1 DEF Waiting, Calling
  <2>3. IsFiniteSet(Calling') /\ Cardinality(Calling') = Cardinality(Calling) + 1
    BY <1>0, <2>2, FS_AddElement
  <2>4. pc' \in [Caller -> {"idle", "waiting", "woken", "calling"}] /\ pc'[c] = "calling"
    BY <1>0, <2>1
  <2>5. Queued' = Queued
    BY <2>1 DEF Queued
  <2> QED
    BY <1>0, <2>1, <2>2, <2>3, <2>4, <2>5 DEF SlotInv
<1>3. ASSUME NEW c \in Caller, Slots!EndCall(c) PROVE SlotInv'
  <2>1. /\ pc[c] = "calling" /\ \A d \in Caller : pc[d] # "woken"
        /\ active' = active - 1
        /\ pc' = [d \in Caller |-> IF d = c THEN "idle"
                    ELSE IF Slots!Wakes /\ d = Head(waiters) THEN "woken" ELSE pc[d]]
        /\ waiters' = IF Slots!Wakes THEN Tail(waiters) ELSE waiters
    BY <1>3 DEF Slots!EndCall, Slots!Release, Slots!At
  <2>2. /\ pc' \in [Caller -> {"idle", "waiting", "woken", "calling"}]
        /\ \A d \in Caller : pc'[d] = IF d = c THEN "idle"
                    ELSE IF Slots!Wakes /\ d = Head(waiters) THEN "woken" ELSE pc[d]
    BY <1>0, <2>1
  <2>3. c \in Calling
    BY <2>1 DEF Calling
  <2>4. IsFiniteSet(Calling \ {c}) /\ Cardinality(Calling \ {c}) = Cardinality(Calling) - 1
    BY <1>0, <2>3, FS_RemoveElement
  <2>5. active # 0
    <3>1. Cardinality(Calling \ {c}) \in Nat
      BY <2>4, FS_CardinalityType
    <3> QED
      BY <1>0, <2>4, <3>1
  <2>6. CASE Slots!Wakes
    <3>1. waiters # <<>>
      BY <2>6 DEF Slots!Wakes
    <3>2. /\ Head(waiters) \in Caller /\ Tail(waiters) \in Seq(Caller)
          /\ Len(Tail(waiters)) = Len(waiters) - 1 /\ Head(waiters) \in Queued
          /\ {Tail(waiters)[i] : i \in DOMAIN Tail(waiters)} = Queued \ {Head(waiters)}
          /\ \A i, j \in 1..Len(Tail(waiters)) : Tail(waiters)[i] = Tail(waiters)[j] => i = j
      BY <1>0, <3>1, QueueShrinks DEF Queued
    <3>3. Head(waiters) \in Waiting /\ pc[Head(waiters)] = "waiting" /\ Head(waiters) # c
      BY <1>0, <2>1, <3>2 DEF Waiting
    <3>4. Waiting' = Waiting \ {Head(waiters)} /\ Calling' = Calling \ {c}
      BY <2>1, <2>2, <2>6, <3>3 DEF Waiting, Calling
    <3>5. IsFiniteSet(Waiting') /\ Cardinality(Waiting') = Cardinality(Waiting) - 1
      BY <1>0, <3>3, <3>4, FS_RemoveElement
    <3>6. waiters' = Tail(waiters)
      BY <2>1, <2>6
    <3>7. Queued' = Queued \ {Head(waiters)}
      BY <3>2, <3>6 DEF Queued
    <3>8. pc'[Head(waiters)] = "woken"
      BY <2>2, <2>6, <3>2, <3>3
    <3> QED
      BY <1>0, <2>1, <2>2, <2>4, <2>5, <3>2, <3>4, <3>5, <3>6, <3>7, <3>8 DEF SlotInv
  <2>7. CASE ~Slots!Wakes
    <3>1. waiters = <<>> /\ waiters' = waiters
      BY <2>1, <2>7 DEF Slots!Wakes
    <3>2. Waiting' = Waiting /\ Calling' = Calling \ {c}
      BY <2>1, <2>2, <2>7 DEF Waiting, Calling
    <3> QED
      BY <1>0, <2>1, <2>2, <2>4, <2>5, <3>1, <3>2 DEF SlotInv, Queued
  <2> QED
    BY <2>6, <2>7
<1>4. CASE UNCHANGED Slots!vars
  <2>1. UNCHANGED <<pc, active, waiters>>
    BY <1>4 DEF Slots!vars
  <2>2. UNCHANGED <<Waiting, Calling, Queued>>
    BY <2>1 DEF Waiting, Calling, Queued
  <2> QED
    BY <2>1, <2>2 DEF SlotInv
<1> QED
  BY <1>1, <1>2, <1>3, <1>4 DEF Slots!Next

\* The count is that of the calls under way, and no caller waits without a release to come.
THEOREM SlotsHold ==
  ASSUME Slots!MaximumAssumption
  PROVE  Slots!Spec => [](Slots!TypeOK /\ Slots!ActiveIsCalling /\ Slots!NobodyStranded)
  BY SlotInit, SlotStep, SlotMeans, PTL DEF Slots!Spec

-------------------------------------------------------------------------------
(* RateLimiter: any number of requests and counters, any limit             *)

\* Requests that will be let through in the window of k, as far as they know.
Passing(k) == {r \in Request : k \in within[r] /\ ~over[r]}

\* They were counted, and so were those that are through: together within the limit.
Accounted(k) ==
  /\ IsFiniteSet(Passing(k))
  /\ passed[k] + Cardinality(Passing(k)) <= count[k]
  /\ passed[k] + Cardinality(Passing(k)) <= Limit

LimiterInv ==
  /\ Limiter!TypeOK /\ Limiter!CountersExpire
  /\ \A k \in Key : Accounted(k)

LEMMA LimiterInit == ASSUME Limiter!LimitAssumption, Limiter!Init PROVE LimiterInv
<1>1. Limiter!TypeOK
  BY DEF Limiter!LimitAssumption, Limiter!Init, Limiter!TypeOK
<1>2. Limiter!CountersExpire
  BY DEF Limiter!Init, Limiter!CountersExpire
<1>3. ASSUME NEW k \in Key PROVE Accounted(k)
  <2>1. Passing(k) = {}
    BY DEF Passing, Limiter!Init
  <2>2. IsFiniteSet({}) /\ Cardinality({}) = 0
    BY FS_EmptySet
  <2>3. passed[k] = 0 /\ count[k] = 0
    BY <1>3 DEF Limiter!Init
  <2> QED
    BY <2>1, <2>2, <2>3 DEF Accounted, Limiter!LimitAssumption
<1> QED
  BY <1>1, <1>2, <1>3 DEF LimiterInv

\* A request no longer counts, another is counted, or one that was counted is through.
LEMMA AccountKept ==
  ASSUME Limiter!LimitAssumption, Limiter!TypeOK, NEW k \in Key, Accounted(k),
         Passing(k)' \subseteq Passing(k), passed'[k] = passed[k],
         count'[k] \in {count[k], count[k] + 1}
  PROVE  Accounted(k)'
<1>1. /\ IsFiniteSet(Passing(k)') /\ Cardinality(Passing(k)') <= Cardinality(Passing(k))
  BY FS_Subset DEF Accounted
<1>2. Cardinality(Passing(k)) \in Nat /\ Cardinality(Passing(k)') \in Nat
  BY <1>1, FS_CardinalityType DEF Accounted
<1>3. passed[k] \in Nat /\ count[k] \in Nat /\ Limit \in Nat
  BY DEF Limiter!TypeOK, Limiter!LimitAssumption
<1> QED
  BY <1>1, <1>2, <1>3 DEF Accounted

LEMMA AccountAdded ==
  ASSUME Limiter!LimitAssumption, Limiter!TypeOK, NEW k \in Key, Accounted(k),
         NEW r, r \notin Passing(k), Passing(k)' = Passing(k) \cup {r},
         passed'[k] = passed[k], count'[k] = count[k] + 1, count[k] < Limit
  PROVE  Accounted(k)'
<1>1. IsFiniteSet(Passing(k)') /\ Cardinality(Passing(k)') = Cardinality(Passing(k)) + 1
  BY FS_AddElement DEF Accounted
<1>2. Cardinality(Passing(k)) \in Nat
  BY FS_CardinalityType DEF Accounted
<1>3. passed[k] \in Nat /\ count[k] \in Nat /\ Limit \in Nat
  BY DEF Limiter!TypeOK, Limiter!LimitAssumption
<1> QED
  BY <1>1, <1>2, <1>3 DEF Accounted

LEMMA AccountPassed ==
  ASSUME Limiter!LimitAssumption, Limiter!TypeOK, NEW k \in Key, Accounted(k),
         NEW r \in Passing(k), Passing(k)' = Passing(k) \ {r},
         passed'[k] = passed[k] + 1, count'[k] = count[k]
  PROVE  Accounted(k)'
<1>1. IsFiniteSet(Passing(k)') /\ Cardinality(Passing(k)') = Cardinality(Passing(k)) - 1
  BY FS_RemoveElement DEF Accounted
<1>2. Cardinality(Passing(k)) \in Nat
  BY FS_CardinalityType DEF Accounted
<1>3. passed[k] \in Nat /\ count[k] \in Nat /\ Limit \in Nat
  BY DEF Limiter!TypeOK, Limiter!LimitAssumption
<1> QED
  BY <1>1, <1>2, <1>3 DEF Accounted

LEMMA LimiterStep ==
  ASSUME Limiter!LimitAssumption, LimiterInv, [Limiter!Next]_(Limiter!vars) PROVE LimiterInv'
<1>0. /\ Limiter!TypeOK /\ Limiter!CountersExpire /\ Limit \in Nat \ {0}
      /\ \A k \in Key : Accounted(k)
      /\ count \in [Key -> 0..(Limit + 1)] /\ expires \subseteq Key
      /\ asked \in [Request -> SUBSET Key] /\ got \in [Request -> SUBSET Key]
      /\ within \in [Request -> SUBSET Key] /\ over \in [Request -> BOOLEAN]
      /\ \A r \in Request : within[r] \subseteq got[r] /\ got[r] \subseteq asked[r]
      /\ passed \in [Key -> Nat]
  BY DEF LimiterInv, Limiter!TypeOK, Limiter!LimitAssumption
<1>1. ASSUME NEW r \in Request, NEW K \in (SUBSET Key) \ {{}}, Limiter!AssertAllowed(r, K)
      PROVE  LimiterInv'
  <2>1. Limiter!TypeOK'
    BY <1>0, <1>1 DEF Limiter!AssertAllowed, Limiter!TypeOK
  <2>2. UNCHANGED <<count, expires, got, over, within, passed>>
    BY <1>1 DEF Limiter!AssertAllowed
  <2> QED
    BY <1>0, <2>1, <2>2 DEF LimiterInv, Limiter!CountersExpire, Accounted, Passing
<1>2. ASSUME NEW r \in Request, NEW k \in Key, Limiter!Increment(r, k) PROVE LimiterInv'
  <2> DEFINE n == IF count[k] <= Limit THEN count[k] + 1 ELSE count[k]
  <2>1. /\ k \in asked[r] /\ k \notin got[r] /\ k \notin within[r]
        /\ count' = [count EXCEPT ![k] = n]
        /\ expires' = IF n = 1 THEN expires \cup {k} ELSE expires
        /\ got' = [got EXCEPT ![r] = @ \cup {k}] /\ within' = [within EXCEPT ![r] = @ \cup {k}]
        /\ over' = [over EXCEPT ![r] = @ \/ n > Limit]
        /\ UNCHANGED <<asked, passed>>
    BY <1>0, <1>2 DEF Limiter!Increment, Limiter!IsNew, Limiter!IsOver
  <2>2. n \in 1..(Limit + 1) /\ (n = count[k] + 1 \/ (n = count[k] /\ count[k] > Limit))
    BY <1>0
  <2> HIDE DEF n
  <2>3. Limiter!TypeOK'
    <3>1. count' \in [Key -> 0..(Limit + 1)] /\ expires' \subseteq Key
      BY <1>0, <2>1, <2>2
    <3>2. /\ got' \in [Request -> SUBSET Key] /\ within' \in [Request -> SUBSET Key]
          /\ \A q \in Request : within'[q] \subseteq got'[q] /\ got'[q] \subseteq asked'[q]
      BY <1>0, <2>1
    <3>3. over' \in [Request -> BOOLEAN]
      BY <1>0, <2>1, Zenon
    <3> QED
      BY <1>0, <2>1, <3>1, <3>2, <3>3 DEF Limiter!TypeOK
  <2>4. Limiter!CountersExpire'
    <3> SUFFICES ASSUME NEW j \in Key, count'[j] > 0 PROVE j \in expires'
      BY DEF Limiter!CountersExpire
    <3>1. CASE j # k
      BY <1>0, <2>1, <3>1 DEF Limiter!CountersExpire
    <3>2. CASE j = k
      <4>1. CASE count[k] > 0
        BY <1>0, <2>1, <3>2, <4>1 DEF Limiter!CountersExpire
      <4>2. CASE ~(count[k] > 0)
        <5>1. n = 1
          BY <1>0, <2>2, <4>2
        <5> QED
          BY <2>1, <3>2, <5>1
      <4> QED
        BY <4>1, <4>2
    <3> QED
      BY <3>1, <3>2
  <2>5. \A q \in Request : over'[q] <=> (over[q] \/ (q = r /\ n > Limit))
    BY <1>0, <2>1, Zenon
  <2>6. \A q \in Request : within'[q] = IF q = r THEN within[r] \cup {k} ELSE within[q]
    BY <1>0, <2>1
  <2>7. ASSUME NEW j \in Key PROVE Accounted(j)'
    <3>1. passed'[j] = passed[j] /\ count'[j] = IF j = k THEN n ELSE count[j]
      BY <1>0, <2>1
    <3>2. CASE j # k \/ over'[r]
      <4>1. Passing(j)' \subseteq Passing(j)
        BY <2>5, <2>6, <3>2 DEF Passing
      <4>2. count'[j] = count[j] \/ count'[j] = count[j] + 1
        BY <2>2, <3>1
      <4> QED
        BY <1>0, <3>1, <4>1, <4>2, AccountKept
    <3>3. CASE j = k /\ ~over'[r]
      <4>1. ~(n > Limit) /\ ~over[r]
        BY <2>5, <3>3
      <4>2. n = count[k] + 1 /\ count[k] < Limit
        BY <1>0, <2>2, <4>1
      <4>3. r \notin Passing(k) /\ Passing(k)' = Passing(k) \cup {r}
        BY <2>1, <2>5, <2>6, <4>1 DEF Passing
      <4> QED
        BY <1>0, <3>1, <3>3, <4>2, <4>3, AccountAdded
    <3> QED
      BY <3>2, <3>3
  <2> QED
    BY <2>3, <2>4, <2>7 DEF LimiterInv
<1>3. ASSUME NEW r \in Request, Limiter!Judge(r) PROVE LimiterInv'
  <2>1. /\ passed' = [k \in Key |-> IF ~over[r] /\ k \in within[r] THEN passed[k] + 1
                                    ELSE passed[k]]
        /\ asked' = [asked EXCEPT ![r] = {}] /\ got' = [got EXCEPT ![r] = {}]
        /\ within' = [within EXCEPT ![r] = {}] /\ over' = [over EXCEPT ![r] = FALSE]
        /\ UNCHANGED <<count, expires>>
    BY <1>3 DEF Limiter!Judge
  <2>2. Limiter!TypeOK'
    <3>1. passed' \in [Key -> Nat]
      BY <1>0, <2>1
    <3>2. over' \in [Request -> BOOLEAN]
      BY <1>0, <2>1
    <3> QED
      BY <1>0, <2>1, <3>1, <3>2 DEF Limiter!TypeOK
  <2>3. Limiter!CountersExpire'
    BY <1>0, <2>1 DEF Limiter!CountersExpire
  <2>4. \A q \in Request : within'[q] = IF q = r THEN {} ELSE within[q]
    BY <1>0, <2>1
  <2>5. \A q \in Request : q # r => over'[q] = over[q]
    BY <1>0, <2>1
  <2>6. ASSUME NEW k \in Key PROVE Accounted(k)'
    <3>0. Passing(k)' = Passing(k) \ {r}
      BY <2>4, <2>5 DEF Passing
    <3>1. CASE r \in Passing(k)
      <4>1. passed'[k] = passed[k] + 1
        BY <2>1, <3>1 DEF Passing
      <4> QED
        BY <1>0, <2>1, <3>0, <3>1, <4>1, AccountPassed
    <3>2. CASE r \notin Passing(k)
      <4>1. passed'[k] = passed[k]
        BY <1>0, <2>1, <3>2 DEF Passing
      <4> QED
        BY <1>0, <2>1, <3>0, <4>1, AccountKept
    <3> QED
      BY <3>1, <3>2
  <2> QED
    BY <2>2, <2>3, <2>6 DEF LimiterInv
<1>4. ASSUME NEW k \in Key, Limiter!EndWindow(k) PROVE LimiterInv'
  <2>1. /\ count' = [count EXCEPT ![k] = 0] /\ expires' = expires \ {k}
        /\ within' = [r \in Request |-> within[r] \ {k}]
        /\ passed' = [passed EXCEPT ![k] = 0]
        /\ UNCHANGED <<asked, got, over>>
    BY <1>4 DEF Limiter!EndWindow
  <2>2. Limiter!TypeOK'
    BY <1>0, <2>1 DEF Limiter!TypeOK
  <2>3. Limiter!CountersExpire'
    BY <1>0, <2>1 DEF Limiter!CountersExpire
  <2>4. ASSUME NEW j \in Key PROVE Accounted(j)'
    <3>1. CASE j = k
      <4>1. Passing(j)' = {}
        BY <2>1, <3>1 DEF Passing
      <4>2. IsFiniteSet({}) /\ Cardinality({}) = 0
        BY FS_EmptySet
      <4>3. passed'[j] = 0 /\ count'[j] = 0
        BY <1>0, <2>1, <3>1
      <4> QED
        BY <1>0, <4>1, <4>2, <4>3 DEF Accounted
    <3>2. CASE j # k
      <4>1. Passing(j)' \subseteq Passing(j)
        BY <2>1, <3>2 DEF Passing
      <4>2. passed'[j] = passed[j] /\ count'[j] = count[j]
        BY <1>0, <2>1, <3>2
      <4> QED
        BY <1>0, <4>1, <4>2, AccountKept
    <3> QED
      BY <3>1, <3>2
  <2> QED
    BY <2>2, <2>3, <2>4 DEF LimiterInv
<1>5. CASE UNCHANGED Limiter!vars
  <2>1. UNCHANGED <<count, expires, asked, got, over, within, passed>>
    BY <1>5 DEF Limiter!vars
  <2> QED
    BY <1>0, <2>1 DEF LimiterInv, Limiter!TypeOK, Limiter!CountersExpire, Accounted, Passing
<1> QED
  BY <1>1, <1>2, <1>3, <1>4, <1>5 DEF Limiter!Next

\* No window of a counter lets through more than the limit, in whatever order requests
\* count and are judged, and no counter that refuses is without an expiry.
THEOREM WindowsKept ==
  ASSUME Limiter!LimitAssumption
  PROVE  Limiter!Spec =>
           [](Limiter!TypeOK /\ Limiter!WindowsHold /\ Limiter!CountersExpire)
<1>1. ASSUME LimiterInv PROVE Limiter!WindowsHold
  <2> SUFFICES ASSUME NEW k \in Key PROVE passed[k] <= Limit
    BY DEF Limiter!WindowsHold
  <2>1. Accounted(k) /\ passed[k] \in Nat /\ Limit \in Nat
    BY <1>1 DEF LimiterInv, Limiter!TypeOK, Limiter!LimitAssumption
  <2>2. Cardinality(Passing(k)) \in Nat
    BY <2>1, FS_CardinalityType DEF Accounted
  <2> QED
    BY <2>1, <2>2 DEF Accounted
<1>2. LimiterInv => Limiter!TypeOK /\ Limiter!WindowsHold /\ Limiter!CountersExpire
  BY <1>1 DEF LimiterInv
<1> QED
  BY LimiterInit, LimiterStep, <1>2, PTL DEF Limiter!Spec

-------------------------------------------------------------------------------
(* MediaCleanup: any objects, jobs and batch size                          *)

\* The operators of the community modules that MediaCleanup uses are those of the theorems.
LEMMA MediaSets ==
  ASSUME NEW A
  PROVE  /\ Media!Cardinality(A) = Cardinality(A) /\ (Media!IsFiniteSet(A) <=> IsFiniteSet(A))
         /\ Media!Min(A) = Min(A) /\ Media!Max(A) = Max(A)
<1>1. Media!Cardinality(A) = Cardinality(A)
  BY DEF Media!Cardinality, Cardinality
<1>2. Media!IsFiniteSet(A) <=> IsFiniteSet(A)
  BY DEF Media!IsFiniteSet, IsFiniteSet
<1>3. Media!Min(A) = Min(A)
  BY DEF Media!Min, Min
<1>4. Media!Max(A) = Max(A)
  BY DEF Media!Max, Max
<1> QED
  BY <1>1, <1>2, <1>3, <1>4

\* What is confirmed is an object.
MediaTyped ==
  /\ Media!TypeOK
  /\ confirming.step # "idle" => confirming.object \in Number

LEMMA MediaTypeInit == ASSUME Media!ObjectAssumption, Media!Init PROVE MediaTyped
  BY DEF Media!ObjectAssumption, Media!Init, Media!TypeOK, Media!Idle, MediaTyped

Below == {ss \in Nat \X Nat : ss[1] < ss[2]}

\* A set of naturals has a least element, ...
LEMMA Least ==
  ASSUME NEW A \in SUBSET Nat, A # {}
  PROVE  \E m \in A : \A a \in A : m <= a
<1>1. IsWellFoundedOn(Below, Nat)
  BY NatLessThanWellFounded DEF OpToRel, Below
<1>2. PICK m \in A : \A a \in A : ~(<<a, m>> \in Below)
  BY <1>1, WFMin
<1>3. ASSUME NEW a \in A PROVE m <= a
  <2>1. a \in Nat /\ m \in Nat /\ <<a, m>> \notin Below
    BY <1>2
  <2>2. ~(a < m)
    BY <2>1 DEF Below
  <2> QED
    BY <2>1, <2>2
<1> QED
  BY <1>3

\* ... and one of naturals below a bound a greatest.
LEMMA Greatest ==
  ASSUME NEW A \in SUBSET Nat, A # {}, NEW b \in Nat, \A a \in A : a < b
  PROVE  Max(A) \in A
<1> DEFINE Gaps == {b - a : a \in A}
<1>1. Gaps \subseteq Nat /\ Gaps # {}
  <2>1. ASSUME NEW a \in A PROVE b - a \in Nat
    <3>1. a \in Nat /\ a < b
      OBVIOUS
    <3> QED
      BY <3>1
  <2> QED
    BY <2>1
<1> HIDE DEF Gaps
<1>2. PICK g \in Gaps : \A h \in Gaps : g <= h
  BY <1>1, Least
<1>3. PICK m \in A : g = b - m
  BY <1>2 DEF Gaps
<1>4. \A a \in A : m >= a
  <2> SUFFICES ASSUME NEW a \in A PROVE m >= a
    OBVIOUS
  <2>1. b - a \in Gaps
    BY DEF Gaps
  <2>2. g <= b - a
    BY <1>2, <2>1
  <2> QED
    BY <1>3, <2>2
<1> QED
  BY <1>4 DEF Max

\* The page that is listed is not empty when an object beyond it is there.
LEMMA ListedGreatest ==
  ASSUME Media!ObjectAssumption, Media!BatchAssumption, Media!TypeOK,
         \E o \in stored : cursor < o /\ \A p \in Media!Listed : p < o
  PROVE  Media!Max(Media!Listed) \in Number
<1>1. stored \subseteq Nat /\ stored \subseteq Number /\ cursor \in Nat
  BY DEF Media!ObjectAssumption, Media!TypeOK
<1>2. Media!Listed \subseteq Number /\ Media!Listed \subseteq Nat
  BY <1>1 DEF Media!Listed
<1>3. Media!Listed # {}
  <2> DEFINE After == {o \in stored : cursor < o}
  <2>1. After \subseteq Nat /\ After # {}
    BY <1>1
  <2>2. PICK m \in After : \A a \in After : m <= a
    BY <2>1, Least
  <2>3. stored \cap (cursor + 1)..(m - 1) = {}
    BY <1>1, <2>2
  <2>4. Media!Cardinality(stored \cap (cursor + 1)..(m - 1)) < Batch
    BY <2>3, MediaSets, FS_EmptySet DEF Media!BatchAssumption
  <2> QED
    BY <2>2, <2>4 DEF Media!Listed
<1>4. PICK b \in stored : \A p \in Media!Listed : p < b
  OBVIOUS
<1>5. Max(Media!Listed) \in Media!Listed
  BY <1>1, <1>2, <1>3, <1>4, Greatest
<1> QED
  BY <1>2, <1>5, MediaSets

LEMMA MediaTypes ==
  ASSUME MediaTyped
  PROVE  /\ stored \subseteq Number /\ old \subseteq stored /\ policy \subseteq Number
         /\ mRow \in [Number -> {"none", "kept", "deleted"}]
         /\ digest \in [Number -> {"absent", "present", "unreadable"}]
         /\ due \subseteq {o \in Number : mRow[o] = "kept"}
         /\ mHold \subseteq {o \in Number : mRow[o] = "kept"}
         /\ attempt \in [Number -> {"open", "REVIEW_REQUIRED", "closed"}]
         /\ todo \in [Media!Pass -> SUBSET Number] /\ gone \in [Media!Pass -> SUBSET Number]
         /\ confirming.step # "idle" => confirming.object \in Number
  BY DEF MediaTyped, Media!TypeOK

\* What concerns one object in the hands of one pass.
LEMMA PassSet ==
  ASSUME MediaTyped, NEW w \in Media!Pass, NEW A \in SUBSET Number
  PROVE  /\ [todo EXCEPT ![w] = A] \in [Media!Pass -> SUBSET Number]
         /\ [gone EXCEPT ![w] = A] \in [Media!Pass -> SUBSET Number]
         /\ todo[w] \subseteq Number /\ gone[w] \subseteq Number
  BY MediaTypes

LEMMA MediaClientTyped ==
  ASSUME Media!ObjectAssumption, MediaTyped, Media!ClientNext PROVE MediaTyped'
<1> USE DEF Media!client, Media!rows, Media!passes, Media!reconciler, Media!history
<1>1. ASSUME NEW o \in Number,
             Media!Upload(o) \/ Media!EndPolicy(o) \/ Media!Age(o) \/ Media!ConfirmUpload(o)
      PROVE  MediaTyped'
  <2>1. /\ stored' \subseteq Number /\ old' \subseteq stored' /\ policy' \subseteq Number
        /\ UNCHANGED <<Media!rows, Media!passes, Media!reconciler, Media!history>>
    BY <1>1, MediaTypes DEF Media!Upload, Media!EndPolicy, Media!Age, Media!ConfirmUpload
  <2>2. /\ confirming' \in [object : Number \cup {0}, step : {"idle", "head", "create"}]
        /\ confirming'.step # "idle" => confirming'.object \in Number
    BY <1>1 DEF Media!Upload, Media!EndPolicy, Media!Age, Media!ConfirmUpload, MediaTyped,
       Media!TypeOK
  <2> QED
    BY <2>1, <2>2 DEF MediaTyped, Media!TypeOK
<1>2. CASE Media!HeadObject \/ Media!FailConfirm
  <2>1. /\ confirming' \in [object : Number \cup {0}, step : {"idle", "head", "create"}]
        /\ confirming'.step # "idle" => confirming'.object \in Number
    BY <1>2 DEF Media!HeadObject, Media!FailConfirm, Media!Idle, MediaTyped, Media!TypeOK
  <2>2. /\ UNCHANGED <<stored, old, policy, Media!rows, Media!passes>>
        /\ UNCHANGED <<Media!reconciler, Media!history>>
    BY <1>2 DEF Media!HeadObject, Media!FailConfirm
  <2> QED
    BY <2>1, <2>2 DEF MediaTyped, Media!TypeOK
<1>3. CASE Media!CreateRow
  <2>1. confirming' = Media!Idle
    BY <1>3 DEF Media!CreateRow
  <2>2. /\ mRow' \in [Number -> {"none", "kept", "deleted"}]
        /\ digest' \in [Number -> {"absent", "present", "unreadable"}]
        /\ \A o \in Number : mRow[o] = "kept" => mRow'[o] = "kept"
    BY <1>3, MediaTypes DEF Media!CreateRow
  <2>3. UNCHANGED <<stored, old, policy, due, mHold, attempt, Media!passes, Media!reconciler,
                    Media!history>>
    BY <1>3 DEF Media!CreateRow
  <2> QED
    BY <2>1, <2>2, <2>3 DEF MediaTyped, Media!TypeOK, Media!Idle
<1>4. ASSUME NEW o \in Number, Media!Hold(o) \/ Media!Expire(o) PROVE MediaTyped'
  <2>1. /\ due' \subseteq {p \in Number : mRow[p] = "kept"}
        /\ mHold' \subseteq {p \in Number : mRow[p] = "kept"} /\ mSafe' \subseteq Number
        /\ UNCHANGED <<Media!client, mRow, digest, attempt, Media!passes, Media!reconciler>>
        /\ UNCHANGED <<erased, rowed>>
    BY <1>4 DEF Media!Hold, Media!Protect, Media!Expire, MediaTyped, Media!TypeOK
  <2> QED
    BY <2>1 DEF MediaTyped, Media!TypeOK
<1>5. ASSUME NEW o \in Number, Media!ExpireStale(o) PROVE MediaTyped'
  <2>1. /\ due' \subseteq {p \in Number : mRow[p] = "kept"}
        /\ attempt' \in [Number -> {"open", "REVIEW_REQUIRED", "closed"}]
        /\ UNCHANGED <<Media!client, mRow, digest, mHold, Media!passes, Media!reconciler>>
        /\ UNCHANGED Media!history
    BY <1>5, MediaTypes DEF Media!ExpireStale
  <2> QED
    BY <2>1 DEF MediaTyped, Media!TypeOK
<1>6. ASSUME NEW o \in Number, NEW s \in {"REVIEW_REQUIRED", "closed"}, Media!Decide(o, s)
      PROVE  MediaTyped'
  <2>1. /\ attempt' \in [Number -> {"open", "REVIEW_REQUIRED", "closed"}]
        /\ decided' \subseteq Number /\ mSafe' \subseteq Number
        /\ UNCHANGED <<Media!client, mRow, digest, due, mHold, todo, gone, Media!reconciler>>
        /\ UNCHANGED <<erased, rowed>>
    BY <1>6 DEF Media!Decide, Media!Protect, MediaTyped, Media!TypeOK
  <2> QED
    BY <2>1 DEF MediaTyped, Media!TypeOK
<1> QED
  BY <1>1, <1>2, <1>3, <1>4, <1>5, <1>6 DEF Media!ClientNext

LEMMA MediaPassTyped ==
  ASSUME Media!ObjectAssumption, MediaTyped, Media!PassNext PROVE MediaTyped'
<1> USE DEF Media!client, Media!rows, Media!passes, Media!reconciler, Media!history
<1>1. ASSUME NEW w \in Worker, Media!DeleteExpiredMediaBatch(w) PROVE MediaTyped'
  <2>1. PICK A \in SUBSET Media!Expired : todo' = [todo EXCEPT ![w] = A]
    BY <1>1 DEF Media!DeleteExpiredMediaBatch
  <2>2. A \subseteq Number /\ w \in Media!Pass
    BY MediaTypes DEF Media!Expired, Media!Pass
  <2>3. todo' \in [Media!Pass -> SUBSET Number]
    BY <2>1, <2>2, PassSet
  <2>4. UNCHANGED <<Media!client, Media!rows, decided, gone, Media!reconciler, Media!history>>
    BY <1>1 DEF Media!DeleteExpiredMediaBatch
  <2> QED
    BY <2>3, <2>4 DEF MediaTyped, Media!TypeOK
<1>2. ASSUME NEW o \in Number, Media!DeleteAttemptMedia(o) PROVE MediaTyped'
  <2>1. Decision \in Media!Pass
    BY DEF Media!Pass
  <2>2. todo' \in [Media!Pass -> SUBSET Number]
    BY <1>2, <2>1, MediaTypes DEF Media!DeleteAttemptMedia
  <2>3. /\ decided' \subseteq Number
        /\ UNCHANGED <<Media!client, Media!rows, gone, Media!reconciler, Media!history>>
    BY <1>2 DEF Media!DeleteAttemptMedia, MediaTyped, Media!TypeOK
  <2> QED
    BY <2>2, <2>3 DEF MediaTyped, Media!TypeOK
<1>3. ASSUME NEW w \in Media!Pass, NEW o \in Number, Media!DeleteObject(w, o) PROVE MediaTyped'
  <2>1. /\ todo' \in [Media!Pass -> SUBSET Number] /\ gone' \in [Media!Pass -> SUBSET Number]
    BY <1>3, MediaTypes DEF Media!DeleteObject
  <2>2. /\ stored' \subseteq Number /\ old' \subseteq stored' /\ erased' \subseteq Number
        /\ UNCHANGED <<policy, confirming, Media!rows, decided, Media!reconciler, rowed, mSafe>>
    BY <1>3 DEF Media!DeleteObject, MediaTyped, Media!TypeOK
  <2> QED
    BY <2>1, <2>2 DEF MediaTyped, Media!TypeOK
<1>4. ASSUME NEW w \in Media!Pass, NEW o \in Number, Media!MarkRow(w, o) PROVE MediaTyped'
  <2>1. gone' \in [Media!Pass -> SUBSET Number]
    BY <1>4, MediaTypes DEF Media!MarkRow
  <2>2. /\ mRow' \in [Number -> {"none", "kept", "deleted"}]
        /\ due' \subseteq {p \in Number : mRow'[p] = "kept"}
        /\ mHold' \subseteq {p \in Number : mRow'[p] = "kept"}
    BY <1>4, MediaTypes DEF Media!MarkRow
  <2>3. UNCHANGED <<Media!client, digest, attempt, decided, todo, Media!reconciler,
                    Media!history>>
    BY <1>4 DEF Media!MarkRow
  <2> QED
    BY <2>1, <2>2, <2>3 DEF MediaTyped, Media!TypeOK
<1>5. ASSUME NEW w \in Media!Pass, NEW o \in Number, Media!Retry(w, o) PROVE MediaTyped'
  <2>1. /\ todo' \in [Media!Pass -> SUBSET Number] /\ gone' \in [Media!Pass -> SUBSET Number]
    BY <1>5, MediaTypes DEF Media!Retry
  <2>2. due' \subseteq due
    BY <1>5 DEF Media!Retry
  <2>3. UNCHANGED <<Media!client, mRow, digest, mHold, attempt, decided, Media!reconciler,
                    Media!history>>
    BY <1>5 DEF Media!Retry
  <2> QED
    BY <2>1, <2>2, <2>3 DEF MediaTyped, Media!TypeOK
<1> QED
  BY <1>1, <1>2, <1>3, <1>4, <1>5 DEF Media!PassNext

LEMMA MediaReconcilerTyped ==
  ASSUME Media!ObjectAssumption, Media!BatchAssumption, MediaTyped, Media!ReconcilerNext
  PROVE  MediaTyped'
<1> USE DEF Media!client, Media!rows, Media!passes, Media!reconciler, Media!history
<1>1. CASE Media!ListObjects
  <2>1. cursor' \in Number \cup {0}
    BY <1>1, ListedGreatest DEF Media!ListObjects, MediaTyped
  <2>2. /\ page' \subseteq Number /\ rowed' \subseteq Number /\ step' = "legacy"
        /\ UNCHANGED <<Media!client, Media!rows, Media!passes, known, complete, erased, mSafe>>
    BY <1>1, MediaTypes DEF Media!ListObjects
  <2> QED
    BY <2>1, <2>2 DEF MediaTyped, Media!TypeOK
<1>2. CASE Media!ReadLegacy
  <2>1. PICK A \in SUBSET Media!Undigested :
          /\ digest' = [o \in Number |->
               IF o \in Media!Readable(A) THEN "present" ELSE digest[o]]
          /\ known' = page \cap Media!Readable(A) /\ complete' = Media!AllRead(A)
    BY <1>2 DEF Media!ReadLegacy
  <2>2. digest' \in [Number -> {"absent", "present", "unreadable"}]
    BY <2>1, MediaTypes
  <2>3. complete' \in BOOLEAN
    BY <2>1 DEF Media!AllRead
  <2>4. known' \subseteq Number
    BY <2>1 DEF MediaTyped, Media!TypeOK
  <2>5. /\ step' = "tracked"
        /\ UNCHANGED <<Media!client, mRow, due, mHold, attempt, Media!passes, page, cursor,
                       Media!history>>
    BY <1>2 DEF Media!ReadLegacy
  <2> QED
    BY <2>2, <2>3, <2>4, <2>5 DEF MediaTyped, Media!TypeOK
<1>3. CASE Media!ReadTracked
  BY <1>3 DEF Media!ReadTracked, MediaTyped, Media!TypeOK
<1>4. ASSUME NEW o \in Number, Media!DeleteOrphan(o) \/ Media!SkipOrphan(o) PROVE MediaTyped'
  BY <1>4 DEF Media!DeleteOrphan, Media!SkipOrphan, MediaTyped, Media!TypeOK
<1>5. CASE Media!EndReconciliation \/ Media!Restart
  BY <1>5 DEF Media!EndReconciliation, Media!Restart, MediaTyped, Media!TypeOK
<1> QED
  BY <1>1, <1>2, <1>3, <1>4, <1>5 DEF Media!ReconcilerNext

LEMMA MediaTypeStep ==
  ASSUME Media!ObjectAssumption, Media!BatchAssumption, MediaTyped, [Media!Next]_(Media!vars)
  PROVE  MediaTyped'
<1>1. CASE UNCHANGED Media!vars
  BY <1>1 DEF Media!vars, Media!client, Media!rows, Media!passes, Media!reconciler,
     Media!history, MediaTyped, Media!TypeOK
<1> QED
  BY <1>1, MediaClientTyped, MediaPassTyped, MediaReconcilerTyped DEF Media!Next

\* What a step may do to a row and to an object.
MediaMoves ==
  /\ \A o \in Number :
       \/ mRow'[o] = mRow[o]
       \/ mRow[o] = "none" /\ mRow'[o] = "kept" /\ digest'[o] = "present"
       \/ mRow'[o] = "deleted" /\ \E w \in Media!Pass : o \in gone[w]
  /\ \A o \in Number : mRow[o] = "deleted" => mRow'[o] = "deleted"
  /\ \A o \in Number : digest'[o] \in {digest[o], "present"}
  /\ stored' \subseteq stored \cup policy /\ policy' \subseteq policy
  /\ stored' \cap erased' \subseteq (stored \cap erased) \cup policy
  /\ erased \subseteq erased'
  /\ \A w \in Media!Pass :
       /\ todo'[w] \subseteq todo[w] \cup {o \in Number : mRow[o] = "kept"}
       /\ gone'[w] \subseteq gone[w] \cup (todo[w] \cap erased')
  /\ \A o \in Number : attempt[o] # "open" => attempt'[o] = attempt[o]
  /\ \A o \in mHold : o \in mHold' \/ mRow'[o] = "deleted"

LEMMA MediaMoved == ASSUME MediaTyped, [Media!Next]_(Media!vars) PROVE MediaMoves
<1> USE DEF Media!client, Media!rows, Media!passes, Media!reconciler, Media!history
<1>1. ASSUME UNCHANGED <<Media!rows, todo, gone, erased>>,
             stored' \subseteq stored \cup policy, policy' \subseteq policy
      PROVE  MediaMoves
  BY <1>1 DEF MediaMoves
<1>2. ASSUME NEW o \in Number,
             Media!Upload(o) \/ Media!EndPolicy(o) \/ Media!Age(o) \/ Media!ConfirmUpload(o)
      PROVE  MediaMoves
  BY <1>1, <1>2 DEF Media!Upload, Media!EndPolicy, Media!Age, Media!ConfirmUpload
<1>3. CASE Media!HeadObject \/ Media!FailConfirm \/ UNCHANGED Media!vars
  BY <1>1, <1>3 DEF Media!HeadObject, Media!FailConfirm, Media!vars
<1>4. CASE Media!ListObjects \/ Media!ReadTracked \/ Media!EndReconciliation \/ Media!Restart
  BY <1>1, <1>4
  DEF Media!ListObjects, Media!ReadTracked, Media!EndReconciliation, Media!Restart
<1>5. ASSUME NEW o \in Number, Media!SkipOrphan(o) PROVE MediaMoves
  BY <1>1, <1>5 DEF Media!SkipOrphan
<1>6. ASSUME NEW w \in Worker, Media!DeleteExpiredMediaBatch(w) PROVE MediaMoves
  <2>1. PICK A \in SUBSET Media!Expired : todo' = [todo EXCEPT ![w] = A]
    BY <1>6 DEF Media!DeleteExpiredMediaBatch
  <2>2. A \subseteq {o \in Number : mRow[o] = "kept"}
    BY MediaTypes DEF Media!Expired
  <2>3. \A v \in Media!Pass : todo'[v] \subseteq todo[v] \cup {o \in Number : mRow[o] = "kept"}
    BY <2>1, <2>2, MediaTypes
  <2> QED
    BY <1>6, <2>3 DEF Media!DeleteExpiredMediaBatch, MediaMoves
<1>7. ASSUME NEW o \in Number, Media!DeleteAttemptMedia(o) PROVE MediaMoves
  <2>1. \A v \in Media!Pass : todo'[v] \subseteq todo[v] \cup {p \in Number : mRow[p] = "kept"}
    BY <1>7, MediaTypes DEF Media!DeleteAttemptMedia
  <2> QED
    BY <1>7, <2>1 DEF Media!DeleteAttemptMedia, MediaMoves
<1>8. ASSUME NEW o \in Number, Media!DeleteOrphan(o) PROVE MediaMoves
  BY <1>8 DEF Media!DeleteOrphan, MediaMoves
<1>9. CASE Media!CreateRow
  <2>1. UNCHANGED <<stored, policy, erased, todo, gone, attempt, mHold>>
    BY <1>9 DEF Media!CreateRow
  <2>2. \A o \in Number :
          \/ mRow'[o] = mRow[o] /\ digest'[o] = digest[o]
          \/ mRow[o] = "none" /\ mRow'[o] = "kept" /\ digest'[o] = "present"
    BY <1>9, MediaTypes DEF Media!CreateRow
  <2> QED
    BY <2>1, <2>2, MediaTypes DEF MediaMoves
<1>10. ASSUME NEW o \in Number, Media!Hold(o) PROVE MediaMoves
  BY <1>10 DEF Media!Hold, MediaMoves
<1>11. ASSUME NEW o \in Number, Media!Expire(o) PROVE MediaMoves
  BY <1>11 DEF Media!Expire, MediaMoves
<1>12. ASSUME NEW o \in Number, Media!ExpireStale(o) PROVE MediaMoves
  <2>1. \A p \in Number : attempt[p] # "open" => attempt'[p] = attempt[p]
    BY <1>12, MediaTypes DEF Media!ExpireStale
  <2> QED
    BY <1>12, <2>1 DEF Media!ExpireStale, MediaMoves
<1>13. ASSUME NEW o \in Number, NEW s \in {"REVIEW_REQUIRED", "closed"}, Media!Decide(o, s)
       PROVE  MediaMoves
  <2>1. \A p \in Number : attempt[p] # "open" => attempt'[p] = attempt[p]
    BY <1>13, MediaTypes DEF Media!Decide
  <2> QED
    BY <1>13, <2>1 DEF Media!Decide, MediaMoves
<1>14. ASSUME NEW w \in Media!Pass, NEW o \in Number, Media!DeleteObject(w, o) PROVE MediaMoves
  <2>1. \A v \in Media!Pass :
          todo'[v] \subseteq todo[v] /\ gone'[v] \subseteq gone[v] \cup (todo[v] \cap erased')
    BY <1>14, MediaTypes DEF Media!DeleteObject
  <2> QED
    BY <1>14, <2>1 DEF Media!DeleteObject, MediaMoves
<1>15. ASSUME NEW w \in Media!Pass, NEW o \in Number, Media!MarkRow(w, o) PROVE MediaMoves
  <2>1. \A v \in Media!Pass : gone'[v] \subseteq gone[v]
    BY <1>15, MediaTypes DEF Media!MarkRow
  <2>2. /\ \A p \in Number : mRow'[p] = IF p = o THEN "deleted" ELSE mRow[p]
        /\ \A p \in mHold : p \in mHold' \/ p = o
        /\ o \in gone[w]
        /\ UNCHANGED <<stored, policy, erased, todo, digest, attempt>>
    BY <1>15, MediaTypes DEF Media!MarkRow
  <2> QED
    BY <2>1, <2>2 DEF MediaMoves
<1>16. ASSUME NEW w \in Media!Pass, NEW o \in Number, Media!Retry(w, o) PROVE MediaMoves
  <2>1. \A v \in Media!Pass : todo'[v] \subseteq todo[v] /\ gone'[v] \subseteq gone[v]
    BY <1>16, MediaTypes DEF Media!Retry
  <2> QED
    BY <1>16, <2>1 DEF Media!Retry, MediaMoves
<1>17. CASE Media!ReadLegacy
  <2>1. \A o \in Number : digest'[o] \in {digest[o], "present"}
    BY <1>17 DEF Media!ReadLegacy
  <2> QED
    BY <1>17, <2>1 DEF Media!ReadLegacy, MediaMoves
<1> QED
  BY <1>2, <1>3, <1>4, <1>5, <1>6, <1>7, <1>8, <1>9, <1>10, <1>11, <1>12, <1>13, <1>14, <1>15,
     <1>16, <1>17 DEF Media!Next, Media!ClientNext, Media!PassNext, Media!ReconcilerNext

\* A row is marked when its object is erased; rows without a digest are of an earlier
\* version, and so is no object that can be uploaded again.
RowsOK ==
  /\ Media!MarkedWasErased
  /\ \A w \in Media!Pass :
       /\ gone[w] \subseteq erased
       /\ \A o \in todo[w] \cup gone[w] : mRow[o] # "none"
  /\ Legacy \cap policy = {} /\ Legacy \cap stored \cap erased = {}
  /\ \A o \in Legacy : mRow[o] # "none"
  /\ \A o \in Number : mRow[o] # "none" /\ o \notin Legacy => digest[o] = "present"

\* The digests a pass needs to see are there ...
Digested == \A o \in Number : mRow[o] = "kept" => digest[o] = "present"

\* ... when it has read all rows of an earlier version, and those it must leave are known.
KnownOK ==
  /\ rowed \subseteq {o \in Number : mRow[o] # "none"}
  /\ step \in {"tracked", "delete"} /\ complete => Digested
  /\ step = "delete" /\ complete =>
       /\ mSafe \cap page \subseteq known
       /\ \A o \in page \cap rowed : o \in known \/ (o \in Legacy /\ o \notin stored)

\* What came under a hold or review is protected and in nobody's hands.
SafeMediaOK ==
  /\ mSafe \subseteq stored
  /\ \A w \in Media!Pass : todo[w] \cap mSafe = {}
  /\ \A o \in mSafe : mRow[o] # "none" /\ (mRow[o] = "kept" => o \in Media!Protected)
  /\ \A o \in decided : attempt[o] = "closed"

MediaInv == MediaTyped /\ RowsOK /\ KnownOK /\ SafeMediaOK

LEMMA MediaInit == ASSUME Media!ObjectAssumption, Media!Init PROVE MediaInv
<1>1. RowsOK
  BY DEF Media!ObjectAssumption, Media!Init, RowsOK, Media!MarkedWasErased
<1>2. KnownOK
  BY DEF Media!Init, KnownOK
<1>3. SafeMediaOK
  BY DEF Media!Init, SafeMediaOK
<1> QED
  BY <1>1, <1>2, <1>3, MediaTypeInit DEF MediaInv

LEMMA RowsStep ==
  ASSUME Media!ObjectAssumption, MediaTyped, RowsOK, [Media!Next]_(Media!vars) PROVE RowsOK'
<1>0. MediaMoves
  BY MediaMoved
<1>1. Media!MarkedWasErased'
  BY <1>0 DEF MediaMoves, RowsOK, Media!MarkedWasErased
<1>2. ASSUME NEW w \in Media!Pass
      PROVE  gone'[w] \subseteq erased' /\ \A o \in todo'[w] \cup gone'[w] : mRow'[o] # "none"
  <2>1. gone'[w] \subseteq erased'
    BY <1>0 DEF MediaMoves, RowsOK
  <2>2. \A o \in todo'[w] \cup gone'[w] : o \in Number /\ mRow[o] # "none"
    BY <1>0, MediaTypes DEF MediaMoves, RowsOK
  <2>3. \A o \in Number : mRow[o] # "none" => mRow'[o] # "none"
    BY <1>0 DEF MediaMoves
  <2> QED
    BY <2>1, <2>2, <2>3
<1>3. Legacy \cap policy' = {} /\ Legacy \cap stored' \cap erased' = {}
  BY <1>0 DEF MediaMoves, RowsOK
<1>4. \A o \in Legacy : mRow'[o] # "none"
  BY <1>0 DEF MediaMoves, RowsOK, Media!ObjectAssumption
<1>5. \A o \in Number : mRow'[o] # "none" /\ o \notin Legacy => digest'[o] = "present"
  <2> SUFFICES ASSUME NEW o \in Number, mRow'[o] # "none", o \notin Legacy
               PROVE  digest'[o] = "present"
    OBVIOUS
  <2>1. CASE mRow[o] = "none"
    BY <1>0, <2>1 DEF MediaMoves, RowsOK, Media!MarkedWasErased
  <2>2. CASE mRow[o] # "none"
    BY <1>0, <2>2 DEF MediaMoves, RowsOK
  <2> QED
    BY <2>1, <2>2
<1> QED
  BY <1>1, <1>2, <1>3, <1>4, <1>5 DEF RowsOK

\* Besides what the reconciliation pass does itself, its page and what is safe.
PageKept ==
  /\ UNCHANGED <<known, complete, step, rowed>> /\ page' \subseteq page
  /\ mSafe' \subseteq mSafe \cup (stored \ Media!Doomed)

LEMMA PageMoved ==
  ASSUME [Media!Next]_(Media!vars)
  PROVE  \/ Media!ListObjects \/ Media!ReadLegacy \/ Media!ReadTracked
         \/ Media!EndReconciliation \/ PageKept
<1> USE DEF Media!client, Media!rows, Media!passes, Media!reconciler, Media!history
<1>1. ASSUME UNCHANGED <<page, known, complete, step, rowed, mSafe>> PROVE PageKept
  BY <1>1 DEF PageKept
<1>2. CASE Media!ClientNext
  <2>1. ASSUME NEW o \in Number, Media!Hold(o) PROVE PageKept
    BY <2>1 DEF Media!Hold, Media!Protect, PageKept
  <2>2. ASSUME NEW o \in Number, NEW s \in {"REVIEW_REQUIRED", "closed"}, Media!Decide(o, s)
        PROVE  PageKept
    BY <2>2 DEF Media!Decide, Media!Protect, PageKept
  <2>3. \/ \E o \in Number : Media!Hold(o)
        \/ \E o \in Number, s \in {"REVIEW_REQUIRED", "closed"} : Media!Decide(o, s)
        \/ UNCHANGED <<page, known, complete, step, rowed, mSafe>>
    BY <1>2 DEF Media!ClientNext, Media!Upload, Media!EndPolicy, Media!Age, Media!ConfirmUpload,
       Media!HeadObject, Media!CreateRow, Media!FailConfirm, Media!Expire, Media!ExpireStale
  <2> QED
    BY <1>1, <2>1, <2>2, <2>3
<1>3. CASE Media!PassNext
  BY <1>1, <1>3
  DEF Media!PassNext, Media!DeleteExpiredMediaBatch, Media!DeleteAttemptMedia,
      Media!DeleteObject, Media!MarkRow, Media!Retry
<1>4. ASSUME NEW o \in Number, Media!DeleteOrphan(o) \/ Media!SkipOrphan(o) PROVE PageKept
  BY <1>4 DEF Media!DeleteOrphan, Media!SkipOrphan, PageKept
<1>5. CASE Media!Restart \/ UNCHANGED Media!vars
  BY <1>1, <1>5 DEF Media!Restart, Media!vars
<1> QED
  BY <1>2, <1>3, <1>4, <1>5 DEF Media!Next, Media!ReconcilerNext

\* A batch that was not full held all rows without a digest; each then has one.
LEMMA AllReadDigested ==
  ASSUME Media!ObjectAssumption, Media!BatchAssumption, MediaTyped, Media!ReadLegacy, complete'
  PROVE  Digested'
<1>1. PICK A \in SUBSET Media!Undigested :
        /\ Media!Cardinality(A) = Media!Min({Batch, Media!Cardinality(Media!Undigested)})
        /\ digest' = [o \in Number |-> IF o \in Media!Readable(A) THEN "present" ELSE digest[o]]
        /\ complete' = Media!AllRead(A)
  BY DEF Media!ReadLegacy
<1>2. Media!Undigested \subseteq Number /\ IsFiniteSet(Number)
  BY MediaSets DEF Media!Undigested, Media!ObjectAssumption
<1>3. IsFiniteSet(Media!Undigested) /\ IsFiniteSet(A)
  BY <1>2, FS_Subset
<1>4. Cardinality(A) < Batch /\ Media!Readable(A) = A
  BY <1>1, MediaSets DEF Media!AllRead
<1>5. Cardinality(Media!Undigested) \in Int /\ Batch \in Int
  BY <1>3, FS_CardinalityType DEF Media!BatchAssumption
<1>6. Cardinality(A) = Min({Batch, Cardinality(Media!Undigested)})
  BY <1>1, MediaSets
<1>7. Min({Batch, Cardinality(Media!Undigested)}) \in {Batch, Cardinality(Media!Undigested)}
  BY <1>5, MinOfTwo
<1>8. Cardinality(A) = Cardinality(Media!Undigested)
  BY <1>4, <1>5, <1>6, <1>7
<1>9. A = Media!Undigested
  BY <1>3, <1>8, FS_Subset
<1>10. mRow' = mRow
  BY DEF Media!ReadLegacy
<1>11. ASSUME NEW o \in Number, mRow[o] = "kept" PROVE digest'[o] = "present"
  BY <1>1, <1>4, <1>9, <1>11 DEF Media!Undigested
<1> QED
  BY <1>10, <1>11 DEF Digested

LEMMA DigestedKept == ASSUME MediaTyped, MediaMoves, Digested PROVE Digested'
  BY MediaTypes DEF MediaMoves, Digested

\* When all legacy rows were read, objects in the bucket that have a row have a digest.
LEMMA StoredDigested ==
  ASSUME Media!ObjectAssumption, MediaTyped, RowsOK, Digested, NEW o \in stored,
         mRow[o] # "none"
  PROVE  digest[o] = "present"
<1>1. o \in Number
  BY MediaTypes
<1>2. CASE o \in Legacy
  <2>1. mRow[o] = "kept"
    BY <1>1, <1>2, MediaTypes DEF RowsOK, Media!MarkedWasErased
  <2> QED
    BY <1>1, <2>1 DEF Digested
<1> QED
  BY <1>1, <1>2 DEF RowsOK

LEMMA KnownStep ==
  ASSUME Media!ObjectAssumption, Media!BatchAssumption, MediaInv, [Media!Next]_(Media!vars)
  PROVE  KnownOK'
<1>0. MediaTyped /\ RowsOK /\ KnownOK /\ SafeMediaOK /\ MediaMoves
  BY MediaMoved DEF MediaInv
<1>1. \A o \in Number : mRow[o] # "none" => mRow'[o] # "none"
  BY <1>0 DEF MediaMoves
<1>2. CASE Media!ListObjects
  <2>1. step' = "legacy" /\ rowed' \subseteq {o \in Number : mRow'[o] # "none"}
    BY <1>0, <1>1, <1>2, MediaTypes DEF Media!ListObjects, Media!Listed
  <2> QED
    BY <2>1 DEF KnownOK
<1>3. CASE Media!EndReconciliation
  BY <1>3 DEF Media!EndReconciliation, KnownOK
<1>4. CASE Media!ReadLegacy
  <2>1. step' = "tracked" /\ rowed' = rowed
    BY <1>4 DEF Media!ReadLegacy, Media!history
  <2>2. rowed' \subseteq {o \in Number : mRow'[o] # "none"}
    BY <1>0, <1>1, <2>1 DEF KnownOK
  <2>3. complete' => Digested'
    BY <1>0, <1>4, AllReadDigested
  <2> QED
    BY <2>1, <2>2, <2>3 DEF KnownOK
<1>5. CASE Media!ReadTracked
  <2>1. /\ step = "tracked" /\ step' = "delete"
        /\ known' = known \cup {o \in page : digest[o] = "present"}
        /\ UNCHANGED <<stored, page, complete, rowed, mSafe>>
    BY <1>5 DEF Media!ReadTracked, Media!client, Media!history
  <2>2. rowed' \subseteq {o \in Number : mRow'[o] # "none"}
    BY <1>0, <1>1, <2>1 DEF KnownOK
  <2>3. complete' => Digested /\ Digested'
    BY <1>0, <2>1, DigestedKept DEF KnownOK
  <2>4. ASSUME complete' PROVE mSafe' \cap page' \subseteq known'
    <3>1. ASSUME NEW o \in mSafe PROVE digest[o] = "present"
      BY <1>0, <2>3, <2>4, StoredDigested DEF SafeMediaOK
    <3> QED
      BY <2>1, <3>1
  <2>5. ASSUME complete', NEW o \in page' \cap rowed'
        PROVE  o \in known' \/ (o \in Legacy /\ o \notin stored')
    <3>1. o \in page /\ o \in Number /\ mRow[o] # "none"
      BY <1>0, <2>1 DEF KnownOK
    <3>2. CASE o \in stored \/ o \notin Legacy
      <4>1. digest[o] = "present"
        BY <1>0, <2>3, <2>5, <3>1, <3>2, StoredDigested DEF RowsOK
      <4> QED
        BY <2>1, <3>1, <4>1
    <3> QED
      BY <2>1, <3>2
  <2> QED
    BY <2>2, <2>3, <2>4, <2>5 DEF KnownOK
<1>6. CASE PageKept
  <2>1. /\ UNCHANGED <<known, complete, step, rowed>> /\ page' \subseteq page
        /\ mSafe' \subseteq mSafe \cup (stored \ Media!Doomed)
    BY <1>6 DEF PageKept
  <2>2. rowed' \subseteq {o \in Number : mRow'[o] # "none"}
    BY <1>0, <1>1, <2>1 DEF KnownOK
  <2>3. step' \in {"tracked", "delete"} /\ complete' => Digested'
    BY <1>0, <2>1, DigestedKept DEF KnownOK
  <2>4. ASSUME step' = "delete" /\ complete' PROVE mSafe' \cap page' \subseteq known'
    <3>0. step = "delete" /\ complete
      BY <2>1, <2>4
    <3>1. mSafe \cap page \subseteq known
      BY <1>0, <3>0 DEF KnownOK
    <3>2. page \ known = Media!Orphans
      BY <3>0 DEF Media!Orphans
    <3>3. Media!Orphans \subseteq Media!Doomed
      BY DEF Media!Doomed
    <3> QED
      BY <2>1, <3>1, <3>2, <3>3
  <2>5. ASSUME step' = "delete" /\ complete', NEW o \in page' \cap rowed'
        PROVE  o \in known' \/ (o \in Legacy /\ o \notin stored')
    BY <1>0, <2>1, <2>5 DEF KnownOK, RowsOK, MediaMoves
  <2> QED
    BY <2>2, <2>3, <2>4, <2>5 DEF KnownOK
<1> QED
  BY <1>2, <1>3, <1>4, <1>5, <1>6, PageMoved

LEMMA SafeMediaStep ==
  ASSUME Media!ObjectAssumption, Media!BatchAssumption, MediaInv, [Media!Next]_(Media!vars)
  PROVE  SafeMediaOK'
<1> USE DEF Media!client, Media!rows, Media!passes, Media!reconciler, Media!history
<1>0. MediaTyped /\ RowsOK /\ KnownOK /\ SafeMediaOK /\ MediaMoves
  BY MediaMoved DEF MediaInv
<1>1. \A o \in Number : mRow[o] # "none" => mRow'[o] # "none"
  BY <1>0 DEF MediaMoves
<1>2. mSafe \subseteq Number
  BY <1>0 DEF MediaTyped, Media!TypeOK
<1>3. ASSUME NEW o \in mSafe, mRow'[o] = "kept" PROVE o \in Media!Protected'
  <2>1. o \in Number /\ mRow[o] = "kept"
    BY <1>0, <1>2, <1>3 DEF MediaMoves, SafeMediaOK
  <2>2. o \in mHold \/ attempt[o] = "REVIEW_REQUIRED"
    BY <1>0, <2>1 DEF SafeMediaOK, Media!Protected
  <2> QED
    BY <1>0, <1>3, <2>1, <2>2 DEF MediaMoves, Media!Protected
<1>4. \A o \in decided : o \in Number /\ attempt'[o] = "closed"
  BY <1>0 DEF MediaMoves, SafeMediaOK, MediaTyped, Media!TypeOK
\* What stays safe.
<1>5. ASSUME mSafe' = mSafe, mSafe \subseteq stored', decided' \subseteq decided,
             \A w \in Media!Pass : todo'[w] \cap mSafe = {}
      PROVE  SafeMediaOK'
  BY <1>0, <1>1, <1>2, <1>3, <1>4, <1>5 DEF SafeMediaOK
<1>6. ASSUME UNCHANGED <<mSafe, todo, decided>>, mSafe \subseteq stored' PROVE SafeMediaOK'
  BY <1>0, <1>5, <1>6 DEF SafeMediaOK
\* What becomes safe.
<1>7. ASSUME NEW o \in Number, mRow[o] = "kept", Media!Protect(o), o \in Media!Protected',
             UNCHANGED <<stored, todo, decided, mRow>>
      PROVE  SafeMediaOK'
  <2>1. mSafe' \subseteq mSafe \cup {o} /\ mSafe' \subseteq stored'
    BY <1>0, <1>7 DEF Media!Protect, SafeMediaOK
  <2>2. \A w \in Media!Pass : todo'[w] \cap mSafe' = {}
    BY <1>0, <1>7 DEF Media!Protect, Media!Doomed, SafeMediaOK
  <2>3. \A p \in mSafe' : mRow'[p] # "none" /\ (mRow'[p] = "kept" => p \in Media!Protected')
    BY <1>0, <1>3, <1>7, <2>1 DEF SafeMediaOK
  <2>4. \A p \in decided' : attempt'[p] = "closed"
    BY <1>4, <1>7
  <2> QED
    BY <2>1, <2>2, <2>3, <2>4 DEF SafeMediaOK
<1>8. CASE Media!ClientNext
  <2>1. ASSUME NEW o \in Number, Media!Hold(o) PROVE SafeMediaOK'
    BY <1>7, <2>1 DEF Media!Hold, Media!Protected
  <2>2. ASSUME NEW o \in Number, Media!Decide(o, "REVIEW_REQUIRED") PROVE SafeMediaOK'
    <3>1. o \in Media!Protected'
      BY <1>0, <2>2, MediaTypes DEF Media!Decide, Media!Protected
    <3> QED
      BY <1>7, <2>2, <3>1 DEF Media!Decide
  <2>3. ASSUME NEW o \in Number, Media!Decide(o, "closed") PROVE SafeMediaOK'
    <3>1. /\ decided' = decided \cup {o} /\ UNCHANGED <<stored, mSafe, todo, mRow>>
          /\ attempt' = [attempt EXCEPT ![o] = "closed"]
      BY <2>3 DEF Media!Decide
    <3>2. \A p \in decided' : attempt'[p] = "closed"
      BY <1>0, <1>4, <3>1, MediaTypes
    <3> QED
      BY <1>0, <1>3, <3>1, <3>2 DEF SafeMediaOK
  <2>4. CASE UNCHANGED <<mSafe, todo, decided>> /\ stored \subseteq stored'
    BY <1>0, <1>6, <2>4 DEF SafeMediaOK
  <2>5. \/ \E o \in Number : Media!Hold(o)
        \/ \E o \in Number : Media!Decide(o, "REVIEW_REQUIRED") \/ Media!Decide(o, "closed")
        \/ UNCHANGED <<mSafe, todo, decided>> /\ stored \subseteq stored'
    BY <1>8 DEF Media!ClientNext, Media!Upload, Media!EndPolicy, Media!Age, Media!ConfirmUpload,
       Media!HeadObject, Media!CreateRow, Media!FailConfirm, Media!Expire, Media!ExpireStale
  <2> QED
    BY <2>1, <2>2, <2>3, <2>4, <2>5
<1>9. ASSUME NEW w \in Worker, Media!DeleteExpiredMediaBatch(w) PROVE SafeMediaOK'
  <2>1. PICK A \in SUBSET Media!Expired : todo' = [todo EXCEPT ![w] = A]
    BY <1>9 DEF Media!DeleteExpiredMediaBatch
  <2>2. A \cap mSafe = {}
    <3>1. \A o \in Media!Expired : mRow[o] = "kept" /\ o \notin Media!Protected
      BY DEF Media!Expired
    <3> QED
      BY <1>0, <2>1, <3>1 DEF SafeMediaOK
  <2>3. \A v \in Media!Pass : todo'[v] \cap mSafe = {}
    BY <1>0, <2>1, <2>2, MediaTypes DEF SafeMediaOK
  <2>4. UNCHANGED <<mSafe, stored, decided>>
    BY <1>9 DEF Media!DeleteExpiredMediaBatch
  <2> QED
    BY <1>0, <1>5, <2>3, <2>4 DEF SafeMediaOK
<1>10. ASSUME NEW o \in Number, Media!DeleteAttemptMedia(o) PROVE SafeMediaOK'
  <2>1. /\ o \in decided /\ decided' \subseteq decided /\ UNCHANGED <<mSafe, stored>>
        /\ todo' = [todo EXCEPT ![Decision] =
                      @ \cup {p \in {o} : mRow[p] = "kept" /\ p \notin mHold}]
    BY <1>10 DEF Media!DeleteAttemptMedia
  <2>2. o \in mSafe => ~(mRow[o] = "kept" /\ o \notin mHold)
    BY <1>0, <2>1 DEF SafeMediaOK, Media!Protected
  <2>3. \A v \in Media!Pass : todo'[v] \cap mSafe = {}
    BY <1>0, <2>1, <2>2, MediaTypes DEF SafeMediaOK
  <2> QED
    BY <1>0, <1>5, <2>1, <2>3 DEF SafeMediaOK
<1>11. ASSUME NEW w \in Media!Pass, NEW o \in Number, Media!DeleteObject(w, o)
       PROVE  SafeMediaOK'
  <2>1. /\ o \in todo[w] /\ stored' = stored \ {o} /\ UNCHANGED <<mSafe, decided>>
        /\ todo' = [todo EXCEPT ![w] = @ \ {o}]
    BY <1>11 DEF Media!DeleteObject
  <2>2. mSafe \subseteq stored' /\ \A v \in Media!Pass : todo'[v] \cap mSafe = {}
    BY <1>0, <2>1, MediaTypes DEF SafeMediaOK
  <2> QED
    BY <1>5, <2>1, <2>2
<1>12. ASSUME NEW w \in Media!Pass, NEW o \in Number, Media!MarkRow(w, o) \/ Media!Retry(w, o)
       PROVE  SafeMediaOK'
  <2>1. UNCHANGED <<mSafe, stored, decided>>
    BY <1>12 DEF Media!MarkRow, Media!Retry
  <2>2. \A v \in Media!Pass : todo'[v] \subseteq todo[v]
    BY <1>0, <1>12, MediaTypes DEF Media!MarkRow, Media!Retry
  <2> QED
    BY <1>0, <1>5, <2>1, <2>2 DEF SafeMediaOK
<1>13. ASSUME NEW o \in Number, Media!DeleteOrphan(o) PROVE SafeMediaOK'
  <2>1. /\ step = "delete" /\ complete /\ o \in page \ known
        /\ stored' = stored \ {o} /\ UNCHANGED <<mSafe, decided, todo>>
    BY <1>13 DEF Media!DeleteOrphan, Media!Orphans
  <2>2. o \notin mSafe
    BY <1>0, <2>1 DEF KnownOK
  <2> QED
    BY <1>0, <1>6, <2>1, <2>2 DEF SafeMediaOK
<1>14. CASE UNCHANGED <<mSafe, stored, todo, decided>>
  BY <1>0, <1>6, <1>14 DEF SafeMediaOK
<1>15. \/ \E w \in Worker : Media!DeleteExpiredMediaBatch(w)
       \/ \E o \in Number : Media!DeleteAttemptMedia(o)
       \/ \E w \in Media!Pass, o \in Number :
            Media!DeleteObject(w, o) \/ Media!MarkRow(w, o) \/ Media!Retry(w, o)
       \/ \E o \in Number : Media!DeleteOrphan(o)
       \/ Media!ClientNext
       \/ UNCHANGED <<mSafe, stored, todo, decided>>
  BY DEF Media!Next, Media!vars, Media!PassNext, Media!ReconcilerNext, Media!ListObjects,
     Media!ReadLegacy, Media!ReadTracked, Media!SkipOrphan, Media!EndReconciliation,
     Media!Restart
<1> QED
  BY <1>8, <1>9, <1>10, <1>11, <1>12, <1>13, <1>14, <1>15

LEMMA MediaInvStep ==
  ASSUME Media!ObjectAssumption, Media!BatchAssumption, MediaInv, [Media!Next]_(Media!vars)
  PROVE  MediaInv'
  BY MediaTypeStep, RowsStep, KnownStep, SafeMediaStep DEF MediaInv

\* Media that came under a hold or review in nobody's hands stays in the bucket, and a row
\* is marked deleted only after its object.
THEOREM MediaStays ==
  ASSUME Media!ObjectAssumption, Media!BatchAssumption
  PROVE  Media!Spec => [](Media!TypeOK /\ Media!ProtectedStays /\ Media!MarkedWasErased)
<1>1. MediaInv => Media!TypeOK /\ Media!ProtectedStays /\ Media!MarkedWasErased
  BY DEF MediaInv, MediaTyped, SafeMediaOK, RowsOK, Media!ProtectedStays
<1> QED
  BY MediaInit, MediaInvStep, <1>1, PTL DEF Media!Spec

\* Reconciliation deletes no object that had a row when its page was listed, whatever is
\* confirmed, held, expired, deleted or decided while it reads.
THEOREM TrackedStays ==
  ASSUME Media!ObjectAssumption, Media!BatchAssumption
  PROVE  Media!Spec => Media!TrackedIsNoOrphan
<1>1. ASSUME MediaInv, [Media!Next]_(Media!vars)
      PROVE  [\A o \in page :
               o \in stored \ stored' /\ page' # page => o \notin rowed]_(Media!vars)
  <2> SUFFICES ASSUME Media!Next, NEW o \in page, o \in stored \ stored', page' # page
               PROVE  o \notin rowed
    BY <1>1
  <2> USE DEF Media!client, Media!rows, Media!passes, Media!reconciler, Media!history
  <2>1. ASSUME NEW p \in Number, Media!DeleteOrphan(p) PROVE o \notin rowed
    <3>1. step = "delete" /\ complete /\ p \in page \ known /\ stored' = stored \ {p}
      BY <2>1 DEF Media!DeleteOrphan, Media!Orphans
    <3>2. o = p
      BY <3>1
    <3> QED
      BY <1>1, <3>1, <3>2 DEF MediaInv, KnownOK
  <2>2. CASE stored \subseteq stored' \/ page' = page
    BY <2>2
  <2>3. Media!ReconcilerNext => \/ \E p \in Number : Media!DeleteOrphan(p)
                                \/ stored \subseteq stored'
    BY DEF Media!ReconcilerNext, Media!ListObjects, Media!ReadLegacy, Media!ReadTracked,
       Media!SkipOrphan, Media!EndReconciliation, Media!Restart
  <2>4. Media!ClientNext => page' = page
    BY DEF Media!ClientNext, Media!Upload, Media!EndPolicy, Media!Age, Media!ConfirmUpload,
       Media!HeadObject, Media!CreateRow, Media!FailConfirm, Media!Expire, Media!ExpireStale,
       Media!Hold, Media!Decide
  <2>5. Media!PassNext => page' = page
    BY DEF Media!PassNext, Media!DeleteExpiredMediaBatch, Media!DeleteAttemptMedia,
       Media!DeleteObject, Media!MarkRow, Media!Retry
  <2> QED
    BY <2>1, <2>2, <2>3, <2>4, <2>5 DEF Media!Next
<1> QED
  BY MediaInit, MediaInvStep, <1>1, PTL DEF Media!Spec, Media!TrackedIsNoOrphan

-------------------------------------------------------------------------------
(* The composition                                                         *)

\* A step of the composition is a step of each component, or leaves it as it is.
LEMMA EachSteps ==
  [BackgroundNext]_backgroundVars =>
    /\ [Media!Next]_(Media!vars) /\ [Next]_vars /\ [Nida!Next]_(Nida!vars)
    /\ [Slots!Next]_(Slots!vars) /\ [Limiter!Next]_(Limiter!vars)
<1>1. ASSUME InMedia, BackgroundNext PROVE Media!Next
  BY <1>1
  DEF BackgroundNext, InMedia, InJobs, InCitizen, InSlots, InLimiter, Media!Next,
      Media!ClientNext, Media!PassNext, Media!ReconcilerNext
<1>2. ASSUME InJobs, BackgroundNext PROVE Next
  BY <1>2 DEF BackgroundNext, InMedia, InJobs, InCitizen, InSlots, InLimiter, Next
<1>3. ASSUME InCitizen, BackgroundNext PROVE Nida!Next
  BY <1>3 DEF BackgroundNext, InMedia, InJobs, InCitizen, InSlots, InLimiter, Nida!Next
<1>4. ASSUME InSlots, BackgroundNext PROVE Slots!Next
  BY <1>4 DEF BackgroundNext, InMedia, InJobs, InCitizen, InSlots, InLimiter, Slots!Next
<1>5. ASSUME InLimiter, BackgroundNext PROVE Limiter!Next
  BY <1>5 DEF BackgroundNext, InMedia, InJobs, InCitizen, InSlots, InLimiter, Limiter!Next
<1>6. BackgroundNext => InMedia \/ InJobs \/ InCitizen \/ InSlots \/ InLimiter
  BY DEF BackgroundNext
<1>7. /\ UNCHANGED mediaVars => UNCHANGED Media!vars
      /\ UNCHANGED jobVars => UNCHANGED vars
      /\ UNCHANGED citizenVars => UNCHANGED Nida!vars
      /\ UNCHANGED slotVars => UNCHANGED Slots!vars
      /\ UNCHANGED limiterVars => UNCHANGED Limiter!vars
  <2>1. UNCHANGED mediaVars => UNCHANGED Media!vars
    BY DEF mediaVars, Media!vars, Media!client, Media!rows, Media!passes, Media!reconciler,
       Media!history
  <2>2. UNCHANGED jobVars => UNCHANGED vars
    BY DEF jobVars
  <2>3. UNCHANGED citizenVars => UNCHANGED Nida!vars
    BY DEF citizenVars, Nida!vars, Nida!callVars, Nida!reqVars, Nida!breaker
  <2>4. UNCHANGED slotVars => UNCHANGED Slots!vars
    BY DEF slotVars, Slots!vars
  <2>5. UNCHANGED limiterVars => UNCHANGED Limiter!vars
    BY DEF limiterVars, Limiter!vars
  <2> QED
    BY <2>1, <2>2, <2>3, <2>4, <2>5
<1>8. /\ InMedia => UNCHANGED <<jobVars, citizenVars, slotVars, limiterVars>>
      /\ InJobs => UNCHANGED <<mediaVars, citizenVars, slotVars, limiterVars>>
      /\ InCitizen => UNCHANGED <<mediaVars, jobVars, slotVars, limiterVars>>
      /\ InSlots => UNCHANGED <<mediaVars, jobVars, citizenVars, limiterVars>>
      /\ InLimiter => UNCHANGED <<mediaVars, jobVars, citizenVars, slotVars>>
  BY DEF InMedia, InJobs, InCitizen, InSlots, InLimiter
<1>9. UNCHANGED backgroundVars =>
        /\ UNCHANGED mediaVars /\ UNCHANGED jobVars /\ UNCHANGED citizenVars
        /\ UNCHANGED slotVars /\ UNCHANGED limiterVars
  BY DEF backgroundVars
<1> QED
  BY <1>1, <1>2, <1>3, <1>4, <1>5, <1>6, <1>7, <1>8, <1>9

\* A behaviour of the composition is one of each component.
THEOREM Composition ==
  BackgroundSpec => Media!Spec /\ Spec /\ Nida!Spec /\ Slots!Spec /\ Limiter!Spec
<1>1. BackgroundInit => Media!Init /\ Init /\ Nida!Init /\ Slots!Init /\ Limiter!Init
  BY DEF BackgroundInit
<1> QED
  BY <1>1, EachSteps, PTL
  DEF BackgroundSpec, Media!Spec, Spec, Nida!Spec, Slots!Spec, Limiter!Spec

\* Type correctness of what runs beside the requests.
THEOREM BackgroundTypes == BackgroundSpec => []TypesHold
<1>1. Media!TypeOK /\ TypeOK /\ Nida!TypeOK /\ Slots!TypeOK /\ Limiter!TypeOK => TypesHold
  BY DEF TypesHold
<1>2. Media!Spec => []Media!TypeOK
  BY MediaStays, BackgroundAssumption, PTL DEF BackgroundAssumption
<1>3. Spec => []TypeOK
  BY TypeCorrect, BackgroundAssumption DEF BackgroundAssumption
<1>4. Nida!Spec => []Nida!TypeOK
  BY CitizenTypeCorrect, BackgroundAssumption DEF BackgroundAssumption
<1>5. Slots!Spec => []Slots!TypeOK
  BY SlotsHold, BackgroundAssumption, PTL DEF BackgroundAssumption
<1>6. Limiter!Spec => []Limiter!TypeOK
  BY WindowsKept, BackgroundAssumption, PTL DEF BackgroundAssumption
<1> QED
  BY Composition, <1>1, <1>2, <1>3, <1>4, <1>5, <1>6, PTL

\* Held media and held audit events stay, and rows follow their objects.
THEOREM BackgroundHolds == BackgroundSpec => []HeldStay
<1>1. Media!ProtectedStays /\ Media!MarkedWasErased /\ HeldEventsStay => HeldStay
  BY DEF HeldStay
<1>2. Media!Spec => [](Media!TypeOK /\ Media!ProtectedStays /\ Media!MarkedWasErased)
  BY MediaStays, BackgroundAssumption DEF BackgroundAssumption
<1>3. Spec => []HeldEventsStay
  BY HoldsAreKept, BackgroundAssumption DEF BackgroundAssumption
<1> QED
  BY Composition, <1>1, <1>2, <1>3, PTL

\* What is deleted could be deleted: orphans that never had a row, sessions past their
\* retention.
THEOREM BackgroundDeletes == BackgroundSpec => DeletesWhatMayGo
<1>1. Media!Spec => Media!TrackedIsNoOrphan
  BY TrackedStays, BackgroundAssumption DEF BackgroundAssumption
<1>2. Spec => SessionsEndOnce
  BY SessionsEnd, BackgroundAssumption DEF BackgroundAssumption
<1> QED
  BY Composition, <1>1, <1>2, PTL DEF DeletesWhatMayGo

\* The breaker always has what will close or open it.
THEOREM BackgroundBreaker == BackgroundSpec => []BreakerHolds
<1>1. Nida!BreakerHolds => BreakerHolds
  BY DEF BreakerHolds
<1>2. Nida!Spec => []Nida!BreakerHolds
  BY BreakerKeeps, BackgroundAssumption DEF BackgroundAssumption
<1> QED
  BY Composition, <1>1, <1>2, PTL

\* Lookups of one citizen share their request.
THEOREM BackgroundLookups == BackgroundSpec => LookupsShare
<1>1. Nida!Spec => Nida!LookupsShare
  BY RequestsShared, BackgroundAssumption DEF BackgroundAssumption
<1> QED
  BY Composition, <1>1, PTL DEF LookupsShare

\* Windows keep their limits, and no counter refuses for ever for want of an expiry.
THEOREM BackgroundLimits == BackgroundSpec => []LimitsHold
<1>1. Limiter!WindowsHold /\ Limiter!CountersExpire => LimitsHold
  BY DEF LimitsHold
<1>2. Limiter!Spec => [](Limiter!TypeOK /\ Limiter!WindowsHold /\ Limiter!CountersExpire)
  BY WindowsKept, BackgroundAssumption DEF BackgroundAssumption
<1> QED
  BY Composition, <1>1, <1>2, PTL

\* The count of the slots stays that of the calls, and no wait is for ever for want of a
\* release.
THEOREM BackgroundSlots == BackgroundSpec => []SlotsComeFree
<1>1. Slots!ActiveIsCalling /\ Slots!NobodyStranded => SlotsComeFree
  BY DEF SlotsComeFree
<1>2. Slots!Spec => [](Slots!TypeOK /\ Slots!ActiveIsCalling /\ Slots!NobodyStranded)
  BY SlotsHold, BackgroundAssumption DEF BackgroundAssumption
<1> QED
  BY Composition, <1>1, <1>2, PTL

\* One cycle of the retention jobs at a time, unless a lease has lapsed.
THEOREM BackgroundCycles == BackgroundSpec => []OneCycleUnlessLapsed
<1>1. Spec => []OneCycleUnlessLapsed
  BY CyclesExclude, BackgroundAssumption DEF BackgroundAssumption
<1> QED
  BY Composition, <1>1, PTL
===============================================================================
