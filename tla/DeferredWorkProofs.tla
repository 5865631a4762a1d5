--------------------------- MODULE DeferredWorkProofs ---------------------------
(***************************************************************************)
(* Theorems about the work requests leave to others: MailOutbox for every  *)
(* number of replicas and events, any limits, and whether or not the       *)
(* process ids of the replicas differ; and its composition with            *)
(* IdentityVerification, which has a module of proofs of its own.          *)
(***************************************************************************)
EXTENDS MCDeferredWork, FiniteSetTheorems, TLAPS

USE OutboxAssumption DEF OutboxAssumption

Phase == {"none", "queued"} \cup Running

Owner == Worker \cup {"mail-1", Nobody}

LEMMA Types ==
  ASSUME TypeOK
  PROVE  /\ published \subseteq Event /\ dead \subseteq Event /\ delivered \subseteq Event
         /\ due \subseteq Event /\ attempts \in [Event -> Nat]
         /\ task \in [Worker -> [Event -> Phase]] /\ counted \in [Worker -> [Event -> Nat]]
         /\ owner \in [Event -> Owner]
  BY DEF TypeOK, Phase, Owner

\* What a replica does with one event says nothing of the others.
LEMMA TaskSet ==
  ASSUME TypeOK, NEW w \in Worker, NEW e \in Event, NEW x \in Phase,
         task' = [task EXCEPT ![w][e] = x]
  PROVE  /\ task' \in [Worker -> [Event -> Phase]]
         /\ \A v \in Worker, f \in Event :
              task'[v][f] = IF v = w /\ f = e THEN x ELSE task[v][f]
  BY Types

LEMMA CountedSet ==
  ASSUME TypeOK, NEW w \in Worker, NEW e \in Event, NEW n \in Nat,
         counted' = [counted EXCEPT ![w][e] = n]
  PROVE  /\ counted' \in [Worker -> [Event -> Nat]]
         /\ \A v \in Worker, f \in Event :
              counted'[v][f] = IF v = w /\ f = e THEN n ELSE counted[v][f]
  BY Types

LEMMA Forgotten ==
  ASSUME TypeOK, NEW w \in Worker, NEW e \in Event, Forget(w, e)
  PROVE  /\ task' \in [Worker -> [Event -> Phase]]
         /\ counted' \in [Worker -> [Event -> Nat]]
         /\ \A v \in Worker, f \in Event :
              /\ task'[v][f] = IF v = w /\ f = e THEN "none" ELSE task[v][f]
              /\ counted'[v][f] = IF v = w /\ f = e THEN 0 ELSE counted[v][f]
<1>1. "none" \in Phase /\ 0 \in Nat
  BY DEF Phase
<1>2. task' = [task EXCEPT ![w][e] = "none"] /\ counted' = [counted EXCEPT ![w][e] = 0]
  BY DEF Forget
<1>3. /\ task' \in [Worker -> [Event -> Phase]]
      /\ \A v \in Worker, f \in Event :
           task'[v][f] = IF v = w /\ f = e THEN "none" ELSE task[v][f]
  BY <1>1, <1>2, Types
<1>4. /\ counted' \in [Worker -> [Event -> Nat]]
      /\ \A v \in Worker, f \in Event :
           counted'[v][f] = IF v = w /\ f = e THEN 0 ELSE counted[v][f]
  BY <1>1, <1>2, Types
<1> QED
  BY <1>3, <1>4

\* An event is leased, by one of the replicas' ids, or given back.
LEMMA LeaseSet ==
  ASSUME TypeOK, NEW e \in Event, NEW x \in {"none", "held", "over"}, NEW o \in Owner,
         lease' = [lease EXCEPT ![e] = x], owner' = [owner EXCEPT ![e] = o]
  PROVE  /\ lease' \in [Event -> {"none", "held", "over"}] /\ owner' \in [Event -> Owner]
         /\ \A f \in Event : owner'[f] = IF f = e THEN o ELSE owner[f]
<1>1. lease' \in [Event -> {"none", "held", "over"}]
  BY DEF TypeOK
<1>2. owner \in [Event -> Owner]
  BY DEF TypeOK, Owner
<1> HIDE DEF Owner
<1>3. owner' \in [Event -> Owner] /\ \A f \in Event : owner'[f] = IF f = e THEN o ELSE owner[f]
  BY <1>2
<1> QED
  BY <1>1, <1>3

LEMMA IdOwner == \A w \in Worker : Id(w) \in Owner /\ Id(w) # Nobody
  BY DEF Id, Owner

LEMMA Unleased ==
  ASSUME TypeOK, NEW e \in Event, Unlease(e)
  PROVE  /\ lease' \in [Event -> {"none", "held", "over"}] /\ owner' \in [Event -> Owner]
         /\ \A f \in Event : owner'[f] = IF f = e THEN Nobody ELSE owner[f]
<1>1. "none" \in {"none", "held", "over"} /\ Nobody \in Owner
  BY DEF Owner
<1> QED
  BY <1>1, LeaseSet DEF Unlease

LEMMA AttemptCounted ==
  ASSUME TypeOK, NEW e \in Event, attempts' = [attempts EXCEPT ![e] = @ + 1]
  PROVE  \A f \in Event : attempts'[f] = IF f = e THEN attempts[f] + 1 ELSE attempts[f]
  BY Types

LEMMA CountsTyped ==
  ASSUME TypeOK, NEW w \in Worker, NEW e \in Event
  PROVE  counted[w][e] \in Nat /\ attempts[e] \in Nat
  BY DEF TypeOK

LEMMA TypeInit == Init => TypeOK
  BY DEF Init, TypeOK, Running

LEMMA TypeStep == TypeOK /\ [Next]_vars => TypeOK'
<1> SUFFICES ASSUME TypeOK, [Next]_vars PROVE TypeOK'
  OBVIOUS
<1> USE DEF eventVars
<1>1. ASSUME NEW w \in Worker, AcquireLock(w) \/ EndBatch(w) \/ ReleaseLock(w) PROVE TypeOK'
  BY <1>1 DEF TypeOK, AcquireLock, EndBatch, ReleaseLock
<1>2. ASSUME NEW w \in Worker, SelectBatch(w) PROVE TypeOK'
  BY <1>2 DEF TypeOK, SelectBatch, Running
<1>3. ASSUME NEW w \in Worker, StartChunk(w) PROVE TypeOK'
  BY <1>3 DEF TypeOK, StartChunk, Running
<1>4. ASSUME NEW w \in Worker, Crash(w) PROVE TypeOK'
  BY <1>4 DEF TypeOK, Crash, Running
<1>5. ASSUME NEW w \in Worker, NEW e \in Event, AbandonBatch(w, e) PROVE TypeOK'
  BY <1>5 DEF TypeOK, AbandonBatch, Running
<1>6. ASSUME NEW w \in Worker, NEW e \in Event, Claim(w, e) PROVE TypeOK'
  <2>1. /\ lease' \in [Event -> {"none", "held", "over"}]
        /\ owner' \in [Event -> Owner]
    <3>1. CASE Claimable(e)
      <4>1. lease' = [lease EXCEPT ![e] = "held"] /\ owner' = [owner EXCEPT ![e] = Id(w)]
        BY <1>6, <3>1 DEF Claim
      <4> QED
        BY <4>1, IdOwner, LeaseSet
    <3>2. CASE ~Claimable(e)
      BY <1>6, <3>2 DEF TypeOK, Claim, Owner
    <3> QED
      BY <3>1, <3>2
  <2>2. task' \in [Worker -> [Event -> Phase]] /\ counted' \in [Worker -> [Event -> Nat]]
    <3>1. CASE Claimable(e)
      <4>1. task' = [task EXCEPT ![w][e] = "claimed"] /\ counted' = counted
        BY <1>6, <3>1 DEF Claim
      <4> QED
        BY <4>1, TaskSet DEF TypeOK, Phase, Running
    <3>2. CASE ~Claimable(e)
      BY <1>6, <3>2, Forgotten DEF Claim
    <3> QED
      BY <3>1, <3>2
  <2> QED
    BY <1>6, <2>1, <2>2 DEF TypeOK, Claim, Phase, Owner
<1>7. ASSUME NEW w \in Worker, NEW e \in Event, Send(w, e) PROVE TypeOK'
  <2>1. task' \in [Worker -> [Event -> Phase]]
    <3>1. PICK x \in {"sent", "failed"} : task' = [task EXCEPT ![w][e] = x]
      BY <1>7 DEF Send
    <3> QED
      BY <3>1, TaskSet DEF Phase, Running
  <2> QED
    BY <1>7, <2>1 DEF TypeOK, Send, Phase
<1>8. ASSUME NEW w \in Worker, NEW e \in Event, RecordSuccess(w, e) PROVE TypeOK'
  <2>1. task' \in [Worker -> [Event -> Phase]] /\ counted' \in [Worker -> [Event -> Nat]]
    <3>1. CASE Forget(w, e)
      BY <3>1, Forgotten
    <3>2. CASE ~Forget(w, e)
      <4>1. task' = [task EXCEPT ![w][e] = "failed"] /\ counted' = counted
        BY <1>8, <3>2 DEF RecordSuccess
      <4> QED
        BY <4>1, TaskSet DEF TypeOK, Phase, Running
    <3> QED
      BY <3>1, <3>2
  <2>2. /\ lease' \in [Event -> {"none", "held", "over"}]
        /\ owner' \in [Event -> Owner]
    <3>1. CASE Unlease(e)
      BY <3>1, Unleased
    <3>2. CASE ~Unlease(e)
      BY <1>8, <3>2 DEF TypeOK, RecordSuccess, Owner
    <3> QED
      BY <3>1, <3>2
  <2>3. attempts' \in [Event -> Nat] /\ published' \subseteq Event
    <3>1. \/ UNCHANGED <<published, attempts>>
          \/ /\ published' = published \cup {e}
             /\ attempts' = [attempts EXCEPT ![e] = @ + 1]
      BY <1>8 DEF RecordSuccess
    <3> QED
      BY <3>1, Types
  <2>4. UNCHANGED <<dead, due, lock, pc, delivered, crashes>>
    BY <1>8 DEF RecordSuccess
  <2> QED
    BY <2>1, <2>2, <2>3, <2>4 DEF TypeOK, Phase, Owner
<1>9. ASSUME NEW w \in Worker, NEW e \in Event, RecordFailure(w, e) PROVE TypeOK'
  <2>1. task' \in [Worker -> [Event -> Phase]] /\ counted' \in [Worker -> [Event -> Nat]]
    BY <1>9, Forgotten DEF RecordFailure
  <2>2. /\ lease' \in [Event -> {"none", "held", "over"}]
        /\ owner' \in [Event -> Owner]
    <3>1. CASE Unlease(e)
      BY <3>1, Unleased
    <3>2. CASE ~Unlease(e)
      BY <1>9, <3>2 DEF TypeOK, RecordFailure, Owner
    <3> QED
      BY <3>1, <3>2
  <2>3. attempts' \in [Event -> Nat] /\ due' \subseteq Event /\ dead' \subseteq Event
    BY <1>9, Types DEF RecordFailure
  <2>4. UNCHANGED <<published, lock, pc, delivered, crashes>>
    BY <1>9 DEF RecordFailure
  <2> QED
    BY <2>1, <2>2, <2>3, <2>4 DEF TypeOK, Phase, Owner
<1>10. CASE LockExpires
  BY <1>10 DEF TypeOK, LockExpires
<1>11. ASSUME NEW e \in Event, FallsDue(e) \/ LeaseRunsOut(e) PROVE TypeOK'
  BY <1>11 DEF TypeOK, FallsDue, LeaseRunsOut
<1>12. CASE UNCHANGED vars
  BY <1>12 DEF TypeOK, vars
<1> QED
  BY <1>1, <1>2, <1>3, <1>4, <1>5, <1>6, <1>7, <1>8, <1>9, <1>10, <1>11, <1>12
     DEF Next, BatchStep, EventStep

\* Type correctness of the outbox, its replicas and its locks.
THEOREM TypeCorrect == Spec => []TypeOK
  BY TypeInit, TypeStep, PTL DEF Spec

-----------------------------------------------------------------------------
(* The inductive invariant                                                 *)

\* A replica that is about to record a success has had the provider accept the event.
SentAccepted == \A w \in Worker, e \in Event : task[w][e] = "sent" => e \in delivered

\* A dead event belongs to nobody, so that no late success is recorded on it.
DeadUnowned == \A e \in dead : owner[e] = Nobody

\* The count a replica read with its batch is old, and never ahead of the row.
CountsBehind == \A w \in Worker, e \in Event : counted[w][e] <= attempts[e]

Busy(e) == {w \in Worker : task[w][e] # "none"}

\* Each replica that has the event may add one attempt; none takes it up again once it
\* has had all of them.
Budget == \A e \in Event : attempts[e] + Cardinality(Busy(e)) < MaxAttempts + Cardinality(Worker)

IInv ==
  /\ TypeOK
  /\ SentAccepted /\ DeadUnowned /\ CountsBehind /\ Budget
  /\ PublishedWasDelivered /\ DeadAfterAttempts

LEMMA BusyFinite ==
  \A e \in Event : /\ Busy(e) \subseteq Worker /\ IsFiniteSet(Busy(e))
                   /\ Cardinality(Busy(e)) \in Nat /\ Cardinality(Worker) \in Nat
                   /\ Cardinality(Busy(e)) <= Cardinality(Worker)
<1>1. \A e \in Event : Busy(e) \subseteq Worker
  BY DEF Busy
<1> QED
  BY <1>1, FS_Subset, FS_CardinalityType

\* The budget of an event holds on as long as nobody takes it up, one that counts an
\* attempt is done with it, or it has not had all its attempts.
LEMMA BudgetKept ==
  ASSUME TypeOK, TypeOK', Budget, NEW e \in Event,
         \/ Busy(e)' \subseteq Busy(e) /\ attempts'[e] = attempts[e]
         \/ \E w \in Busy(e) : Busy(e)' \subseteq Busy(e) \ {w} /\ attempts'[e] = attempts[e] + 1
         \/ attempts'[e] < MaxAttempts
  PROVE  attempts'[e] + Cardinality(Busy(e)') < MaxAttempts + Cardinality(Worker)
<1>1. attempts[e] \in Nat /\ attempts'[e] \in Nat
  BY DEF TypeOK
<1>2. /\ Busy(e)' \subseteq Worker /\ Cardinality(Busy(e)') \in Nat
      /\ Cardinality(Busy(e)') <= Cardinality(Worker) /\ Cardinality(Worker) \in Nat
  <2>1. Busy(e)' \subseteq Worker
    BY DEF Busy
  <2> QED
    BY <2>1, FS_Subset, FS_CardinalityType
<1>3. CASE Busy(e)' \subseteq Busy(e) /\ attempts'[e] = attempts[e]
  <2>1. Cardinality(Busy(e)') <= Cardinality(Busy(e))
    BY <1>3, BusyFinite, FS_Subset
  <2> QED
    BY <1>1, <1>2, <1>3, <2>1, BusyFinite DEF Budget
<1>4. ASSUME NEW w \in Busy(e), Busy(e)' \subseteq Busy(e) \ {w}, attempts'[e] = attempts[e] + 1
      PROVE  attempts'[e] + Cardinality(Busy(e)') < MaxAttempts + Cardinality(Worker)
  <2>1. /\ Cardinality(Busy(e) \ {w}) = Cardinality(Busy(e)) - 1
        /\ IsFiniteSet(Busy(e) \ {w})
    BY BusyFinite, FS_RemoveElement
  <2>2. Cardinality(Busy(e)') <= Cardinality(Busy(e) \ {w})
    BY <1>4, <2>1, FS_Subset
  <2> QED
    BY <1>1, <1>2, <1>4, <2>1, <2>2, BusyFinite DEF Budget
<1>5. CASE attempts'[e] < MaxAttempts
  BY <1>1, <1>2, <1>5
<1> QED
  BY <1>3, <1>4, <1>5

LEMMA CountedOnce ==
  ASSUME TypeOK, TypeOK', Budget, NEW w \in Worker, NEW e \in Event, task[w][e] # "none",
         \A v \in Worker, f \in Event :
           task'[v][f] = IF v = w /\ f = e THEN "none" ELSE task[v][f],
         \A f \in Event : attempts'[f] = IF f = e THEN attempts[f] + 1 ELSE attempts[f],
         NEW f \in Event
  PROVE  attempts'[f] + Cardinality(Busy(f)') < MaxAttempts + Cardinality(Worker)
<1>1. CASE f = e
  <2>1. w \in Busy(e) /\ Busy(e)' \subseteq Busy(e) \ {w} /\ attempts'[e] = attempts[e] + 1
    BY DEF Busy
  <2> QED
    BY <1>1, <2>1, BudgetKept
<1>2. CASE f # e
  <2>1. Busy(f)' \subseteq Busy(f) /\ attempts'[f] = attempts[f]
    BY <1>2 DEF Busy
  <2> QED
    BY <2>1, BudgetKept
<1> QED
  BY <1>1, <1>2

\* A count is read again or forgotten; the row's only grows.
LEMMA CountsKept ==
  ASSUME TypeOK, TypeOK', CountsBehind,
         \A v \in Worker, f \in Event :
           counted'[v][f] = counted[v][f] \/ counted'[v][f] = 0 \/ counted'[v][f] = attempts[f],
         \A f \in Event : attempts'[f] = attempts[f] \/ attempts'[f] = attempts[f] + 1
  PROVE  CountsBehind'
<1> SUFFICES ASSUME NEW v \in Worker, NEW f \in Event PROVE counted'[v][f] <= attempts'[f]
  BY DEF CountsBehind
<1>1. attempts[f] \in Nat /\ attempts'[f] \in Nat /\ counted[v][f] \in Nat
  BY Types DEF TypeOK
<1>2. counted[v][f] <= attempts[f]
  BY DEF CountsBehind
<1>3. counted'[v][f] = counted[v][f] \/ counted'[v][f] = 0 \/ counted'[v][f] = attempts[f]
  OBVIOUS
<1>4. attempts'[f] = attempts[f] \/ attempts'[f] = attempts[f] + 1
  OBVIOUS
<1> HIDE DEF TypeOK
<1> QED
  BY <1>1, <1>2, <1>3, <1>4

LEMMA AttemptsLast ==
  ASSUME TypeOK, DeadAfterAttempts,
         \A f \in Event : attempts'[f] = attempts[f] \/ attempts'[f] = attempts[f] + 1,
         dead' \subseteq dead \cup {f \in Event : attempts'[f] >= MaxAttempts}
  PROVE  DeadAfterAttempts'
<1> SUFFICES ASSUME NEW f \in dead, attempts'[f] = attempts[f] \/ attempts'[f] = attempts[f] + 1
             PROVE  attempts'[f] >= MaxAttempts
  BY Types DEF DeadAfterAttempts
<1>1. attempts[f] \in Nat /\ attempts[f] >= MaxAttempts
  BY Types DEF DeadAfterAttempts
<1> QED
  BY <1>1

LEMMA InvInit == Init => IInv
<1> SUFFICES ASSUME Init PROVE IInv
  OBVIOUS
<1>1. TypeOK
  BY TypeInit
<1>2. SentAccepted /\ DeadUnowned /\ CountsBehind /\ PublishedWasDelivered /\ DeadAfterAttempts
  BY DEF Init, SentAccepted, DeadUnowned, CountsBehind, PublishedWasDelivered, DeadAfterAttempts
<1>3. Budget
  <2> SUFFICES ASSUME NEW e \in Event
               PROVE  attempts[e] + Cardinality(Busy(e)) < MaxAttempts + Cardinality(Worker)
    BY DEF Budget
  <2>1. Busy(e) = {} /\ attempts[e] = 0
    BY DEF Init, Busy
  <2>2. Cardinality(Busy(e)) = 0
    BY <2>1, FS_EmptySet
  <2>3. Cardinality(Worker) \in Nat
    BY BusyFinite
  <2> QED
    BY <2>1, <2>2, <2>3
<1> QED
  BY <1>1, <1>2, <1>3 DEF IInv

LEMMA ClaimKeeps ==
  ASSUME IInv, TypeOK', NEW w \in Worker, NEW e \in Event, Claim(w, e)
  PROVE  IInv'
<1> USE Types DEF IInv
<1>1. /\ UNCHANGED <<published, dead, attempts, delivered>>
      /\ task[w][e] = "ready"
  BY DEF Claim
<1>2. /\ \A v \in Worker, f \in Event :
           /\ task'[v][f] = task[v][f] \/ (v = w /\ f = e /\ task'[v][f] \in {"claimed", "none"})
           /\ counted'[v][f] = counted[v][f] \/ counted'[v][f] = 0
      /\ \A f \in Event : owner'[f] = owner[f] \/ f \notin dead
  <2>1. CASE Claimable(e)
    <3>1. /\ task' = [task EXCEPT ![w][e] = "claimed"] /\ counted' = counted
          /\ lease' = [lease EXCEPT ![e] = "held"] /\ owner' = [owner EXCEPT ![e] = Id(w)]
          /\ e \notin dead
      BY <2>1 DEF Claim, Claimable
    <3>2. "claimed" \in Phase /\ "held" \in {"none", "held", "over"}
      BY DEF Phase, Running
    <3> QED
      BY <3>1, <3>2, TaskSet, LeaseSet, IdOwner
  <2>2. CASE ~Claimable(e)
    BY <2>2, Forgotten DEF Claim
  <2> QED
    BY <2>1, <2>2
<1>3. SentAccepted'
  BY <1>1, <1>2 DEF SentAccepted
<1>4. DeadUnowned' /\ PublishedWasDelivered' /\ DeadAfterAttempts'
  BY <1>1, <1>2 DEF DeadUnowned, PublishedWasDelivered, DeadAfterAttempts
<1>5. CountsBehind'
  BY <1>1, <1>2 DEF CountsBehind
<1>6. \A f \in Event : Busy(f)' \subseteq Busy(f)
  BY <1>1, <1>2 DEF Busy
<1>7. Budget'
  BY <1>1, <1>6, BudgetKept DEF Budget
<1> QED
  BY <1>3, <1>4, <1>5, <1>7

LEMMA SendKeeps ==
  ASSUME IInv, TypeOK', NEW w \in Worker, NEW e \in Event, Send(w, e)
  PROVE  IInv'
<1> USE Types DEF IInv
<1>1. /\ UNCHANGED <<published, dead, attempts, owner, counted>>
      /\ task[w][e] = "claimed" /\ delivered \subseteq delivered'
  BY DEF Send, eventVars
<1>2. PICK x \in {"sent", "failed"} :
        task' = [task EXCEPT ![w][e] = x] /\ (x = "sent" => e \in delivered')
  BY DEF Send
<1>3. \A v \in Worker, f \in Event : task'[v][f] = IF v = w /\ f = e THEN x ELSE task[v][f]
  BY <1>2, TaskSet DEF Phase, Running
<1>4. SentAccepted'
  BY <1>1, <1>2, <1>3 DEF SentAccepted
<1>5. DeadUnowned' /\ PublishedWasDelivered' /\ DeadAfterAttempts' /\ CountsBehind'
  BY <1>1 DEF DeadUnowned, PublishedWasDelivered, DeadAfterAttempts, CountsBehind
<1>6. \A f \in Event : Busy(f)' \subseteq Busy(f)
  BY <1>1, <1>3 DEF Busy
<1>7. Budget'
  BY <1>1, <1>6, BudgetKept DEF Budget
<1> QED
  BY <1>4, <1>5, <1>7

LEMMA RecordSuccessKeeps ==
  ASSUME IInv, TypeOK', NEW w \in Worker, NEW e \in Event, RecordSuccess(w, e)
  PROVE  IInv'
<1> USE Types DEF IInv
<1>1. UNCHANGED <<dead, delivered>> /\ task[w][e] = "sent"
  BY DEF RecordSuccess
<1>2. CASE /\ task' = [task EXCEPT ![w][e] = "failed"]
           /\ UNCHANGED <<published, attempts, lease, owner, counted>>
  <2>1. \A v \in Worker, f \in Event :
          task'[v][f] = IF v = w /\ f = e THEN "failed" ELSE task[v][f]
    BY <1>2, TaskSet DEF Phase, Running
  <2>2. SentAccepted'
    BY <1>1, <2>1 DEF SentAccepted
  <2>3. DeadUnowned' /\ PublishedWasDelivered' /\ DeadAfterAttempts' /\ CountsBehind'
    BY <1>1, <1>2 DEF DeadUnowned, PublishedWasDelivered, DeadAfterAttempts, CountsBehind
  <2>4. \A f \in Event : Busy(f)' \subseteq Busy(f)
    BY <1>1, <2>1 DEF Busy
  <2>5. Budget'
    BY <1>2, <2>4, BudgetKept DEF Budget
  <2> QED
    BY <2>2, <2>3, <2>5
<1>3. CASE Forget(w, e) /\ UNCHANGED <<published, attempts, lease, owner>>
  <2>1. \A v \in Worker, f \in Event :
          /\ task'[v][f] = task[v][f] \/ task'[v][f] = "none"
          /\ counted'[v][f] = counted[v][f] \/ counted'[v][f] = 0
    BY <1>3, Forgotten
  <2>2. SentAccepted' /\ CountsBehind'
    BY <1>1, <1>3, <2>1, CountsKept DEF SentAccepted
  <2>3. DeadUnowned' /\ PublishedWasDelivered' /\ DeadAfterAttempts'
    BY <1>1, <1>3 DEF DeadUnowned, PublishedWasDelivered, DeadAfterAttempts
  <2>4. \A f \in Event : Busy(f)' \subseteq Busy(f)
    BY <2>1 DEF Busy
  <2>5. Budget'
    BY <1>3, <2>4, BudgetKept DEF Budget
  <2> QED
    BY <2>2, <2>3, <2>5
<1>4. CASE /\ Mine(w, e) /\ published' = published \cup {e}
           /\ attempts' = [attempts EXCEPT ![e] = @ + 1]
           /\ Unlease(e) /\ Forget(w, e)
  <2>1. \A v \in Worker, f \in Event :
          /\ task'[v][f] = IF v = w /\ f = e THEN "none" ELSE task[v][f]
          /\ counted'[v][f] = counted[v][f] \/ counted'[v][f] = 0
    <3>1. Forget(w, e)
      BY <1>4
    <3> QED
      BY <3>1, Forgotten
  <2>2. \A f \in Event : /\ owner'[f] = owner[f] \/ owner'[f] = Nobody
                         /\ attempts'[f] = IF f = e THEN attempts[f] + 1 ELSE attempts[f]
    BY <1>4, Unleased, AttemptCounted
  <2>3. e \notin dead /\ e \in delivered
    BY <1>1, <1>4, IdOwner DEF Mine, DeadUnowned, SentAccepted
  <2>4. SentAccepted'
    BY <1>1, <2>1 DEF SentAccepted
  <2>7. CountsBehind'
    BY <2>1, <2>2, CountsKept
  <2>5. DeadUnowned' /\ PublishedWasDelivered' /\ DeadAfterAttempts'
    <3>1. DeadUnowned'
      BY <1>1, <2>2 DEF DeadUnowned
    <3>2. PublishedWasDelivered'
      BY <1>1, <1>4, <2>3 DEF PublishedWasDelivered
    <3>3. DeadAfterAttempts'
      BY <1>1, <2>2, AttemptsLast
    <3> QED
      BY <3>1, <3>2, <3>3
  <2>6. Budget'
    <3>1. task[w][e] # "none" /\ \A v \in Worker, f \in Event :
            task'[v][f] = IF v = w /\ f = e THEN "none" ELSE task[v][f]
      BY <1>1, <2>1
    <3>2. \A f \in Event : attempts'[f] = IF f = e THEN attempts[f] + 1 ELSE attempts[f]
      BY <2>2
    <3> QED
      BY <3>1, <3>2, CountedOnce DEF Budget
  <2> QED
    BY <2>4, <2>5, <2>6, <2>7
<1> QED
  BY <1>2, <1>3, <1>4 DEF RecordSuccess

LEMMA RecordFailureKeeps ==
  ASSUME IInv, TypeOK', NEW w \in Worker, NEW e \in Event, RecordFailure(w, e)
  PROVE  IInv'
<1> USE Types DEF IInv
<1>1. /\ UNCHANGED <<published, delivered>> /\ task[w][e] = "failed"
      /\ Forget(w, e)
  BY DEF RecordFailure
<1>2. \A v \in Worker, f \in Event :
        /\ task'[v][f] = IF v = w /\ f = e THEN "none" ELSE task[v][f]
        /\ counted'[v][f] = counted[v][f] \/ counted'[v][f] = 0
  <2>1. Forget(w, e)
    BY <1>1
  <2> QED
    BY <2>1, Forgotten
<1>3. CASE ~Mine(w, e)
  <2>1. UNCHANGED <<attempts, dead, owner>>
    BY <1>3 DEF RecordFailure
  <2>2. SentAccepted' /\ CountsBehind'
    BY <1>1, <1>2, <2>1, CountsKept DEF SentAccepted
  <2>3. DeadUnowned' /\ PublishedWasDelivered' /\ DeadAfterAttempts'
    BY <1>1, <2>1 DEF DeadUnowned, PublishedWasDelivered, DeadAfterAttempts
  <2>4. \A f \in Event : Busy(f)' \subseteq Busy(f)
    BY <1>2 DEF Busy
  <2>5. Budget'
    BY <2>1, <2>4, BudgetKept DEF Budget
  <2> QED
    BY <2>2, <2>3, <2>5
<1>4. CASE Mine(w, e)
  <2>1. /\ Unlease(e) /\ attempts' = [attempts EXCEPT ![e] = @ + 1]
        /\ dead' = IF LastAttempt(w, e) THEN dead \cup {e} ELSE dead
    BY <1>4 DEF RecordFailure
  <2>2. \A f \in Event : /\ owner'[f] = IF f = e THEN Nobody ELSE owner[f]
                         /\ attempts'[f] = IF f = e THEN attempts[f] + 1 ELSE attempts[f]
    BY <2>1, Unleased, AttemptCounted
  <2>3. SentAccepted' /\ CountsBehind'
    <3>1. SentAccepted'
      BY <1>1, <1>2 DEF SentAccepted
    <3>2. CountsBehind'
      BY <1>2, <2>2, CountsKept
    <3> QED
      BY <3>1, <3>2
  <2>4. DeadUnowned' /\ PublishedWasDelivered'
    BY <1>1, <1>4, <2>1, <2>2 DEF DeadUnowned, PublishedWasDelivered, Mine
  <2>5. DeadAfterAttempts'
    <3>1. LastAttempt(w, e) => attempts'[e] >= MaxAttempts
      <4>1. counted[w][e] <= attempts[e] /\ attempts'[e] = attempts[e] + 1
        BY <2>2 DEF CountsBehind
      <4>2. counted[w][e] \in Nat /\ attempts[e] \in Nat
        BY CountsTyped
      <4> QED
        BY <4>1, <4>2 DEF LastAttempt
    <3>2. dead' \subseteq dead \cup {f \in Event : attempts'[f] >= MaxAttempts}
      BY <2>1, <3>1
    <3>3. \A f \in Event : attempts'[f] = attempts[f] \/ attempts'[f] = attempts[f] + 1
      BY <2>2
    <3> QED
      BY <3>2, <3>3, AttemptsLast
  <2>6. Budget'
    <3>1. task[w][e] # "none"
      BY <1>1
    <3>2. \A f \in Event : attempts'[f] = IF f = e THEN attempts[f] + 1 ELSE attempts[f]
      BY <2>2
    <3> QED
      BY <1>2, <3>1, <3>2, CountedOnce DEF Budget
  <2> QED
    BY <2>3, <2>4, <2>5, <2>6
<1> QED
  BY <1>3, <1>4

\* The steps of a batch and of a dying replica.
LEMMA BatchKeeps ==
  ASSUME IInv, TypeOK', NEW w \in Worker,
         \/ SelectBatch(w) \/ StartChunk(w) \/ Crash(w)
         \/ \E e \in Event : AbandonBatch(w, e)
  PROVE  IInv'
<1> USE Types DEF IInv
<1>1. UNCHANGED <<published, dead, attempts, owner, delivered>>
  BY DEF SelectBatch, StartChunk, Crash, AbandonBatch, eventVars
<1>2. \A v \in Worker, f \in Event :
        /\ task'[v][f] \in {task[v][f], "none", "ready", "queued"}
        /\ task[v][f] = "none" /\ task'[v][f] # "none" => attempts[f] < MaxAttempts
        /\ counted'[v][f] = counted[v][f] \/ counted'[v][f] = 0 \/ counted'[v][f] = attempts[f]
  <2> SUFFICES ASSUME NEW v \in Worker, NEW f \in Event
               PROVE  /\ task'[v][f] \in {task[v][f], "none", "ready", "queued"}
                      /\ task[v][f] = "none" /\ task'[v][f] # "none"
                           => attempts[f] < MaxAttempts
                      /\ \/ counted'[v][f] = counted[v][f] \/ counted'[v][f] = 0
                         \/ counted'[v][f] = attempts[f]
    OBVIOUS
  <2>1. CASE SelectBatch(w)
    <3>1. \A g \in Event : Selectable(g) => attempts[g] < MaxAttempts
      BY DEF Selectable
    <3>2. PICK batch \in SUBSET {g \in Event : Selectable(g)} :
            /\ task' = [task EXCEPT ![w] =
                 [g \in Event |-> IF g \in {h \in batch : task[w][h] = "none"}
                                 THEN "queued" ELSE task[w][g]]]
            /\ counted' = [counted EXCEPT ![w] =
                 [g \in Event |-> IF g \in {h \in batch : task[w][h] = "none"}
                                 THEN attempts[g] ELSE counted[w][g]]]
      BY <2>1 DEF SelectBatch
    <3> QED
      BY <3>1, <3>2
  <2>2. CASE StartChunk(w)
    BY <2>2 DEF StartChunk, Queued
  <2>3. CASE Crash(w)
    BY <2>3 DEF Crash
  <2>4. ASSUME NEW e \in Event, AbandonBatch(w, e)
        PROVE  /\ task'[v][f] \in {task[v][f], "none"}
               /\ counted'[v][f] = counted[v][f] \/ counted'[v][f] = 0
    BY <2>4 DEF AbandonBatch
  <2> QED
    BY <2>1, <2>2, <2>3, <2>4
<1>3. SentAccepted' /\ CountsBehind'
  BY <1>1, <1>2, CountsKept DEF SentAccepted
<1>4. DeadUnowned' /\ PublishedWasDelivered' /\ DeadAfterAttempts'
  BY <1>1 DEF DeadUnowned, PublishedWasDelivered, DeadAfterAttempts
<1>5. Budget'
  <2> SUFFICES ASSUME NEW f \in Event
               PROVE  attempts'[f] + Cardinality(Busy(f)') < MaxAttempts + Cardinality(Worker)
    BY DEF Budget
  <2>1. Busy(f)' \subseteq Busy(f) \/ attempts'[f] < MaxAttempts
    BY <1>1, <1>2 DEF Busy
  <2> QED
    BY <1>1, <2>1, BudgetKept
<1> QED
  BY <1>3, <1>4, <1>5

LEMMA InvStep == IInv /\ [Next]_vars => IInv'
<1> SUFFICES ASSUME IInv, [Next]_vars PROVE IInv'
  OBVIOUS
<1>1. TypeOK'
  BY TypeStep DEF IInv
<1>2. ASSUME NEW w \in Worker, NEW e \in Event, EventStep(w, e) PROVE IInv'
  BY <1>1, <1>2, ClaimKeeps, SendKeeps, RecordSuccessKeeps, RecordFailureKeeps DEF EventStep
<1>3. ASSUME NEW w \in Worker, SelectBatch(w) \/ StartChunk(w) \/ Crash(w) PROVE IInv'
  BY <1>1, <1>3, BatchKeeps
<1>4. ASSUME NEW w \in Worker, NEW e \in Event, AbandonBatch(w, e) PROVE IInv'
  BY <1>1, <1>4, BatchKeeps
<1>5. ASSUME UNCHANGED <<published, dead, attempts, owner, task, counted, delivered>>
      PROVE  IInv'
  <2>1. SentAccepted' /\ DeadUnowned' /\ CountsBehind'
    BY <1>5 DEF IInv, SentAccepted, DeadUnowned, CountsBehind
  <2>2. PublishedWasDelivered' /\ DeadAfterAttempts'
    BY <1>5 DEF IInv, PublishedWasDelivered, DeadAfterAttempts
  <2>3. Budget'
    BY <1>5 DEF IInv, Budget, Busy
  <2> QED
    BY <1>1, <2>1, <2>2, <2>3 DEF IInv
<1>6. ASSUME NEW w \in Worker, AcquireLock(w) \/ EndBatch(w) \/ ReleaseLock(w) PROVE IInv'
  BY <1>5, <1>6 DEF AcquireLock, EndBatch, ReleaseLock, eventVars
<1>7. CASE LockExpires \/ UNCHANGED vars
  BY <1>5, <1>7 DEF LockExpires, vars, eventVars
<1>8. ASSUME NEW e \in Event, FallsDue(e) \/ LeaseRunsOut(e) PROVE IInv'
  BY <1>5, <1>8 DEF FallsDue, LeaseRunsOut
<1> QED
  BY <1>2, <1>3, <1>4, <1>6, <1>7, <1>8 DEF Next, BatchStep

\* Whatever locks and leases run out under them, and wherever replicas die: a published
\* event was accepted by the provider and is not dead-lettered, a dead one has had all its
\* attempts, and n replicas make at most n - 1 more than MaxAttempts of them.
THEOREM MailsSettledTruly == Spec => []SettledTruly
<1>1. IInv => SettledTruly
  <2> SUFFICES ASSUME IInv PROVE AttemptsBounded
    BY DEF IInv, SettledTruly
  <2> SUFFICES ASSUME NEW e \in Event PROVE attempts[e] < MaxAttempts + Cardinality(Worker)
    BY DEF AttemptsBounded
  <2>1. attempts[e] \in Nat /\ attempts[e] + Cardinality(Busy(e)) < MaxAttempts + Cardinality(Worker)
    BY Types DEF IInv, Budget
  <2> QED
    BY <2>1, BusyFinite
<1> QED
  BY InvInit, InvStep, <1>1, PTL DEF Spec

-----------------------------------------------------------------------------
(* The composition                                                         *)

\* A step of the composition is a step of each component, or leaves it as it is.
LEMMA EachSteps == [DeferredNext]_deferredVars => [Next]_vars /\ [I!Next]_(I!vars)
<1>1. ASSUME InMail, ~UNCHANGED vars, DeferredNext PROVE Next
  BY <1>1 DEF DeferredNext, InMail, InIdentity, Next
<1>2. ASSUME InIdentity, DeferredNext PROVE I!Next
  BY <1>2 DEF DeferredNext, InMail, InIdentity, I!Next
<1>3. DeferredNext => InMail \/ InIdentity
  BY DEF DeferredNext
<1>4. InMail => UNCHANGED I!vars
  BY DEF InMail, identityVars, I!vars, I!userVars, I!attemptVars, I!evidence, I!rowVars
<1>5. InIdentity => UNCHANGED vars
  BY DEF InIdentity
<1>6. UNCHANGED deferredVars => UNCHANGED vars /\ UNCHANGED I!vars
  BY DEF deferredVars, identityVars, I!vars, I!userVars, I!attemptVars, I!evidence, I!rowVars
<1> QED
  BY <1>1, <1>2, <1>3, <1>4, <1>5, <1>6

\* A behaviour of the composition is one of the outbox and one of the attempts.
THEOREM Composition == DeferredSpec => Spec /\ I!Spec
<1>1. DeferredInit => Init /\ I!Init
  BY DEF DeferredInit
<1> QED
  BY <1>1, EachSteps, PTL DEF DeferredSpec, Spec, I!Spec

\* Type correctness of the outbox, and of the attempts and the rows locked for them.
THEOREM DeferredTypes == DeferredSpec => []TypesHold
<1>1. TypeOK /\ I!TypeOK => TypesHold
  BY DEF TypesHold
<1>2. I!Spec => []I!TypeOK
  BY I!TypeCorrect, DeferredAssumption
<1> QED
  BY Composition, TypeCorrect, <1>1, <1>2, PTL

\* Beside the work on attempts, too, mails are settled truly.
THEOREM DeferredMailsSettle == DeferredSpec => []SettledTruly
  BY Composition, MailsSettledTruly, PTL
===============================================================================
