----------------------------- MODULE MailOutbox -----------------------------
(***************************************************************************)
(* The mail outbox worker: replicas poll under a Redis batch lock, claim   *)
(* each event by a database lease, send it and record the outcome.         *)
(*                                                                         *)
(* The batch lock has a lifetime and is not renewed, so that a slow batch  *)
(* runs on while another replica begins one; the lease of an event runs    *)
(* out as well.  A replica may die anywhere, between the provider's answer *)
(* and its record too.  Time is abstract: a lease runs out (LeaseRunsOut), *)
(* a retry falls due (FallsDue), a lock expires (LockExpires) at any       *)
(* moment, and in the end.                                                 *)
(***************************************************************************)
EXTENDS Naturals, FiniteSets

CONSTANTS
  Worker,      \* replicas
  Event,       \* outbox events, in the order of their creation
  MaxAttempts, \* OUTBOX_MAX_ATTEMPTS
  BatchSize,   \* OUTBOX_BATCH_SIZE
  Concurrency, \* OUTBOX_DELIVERY_CONCURRENCY
  PidsDiffer,  \* do the replicas' process ids differ? (in containers they seldom do)
  MaxCrash,    \* bound on crashes
  Nobody

ASSUME OutboxAssumption ==
  /\ Event \subseteq Nat /\ IsFiniteSet(Event) /\ IsFiniteSet(Worker)
  /\ MaxAttempts \in Nat \ {0} /\ BatchSize \in Nat \ {0} /\ Concurrency \in Nat \ {0}
  /\ MaxCrash \in Nat /\ PidsDiffer \in BOOLEAN
  /\ Nobody \notin Worker \cup {"mail-1"}

VARIABLES
  published, \* events with publishedAt
  dead,      \* events with deadLetteredAt
  attempts,  \* attemptCount
  due,       \* events with nextAttemptAt <= now
  lease,     \* processingStartedAt: "none", "held" or "over" (older than the lease)
  owner,     \* processingBy
  lock,      \* the Redis key of the batch lock
  pc,        \* a replica is idle, about to select, dispatching or about to release
  task,      \* what a replica is doing with an event
  counted,   \* the attemptCount it read with the batch
  delivered, \* history: events the provider has accepted
  crashes

eventVars == <<published, dead, attempts, due, lease, owner>>
vars == <<eventVars, lock, pc, task, counted, delivered, crashes>>

Id(w) == IF PidsDiffer THEN w ELSE "mail-1"
Running == {"ready", "claimed", "sent", "failed"}

TypeOK ==
  /\ published \subseteq Event /\ dead \subseteq Event
  /\ attempts \in [Event -> Nat]
  /\ due \subseteq Event
  /\ lease \in [Event -> {"none", "held", "over"}]
  /\ owner \in [Event -> Worker \cup {"mail-1", Nobody}]
  /\ lock \in Worker \cup {Nobody}
  /\ pc \in [Worker -> {"idle", "select", "dispatch", "release"}]
  /\ task \in [Worker -> [Event -> {"none", "queued"} \cup Running]]
  /\ counted \in [Worker -> [Event -> Nat]]
  /\ delivered \subseteq Event
  /\ crashes \in 0..MaxCrash

Init ==
  /\ published = {} /\ dead = {} /\ delivered = {}
  /\ attempts = [e \in Event |-> 0]
  /\ due = Event
  /\ lease = [e \in Event |-> "none"]
  /\ owner = [e \in Event |-> Nobody]
  /\ lock = Nobody
  /\ pc = [w \in Worker |-> "idle"]
  /\ task = [w \in Worker |-> [e \in Event |-> "none"]]
  /\ counted = [w \in Worker |-> [e \in Event |-> 0]]
  /\ crashes = 0

-----------------------------------------------------------------------------
(* DistributedJobLockService.runExclusive and the batch                    *)

\* The poll timer found no batch of its own running; SET key owner EX ttl NX.
AcquireLock(w) ==
  /\ pc[w] = "idle"
  /\ lock = Nobody
  /\ lock' = w
  /\ pc' = [pc EXCEPT ![w] = "select"]
  /\ UNCHANGED <<eventVars, task, counted, delivered, crashes>>

\* The key's lifetime ends, whether or not its owner is done or alive.
LockExpires ==
  /\ lock # Nobody
  /\ lock' = Nobody
  /\ UNCHANGED <<eventVars, pc, task, counted, delivered, crashes>>

Unclaimed(e) == lease[e] \in {"none", "over"}

Selectable(e) ==
  e \notin published \cup dead /\ e \in due /\ attempts[e] < MaxAttempts /\ Unclaimed(e)

\* The oldest n of the events in S, or all of them where there are fewer.
IsOldest(part, S, n) ==
  /\ \/ Cardinality(part) = n
     \/ part = S /\ Cardinality(part) <= n
  /\ \A e \in part, f \in S \ part : e < f

\* dispatchAvailableEvents reads the batch, the attempt counts with it.  (An event
\* that this process still works on from a batch given up by AbandonBatch is not
\* queued a second time.)
SelectBatch(w) ==
  /\ pc[w] = "select"
  /\ \E batch \in SUBSET {e \in Event : Selectable(e)} :
       LET new == {e \in batch : task[w][e] = "none"} IN
       /\ IsOldest(batch, {e \in Event : Selectable(e)}, BatchSize)
       /\ task' = [task EXCEPT ![w] =
            [e \in Event |-> IF e \in new THEN "queued" ELSE task[w][e]]]
       /\ counted' = [counted EXCEPT ![w] =
            [e \in Event |-> IF e \in new THEN attempts[e] ELSE counted[w][e]]]
  /\ pc' = [pc EXCEPT ![w] = "dispatch"]
  /\ UNCHANGED <<eventVars, lock, delivered, crashes>>

Queued(w)  == {e \in Event : task[w][e] = "queued"}
Working(w) == {e \in Event : task[w][e] \in Running}

\* The next slice of the batch, once every event of the last one is done.
StartChunk(w) ==
  /\ pc[w] = "dispatch"
  /\ Working(w) = {} /\ Queued(w) # {}
  /\ \E chunk \in SUBSET Queued(w) :
       /\ IsOldest(chunk, Queued(w), Concurrency)
       /\ task' = [task EXCEPT ![w] =
            [e \in Event |-> IF e \in chunk THEN "ready" ELSE task[w][e]]]
  /\ UNCHANGED <<eventVars, lock, pc, counted, delivered, crashes>>

EndBatch(w) ==
  /\ pc[w] = "dispatch"
  /\ Working(w) = {} /\ Queued(w) = {}
  /\ pc' = [pc EXCEPT ![w] = "release"]
  /\ UNCHANGED <<eventVars, lock, task, counted, delivered, crashes>>

\* Compare-and-delete: a lock that has passed to another replica stays.
ReleaseLock(w) ==
  /\ pc[w] = "release"
  /\ lock' = IF lock = w THEN Nobody ELSE lock
  /\ pc' = [pc EXCEPT ![w] = "idle"]
  /\ UNCHANGED <<eventVars, task, counted, delivered, crashes>>

-----------------------------------------------------------------------------
(* dispatchEvent                                                           *)

\* What a replica remembers of an event once it is done with it.
Forget(w, e) ==
  /\ task' = [task EXCEPT ![w][e] = "none"]
  /\ counted' = [counted EXCEPT ![w][e] = 0]

\* The attempt count is not asked for again.
Claimable(e) == e \notin published \cup dead /\ e \in due /\ Unclaimed(e)

Claim(w, e) ==
  /\ task[w][e] = "ready"
  /\ IF Claimable(e)
     THEN /\ lease' = [lease EXCEPT ![e] = "held"]
          /\ owner' = [owner EXCEPT ![e] = Id(w)]
          /\ task' = [task EXCEPT ![w][e] = "claimed"]
          /\ UNCHANGED counted
     ELSE Forget(w, e) /\ UNCHANGED <<lease, owner>>
  /\ UNCHANGED <<published, dead, attempts, due, lock, pc, delivered, crashes>>

\* Mutant of Send: an error of the provider is taken for success.
SendRegardless(w, e) ==
  /\ task[w][e] = "claimed"
  /\ \E accepted \in BOOLEAN :
       /\ delivered' = IF accepted THEN delivered \cup {e} ELSE delivered
       /\ task' = [task EXCEPT ![w][e] = "sent"]
  /\ UNCHANGED <<eventVars, lock, pc, counted, crashes>>

\* The provider accepts and says so, accepts and the answer is lost, or does not
\* accept (an invalid payload never reaches it).
Send(w, e) ==
  /\ task[w][e] = "claimed"
  /\ \E accepted, answered \in BOOLEAN :
       /\ answered => accepted
       /\ delivered' = IF accepted THEN delivered \cup {e} ELSE delivered
       /\ task' = [task EXCEPT ![w][e] = IF answered THEN "sent" ELSE "failed"]
  /\ UNCHANGED <<eventVars, lock, pc, counted, crashes>>

\* The row is still this worker's to write.
Mine(w, e) == e \notin published /\ owner[e] = Id(w)

\* Mutant of Unlease: the owner's column is written with an empty text.
UnleaseWithText(e) ==
  /\ lease' = [lease EXCEPT ![e] = "none"]
  /\ owner' = [owner EXCEPT ![e] = ""]

Unlease(e) ==
  /\ lease' = [lease EXCEPT ![e] = "none"]
  /\ owner' = [owner EXCEPT ![e] = Nobody]

\* The success is recorded, or the update itself fails and the catch block runs.
RecordSuccess(w, e) ==
  /\ task[w][e] = "sent"
  /\ \/ /\ IF Mine(w, e)
           THEN /\ published' = published \cup {e}
                /\ attempts' = [attempts EXCEPT ![e] = @ + 1]
                /\ Unlease(e)
           ELSE UNCHANGED <<published, attempts, lease, owner>>
        /\ Forget(w, e)
     \/ /\ task' = [task EXCEPT ![w][e] = "failed"]
        /\ UNCHANGED <<published, attempts, lease, owner, counted>>
  /\ UNCHANGED <<dead, due, lock, pc, delivered, crashes>>

\* Decided by the count that was read with the batch.
LastAttempt(w, e) == counted[w][e] + 1 >= MaxAttempts

RecordFailure(w, e) ==
  /\ task[w][e] = "failed"
  /\ IF Mine(w, e)
     THEN /\ attempts' = [attempts EXCEPT ![e] = @ + 1]
          /\ due' = due \ {e}
          /\ dead' = IF LastAttempt(w, e) THEN dead \cup {e} ELSE dead
          /\ Unlease(e)
     ELSE UNCHANGED <<attempts, due, dead, lease, owner>>
  /\ Forget(w, e)
  /\ UNCHANGED <<published, lock, pc, delivered, crashes>>

\* The failure cannot be recorded either: the batch ends with the error, what was
\* queued is left, what is being sent goes on (and a later batch waits for it here).
AbandonBatch(w, e) ==
  /\ task[w][e] = "failed" /\ pc[w] = "dispatch"
  /\ pc' = [pc EXCEPT ![w] = "release"]
  /\ task' = [task EXCEPT ![w] =
       [f \in Event |-> IF f = e \/ task[w][f] = "queued" THEN "none" ELSE task[w][f]]]
  /\ counted' = [counted EXCEPT ![w] =
       [f \in Event |-> IF f = e \/ task[w][f] = "queued" THEN 0 ELSE counted[w][f]]]
  /\ crashes < MaxCrash /\ crashes' = crashes + 1
  /\ UNCHANGED <<eventVars, lock, delivered>>

\* The process dies; its leases and its lock are left to time.
Crash(w) ==
  /\ pc[w] # "idle"
  /\ crashes < MaxCrash /\ crashes' = crashes + 1
  /\ pc' = [pc EXCEPT ![w] = "idle"]
  /\ task' = [task EXCEPT ![w] = [e \in Event |-> "none"]]
  /\ counted' = [counted EXCEPT ![w] = [e \in Event |-> 0]]
  /\ UNCHANGED <<eventVars, lock, delivered>>

\* nextAttemptAt is reached.
FallsDue(e) ==
  /\ e \notin due
  /\ due' = due \cup {e}
  /\ UNCHANGED <<published, dead, attempts, lease, owner, lock, pc, task, counted,
                 delivered, crashes>>

\* Mutant of LeaseRunsOut: a lease is held until its owner gives it up.
LeaseStays(e) == FALSE /\ UNCHANGED vars

\* processingStartedAt is a lease ago.
LeaseRunsOut(e) ==
  /\ lease[e] = "held"
  /\ lease' = [lease EXCEPT ![e] = "over"]
  /\ UNCHANGED <<published, dead, attempts, due, owner, lock, pc, task, counted,
                 delivered, crashes>>

EventStep(w, e) == Claim(w, e) \/ Send(w, e) \/ RecordSuccess(w, e) \/ RecordFailure(w, e)

BatchStep(w) == SelectBatch(w) \/ StartChunk(w) \/ EndBatch(w) \/ ReleaseLock(w)

Next ==
  \/ \E w \in Worker :
       \/ AcquireLock(w) \/ BatchStep(w) \/ Crash(w)
       \/ \E e \in Event : EventStep(w, e) \/ AbandonBatch(w, e)
  \/ LockExpires
  \/ \E e \in Event : FallsDue(e) \/ LeaseRunsOut(e)

Spec == Init /\ [][Next]_vars

\* Timers go on polling, replicas go on with what they began, time passes.
FairSpec ==
  /\ Spec
  /\ WF_vars(LockExpires)
  /\ \A w \in Worker : SF_vars(AcquireLock(w)) /\ WF_vars(BatchStep(w))
  /\ \A w \in Worker, e \in Event : WF_vars(EventStep(w, e))
  /\ \A e \in Event : WF_vars(FallsDue(e)) /\ WF_vars(LeaseRunsOut(e))

-----------------------------------------------------------------------------
(* Properties                                                              *)

\* An event is marked published only after the provider accepted it, whichever of
\* several replicas marks it, and a published event is not dead-lettered later or
\* before.
PublishedWasDelivered == published \subseteq delivered /\ published \cap dead = {}

\* An event is given up only after the configured number of attempts: the count
\* that decides is old, never ahead of the row.
DeadAfterAttempts == \A e \in dead : attempts[e] >= MaxAttempts

\* Replicas that overlap exceed the configured number of attempts by no more than
\* one attempt each.
AttemptsBounded == \A e \in Event : attempts[e] < MaxAttempts + Cardinality(Worker)

\* Published events were accepted by the provider, dead ones had all their attempts, and
\* overlapping replicas exceed these by at most one each.
SettledTruly == PublishedWasDelivered /\ DeadAfterAttempts /\ AttemptsBounded

\* After crashes, lost locks and lost leases, every event is published or has had
\* all its attempts.
EventsSettle == <>(\A e \in Event : e \in published \/ attempts[e] >= MaxAttempts)

\* docs/operational-jobs.md: "explicit dead-lettering after OUTBOX_MAX_ATTEMPTS".
ExhaustedIsDead ==
  \A e \in Event : attempts[e] >= MaxAttempts => e \in published \cup dead
=============================================================================
