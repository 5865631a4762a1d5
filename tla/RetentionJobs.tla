----------------------------- MODULE RetentionJobs -----------------------------
(***************************************************************************)
(* The operational cycle (OperationalJobsService) on several replicas and  *)
(* the Redis lease it runs under (DistributedJobLockService).              *)
(*                                                                         *)
(* The lease is taken with SET NX EX, is not renewed, and is released by   *)
(* its owner only: a cycle that outlives it runs on beside the next one.   *)
(* The jobs of a cycle run one after the other, and the first that fails   *)
(* ends the cycle.  Each job selects a bounded batch of rows and then      *)
(* writes to these by id.  Modelled are one of each sort: rows deleted by  *)
(* their expiry alone ("tokens", as five tables have them), sessions that  *)
(* expire, sessions deleted after they ended, and security events that may *)
(* come under a legal hold.  IdentityVerification has stale attempts.      *)
(***************************************************************************)
EXTENDS Naturals, FiniteSets, FiniteSetsExt, Sequences

CONSTANTS
  Replica,
  Token, Session, Event,  \* rows
  Batch,                  \* OPERATIONAL_JOB_BATCH_SIZE
  MaxFailures,            \* cycles that fail or are cut short
  Nobody

\* What is asked of the constants; MCBackground assumes it of its instance.
RowAssumption ==
  /\ Token \cap Session = {} /\ Token \cap Event = {} /\ Session \cap Event = {}
  /\ IsFiniteSet(Token \cup Session \cup Event)

ReplicaAssumption == Nobody \notin Replica /\ Batch \in Nat \ {0} /\ MaxFailures \in Nat

Row  == Token \cup Session \cup Event
Jobs == <<"deleteTokens", "expireSessions", "deleteSessions", "deleteEvents">>

VARIABLES
  lease,     \* owner of the Redis lease, or Nobody
  owns,      \* replicas in runExclusive whose lease was not seen to lapse
  job,       \* the job of Jobs a replica's cycle is at; 0 outside a cycle
  failures,  \* cycles that failed or were cut short
  picked,    \* rows the job selected; a job that selected none is over
  row,       \* "live", "ACTIVE", "EXPIRED", "REVOKED" (sessions), "deleted"
  age,       \* of a row: 0 current, 1 past its expiry, 2 past its retention
  hold,      \* events under a legal hold
  safe       \* history: events held while no cycle had selected them

lock == <<lease, owns, failures>>
rows == <<row, age, hold, safe>>
vars == <<lock, job, picked, rows>>

TypeOK ==
  /\ lease \in Replica \cup {Nobody}
  /\ failures \in 0..MaxFailures
  /\ owns \subseteq {r \in Replica : job[r] # 0}
  /\ job \in [Replica -> 0..Len(Jobs)]
  /\ picked \in [Replica -> SUBSET Row]
  /\ \A r \in Replica : Cardinality(picked[r]) <= Batch
  /\ row \in [Row -> {"live", "ACTIVE", "EXPIRED", "REVOKED", "deleted"}]
  /\ age \in [Row -> 0..2]
  /\ hold \subseteq Event /\ safe \subseteq hold

Init ==
  /\ lease = Nobody /\ owns = {} /\ failures = 0
  /\ job = [r \in Replica |-> 0]
  /\ picked = [r \in Replica |-> {}]
  /\ row = [x \in Row |-> IF x \in Session THEN "ACTIVE" ELSE "live"]
  /\ age = [x \in Row |-> 0]
  /\ hold = {} /\ safe = {}

-------------------------------------------------------------------------------
(* The rest of the service                                                 *)

\* Only of a session the jobs ask for its expiry and for its retention.
Grow(x) ==
  /\ row[x] # "deleted" /\ age[x] < 2
  /\ age' = [age EXCEPT ![x] = IF x \in Session THEN @ + 1 ELSE 2]
  /\ UNCHANGED <<lock, job, picked, row, hold, safe>>

\* A session ends by logout, reset or reuse before it expires.
Revoke(s) ==
  /\ row[s] = "ACTIVE"
  /\ row' = [row EXCEPT ![s] = "REVOKED"]
  /\ UNCHANGED <<lock, job, picked, age, hold, safe>>

Hold(e) ==
  /\ row[e] # "deleted" /\ e \notin hold
  /\ hold' = hold \cup {e}
  /\ safe' = IF \E r \in Replica : e \in picked[r] THEN safe ELSE safe \cup {e}
  /\ UNCHANGED <<lock, job, picked, row, age>>

-------------------------------------------------------------------------------
(* The lease                                                               *)

\* A replica that runs a cycle does not begin another; SET NX takes the lease.
RunCycle(r) ==
  /\ job[r] = 0 /\ lease = Nobody
  /\ lease' = r /\ owns' = owns \cup {r}
  /\ job' = [job EXCEPT ![r] = 1]
  /\ UNCHANGED <<failures, picked, rows>>

\* The lease reaches its TTL, under a cycle or after the replica stopped.
Lapse ==
  /\ lease # Nobody
  /\ owns' = owns \ {lease}
  /\ lease' = Nobody
  /\ UNCHANGED <<failures, job, picked, rows>>

\* Mutant of Release: whoever holds the lease.
ReleaseAny(r) == lease' = Nobody

\* RELEASE_LOCK_SCRIPT
Release(r) == lease' = IF lease = r THEN Nobody ELSE lease

EndCycle(r) ==
  /\ Release(r)
  /\ owns' = owns \ {r}
  /\ job' = [job EXCEPT ![r] = 0]
  /\ picked' = [picked EXCEPT ![r] = {}]

\* A job fails and the cycle ends with it.
FailCycle(r) ==
  /\ job[r] # 0 /\ failures < MaxFailures
  /\ failures' = failures + 1
  /\ EndCycle(r)
  /\ UNCHANGED rows

\* The replica stops; its lease stays until its TTL.
Crash(r) ==
  /\ job[r] # 0 /\ failures < MaxFailures
  /\ failures' = failures + 1
  /\ job' = [job EXCEPT ![r] = 0]
  /\ picked' = [picked EXCEPT ![r] = {}]
  /\ owns' = owns \ {r}
  /\ UNCHANGED <<lease, rows>>

-------------------------------------------------------------------------------
(* The jobs                                                                *)

\* What deleteRetainedSessions selects.
RetainedSessions == {s \in Session : row[s] \in {"EXPIRED", "REVOKED"} /\ age[s] = 2}

\* What deleteRetainedSecurityEvents selects.
RetainedEvents == {e \in Event : row[e] = "live" /\ age[e] = 2} \ hold

\* The lookups are ordered by time and end at the batch size.
Batches(S) == kSubset(Min({Batch, Cardinality(S)}), S)

Eligible(name) ==
  CASE name = "deleteTokens"   -> {t \in Token : row[t] = "live" /\ age[t] = 2}
    [] name = "expireSessions" -> {s \in Session : row[s] = "ACTIVE" /\ age[s] > 0}
    [] name = "deleteSessions" -> RetainedSessions
    [] name = "deleteEvents"   -> RetainedEvents

\* Mutant of Advance: a cycle is over after its first job.
AdvanceOnce(r) == EndCycle(r) /\ UNCHANGED failures

\* After the last job the cycle is over and the lease is released.
Advance(r) ==
  /\ IF job[r] = Len(Jobs)
     THEN EndCycle(r)
     ELSE /\ job' = [job EXCEPT ![r] = @ + 1]
          /\ picked' = [picked EXCEPT ![r] = {}]
          /\ UNCHANGED <<lease, owns>>
  /\ UNCHANGED failures

\* A job without rows is over; the lookup and the write are two statements.
Select(r) ==
  /\ job[r] # 0 /\ picked[r] = {}
  /\ LET S == Eligible(Jobs[job[r]]) IN
     \/ S = {} /\ Advance(r)
     \/ /\ S # {}
        /\ \E B \in Batches(S) :
             picked' = [picked EXCEPT ![r] = B]
        /\ UNCHANGED <<lock, job>>
  /\ UNCHANGED rows

\* The update asks again for ACTIVE.
Expirable(r) == {s \in picked[r] : row[s] = "ACTIVE"}

ExpireSessions(r) ==
  /\ job[r] # 0 /\ picked[r] # {} /\ Jobs[job[r]] = "expireSessions"
  /\ row' = [x \in Row |-> IF x \in Expirable(r) THEN "EXPIRED" ELSE row[x]]
  /\ Advance(r)
  /\ UNCHANGED <<age, hold, safe>>

DeleteByIds(r) ==
  /\ job[r] # 0 /\ picked[r] # {} /\ Jobs[job[r]] # "expireSessions"
  /\ row' = [x \in Row |-> IF x \in picked[r] THEN "deleted" ELSE row[x]]
  /\ Advance(r)
  /\ UNCHANGED <<age, hold, safe>>

-------------------------------------------------------------------------------

Next ==
  \/ \E x \in Row : Grow(x)
  \/ \E s \in Session : Revoke(s)
  \/ \E e \in Event : Hold(e)
  \/ Lapse
  \/ \E r \in Replica : RunCycle(r) \/ FailCycle(r) \/ Crash(r)
  \/ \E r \in Replica : Select(r) \/ ExpireSessions(r) \/ DeleteByIds(r)

Spec == Init /\ [][Next]_vars

\* Timers run on, leases lapse, and a cycle goes on unless it fails.
Fairness ==
  /\ WF_vars(Lapse)
  /\ \A r \in Replica : WF_vars(RunCycle(r))
  /\ \A r \in Replica : WF_vars(Select(r) \/ ExpireSessions(r) \/ DeleteByIds(r))

FairSpec == Spec /\ Fairness

-------------------------------------------------------------------------------
(* Properties                                                              *)

\* Two replicas are in a cycle together only when the lease of one of them has
\* lapsed: what a late cycle releases is never the lease of the next.
OneCycleUnlessLapsed ==
  \A q, r \in Replica : {q, r} \subseteq owns => q = r

\* A session is ended once, by logout or by one of the cycles, and deleted only after
\* that and past its retention, although the deletion goes by an id selected earlier.
SessionsEndOnce ==
  [][\A s \in Session : row'[s] # row[s] =>
       \/ row[s] = "ACTIVE" /\ row'[s] \in {"EXPIRED", "REVOKED"}
       \/ row[s] \in {"EXPIRED", "REVOKED"} /\ age[s] = 2 /\ row'[s] = "deleted"]_vars

\* An event that came under a hold while no cycle had selected it is not deleted.
HeldEventsStay == \A e \in safe : row[e] # "deleted"

NoBacklog == \A x \in Row : age[x] = 2 => row[x] = "deleted" \/ x \in hold
===============================================================================
