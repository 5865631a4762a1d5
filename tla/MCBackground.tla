----------------------------- MODULE MCBackground -----------------------------
(***************************************************************************)
(* Small instances for TLC of what runs beside the requests: the media     *)
(* job, the retention jobs, and, in one process, lookups of citizens,      *)
(* slots of concurrent calls and rate limiters.  A behaviour is one of one *)
(* component, chosen in BackgroundInit; the variables of the others keep   *)
(* their values.                                                           *)
(***************************************************************************)
EXTENDS RetentionJobs

CONSTANTS
  Number,   \* objects, national ids
  Legacy, Worker, Decision,                      \* MediaCleanup
  Call, Citizen, MaxRetries, Threshold,          \* CitizenProvider
  Caller, Maximum,                               \* CallSlots
  Request, Key, Limit                            \* RateLimiter

VARIABLES
  scenario,
  stored, old, policy, mRow, digest, due, mHold, attempt, confirming, decided, todo, gone,
  page, cursor, known, complete, step, erased, rowed, mSafe,
  call, id, answer, cached, request, tries, probes, state, failed, probing, elapsed, up,
  pc, active, waiters,
  count, expires, asked, got, over, within, passed

jobVars == vars
mediaVars ==
  <<stored, old, policy, mRow, digest, due, mHold, attempt, confirming, decided, todo, gone,
    page, cursor, known, complete, step, erased, rowed, mSafe>>
citizenVars ==
  <<call, id, answer, cached, request, tries, probes, state, failed, probing, elapsed, up>>
slotVars == <<pc, active, waiters>>
limiterVars == <<count, expires, asked, got, over, within, passed>>
backgroundVars == <<scenario, mediaVars, jobVars, citizenVars, slotVars, limiterVars>>

Media == INSTANCE MediaCleanup WITH
       Object <- Number, Request <- Decision, row <- mRow, hold <- mHold, safe <- mSafe

Nida == INSTANCE CitizenProvider WITH Id <- Number, attempt <- tries, failures <- failed

Slots == INSTANCE CallSlots

Limiter == INSTANCE RateLimiter

ASSUME BackgroundAssumption ==
  /\ Media!ObjectAssumption /\ Media!BatchAssumption
  /\ RowAssumption /\ ReplicaAssumption
  /\ Nida!IdAssumption /\ Nida!BoundAssumption
  /\ Slots!MaximumAssumption /\ Limiter!LimitAssumption

BackgroundInit ==
  /\ scenario \in {"media", "jobs", "citizen", "slots", "limiter"}
  /\ Media!Init /\ Init /\ Nida!Init /\ Slots!Init /\ Limiter!Init
  /\ scenario = "media" \/ Media!AllReadable

InMedia ==
  scenario = "media" /\ UNCHANGED <<scenario, jobVars, citizenVars, slotVars, limiterVars>>

InJobs ==
  scenario = "jobs" /\ UNCHANGED <<scenario, mediaVars, citizenVars, slotVars, limiterVars>>

InCitizen ==
  scenario = "citizen" /\ UNCHANGED <<scenario, mediaVars, jobVars, slotVars, limiterVars>>

InSlots ==
  scenario = "slots" /\ UNCHANGED <<scenario, mediaVars, jobVars, citizenVars, limiterVars>>

InLimiter ==
  scenario = "limiter" /\ UNCHANGED <<scenario, mediaVars, jobVars, citizenVars, slotVars>>

BackgroundNext ==
  \/ InMedia /\ \E o \in Number : Media!Upload(o)
  \/ InMedia /\ \E o \in Number : Media!EndPolicy(o)
  \/ InMedia /\ \E o \in Number : Media!Age(o)
  \/ InMedia /\ \E o \in Number : Media!ConfirmUpload(o)
  \/ InMedia /\ Media!HeadObject
  \/ InMedia /\ Media!CreateRow
  \/ InMedia /\ Media!FailConfirm
  \/ InMedia /\ \E o \in Number : Media!Hold(o)
  \/ InMedia /\ \E o \in Number : Media!Expire(o)
  \/ InMedia /\ \E o \in Number : Media!ExpireStale(o)
  \/ InMedia /\ \E o \in Number, s \in {"REVIEW_REQUIRED", "closed"} : Media!Decide(o, s)
  \/ InMedia /\ \E w \in Worker : Media!DeleteExpiredMediaBatch(w)
  \/ InMedia /\ \E o \in Number : Media!DeleteAttemptMedia(o)
  \/ InMedia /\ \E w \in Media!Pass, o \in Number : Media!DeleteObject(w, o)
  \/ InMedia /\ \E w \in Media!Pass, o \in Number : Media!MarkRow(w, o)
  \/ InMedia /\ \E w \in Media!Pass, o \in Number : Media!Retry(w, o)
  \/ InMedia /\ Media!ListObjects
  \/ InMedia /\ Media!ReadLegacy
  \/ InMedia /\ Media!ReadTracked
  \/ InMedia /\ \E o \in Number : Media!DeleteOrphan(o)
  \/ InMedia /\ \E o \in Number : Media!SkipOrphan(o)
  \/ InMedia /\ Media!EndReconciliation
  \/ InMedia /\ Media!Restart
  \/ InJobs /\ \E x \in Row : Grow(x)
  \/ InJobs /\ \E s \in Session : Revoke(s)
  \/ InJobs /\ \E e \in Event : Hold(e)
  \/ InJobs /\ Lapse
  \/ InJobs /\ \E r \in Replica : RunCycle(r)
  \/ InJobs /\ \E r \in Replica : FailCycle(r)
  \/ InJobs /\ \E r \in Replica : Crash(r)
  \/ InJobs /\ \E r \in Replica : Select(r)
  \/ InJobs /\ \E r \in Replica : ExpireSessions(r)
  \/ InJobs /\ \E r \in Replica : DeleteByIds(r)
  \/ InCitizen /\ \E c \in Call, n \in Number : Nida!FindByNationalId(c, n)
  \/ InCitizen /\ \E c \in Call : Nida!ReadHit(c)
  \/ InCitizen /\ \E c \in Call : Nida!Join(c)
  \/ InCitizen /\ \E c \in Call : Nida!Fetch(c)
  \/ InCitizen /\ \E n \in Number : Nida!Found(n)
  \/ InCitizen /\ \E n \in Number : Nida!NotFound(n)
  \/ InCitizen /\ \E n \in Number : Nida!Retry(n)
  \/ InCitizen /\ \E n \in Number : Nida!EndDelay(n)
  \/ InCitizen /\ \E n \in Number : Nida!Fail(n)
  \/ InCitizen /\ \E n \in Number : Nida!Settle(n)
  \/ InCitizen /\ \E n \in Number : Nida!ExpireCached(n)
  \/ InCitizen /\ Nida!Elapse
  \/ InCitizen /\ Nida!ProviderChanges
  \/ InSlots /\ \E c \in Caller : Slots!Acquire(c)
  \/ InSlots /\ \E c \in Caller : Slots!Resume(c)
  \/ InSlots /\ \E c \in Caller : Slots!EndCall(c)
  \/ InLimiter /\ \E r \in Request, K \in (SUBSET Key) \ {{}} : Limiter!AssertAllowed(r, K)
  \/ InLimiter /\ \E r \in Request, k \in Key : Limiter!Increment(r, k)
  \/ InLimiter /\ \E r \in Request : Limiter!Judge(r)
  \/ InLimiter /\ \E k \in Key : Limiter!EndWindow(k)

\* The fairness of each component, in its own behaviours.
MediaFairness ==
  /\ \A n \in Number : WF_mediaVars(scenario = "media" /\ (Media!EndPolicy(n) \/ Media!Age(n)))
  /\ WF_mediaVars(scenario = "media" /\
       (Media!ListObjects \/ Media!ReadLegacy \/ Media!ReadTracked \/ Media!EndReconciliation))
  /\ SF_mediaVars(scenario = "media" /\ \E n \in Number : Media!DeleteOrphan(n))
  /\ SF_mediaVars(scenario = "media" /\ cursor # 0 /\ Media!ListObjects)

JobFairness ==
  /\ WF_vars(scenario = "jobs" /\ Lapse)
  /\ \A r \in Replica :
       /\ WF_vars(scenario = "jobs" /\ RunCycle(r))
       /\ WF_vars(scenario = "jobs" /\ (Select(r) \/ ExpireSessions(r) \/ DeleteByIds(r)))

CitizenFairness ==
  /\ WF_citizenVars(scenario = "citizen" /\ Nida!Elapse)
  /\ WF_citizenVars(scenario = "citizen" /\
       \E c \in Call, n \in Number : Nida!FindByNationalId(c, n))
  /\ WF_citizenVars(scenario = "citizen" /\ \E n \in Number : Nida!ExpireCached(n))
  /\ \A c \in Call :
       WF_citizenVars(scenario = "citizen" /\
         (Nida!ReadHit(c) \/ Nida!Join(c) \/ Nida!Fetch(c)))
  /\ \A n \in Number :
       WF_citizenVars(scenario = "citizen" /\
         \/ Nida!Found(n) \/ Nida!NotFound(n) \/ Nida!Retry(n)
         \/ Nida!EndDelay(n) \/ Nida!Fail(n) \/ Nida!Settle(n))

BackgroundSpec ==
  /\ BackgroundInit /\ [][BackgroundNext]_backgroundVars
  /\ MediaFairness /\ JobFairness /\ CitizenFairness

-------------------------------------------------------------------------------
(* Properties                                                              *)

\* The type invariant of each component.
TypesHold ==
  /\ scenario = "media" => Media!TypeOK
  /\ scenario = "jobs" => TypeOK
  /\ scenario = "citizen" => Nida!TypeOK
  /\ scenario = "slots" => Slots!TypeOK
  /\ scenario = "limiter" => Limiter!TypeOK

\* Media and audit events that come under a hold while no pass has selected them stay,
\* whatever expiry, decision or reconciliation comes later; media is only marked deleted
\* when its object was.
HeldStay ==
  /\ scenario = "media" => Media!ProtectedStays /\ Media!MarkedWasErased
  /\ scenario = "jobs" => HeldEventsStay

\* Reconciliation deletes no object that had a row when its page was listed, and a session
\* is ended once and deleted only past its retention.
DeletesWhatMayGo == Media!TrackedIsNoOrphan /\ SessionsEndOnce

\* A half-open breaker has a probe under way that will close or open it, a closed one has
\* seen fewer failures in a row than open it, and no outage is answered as an unknown
\* citizen.
BreakerHolds == scenario = "citizen" => Nida!BreakerHolds

\* Lookups of one national id share the request that is under way.
LookupsShare == Nida!LookupsShare

\* No window of a counter lets through more than its limit and no counter is without an
\* expiry.
LimitsHold == scenario = "limiter" => Limiter!WindowsHold /\ Limiter!CountersExpire

\* The slots counted are those of calls under way, and nobody waits for a release that
\* will not come.
SlotsComeFree == scenario = "slots" => Slots!ActiveIsCalling /\ Slots!NobodyStranded

\* Orphans and rows past their retention do not stay, through failed passes, crashes and
\* lost leases.
BacklogEnds == []<>(Media!NoOrphans /\ NoBacklog)

\* Once the provider answers again the circuit closes.
Recovers == scenario = "citizen" => Nida!Recovers
===============================================================================
