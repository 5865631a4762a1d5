---------------------------- MODULE CitizenProvider ----------------------------
(***************************************************************************)
(* Lookups of citizens at the identity provider: the encrypted positive    *)
(* cache, the request that concurrent lookups of one national id share,    *)
(* retries (NidaCitizenAdapter), and the circuit breaker in front of them  *)
(* (CitizenCircuitBreaker), in one process.                                *)
(*                                                                         *)
(* Each action is what runs between two awaits.  The reset interval of the *)
(* breaker, the cache's TTL and the backoff delays pass as events, so a    *)
(* provider call may take longer than the interval.                        *)
(***************************************************************************)
EXTENDS Naturals

CONSTANTS
  Call,        \* lookups under way at once
  Id,          \* national ids
  Citizen,     \* those the provider knows
  MaxRetries,  \* CITIZEN_API_MAX_RETRIES
  Threshold    \* CITIZEN_CIRCUIT_FAILURE_THRESHOLD

\* What is asked of the constants; MCBackground assumes it of its instance.
IdAssumption == Id # {} /\ Citizen \subseteq Id

BoundAssumption == MaxRetries \in Nat /\ Threshold \in Nat \ {0}

VARIABLES
  call,     \* of each lookup: "idle", "cache" (reading it), "joined" to a request
  id,       \* the national id a lookup is for
  answer,   \* its last answer: "none", "found", "not_found", "unavailable"
  cached,   \* national ids in the cache
  request,  \* inFlight: "none", "call", "delay", "write", or the error it ends with
  attempt,  \* the attempt a request is at
  probes,   \* national ids whose request was admitted as a half-open probe
  state, failures, probing, \* CitizenCircuitBreaker
  elapsed,  \* the reset interval has passed since openedAt
  up        \* the provider answers every call

callVars == <<call, id, answer>>
reqVars  == <<request, attempt, probes>>
breaker  == <<state, failures, probing, elapsed>>
vars == <<callVars, cached, reqVars, breaker, up>>

Answers == {"found", "not_found", "unavailable"}

TypeOK ==
  /\ call \in [Call -> {"idle", "cache", "joined"}]
  /\ id \in [Call -> Id]
  /\ answer \in [Call -> Answers \cup {"none"}]
  /\ cached \subseteq Id
  /\ request \in [Id -> {"none", "call", "delay", "write", "not_found", "unavailable"}]
  /\ attempt \in [Id -> 0..MaxRetries]
  /\ probes \subseteq {n \in Id : request[n] # "none"}
  /\ state \in {"closed", "open", "half-open"}
  /\ failures \in 0..Threshold /\ probing \in BOOLEAN /\ elapsed \in BOOLEAN
  /\ up \in BOOLEAN

Init ==
  /\ call = [c \in Call |-> "idle"]
  /\ id = [c \in Call |-> CHOOSE n \in Id : TRUE]
  /\ answer = [c \in Call |-> "none"]
  /\ cached = {}
  /\ request = [n \in Id |-> "none"]
  /\ attempt = [n \in Id |-> 0]
  /\ probes = {}
  /\ state = "closed" /\ failures = 0 /\ probing = FALSE /\ elapsed = FALSE
  /\ up = TRUE

-------------------------------------------------------------------------------
(* The circuit breaker                                                     *)

\* assertRequestAllowed, when it lets the request pass.
Admitted ==
  \/ state = "closed"
  \/ state = "open" /\ elapsed /\ ~probing
  \/ state = "half-open" /\ ~probing

\* It may leave "open" and refuse all the same.
AssertRequestAllowed(n) ==
  /\ state' = IF state = "open" /\ elapsed THEN "half-open" ELSE state
  /\ probing' = IF state' = "half-open" THEN TRUE ELSE probing
  /\ probes' = IF Admitted /\ state' = "half-open" THEN probes \cup {n} ELSE probes
  /\ UNCHANGED <<failures, elapsed>>

\* Mutant of RecordSuccess: the circuit stays as it is.
RecordSuccessOpen ==
  /\ failures' = 0 /\ probing' = FALSE
  /\ UNCHANGED <<state, elapsed>>

RecordSuccess ==
  /\ state' = "closed" /\ failures' = 0 /\ probing' = FALSE
  /\ elapsed' = FALSE

Opens == state = "half-open" \/ failures + 1 >= Threshold

\* Mutant of RecordFailure: the place of the probe is not given back.
RecordFailureProbing ==
  /\ UNCHANGED probing
  /\ failures' = IF failures < Threshold THEN failures + 1 ELSE failures
  /\ IF Opens THEN state' = "open" /\ elapsed' = FALSE ELSE UNCHANGED <<state, elapsed>>

\* Failures are told apart up to the threshold.
RecordFailure ==
  /\ probing' = FALSE
  /\ failures' = IF failures < Threshold THEN failures + 1 ELSE failures
  /\ IF Opens THEN state' = "open" /\ elapsed' = FALSE ELSE UNCHANGED <<state, elapsed>>

Elapse ==
  /\ state = "open" /\ ~elapsed
  /\ elapsed' = TRUE
  /\ UNCHANGED <<callVars, cached, reqVars, state, failures, probing, up>>

-------------------------------------------------------------------------------
(* A lookup                                                                *)

FindByNationalId(c, n) ==
  /\ call[c] = "idle"
  /\ call' = [call EXCEPT ![c] = "cache"]
  /\ id' = [id EXCEPT ![c] = n]
  /\ answer' = [answer EXCEPT ![c] = "none"]
  /\ UNCHANGED <<cached, reqVars, breaker, up>>

Answer(c, a) ==
  /\ call' = [call EXCEPT ![c] = "idle"]
  /\ answer' = [answer EXCEPT ![c] = a]
  /\ UNCHANGED id

ReadHit(c) ==
  /\ call[c] = "cache" /\ id[c] \in cached
  /\ Answer(c, "found")
  /\ UNCHANGED <<cached, reqVars, breaker, up>>

\* A read that fails counts as a miss; an unreadable entry is deleted.
Missed(c) == cached' \in {cached, cached \ {id[c]}}

\* Mutant of Joins: each lookup makes its own request.
JoinsNone(n) == FALSE

Joins(n) == request[n] # "none"

\* The lookup shares the request that is under way.
Join(c) ==
  /\ call[c] = "cache" /\ Joins(id[c])
  /\ Missed(c)
  /\ call' = [call EXCEPT ![c] = "joined"]
  /\ UNCHANGED <<id, answer, reqVars, breaker, up>>

\* It makes the request, or is refused by the breaker.
Fetch(c) ==
  LET n == id[c] IN
  /\ call[c] = "cache" /\ ~Joins(n)
  /\ Missed(c)
  /\ AssertRequestAllowed(n)
  /\ IF Admitted
     THEN /\ call' = [call EXCEPT ![c] = "joined"]
          /\ request' = [request EXCEPT ![n] = "call"]
          /\ attempt' = [attempt EXCEPT ![n] = 0]
          /\ UNCHANGED <<id, answer>>
     ELSE Answer(c, "unavailable") /\ UNCHANGED <<request, attempt>>
  /\ UNCHANGED up

-------------------------------------------------------------------------------
(* A request                                                               *)

Step(n, phase) == request' = [request EXCEPT ![n] = phase] /\ UNCHANGED <<attempt, probes>>

Found(n) ==
  /\ request[n] = "call" /\ n \in Citizen
  /\ RecordSuccess
  /\ Step(n, "write")
  /\ UNCHANGED <<callVars, cached, up>>

\* 400, 404 or the provider's own word.
NotFound(n) ==
  /\ request[n] = "call" /\ n \notin Citizen
  /\ RecordSuccess
  /\ Step(n, "not_found")
  /\ UNCHANGED <<callVars, cached, up>>

Retries(n) == attempt[n] < MaxRetries

\* 429, 5xx, a timeout or a reset connection: there may be another attempt.
Retry(n) ==
  /\ request[n] = "call" /\ ~up /\ Retries(n)
  /\ Step(n, "delay")
  /\ UNCHANGED <<callVars, cached, breaker, up>>

EndDelay(n) ==
  /\ request[n] = "delay"
  /\ request' = [request EXCEPT ![n] = "call"]
  /\ attempt' = [attempt EXCEPT ![n] = @ + 1]
  /\ UNCHANGED <<callVars, cached, probes, breaker, up>>

GivesUp == "unavailable"

\* The last attempt failed, or one failed in a way that is not tried again.
Fail(n) ==
  /\ request[n] = "call" /\ ~up
  /\ RecordFailure
  /\ Step(n, GivesUp)
  /\ UNCHANGED <<callVars, cached, up>>

\* The promise settles for all that share it, after the cache was written or not.
Settle(n) ==
  LET found == request[n] = "write" IN
  /\ request[n] \in {"write", "not_found", "unavailable"}
  /\ \/ cached' = cached
     \/ found /\ cached' = cached \cup {n}
  /\ call' = [c \in Call |-> IF call[c] = "joined" /\ id[c] = n THEN "idle" ELSE call[c]]
  /\ answer' = [c \in Call |->
       IF call[c] = "joined" /\ id[c] = n
       THEN IF found THEN "found" ELSE request[n] ELSE answer[c]]
  /\ request' = [request EXCEPT ![n] = "none"]
  /\ probes' = probes \ {n}
  /\ UNCHANGED <<id, attempt, breaker, up>>

ExpireCached(n) ==
  /\ n \in cached
  /\ cached' = cached \ {n}
  /\ UNCHANGED <<callVars, reqVars, breaker, up>>

ProviderChanges ==
  /\ up' = ~up
  /\ UNCHANGED <<callVars, cached, reqVars, breaker>>

-------------------------------------------------------------------------------

Next ==
  \/ \E c \in Call, n \in Id : FindByNationalId(c, n)
  \/ \E c \in Call : ReadHit(c) \/ Join(c) \/ Fetch(c)
  \/ \E n \in Id : Found(n) \/ NotFound(n) \/ Retry(n) \/ EndDelay(n) \/ Fail(n) \/ Settle(n)
  \/ \E n \in Id : ExpireCached(n)
  \/ Elapse \/ ProviderChanges

Spec == Init /\ [][Next]_vars

\* Reads and provider calls end, delays, the interval and the TTL pass, and lookups
\* go on.
Fairness ==
  /\ WF_vars(\E c \in Call, n \in Id : FindByNationalId(c, n))
  /\ WF_vars(\E n \in Id : ExpireCached(n))
  /\ WF_vars(Elapse)
  /\ \A c \in Call : WF_vars(ReadHit(c) \/ Join(c) \/ Fetch(c))
  /\ \A n \in Id :
       WF_vars(Found(n) \/ NotFound(n) \/ Retry(n) \/ EndDelay(n) \/ Fail(n) \/ Settle(n))

FairSpec == Spec /\ Fairness

-------------------------------------------------------------------------------
(* Properties                                                              *)

\* When the breaker is half-open, a probe is under way that will close or open it:
\* late answers of older requests never leave it refusing everything.
ProbeUnderWay ==
  state = "half-open" => probing /\ \E n \in probes : request[n] \in {"call", "delay"}

\* A closed breaker has seen fewer failures in a row than open it.
ClosedBelowThreshold == state = "closed" => failures < Threshold

\* An outage is never answered as an unknown citizen, nor anybody for somebody else.
AnswersAreTrue ==
  \A c \in Call :
    /\ answer[c] = "found" => id[c] \in Citizen
    /\ answer[c] = "not_found" => id[c] \notin Citizen

\* A half-open breaker has a probe under way that will close or open it, a closed one has
\* seen fewer failures in a row than open it, and answers are true.
BreakerHolds == ProbeUnderWay /\ ClosedBelowThreshold /\ AnswersAreTrue

\* Lookups of one national id never begin a second request beside the first, in
\* whatever phase that is.
LookupsShare ==
  [][\A n \in Id : request[n] # "none" /\ request'[n] = "call" =>
       IF request[n] = "delay"
       THEN attempt'[n] = attempt[n] + 1
       ELSE request[n] = "call" /\ attempt'[n] = attempt[n]]_vars

\* Once the provider answers again the circuit closes: no order of late failures and
\* probes leaves it open or half-open for ever.
Recovers == <>[]up => []<>(state = "closed")
===============================================================================
