--------------------------- MODULE RefreshRotation ---------------------------
(***************************************************************************)
(* Refresh-token rotation of one session family, as the replicas of the    *)
(* Auth service run it: POST /auth/refresh (AuthenticationService.refresh  *)
(* and revokeForReuse) against the transactions that end the session by    *)
(* other routes (logout, password change, the expiry job).                 *)
(*                                                                         *)
(* A transaction runs statement by statement under READ COMMITTED: a       *)
(* statement sees the rows committed when it starts, takes the row locks   *)
(* of what it writes, waits for a locked row, and evaluates its WHERE      *)
(* clause again on the committed row once it has the lock.  Its writes     *)
(* become visible at the commit, which releases its row locks.             *)
(*                                                                         *)
(* All rows and the Redis lock are keyed by the session, so one session    *)
(* stands for each of them.  Token rows are numbered as they are created.  *)
(***************************************************************************)
EXTENDS Naturals, FiniteSets

CONSTANTS
  Request,          \* slots for refresh calls in flight, over all replicas
  Revoker,          \* slots for transactions that end the session otherwise
  Free,             \* no holder
  Orphan,           \* holder of a Redis lock whose request has gone
  NoTime,           \* a timestamp column that is null
  NoToken,          \* a replacedByTokenId that is null
  Grace,            \* REFRESH_REPLAY_GRACE_SECONDS, in ticks
  SessionTtl,       \* REFRESH_TOKEN_TTL_SECONDS, in ticks
  GenerationUnique, \* whether (sessionId, generation) carries a unique index
  MaxToken,         \* bound: token rows the family may come to have
  MaxClock          \* bound: the last tick

Actor      == Request \cup Revoker
Token      == 1..MaxToken
Time       == 0..MaxClock

ASSUME ActorAssumption ==
  /\ Request \cap Revoker = {}
  /\ Free \notin Actor \cup {Orphan}
  /\ Orphan \notin Actor
ASSUME BoundAssumption ==
  /\ Grace \in Nat \ {0} /\ SessionTtl \in Nat
  /\ MaxToken \in Nat \ {0} /\ MaxClock \in Nat
  /\ NoTime \notin Nat /\ NoToken \notin Nat
  /\ GenerationUnique \in BOOLEAN

VARIABLES
  status,     \* AuthSession.status
  issued,     \* RefreshToken rows that are committed
  generation, \* RefreshToken.generation
  usedAt,     \* RefreshToken.usedAt
  replacedBy, \* RefreshToken.replacedByTokenId
  revoked,    \* rows whose revokedAt is set
  reused,     \* rows whose reuseDetectedAt is set
  sessionRow, \* holder of the row lock on the AuthSession row
  tokenRow,   \* holder of the row lock on each RefreshToken row
  redisLock,  \* owner of lock:refresh:<sessionId>
  clock,
  pc,         \* where each call or transaction stands
  seen,       \* the token and session columns a refresh call read at its start
  now,        \* the `now` a rotation took before its transaction
  todo,       \* rows a multi-row UPDATE selected and has not locked yet
  kind        \* what a revoker is

tokenVars == <<issued, generation, usedAt, replacedBy, revoked, reused>>
rowVars   == <<sessionRow, tokenRow>>
callVars  == <<seen, now>>
vars == <<status, tokenVars, rowVars, redisLock, clock, pc, callVars, todo, kind>>

SessionStatus == {"ACTIVE", "REVOKED", "EXPIRED", "COMPROMISED"}
RevokerKind   == {"logout", "expire", "password"}
Unread        == [token |-> 1, usedAt |-> NoTime, usable |-> FALSE]

RotationTx == {"insert", "consume", "commit"}
ReuseTx    == {"scanFamily", "lockFamily", "commitReuse"}
RevokeTx   == {"endSession", "scanTokens", "lockTokens"}
InTx       == RotationTx \cup ReuseTx \cup RevokeTx \cup {"touchSession"}

TypeOK ==
  /\ status \in SessionStatus
  /\ issued \subseteq Token
  /\ generation \in [Token -> Nat]
  /\ usedAt \in [Token -> Time \cup {NoTime}]
  /\ replacedBy \in [Token -> Token \cup {NoToken}]
  /\ revoked \subseteq Token
  /\ reused \subseteq Token
  /\ sessionRow \in Actor \cup {Free}
  /\ tokenRow \in [Token -> Actor \cup {Free}]
  /\ redisLock \in Request \cup {Free, Orphan}
  /\ clock \in Time
  /\ pc \in [Actor -> {"idle", "read", "locked", "release"} \cup InTx]
  /\ seen \in [Request -> [token : Token, usedAt : Time \cup {NoTime},
                           usable : BOOLEAN]]
  /\ now \in [Request -> Time]
  /\ todo \in [Actor -> SUBSET Token]
  /\ kind \in [Revoker -> RevokerKind]

\* The rows an actor holds, and the state after it gives them back.
Held(a) == {t \in Token : tokenRow[t] = a}

FreeRows(a) ==
  /\ sessionRow' = IF sessionRow = a THEN Free ELSE sessionRow
  /\ tokenRow' = [t \in Token |-> IF tokenRow[t] = a THEN Free ELSE tokenRow[t]]
  /\ todo' = [todo EXCEPT ![a] = {}]

Goto(a, label) == pc' = [pc EXCEPT ![a] = label]

\* The token rows that could still be exchanged for a successor.
Live == {t \in issued : usedAt[t] = NoTime /\ t \notin revoked}

Init ==
  /\ status = "ACTIVE"
  /\ issued = {1}
  /\ generation = [t \in Token |-> 0]
  /\ usedAt = [t \in Token |-> NoTime]
  /\ replacedBy = [t \in Token |-> NoToken]
  /\ revoked = {} /\ reused = {}
  /\ sessionRow = Free
  /\ tokenRow = [t \in Token |-> Free]
  /\ redisLock = Free
  /\ clock = 0
  /\ pc = [a \in Actor |-> "idle"]
  /\ seen = [p \in Request |-> Unread]
  /\ now = [p \in Request |-> 0]
  /\ todo = [a \in Actor |-> {}]
  /\ kind = [r \in Revoker |-> "logout"]

-----------------------------------------------------------------------------
(* POST /auth/refresh                                                      *)

\* The digest lookup, before any lock is taken: what it returns may be stale
\* by the time the call decides on it.
Present(p, t) ==
  /\ pc[p] = "idle"
  /\ t \in issued
  /\ seen' = [seen EXCEPT ![p] =
       [token |-> t, usedAt |-> usedAt[t],
        usable |-> t \notin revoked /\ status = "ACTIVE"]]
  /\ Goto(p, "read")
  /\ UNCHANGED <<status, tokenVars, rowVars, redisLock, clock, now, todo, kind>>

\* SET key uuid EX 5 NX.
AcquireLock(p) ==
  /\ pc[p] = "read"
  /\ redisLock = Free
  /\ redisLock' = p
  /\ Goto(p, "locked")
  /\ UNCHANGED <<status, tokenVars, rowVars, clock, callVars, todo, kind>>

\* 409 REFRESH_IN_PROGRESS.
LockBusy(p) ==
  /\ pc[p] = "read"
  /\ redisLock # Free
  /\ Goto(p, "idle")
  /\ seen' = [seen EXCEPT ![p] = Unread]
  /\ UNCHANGED <<status, tokenVars, rowVars, redisLock, clock, now, todo, kind>>

\* Mutant of WithinGrace: the grace period is left out.
NoGrace(p) == FALSE

WithinGrace(p) == clock <= seen[p].usedAt + Grace

\* 409 inside the grace period; 401 for an unusable or expired token.
Reject(p) ==
  /\ pc[p] = "locked"
  /\ IF seen[p].usedAt # NoTime
     THEN WithinGrace(p)
     ELSE ~seen[p].usable \/ SessionTtl <= clock
  /\ Goto(p, "release")
  /\ UNCHANGED <<status, tokenVars, rowVars, redisLock, clock, callVars, todo, kind>>

StartReuse(p) ==
  /\ pc[p] = "locked"
  /\ seen[p].usedAt # NoTime
  /\ ~WithinGrace(p)
  /\ Goto(p, "scanFamily")
  /\ UNCHANGED <<status, tokenVars, rowVars, redisLock, clock, callVars, todo, kind>>

StartRotation(p) ==
  /\ pc[p] = "locked"
  /\ seen[p].usedAt = NoTime
  /\ seen[p].usable
  /\ clock < SessionTtl
  /\ now' = [now EXCEPT ![p] = clock]
  /\ Goto(p, "touchSession")
  /\ UNCHANGED <<status, tokenVars, rowVars, redisLock, clock, seen, todo, kind>>

\* Rolling a request's transaction back leaves only the Redis lock to release.
Rollback(p) ==
  /\ FreeRows(p)
  /\ Goto(p, "release")
  /\ UNCHANGED <<status, tokenVars, redisLock, clock, callVars, kind>>

StillActive(p) == status = "ACTIVE" /\ now[p] < SessionTtl

\* Mutant of TouchSession: the session is only looked at, not updated.
LookAtSession(p) ==
  /\ pc[p] = "touchSession"
  /\ StillActive(p)
  /\ Goto(p, "insert")
  /\ UNCHANGED <<status, tokenVars, rowVars, redisLock, clock, callVars, todo, kind>>

\* UPDATE auth_session ... WHERE status = ACTIVE AND expiresAt > now.
TouchSession(p) ==
  /\ pc[p] = "touchSession"
  /\ sessionRow = Free
  /\ \/ /\ StillActive(p)
        /\ sessionRow' = p
        /\ Goto(p, "insert")
        /\ UNCHANGED <<status, tokenVars, tokenRow, redisLock, clock, callVars, todo, kind>>
     \/ ~StillActive(p) /\ Rollback(p)

\* Mutant of NextGeneration: a generation is skipped.
SkippedGeneration(p) == generation[seen[p].token] + 2

NextGeneration(p) == generation[seen[p].token] + 1

GenerationTaken(p) == \E t \in issued : generation[t] = NextGeneration(p)

\* The INSERT fails on the unique index, if there is one.
InsertReplacement(p) ==
  /\ pc[p] = "insert"
  /\ \/ /\ ~(GenerationUnique /\ GenerationTaken(p))
        /\ Goto(p, "consume")
        /\ UNCHANGED <<status, tokenVars, rowVars, redisLock, clock, callVars, todo, kind>>
     \/ GenerationUnique /\ GenerationTaken(p) /\ Rollback(p)

\* Mutant of Consumable: the conditional consume forgets usedAt.
ConsumableTwice(p) == seen[p].token \notin revoked /\ now[p] < SessionTtl

Consumable(p) ==
  /\ usedAt[seen[p].token] = NoTime
  /\ seen[p].token \notin revoked
  /\ now[p] < SessionTtl

\* UPDATE refresh_token ... WHERE usedAt IS NULL AND revokedAt IS NULL ...
ConsumeToken(p) ==
  /\ pc[p] = "consume"
  /\ tokenRow[seen[p].token] = Free
  /\ \/ /\ Consumable(p)
        /\ tokenRow' = [tokenRow EXCEPT ![seen[p].token] = p]
        /\ Goto(p, "commit")
        /\ UNCHANGED <<status, tokenVars, sessionRow, redisLock, clock, callVars, todo, kind>>
     \/ ~Consumable(p) /\ Rollback(p)

NewToken(t) == t \in Token \ issued /\ \A u \in Token \ issued : t <= u

CommitRotation(p) ==
  /\ pc[p] = "commit"
  /\ \E t \in Token :
       /\ NewToken(t)
       /\ issued' = issued \cup {t}
       /\ generation' = [generation EXCEPT ![t] = NextGeneration(p)]
       /\ replacedBy' = [replacedBy EXCEPT ![seen[p].token] = t]
  /\ usedAt' = [usedAt EXCEPT ![seen[p].token] = now[p]]
  /\ FreeRows(p)
  /\ Goto(p, "release")
  /\ UNCHANGED <<status, revoked, reused, redisLock, clock, callVars, kind>>

-----------------------------------------------------------------------------
(* revokeForReuse: the family's tokens first, the session last             *)

\* Start of UPDATE refresh_token ... WHERE sessionId: its snapshot.
ScanFamily(p) ==
  /\ pc[p] = "scanFamily"
  /\ todo' = [todo EXCEPT ![p] = issued]
  /\ Goto(p, "lockFamily")
  /\ UNCHANGED <<status, tokenVars, rowVars, redisLock, clock, callVars, kind>>

\* A multi-row UPDATE locks the rows of its snapshot one by one.
LockTokenRow(a, t) ==
  /\ pc[a] \in {"lockFamily", "lockTokens"}
  /\ t \in todo[a]
  /\ tokenRow[t] = Free
  /\ tokenRow' = [tokenRow EXCEPT ![t] = a]
  /\ todo' = [todo EXCEPT ![a] = @ \ {t}]
  /\ UNCHANGED <<status, tokenVars, sessionRow, redisLock, clock, pc, callVars, kind>>

MarkCompromised(p) ==
  /\ pc[p] = "lockFamily"
  /\ todo[p] = {}
  /\ sessionRow = Free
  /\ sessionRow' = p
  /\ Goto(p, "commitReuse")
  /\ UNCHANGED <<status, tokenVars, tokenRow, redisLock, clock, callVars, todo, kind>>

CommitReuse(p) ==
  /\ pc[p] = "commitReuse"
  /\ status' = "COMPROMISED"
  /\ revoked' = revoked \cup Held(p)
  /\ reused' = reused \cup {seen[p].token}
  /\ FreeRows(p)
  /\ Goto(p, "release")
  /\ UNCHANGED <<issued, generation, usedAt, replacedBy, redisLock, clock, callVars, kind>>

\* finally: DEL only while the lock still holds this call's value.
ReleaseLock(p) ==
  /\ pc[p] = "release"
  /\ redisLock' = IF redisLock = p THEN Free ELSE redisLock
  /\ Goto(p, "idle")
  /\ seen' = [seen EXCEPT ![p] = Unread]
  /\ now' = [now EXCEPT ![p] = 0]
  /\ UNCHANGED <<status, tokenVars, rowVars, clock, todo, kind>>

-----------------------------------------------------------------------------
(* Transactions that end the session by another route                      *)

\* logout, logout-all and revoke select the ACTIVE session in their
\* transaction; the expiry job selects it before its own; a password change
\* selects nothing.
FindSession(r, k) ==
  /\ pc[r] = "idle"
  /\ k = "logout" => status = "ACTIVE"
  /\ k = "expire" => status = "ACTIVE" /\ SessionTtl <= clock
  /\ kind' = [kind EXCEPT ![r] = k]
  /\ Goto(r, "endSession")
  /\ UNCHANGED <<status, tokenVars, rowVars, redisLock, clock, callVars, todo>>

Endable == status = "ACTIVE"

\* UPDATE auth_session ... WHERE id IN (...) AND status = ACTIVE.  The number
\* of rows it changed is not looked at.
EndSession(r) ==
  /\ pc[r] = "endSession"
  /\ \/ Endable /\ sessionRow = Free /\ sessionRow' = r
     \/ ~Endable /\ UNCHANGED sessionRow
  /\ Goto(r, "scanTokens")
  /\ UNCHANGED <<status, tokenVars, tokenRow, redisLock, clock, callVars, todo, kind>>

ScanTokens(r) ==
  /\ pc[r] = "scanTokens"
  /\ todo' = [todo EXCEPT ![r] = issued \ revoked]
  /\ Goto(r, "lockTokens")
  /\ UNCHANGED <<status, tokenVars, rowVars, redisLock, clock, callVars, kind>>

\* Mutant of EndStatus: the revocation reason ends up in the status column.
ReasonAsStatus(k) == IF k = "expire" THEN "EXPIRED" ELSE k

EndStatus(k) == IF k = "expire" THEN "EXPIRED" ELSE "REVOKED"

CommitRevocation(r) ==
  /\ pc[r] = "lockTokens"
  /\ todo[r] = {}
  /\ status' = IF sessionRow = r THEN EndStatus(kind[r]) ELSE status
  /\ revoked' = revoked \cup Held(r)
  /\ FreeRows(r)
  /\ Goto(r, "idle")
  /\ kind' = [kind EXCEPT ![r] = "logout"]
  /\ UNCHANGED <<issued, generation, usedAt, replacedBy, reused, redisLock, clock, callVars>>

-----------------------------------------------------------------------------
(* Failures and time                                                       *)

Abortable(a) == pc[a] \in InTx

\* A statement fails, PostgreSQL ends a deadlock, or Prisma's transaction
\* timeout strikes: everything the transaction did is rolled back.
FailTx(a) ==
  /\ Abortable(a)
  /\ FreeRows(a)
  /\ Goto(a, IF a \in Request THEN "release" ELSE "idle")
  /\ kind' = IF a \in Revoker THEN [kind EXCEPT ![a] = "logout"] ELSE kind
  /\ UNCHANGED <<status, tokenVars, redisLock, clock, callVars>>

\* The replica dies, or cannot reach Redis to release: the database rolls back
\* what is uncommitted, the Redis lock stays until its TTL.
Crash(p) ==
  /\ pc[p] # "idle"
  /\ FreeRows(p)
  /\ redisLock' = IF redisLock = p THEN Orphan ELSE redisLock
  /\ Goto(p, "idle")
  /\ seen' = [seen EXCEPT ![p] = Unread]
  /\ now' = [now EXCEPT ![p] = 0]
  /\ UNCHANGED <<status, tokenVars, clock, kind>>

\* Mutant of LockExpires: SET without EX.
LockNeverExpires == redisLock \in Request /\ redisLock' = Free

\* EX 5.  Nothing bounds a request by the TTL, so it may expire under its owner.
LockExpires == redisLock # Free /\ redisLock' = Free

LockTtl ==
  /\ LockExpires
  /\ UNCHANGED <<status, tokenVars, rowVars, clock, pc, callVars, todo, kind>>

Tick ==
  /\ clock < MaxClock
  /\ clock' = clock + 1
  /\ UNCHANGED <<status, tokenVars, rowVars, redisLock, pc, callVars, todo, kind>>

RequestStep(p) ==
  \/ AcquireLock(p) \/ LockBusy(p)
  \/ Reject(p) \/ StartReuse(p) \/ StartRotation(p)
  \/ TouchSession(p) \/ InsertReplacement(p) \/ ConsumeToken(p) \/ CommitRotation(p)
  \/ ScanFamily(p) \/ MarkCompromised(p) \/ CommitReuse(p)
  \/ \E t \in Token : LockTokenRow(p, t)
  \/ ReleaseLock(p)

RevokerStep(r) ==
  \/ EndSession(r) \/ ScanTokens(r) \/ CommitRevocation(r)
  \/ \E t \in Token : LockTokenRow(r, t)

Next ==
  \/ \E p \in Request : \/ \E t \in Token : Present(p, t)
                        \/ RequestStep(p)
                        \/ Crash(p)
  \/ \E r \in Revoker : \/ \E k \in RevokerKind : FindSession(r, k)
                        \/ RevokerStep(r)
  \/ \E a \in Actor : FailTx(a)
  \/ LockTtl
  \/ Tick

Spec == Init /\ [][Next]_vars

\* Calls that have begun go on or, as a transaction that cannot is timed out, fail, and
\* Redis expires keys.  New calls, crashes and time are under no obligation.
Fairness ==
  /\ \A p \in Request : WF_vars(RequestStep(p) \/ FailTx(p))
  /\ \A r \in Revoker : WF_vars(RevokerStep(r) \/ FailTx(r))
  /\ WF_vars(LockTtl)

FairSpec == Spec /\ Fairness

-----------------------------------------------------------------------------
(* Properties                                                              *)

\* However refresh calls, revocations, crashes and an expired Redis lock
\* interleave, at most one token of the family can still be exchanged: the
\* race of several presenters of one token has one winner.
SingleLiveToken ==
  \A t, u \in Live : t = u

\* Generations never repeat, with or without the unique index: rotation reads
\* the generation long before it writes the next one.
GenerationsDistinct ==
  \A t, u \in issued : generation[t] = generation[u] => t = u

\* Across rollbacks and crashes the consumed token, its link and its successor
\* stand or fall together, and the link leads to the next generation.
ReplacementChain ==
  \A t \in issued :
    usedAt[t] # NoTime =>
      /\ replacedBy[t] \in issued
      /\ generation[replacedBy[t]] = generation[t] + 1

\* A session ended by logout, password change or expiry leaves no exchangeable
\* token behind, even when a rotation was in flight while it ended.
EndedSessionIsBarren ==
  status \in {"REVOKED", "EXPIRED"} => Live = {}

\* No token is issued once the session is no longer ACTIVE, although refresh
\* read the session's status long before.
NoIssueAfterEnd ==
  [][issued' # issued => status = "ACTIVE"]_vars

\* An ended session never revives, and a COMPROMISED one keeps that mark: a
\* revocation that found the session ACTIVE does not overwrite it later.
EndIsFinal ==
  [][status # "ACTIVE" => status' \in {status, "COMPROMISED"}]_vars

\* Whatever races, at most one token of the family can be exchanged, and none once the
\* session is revoked or expired.
OneLiveToken == SingleLiveToken /\ EndedSessionIsBarren

\* The family is a chain: no generation twice, each consumed token linked to the next.
FamilyIsChain == GenerationsDistinct /\ ReplacementChain

\* The end of a session holds: nothing is issued after it and it is not undone, although
\* refresh and revocation decided on a status they read before.
EndHolds == NoIssueAfterEnd /\ EndIsFinal

\* A session is compromised only by a replay that outlived the grace period; a
\* client that repeats itself in time does not lose its session.
OnlyLateReplayCompromises ==
  [][status' = "COMPROMISED" /\ status # "COMPROMISED" =>
       \E t \in issued : usedAt[t] # NoTime /\ usedAt[t] + Grace < clock]_vars

\* A call that dies with the Redis lock does not block the session's refresh
\* for good.
LockRecovers == []<>(redisLock = Free)

\* The service seen from outside, where only an ACTIVE session exchanges
\* tokens, behaves as the family of SessionFamily.
Spendable == IF status = "ACTIVE" THEN {generation[t] : t \in Live} ELSE {}
Family == INSTANCE SessionFamily WITH spendable <- Spendable
ImplementsFamily == Family!FamilySpec

\* docs/authentication-and-sessions.md:71-73: late reuse marks the session
\* COMPROMISED and "revokes all family refresh tokens".
CompromisedFamilyIsRevoked ==
  status = "COMPROMISED" => Live = {}
=============================================================================
