------------------------- MODULE CredentialLifecycle -------------------------
(***************************************************************************)
(* One user's password credential and what hangs on it: login with its     *)
(* failure lock and transparent rehash (AuthenticationService.login),      *)
(* recovery requests, password reset and password change (PasswordService) *)
(* and the sessions these create and revoke.  A session upgrade runs along *)
(* as the other transaction that creates sessions.                         *)
(*                                                                         *)
(* Statements run under READ COMMITTED as in RefreshRotation: an UPDATE    *)
(* fixes its rows when it starts, waits for their locks one by one, and    *)
(* shows its effect at the commit.  An inserted row is seen by nobody      *)
(* before its commit, and is given its place there.  The upgrade is        *)
(* SERIALIZABLE, which binds it to other such transactions only: a row it  *)
(* meets changed fails it.  The account is ACTIVE with a verified email    *)
(* throughout; passkey login, which issues sessions without a password,    *)
(* and recovery codes, which open a recovery request, are left out.        *)
(***************************************************************************)
EXTENDS Naturals, FiniteSets

CONSTANTS
  Call,       \* slots for login and password calls in flight
  Upgrader,   \* slots for session upgrades in flight
  Password,
  Initial,    \* the password the account was registered with
  Reset,      \* PasswordResetRequest rows
  Session,    \* AuthSession rows of the user
  Free, NoTime, NoReset,
  Threshold,  \* LOGIN_LOCK_THRESHOLD
  LockTicks,  \* LOGIN_LOCK_SECONDS, in ticks
  MaxHash,    \* bound: credential hashes written
  MaxFailed,  \* bound: failures counted
  MaxClock    \* bound: the last tick

Actor == Call \cup Upgrader

ASSUME SlotAssumption ==
  /\ IsFiniteSet(Call)
  /\ Call \cap Upgrader = {}
  /\ Free \notin Actor
  /\ NoReset \notin Reset
  /\ Initial \in Password
ASSUME LimitAssumption ==
  /\ Threshold \in Nat \ {0, 1}   \* the configuration demands more
  /\ LockTicks \in Nat \ {0}
  /\ MaxHash \in Nat /\ MaxFailed \in Nat /\ MaxClock \in Nat
  /\ NoTime \notin Nat

VARIABLES
  hash,        \* passwordHash: what it encodes, which write it is, its profile
  failed,      \* failedLoginCount
  lockedUntil,
  resets,      \* the state of every recovery request
  expired,     \* recovery requests past expiresAt
  sessions,    \* "none", an active level, or "revoked"
  credRow, resetRow, sessionRow, \* row-lock holders
  clock,
  pc, seen, guess, target, todo, \* locals of a call
  epoch,       \* history: password changes so far
  since        \* history: the epoch in which a login inserted its session

credVars  == <<hash, failed, lockedUntil>>
resetVars == <<resets, expired>>
rowVars   == <<credRow, resetRow, sessionRow>>
localVars == <<seen, guess, target, todo, since>>
vars == <<credVars, resetVars, sessions, rowVars, clock, pc, localVars, epoch>>

Level   == {"limited", "full"}
Hash    == [password : Password, write : 0..MaxHash, legacy : BOOLEAN]
Time    == 0..(MaxClock + LockTicks)
Seen    == [hash : Hash, failed : 0..MaxFailed, lockedUntil : Time \cup {NoTime}]
Unread  == [hash |-> [password |-> Initial, write |-> 0, legacy |-> FALSE],
            failed |-> 0, lockedUntil |-> NoTime]
Sweep   == {"scanResets", "lockResets", "lockSessions"}
Waiting == {"failure", "inserted", "consume", "credential", "cas", "lockOutstanding"}
InTx    == Sweep \cup Waiting \cup {"upgrade"}

TypeOK ==
  /\ hash \in Hash
  /\ failed \in 0..MaxFailed
  /\ lockedUntil \in Time \cup {NoTime}
  /\ resets \in [Reset -> {"none", "open", "used", "revoked"}]
  /\ expired \subseteq Reset
  /\ sessions \in [Session -> {"none", "revoked"} \cup Level]
  /\ credRow \in Call \cup {Free}
  /\ resetRow \in [Reset -> Call \cup {Free}]
  /\ sessionRow \in [Session -> Actor \cup {Free}]
  /\ clock \in 0..MaxClock
  /\ pc \in [Actor -> {"idle", "verify", "issue", "admitted"} \cup InTx]
  /\ seen \in [Call -> Seen]
  /\ guess \in [Call -> Password]
  /\ target \in [Call -> Reset \cup {NoReset}]
  /\ todo \in [Call -> SUBSET (Reset \cup Session)]
  /\ epoch \in 0..MaxHash
  /\ since \in [Call -> 0..MaxHash]

Init ==
  /\ hash \in {[password |-> Initial, write |-> 0, legacy |-> l] : l \in BOOLEAN}
  /\ failed = 0
  /\ lockedUntil = NoTime
  /\ resets = [r \in Reset |-> "none"]
  /\ expired = {}
  /\ sessions = [s \in Session |-> "none"]
  /\ credRow = Free
  /\ resetRow = [r \in Reset |-> Free]
  /\ sessionRow = [s \in Session |-> Free]
  /\ clock = 0
  /\ pc = [a \in Actor |-> "idle"]
  /\ seen = [c \in Call |-> Unread]
  /\ guess = [c \in Call |-> Initial]
  /\ target = [c \in Call |-> NoReset]
  /\ todo = [c \in Call |-> {}]
  /\ epoch = 0
  /\ since = [c \in Call |-> 0]

Goto(a, label) == pc' = [pc EXCEPT ![a] = label]

\* The credential columns a call reads before it starts its transaction.
ReadCredential(c) ==
  seen' = [seen EXCEPT ![c] =
             [hash |-> hash, failed |-> failed, lockedUntil |-> lockedUntil]]

Open(r)   == resets[r] = "open"
Active(s) == sessions[s] \in Level

HeldResets(c)   == {r \in Reset : resetRow[r] = c}
HeldSessions(a) == {s \in Session : sessionRow[s] = a}

FreeRows(a) ==
  /\ credRow' = IF credRow = a THEN Free ELSE credRow
  /\ resetRow' = [r \in Reset |-> IF resetRow[r] = a THEN Free ELSE resetRow[r]]
  /\ sessionRow' = [s \in Session |-> IF sessionRow[s] = a THEN Free ELSE sessionRow[s]]

\* The end of a call: its rows are given back, its locals mean nothing more.
Finish(a) ==
  /\ FreeRows(a)
  /\ Goto(a, "idle")
  /\ target' = [c \in Call |-> IF c = a THEN NoReset ELSE target[c]]
  /\ todo' = [c \in Call |-> IF c = a THEN {} ELSE todo[c]]
  /\ seen' = [c \in Call |-> IF c = a THEN Unread ELSE seen[c]]
  /\ guess' = [c \in Call |-> IF c = a THEN Initial ELSE guess[c]]
  /\ since' = [c \in Call |-> IF c = a THEN 0 ELSE since[c]]

-----------------------------------------------------------------------------
(* POST /auth/login                                                        *)

\* The user and its credential are read; argon2.verify then takes its time.
LoginRead(c, pw) ==
  /\ pc[c] = "idle"
  /\ ReadCredential(c)
  /\ guess' = [guess EXCEPT ![c] = pw]
  /\ Goto(c, "verify")
  /\ UNCHANGED <<credVars, resetVars, sessions, rowVars, clock, target, todo, since, epoch>>

Locked(c) == seen[c].lockedUntil # NoTime /\ seen[c].lockedUntil > clock

\* The decision rests on the row that was read and on the time it is now.
Decide(c) ==
  /\ pc[c] = "verify"
  /\ Goto(c, IF guess[c] = seen[c].hash.password /\ ~Locked(c) THEN "issue" ELSE "failure")
  /\ UNCHANGED <<credVars, resetVars, sessions, rowVars, clock, localVars, epoch>>

\* Mutant of ReachesThreshold: the lock comes one failure late.
PastThreshold(count) == count > Threshold

ReachesThreshold(count) == count >= Threshold

\* Mutant of LockEnd: seconds taken for milliseconds.
ScaledLockEnd == clock + 1000 * LockTicks

LockEnd == clock + LockTicks

\* The count in the row goes up by one, but the lock follows from the count read.
RecordFailedCredential(c) ==
  /\ pc[c] = "failure"
  /\ credRow = Free
  /\ failed < MaxFailed
  /\ failed' = failed + 1
  /\ lockedUntil' = IF ReachesThreshold(seen[c].failed + 1) THEN LockEnd ELSE lockedUntil
  /\ Finish(c)
  /\ UNCHANGED <<hash, resetVars, sessions, clock, epoch>>

\* The transaction inserts the session and its refresh token, which waits for
\* nobody.  (A hash to replace an older profile has been computed before.)
InsertSession(c) ==
  /\ pc[c] = "issue"
  /\ since' = [since EXCEPT ![c] = epoch]
  /\ Goto(c, "inserted")
  /\ UNCHANGED <<credVars, resetVars, sessions, rowVars, clock, seen, guess, target, todo,
     epoch>>

\* Mutant of CredentialFree: login leaves a clean credential row alone.
UnlessClean == credRow = Free \/ failed = 0

\* The UPDATE of the credential has to wait for the row.
CredentialFree == credRow = Free

\* It clears the counters, and replaces a hash of an older profile by one of
\* the password that was verified.  The commit shows the session.
CommitSession(c, s, level) ==
  /\ pc[c] = "inserted"
  /\ CredentialFree
  /\ sessions[s] = "none"
  /\ hash.write < MaxHash
  /\ sessions' = [sessions EXCEPT ![s] = level]
  /\ hash' = IF seen[c].hash.legacy
               THEN [password |-> guess[c], write |-> hash.write + 1, legacy |-> FALSE]
               ELSE hash
  /\ failed' = 0
  /\ lockedUntil' = NoTime
  /\ Finish(c)
  /\ UNCHANGED <<resetVars, clock, epoch>>

-----------------------------------------------------------------------------
(* POST /auth/password/forgot                                              *)

\* The UPDATE that revokes outstanding requests selects its rows.
ForgotScan(c) ==
  /\ pc[c] = "idle"
  /\ todo' = [todo EXCEPT ![c] = {r \in Reset : Open(r) /\ r \notin expired}]
  /\ Goto(c, "lockOutstanding")
  /\ UNCHANGED <<credVars, resetVars, sessions, rowVars, clock, seen, guess, target, since,
     epoch>>

\* A selected row is locked if it is still open once it comes free.
LockReset(c, r) ==
  /\ pc[c] \in {"lockOutstanding", "lockResets"}
  /\ r \in todo[c]
  /\ resetRow[r] = Free
  /\ resetRow' = IF Open(r) THEN [resetRow EXCEPT ![r] = c] ELSE resetRow
  /\ todo' = [todo EXCEPT ![c] = @ \ {r}]
  /\ UNCHANGED <<credVars, resetVars, sessions, credRow, sessionRow, clock, pc, seen, guess,
     target, since, epoch>>

ForgotCommit(c, new) ==
  /\ pc[c] = "lockOutstanding"
  /\ todo[c] = {}
  /\ resets[new] = "none"
  /\ resets' = [r \in Reset |-> IF r = new THEN "open"
                                ELSE IF r \in HeldResets(c) THEN "revoked" ELSE resets[r]]
  /\ Finish(c)
  /\ UNCHANGED <<credVars, expired, sessions, clock, epoch>>

-----------------------------------------------------------------------------
(* POST /auth/password/reset                                               *)

\* The request is looked up and judged, then the new password is hashed.
ResetRead(c, r, pw) ==
  /\ pc[c] = "idle"
  /\ Open(r) /\ r \notin expired
  /\ target' = [target EXCEPT ![c] = r]
  /\ guess' = [guess EXCEPT ![c] = pw]
  /\ Goto(c, "consume")
  /\ UNCHANGED <<credVars, resetVars, sessions, rowVars, clock, seen, todo, since, epoch>>

\* `now` was taken before the hashing, so expiry is not asked again.
Consumable(r) == Open(r)

\* updateMany with usedAt and revokedAt null: the one caller it counts goes on.
ResetConsume(c) ==
  /\ pc[c] = "consume"
  /\ resetRow[target[c]] = Free
  /\ Consumable(target[c])
  /\ resetRow' = [resetRow EXCEPT ![target[c]] = c]
  /\ Goto(c, "credential")
  /\ UNCHANGED <<credVars, resetVars, sessions, credRow, sessionRow, clock, localVars, epoch>>

ResetRefused(c) ==
  /\ pc[c] = "consume"
  /\ ~Consumable(target[c])
  /\ Finish(c)
  /\ UNCHANGED <<credVars, resetVars, sessions, clock, epoch>>

ResetCredential(c) ==
  /\ pc[c] = "credential"
  /\ credRow = Free
  /\ credRow' = c
  /\ Goto(c, "scanResets")
  /\ UNCHANGED <<credVars, resetVars, sessions, resetRow, sessionRow, clock, localVars, epoch>>

-----------------------------------------------------------------------------
(* POST /auth/password/change                                              *)

\* AccessAuthGuard lets the holder of an active session in.
ChangeAdmit(c, s) ==
  /\ pc[c] = "idle"
  /\ Active(s)
  /\ Goto(c, "admitted")
  /\ UNCHANGED <<credVars, resetVars, sessions, rowVars, clock, localVars, epoch>>

\* The current password verifies against the hash read here, the new one does
\* not; every other outcome refuses the call.
ChangeRead(c, pw) ==
  /\ pc[c] = "admitted"
  /\ pw # hash.password
  /\ ReadCredential(c)
  /\ guess' = [guess EXCEPT ![c] = pw]
  /\ Goto(c, "cas")
  /\ UNCHANGED <<credVars, resetVars, sessions, rowVars, clock, target, todo, since, epoch>>

\* Mutant of SameHash: the credential is updated by user alone.
AnyHash(c) == TRUE

SameHash(c) == hash = seen[c].hash

ChangeCas(c) ==
  /\ pc[c] = "cas"
  /\ credRow = Free
  /\ SameHash(c)
  /\ credRow' = c
  /\ Goto(c, "scanResets")
  /\ UNCHANGED <<credVars, resetVars, sessions, resetRow, sessionRow, clock, localVars, epoch>>

\* 409 PASSWORD_CHANGE_CONFLICT.
ChangeConflict(c) ==
  /\ pc[c] = "cas"
  /\ ~SameHash(c)
  /\ Finish(c)
  /\ UNCHANGED <<credVars, resetVars, sessions, clock, epoch>>

-----------------------------------------------------------------------------
(* The tail reset and change share, with the credential row held           *)

\* Expired requests are revoked too; a reset leaves its own out.
ScanResets(c) ==
  /\ pc[c] = "scanResets"
  /\ todo' = [todo EXCEPT ![c] = {r \in Reset : Open(r) /\ r # target[c]}]
  /\ Goto(c, "lockResets")
  /\ UNCHANGED <<credVars, resetVars, sessions, rowVars, clock, seen, guess, target, since,
     epoch>>

\* Its requests done, the call's next UPDATE selects the sessions.
ScanSessions(c) ==
  /\ pc[c] = "lockResets"
  /\ todo[c] = {}
  /\ todo' = [todo EXCEPT ![c] = {s \in Session : Active(s)}]
  /\ Goto(c, "lockSessions")
  /\ UNCHANGED <<credVars, resetVars, sessions, rowVars, clock, seen, guess, target, since,
     epoch>>

LockSession(c, s) ==
  /\ pc[c] = "lockSessions"
  /\ s \in todo[c]
  /\ sessionRow[s] = Free
  /\ sessionRow' = IF Active(s) THEN [sessionRow EXCEPT ![s] = c] ELSE sessionRow
  /\ todo' = [todo EXCEPT ![c] = @ \ {s}]
  /\ UNCHANGED <<credVars, resetVars, sessions, credRow, resetRow, clock, pc, seen, guess,
     target, since, epoch>>

PasswordCommit(c) ==
  /\ pc[c] = "lockSessions"
  /\ todo[c] = {}
  /\ hash.write < MaxHash /\ epoch < MaxHash
  /\ hash' = [password |-> guess[c], write |-> hash.write + 1, legacy |-> FALSE]
  /\ epoch' = epoch + 1
  /\ failed' = 0
  /\ lockedUntil' = NoTime
  /\ resets' = [r \in Reset |-> IF r = target[c] THEN "used"
                                ELSE IF r \in HeldResets(c) THEN "revoked" ELSE resets[r]]
  /\ sessions' = [s \in Session |-> IF s \in HeldSessions(c) THEN "revoked" ELSE sessions[s]]
  /\ Finish(c)
  /\ UNCHANGED <<expired, clock>>

-----------------------------------------------------------------------------
(* POST /auth/session/upgrade, as far as it creates and revokes sessions   *)

UpgradeRevoke(u, s) ==
  /\ pc[u] = "idle"
  /\ sessions[s] = "limited"
  /\ sessionRow[s] = Free
  /\ sessionRow' = [sessionRow EXCEPT ![s] = u]
  /\ Goto(u, "upgrade")
  /\ UNCHANGED <<credVars, resetVars, sessions, credRow, resetRow, clock, localVars, epoch>>

\* The full session carries on what the limited one was issued for.
UpgradeCommit(u, old, new) ==
  /\ pc[u] = "upgrade"
  /\ sessionRow[old] = u
  /\ sessions[new] = "none"
  /\ sessions' = [sessions EXCEPT ![old] = "revoked", ![new] = "full"]
  /\ Finish(u)
  /\ UNCHANGED <<credVars, resetVars, clock, epoch>>

-----------------------------------------------------------------------------
(* Failures and time                                                       *)

\* A crash, a failed hash or statement, a deadlock PostgreSQL ends, a
\* serialization failure, or Prisma's transaction timeout, wherever the call
\* stands: nothing uncommitted remains.
Abandon(a) ==
  /\ pc[a] # "idle"
  /\ Finish(a)
  /\ UNCHANGED <<credVars, resetVars, sessions, clock, epoch>>

ExpireReset(r) ==
  /\ Open(r) /\ r \notin expired
  /\ expired' = expired \cup {r}
  /\ UNCHANGED <<credVars, resets, sessions, rowVars, clock, pc, localVars, epoch>>

Tick ==
  /\ clock < MaxClock
  /\ clock' = clock + 1
  /\ UNCHANGED <<credVars, resetVars, sessions, rowVars, pc, localVars, epoch>>

Begin(c) ==
  \/ \E pw \in Password : LoginRead(c, pw)
  \/ ForgotScan(c)
  \/ \E r \in Reset, pw \in Password : ResetRead(c, r, pw)
  \/ \E s \in Session : ChangeAdmit(c, s)

CallStep(c) ==
  \/ Decide(c) \/ RecordFailedCredential(c)
  \/ InsertSession(c)
  \/ \E s \in Session, level \in Level : CommitSession(c, s, level)
  \/ \E r \in Reset : LockReset(c, r) \/ ForgotCommit(c, r)
  \/ ResetConsume(c) \/ ResetRefused(c) \/ ResetCredential(c)
  \/ \E pw \in Password : ChangeRead(c, pw)
  \/ ChangeCas(c) \/ ChangeConflict(c)
  \/ ScanResets(c) \/ ScanSessions(c)
  \/ \E s \in Session : LockSession(c, s)
  \/ PasswordCommit(c)

UpgradeStep(u) ==
  \E old, new \in Session : UpgradeCommit(u, old, new)

Next ==
  \/ \E c \in Call : Begin(c) \/ CallStep(c)
  \/ \E u \in Upgrader : \/ \E s \in Session : UpgradeRevoke(u, s)
                         \/ UpgradeStep(u)
  \/ \E a \in Actor : Abandon(a)
  \/ \E r \in Reset : ExpireReset(r)
  \/ Tick

Spec == Init /\ [][Next]_vars

\* Mutant of TimesOut: nothing ends a transaction that waits for ever.
NeverTimesOut(a) == pc[a] = "admitted"

\* A transaction that waits is ended; a change the guard admitted is refused.
TimesOut(a) == pc[a] \in InTx \cup {"admitted"}

\* A call that has begun goes on, and one that cannot is timed out in its
\* transaction.  New calls, expiry and time are under no obligation.
Fairness ==
  /\ \A c \in Call : WF_vars(CallStep(c))
  /\ \A u \in Upgrader : WF_vars(UpgradeStep(u))
  /\ \A a \in Actor : WF_vars(TimesOut(a) /\ Abandon(a))

FairSpec == Spec /\ Fairness

-----------------------------------------------------------------------------
(* Properties                                                              *)

\* recordFailedCredential judges by the count login read before argon2 ran, so
\* concurrent guesses overshoot LOGIN_LOCK_THRESHOLD: before the lock first
\* falls, by no more than one failure for every other login in flight.
LockoutBound ==
  lockedUntil = NoTime => failed <= Threshold - 2 + Cardinality(Call)

\* A password change writes over the very hash its caller's current password
\* was verified against, although a reset, a rehash or another change may run
\* between that read and the commit.
ChangeIsCompareAndSet ==
  [][\A c \in Call :
       /\ pc[c] = "lockSessions" /\ pc'[c] = "idle"
       /\ target[c] = NoReset /\ epoch' # epoch
       => hash = seen[c].hash]_vars

\* A recovery request that was used or revoked stays what it is: of the resets
\* and requests that race for it, one decides.
RequestsEndOnce ==
  [][\A r \in Reset : resets[r] \in {"used", "revoked"} => resets'[r] = resets[r]]_vars

\* What a change and a recovery request decided stands against whatever raced with it.
ChangesStand == ChangeIsCompareAndSet /\ RequestsEndOnce

\* When a password change takes effect, no session that anybody could use
\* before is left: a password login waits for the credential row and so cannot
\* show one behind the UPDATE of revokeSessions.  (What it shows after the change is
\* SessionsEndWithPassword's question.)  A session upgrade can, since it takes
\* no notice of that row, but only the full session it creates escapes.
ChangeEndsSessions ==
  [][epoch' # epoch =>
       \A s \in Session : /\ sessions'[s] # "limited"
                          /\ Upgrader = {} => ~Active(s)']_vars

\* Every login and password call comes to an end, although two resets lock
\* their own request first and each other's next.
CallsEnd == \A a \in Actor : []<>(pc[a] = "idle")

\* docs/password-lifecycle.md:42: reset "replaces the credential", and no step
\* but a reset or a change makes another password the valid one.
OnlyChangesChangePassword ==
  [][hash'.password # hash.password => epoch' # epoch]_vars

\* docs/password-lifecycle.md:45 and :63: a reset or change "revokes all active
\* sessions".  No session row that was inserted before becomes active after it.
SessionsEndWithPassword ==
  [][\A c \in Call : pc[c] = "inserted" /\ pc'[c] = "idle" /\ sessions' # sessions
                      => since[c] = epoch]_vars
=============================================================================
