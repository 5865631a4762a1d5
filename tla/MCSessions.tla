------------------------------ MODULE MCSessions ------------------------------
(***************************************************************************)
(* Small instances for TLC of what issues, renews and ends sessions: the   *)
(* rotation of one session's refresh tokens, and a user's logins and       *)
(* password changes beside a session upgrade.  A behaviour is of one of    *)
(* the two, chosen in SessionsInit; the variables of the other keep their  *)
(* values.  Request names the slots for refresh calls and for those of     *)
(* CredentialLifecycle alike.                                              *)
(***************************************************************************)
EXTENDS RefreshRotation, TLC

CONSTANTS Upgrader, Password, Initial, Reset, Session, NoReset \* CredentialLifecycle

VARIABLES
  scenario,
  hash, failed, lockedUntil, resets, expired, sessions, credRow, resetRow, userSessionRow,
  userClock, callPc, callSeen, guess, target, callTodo, epoch, since

credentialVars ==
  <<hash, failed, lockedUntil, resets, expired, sessions, credRow, resetRow, userSessionRow,
    userClock, callPc, callSeen, guess, target, callTodo, epoch, since>>

\* Three failures can be counted where LockoutBound allows two.
K == INSTANCE CredentialLifecycle WITH
       Call <- Request, Threshold <- 2, LockTicks <- 1, MaxHash <- 2, MaxFailed <- 3, MaxClock <- 1,
       sessionRow <- userSessionRow, clock <- userClock, pc <- callPc, seen <- callSeen,
       todo <- callTodo

SessionsInit ==
  /\ scenario \in {"rotation", "credential"}
  /\ Init
  /\ K!Init
  /\ scenario = "rotation" => ~hash.legacy

InRotation   == scenario = "rotation" /\ UNCHANGED <<scenario, credentialVars>>
InCredential == scenario = "credential" /\ UNCHANGED <<scenario, vars>>

SessionsNext ==
  \/ InRotation /\ \E p \in Request, t \in Token : Present(p, t)
  \/ InRotation /\ \E p \in Request : RequestStep(p)
  \/ InRotation /\ \E p \in Request : Crash(p)
  \/ InRotation /\ \E r \in Revoker, k \in RevokerKind : FindSession(r, k)
  \/ InRotation /\ \E r \in Revoker : RevokerStep(r)
  \/ InRotation /\ \E a \in Actor : FailTx(a)
  \/ InRotation /\ LockTtl
  \/ InRotation /\ Tick
  \/ InCredential /\ \E c \in Request : K!Begin(c)
  \/ InCredential /\ \E c \in Request : K!CallStep(c)
  \/ InCredential /\ \E u \in Upgrader, s \in Session : K!UpgradeRevoke(u, s)
  \/ InCredential /\ \E u \in Upgrader : K!UpgradeStep(u)
  \/ InCredential /\ \E a \in K!Actor : K!Abandon(a)
  \/ InCredential /\ K!Tick

SessionsSpec == SessionsInit /\ [][SessionsNext]_<<scenario, vars, credentialVars>>

\* Calls and session rows are interchangeable: the run is one of safety only.
Interchangeable == Permutations(Request) \cup Permutations(Session)

-------------------------------------------------------------------------------
(* Properties                                                              *)

\* recordFailedCredential judges by the count login read before argon2 ran, so that
\* concurrent guesses overshoot LOGIN_LOCK_THRESHOLD: before the lock first falls, by no
\* more than one failure for every other login in flight.
LockoutBound == K!LockoutBound

\* Though an upgrade and another login run beside it, a password change writes over the hash
\* its caller's password was verified against, which the login may rehash, and leaves no
\* limited session: only the full session an upgrade creates can escape.
ChangesHold == K!ChangeIsCompareAndSet /\ K!ChangeEndsSessions
===============================================================================
