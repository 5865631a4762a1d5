---------------------- MODULE CredentialLifecycleProofs ----------------------
(***************************************************************************)
(* Theorems about CredentialLifecycle for every number of calls, recovery  *)
(* requests and sessions, and every threshold, lock time and bound.        *)
(***************************************************************************)
EXTENDS CredentialLifecycle, FiniteSetTheorems, TLAPS

USE SlotAssumption, LimitAssumption DEF SlotAssumption, LimitAssumption, Actor

LEMMA TypeInit == Init => TypeOK
  BY DEF Init, TypeOK, Hash, Unread, Seen, Time, Level

\* Whoever finishes, rows and locals keep their types.
LEMMA FinishTyped ==
  ASSUME TypeOK, NEW a \in Actor, Finish(a)
  PROVE  /\ (credRow \in Call \cup {Free})'
         /\ (resetRow \in [Reset -> Call \cup {Free}])'
         /\ (sessionRow \in [Session -> Actor \cup {Free}])'
         /\ (pc \in [Actor -> {"idle", "verify", "issue", "admitted"} \cup InTx])'
         /\ (seen \in [Call -> Seen])'
         /\ (guess \in [Call -> Password])'
         /\ (target \in [Call -> Reset \cup {NoReset}])'
         /\ (todo \in [Call -> SUBSET (Reset \cup Session)])'
         /\ (since \in [Call -> 0..MaxHash])'
<1>1. Unread \in Seen
  BY DEF Unread, Seen, Hash, Time
<1> QED
  BY <1>1 DEF TypeOK, Finish, FreeRows, Goto

LEMMA ReadTyped ==
  ASSUME TypeOK, NEW c \in Call, ReadCredential(c)
  PROVE  (seen \in [Call -> Seen])'
<1>1. [hash |-> hash, failed |-> failed, lockedUntil |-> lockedUntil] \in Seen
  BY DEF TypeOK, Seen
<1> QED
  BY <1>1 DEF TypeOK, ReadCredential

LEMMA TypeStep == TypeOK /\ [Next]_vars => TypeOK'
<1> SUFFICES ASSUME TypeOK, [Next]_vars PROVE TypeOK'
  OBVIOUS
<1> USE DEF credVars, resetVars, rowVars, localVars, InTx, Waiting, Sweep, Goto
<1>1. ASSUME NEW c \in Call, NEW pw \in Password, LoginRead(c, pw) PROVE TypeOK'
  BY <1>1, ReadTyped DEF LoginRead, TypeOK
<1>2. ASSUME NEW c \in Call, Decide(c) PROVE TypeOK'
  BY <1>2 DEF Decide, TypeOK
<1>3. ASSUME NEW c \in Call, RecordFailedCredential(c) PROVE TypeOK'
  <2>1. /\ (failed \in 0..MaxFailed)'
        /\ (lockedUntil \in Time \cup {NoTime})'
    BY <1>3 DEF RecordFailedCredential, LockEnd, Time, TypeOK
  <2> QED
    BY <1>3, <2>1, FinishTyped DEF RecordFailedCredential, TypeOK
<1>4. ASSUME NEW c \in Call, NEW s \in Session, NEW level \in Level, CommitSession(c, s, level)
      PROVE TypeOK'
  <2>1. /\ (hash \in Hash)'
        /\ (sessions \in [Session -> {"none", "revoked"} \cup Level])'
    BY <1>4 DEF CommitSession, Hash, Seen, TypeOK
  <2> QED
    BY <1>4, <2>1, FinishTyped DEF CommitSession, TypeOK
<1>5. ASSUME NEW c \in Call, ForgotScan(c) PROVE TypeOK'
  BY <1>5 DEF ForgotScan, TypeOK
<1>6. ASSUME NEW c \in Call, NEW r \in Reset, LockReset(c, r) PROVE TypeOK'
  BY <1>6 DEF LockReset, TypeOK
<1>7. ASSUME NEW c \in Call, NEW r \in Reset, ForgotCommit(c, r) PROVE TypeOK'
  <2>1. (resets \in [Reset -> {"none", "open", "used", "revoked"}])'
    BY <1>7 DEF ForgotCommit, TypeOK
  <2> QED
    BY <1>7, <2>1, FinishTyped DEF ForgotCommit, TypeOK
<1>8. ASSUME NEW c \in Call, NEW r \in Reset, NEW pw \in Password, ResetRead(c, r, pw)
      PROVE TypeOK'
  BY <1>8 DEF ResetRead, TypeOK
<1>9. ASSUME NEW c \in Call, ResetConsume(c) PROVE TypeOK'
  BY <1>9 DEF ResetConsume, TypeOK
<1>10. ASSUME NEW c \in Call, ResetRefused(c) PROVE TypeOK'
  BY <1>10, FinishTyped DEF ResetRefused, TypeOK
<1>11. ASSUME NEW c \in Call, ResetCredential(c) PROVE TypeOK'
  BY <1>11 DEF ResetCredential, TypeOK
<1>12. ASSUME NEW c \in Call, NEW s \in Session, ChangeAdmit(c, s) PROVE TypeOK'
  BY <1>12 DEF ChangeAdmit, TypeOK
<1>13. ASSUME NEW c \in Call, NEW pw \in Password, ChangeRead(c, pw) PROVE TypeOK'
  BY <1>13, ReadTyped DEF ChangeRead, TypeOK
<1>14. ASSUME NEW c \in Call, ChangeCas(c) PROVE TypeOK'
  BY <1>14 DEF ChangeCas, TypeOK
<1>15. ASSUME NEW c \in Call, ChangeConflict(c) PROVE TypeOK'
  BY <1>15, FinishTyped DEF ChangeConflict, TypeOK
<1>16. ASSUME NEW c \in Call, ScanResets(c) PROVE TypeOK'
  BY <1>16 DEF ScanResets, TypeOK
<1>17. ASSUME NEW c \in Call, InsertSession(c) PROVE TypeOK'
  BY <1>17 DEF InsertSession, TypeOK
<1>18. ASSUME NEW c \in Call, ScanSessions(c) PROVE TypeOK'
  BY <1>18 DEF ScanSessions, TypeOK
<1>19. ASSUME NEW c \in Call, NEW s \in Session, LockSession(c, s) PROVE TypeOK'
  BY <1>19 DEF LockSession, TypeOK
<1>20. ASSUME NEW c \in Call, PasswordCommit(c) PROVE TypeOK'
  <2>1. /\ (hash \in Hash)'
        /\ (epoch \in 0..MaxHash)'
        /\ (resets \in [Reset -> {"none", "open", "used", "revoked"}])'
        /\ (sessions \in [Session -> {"none", "revoked"} \cup Level])'
    BY <1>20 DEF PasswordCommit, Hash, TypeOK
  <2> QED
    BY <1>20, <2>1, FinishTyped DEF PasswordCommit, TypeOK
<1>21. ASSUME NEW u \in Upgrader, NEW s \in Session, UpgradeRevoke(u, s) PROVE TypeOK'
  BY <1>21 DEF UpgradeRevoke, TypeOK
<1>22. ASSUME NEW u \in Upgrader, NEW old \in Session, NEW new \in Session,
              UpgradeCommit(u, old, new) PROVE TypeOK'
  <2>1. (sessions \in [Session -> {"none", "revoked"} \cup Level])'
    BY <1>22 DEF UpgradeCommit, Level, TypeOK
  <2> QED
    BY <1>22, <2>1, FinishTyped DEF UpgradeCommit, TypeOK
<1>23. ASSUME NEW a \in Actor, Abandon(a) PROVE TypeOK'
  BY <1>23, FinishTyped DEF Abandon, TypeOK
<1>24. ASSUME NEW r \in Reset, ExpireReset(r) PROVE TypeOK'
  BY <1>24 DEF ExpireReset, TypeOK
<1>25. CASE Tick
  BY <1>25 DEF Tick, TypeOK
<1>26. CASE UNCHANGED vars
  BY <1>26 DEF vars, TypeOK
<1> HIDE DEF InTx, Waiting, Sweep
<1> QED
  BY <1>1, <1>2, <1>3, <1>4, <1>5, <1>6, <1>7, <1>8, <1>9, <1>10, <1>11, <1>12,
     <1>13, <1>14, <1>15, <1>16, <1>17, <1>18, <1>19, <1>20, <1>21, <1>22, <1>23,
     <1>24, <1>25, <1>26 DEF Next, Begin, CallStep, UpgradeStep

-----------------------------------------------------------------------------
(* The inductive invariant                                                 *)

\* The credential row is held by the call that is rewriting the password, a
\* recovery-request row only while the request is open.
RowsHeld ==
  /\ \A c \in Call : credRow = c <=> pc[c] \in Sweep
  /\ \A r \in Reset : resetRow[r] # Free => Open(r)

\* A reset past its first statement holds the request it consumes.
ResetHolds ==
  \A c \in Call :
    /\ pc[c] \in {"consume", "credential"} => target[c] \in Reset
    /\ pc[c] \in {"idle", "verify", "failure", "issue", "inserted", "lockOutstanding",
       "admitted", "cas"}
         => target[c] = NoReset
    /\ pc[c] \in Sweep \cup {"credential"} /\ target[c] # NoReset
         => resetRow[target[c]] = c

\* Between a change's compare-and-set and its commit the hash is the one read.
ChangeHolds ==
  \A c \in Call : pc[c] \in Sweep /\ target[c] = NoReset => hash = seen[c].hash

\* The sessions a password change is bound to find: all of them, unless
\* upgrades run beside it, and the limited ones even then.
Found(s) == sessions[s] = "limited" \/ (Upgrader = {} /\ Active(s))

\* The revoking UPDATE has each of them on its list or under its lock.
SessionsHeld ==
  \A s \in Session : Found(s) =>
    \A c \in Call : pc[c] = "lockSessions" => s \in todo[c] \/ sessionRow[s] = c

\* The failures that are still to be recorded without setting the lock.
Unrecorded ==
  {c \in Call : pc[c] \in {"verify", "failure"} /\ seen[c].failed <= Threshold - 2}

FailuresBounded ==
  lockedUntil = NoTime =>
    failed + Cardinality(Unrecorded) <= Threshold - 2 + Cardinality(Call)

IInv ==
  /\ TypeOK /\ RowsHeld /\ ResetHolds /\ ChangeHolds /\ SessionsHeld /\ FailuresBounded

LEMMA InvInit == Init => IInv
<1> SUFFICES ASSUME Init PROVE IInv
  OBVIOUS
<1>1. TypeOK
  BY TypeInit
<1>2. RowsHeld /\ ResetHolds /\ ChangeHolds /\ SessionsHeld
  BY DEF Init, RowsHeld, ResetHolds, ChangeHolds, SessionsHeld, Found, Active, Level, Sweep
<1>3. Unrecorded = {}
  BY DEF Init, Unrecorded
<1>4. FailuresBounded
  BY <1>3, FS_EmptySet, FS_CardinalityType DEF Init, FailuresBounded
<1> QED
  BY <1>1, <1>2, <1>4 DEF IInv

LEMMA LocksStep ==
  IInv /\ [Next]_vars => RowsHeld' /\ ResetHolds' /\ ChangeHolds'
<1> DEFINE Locks == RowsHeld /\ ResetHolds /\ ChangeHolds
<1> SUFFICES ASSUME IInv, [Next]_vars PROVE Locks'
  OBVIOUS
<1> USE DEF IInv, TypeOK, RowsHeld, ResetHolds, ChangeHolds, Open, Sweep, credVars, resetVars,
            rowVars, localVars, Goto
<1>1. ASSUME NEW c \in Call, NEW pw \in Password, LoginRead(c, pw) PROVE Locks'
  BY <1>1 DEF LoginRead, ReadCredential
<1>2. ASSUME NEW c \in Call, Decide(c) PROVE Locks'
  BY <1>2 DEF Decide
<1>3. ASSUME NEW c \in Call, RecordFailedCredential(c) PROVE Locks'
  BY <1>3 DEF RecordFailedCredential, Finish, FreeRows
<1>4. ASSUME NEW c \in Call, NEW s \in Session, NEW level \in Level, CommitSession(c, s, level)
      PROVE Locks'
  <2>1. \A d \in Call : pc[d] \notin Sweep
    BY <1>4 DEF CommitSession, CredentialFree
  <2>2. RowsHeld' /\ ResetHolds'
    BY <1>4, <2>1 DEF CommitSession, Finish, FreeRows
  <2>3. ChangeHolds'
    BY <1>4, <2>1 DEF CommitSession, Finish
  <2> QED
    BY <2>2, <2>3
<1>5. ASSUME NEW c \in Call, ForgotScan(c) PROVE Locks'
  BY <1>5 DEF ForgotScan
<1>6. ASSUME NEW c \in Call, NEW r \in Reset, LockReset(c, r) PROVE Locks'
  BY <1>6 DEF LockReset
<1>7. ASSUME NEW c \in Call, NEW r \in Reset, ForgotCommit(c, r) PROVE Locks'
  <2>1. RowsHeld'
    BY <1>7 DEF ForgotCommit, HeldResets, Finish, FreeRows
  <2>2. ResetHolds'
    BY <1>7 DEF ForgotCommit, Finish, FreeRows
  <2>3. ChangeHolds'
    BY <1>7 DEF ForgotCommit, Finish
  <2> QED
    BY <2>1, <2>2, <2>3
<1>8. ASSUME NEW c \in Call, NEW r \in Reset, NEW pw \in Password, ResetRead(c, r, pw)
      PROVE Locks'
  BY <1>8 DEF ResetRead
<1>9. ASSUME NEW c \in Call, ResetConsume(c) PROVE Locks'
  <2>1. target[c] \in Reset
    BY <1>9 DEF ResetConsume
  <2>2. RowsHeld'
    BY <1>9, <2>1 DEF ResetConsume, Consumable
  <2>3. ResetHolds'
    BY <1>9, <2>1 DEF ResetConsume
  <2>4. ChangeHolds'
    BY <1>9 DEF ResetConsume
  <2> QED
    BY <2>2, <2>3, <2>4
<1>10. ASSUME NEW c \in Call, ResetRefused(c) PROVE Locks'
  BY <1>10 DEF ResetRefused, Finish, FreeRows
<1>11. ASSUME NEW c \in Call, ResetCredential(c) PROVE Locks'
  BY <1>11 DEF ResetCredential
<1>12. ASSUME NEW c \in Call, NEW s \in Session, ChangeAdmit(c, s) PROVE Locks'
  BY <1>12 DEF ChangeAdmit
<1>13. ASSUME NEW c \in Call, NEW pw \in Password, ChangeRead(c, pw) PROVE Locks'
  BY <1>13 DEF ChangeRead, ReadCredential
<1>14. ASSUME NEW c \in Call, ChangeCas(c) PROVE Locks'
  <2>1. RowsHeld'
    BY <1>14 DEF ChangeCas
  <2>2. ResetHolds'
    BY <1>14 DEF ChangeCas
  <2>3. ChangeHolds'
    BY <1>14 DEF ChangeCas, SameHash
  <2> QED
    BY <2>1, <2>2, <2>3
<1>15. ASSUME NEW c \in Call, ChangeConflict(c) PROVE Locks'
  BY <1>15 DEF ChangeConflict, Finish, FreeRows
<1>16. ASSUME NEW c \in Call, ScanResets(c) PROVE Locks'
  BY <1>16 DEF ScanResets
<1>17. ASSUME NEW c \in Call, InsertSession(c) PROVE Locks'
  BY <1>17 DEF InsertSession
<1>18. ASSUME NEW c \in Call, ScanSessions(c) PROVE Locks'
  BY <1>18 DEF ScanSessions
<1>19. ASSUME NEW c \in Call, NEW s \in Session, LockSession(c, s) PROVE Locks'
  BY <1>19 DEF LockSession
<1>20. ASSUME NEW c \in Call, PasswordCommit(c) PROVE Locks'
  <2>1. credRow = c /\ \A d \in Call \ {c} : pc[d] \notin Sweep
    BY <1>20 DEF PasswordCommit
  <2>2. \A r \in Reset : r = target[c] => resetRow[r] = c
    BY <1>20 DEF PasswordCommit
  <2>3. RowsHeld'
    <3>1. (\A d \in Call : credRow = d <=> pc[d] \in Sweep)'
      BY <1>20, <2>1 DEF PasswordCommit, Finish, FreeRows
    <3>2. (\A r \in Reset : resetRow[r] # Free => Open(r))'
      BY <1>20, <2>2 DEF PasswordCommit, HeldResets, Finish, FreeRows
    <3> QED
      BY <3>1, <3>2
  <2>4. ResetHolds'
    BY <1>20 DEF PasswordCommit, Finish, FreeRows
  <2>5. ChangeHolds'
    BY <1>20, <2>1 DEF PasswordCommit, Finish
  <2> QED
    BY <2>3, <2>4, <2>5
<1>21. ASSUME NEW u \in Upgrader, NEW s \in Session, UpgradeRevoke(u, s) PROVE Locks'
  BY <1>21 DEF UpgradeRevoke
<1>22. ASSUME NEW u \in Upgrader, NEW old \in Session, NEW new \in Session,
              UpgradeCommit(u, old, new)
      PROVE Locks'
  BY <1>22 DEF UpgradeCommit, Finish, FreeRows
<1>23. ASSUME NEW a \in Actor, Abandon(a) PROVE Locks'
  BY <1>23 DEF Abandon, Finish, FreeRows
<1>24. ASSUME NEW r \in Reset, ExpireReset(r) PROVE Locks'
  BY <1>24 DEF ExpireReset
<1>25. CASE Tick
  BY <1>25 DEF Tick
<1>26. CASE UNCHANGED vars
  BY <1>26 DEF vars
<1> HIDE DEF IInv, Locks
<1> QED
  BY <1>1, <1>2, <1>3, <1>4, <1>5, <1>6, <1>7, <1>8, <1>9, <1>10, <1>11, <1>12,
     <1>13, <1>14, <1>15, <1>16, <1>17, <1>18, <1>19, <1>20, <1>21, <1>22,
     <1>23, <1>24, <1>25, <1>26 DEF Next, Begin, CallStep, UpgradeStep

\* A change that commits has locked all it found, and revokes it.
LEMMA CommitRevokes ==
  ASSUME IInv, NEW c \in Call, PasswordCommit(c), NEW s \in Session
  PROVE  ~Found(s)'
<1>1. Found(s) => s \in HeldSessions(c)
  BY DEF IInv, SessionsHeld, PasswordCommit, HeldSessions
<1> QED
  BY <1>1 DEF IInv, TypeOK, Found, Active, Level, PasswordCommit

LEMMA SessionsStep == IInv /\ [Next]_vars => SessionsHeld'
<1> SUFFICES ASSUME IInv, [Next]_vars PROVE SessionsHeld'
  OBVIOUS
<1> USE DEF IInv, TypeOK, SessionsHeld, Found, Active, Level, credVars, resetVars,
            rowVars, localVars, Goto
<1>1. ASSUME NEW c \in Call, NEW pw \in Password, LoginRead(c, pw) PROVE SessionsHeld'
  BY <1>1 DEF LoginRead, ReadCredential
<1>2. ASSUME NEW c \in Call, Decide(c) PROVE SessionsHeld'
  BY <1>2 DEF Decide
<1>3. ASSUME NEW c \in Call, RecordFailedCredential(c) PROVE SessionsHeld'
  BY <1>3 DEF RecordFailedCredential, Finish, FreeRows
<1>4. ASSUME NEW c \in Call, NEW s \in Session, NEW level \in Level, CommitSession(c, s, level)
      PROVE SessionsHeld'
  <2>1. \A d \in Call : pc[d] # "lockSessions"
    BY <1>4 DEF CommitSession, CredentialFree, RowsHeld, Sweep
  <2> QED
    BY <1>4, <2>1 DEF CommitSession, Finish
<1>5. ASSUME NEW c \in Call, ForgotScan(c) PROVE SessionsHeld'
  BY <1>5 DEF ForgotScan
<1>6. ASSUME NEW c \in Call, NEW r \in Reset, LockReset(c, r) PROVE SessionsHeld'
  BY <1>6 DEF LockReset
<1>7. ASSUME NEW c \in Call, NEW r \in Reset, ForgotCommit(c, r) PROVE SessionsHeld'
  BY <1>7 DEF ForgotCommit, Finish, FreeRows
<1>8. ASSUME NEW c \in Call, NEW r \in Reset, NEW pw \in Password, ResetRead(c, r, pw)
      PROVE SessionsHeld'
  BY <1>8 DEF ResetRead
<1>9. ASSUME NEW c \in Call, ResetConsume(c) PROVE SessionsHeld'
  BY <1>9 DEF ResetConsume
<1>10. ASSUME NEW c \in Call, ResetRefused(c) PROVE SessionsHeld'
  BY <1>10 DEF ResetRefused, Finish, FreeRows
<1>11. ASSUME NEW c \in Call, ResetCredential(c) PROVE SessionsHeld'
  BY <1>11 DEF ResetCredential
<1>12. ASSUME NEW c \in Call, NEW s \in Session, ChangeAdmit(c, s) PROVE SessionsHeld'
  BY <1>12 DEF ChangeAdmit
<1>13. ASSUME NEW c \in Call, NEW pw \in Password, ChangeRead(c, pw) PROVE SessionsHeld'
  BY <1>13 DEF ChangeRead, ReadCredential
<1>14. ASSUME NEW c \in Call, ChangeCas(c) PROVE SessionsHeld'
  BY <1>14 DEF ChangeCas
<1>15. ASSUME NEW c \in Call, ChangeConflict(c) PROVE SessionsHeld'
  BY <1>15 DEF ChangeConflict, Finish, FreeRows
<1>16. ASSUME NEW c \in Call, ScanResets(c) PROVE SessionsHeld'
  BY <1>16 DEF ScanResets
<1>17. ASSUME NEW c \in Call, InsertSession(c) PROVE SessionsHeld'
  BY <1>17 DEF InsertSession
<1>18. ASSUME NEW c \in Call, ScanSessions(c) PROVE SessionsHeld'
  BY <1>18 DEF ScanSessions
<1>19. ASSUME NEW c \in Call, NEW s \in Session, LockSession(c, s) PROVE SessionsHeld'
  BY <1>19 DEF LockSession
<1>20. ASSUME NEW c \in Call, PasswordCommit(c) PROVE SessionsHeld'
  <2>1. \A s \in Session : ~Found(s)'
    BY <1>20, CommitRevokes
  <2> QED
    BY <2>1
<1>21. ASSUME NEW u \in Upgrader, NEW s \in Session, UpgradeRevoke(u, s) PROVE SessionsHeld'
  BY <1>21 DEF UpgradeRevoke
<1>22. ASSUME NEW u \in Upgrader, NEW old \in Session, NEW new \in Session,
              UpgradeCommit(u, old, new)
      PROVE SessionsHeld'
  BY <1>22 DEF UpgradeCommit, Finish, FreeRows
<1>23. ASSUME NEW a \in Actor, Abandon(a) PROVE SessionsHeld'
  BY <1>23 DEF Abandon, Finish, FreeRows
<1>24. ASSUME NEW r \in Reset, ExpireReset(r) PROVE SessionsHeld'
  BY <1>24 DEF ExpireReset
<1>25. CASE Tick
  BY <1>25 DEF Tick
<1>26. CASE UNCHANGED vars
  BY <1>26 DEF vars
<1> HIDE DEF IInv, SessionsHeld
<1> QED
  BY <1>1, <1>2, <1>3, <1>4, <1>5, <1>6, <1>7, <1>8, <1>9, <1>10, <1>11, <1>12,
     <1>13, <1>14, <1>15, <1>16, <1>17, <1>18, <1>19, <1>20, <1>21, <1>22,
     <1>23, <1>24, <1>25, <1>26 DEF Next, Begin, CallStep, UpgradeStep

\* Nothing but a failure and the start of a login can use the bound up.
LEMMA FailuresKept ==
  ASSUME IInv, Unrecorded' \subseteq Unrecorded,
         \/ UNCHANGED <<failed, lockedUntil>>
         \/ failed' = 0
  PROVE  FailuresBounded'
<1>1. /\ IsFiniteSet(Unrecorded) /\ Cardinality(Unrecorded) \in Nat
      /\ Cardinality(Unrecorded) <= Cardinality(Call) /\ Cardinality(Call) \in Nat
  BY FS_Subset, FS_CardinalityType DEF Unrecorded
<1>2. Cardinality(Unrecorded') \in Nat /\ Cardinality(Unrecorded') <= Cardinality(Unrecorded)
  BY <1>1, FS_Subset, FS_CardinalityType
<1>3. CASE UNCHANGED <<failed, lockedUntil>>
  BY <1>1, <1>2, <1>3 DEF IInv, TypeOK, FailuresBounded
<1>4. CASE failed' = 0
  BY <1>1, <1>2, <1>4 DEF FailuresBounded
<1> QED
  BY <1>3, <1>4

LEMMA FailuresStep == IInv /\ [Next]_vars => FailuresBounded'
<1> SUFFICES ASSUME IInv, [Next]_vars PROVE FailuresBounded'
  OBVIOUS
<1> USE DEF IInv, TypeOK, credVars, resetVars, rowVars, localVars, Goto
<1>1. ASSUME NEW c \in Call, NEW pw \in Password, LoginRead(c, pw) PROVE FailuresBounded'
  <2>1. Unrecorded' \subseteq Unrecorded \cup {c} /\ UNCHANGED <<failed, lockedUntil>>
    BY <1>1 DEF LoginRead, ReadCredential, Unrecorded
  <2>2. CASE failed <= Threshold - 2
    <3>1. Unrecorded' \subseteq Call
      BY DEF Unrecorded
    <3>2. Cardinality(Unrecorded') <= Cardinality(Call) /\ Cardinality(Unrecorded') \in Nat
      BY <3>1, FS_Subset, FS_CardinalityType
    <3> QED
      BY <2>1, <2>2, <3>2, FS_CardinalityType DEF FailuresBounded
  <2>3. CASE ~(failed <= Threshold - 2)
    <3>1. c \notin Unrecorded'
      BY <1>1, <2>3 DEF LoginRead, ReadCredential, Unrecorded
    <3> QED
      BY <2>1, <3>1, FailuresKept
  <2> QED
    BY <2>2, <2>3
<1>2. ASSUME NEW c \in Call, Decide(c) PROVE FailuresBounded'
  <2>1. Unrecorded' \subseteq Unrecorded /\ UNCHANGED <<failed, lockedUntil>>
    BY <1>2 DEF Decide, Unrecorded
  <2> QED
    BY <2>1, FailuresKept
<1>3. ASSUME NEW c \in Call, RecordFailedCredential(c) PROVE FailuresBounded'
  <2>1. CASE seen[c].failed + 1 >= Threshold
    BY <1>3, <2>1 DEF RecordFailedCredential, ReachesThreshold, LockEnd, FailuresBounded
  <2>2. CASE ~(seen[c].failed + 1 >= Threshold)
    <3>1. seen[c].failed \in Nat
      BY DEF Seen
    <3>2. c \in Unrecorded /\ IsFiniteSet(Unrecorded)
      BY <1>3, <2>2, <3>1, FS_Subset DEF RecordFailedCredential, Unrecorded
    <3>3. Unrecorded' \subseteq Unrecorded \ {c} /\ failed' = failed + 1
          /\ lockedUntil' = lockedUntil
      BY <1>3, <2>2 DEF RecordFailedCredential, ReachesThreshold, Finish, Unrecorded
    <3>4. /\ IsFiniteSet(Unrecorded \ {c})
          /\ Cardinality(Unrecorded \ {c}) = Cardinality(Unrecorded) - 1
      BY <3>2, FS_RemoveElement
    <3>5. Cardinality(Unrecorded') <= Cardinality(Unrecorded) - 1
      BY <3>3, <3>4, FS_Subset
    <3>6. /\ Cardinality(Unrecorded) \in Nat /\ Cardinality(Unrecorded') \in Nat
          /\ Cardinality(Call) \in Nat
      BY <3>2, <3>3, <3>4, FS_Subset, FS_CardinalityType
    <3> QED
      BY <3>3, <3>5, <3>6 DEF FailuresBounded
  <2> QED
    BY <2>1, <2>2
<1>4. ASSUME NEW c \in Call, NEW s \in Session, NEW level \in Level, CommitSession(c, s, level)
      PROVE FailuresBounded'
  <2>1. Unrecorded' \subseteq Unrecorded /\ failed' = 0
    BY <1>4 DEF CommitSession, Finish, Unrecorded
  <2> QED
    BY <2>1, FailuresKept
<1>5. ASSUME NEW c \in Call, ForgotScan(c) PROVE FailuresBounded'
  <2>1. Unrecorded' \subseteq Unrecorded /\ UNCHANGED <<failed, lockedUntil>>
    BY <1>5 DEF ForgotScan, Unrecorded
  <2> QED
    BY <2>1, FailuresKept
<1>6. ASSUME NEW c \in Call, NEW r \in Reset, LockReset(c, r) PROVE FailuresBounded'
  <2>1. Unrecorded' \subseteq Unrecorded /\ UNCHANGED <<failed, lockedUntil>>
    BY <1>6 DEF LockReset, Unrecorded
  <2> QED
    BY <2>1, FailuresKept
<1>7. ASSUME NEW c \in Call, NEW r \in Reset, ForgotCommit(c, r) PROVE FailuresBounded'
  <2>1. Unrecorded' \subseteq Unrecorded /\ UNCHANGED <<failed, lockedUntil>>
    BY <1>7 DEF ForgotCommit, Finish, Unrecorded
  <2> QED
    BY <2>1, FailuresKept
<1>8. ASSUME NEW c \in Call, NEW r \in Reset, NEW pw \in Password, ResetRead(c, r, pw)
      PROVE FailuresBounded'
  <2>1. Unrecorded' \subseteq Unrecorded /\ UNCHANGED <<failed, lockedUntil>>
    BY <1>8 DEF ResetRead, Unrecorded
  <2> QED
    BY <2>1, FailuresKept
<1>9. ASSUME NEW c \in Call, ResetConsume(c) PROVE FailuresBounded'
  <2>1. Unrecorded' \subseteq Unrecorded /\ UNCHANGED <<failed, lockedUntil>>
    BY <1>9 DEF ResetConsume, Unrecorded
  <2> QED
    BY <2>1, FailuresKept
<1>10. ASSUME NEW c \in Call, ResetRefused(c) PROVE FailuresBounded'
  <2>1. Unrecorded' \subseteq Unrecorded /\ UNCHANGED <<failed, lockedUntil>>
    BY <1>10 DEF ResetRefused, Finish, Unrecorded
  <2> QED
    BY <2>1, FailuresKept
<1>11. ASSUME NEW c \in Call, ResetCredential(c) PROVE FailuresBounded'
  <2>1. Unrecorded' \subseteq Unrecorded /\ UNCHANGED <<failed, lockedUntil>>
    BY <1>11 DEF ResetCredential, Unrecorded
  <2> QED
    BY <2>1, FailuresKept
<1>12. ASSUME NEW c \in Call, NEW s \in Session, ChangeAdmit(c, s) PROVE FailuresBounded'
  <2>1. Unrecorded' \subseteq Unrecorded /\ UNCHANGED <<failed, lockedUntil>>
    BY <1>12 DEF ChangeAdmit, Unrecorded
  <2> QED
    BY <2>1, FailuresKept
<1>13. ASSUME NEW c \in Call, NEW pw \in Password, ChangeRead(c, pw) PROVE FailuresBounded'
  <2>1. Unrecorded' \subseteq Unrecorded /\ UNCHANGED <<failed, lockedUntil>>
    BY <1>13 DEF ChangeRead, ReadCredential, Unrecorded
  <2> QED
    BY <2>1, FailuresKept
<1>14. ASSUME NEW c \in Call, ChangeCas(c) PROVE FailuresBounded'
  <2>1. Unrecorded' \subseteq Unrecorded /\ UNCHANGED <<failed, lockedUntil>>
    BY <1>14 DEF ChangeCas, Unrecorded
  <2> QED
    BY <2>1, FailuresKept
<1>15. ASSUME NEW c \in Call, ChangeConflict(c) PROVE FailuresBounded'
  <2>1. Unrecorded' \subseteq Unrecorded /\ UNCHANGED <<failed, lockedUntil>>
    BY <1>15 DEF ChangeConflict, Finish, Unrecorded
  <2> QED
    BY <2>1, FailuresKept
<1>16. ASSUME NEW c \in Call, ScanResets(c) PROVE FailuresBounded'
  <2>1. Unrecorded' \subseteq Unrecorded /\ UNCHANGED <<failed, lockedUntil>>
    BY <1>16 DEF ScanResets, Unrecorded
  <2> QED
    BY <2>1, FailuresKept
<1>17. ASSUME NEW c \in Call, InsertSession(c) PROVE FailuresBounded'
  <2>1. Unrecorded' \subseteq Unrecorded /\ UNCHANGED <<failed, lockedUntil>>
    BY <1>17 DEF InsertSession, Unrecorded
  <2> QED
    BY <2>1, FailuresKept
<1>18. ASSUME NEW c \in Call, ScanSessions(c) PROVE FailuresBounded'
  <2>1. Unrecorded' \subseteq Unrecorded /\ UNCHANGED <<failed, lockedUntil>>
    BY <1>18 DEF ScanSessions, Unrecorded
  <2> QED
    BY <2>1, FailuresKept
<1>19. ASSUME NEW c \in Call, NEW s \in Session, LockSession(c, s) PROVE FailuresBounded'
  <2>1. Unrecorded' \subseteq Unrecorded /\ UNCHANGED <<failed, lockedUntil>>
    BY <1>19 DEF LockSession, Unrecorded
  <2> QED
    BY <2>1, FailuresKept
<1>20. ASSUME NEW c \in Call, PasswordCommit(c) PROVE FailuresBounded'
  <2>1. Unrecorded' \subseteq Unrecorded /\ failed' = 0
    BY <1>20 DEF PasswordCommit, Finish, Unrecorded
  <2> QED
    BY <2>1, FailuresKept
<1>21. ASSUME NEW u \in Upgrader, NEW s \in Session, UpgradeRevoke(u, s) PROVE FailuresBounded'
  <2>1. Unrecorded' \subseteq Unrecorded /\ UNCHANGED <<failed, lockedUntil>>
    BY <1>21 DEF UpgradeRevoke, Unrecorded
  <2> QED
    BY <2>1, FailuresKept
<1>22. ASSUME NEW u \in Upgrader, NEW old \in Session, NEW new \in Session,
              UpgradeCommit(u, old, new)
      PROVE FailuresBounded'
  <2>1. Unrecorded' \subseteq Unrecorded /\ UNCHANGED <<failed, lockedUntil>>
    BY <1>22 DEF UpgradeCommit, Finish, Unrecorded
  <2> QED
    BY <2>1, FailuresKept
<1>23. ASSUME NEW a \in Actor, Abandon(a) PROVE FailuresBounded'
  <2>1. Unrecorded' \subseteq Unrecorded /\ UNCHANGED <<failed, lockedUntil>>
    BY <1>23 DEF Abandon, Finish, Unrecorded
  <2> QED
    BY <2>1, FailuresKept
<1>24. ASSUME NEW r \in Reset, ExpireReset(r) PROVE FailuresBounded'
  <2>1. Unrecorded' \subseteq Unrecorded /\ UNCHANGED <<failed, lockedUntil>>
    BY <1>24 DEF ExpireReset, Unrecorded
  <2> QED
    BY <2>1, FailuresKept
<1>25. CASE Tick
  <2>1. Unrecorded' \subseteq Unrecorded /\ UNCHANGED <<failed, lockedUntil>>
    BY <1>25 DEF Tick, Unrecorded
  <2> QED
    BY <2>1, FailuresKept
<1>26. CASE UNCHANGED vars
  <2>1. Unrecorded' \subseteq Unrecorded /\ UNCHANGED <<failed, lockedUntil>>
    BY <1>26 DEF vars, Unrecorded
  <2> QED
    BY <2>1, FailuresKept
<1> HIDE DEF IInv, FailuresBounded
<1> QED
  BY <1>1, <1>2, <1>3, <1>4, <1>5, <1>6, <1>7, <1>8, <1>9, <1>10, <1>11, <1>12,
     <1>13, <1>14, <1>15, <1>16, <1>17, <1>18, <1>19, <1>20, <1>21, <1>22,
     <1>23, <1>24, <1>25, <1>26 DEF Next, Begin, CallStep, UpgradeStep

LEMMA InvStep == IInv /\ [Next]_vars => IInv'
<1> SUFFICES ASSUME IInv, [Next]_vars PROVE IInv'
  OBVIOUS
<1>1. TypeOK'
  BY TypeStep DEF IInv
<1> QED
  BY <1>1, LocksStep, SessionsStep, FailuresStep DEF IInv

-----------------------------------------------------------------------------
(* What a single step may do                                               *)

\* Only a recovery request's creation and a password change touch the requests.
LEMMA WhoTouchesRequests ==
  ASSUME [Next]_vars, resets' # resets
  PROVE  \E c \in Call : PasswordCommit(c) \/ \E r \in Reset : ForgotCommit(c, r)
<1> USE DEF credVars, resetVars, rowVars, localVars
<1>1. UNCHANGED resets
        \/ \E c \in Call : PasswordCommit(c) \/ \E r \in Reset : ForgotCommit(c, r)
  BY DEF Next, Begin, CallStep, UpgradeStep, vars, LoginRead, Decide, RecordFailedCredential,
         CommitSession, ForgotScan, LockReset, ResetRead, ResetConsume, ResetRefused,
         ResetCredential, ChangeAdmit, ChangeRead, ChangeCas, ChangeConflict, ScanResets,
         InsertSession, ScanSessions, LockSession, UpgradeRevoke, UpgradeCommit, Abandon,
         ExpireReset, Tick
<1> QED
  BY <1>1

\* Only a reset or change that commits begins another epoch.
LEMMA WhoChangesPassword ==
  ASSUME [Next]_vars, epoch' # epoch
  PROVE  \E c \in Call : PasswordCommit(c)
<1>1. UNCHANGED epoch \/ \E c \in Call : PasswordCommit(c)
  BY DEF Next, Begin, CallStep, UpgradeStep, vars, LoginRead, Decide, RecordFailedCredential,
         InsertSession, CommitSession, ForgotScan, LockReset, ForgotCommit, ResetRead,
         ResetConsume, ResetRefused, ResetCredential, ChangeAdmit, ChangeRead, ChangeCas,
         ChangeConflict, ScanResets, ScanSessions, LockSession, UpgradeRevoke,
         UpgradeCommit, Abandon, ExpireReset, Tick
<1> QED
  BY <1>1

-----------------------------------------------------------------------------
(* Theorems                                                                *)

\* Every variable keeps its type; in particular a lock never lasts longer than
\* LOGIN_LOCK_SECONDS from the failure that set it.
THEOREM TypeCorrect == Spec => []TypeOK
<1> QED
  BY TypeInit, TypeStep, PTL DEF Spec

\* The strengthening the other theorems rest on.
THEOREM Invariance == Spec => []IInv
<1> QED
  BY InvInit, InvStep, PTL DEF Spec

\* However many guesses run at once and whatever resets run beside them, the
\* failures before the first lock exceed the threshold by fewer than one for
\* every call in flight.
THEOREM GuessesBounded == Spec => []LockoutBound
<1>1. IInv => LockoutBound
  <2> SUFFICES ASSUME IInv PROVE LockoutBound
    OBVIOUS
  <2>1. Cardinality(Unrecorded) \in Nat /\ Cardinality(Call) \in Nat
    BY FS_Subset, FS_CardinalityType DEF Unrecorded
  <2> QED
    BY <2>1 DEF IInv, TypeOK, FailuresBounded, LockoutBound
<1> QED
  BY <1>1, Invariance, PTL

\* No password change overwrites a credential other than the one its caller's
\* current password was verified against.
THEOREM NoLostChange == Spec => ChangeIsCompareAndSet
<1>1. IInv /\ [Next]_vars =>
        [\A c \in Call :
           /\ pc[c] = "lockSessions" /\ pc'[c] = "idle"
           /\ target[c] = NoReset /\ epoch' # epoch
           => hash = seen[c].hash]_vars
  BY DEF IInv, ChangeHolds, Sweep
<1> QED
  BY <1>1, Invariance, PTL DEF Spec, ChangeIsCompareAndSet

\* Recovery requests that race are decided once: used or revoked for good.
THEOREM RequestsDecided == Spec => RequestsEndOnce
<1>1. ASSUME IInv, [Next]_vars, NEW r \in Reset, resets[r] \in {"used", "revoked"}
      PROVE  resets'[r] = resets[r]
  <2>1. resetRow[r] = Free
    BY <1>1 DEF IInv, RowsHeld, Open
  <2>2. ASSUME NEW c \in Call, PasswordCommit(c) PROVE resets'[r] = resets[r]
    <3>1. r # target[c] /\ r \notin HeldResets(c)
      BY <1>1, <2>1, <2>2 DEF IInv, TypeOK, ResetHolds, Sweep, PasswordCommit, HeldResets
    <3> QED
      BY <2>2, <3>1 DEF PasswordCommit
  <2>3. ASSUME NEW c \in Call, NEW new \in Reset, ForgotCommit(c, new)
        PROVE  resets'[r] = resets[r]
    BY <1>1, <2>1, <2>3 DEF ForgotCommit, HeldResets
  <2> QED
    BY <1>1, <2>2, <2>3, WhoTouchesRequests
<1>2. IInv /\ [Next]_vars =>
        [\A r \in Reset : resets[r] \in {"used", "revoked"} => resets'[r] = resets[r]]_vars
  BY <1>1
<1> QED
  BY <1>2, Invariance, PTL DEF Spec, RequestsEndOnce

\* Changes write over the hash they verified, and requests are decided once.
THEOREM ChangesAreDecided == Spec => ChangesStand
  BY NoLostChange, RequestsDecided DEF ChangesStand

\* When a password change takes effect, no limited session is left that it could
\* have seen, and where no session upgrade runs beside it no session at all.
THEOREM ChangesEndSessions == Spec => ChangeEndsSessions
<1>1. ASSUME IInv, [Next]_vars, epoch' # epoch, NEW s \in Session
      PROVE  ~Found(s)'
  <2>1. PICK c \in Call : PasswordCommit(c)
    BY <1>1, WhoChangesPassword
  <2> QED
    BY <1>1, <2>1, CommitRevokes
<1>2. IInv /\ [Next]_vars =>
        [epoch' # epoch =>
           \A s \in Session : /\ sessions'[s] # "limited"
                              /\ Upgrader = {} => ~Active(s)']_vars
  BY <1>1 DEF Found
<1> QED
  BY <1>2, Invariance, PTL DEF Spec, ChangeEndsSessions
=============================================================================
