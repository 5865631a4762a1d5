------------------------ MODULE RefreshRotationProofs ------------------------
(***************************************************************************)
(* Theorems about RefreshRotation for every number of refresh calls and    *)
(* revocations, every grace period, lifetime and bound, and with or        *)
(* without the unique index on (sessionId, generation).                    *)
(***************************************************************************)
EXTENDS RefreshRotation, TLAPS

USE ActorAssumption, BoundAssumption
    DEF ActorAssumption, BoundAssumption, Actor, Token, Time

LEMMA TypeInit == Init => TypeOK
  BY DEF Init, TypeOK, SessionStatus, RevokerKind, Unread

\* Giving rows back and moving on keep their variables well typed.
LEMMA FreeRowsType ==
  ASSUME TypeOK, NEW a \in Actor, FreeRows(a)
  PROVE  /\ sessionRow' \in Actor \cup {Free}
         /\ tokenRow' \in [Token -> Actor \cup {Free}]
         /\ todo' \in [Actor -> SUBSET Token]
<1> USE DEF TypeOK, FreeRows
<1> HIDE DEF Actor, Token, Time
<1>1. sessionRow' \in Actor \cup {Free}
  OBVIOUS
<1>2. tokenRow' \in [Token -> Actor \cup {Free}]
  OBVIOUS
<1>3. todo' \in [Actor -> SUBSET Token]
  OBVIOUS
<1> QED
  BY <1>1, <1>2, <1>3

LEMMA RollbackType ==
  ASSUME TypeOK, NEW p \in Request, Rollback(p)
  PROVE  TypeOK'
<1>1. p \in Actor /\ FreeRows(p)
  BY DEF Rollback
<1>2. pc' = [pc EXCEPT ![p] = "release"]
  BY DEF Rollback, Goto
<1>3. UNCHANGED <<status, tokenVars, redisLock, clock, callVars, kind>>
  BY DEF Rollback
<1> HIDE DEF Actor, Token, Time
<1> QED
  BY <1>1, <1>2, <1>3, FreeRowsType DEF TypeOK, tokenVars, callVars

LEMMA TypeStep == TypeOK /\ [Next]_vars => TypeOK'
<1> SUFFICES ASSUME TypeOK, [Next]_vars PROVE TypeOK'
  OBVIOUS
<1>0. /\ Request \subseteq Actor /\ Revoker \subseteq Actor
      /\ 1 \in Token /\ 0 \in Time /\ Time \subseteq Nat
  OBVIOUS
<1> USE <1>0 DEF TypeOK, SessionStatus, RevokerKind, Unread, InTx, RotationTx, ReuseTx,
                 RevokeTx, tokenVars, rowVars, callVars, Goto
<1> HIDE DEF Actor, Token, Time
<1>1. ASSUME NEW p \in Request, NEW t \in Token, Present(p, t) PROVE TypeOK'
  BY <1>1 DEF Present
<1>2. ASSUME NEW p \in Request, AcquireLock(p) PROVE TypeOK'
  BY <1>2 DEF AcquireLock
<1>3. ASSUME NEW p \in Request, LockBusy(p) PROVE TypeOK'
  BY <1>3 DEF LockBusy
<1>4. ASSUME NEW p \in Request, Reject(p) PROVE TypeOK'
  BY <1>4 DEF Reject
<1>5. ASSUME NEW p \in Request, StartReuse(p) PROVE TypeOK'
  BY <1>5 DEF StartReuse
<1>6. ASSUME NEW p \in Request, StartRotation(p) PROVE TypeOK'
  BY <1>6 DEF StartRotation
<1>7. ASSUME NEW p \in Request, TouchSession(p) PROVE TypeOK'
  <2>1. CASE ~Rollback(p)
    BY <1>7, <2>1 DEF TouchSession
  <2> QED
    BY <2>1, RollbackType
<1>8. ASSUME NEW p \in Request, InsertReplacement(p) PROVE TypeOK'
  <2>1. CASE ~Rollback(p)
    BY <1>8, <2>1 DEF InsertReplacement
  <2> QED
    BY <2>1, RollbackType
<1>9. ASSUME NEW p \in Request, ConsumeToken(p) PROVE TypeOK'
  <2>1. CASE Rollback(p)
    BY <2>1, RollbackType
  <2>2. CASE ~Rollback(p)
    <3>1. PICK t \in Token : tokenRow' = [tokenRow EXCEPT ![t] = p]
      BY <1>9, <2>2 DEF ConsumeToken
    <3>2. /\ Goto(p, "commit")
          /\ UNCHANGED <<status, tokenVars, sessionRow, redisLock, clock, callVars, todo, kind>>
      BY <1>9, <2>2 DEF ConsumeToken
    <3> QED
      BY <3>1, <3>2
  <2> QED
    BY <1>9, <2>1, <2>2 DEF ConsumeToken
<1>10. ASSUME NEW p \in Request, CommitRotation(p) PROVE TypeOK'
  BY <1>10 DEF CommitRotation, NewToken, NextGeneration, FreeRows
<1>11. ASSUME NEW p \in Request, ScanFamily(p) PROVE TypeOK'
  BY <1>11 DEF ScanFamily
<1>12. ASSUME NEW a \in Actor, NEW t \in Token, LockTokenRow(a, t) PROVE TypeOK'
  BY <1>12 DEF LockTokenRow
<1>13. ASSUME NEW p \in Request, MarkCompromised(p) PROVE TypeOK'
  BY <1>13 DEF MarkCompromised
<1>14. ASSUME NEW p \in Request, CommitReuse(p) PROVE TypeOK'
  BY <1>14 DEF CommitReuse, Held, FreeRows
<1>15. ASSUME NEW p \in Request, ReleaseLock(p) PROVE TypeOK'
  BY <1>15 DEF ReleaseLock
<1>16. ASSUME NEW r \in Revoker, NEW k \in RevokerKind, FindSession(r, k) PROVE TypeOK'
  BY <1>16 DEF FindSession
<1>17. ASSUME NEW r \in Revoker, EndSession(r) PROVE TypeOK'
  BY <1>17 DEF EndSession
<1>18. ASSUME NEW r \in Revoker, ScanTokens(r) PROVE TypeOK'
  BY <1>18 DEF ScanTokens
<1>19. ASSUME NEW r \in Revoker, CommitRevocation(r) PROVE TypeOK'
  BY <1>19 DEF CommitRevocation, EndStatus, Held, FreeRows
<1>20. ASSUME NEW a \in Actor, FailTx(a) PROVE TypeOK'
  BY <1>20 DEF FailTx, FreeRows
<1>21. ASSUME NEW p \in Request, Crash(p) PROVE TypeOK'
  BY <1>21 DEF Crash, FreeRows
<1>22. CASE LockTtl
  BY <1>22 DEF LockTtl, LockExpires
<1>23. CASE Tick
  <2>1. clock' \in Time
    BY <1>23 DEF Tick, Time
  <2> QED
    BY <1>23, <2>1 DEF Tick
<1>24. CASE UNCHANGED vars
  BY <1>24 DEF vars
<1> HIDE DEF TypeOK, InTx, RotationTx, ReuseTx, RevokeTx, RevokerKind, Token
<1> QED
  BY <1>1, <1>2, <1>3, <1>4, <1>5, <1>6, <1>7, <1>8, <1>9, <1>10, <1>11, <1>12,
     <1>13, <1>14, <1>15, <1>16, <1>17, <1>18, <1>19, <1>20, <1>21, <1>22, <1>23,
     <1>24 DEF Next, RequestStep, RevokerStep

-----------------------------------------------------------------------------
(* The inductive invariant                                                 *)

\* Rows exist before anything refers to them; a row that does not exist yet is
\* unused.
KnownTokens ==
  /\ 1 \in issued
  /\ \A p \in Request : seen[p].token \in issued
  /\ revoked \subseteq issued
  /\ \A a \in Actor : todo[a] \subseteq issued
  /\ \A t \in Token : tokenRow[t] # Free => t \in issued
  /\ \A t \in Token \ issued : usedAt[t] = NoTime

\* An unused token carries the highest generation.
UnusedIsNewest ==
  \A t, u \in issued : usedAt[t] = NoTime /\ u # t => generation[u] < generation[t]

\* A rotation past its first statement owns an ACTIVE session row, and before
\* its commit an exchangeable token.
RotationOwnsRows ==
  \A p \in Request :
    /\ pc[p] \in RotationTx => sessionRow = p /\ status = "ACTIVE"
    /\ pc[p] = "commit" => tokenRow[seen[p].token] = p /\ seen[p].token \in Live

\* Reuse handling owns the session row when it commits, and was begun for a
\* replay later than the grace period.
ReuseIsLate ==
  \A p \in Request :
    /\ pc[p] = "commitReuse" => sessionRow = p
    /\ seen[p].usedAt # NoTime => usedAt[seen[p].token] = seen[p].usedAt
    /\ pc[p] \in ReuseTx => seen[p].usedAt # NoTime /\ seen[p].usedAt + Grace < clock

\* A revocation owns the row of an ACTIVE session only, and its token statement
\* then reaches every exchangeable token; one without it found the session ended.
SweepIsComplete ==
  \A r \in Revoker :
    /\ sessionRow = r => status = "ACTIVE"
    /\ pc[r] = "lockTokens" /\ sessionRow = r => Live \subseteq todo[r] \cup Held(r)
    /\ pc[r] \in {"scanTokens", "lockTokens"} /\ sessionRow # r => status # "ACTIVE"

ActiveHasHead == status = "ACTIVE" => Live # {}

TokensOK == KnownTokens /\ UnusedIsNewest /\ GenerationsDistinct /\ ReplacementChain
CallsOK  == RotationOwnsRows /\ ReuseIsLate
EndOK    == SweepIsComplete /\ EndedSessionIsBarren /\ ActiveHasHead

IInv == TypeOK /\ TokensOK /\ CallsOK /\ EndOK

LEMMA InvInit == Init => IInv
<1> SUFFICES ASSUME Init PROVE IInv
  OBVIOUS
<1>1. TypeOK
  BY TypeInit
<1>2. TokensOK
  BY DEF Init, TokensOK, KnownTokens, UnusedIsNewest, GenerationsDistinct,
         ReplacementChain, Unread
<1>3. CallsOK
  BY DEF Init, CallsOK, RotationOwnsRows, ReuseIsLate, RotationTx, ReuseTx, Unread
<1>4. EndOK
  BY DEF Init, EndOK, SweepIsComplete, EndedSessionIsBarren, ActiveHasHead, Live
<1> QED
  BY <1>1, <1>2, <1>3, <1>4 DEF IInv

\* A rollback changes no committed row.
LEMMA RollbackStep ==
  ASSUME IInv, TypeOK', NEW p \in Request, Rollback(p)
  PROVE  IInv'
<1> USE DEF IInv, TypeOK, TokensOK, CallsOK, EndOK, InTx, RotationTx, ReuseTx,
            RevokeTx, tokenVars, callVars, Goto, Rollback, FreeRows
<1>1. TokensOK'
  BY DEF KnownTokens, UnusedIsNewest, GenerationsDistinct, ReplacementChain
<1>2. CallsOK'
  BY DEF RotationOwnsRows, ReuseIsLate, Live
<1>3. EndOK'
  BY DEF SweepIsComplete, EndedSessionIsBarren, ActiveHasHead, Live, Held
<1> QED
  BY <1>1, <1>2, <1>3

LEMMA InvStep == IInv /\ [Next]_vars => IInv'
<1> SUFFICES ASSUME IInv, [Next]_vars PROVE IInv'
  OBVIOUS
<1>0. /\ Request \subseteq Actor /\ Revoker \subseteq Actor /\ Request \cap Revoker = {}
      /\ 1 \in Token /\ 0 \in Time /\ Time \subseteq Nat /\ Token \subseteq Nat
      /\ TypeOK'
  BY TypeStep DEF IInv
<1> USE <1>0 DEF IInv, TypeOK, TokensOK, CallsOK, EndOK, InTx, RotationTx, ReuseTx,
                 RevokeTx, tokenVars, rowVars, callVars, Goto
<1> HIDE DEF Actor, Token, Time
<1>1. ASSUME NEW p \in Request, NEW t \in Token, Present(p, t) PROVE IInv'
  <2>1. TokensOK'
    BY <1>1, SMTT(30) DEF Present, Goto, callVars, KnownTokens, UnusedIsNewest,
       GenerationsDistinct, ReplacementChain, Held, Unread
  <2>2. CallsOK'
    BY <1>1, SMTT(30) DEF Present, Goto, callVars, RotationOwnsRows, ReuseIsLate,
       SweepIsComplete, KnownTokens, Live, Held, Unread
  <2>3. EndOK'
    BY <1>1, SMTT(30) DEF Present, Goto, callVars, SweepIsComplete,
       EndedSessionIsBarren, ActiveHasHead, RotationOwnsRows, ReuseIsLate,
       KnownTokens, Live, Held
  <2> QED
    BY <2>1, <2>2, <2>3
<1>2. ASSUME NEW p \in Request, AcquireLock(p) PROVE IInv'
  <2>1. TokensOK'
    BY <1>2, SMTT(30) DEF AcquireLock, KnownTokens, UnusedIsNewest,
       GenerationsDistinct, ReplacementChain, Held, Unread
  <2>2. CallsOK'
    BY <1>2, SMTT(30) DEF AcquireLock, RotationOwnsRows, ReuseIsLate, SweepIsComplete,
       KnownTokens, Live, Held, Unread
  <2>3. EndOK'
    BY <1>2, SMTT(30) DEF AcquireLock, SweepIsComplete, EndedSessionIsBarren,
       ActiveHasHead, RotationOwnsRows, ReuseIsLate, KnownTokens, Live, Held
  <2> QED
    BY <2>1, <2>2, <2>3
<1>3. ASSUME NEW p \in Request, LockBusy(p) PROVE IInv'
  <2>1. TokensOK'
    BY <1>3, SMTT(30) DEF LockBusy, KnownTokens, UnusedIsNewest, GenerationsDistinct,
       ReplacementChain, Held, Unread
  <2>2. CallsOK'
    BY <1>3, SMTT(30) DEF LockBusy, RotationOwnsRows, ReuseIsLate, SweepIsComplete,
       KnownTokens, Live, Held, Unread
  <2>3. EndOK'
    BY <1>3, SMTT(30) DEF LockBusy, SweepIsComplete, EndedSessionIsBarren,
       ActiveHasHead, RotationOwnsRows, ReuseIsLate, KnownTokens, Live, Held
  <2> QED
    BY <2>1, <2>2, <2>3
<1>4. ASSUME NEW p \in Request, Reject(p) PROVE IInv'
  <2>1. TokensOK'
    BY <1>4, SMTT(30) DEF Reject, KnownTokens, UnusedIsNewest, GenerationsDistinct,
       ReplacementChain, Held, Unread
  <2>2. CallsOK'
    BY <1>4, SMTT(30) DEF Reject, RotationOwnsRows, ReuseIsLate, SweepIsComplete,
       KnownTokens, Live, Held, Unread
  <2>3. EndOK'
    BY <1>4, SMTT(30) DEF Reject, SweepIsComplete, EndedSessionIsBarren,
       ActiveHasHead, RotationOwnsRows, ReuseIsLate, KnownTokens, Live, Held
  <2> QED
    BY <2>1, <2>2, <2>3
<1>5. ASSUME NEW p \in Request, StartReuse(p) PROVE IInv'
  <2>1. TokensOK'
    BY <1>5, SMTT(30) DEF StartReuse, WithinGrace, KnownTokens, UnusedIsNewest,
       GenerationsDistinct, ReplacementChain, Held, Unread
  <2>2. CallsOK'
    BY <1>5, SMTT(30) DEF Time, StartReuse, WithinGrace, RotationOwnsRows, ReuseIsLate,
       SweepIsComplete, KnownTokens, Live, Held, Unread
  <2>3. EndOK'
    BY <1>5, SMTT(30) DEF StartReuse, WithinGrace, SweepIsComplete,
       EndedSessionIsBarren, ActiveHasHead, RotationOwnsRows, ReuseIsLate,
       KnownTokens, Live, Held
  <2> QED
    BY <2>1, <2>2, <2>3
<1>6. ASSUME NEW p \in Request, StartRotation(p) PROVE IInv'
  <2>1. TokensOK'
    BY <1>6, SMTT(30) DEF StartRotation, KnownTokens, UnusedIsNewest,
       GenerationsDistinct, ReplacementChain, Held, Unread
  <2>2. CallsOK'
    BY <1>6, SMTT(30) DEF StartRotation, RotationOwnsRows, ReuseIsLate,
       SweepIsComplete, KnownTokens, Live, Held, Unread
  <2>3. EndOK'
    BY <1>6, SMTT(30) DEF StartRotation, SweepIsComplete, EndedSessionIsBarren,
       ActiveHasHead, RotationOwnsRows, ReuseIsLate, KnownTokens, Live, Held
  <2> QED
    BY <2>1, <2>2, <2>3
<1>7. ASSUME NEW p \in Request, TouchSession(p) PROVE IInv'
  <2>1. CASE Rollback(p)
    BY <2>1, RollbackStep
  <2>2. CASE ~Rollback(p)
    <3>1. TokensOK'
      BY <1>7, <2>2, SMTT(30) DEF TouchSession, StillActive, KnownTokens,
         UnusedIsNewest, GenerationsDistinct, ReplacementChain
    <3>2. CallsOK'
      BY <1>7, <2>2, SMTT(30) DEF TouchSession, StillActive, RotationOwnsRows,
         ReuseIsLate, SweepIsComplete, Live
    <3>3. EndOK'
      BY <1>7, <2>2, SMTT(30) DEF TouchSession, StillActive, SweepIsComplete,
         EndedSessionIsBarren, ActiveHasHead, RotationOwnsRows, KnownTokens, Live,
         Held
    <3> QED
      BY <3>1, <3>2, <3>3
  <2> QED
    BY <2>1, <2>2
<1>8. ASSUME NEW p \in Request, InsertReplacement(p) PROVE IInv'
  <2>1. CASE Rollback(p)
    BY <2>1, RollbackStep
  <2>2. CASE ~Rollback(p)
    <3>1. TokensOK'
      BY <1>8, <2>2, SMTT(30) DEF InsertReplacement, KnownTokens, UnusedIsNewest,
         GenerationsDistinct, ReplacementChain
    <3>2. CallsOK'
      BY <1>8, <2>2, SMTT(30) DEF InsertReplacement, RotationOwnsRows, ReuseIsLate,
         SweepIsComplete, Live
    <3>3. EndOK'
      BY <1>8, <2>2, SMTT(30) DEF InsertReplacement, SweepIsComplete,
         EndedSessionIsBarren, ActiveHasHead, RotationOwnsRows, KnownTokens, Live,
         Held
    <3> QED
      BY <3>1, <3>2, <3>3
  <2> QED
    BY <2>1, <2>2
<1>9. ASSUME NEW p \in Request, ConsumeToken(p) PROVE IInv'
  <2>1. CASE Rollback(p)
    BY <2>1, RollbackStep
  <2>2. CASE ~Rollback(p)
    <3>1. TokensOK'
      BY <1>9, <2>2, SMTT(30) DEF ConsumeToken, Consumable, KnownTokens,
         UnusedIsNewest, GenerationsDistinct, ReplacementChain
    <3>2. CallsOK'
      <4>1. /\ pc[p] = "consume" /\ pc' = [pc EXCEPT ![p] = "commit"]
            /\ tokenRow[seen[p].token] = Free
            /\ tokenRow' = [tokenRow EXCEPT ![seen[p].token] = p]
            /\ usedAt[seen[p].token] = NoTime /\ seen[p].token \notin revoked
            /\ UNCHANGED <<status, tokenVars, sessionRow, clock, seen>>
        BY <1>9, <2>2 DEF ConsumeToken, Consumable
      <4>2. seen[p].token \in Live /\ Live' = Live
        BY <4>1 DEF KnownTokens, Live
      <4>3. RotationOwnsRows'
        <5>1. ASSUME NEW q \in Request \ {p}, pc'[q] \in RotationTx
              PROVE  FALSE
          BY <4>1, <5>1 DEF RotationOwnsRows
        <5> QED
          BY <4>1, <4>2, <5>1 DEF RotationOwnsRows
      <4>4. ReuseIsLate'
        BY <4>1 DEF ReuseIsLate
      <4> QED
        BY <4>3, <4>4
    <3>3. EndOK'
      BY <1>9, <2>2, SMTT(30) DEF ConsumeToken, Consumable, SweepIsComplete,
         EndedSessionIsBarren, ActiveHasHead, RotationOwnsRows, KnownTokens, Live,
         Held
    <3> QED
      BY <3>1, <3>2, <3>3
  <2> QED
    BY <2>1, <2>2
<1>10. ASSUME NEW p \in Request, CommitRotation(p) PROVE IInv'
  <2>0. PICK old \in issued : old = seen[p].token
    BY DEF KnownTokens
  <2>1. PICK t \in Token :
          /\ t \notin issued
          /\ issued' = issued \cup {t}
          /\ generation' = [generation EXCEPT ![t] = generation[old] + 1]
          /\ replacedBy' = [replacedBy EXCEPT ![old] = t]
    BY <1>10, <2>0 DEF CommitRotation, NewToken, NextGeneration
  <2>2. /\ old \in issued /\ usedAt[old] = NoTime /\ old \notin revoked
        /\ usedAt[t] = NoTime /\ t \notin revoked
        /\ status = "ACTIVE" /\ sessionRow = p /\ tokenRow[old] = p
    BY <1>10, <2>0, <2>1 DEF CommitRotation, RotationOwnsRows, KnownTokens, Live
  <2>3. /\ usedAt' = [usedAt EXCEPT ![old] = now[p]]
        /\ now[p] # NoTime
        /\ UNCHANGED <<status, revoked, seen, clock>>
        /\ FreeRows(p)
        /\ pc' = [pc EXCEPT ![p] = "release"]
    BY <1>10, <2>0 DEF CommitRotation, Time
  <2>4. TokensOK'
    <3>1. KnownTokens'
      BY <2>1, <2>2, <2>3 DEF KnownTokens, FreeRows
    <3>2. \A u \in issued \ {old} : generation[u] < generation[old] /\ usedAt[u] # NoTime
      BY <2>2 DEF UnusedIsNewest
    <3>3. /\ \A u \in issued : generation'[u] = generation[u]
          /\ generation'[t] = generation[old] + 1
      BY <2>1, <2>2
    <3>4. UnusedIsNewest'
      BY <2>1, <2>2, <2>3, <3>2 DEF UnusedIsNewest
    <3>5. GenerationsDistinct'
      <4>1. ASSUME NEW u \in issued PROVE generation[u] < generation[old] + 1
        <5>1. generation[u] \in Nat /\ generation[old] \in Nat
          BY <2>2
        <5>2. u # old => generation[u] < generation[old]
          BY <3>2
        <5> QED
          BY <5>1, <5>2
      <4> QED
        BY <2>1, <3>3, <4>1 DEF GenerationsDistinct
    <3>6. ReplacementChain'
      <4>1. SUFFICES ASSUME NEW u \in issued', usedAt'[u] # NoTime
                     PROVE  /\ replacedBy'[u] \in issued'
                            /\ generation'[replacedBy'[u]] = generation'[u] + 1
        BY DEF ReplacementChain
      <4>2. u \in issued
        BY <2>1, <2>2, <2>3, <4>1
      <4>3. CASE u = old
        BY <2>1, <2>2, <3>3, <4>3
      <4>4. CASE u # old
        <5>1. usedAt[u] # NoTime /\ replacedBy'[u] = replacedBy[u]
          BY <2>1, <2>3, <4>1, <4>2, <4>4
        <5> QED
          BY <2>1, <3>3, <4>2, <5>1 DEF ReplacementChain
      <4> QED
        BY <4>3, <4>4
    <3> QED
      BY <3>1, <3>4, <3>5, <3>6
  <2>5. CallsOK'
    <3>1. \A q \in Request \ {p} : pc'[q] \notin RotationTx /\ pc'[q] # "commitReuse"
      BY <2>2, <2>3 DEF RotationOwnsRows, ReuseIsLate
    <3>2. RotationOwnsRows'
      BY <2>3, <3>1 DEF RotationOwnsRows
    <3>3. ReuseIsLate'
      BY <2>1, <2>2, <2>3, <3>1 DEF ReuseIsLate, KnownTokens
    <3> QED
      BY <3>2, <3>3
  <2>6. EndOK'
    <3>1. t \in Live'
      BY <2>1, <2>2, <2>3 DEF Live, KnownTokens
    <3> QED
      BY <2>2, <2>3, <3>1 DEF SweepIsComplete, EndedSessionIsBarren, ActiveHasHead, FreeRows
  <2> QED
    BY <2>4, <2>5, <2>6
<1>11. ASSUME NEW p \in Request, ScanFamily(p) PROVE IInv'
  <2>1. TokensOK'
    BY <1>11, SMTT(30) DEF ScanFamily, KnownTokens, UnusedIsNewest,
       GenerationsDistinct, ReplacementChain, Held, Unread
  <2>2. CallsOK'
    BY <1>11, SMTT(30) DEF ScanFamily, RotationOwnsRows, ReuseIsLate, SweepIsComplete,
       KnownTokens, Live, Held, Unread
  <2>3. EndOK'
    BY <1>11, SMTT(30) DEF ScanFamily, SweepIsComplete, EndedSessionIsBarren,
       ActiveHasHead, RotationOwnsRows, ReuseIsLate, KnownTokens, Live, Held
  <2> QED
    BY <2>1, <2>2, <2>3
<1>12. ASSUME NEW a \in Actor, NEW t \in Token, LockTokenRow(a, t) PROVE IInv'
  <2>1. TokensOK'
    BY <1>12, SMTT(30) DEF LockTokenRow, KnownTokens, UnusedIsNewest,
       GenerationsDistinct, ReplacementChain, Held, Unread
  <2>2. CallsOK'
    BY <1>12, SMTT(30) DEF LockTokenRow, RotationOwnsRows, ReuseIsLate,
       SweepIsComplete, KnownTokens, Live, Held, Unread
  <2>3. EndOK'
    BY <1>12, SMTT(30) DEF LockTokenRow, SweepIsComplete, EndedSessionIsBarren,
       ActiveHasHead, RotationOwnsRows, ReuseIsLate, KnownTokens, Live, Held
  <2> QED
    BY <2>1, <2>2, <2>3
<1>13. ASSUME NEW p \in Request, MarkCompromised(p) PROVE IInv'
  <2>1. TokensOK'
    BY <1>13, SMTT(30) DEF MarkCompromised, KnownTokens, UnusedIsNewest,
       GenerationsDistinct, ReplacementChain, Held, Unread
  <2>2. CallsOK'
    BY <1>13, SMTT(30) DEF MarkCompromised, RotationOwnsRows, ReuseIsLate,
       SweepIsComplete, KnownTokens, Live, Held, Unread
  <2>3. EndOK'
    BY <1>13, SMTT(30) DEF MarkCompromised, SweepIsComplete, EndedSessionIsBarren,
       ActiveHasHead, RotationOwnsRows, ReuseIsLate, KnownTokens, Live, Held
  <2> QED
    BY <2>1, <2>2, <2>3
<1>14. ASSUME NEW p \in Request, CommitReuse(p) PROVE IInv'
  <2>1. TokensOK'
    BY <1>14, SMTT(30) DEF Token, CommitReuse, FreeRows, KnownTokens, UnusedIsNewest,
       GenerationsDistinct, ReplacementChain, Held, Unread
  <2>2. CallsOK'
    BY <1>14, SMTT(30) DEF CommitReuse, FreeRows, RotationOwnsRows, ReuseIsLate,
       SweepIsComplete, KnownTokens, Live, Held, Unread
  <2>3. EndOK'
    BY <1>14, SMTT(30) DEF CommitReuse, FreeRows, SweepIsComplete,
       EndedSessionIsBarren, ActiveHasHead, RotationOwnsRows, ReuseIsLate,
       KnownTokens, Live, Held
  <2> QED
    BY <2>1, <2>2, <2>3
<1>15. ASSUME NEW p \in Request, ReleaseLock(p) PROVE IInv'
  <2>1. TokensOK'
    BY <1>15, SMTT(30) DEF ReleaseLock, KnownTokens, UnusedIsNewest,
       GenerationsDistinct, ReplacementChain, Held, Unread
  <2>2. CallsOK'
    BY <1>15, SMTT(30) DEF ReleaseLock, RotationOwnsRows, ReuseIsLate,
       SweepIsComplete, KnownTokens, Live, Held, Unread
  <2>3. EndOK'
    BY <1>15, SMTT(30) DEF ReleaseLock, SweepIsComplete, EndedSessionIsBarren,
       ActiveHasHead, RotationOwnsRows, ReuseIsLate, KnownTokens, Live, Held
  <2> QED
    BY <2>1, <2>2, <2>3
<1>16. ASSUME NEW r \in Revoker, NEW k \in RevokerKind, FindSession(r, k) PROVE IInv'
  <2>1. TokensOK'
    BY <1>16, SMTT(30) DEF FindSession, KnownTokens, UnusedIsNewest,
       GenerationsDistinct, ReplacementChain, Held, Unread
  <2>2. CallsOK'
    BY <1>16, SMTT(30) DEF FindSession, RotationOwnsRows, ReuseIsLate,
       SweepIsComplete, KnownTokens, Live, Held, Unread
  <2>3. EndOK'
    BY <1>16, SMTT(30) DEF FindSession, SweepIsComplete, EndedSessionIsBarren,
       ActiveHasHead, RotationOwnsRows, ReuseIsLate, KnownTokens, Live, Held
  <2> QED
    BY <2>1, <2>2, <2>3
<1>17. ASSUME NEW r \in Revoker, EndSession(r) PROVE IInv'
  <2>1. TokensOK'
    BY <1>17, SMTT(30) DEF EndSession, Endable, KnownTokens, UnusedIsNewest,
       GenerationsDistinct, ReplacementChain, Held, Unread
  <2>2. CallsOK'
    BY <1>17, SMTT(30) DEF EndSession, Endable, RotationOwnsRows, ReuseIsLate,
       SweepIsComplete, KnownTokens, Live, Held, Unread
  <2>3. EndOK'
    BY <1>17, SMTT(30) DEF EndSession, Endable, SweepIsComplete, EndedSessionIsBarren,
       ActiveHasHead, RotationOwnsRows, ReuseIsLate, KnownTokens, Live, Held
  <2> QED
    BY <2>1, <2>2, <2>3
<1>18. ASSUME NEW r \in Revoker, ScanTokens(r) PROVE IInv'
  <2>1. TokensOK'
    BY <1>18, SMTT(30) DEF ScanTokens, KnownTokens, UnusedIsNewest,
       GenerationsDistinct, ReplacementChain, Held, Unread
  <2>2. CallsOK'
    BY <1>18, SMTT(30) DEF ScanTokens, RotationOwnsRows, ReuseIsLate, SweepIsComplete,
       KnownTokens, Live, Held, Unread
  <2>3. EndOK'
    BY <1>18, SMTT(30) DEF ScanTokens, SweepIsComplete, EndedSessionIsBarren,
       ActiveHasHead, RotationOwnsRows, ReuseIsLate, KnownTokens, Live, Held
  <2> QED
    BY <2>1, <2>2, <2>3
<1>19. ASSUME NEW r \in Revoker, CommitRevocation(r) PROVE IInv'
  <2>1. TokensOK'
    BY <1>19, SMTT(30) DEF Token, CommitRevocation, EndStatus, FreeRows, KnownTokens,
       UnusedIsNewest, GenerationsDistinct, ReplacementChain, Held, Unread
  <2>2. CallsOK'
    BY <1>19, SMTT(30) DEF CommitRevocation, EndStatus, FreeRows, RotationOwnsRows,
       ReuseIsLate, SweepIsComplete, KnownTokens, Live, Held, Unread
  <2>3. EndOK'
    BY <1>19, SMTT(30) DEF CommitRevocation, EndStatus, FreeRows, SweepIsComplete,
       EndedSessionIsBarren, ActiveHasHead, RotationOwnsRows, ReuseIsLate,
       KnownTokens, Live, Held
  <2> QED
    BY <2>1, <2>2, <2>3
<1>20. ASSUME NEW a \in Actor, FailTx(a) PROVE IInv'
  <2>1. TokensOK'
    BY <1>20, SMTT(30) DEF FailTx, Abortable, FreeRows, KnownTokens, UnusedIsNewest,
       GenerationsDistinct, ReplacementChain, Held, Unread
  <2>2. CallsOK'
    BY <1>20, SMTT(30) DEF FailTx, Abortable, FreeRows, RotationOwnsRows, ReuseIsLate,
       SweepIsComplete, KnownTokens, Live, Held, Unread
  <2>3. EndOK'
    BY <1>20, SMTT(30) DEF FailTx, Abortable, FreeRows, SweepIsComplete,
       EndedSessionIsBarren, ActiveHasHead, RotationOwnsRows, ReuseIsLate,
       KnownTokens, Live, Held
  <2> QED
    BY <2>1, <2>2, <2>3
<1>21. ASSUME NEW p \in Request, Crash(p) PROVE IInv'
  <2>1. TokensOK'
    BY <1>21, SMTT(30) DEF Crash, FreeRows, KnownTokens, UnusedIsNewest,
       GenerationsDistinct, ReplacementChain, Held, Unread
  <2>2. CallsOK'
    BY <1>21, SMTT(30) DEF Crash, FreeRows, RotationOwnsRows, ReuseIsLate,
       SweepIsComplete, KnownTokens, Live, Held, Unread
  <2>3. EndOK'
    BY <1>21, SMTT(30) DEF Crash, FreeRows, SweepIsComplete, EndedSessionIsBarren,
       ActiveHasHead, RotationOwnsRows, ReuseIsLate, KnownTokens, Live, Held
  <2> QED
    BY <2>1, <2>2, <2>3
<1>22. CASE LockTtl
  <2>1. TokensOK'
    BY <1>22 DEF LockTtl, LockExpires, KnownTokens, UnusedIsNewest,
       GenerationsDistinct, ReplacementChain
  <2>2. CallsOK'
    BY <1>22 DEF LockTtl, LockExpires, RotationOwnsRows, ReuseIsLate, SweepIsComplete,
       Live
  <2>3. EndOK'
    BY <1>22 DEF LockTtl, LockExpires, SweepIsComplete, EndedSessionIsBarren,
       ActiveHasHead, Live, Held
  <2> QED
    BY <2>1, <2>2, <2>3
<1>23. CASE Tick
  <2>1. TokensOK'
    BY <1>23, SMTT(30) DEF Tick, KnownTokens, UnusedIsNewest, GenerationsDistinct,
       ReplacementChain, Held, Unread
  <2>2. CallsOK'
    BY <1>23, SMTT(30) DEF Time, Tick, RotationOwnsRows, ReuseIsLate, SweepIsComplete,
       KnownTokens, Live, Held, Unread
  <2>3. EndOK'
    BY <1>23, SMTT(30) DEF Tick, SweepIsComplete, EndedSessionIsBarren, ActiveHasHead,
       RotationOwnsRows, ReuseIsLate, KnownTokens, Live, Held
  <2> QED
    BY <2>1, <2>2, <2>3
<1>24. CASE UNCHANGED vars
  <2>1. TokensOK'
    BY <1>24 DEF vars, KnownTokens, UnusedIsNewest, GenerationsDistinct,
       ReplacementChain
  <2>2. CallsOK'
    BY <1>24 DEF vars, RotationOwnsRows, ReuseIsLate, SweepIsComplete, Live
  <2>3. EndOK'
    BY <1>24 DEF vars, SweepIsComplete, EndedSessionIsBarren, ActiveHasHead, Live,
       Held
  <2> QED
    BY <2>1, <2>2, <2>3
<1> HIDE <1>0 DEF IInv, TypeOK, TokensOK, CallsOK, EndOK, InTx, RotationTx, ReuseTx,
                 RevokeTx, RevokerKind, Token
<1> QED
  BY <1>1, <1>2, <1>3, <1>4, <1>5, <1>6, <1>7, <1>8, <1>9, <1>10, <1>11, <1>12, <1>13,
     <1>14, <1>15, <1>16, <1>17, <1>18, <1>19, <1>20, <1>21, <1>22, <1>23, <1>24 DEF
     Next, RequestStep, RevokerStep, Actor

-----------------------------------------------------------------------------
(* Invariants of every behaviour                                           *)

\* Every column, lock and program counter keeps its type.
THEOREM TypeCorrect == Spec => []TypeOK
<1>1. TypeOK /\ [Next]_vars => TypeOK'
  BY TypeStep
<1> QED
  BY TypeInit, <1>1, PTL DEF Spec

\* The inductive invariant holds throughout.
THEOREM Invariance == Spec => []IInv
  BY InvInit, InvStep, PTL DEF Spec

\* A race of any number of presenters, with any loss of the Redis lock, leaves
\* at most one exchangeable token.
THEOREM OneWinner == Spec => []SingleLiveToken
<1>1. IInv => SingleLiveToken
  <2> SUFFICES ASSUME IInv, NEW t \in Live, NEW u \in Live, t # u PROVE FALSE
    BY DEF SingleLiveToken
  <2>1. generation[u] < generation[t] /\ generation[t] < generation[u]
    BY DEF Live, IInv, TokensOK, UnusedIsNewest
  <2>2. generation[t] \in Nat /\ generation[u] \in Nat
    BY DEF Live, IInv, TypeOK
  <2> QED
    BY <2>1, <2>2
<1> QED
  BY Invariance, <1>1, PTL

\* Generations are unique even where the database does not enforce it.
THEOREM UniqueGenerations == Spec => []GenerationsDistinct
<1>1. IInv => GenerationsDistinct
  BY DEF IInv, TokensOK
<1> QED
  BY Invariance, <1>1, PTL

\* A used token always leads to a committed successor of the next generation.
THEOREM ChainIntact == Spec => []ReplacementChain
<1>1. IInv => ReplacementChain
  BY DEF IInv, TokensOK
<1> QED
  BY Invariance, <1>1, PTL

\* Logout, password change and expiry win against a rotation in flight.
THEOREM EndedIsBarren == Spec => []EndedSessionIsBarren
<1>1. IInv => EndedSessionIsBarren
  BY DEF IInv, EndOK
<1> QED
  BY Invariance, <1>1, PTL

-----------------------------------------------------------------------------
(* What a step may never do                                                *)

\* Only three commits write the session's status or its token rows.
LEMMA WhoWrites ==
  ASSUME [Next]_vars
  PROVE  \/ \E p \in Request : CommitRotation(p)
         \/ \E p \in Request : CommitReuse(p)
         \/ \E r \in Revoker : CommitRevocation(r)
         \/ UNCHANGED <<status, tokenVars>>
<1> USE DEF Rollback
<1>1. ASSUME NEW p \in Request, RequestStep(p), ~CommitRotation(p), ~CommitReuse(p)
      PROVE  UNCHANGED <<status, tokenVars>>
  BY <1>1 DEF RequestStep, AcquireLock, LockBusy, Reject, StartReuse, StartRotation,
     TouchSession, InsertReplacement, ConsumeToken, ScanFamily, MarkCompromised,
     LockTokenRow, ReleaseLock
<1>2. ASSUME NEW r \in Revoker, RevokerStep(r), ~CommitRevocation(r)
      PROVE  UNCHANGED <<status, tokenVars>>
  BY <1>2 DEF RevokerStep, EndSession, ScanTokens, LockTokenRow
<1>3. ASSUME NEW p \in Request, Crash(p) \/ \E t \in Token : Present(p, t)
      PROVE  UNCHANGED <<status, tokenVars>>
  BY <1>3 DEF Crash, Present
<1>4. ASSUME NEW r \in Revoker, NEW k \in RevokerKind, FindSession(r, k)
      PROVE  UNCHANGED <<status, tokenVars>>
  BY <1>4 DEF FindSession
<1>5. ASSUME NEW a \in Actor, FailTx(a)
      PROVE  UNCHANGED <<status, tokenVars>>
  BY <1>5 DEF FailTx
<1>6. CASE LockTtl \/ Tick \/ UNCHANGED vars
  BY <1>6 DEF LockTtl, Tick, vars
<1> QED
  BY <1>1, <1>2, <1>3, <1>4, <1>5, <1>6 DEF Next

\* What the three commits know when they write.
LEMMA CommitFacts ==
  ASSUME IInv
  PROVE  /\ \A p \in Request : CommitRotation(p) => status = "ACTIVE"
         /\ \A r \in Revoker : CommitRevocation(r) /\ status # "ACTIVE" => status' = status
         /\ \A p \in Request : CommitReuse(p) =>
              \E t \in issued : usedAt[t] # NoTime /\ usedAt[t] + Grace < clock
<1>1. ASSUME NEW p \in Request, CommitRotation(p)
      PROVE  status = "ACTIVE"
  BY <1>1 DEF CommitRotation, IInv, CallsOK, RotationOwnsRows, RotationTx
<1>2. ASSUME NEW r \in Revoker, CommitRevocation(r), status # "ACTIVE"
      PROVE  status' = status
  BY <1>2 DEF CommitRevocation, IInv, EndOK, SweepIsComplete
<1>3. ASSUME NEW p \in Request, CommitReuse(p)
      PROVE  \E t \in issued : usedAt[t] # NoTime /\ usedAt[t] + Grace < clock
  <2>1. seen[p].token \in issued
    BY DEF IInv, TokensOK, KnownTokens
  <2>2. usedAt[seen[p].token] # NoTime /\ usedAt[seen[p].token] + Grace < clock
    BY <1>3 DEF CommitReuse, IInv, CallsOK, ReuseIsLate, ReuseTx
  <2> QED
    BY <2>1, <2>2
<1> QED
  BY <1>1, <1>2, <1>3

\* No token is issued for a session that is no longer ACTIVE.
THEOREM NothingIssuedAfterEnd == Spec => NoIssueAfterEnd
<1>1. IInv /\ [Next]_vars => [issued' # issued => status = "ACTIVE"]_vars
  BY WhoWrites, CommitFacts DEF CommitReuse, CommitRevocation, tokenVars
<1> QED
  BY Invariance, <1>1, PTL DEF Spec, NoIssueAfterEnd

\* An ended session stays ended, and a compromised one stays compromised.
THEOREM EndsForGood == Spec => EndIsFinal
<1>1. IInv /\ [Next]_vars =>
        [status # "ACTIVE" => status' \in {status, "COMPROMISED"}]_vars
  BY WhoWrites, CommitFacts DEF CommitRotation, CommitReuse
<1> QED
  BY Invariance, <1>1, PTL DEF Spec, EndIsFinal

\* A replay inside the grace period never compromises the session.
THEOREM GraceIsHonoured == Spec => OnlyLateReplayCompromises
<1>1. IInv /\ [Next]_vars =>
        [status' = "COMPROMISED" /\ status # "COMPROMISED" =>
           \E t \in issued : usedAt[t] # NoTime /\ usedAt[t] + Grace < clock]_vars
  BY WhoWrites, CommitFacts DEF CommitRotation, CommitRevocation, EndStatus
<1> QED
  BY Invariance, <1>1, PTL DEF Spec, OnlyLateReplayCompromises

\* At most one token of the family is live, and none of an ended session.
THEOREM LiveTokens == Spec => []OneLiveToken
<1>1. SingleLiveToken /\ EndedSessionIsBarren => OneLiveToken
  BY DEF OneLiveToken
<1> QED
  BY OneWinner, EndedIsBarren, <1>1, PTL

\* Through rotations, replays, rollbacks and crashes the family stays one chain.
THEOREM Chain == Spec => []FamilyIsChain
<1>1. GenerationsDistinct /\ ReplacementChain => FamilyIsChain
  BY DEF FamilyIsChain
<1> QED
  BY UniqueGenerations, ChainIntact, <1>1, PTL

\* The end of a session is not undone, and nothing is issued after it.
THEOREM EndsHold == Spec => EndHolds
  BY NothingIssuedAfterEnd, EndsForGood DEF EndHolds

-----------------------------------------------------------------------------
(* Refinement                                                              *)

\* While the session is ACTIVE the family has exactly one exchangeable token.
LEMMA OneSpendable ==
  ASSUME IInv, status = "ACTIVE"
  PROVE  \E t \in issued : Live = {t}
<1>1. PICK t \in Live : TRUE
  BY DEF IInv, EndOK, ActiveHasHead
<1>2. ASSUME NEW u \in Live PROVE u = t
  BY DEF Live, IInv, TypeOK, TokensOK, UnusedIsNewest
<1> QED
  BY <1>1, <1>2 DEF Live

\* The statements, locks, crashes and replays of RefreshRotation implement the
\* rotating family of SessionFamily.
THEOREM Refinement == Spec => ImplementsFamily
<1>1. Init => Family!FamilyInit
  BY DEF Init, Family!FamilyInit, Spendable, Live
<1>2. ASSUME IInv, IInv', [Next]_vars PROVE [Family!FamilyNext]_(Family!family)
  <2>1. ASSUME NEW p \in Request, CommitRotation(p) PROVE Family!Rotate
    <3>1. status = "ACTIVE" /\ status' = "ACTIVE"
      BY <1>2, <2>1, CommitFacts DEF CommitRotation
    <3>2. PICK t \in issued : Live = {t}
      BY <1>2, <3>1, OneSpendable
    <3>3. seen[p].token = t
      BY <1>2, <2>1, <3>2 DEF CommitRotation, IInv, CallsOK, RotationOwnsRows
    <3>4. PICK n \in Token :
            /\ n \notin issued
            /\ issued' = issued \cup {n}
            /\ generation' = [generation EXCEPT ![n] = generation[t] + 1]
      BY <2>1, <3>3 DEF CommitRotation, NewToken, NextGeneration
    <3>5. usedAt[n] = NoTime /\ n \notin revoked /\ n # t
      BY <1>2, <3>4 DEF IInv, TokensOK, KnownTokens
    <3>6. usedAt' = [usedAt EXCEPT ![t] = now[p]] /\ now[p] # NoTime /\ revoked' = revoked
      BY <1>2, <2>1, <3>3 DEF CommitRotation, IInv, TypeOK
    <3>7. Live' = {n}
      <4>1. /\ usedAt'[n] = NoTime /\ usedAt'[t] # NoTime
            /\ \A u \in issued \ {t} : usedAt'[u] = usedAt[u]
        BY <1>2, <3>4, <3>5, <3>6 DEF IInv, TypeOK
      <4>2. \A u \in issued \ {t} : usedAt[u] # NoTime \/ u \in revoked
        BY <3>2 DEF Live
      <4> QED
        BY <3>4, <3>5, <3>6, <4>1, <4>2 DEF Live
    <3>8. generation'[n] = generation[t] + 1
      BY <1>2, <3>4 DEF IInv, TypeOK
    <3> QED
      BY <3>1, <3>2, <3>7, <3>8 DEF Family!Rotate, Spendable
  <2>2. ASSUME NEW p \in Request, CommitReuse(p) PROVE Family!Compromise
    BY <2>2 DEF CommitReuse, Family!Compromise, Spendable
  <2>3. ASSUME NEW r \in Revoker, CommitRevocation(r)
        PROVE  Family!End \/ UNCHANGED Family!family
    <3>1. CASE sessionRow = r
      BY <1>2, <2>3, <3>1 DEF CommitRevocation, EndStatus, IInv, EndOK,
         SweepIsComplete, Family!End, Spendable
    <3>2. CASE sessionRow # r
      BY <1>2, <2>3, <3>2 DEF CommitRevocation, IInv, EndOK, SweepIsComplete,
         Family!family, Spendable
    <3> QED
      BY <3>1, <3>2
  <2>4. CASE UNCHANGED <<status, tokenVars>>
    BY <2>4 DEF tokenVars, Family!family, Spendable, Live
  <2> QED
    BY <1>2, <2>1, <2>2, <2>3, <2>4, WhoWrites DEF Family!FamilyNext
<1> QED
  BY Invariance, <1>1, <1>2, PTL DEF Spec, ImplementsFamily, Family!FamilySpec
=============================================================================
