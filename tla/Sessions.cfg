\* Two refresh calls and a revocation, and whatever the tokens they make lead to; two logins
\* or changes and an upgrade over two sessions.
SPECIFICATION SessionsSpec
SYMMETRY Interchangeable
CONSTANTS
  p1 = p1
  p2 = p2
  r1 = r1
  Request = {p1, p2}
  Revoker = {r1}
  Free = Free
  Orphan = Orphan
  NoTime = NoTime
  NoToken = NoToken
  Grace = 1
  SessionTtl = 3
  GenerationUnique = FALSE
  MaxToken = 3
  MaxClock = 3
  u1 = u1
  s1 = s1
  s2 = s2
  a = a
  b = b
  Upgrader = {u1}
  Password = {a, b}
  Initial = a
  Reset = {}
  Session = {s1, s2}
  NoReset = NoReset
INVARIANTS
  TypeOK
  OneLiveToken
  FamilyIsChain
  LockoutBound
PROPERTIES
  EndHolds
  OnlyLateReplayCompromises
  ImplementsFamily
  ChangesHold
