\* Two logins, resets or changes at once, two reset tokens, a session.
SPECIFICATION CallsSpec
CONSTANTS
  Call = {c1, c2}
  Upgrader = {}
  Password = {a, b}
  Initial = a
  Reset = {r1, r2}
  Session = {s1}
  Free = Free
  NoTime = NoTime
  NoReset = NoReset
  Threshold = 2
  LockTicks = 1
  MaxHash = 2
  MaxFailed = 1
  MaxClock = 0
INVARIANTS
  TypeOK
PROPERTIES
  ChangesStand
  ChangeEndsSessions
  CallsEnd
