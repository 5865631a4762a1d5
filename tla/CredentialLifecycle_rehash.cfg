CONSTANTS
  c1 = c1
  c2 = c2
  r1 = r1
  s1 = s1
  a = a
  b = b
  Call = {c1, c2}
  Upgrader = {}
  Password = {a, b}
  Initial = a
  Reset = {r1}
  Session = {s1}
  Free = Free
  NoTime = NoTime
  NoReset = NoReset
  Threshold = 2
  LockTicks = 1
  MaxHash = 2
  MaxFailed = 1
  MaxClock = 0
SPECIFICATION Spec
SYMMETRY Interchangeable
PROPERTY OnlyChangesChangePassword
