CONSTANTS
  c1 = c1
  j1 = j1
  Call = {c1}
  Job = {j1}
  Free = Free
  NoTime = NoTime
  NoAttempt = NoAttempt
  NumberUnique = FALSE
  MaxAttempts = 2
  Window = 2
  RetryDelay = 1
  Stale = 1
  MaxAttempt = 2
  MaxStart = 1
  MaxClock = 1
SPECIFICATION Spec
SYMMETRY CallSymmetry
CHECK_DEADLOCK FALSE
PROPERTY ExpiredIsFinal
