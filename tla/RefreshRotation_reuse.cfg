CONSTANTS
  p1 = p1
  p2 = p2
  Request = {p1, p2}
  Revoker = {}
  Free = Free
  Orphan = Orphan
  NoTime = NoTime
  NoToken = NoToken
  Grace = 1
  SessionTtl = 4
  GenerationUnique = TRUE
  MaxToken = 3
  MaxClock = 3
SPECIFICATION Spec
INVARIANT CompromisedFamilyIsRevoked
