\* A legacy object and one to upload; two replicas with batches of one; two lookups of one
\* national id or of two; four callers of two slots; two requests and two counters.
SPECIFICATION BackgroundSpec
CONSTANTS
  Number = {1, 2}
  Replica = {c1, c2}
  Call = {c1, c2}
  Legacy = {1}
  Worker = {w1}
  Decision = request
  Token = {t1, t2}
  Session = {s1}
  Event = {e1}
  MaxFailures = 1
  Nobody = Nobody
  Batch = 1
  Citizen = {1}
  MaxRetries = 1
  Threshold = 2
  Caller = {c1, c2, c3, c4}
  Maximum = 2
  Request = {p1, p2}
  Key = {k1, k2}
  Limit = 1
INVARIANTS
  TypesHold
  HeldStay
  OneCycleUnlessLapsed
  BreakerHolds
  LimitsHold
  SlotsComeFree
PROPERTIES
  LookupsShare
  DeletesWhatMayGo
  BacklogEnds
  Recovers
