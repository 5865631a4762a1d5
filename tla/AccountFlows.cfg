\* Two calls at once in each flow.
SPECIFICATION FlowSpec
CONSTANTS
  Call = {c1, c2}
  Free = Free
  None = None
  Lookup = {l1}
  Nid = {n1}
  Email = {e1, e2}
  Key = {k1, k2}
  Ticket = {h1, h2}
  MaxAttempts = 1
  EmailToken = {t1, t2, t3, t4, t5}
  First = t1
  EmailTtl = 1
  EmailClock = 1
  AssertionToken = {1, 2, 3}
  NoToken = NoToken
  Orphan = Orphan
  NoTime = NoTime
  NoChallenge = NoChallenge
  ChallengeTtl = 2
  AssertionTtl = 1
  MaxChallenge = 1
  MaxClock = 2
  Rotator = rotator
  Content = {x, y}
  Session = {s1, s2}
  MaxVersion = 1
  RecordTtl = 1
  LimitedTtl = 2
  UpgradeClock = 1
  Credential = {a1}
  Flow = {f1, f2}
  Code = {r1, r2, r3}
  OldCode = {r1}
  MaxCounter = 2
INVARIANTS
  TypesHold
  SpentOnce
PROPERTIES
  AnswersHold
  PasskeysHold
  OlderEnd
  ImplementsLedger
  ImplementsTickets
  LockRecovers
  EveryCallEnds
