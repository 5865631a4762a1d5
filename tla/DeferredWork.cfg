\* Two replicas with one process id, two events sent one after the other, a crash; one
\* enrolling call and a job, two attempts.
SPECIFICATION DeferredSpec
\* Attempts are a bounded number of rows and the clock stops.
CHECK_DEADLOCK FALSE
CONSTANTS
  Worker = {w1, w2}
  Event = {1, 2}
  MaxAttempts = 2
  BatchSize = 2
  Concurrency = 1
  PidsDiffer = FALSE
  MaxCrash = 1
  Nobody = Nobody
  Call = {c1}
  Job = {j1}
  Free = Free
  NoTime = NoTime
  NoAttempt = NoAttempt
INVARIANTS
  TypesHold
  SettledTruly
PROPERTIES
  MailsSettle
  StuckAttemptsEnd
