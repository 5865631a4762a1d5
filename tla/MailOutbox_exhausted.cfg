\* Two replicas with one process id, two events sent one after the other, a crash.
SPECIFICATION Spec
CONSTANTS
  Worker = {w1, w2}
  Event = {1, 2}
  MaxAttempts = 2
  BatchSize = 1
  Concurrency = 1
  PidsDiffer = FALSE
  MaxCrash = 1
  Nobody = Nobody
INVARIANT ExhaustedIsDead
