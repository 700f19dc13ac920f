\* Two workers with one slot each; no lock expires and no worker stops.
SPECIFICATION JobWorkerSpec
CHECK_DEADLOCK FALSE
CONSTANTS
  Jobs = {j1}
  w1 = w1
  w2 = w2
  JobWorkers = {w1, w2}
  MaxJobAttempts = 2
  PollSize = 1
  MaxConcurrency <- OneEach
  MaxQueueDepth = 2
  MayExpire = {}
  MayStop = {}
INVARIANTS
  CompletedRunsNoMore
