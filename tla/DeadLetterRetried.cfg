\* One worker, one event, no faults.
SPECIFICATION OutboxWorkerSpec
CHECK_DEADLOCK FALSE
CONSTANTS
  Workers = {w1}
  MaxId = 1
  BatchSize = 1
  MaxRetries = 2
  ErrLimit = 1
  MaxWorkerFaults = 0
INVARIANTS
  DeadLetterIsFinal
