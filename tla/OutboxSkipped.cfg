\* Two publishers, no fault, a backlog of two events fetched as one batch.
SPECIFICATION BacklogSpec
CONSTANTS
  Publishers = {p1, p2}
  MaxId = 2
  BatchSize = 2
  MaxRetries = 2
  MaxFaults = 0
INVARIANTS
  CompletedIsDelivered
CHECK_DEADLOCK FALSE
