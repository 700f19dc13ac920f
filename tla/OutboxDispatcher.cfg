\* Two publishers, two events in either order, two faults of any kind.
SPECIFICATION Spec
CONSTANTS
  Publishers = {p1, p2}
  MaxId = 2
  BatchSize = 2
  MaxRetries = 2
  MaxFaults = 2
SYMMETRY Symmetry
CHECK_DEADLOCK FALSE
INVARIANTS
  ProgressIsDelivered
PROPERTIES
  ImplementsContract
\* Further invariants that hold here: TypeOK, CompletedMeansReached,
\* BackoffCountsFailures.
\* Further properties that hold here: CompletedIsFinal.
