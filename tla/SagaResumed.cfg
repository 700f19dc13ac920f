\* Two steps without retries, one crash, a reliable store.
SPECIFICATION SagaSpec
CONSTANTS
  N = 2
  MaxStepAttempts = 0
  NeedsContext <- FirstStep
  MaxCrashes = 1
  MaxSagaFaults = 0
  MaxBegins = 3
INVARIANTS
  CompletedHasEffects
CHECK_DEADLOCK FALSE
