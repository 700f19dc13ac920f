SPECIFICATION ProgressSpec
CHECK_DEADLOCK FALSE
CONSTANTS
  s1 = s1
  s2 = s2
  k1 = k1
  k2 = k2
  k3 = k3
  m1 = m1
  b1 = b1
  b2 = b2
  p1 = p1
  r1 = r1
  r2 = r2
  byId = byId
  byTenant = byTenant
  Workers = {w1, w2}
  MaxId = 2
  BatchSize = 2
  MaxRetries = 2
  ErrLimit = 1
  MaxWorkerFaults = 2
  N = 3
  MaxStepAttempts = 2
  NeedsContext <- FirstStep
  MaxCrashes = 2
  MaxSagaFaults = 2
  MaxBegins = 3
  NoRow = NoRow
  InboxWorkers = {v1, v2}
  MaxRow = 4
  Source <- RowSources
  Key <- RowKeys
  Poison <- PoisonRows
  BatchLimit = 2
  MaxInboxAttempts = 2
  MaxInboxFaults = 2
  Runners = {m1}
  LocalVersions <- OneRelease
  MaxFiles = 1
  AttemptTimeout = 3
  PingAttempts = 2
  ProbeTimeout = 10
  Handlers = {h1, h2}
  Jobs = {j1}
  JobWorkers = {b1, b2}
  MaxJobAttempts = 2
  PollSize = 1
  MaxConcurrency <- OneEach
  MaxQueueDepth = 2
  MayExpire = {j1}
  MayStop = {b2}
  CacheMiss = CacheMiss
  Replicas = {p1}
  Readers = {r1, r2}
  Home <- BothOnFirst
  KeyOrder <- TwoKeys
INVARIANTS
  ClaimIsCurrent
  TerminalIsAllOrNothing
  StoredInSourceOrder
PROPERTIES
  WaitingIsClaimed
  PendingIsSettled
  SignalEndsProcess
  EventuallySettled
  ReadReturns
\* Further invariants that hold here: ProgressTypeOK, ExclusiveClaim,
\* CompletedIsDelivered, EarlierStepsRecorded, ProcessedIsStored,
\* NoLeakedLock.
\* Further properties that hold here: CompletedIsFinal.
