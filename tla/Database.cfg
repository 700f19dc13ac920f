SPECIFICATION DatabaseSpec
CHECK_DEADLOCK FALSE
CONSTANTS
  i1 = i1
  i2 = i2
  m1 = m1
  m2 = m2
  b1 = b1
  b2 = b2
  Instances = {i1, i2}
  OwnedShards <- SharedShard
  NumEvents = 1
  BatchSize = 1
  MaxRetries = 2
  MaxStarts = 2
  Procs = {p1, p2}
  Stmts = {s1, s2}
  Lookahead = 1
  DetachThreshold = 1
  Horizon <- JobHorizon
  MaxCrashes = 1
  Wal <- TwoCommits
  CdcSinks = {k1, k2}
  MaxReconnectAttempts = 2
  MaxProcesses = 2
  Clients = {c1, c2}
  MaxFailures = 2
  HalfOpenMax = 2
  Dialers = {d1, d2}
  DNSTTL = 2
  LookupTime = 2
  LastNow = 5
  MaxMoves = 2
  HealthCheckFreq = 2
  LastTick = 5
  Sessions = {u1, u2}
  Tenants = {t1, t2}
  Conns = {n1, n2}
  MaxEvents = 5
  Toggles <- FlagToggles
  Mismatched = {5}
  MaxSize = 2
  Rotators = {r1, r2}
  MaxStops = 2
  Assets = {x}
  ReconAttempts = 3
  Replicas = {f1, f2}
  RefreshTimeout = 2
  LastTime = 4
  MaxCycles = 2
  SendAttempts = 2
  Runners = {m1, m2}
  LocalVersions <- OlderRelease
  MaxFiles = 4
  AttemptTimeout = 3
  PingAttempts = 2
  ProbeTimeout = 10
  Handlers = {h1, h2}
  Jobs = {j1}
  JobWorkers = {b1, b2}
  MaxJobAttempts = 2
  PollSize = 1
  MaxConcurrency <- TwoAndOne
  MaxQueueDepth = 2
  MayExpire = {j1}
  MayStop = {b2}
INVARIANTS
  DatabaseTypeOK
  ShardExclusive
  ArchivedHasObject
  ReleasedIsAccounted
  ConnsComeBack
  SegmentsHoldTheChain
  AnsweredIsSaved
  FreshnessHonest
  SchemaMatchesRecord
  RetryBudget
  ServedWithinTTL
  OutageIsBounded
\* Further invariants that hold here: StopReturnsLocks, LeaderExclusive,
\* MarkedIsCreated, DecoderKnowsRelations,
\* HedgeHidesOneFailure, LogVerifies, WarehouseFollowsLog, MatchedMeansEqual,
\* KpiAllOrNothing, IncidentFollowsInflow, ValidDirIsComplete, LoadedIsUsable,
\* ReadyIsChecked, PoolOutlivesRequests, NoLeakedLock.
\* Further properties that hold here: CommitHolds.
