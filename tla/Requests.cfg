SPECIFICATION RequestsSpec
CHECK_DEADLOCK FALSE
CONSTANTS
  l1 = l1
  l2 = l2
  l3 = l3
  p1 = p1
  e1 = e1
  e2 = e2
  n1 = n1
  n2 = n2
  u1 = u1
  byId = byId
  byTenant = byTenant
  Editors = {d1, d2}
  MaxVersion = 3
  Loads = {l1, l2, l3}
  LoadId <- LoadedIds
  MaxBatch = 2
  Streams = {w1, w2}
  SendCap = 1
  BroadcastCap = 1
  Burst = 2
  RefillEvery = 2
  IdleTTL = 3
  RouteLimit = 1
  LimitRequests = {q1, q2}
  BaseLockout = 1
  MaxLockout = 4
  CleanupEvery = 3
  MaxAttempts = 4
  LastClock = 6
  Askers = {a1, a2, a3}
  RefreshLimit = 2
  KeyTTL = 3
  NegativeTTL = 1
  SecretTTL = 5
  EventTTL = 5
  LastMoment = 7
  MaxRotations = 1
  Ratio = 2
  MaxPlain = 3
  MaxCompressed = 4
  MaxSent = 5
  MinCompress = 2
  MaxUnits = 3
  Togglers = {g1, g2, g3}
  LastNano = 4
  StatementPage = 2
  MaxRowWrites = 2
  Rows <- SixRows
  PageLimit = 2
  MaxCreated = 4
  SubUnits = 4
  RateUnits = 4
  MaxAmount = 40
  MaxParts = 5
  MaxTokens = 4
  MaxLeaves = 3
  Traces = {t1, t2}
  Children = 1
  TailTraces = 1
  TailSpans = 1
  TailWindow = 2
  FraudWindow = 4
  FraudBuckets = 2
  FraudThreshold = 2
  FraudCooldown = 3
  LastInstant = 9
  Requests = {r1, r2, r3}
  Payloads = {p1, p2}
  MaxCrashes = 1
  MaxFaults = 1
  MaxExpiries = 1
  Exports = {e1, e2}
  TenantOf <- ExportTenants
  PendingCap = 1
  ExportRetries = 1
  LastSecond = 1
  MaxKeys = 2
  Callers = {c1, c2, c3}
  MinLimit = 1
  MaxLimit = 3
  Weight <- DefaultLaneWeights
  StarvationLimit = 10
  MaxDepth = 2
  CacheMiss = CacheMiss
  Replicas = {n1, n2}
  Readers = {u1}
  Home <- ReaderOnFirst
  KeyOrder <- TwoKeys
INVARIANTS
  RequestsTypeOK
  FlowOutcomeHolds
  HubNeverPanics
  AdmissionBounded
  LockoutHolds
  ResponseIsFaithful
  ExportIsTheTenants
  GatesAgree
  CursorWalkIsWhole
  ProrationIsExact
  FilterRoundTrip
  WantedSpansOnce
  EffectAtMostOnce
  ExportOutcomeIsTrue
  CompletedReachedAll
  MissedWriteIsRecognised
PROPERTIES
  IssuerIsSpared
\* Further invariants that hold here: NoLostStatus, LoadsAreServed,
\* InflightBounded, OneFetchPerSecret, JoinedHasLeader, IntactBodyIsWhole,
\* TogglesFlip, DeletedStaysHidden, PreviousLeadsBack,
\* OffsetWalkMissesNone, TaxIsNearest, UnreadFollowsParenthesis,
\* TailIsBounded, CountWithinWindow, HotTenantIsReported,
\* ReplayIsForSameRequest, AcceptedIsStored, SensitiveIsSealed,
\* NoLimiterStall, OuterLanesServed.
\* Further properties that hold here: RepeatsAreApart, StoredResponseIsStable.
