# Verification of the Stellabill backend

TLA+ models of the parts of the backend that keep state across requests,
processes and failures, the configurations that check them with TLC, and proofs
that TLAPS checks for every value of the constants. `PROJECT.json` lists the
runs, the lines of code behind each definition, the mutants that show each
property can fail, the hazards, and the theorems.

    tlc -workers 2 -config Requests.cfg MCRequests
    tlapm OutboxDispatcherProofs.tla

## The system and its parts

The backend is a Go service over PostgreSQL. A request passes limits,
credential checks, compression and feature gates, is handled once per
idempotency key, and reaches services and repositories, which read through
caches, replicas and a circuit breaker. It leaves events in an outbox, audit
entries in a hash chain and jobs in queues. Background processes deliver the
outbox, run billing jobs and sagas, take in webhooks, refresh views and gauges,
archive statements, roll partitions over, export a tenant's data and copy
changes out of the write-ahead log. Several replicas run all of this at once;
advisory locks, row locks and versions are what keeps them apart.

| Part of the code | Module |
|---|---|
| `internal/outbox` dispatcher and repository | OutboxDispatcher, OutboxContract |
| `internal/outbox` sharded dispatcher | ShardedDispatcher |
| `internal/outbox` service, manager, publishers, limiter | OutboxService |
| `internal/worker` outbox polling worker | OutboxWorker |
| `internal/worker` billing worker, lane scheduler | JobWorker, LaneScheduler |
| `internal/worker` webhook inbox | WebhookInbox |
| `internal/worker` leader guard, archive and rollover jobs | ScheduledJobs |
| `internal/worker` refreshes, ANALYZE, dead-letter watcher; PagerDuty client | RefreshJobs |
| `internal/audit`, audit export job | AuditTrail |
| `internal/saga` | SagaCoordinator, Subscriptions (the cancel flow) |
| `internal/cdc` | ChangeCapture |
| `internal/db`, `internal/httpx` | CircuitBreaker, DatabaseReads |
| `internal/migrations`, `internal/config`, health probes, `cmd/server` | Lifecycle |
| `internal/reconciliation` | Reconciliation |
| subscription service, state machine, batch loader, event stream | Subscriptions |
| subscription and statement details, statement export | Details |
| listings, cursors, offsets | Listings |
| list filters (`internal/requestparams/rsql.go`) | FilterParser |
| fees | Fees |
| tenant export, object store client | TenantExport |
| rate, tenant and in-flight limits, account lockout | RequestLimits |
| key cache, secret cache, replay caches | Credentials |
| request and response compression, recovery, flag toggles | Responses |
| feature flags and gates | FeatureGates |
| idempotency middleware | Idempotency |
| read-through caches | ReadCache |
| tail sampling, fraud window | Telemetry |

`PROJECT.json` lists every part with its status and what is left out.

## Modules

Each component is a module. `MC` modules instantiate components for TLC;
`...Proofs` modules hold the theorems. Operators with a suffix such as
`Mark_Skipped` are the mutated forms of a definition; no specification uses
them. A module that holds several parts which share no state has a variable
(`jobKind`, `lifeKind`, `subKind`...) that chooses one part at the start and
never changes.

**OutboxDispatcher**, **OutboxContract**. An event is its id; ids are random
UUIDs compared by the SQL, so they are numbers stored in any order. `DrainFetch`
is the query of `GetPendingEventsForPublisher`, `PublishSucceeds`,
`PublishFails` and `PublishTimesOut` are the ways a publish ends,
`MarkPublishedReads` and `MarkPublishedCommits` are the two halves of the
transaction that advances the progress row, because two of them may overlap
under READ COMMITTED. `LatePublishArrives` is the goroutine that outlives its
timeout. OutboxContract is the life cycle promised to users: only the status
and the progress, no goroutines, batches or failures. The dispatcher implements
it: `Contract` instantiates it with the two tables and hides the rest
(`ImplementsContract`).

**OutboxWorker**. `ClaimSelects` takes row locks (`SKIP LOCKED`) and
`ClaimCommits` sets `processing`; a claimed event carries the retry count that
was read. `handleFailure` and `markCompleted` keep their names.

**JobWorker**. The store, the locks, the poll loop (`pick`) and the goroutine
slots (`exec`). A lock may expire at any time between two steps, and a poll may
pick a job again whose earlier copy still waits for a slot.

**LaneScheduler**. `Next` of the scheduler over the depth of each lane; the
history variable `waited` counts picks that passed over a non-empty lane.

**SagaCoordinator**. `row` and `result` are the two tables, `effect` is the set
of steps in force outside. Saving is a step that may fail; a crash may fall
between any two steps. `loose` records the steps whose effect and record were
separated, or whose compensation failed.

**Idempotency**. One key and all requests that carry it. A request looks the key
up, inserts, runs the handler and stores the response in separate steps.

**WebhookInbox**. The claim is one statement and one step; routing (which
stores the outbox event) and saving the status are separate statements and
separate steps. The insertion of a row by a receiver is external.

**ReadCache**. One object under two keys, a cache shared by replicas,
invalidation times and mutexes local to a replica. Instead of values and clock
times an envelope carries what staleness depends on: the writes its data lacks,
the replicas that invalidated after its `StoredAt`, and the writes that fell
between reading the row and `StoredAt`. No counter has to be bounded. One write
at a time per replica is modelled.

**ShardedDispatcher**. `StartCalled`, the locking of the shards one by one, the
heartbeat, the drain and `Stop` of each instance. A session advisory lock counts
how often it was taken, dies with its session and survives in a connection that
goes back to the pool, so `held` and `pooled` are counts. The drain works on
`list`, the copy of `owned` it took.

**OutboxService**. `PublishEvent` and `PublishEventWithTx`, what the manager
builds from its configuration, `MultiPublish`, the transports with lost
acknowledgements (HTTP, Kafka and console, the ones `NewService` builds),
`JWEPublish` with subscriber keys that rotate, requeueing; and
the calls of Gradient2Limiter, whose limit is kept as a whole number.

**ScheduledJobs**. The leader guard is an advisory lock per job; its holder may
lose the session without noticing, and a job whose locker could not be made has
no guard and runs its body without one. Archiving a statement is `PutObject`,
the UPDATE and the clean-up Delete, each of which may fail, the upload also after
the object was stored. Months are counted, and a row or partition is its month.

**RefreshJobs**. The fee view and its freshness row, refreshed by several
replicas, one of which waits for the lock the other's REFRESH holds; the KPI
cycle as one query per gauge; the ANALYZE loop; the watcher with the attempts of
the PagerDuty client.

**AuditTrail**. An event is its number, its hash stands for itself and its
predecessor. The file sink, its restart and its torn writes; the nightly copy to
the warehouse; the WORM exporter with overlapping rotations, each of which takes
the buffer, verifies it, and uploads it with the lock released.

**ChangeCapture**. The log is a sequence of changes and commits. The server
sends what was not confirmed, each session announces tables again, the sinks
fail for any change.

**CircuitBreaker**. gobreaker (external) with generations, and what `internal/db`
and `internal/httpx` wrap around it: calls, rows and transactions, each with what
it answers when the breaker refuses; the DNS cache of `internal/httpx`.

**DatabaseReads**. Hedged queries with two attempts and a timer; the router, whose
readers share a health result that is found in two steps; the nine operations of
RLSPool and RLSDB and what their results do, one action each, with every error
branch as it is written.

**Reconciliation**. `Compare` over records whose fields and balances differ or
are missing, checked against equality; the attempts around fetching and saving;
the handler with and without a store.

**Lifecycle**. Runners of two releases, with every statement failing or losing
its connection; the directory rules; the configuration with unset, invalid and
boundary values; the readiness probe in units of time; the server from its
construction to its exit with requests that may hang.

**Subscriptions**. One row, two editors and ChangeStatus, which has no version;
the cancel flow over the same row, whose steps call the same ChangeStatus and may
fail after their write; the loader with its timer; the hub with its channels.

**Details**, **Listings**, **FilterParser**, **Fees**. Handlers that make
several queries outside a transaction while rows are written; walks over lists
that change; the recursive-descent parser of filters against a printer of
syntax trees; integer arithmetic in parts of a minor unit.

**RequestLimits**, **Credentials**, **Responses**, **FeatureGates**,
**Telemetry**, **TenantExport**. Time is a clock that ticks up to a bound;
bodies are counted in units, raw or encoded; secrets, keys and traces are model
values; a tenant's limiters are the ones made one after the other, as a request
may still hold one that was evicted; the export manager's unsynchronised map is a
step at a time, and where the Go runtime would notice concurrent use the process
ends; the job, its operation and its bundle are updated in separate steps.

## Runs

Twelve runs, five of which pass. Three of the passing ones put several
components side by side: a behaviour chooses one of them (`focus`) and the others
stay in an initial state, so that the states add up rather than multiply. This is
sound because they share no variable.

| Run | Components | States | Time |
|---|---|---|---|
| `outbox_dispatcher` | OutboxDispatcher against OutboxContract | 472,577 | 20 s |
| `outbox_dispatcher_live` | OutboxDispatcher with fairness | 76,532 | 30 s |
| `progress` | OutboxWorker, JobWorker, SagaCoordinator, WebhookInbox, ReadCache, the server, with fairness | 162,536 | 2.5 min |
| `requests` | Subscriptions, RequestLimits, Credentials, Responses, Details, FeatureGates, Listings, Fees, FilterParser, Telemetry, Idempotency, TenantExport, OutboxService, LaneScheduler, ReadCache | 746,260 | 1.5 min |
| `database` | ShardedDispatcher, ScheduledJobs, JobWorker, ChangeCapture, CircuitBreaker, DatabaseReads, AuditTrail, Reconciliation, RefreshJobs, Lifecycle | 1,487,033 | 2 min |
| `outbox_skipped`, `dead_letter_retried`, `job_executed_again`, `lane_scheduler_normal`, `saga_resumed`, `status_transitions`, `released_changes` | one property each, violated; see the deviations | | |

Deadlock is not checked where the bounded work may be finished.

### What the passing runs show

Each run checks the properties that say most about its components; the comment
above a definition states it and names the code it is about. The modules state
further properties of the same instances, which the cfg files name in a comment:
TLC confirms them when they are added to the cfg. Those of OutboxDispatcher,
OutboxWorker and SagaCoordinator are proved as well, see below;
`ImplementsContract` implies `CompletedMeansReached` and `CompletedIsFinal`.

`outbox_dispatcher`:

- `ProgressIsDelivered` (OutboxDispatcher): The progress row of a publisher
  names an event that this publisher has delivered: a crash or a failed
  transaction never records an event that was not sent (drainOnceForPublisher
  marks after pub.Publish returns nil).
- `ImplementsContract` (OutboxDispatcher): The dispatcher implements the
  contract: every step on its tables is a step of OutboxContract or leaves them
  as they are.

`outbox_dispatcher_live`:

- `NoPublisherStalls` (OutboxDispatcher): While the dispatcher stays up, each
  publisher gets past every pending event or the event is dead-lettered: a
  failing event does not block a publisher for ever (failCount, MaxRetries),
  nor does a failing publisher another one, wherever in a batch the event is.

`progress`:

- `ClaimIsCurrent` (OutboxWorker): What a worker holds in memory agrees with
  the row: it is 'processing' and nobody has changed the retry count since the
  claim, so handleFailure does not write back a stale count.
- `WaitingIsClaimed` (OutboxWorker): As long as one worker stays up and the
  batch is not smaller than the backlog, a pending event, and a failed one that
  has attempts left, is claimed: handleFailure gives every event it does not
  dead-letter a retry time.
- `EventuallySettled` (JobWorker): While one worker keeps polling and the queue
  stays below MaxQueueDepth, every job ends completed or dead-lettered and
  stays there, although stale copies may bring a finished job back for a while.
- `ReadReturns` (ReadCache): A reader that waits for the per-key mutex, or
  holds it, returns: the mutex is released when the loader fails and when the
  second look hits.
- `TerminalIsAllOrNothing` (SagaCoordinator): A saga saved as completed has the
  effect of every step in force, and one saved as compensated of none, through
  crashes, resumptions and lost writes; the exceptions are the steps whose
  effect and record were separated or whose compensation failed.
- `StoredInSourceOrder` (WebhookInbox): The outbox receives the events of one
  source in the order in which the source's rows were created, and no row's
  event twice, whatever workers, retries, lost replies and crashes do: this is
  what the NOT EXISTS of the claim query is for.
- `PendingIsSettled` (WebhookInbox): As long as no statement is lost and no
  process stops, every row that arrived is processed or failed in the end: a
  poison row uses up its attempts and then lets the rest of its source through.
- `SignalEndsProcess` (Lifecycle): After the signal the process exits, although
  requests may hang for ever and hold their connections: every wait of the
  shutdown has a timeout.

`requests`:

- `RequestsTypeOK` (MCRequests): Every variable of the components has values of
  its type.
- `FlowOutcomeHolds` (Subscriptions): The flow's outcome is true: done means
  cancelled with a refund; compensated means that the subscription has the
  status it had before, unless the step ran a second time after a restart or
  the error that ended it came after the write; and no outcome leaves a refund
  beside a subscription that goes on.
- `HubNeverPanics` (Subscriptions): The hub and the pumps close every Send
  channel once and never use it after.
- `AdmissionBounded` (RequestLimits): A bucket lets through at most the burst
  and what has been refilled since. A tenant may get a new limiter, and with it
  a new burst, but only once in more than IdleTTL, and requests in the middle
  of Allow may still use the old ones, however requests, refills and eviction
  interleave.
- `LockoutHolds` (RequestLimits): A lockout holds for as long as the failure
  announced: no other request that looks at an older, expired entry takes it
  away.
- `ResponseIsFaithful` (Responses): What is on the wire is the handler's
  response, however it was written in pieces, buffered below the threshold,
  encoded or broken off: every unit of the body once, in the encoding the header
  names, under the status the handler asked for (the first one with compression,
  the last one before the body without); an error body stands alone.
- `ExportIsTheTenants` (Details): An export of which the URL is handed out holds
  the customer's statements with the tenant and no other's: every one that was
  there when the request began, unless the page was cut at statementPageSize or
  the subscription was removed.
- `GatesAgree` (FeatureGates): Unless a flag is overridden, toggled against the
  environment, forced on or defined nowhere with a default of true (`Apart`),
  every gate in front of a route decides alike, the combined ones included, after
  any order of toggles, overrides and reloads, and for flags the program defines
  as for those only the environment does; and the last two reasons do part the
  gates when nothing else decides.
- `CursorWalkIsWhole` (Listings): A cursor walk returns no row twice, and when
  it has ended it has returned every row that was there from beginning to end,
  whatever was inserted or removed between its pages: the cursor names the last
  row returned, by sort value and id, and that row need not exist any more.
- `ProrationIsExact` (Fees): The parts of a prorated fee are as many as asked
  for, none is negative, no two differ by more than one minor unit, and
  together they are exactly the rounded fee (ProrateFee's documented
  invariants).
- `FilterRoundTrip` (FilterParser): Every expression written by the grammar is
  parsed to itself: ";" binds tighter than ",", both associate to the left, and
  parentheses override both.
- `WantedSpansOnce` (Telemetry): A slow, failed or head-sampled request is
  never lost to the sampler's memory caps, and nothing is exported twice or for
  another request: the root span of a wanted trace is exported once it has
  ended, whether the trace was still buffered, had hit the span cap, had been
  evicted by newer traces or had already been decided against; every other span
  of it at most once, although root, decision window, flush and eviction may
  each decide the trace.
- `EffectAtMostOnce` (Idempotency): Within the TTL of a key its handler takes
  effect at most once, although lookups race before the row exists, the process
  may die anywhere and the response may not be stored.
- `ExportOutcomeIsTrue` (TenantExport): What a client is told about its export
  is true: a completed job's URL leads to its own bundle, the operation is never
  ahead of the job, and once the job has ended the operation tells its outcome,
  unless the PostgreSQL store missed the update.
- `CompletedReachedAll` (OutboxService): A completed event reached every sink
  its configuration names, over any number of attempts: also when one publisher
  of a MultiPublisher failed and the other did not, and when answers were lost.
- `MissedWriteIsRecognised` (ReadCache): Whatever replicas have finished
  writing, an entry that lacks the write is one the writing replica recognises
  as stale (StoredAt before invalidatedAt), even when deleting it from the
  cache failed or a reader put it back afterwards.
- `IssuerIsSpared` (Credentials): A caller whose refresh ended, failed ones
  included, sends no other to the issuer within the refresh limit, however many
  callers refresh meanwhile: "so a persistently broken issuer is still
  rate-limited" (jwks_cache.go:148-150).

`database`:

- `DatabaseTypeOK` (MCDatabase): Every variable of the components has values of
  its type.
- `ShardExclusive` (ShardedDispatcher): Advisory locks keep the instances
  disjoint, across restarts and with Stop waiting for its goroutines before it
  unlocks: two instances whose sessions are alive never have events in hand at
  the same time.
- `ArchivedHasObject` (ScheduledJobs): A row is cleared only when its contents
  are in the object store, and the clean-up after a failed UPDATE does not take
  them away again, over crashes, retries on a later day and a stopped leader
  that goes on.
- `ReleasedIsAccounted` (ChangeCapture): A change leaves the slot only after
  every sink has taken it or some sink has refused it to the consumer's face:
  lost connections, restarts of the process and standby updates at any moment
  lose nothing by themselves.
- `ConnsComeBack` (DatabaseReads): A connection that is out of the pool has
  exactly one call at work on it, whatever error branch an operation of RLSPool
  or RLSDB took; the exceptions are an rlsRows closed before its last row and,
  until its context ends, a row of RLSDB.QueryRowContext. A statement runs in a
  transaction of its caller's tenant, and none is open on a pooled connection.
- `OutageIsBounded` (DatabaseReads): An outage of the replica reaches the
  callers for less than HealthCheckFreq: Reader sends nobody to a replica that
  has been down for so long, although the health it goes by is cached and may
  have been judged in the middle of another reader's check.
- `SegmentsHoldTheChain` (AuditTrail): Rotations overlap: still every stored
  segment is a gapless piece of the chain, an event is in two only if the store
  kept one of them and answered an error, and no event is lost but by a panic of
  the verification.
- `AnsweredIsSaved` (Reconciliation): With a store, what is answered without a
  warning is the last thing that was saved: Reconcile never answers an attempt
  whose save failed, and the next one fetches again while the contract moves.
- `FreshnessHonest` (RefreshJobs): What IsStale answers can be relied on: the
  recorded time is never ahead of the data by more than RefreshTimeout,
  whichever process recorded it, although it is read after the refresh and two
  processes refresh and record in any order.
- `SchemaMatchesRecord` (Lifecycle): The schema is what schema_migrations
  records: every recorded version's up migration is in force exactly once and
  no other is, with two runners of different releases, failures at every
  statement and lost connections.
- `RetryBudget` (JobWorker): The retry budget survives overwrites by stale
  copies: a pending job has an attempt left, and a job is dead-lettered exactly
  when none is left.
- `ServedWithinTTL` (CircuitBreaker): An address that resolveHost serves from
  the cache was the host's less than DNSTTL ago, although a lookup takes time,
  the record moves meanwhile, and the lookups of several dials overlap and store
  their answers in any order.

### Bounds

Every bound is a constant, given its value in the cfg.

- `outbox_dispatcher`: two publishers, two events in either order, two faults:
  an event can be behind another one and two transactions can overlap.
  `outbox_dispatcher_live`: a batch of two, no faults, every publish may fail for
  ever.
- `progress`: two polling workers, two rows, two retries, two faults, the batch
  covering the backlog (which `WaitingIsClaimed` needs); one job and two workers
  of one slot each, one of which may stop, with locks that expire; three saga
  steps, two attempts, two crashes, two failing writes, three calls; two inbox
  workers, two rows of each of two sources, a poison row, two rows about one
  object, two faults; two readers of one replica and its per-key mutex; two
  hanging requests.
- `requests`: two or three actors wherever actors race, which is what it takes
  for one to act between two steps of another; clocks long enough to pass every
  TTL once with room on both sides (`LastClock`, `LastMoment`, `LastInstant`), a
  limiter's idle time included; two replicas that write without limit and a
  reader on one of them for the cache;
  six rows and pages of two for walks, so that there is a first, an inner and a
  last page with equal sort values across their border; amounts up to ten minor
  units in quarters for fees, so that every half occurs; every filter input of
  up to four tokens and every syntax tree of up to three leaves.
- `database`: two instances that compete for one shard and are started twice;
  two processes, two statements and three months for the jobs; two transactions
  over two tables, two sinks and two processes for change capture; two clients
  of a breaker that trips on two failures and probes twice; two dials whose
  lookups last as long as the TTL, and a record that moves twice; two sessions of
  two tenants on two connections; two replicas and four ticks for refreshes; two
  runners whose releases differ by one migration; five audit events in buffers of
  two, the last of which does not fit the chain.

### Fairness

- Dispatcher and polling worker: a ticker fires again, a publish ends within
  its timeout, a transaction ends, a backoff passes, a process that is down is
  started again. Nothing makes a publish succeed.
- Billing worker: time passes, the poll loop runs, an execution ends because it
  runs under a timeout.
- Webhook inbox: the ticker fires while the worker runs. The property ends at
  the first fault, because nothing recovers a row left in processing.
- Server: the main goroutine goes on. Nothing makes a request end.
- Read cache: goroutines run (weak fairness), and a waiter gets the mutex
  (strong fairness: `sync.Mutex` hands itself to a waiter that has waited for a
  millisecond).

The safety-only runs (`outbox_dispatcher`, `requests`, `database`) assume none.

## Deviations

Seven runs end in a violation; each states what a document or comment says:

- `outbox_skipped`: both events of a batch were stored before it was fetched. The
  delivery of the first fails, for good or for now, and the loop goes on
  (`internal/outbox/dispatcher.go:261`); the success of the second moves
  `last_event_id` past the first, which this publisher never fetches again, and
  the other publisher's acknowledgement completes it, even if it was
  dead-lettered. `docs/outbox-pattern.md:5` says events are published "without
  losing messages during partial failures".
- `dead_letter_retried`: the last failure of an event sets its status and its
  count and leaves `next_retry_at` as the failure before it did
  (`internal/worker/outbox_worker.go:345`); claimBatch selects failed rows whose
  retry time has passed and does not look at the count. Line 344 says "mark as
  permanently failed".
- `job_executed_again`: a poll takes a copy of a pending job and then its lock,
  which admits the worker that already holds it
  (`internal/worker/worker.go:234`). While the first copy waits for a slot or
  runs, a later poll of the same worker takes a second one; the lock is released
  with the first, and the second is executed although the job is completed.
  `WORKER_IMPLEMENTATION.md:119` says "Distributed locking prevents duplicate
  execution".
- `lane_scheduler_normal`: while the low lane is empty the starvation guard
  stays on, every pick falls back to strict priority
  (`internal/worker/scheduler.go:95`), and the normal lane waits as long as the
  high lane has jobs, against "weighted round-robin" in line 84.
- `saga_resumed`: a crash between a compensation and its record leaves the row
  running, and Resume takes the undone step for completed
  (`internal/saga/coordinator.go:69`); see line 24 of ADR 0005.
- `status_transitions`: ChangeStatus checks the transition on the row it read and
  updates by id (`internal/service/subscription_service.go:218`). Between the two
  another request may cancel the subscription, and the update makes it active
  again, which `docs/subscription-status-transitions.md:23` excludes.
- `released_changes`: when a sink refuses a change and takes the next one,
  `updateLSN` moves past the refused change (`internal/cdc/consumer.go:226`), and
  the standby update lets the server drop it. Line 216 says the consumer does
  "not advance past the last successfully written LSN".

The following were met while the models were written, some as violations of a
formula that is not among the kept runs, some by reading. They are notes for the
maintainers rather than checked results. The properties are stated so that they
hold beside them: an exception in a property is one of these.

- Outbox, `repository.go:251`: an event whose random id is below the progress of
  a publisher when it is stored is never selected by it
  (`docs/runbooks/multi-region-failover.md:461`, "at-least-once").
- Outbox, `repository.go:308`: two transactions that acknowledge the last event
  at the same time each read the other publisher as behind, and the event stays
  pending (line 275: "atomically stores publisher progress and completes the
  event once every configured publisher has reached this event").
- Outbox, `dispatcher.go:83`: a Start that fails after setting `running` leaves
  IsRunning true with no goroutine (line 144).
- Polling worker, `outbox_worker.go:250`: a row left in `processing` is never
  selected again (line 329: "will eventually be picked up again after a
  restart").
- Billing worker, `store_memory.go:235`: the lock is reentrant for a worker, so
  two goroutines of one worker may run a job, and the first to end releases the
  lock for both (`README.md:61`).
- Billing worker, `worker.go:204`: at MaxQueueDepth each poll returns before it
  takes a job, so the queue is not drained (line 201).
- Lane scheduler, `scheduler.go:114`: more picks than the starvation limit may
  pass before a low job is taken (line 76).
- Saga, `coordinator.go:92`: a step that took effect and whose result could not
  be saved is not compensated (line 26: "already-executed steps are compensated
  in reverse order").
- Saga, `coordinator.go:72`: Resume may run a compensation with a context that
  lacks the values of the steps it undoes (ADR 0005, line 24).
- Idempotency, `idempotency.go:111`: a concurrent retry is answered with 409 at
  once; `docs/idempotency.md:50` says that it waits up to 10 seconds.
- Sharded dispatcher, `sharded_dispatcher.go:17`: a batch goes on past a failed
  event, so events of a tenant may be delivered out of order; the failure count
  is per publisher. Stop leaves locks behind after an acquisition that failed
  midway or a heartbeat that pings after the cancel; a Start that fails leaves
  `running` set. The partition of an event is computed and not stored.
- Outbox service, `service.go:262`: PublishEventWithTx stores outside the
  transaction it is given, so an aborted transaction leaves its event. The
  manager uses the console publisher whatever the transport. WsPublisher drops an
  event after a second with a full channel and returns nil. A
  sensitive event that was sealed when it was stored has no data left for the
  publisher, which seals it again.
- Breaker, `db/breaker.go:187`: a Commit, Rollback or Scan that the breaker
  refuses answers nil, without a call. QueryRow asks the pool whatever the state
  of the breaker, SendBatch does not ask the breaker, Scan counts ErrNoRows as a
  failure, and a refused nested Begin wraps a nil transaction.
- Database reads: the winner of a hedged query has its context cancelled
  (`pool.go:27`), and the loser's rows are never closed. rlsRows.Close before the
  last row and QueryRow without Scan keep the connection; the one of
  RLSDB.QueryRowContext returns only when its context ends. PostgreSQL's SET takes
  no bind parameter, so with a real server `SET LOCAL app.tenant_id = $1` takes
  the error branch.
- HTTP client: a pooled connection keeps its old address after the DNS entry
  changed.
- Scheduled jobs: with two leaders at once, the clean-up after a failed UPDATE of
  one removes the object the other has recorded under the same key; a job whose
  locker could not be made runs without leader election
  (`partition_rollover_job.go:169`). Archiving asks for the partitioning flag twice
  (`statement_archive_job.go:248`, `:353`), and the flag it asks for is not the
  default one's name; consecutive errors are not reset by a success; rollover and
  archival share the threshold of 24 months; "Set to 0 to disable detachment"
  (`partition_rollover_job.go:29`) gives the default of 24.
- Dead-letter watcher: a Trigger or Resolve whose attempts are used up is not
  sent again while the inflow stays as it is.
- Audit: a torn write leaves a line that the next load cannot parse. The WORM
  exporter has no caller outside its tests, and `computeEventHash`
  (`exporter.go:72`) is defined nowhere. An upload that fails while a newer one is
  under way puts its events back behind a gap: the next Rotate panics in its check
  and loses what it took (`exporter.go:105`, "so they aren't lost"). An upload
  that fails after the object was stored puts its events into a second segment.
- Change capture: CopyDone is logged as "restarting replication" and ends the
  consumer; attempts are never reset after a success; an unchanged TOAST value
  decodes to nil.
- Reconciliation: a retry may save a report twice; a handler without a store
  answers and saves nothing. Reports are paged by cursor over their insertion
  order, although `pagination/cursor.go:70` assumes a sorted slice: such a walk
  can repeat rows.
- Subscriptions: the state machine refuses the compensation of the cancel step,
  as nothing leaves `cancelled`; after a crash and a Resume the previous status is
  `cancelled` itself; a refund that was written and reported as failed stays
  issued; a cancel step whose write took place and whose reply or record failed
  ends the saga as compensated with the subscription cancelled. Cancel at once
  clears `cancel_at_period_end`; a full-row Update by a stale reader undoes a
  Cancel. An unknown target status is answered with 409, the
  document says 422.
- Details: the statement export takes one page of 1000 rows before it selects
  the tenant's; the listing includes rows with `deleted_at` set (its only
  repository is in memory).
- Listings: an offset walk relies on distinct `created_at`.
- Filters: what follows a closing parenthesis is not read, and `=in=()` gives an
  empty list.
- Fees: `fees_service.go:113` says net >= 0, which fails for an amount finer than the
  minor unit whose tax rounds up past it;
  the comment on ProrateFee gives the remainder to the last part, the code to the
  first ones.
- Tenant export: two requests can both find no export under way
  (`handlers/tenant_export.go:62`, "Only one export per tenant may be pending or
  running at a time"), as `service/tenant_export.go:457` looks and inserts in two
  steps; a cancelled CreateJob leaves its operation pending, and so does, in the
  state it had, a failing read or update of the PostgreSQL store; only the first 1000
  statements of a customer are exported; keys have a resolution of one second.
- Limits: a refill truncates the fraction of a token away; a tenant that was idle
  for IdleTTL gets a new limiter with a full burst, beside one that a request may
  still hold; looking at an expired
  lockout forgets its attempt count.
- Credentials: a slow refresh may store an older key set over a newer one; the
  refresh limit hides a new key for longer than its negative entry; those who
  joined a fetch share the leader's context.
- Responses: with compression on, a panic before the first write is answered with
  200, and AbortWithStatus sends gin's own status, 200 as a rule. `routes.go:91-94`
  does not switch compression on.
- Feature gates: IsEnabled and IsEnabledWithDefault differ for a flag that is
  overridden, toggled against the environment, forced on, or defined nowhere;
  `Apart` names these cases.
- Telemetry: a trace that is evicted loses its head decision
  (`tracing/sampler.go:126`); an Observe that races EvictIdle counts into an entry
  nobody sees.
- Lifecycle: a late check is marked `timeout` and not counted
  (`docs/HEALTH_CHECKS.md:107`); nobody sends to the second-signal channel that
  main passes; when the primary pool fails to drain, the replica's is not drained;
  a ListenAndServe error exits without cleanup; REDIS_URL is required although it
  is documented as optional. `routes.go` opens pools that main does not drain.
- `outbox/publisher.go`, `handlers/admin.go`, `auth/jwt.go`, `config.go`,
  `featureflags.go` (UpdateFlag) and `migrations` trigger DDL do not compile, or
  are not accepted by PostgreSQL, as they stand; the models take what their code
  says.

Two limits follow from what the pass runs leave out, and no document contradicts
them in so many words:

- Webhook inbox: a row left in `processing` by a crash, by a failed Scan or by a
  failed status update stays there, and blocks the later rows of its source.
  `PendingIsSettled` therefore ends at the first fault. A Store whose reply is
  lost ends as `failed` although its event is in the outbox.
- Read cache: `StoredAt` is taken after the row is read
  (`cached_subscription_repo.go:104`). When a write and its invalidation fall in
  between, the entry is not recognised as stale until its TTL.
  `MissedWriteIsRecognised` excludes exactly these entries (`late`), and speaks
  only of the replica that wrote, since `invalidatedAt` is not shared.
  `docs/PLAN_CACHING.md:73` says of an entry put back after the deletion that "the
  next reader detects" it; the text breaks off there.

## Proofs

The proofs rest on the named assumptions on the constants of each module (`OutboxWorkerConstants`,
`SagaConstants`...) (positive
batch size and retry limits, finite non-empty sets); they hold for any number of
publishers, workers, events, steps and faults.

**OutboxDispatcherProofs.** `IInv` consists of the types, the three safety
invariants, and three facts they need: a drain holds only rows that exist and
that its own progress has not reached (`BatchAhead`); what it is about to record
was delivered (`MarkedIsDelivered`); and what MarkPublished read about the other
publishers still holds when it commits (`ReachedStillHolds`), because progress
never goes back. The last one is what makes the split transaction safe: a stale
answer can only be a stale "no". Theorems: `TypeCorrect`, `CompletedReached`,
`ProgressDelivered`, `BackoffCounts`, `CompletedFinal`, and `Refinement`, that
the dispatcher implements OutboxContract.

**OutboxWorkerProofs.** `OutboxWorkerIInv` adds that a locked row is waiting and in no batch
(`LockedIsWaiting`) and that an outcome is recorded only after the publisher took
the event (`SucceededIsDelivered`). Theorems: `ClaimsAreExclusive`,
`ClaimsAreCurrent`, `CompletedDelivered`, `CompletedFinal`.

**SagaCoordinatorProofs.** `SagaIInv` relates records and effects: except for the
step in hand and the loose ones, what is recorded is in force and the reverse
(`Tracked`); recorded steps form a prefix (`Prefix`); compensation has undone all
that is above the current step (`Undo`). Theorems: `TypeCorrect`, `StepsInOrder`,
`AllOrNothing`.

Only model-checked: all liveness properties (`NoPublisherStalls`,
`WaitingIsClaimed`, `EventuallySettled`, `PendingIsSettled`, `ReadReturns`,
`SignalEndsProcess`), which
lie outside what the prover handles; FilterParser, whose parser is recursive; and
every property of the other modules.

## Not modelled

- Cryptography, token and signature formats, hashing, redaction, policies: they
  compute on one request, and a state machine says nothing about them.
- GraphQL, the swap endpoint, plan administration, partition helpers, route
  tables: single statements, or wiring of what is modelled.
- The Redis backend, the object store, Kafka, PagerDuty, PostgreSQL and
  gobreaker are modelled from how the code uses them.
- Logging, metrics, correlation ids, headers, OpenAPI validation.
- Development tools other than `validate-migrations`.
- The pgx outbox repository, whose progress methods return nil.
- More than one process in OutboxDispatcher, concurrent calls for one saga,
  overlapping Start and Stop of one sharded instance.

## Plan

1. Proofs: `StoredInSourceOrder` (needs: the rows of a source that are settled
   or in hand form a prefix), `EffectAtMostOnce`, `MissedWriteIsRecognised`,
   `ShardExclusive`, `LeaderExclusive`, `ReleasedIsAccounted`,
   `SchemaMatchesRecord` and `InflightBounded`.
2. A mutual-exclusion contract that the leader guard and the sharded dispatcher
   both implement; a per-source queue for WebhookInbox.
3. ChangeStatus composed with ReadCache, and WebhookInbox with the outbox it
   stores into.
