------------------------- MODULE ShardedDispatcher -------------------------
(***************************************************************************)
(* internal/outbox/sharded_dispatcher.go: instances that divide the outbox  *)
(* by PostgreSQL advisory locks, one per shard, held by a dedicated         *)
(* connection.  A closed sql.Conn goes back to its pool, and a lock that    *)
(* was not unlocked first stays with the pooled session.                    *)
(*                                                                          *)
(* One publisher; the calls of Start and Stop of an instance do not overlap.*)
(***************************************************************************)
EXTENDS Integers, Sequences, FiniteSets, SequencesExt

CONSTANTS
  Instances,       \* processes that run a dispatcher
  OwnedShards,     \* config.OwnedShards of each instance
  NumEvents,       \* events of one tenant, in the order of occurred_at
  BatchSize,       \* config.BatchSize
  MaxRetries,      \* config.MaxRetries
  MaxStarts        \* bound on the calls of Start of an instance

Shards == UNION {OwnedShards[i] : i \in Instances}
Events == 1..NumEvents

VARIABLES
  running,     \* d.running
  phase,       \* idle, locking (in acquireShardLocks), draining, stopping
  owned,       \* d.ownedShards
  list,        \* d.ownedShardsList
  untried,     \* shards acquireShardLocks has not tried yet
  session,     \* the session of d.lockConn: none, open or dead
  held,        \* locks of that session, counted as PostgreSQL counts them
  pooled,      \* locks that went back to the pool with a session
  batch,       \* the rest of drainOnceForPublisher's events
  failCount,   \* d.publisherFailCount
  backingOff,  \* d.publisherNextAttempt lies ahead
  late,        \* publish goroutines abandoned after ProcessingTimeout
  status,      \* outbox_events.status
  delivered,   \* history: events the publisher has delivered
  leaky,       \* history: acquireShardLocks failed midway, or a heartbeat has
               \* pinged with the cancelled context
  starts       \* calls of Start

connVars  == <<session, held, pooled>>
lockVars  == <<running, phase, owned, list, untried, session, held, pooled, leaky, starts>>
drainVars == <<batch, failCount, backingOff, late>>
eventVars == <<status, delivered>>
shardVars == <<lockVars, drainVars, eventVars>>

ShardTypeOK ==
  /\ running \in [Instances -> BOOLEAN]
  /\ phase \in [Instances -> {"idle", "locking", "draining", "stopping"}]
  /\ owned \in [Instances -> SUBSET Shards]
  /\ list \in [Instances -> SUBSET Shards]
  /\ untried \in [Instances -> SUBSET Shards]
  /\ session \in [Instances -> {"none", "open", "dead"}]
  /\ held \in [Instances -> [Shards -> 0..MaxStarts]]
  /\ pooled \in [Instances -> [Shards -> 0..MaxStarts]]
  /\ \A i \in Instances : batch[i] \in BoundedSeq(Events, BatchSize)
  /\ failCount \in [Instances -> 0..(MaxRetries - 1)]
  /\ backingOff \in [Instances -> BOOLEAN]
  /\ late \subseteq Events
  /\ status \in [Events -> {"pending", "completed", "failed", "deleted"}]
  /\ delivered \subseteq Events
  /\ leaky \in [Instances -> BOOLEAN]
  /\ starts \in [Instances -> 0..MaxStarts]

NoLocks == [s \in Shards |-> 0]

\* NewShardedDispatcher on a fresh set of pending events.
ShardInit ==
  /\ running = [i \in Instances |-> FALSE]
  /\ phase = [i \in Instances |-> "idle"]
  /\ owned = OwnedShards
  /\ list = OwnedShards
  /\ untried = [i \in Instances |-> {}]
  /\ session = [i \in Instances |-> "none"]
  /\ held = [i \in Instances |-> NoLocks]
  /\ pooled = [i \in Instances |-> NoLocks]
  /\ batch = [i \in Instances |-> <<>>]
  /\ failCount = [i \in Instances |-> 0]
  /\ backingOff = [i \in Instances |-> FALSE]
  /\ late = {}
  /\ status = [e \in Events |-> "pending"]
  /\ delivered = {}
  /\ leaky = [i \in Instances |-> FALSE]
  /\ starts = [i \in Instances |-> 0]

-----------------------------------------------------------------------------
(* Start and Stop                                                          *)

\* db.Conn: a new session, or the pooled one with the locks it still holds.
Connect(i) ==
  /\ session' = [session EXCEPT ![i] = "open"]
  /\ \/ UNCHANGED <<held, pooled>>
     \/ /\ pooled[i] # NoLocks
        /\ held' = [held EXCEPT ![i] = pooled[i]]
        /\ pooled' = [pooled EXCEPT ![i] = NoLocks]

\* lockConn.Close; the locks in keep were not unlocked.
CloseConn(i, keep) ==
  /\ session' = [session EXCEPT ![i] = "none"]
  /\ held' = [held EXCEPT ![i] = NoLocks]
  /\ pooled' = [pooled EXCEPT ![i] = [s \in Shards |-> @[s] + keep[s]]]

\* releaseAllLocks unlocks once each shard that the list still names.
Unlocked(i) ==
  [s \in Shards |-> IF s \in list[i] /\ held[i][s] > 0 THEN held[i][s] - 1 ELSE held[i][s]]

\* Start; running is set before anything can fail.
StartDispatcher(i) ==
  /\ ~running[i] /\ phase[i] = "idle" /\ starts[i] < MaxStarts
  /\ running' = [running EXCEPT ![i] = TRUE]
  /\ starts' = [starts EXCEPT ![i] = @ + 1]
  /\ \/ UNCHANGED <<phase, untried, connVars>>
     \/ /\ Connect(i)
        /\ phase' = [phase EXCEPT ![i] = "locking"]
        /\ untried' = [untried EXCEPT ![i] = list[i]]
  /\ UNCHANGED <<owned, list, leaky, drainVars, eventVars>>

\* pg_try_advisory_lock: no other session holds the shard.
Available(i, s) ==
  /\ \A j \in Instances \ {i} : held[j][s] = 0
  /\ \A j \in Instances : pooled[j][s] = 0

\* One turn of the loop of acquireShardLocks, shards in increasing order.
TryShardLock(i) ==
  LET s == CHOOSE x \in untried[i] : \A y \in untried[i] : x <= y IN
  /\ phase[i] = "locking" /\ session[i] = "open" /\ untried[i] # {}
  /\ untried' = [untried EXCEPT ![i] = @ \ {s}]
  /\ IF Available(i, s)
     THEN held' = [held EXCEPT ![i][s] = @ + 1] /\ UNCHANGED owned
     ELSE owned' = [owned EXCEPT ![i] = @ \ {s}] /\ UNCHANGED held
  /\ UNCHANGED <<running, phase, list, session, pooled, leaky, starts, drainVars, eventVars>>

\* A query of acquireShardLocks fails: the locks taken so far are not undone.
LockQueryFails(i) ==
  /\ phase[i] = "locking" /\ untried[i] # {}
  /\ CloseConn(i, held[i])
  /\ phase' = [phase EXCEPT ![i] = "idle"]
  /\ untried' = [untried EXCEPT ![i] = {}]
  /\ leaky' = [leaky EXCEPT ![i] = TRUE]
  /\ UNCHANGED <<running, owned, list, starts, drainVars, eventVars>>

\* The rest of Start: the list is rebuilt, and the goroutines start unless no
\* shard is left or EnsurePublisherProgressTable fails.
StartFinishes(i) ==
  /\ phase[i] = "locking" /\ untried[i] = {}
  /\ list' = [list EXCEPT ![i] = owned[i]]
  /\ \/ /\ owned[i] # {}
        /\ phase' = [phase EXCEPT ![i] = "draining"]
        /\ failCount' = [failCount EXCEPT ![i] = 0]
        /\ backingOff' = [backingOff EXCEPT ![i] = FALSE]
        /\ UNCHANGED <<connVars, batch, late>>
     \/ /\ phase' = [phase EXCEPT ![i] = "idle"]
        /\ CloseConn(i, [s \in Shards |-> IF s \in owned[i] /\ held[i][s] > 0
                                          THEN held[i][s] - 1 ELSE held[i][s]])
        /\ UNCHANGED drainVars
  /\ UNCHANGED <<running, owned, untried, leaky, starts, eventVars>>

\* The first half of Stop: cancel, and running is cleared.  After a Start that
\* failed there is no goroutine to wait for and no open connection.
StopCalled_ReleasesFirst(i) ==
  /\ running[i] /\ phase[i] \in {"idle", "draining"}
  /\ running' = [running EXCEPT ![i] = FALSE]
  /\ phase' = [phase EXCEPT ![i] = IF @ = "draining" THEN "stopping" ELSE @]
  /\ held' = [held EXCEPT ![i] = Unlocked(i)]
  /\ UNCHANGED <<owned, list, untried, session, pooled, leaky, starts, drainVars, eventVars>>
StopCalled(i) ==
  /\ running[i] /\ phase[i] \in {"idle", "draining"}
  /\ running' = [running EXCEPT ![i] = FALSE]
  /\ phase' = [phase EXCEPT ![i] = IF @ = "draining" THEN "stopping" ELSE @]
  /\ UNCHANGED <<owned, list, untried, connVars, leaky, starts, drainVars, eventVars>>

\* The second half of Stop, after wg.Wait: unlock what the list names, close.
StopFinishes(i) ==
  /\ phase[i] = "stopping" /\ batch[i] = <<>>
  /\ CloseConn(i, Unlocked(i))
  /\ phase' = [phase EXCEPT ![i] = "idle"]
  /\ UNCHANGED <<running, owned, list, untried, leaky, starts, drainVars, eventVars>>

\* verifyLockHealth: the ping fails when the session is dead, and also when
\* Stop has cancelled the context that the ping is given.
Heartbeat(i) ==
  /\ phase[i] \in {"draining", "stopping"}
  /\ session[i] = "dead" \/ phase[i] = "stopping"
  /\ owned' = [owned EXCEPT ![i] = {}]
  /\ list' = [list EXCEPT ![i] = {}]
  /\ leaky' = [leaky EXCEPT ![i] = @ \/ session[i] = "open"]
  /\ UNCHANGED <<running, phase, untried, connVars, starts, drainVars, eventVars>>

\* The database ends a session and frees its locks.
SessionDies(i) ==
  /\ session[i] = "open"
  /\ session' = [session EXCEPT ![i] = "dead"]
  /\ held' = [held EXCEPT ![i] = NoLocks]
  /\ UNCHANGED <<running, phase, owned, list, untried, pooled, leaky, starts, drainVars, eventVars>>

\* The pool closes a connection that was returned to it.
PoolRecycles(i) ==
  /\ pooled[i] # NoLocks
  /\ pooled' = [pooled EXCEPT ![i] = NoLocks]
  /\ UNCHANGED <<running, phase, owned, list, untried, session, held, leaky, starts, drainVars, eventVars>>

-----------------------------------------------------------------------------
(* Draining                                                                *)

\* Store writes no partition and scanEvent reads none: Event.Partition is 0.
Partition(e) == 0

\* fetchEvents by its fallback: GetPendingEvents(BatchSize * len(shards)), then
\* the events of the owned shards, at most BatchSize of them.
FirstOf(n, s) == SubSeq(s, 1, IF n < Len(s) THEN n ELSE Len(s))
Pending == SelectSeq([k \in Events |-> k], LAMBDA e : status[e] = "pending")
Fetched(i) ==
  LET fetched  == FirstOf(BatchSize * Cardinality(list[i]), Pending)
      filtered == SelectSeq(fetched, LAMBDA e : Partition(e) \in list[i])
  IN FirstOf(BatchSize, filtered)

\* publisherDrain's tick: drainOnceForPublisher up to its loop.
DrainBegins(i) ==
  /\ phase[i] \in {"draining", "stopping"} /\ batch[i] = <<>>
  /\ ~backingOff[i] /\ list[i] # {} /\ Fetched(i) # <<>>
  /\ batch' = [batch EXCEPT ![i] = Fetched(i)]
  /\ UNCHANGED <<lockVars, failCount, backingOff, late, eventVars>>

BackoffElapses(i) ==
  /\ backingOff[i]
  /\ backingOff' = [backingOff EXCEPT ![i] = FALSE]
  /\ UNCHANGED <<lockVars, batch, failCount, late, eventVars>>

\* Publish succeeds; MarkPublished completes the event, or fails.
PublishSucceeds(i) ==
  /\ batch[i] # <<>>
  /\ batch' = [batch EXCEPT ![i] = Tail(@)]
  /\ failCount' = [failCount EXCEPT ![i] = 0]
  /\ backingOff' = [backingOff EXCEPT ![i] = FALSE]
  /\ delivered' = delivered \cup {Head(batch[i])}
  /\ status' \in {status, [status EXCEPT ![Head(batch[i])] = "completed"]}
  /\ UNCHANGED <<lockVars, late>>

\* A PermanentPublishError, or the MaxRetries-th failure in a row of this
\* publisher: UpdateStatus(StatusFailed), which may itself fail.
PublishDeadLetters(i) ==
  /\ batch[i] # <<>>
  /\ batch' = [batch EXCEPT ![i] = Tail(@)]
  /\ status' \in {status, [status EXCEPT ![Head(batch[i])] = "failed"]}
  /\ \/ UNCHANGED <<failCount, backingOff>>
     \/ /\ failCount[i] + 1 >= MaxRetries
        /\ failCount' = [failCount EXCEPT ![i] = 0]
        /\ backingOff' = [backingOff EXCEPT ![i] = FALSE]
  /\ UNCHANGED <<lockVars, late, delivered>>

\* Any other failure: back off, and go on with the next event of the batch.
PublishBacksOff(i) ==
  /\ batch[i] # <<>> /\ failCount[i] + 1 < MaxRetries
  /\ batch' = [batch EXCEPT ![i] = Tail(@)]
  /\ failCount' = [failCount EXCEPT ![i] = @ + 1]
  /\ backingOff' = [backingOff EXCEPT ![i] = TRUE]
  /\ UNCHANGED <<lockVars, late, eventVars>>

\* ProcessingTimeout, or Stop: the goroutine is left to itself.
PublishTimesOut(i) ==
  /\ batch[i] # <<>>
  /\ batch' = [batch EXCEPT ![i] = Tail(@)]
  /\ late' = late \cup {Head(batch[i])}
  /\ UNCHANGED <<lockVars, failCount, backingOff, eventVars>>

\* An abandoned goroutine delivers after all, or fails.
LatePublish(e) ==
  /\ e \in late
  /\ late' = late \ {e}
  /\ delivered' \in {delivered, delivered \cup {e}}
  /\ UNCHANGED <<lockVars, batch, failCount, backingOff, status>>

\* cleanupLoop's tick, once the event is older than CompletedEventTTL.
CleanupCompletedEvents(i, e) ==
  /\ phase[i] \in {"draining", "stopping"} /\ status[e] = "completed"
  /\ status' = [status EXCEPT ![e] = "deleted"]
  /\ UNCHANGED <<lockVars, drainVars, delivered>>

ShardNext ==
  \/ \E i \in Instances :
       \/ StartDispatcher(i) \/ TryShardLock(i) \/ LockQueryFails(i) \/ StartFinishes(i)
       \/ StopCalled(i) \/ StopFinishes(i)
       \/ Heartbeat(i) \/ SessionDies(i) \/ PoolRecycles(i)
       \/ DrainBegins(i) \/ BackoffElapses(i)
       \/ PublishSucceeds(i) \/ PublishDeadLetters(i) \/ PublishBacksOff(i) \/ PublishTimesOut(i)
       \/ \E e \in Events : CleanupCompletedEvents(i, e)
  \/ \E e \in Events : LatePublish(e)

ShardSpec == ShardInit /\ [][ShardNext]_shardVars

-----------------------------------------------------------------------------
(* Properties                                                              *)

\* Advisory locks keep the instances disjoint, across restarts and with Stop
\* waiting for its goroutines before it unlocks: two instances whose sessions
\* are alive never have events in hand at the same time.
ShardExclusive ==
  \A i, j \in Instances :
    i # j /\ batch[i] # <<>> /\ batch[j] # <<>> => "dead" \in {session[i], session[j]}

\* Stop gives every advisory lock back, over any number of restarts, lost
\* sessions and failed starts, unless one of the two leaks has happened:
\* acquireShardLocks failing midway, or a heartbeat pinging after the cancel.
StopReturnsLocks ==
  \A i \in Instances : ~leaky[i] => pooled[i] = NoLocks

=============================================================================
