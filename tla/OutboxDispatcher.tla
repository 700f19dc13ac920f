-------------------------- MODULE OutboxDispatcher --------------------------
(***************************************************************************)
(* The transactional outbox: table outbox_events, the per-publisher        *)
(* high-water marks of outbox_publisher_progress, and the dispatcher that   *)
(* runs one drain goroutine per publisher (internal/outbox/dispatcher.go,   *)
(* internal/outbox/repository.go).                                          *)
(*                                                                          *)
(* An event is its id.  Ids are random UUIDs that the SQL compares, so they  *)
(* are naturals here and events are stored in any order of id.              *)
(***************************************************************************)
EXTENDS Integers, FiniteSets

CONSTANTS
  Publishers,     \* names of the configured publishers
  MaxId,          \* events have ids 1..MaxId
  BatchSize,      \* DispatcherConfig.BatchSize
  MaxRetries,     \* DispatcherConfig.MaxRetries
  MaxFaults       \* bound on database errors, crashes, restarts and requeues

ASSUME ConstantsAssumption ==
  /\ IsFiniteSet(Publishers)
  /\ Publishers # {}
  /\ MaxId \in Nat
  /\ BatchSize \in Nat \ {0}
  /\ MaxRetries \in Nat \ {0}
  /\ MaxFaults \in Nat

VARIABLES
  status,      \* outbox_events.status of each id; "none" before Store
  cursor,      \* outbox_publisher_progress.last_event_id; 0 when NULL
  running,     \* dispatcher.running
  alive,       \* the drain goroutines of the last Start exist
  pc,          \* where the drain goroutine of a publisher is
  batch,       \* fetched events it has not finished with
  failCount,   \* publisherFailCount
  backoff,     \* publisherNextAttempt lies in the future
  reached,     \* publisherProgressReached as read inside MarkPublished
  late,        \* publishes abandoned by the timeout that may still arrive
  delivered,   \* history: what the external systems have received
  faults       \* number of faults injected so far

db     == <<status, cursor>>
drain  == <<pc, batch, failCount, backoff, reached>>
vars   == <<status, cursor, running, alive, pc, batch, failCount, backoff,
            reached, late, delivered, faults>>

Ids    == 1..MaxId
Status == {"none", "pending", "completed", "failed", "deleted"}

\* Types of the tables and the drains; a failure count stays below MaxRetries.
TypeOK ==
  /\ status \in [Ids -> Status]
  /\ cursor \in [Publishers -> 0..MaxId]
  /\ running \in BOOLEAN
  /\ alive \in BOOLEAN
  /\ pc \in [Publishers -> {"idle", "publish", "mark", "commit"}]
  /\ batch \in [Publishers -> SUBSET Ids]
  /\ failCount \in [Publishers -> 0..(MaxRetries - 1)]
  /\ backoff \in [Publishers -> BOOLEAN]
  /\ reached \in [Publishers -> BOOLEAN]
  /\ late \subseteq Publishers \X Ids
  /\ delivered \subseteq Publishers \X Ids
  /\ faults \in 0..MaxFaults

Init ==
  /\ status = [e \in Ids |-> "none"]
  /\ cursor = [p \in Publishers |-> 0]
  /\ running = FALSE
  /\ alive = FALSE
  /\ pc = [p \in Publishers |-> "idle"]
  /\ batch = [p \in Publishers |-> {}]
  /\ failCount = [p \in Publishers |-> 0]
  /\ backoff = [p \in Publishers |-> FALSE]
  /\ reached = [p \in Publishers |-> FALSE]
  /\ late = {}
  /\ delivered = {}
  /\ faults = 0

Fault == faults < MaxFaults /\ faults' = faults + 1

-----------------------------------------------------------------------------
(* Repository operations                                                   *)

\* The row of e exists.
Stored(e) == status[e] \notin {"none", "deleted"}

\* An UPDATE ... WHERE id = e: it changes nothing when the row is gone.
SetStatus(e, s) == IF Stored(e) THEN [status EXCEPT ![e] = s] ELSE status

\* GetPendingEventsForPublisher before its LIMIT.  A failed row is selected
\* only when next_retry_at is set, which nothing on this path does.
PendingEventsFor(p) == {e \in Ids : status[e] = "pending" /\ e > cursor[p]}

\* ORDER BY id LIMIT BatchSize.
GetPendingEventsForPublisher(p, B) ==
  /\ B \subseteq PendingEventsFor(p)
  /\ Cardinality(B) <= BatchSize
  /\ Cardinality(B) = BatchSize \/ B = PendingEventsFor(p)
  /\ \A e \in B, f \in PendingEventsFor(p) \ B : e < f

\* upsertPublisherProgress keeps the larger id.
upsertPublisherProgress(p, e) ==
  [cursor EXCEPT ![p] = IF @ < e THEN e ELSE @]

\* publisherProgressReached inside the transaction of p: p sees its own upsert
\* and the committed progress of the others.
publisherProgressReached(p, e) == \A q \in Publishers \ {p} : cursor[q] >= e

\* UpdateStatus with its error discarded by the caller.
UpdateStatus(e, s) ==
  \/ status' = SetStatus(e, s) /\ UNCHANGED faults
  \/ Fault /\ UNCHANGED status

-----------------------------------------------------------------------------
(* The application                                                         *)

Store(e) ==
  /\ status[e] = "none"
  /\ status' = [status EXCEPT ![e] = "pending"]
  /\ UNCHANGED <<cursor, running, alive, drain, late, delivered, faults>>

\* An operator replays a dead-lettered event.
RequeueEvent_AnyStatus(e) ==
  /\ Stored(e)
  /\ status' = [status EXCEPT ![e] = "pending"]
  /\ Fault
  /\ UNCHANGED <<cursor, running, alive, drain, late, delivered>>
RequeueEvent(e) ==
  /\ status[e] = "failed"
  /\ status' = [status EXCEPT ![e] = "pending"]
  /\ Fault
  /\ UNCHANGED <<cursor, running, alive, drain, late, delivered>>

\* cleanupCompletedEvents, for a row that has reached CompletedEventTTL.
DeleteCompletedEvents(e) ==
  /\ alive /\ running
  /\ status[e] = "completed"
  /\ status' = [status EXCEPT ![e] = "deleted"]
  /\ UNCHANGED <<cursor, running, alive, drain, late, delivered, faults>>

-----------------------------------------------------------------------------
(* Life cycle of the dispatcher                                            *)

ClearDrains ==
  /\ pc' = [p \in Publishers |-> "idle"]
  /\ batch' = [p \in Publishers |-> {}]
  /\ failCount' = [p \in Publishers |-> 0]
  /\ backoff' = [p \in Publishers |-> FALSE]
  /\ reached' = [p \in Publishers |-> FALSE]

Start ==
  /\ ~running /\ ~alive
  /\ running' = TRUE
  /\ alive' = TRUE
  /\ ClearDrains
  /\ UNCHANGED <<db, late, delivered, faults>>

\* EnsurePublisherProgressTable fails: Start returns with running set.
StartFails ==
  /\ ~running /\ ~alive
  /\ Fault
  /\ running' = TRUE
  /\ UNCHANGED <<db, alive, drain, late, delivered>>

\* Stop cancels the context; wg.Wait returns when every drain has returned.
Stop ==
  /\ running
  /\ Fault
  /\ running' = FALSE
  /\ UNCHANGED <<db, alive, drain, late, delivered>>

StopReturns ==
  /\ ~running /\ alive
  /\ \A p \in Publishers : pc[p] = "idle"
  /\ alive' = FALSE
  /\ UNCHANGED <<db, running, drain, late, delivered, faults>>

\* The event a drain is working on: its batch is handled in order of id.
Current(p, e) == e \in batch[p] /\ \A f \in batch[p] : e <= f

\* The process dies; a request it had sent may still be on the wire.
Crash ==
  /\ running
  /\ Fault
  /\ running' = FALSE
  /\ alive' = FALSE
  /\ ClearDrains
  /\ late' = late \cup {pe \in Publishers \X Ids :
                          pc[pe[1]] = "publish" /\ Current(pe[1], pe[2])}
  /\ UNCHANGED <<db, delivered>>

-----------------------------------------------------------------------------
(* One drain goroutine per publisher                                       *)

\* drainOnceForPublisher up to the loop over the events.
DrainFetch_AckFirst(p) ==
  /\ alive /\ running
  /\ pc[p] = "idle" /\ ~backoff[p]
  /\ \E B \in SUBSET Ids \ {{}} :
       /\ GetPendingEventsForPublisher(p, B)
       /\ batch' = [batch EXCEPT ![p] = B]
  /\ pc' = [pc EXCEPT ![p] = "mark"]
  /\ UNCHANGED <<db, running, alive, failCount, backoff, reached, late,
                 delivered, faults>>
DrainFetch(p) ==
  /\ alive /\ running
  /\ pc[p] = "idle" /\ ~backoff[p]
  /\ \E B \in SUBSET Ids \ {{}} :
       /\ GetPendingEventsForPublisher(p, B)
       /\ batch' = [batch EXCEPT ![p] = B]
  /\ pc' = [pc EXCEPT ![p] = "publish"]
  /\ UNCHANGED <<db, running, alive, failCount, backoff, reached, late,
                 delivered, faults>>

\* The loop goes on to the next event, or the drain returns.
Advance(p, e) ==
  /\ batch' = [batch EXCEPT ![p] = @ \ {e}]
  /\ pc' = [pc EXCEPT ![p] = IF batch[p] = {e} THEN "idle" ELSE "publish"]

\* The drain is waiting for pub.Publish(ctx, e).
Publishing(p, e) == pc[p] = "publish" /\ Current(p, e)

PublishSucceeds(p, e) ==
  /\ Publishing(p, e)
  /\ delivered' = delivered \cup {<<p, e>>}
  /\ failCount' = [failCount EXCEPT ![p] = 0]
  /\ backoff' = [backoff EXCEPT ![p] = FALSE]
  /\ pc' = [pc EXCEPT ![p] = "mark"]
  /\ UNCHANGED <<db, running, alive, batch, reached, late, faults>>

\* handleDrainPublishError, for an error IsPermanentPublishError recognises.
PermanentError(p, e) ==
  /\ UpdateStatus(e, "failed")
  /\ UNCHANGED <<failCount, backoff>>

\* handleDrainPublishError, for any other error.
RetryableError_NoCount(p, e) ==
  /\ backoff' = [backoff EXCEPT ![p] = TRUE]
  /\ UNCHANGED <<status, faults, failCount>>
RetryableError(p, e) ==
  IF failCount[p] + 1 >= MaxRetries
    THEN /\ UpdateStatus(e, "failed")
         /\ failCount' = [failCount EXCEPT ![p] = 0]
         /\ backoff' = [backoff EXCEPT ![p] = FALSE]
    ELSE /\ failCount' = [failCount EXCEPT ![p] = @ + 1]
         /\ backoff' = [backoff EXCEPT ![p] = TRUE]
         /\ UNCHANGED <<status, faults>>

\* pub.Publish returns an error while the dispatcher runs.  The receiver may
\* have taken the event all the same.
PublishFails(p, e) ==
  /\ Publishing(p, e) /\ running
  /\ delivered' \in {delivered, delivered \cup {<<p, e>>}}
  /\ PermanentError(p, e) \/ RetryableError(p, e)
  /\ Advance(p, e)
  /\ UNCHANGED <<cursor, running, alive, reached, late>>

\* ProcessingTimeout expires first: the goroutine that publishes is abandoned.
PublishTimesOut(p, e) ==
  /\ Publishing(p, e) /\ running
  /\ late' = late \cup {<<p, e>>}
  /\ RetryableError(p, e)
  /\ Advance(p, e)
  /\ UNCHANGED <<cursor, running, alive, reached, delivered>>

\* The context is cancelled by Stop: the drain returns without a trace.
DrainReturns(p, e) ==
  /\ Publishing(p, e) /\ ~running
  /\ late' = late \cup {<<p, e>>}
  /\ batch' = [batch EXCEPT ![p] = {}]
  /\ pc' = [pc EXCEPT ![p] = "idle"]
  /\ UNCHANGED <<db, running, alive, failCount, backoff, reached, delivered,
                 faults>>

LatePublishArrives(p, e) ==
  /\ <<p, e>> \in late
  /\ late' = late \ {<<p, e>>}
  /\ delivered' = delivered \cup {<<p, e>>}
  /\ UNCHANGED <<db, running, alive, drain, faults>>

\* MarkPublished is one transaction under READ COMMITTED: it reads the
\* progress of the other publishers and then commits its own.
MarkPublishedReads(p, e) ==
  /\ pc[p] = "mark" /\ Current(p, e)
  /\ reached' = [reached EXCEPT ![p] = publisherProgressReached(p, e)]
  /\ pc' = [pc EXCEPT ![p] = "commit"]
  /\ UNCHANGED <<db, running, alive, batch, failCount, backoff, late,
                 delivered, faults>>

MarkPublishedCommits(p, e) ==
  /\ pc[p] = "commit" /\ Current(p, e)
  /\ cursor' = upsertPublisherProgress(p, e)
  /\ status' = IF reached[p] THEN SetStatus(e, "completed") ELSE status
  /\ Advance(p, e)
  /\ UNCHANGED <<running, alive, failCount, backoff, reached, late,
                 delivered, faults>>

\* A database error rolls the transaction back and the loop continues.
MarkPublishedFails(p, e) ==
  /\ pc[p] \in {"mark", "commit"} /\ Current(p, e)
  /\ Fault
  /\ Advance(p, e)
  /\ UNCHANGED <<db, running, alive, failCount, backoff, reached, late,
                 delivered>>

BackoffExpires(p) ==
  /\ backoff[p]
  /\ backoff' = [backoff EXCEPT ![p] = FALSE]
  /\ UNCHANGED <<db, running, alive, pc, batch, failCount, reached, late,
                 delivered, faults>>

-----------------------------------------------------------------------------
PublishStep(p, e) ==
  \/ PublishSucceeds(p, e)
  \/ PublishFails(p, e)
  \/ PublishTimesOut(p, e)
  \/ DrainReturns(p, e)

MarkStep(p, e) ==
  \/ MarkPublishedReads(p, e)
  \/ MarkPublishedCommits(p, e)
  \/ MarkPublishedFails(p, e)

Next ==
  \/ \E e \in Ids : Store(e) \/ RequeueEvent(e) \/ DeleteCompletedEvents(e)
  \/ Start \/ StartFails \/ Stop \/ StopReturns \/ Crash
  \/ \E p \in Publishers : DrainFetch(p) \/ BackoffExpires(p)
  \/ \E p \in Publishers, e \in Ids :
       PublishStep(p, e) \/ MarkStep(p, e) \/ LatePublishArrives(p, e)

Spec == Init /\ [][Next]_vars

\* The ticker of a drain fires again and again, every publish ends within
\* ProcessingTimeout, a transaction ends, a backoff expires, and a dispatcher
\* that is down is started again.  Nothing makes a request succeed.
Fairness ==
  /\ WF_vars(Start)
  /\ WF_vars(StopReturns)
  /\ \A p \in Publishers :
       /\ WF_vars(DrainFetch(p))
       /\ WF_vars(BackoffExpires(p))
       /\ WF_vars(\E e \in Ids : PublishStep(p, e))
       /\ WF_vars(\E e \in Ids : MarkStep(p, e))

FairSpec == Spec /\ Fairness

-----------------------------------------------------------------------------
(* Properties                                                              *)

\* An event is completed only when the progress of every publisher has
\* reached it (markPublished, publisherProgressReached), whatever the
\* interleaving of the transactions, crashes and database errors.
CompletedMeansReached ==
  \A e \in Ids : status[e] = "completed" => \A p \in Publishers : cursor[p] >= e

\* The progress row of a publisher names an event that this publisher has
\* delivered: a crash or a failed transaction never records an event that was
\* not sent (drainOnceForPublisher marks after pub.Publish returns nil).
ProgressIsDelivered ==
  \A p \in Publishers : cursor[p] # 0 => <<p, cursor[p]>> \in delivered

\* A publisher waits for publisherNextAttempt only while its failure count is
\* between 1 and MaxRetries - 1: success and dead-lettering lift the wait.
BackoffCountsFailures ==
  \A p \in Publishers : backoff[p] => failCount[p] \in 1..(MaxRetries - 1)

\* A completed event never becomes pending or failed again: no drain holds an
\* event in its batch that its own progress has passed, so a late error of one
\* publisher cannot undo what the last one completed.
CompletedIsFinal ==
  [][\A e \in Ids : status[e] = "completed" => status'[e] \in {"completed", "deleted"}]_vars

\* While the dispatcher stays up, each publisher gets past every pending event
\* or the event is dead-lettered: a failing event does not block a publisher
\* for ever (failCount, MaxRetries), nor does a failing publisher another one.
NoPublisherStalls ==
  <>[](alive /\ running) =>
    \A p \in Publishers, e \in Ids :
      (status[e] = "pending") ~> (status[e] # "pending" \/ cursor[p] >= e)

\* The strengthening that makes the safety properties inductive.  A drain holds
\* only rows that exist and that its own progress has not reached; what it is
\* about to record has been delivered; what it read of the others still holds,
\* because progress never goes back.
BatchAhead ==
  \A p \in Publishers : \A e \in batch[p] : cursor[p] < e /\ status[e] # "none"

MarkedIsDelivered ==
  \A p \in Publishers, e \in Ids :
    pc[p] \in {"mark", "commit"} /\ Current(p, e) => <<p, e>> \in delivered

ReachedStillHolds ==
  \A p \in Publishers, e \in Ids :
    pc[p] = "commit" /\ Current(p, e) /\ reached[p] =>
      \A q \in Publishers \ {p} : cursor[q] >= e

IInv ==
  /\ TypeOK
  /\ BatchAhead
  /\ MarkedIsDelivered
  /\ ReachedStillHolds
  /\ CompletedMeansReached
  /\ ProgressIsDelivered
  /\ BackoffCountsFailures

\* What the outbox documentation promises: a completed event has been received
\* by every publisher.  A failure followed by the success of a later event of the
\* same batch moves the progress past the failed event; so does the success of a
\* larger id before a smaller one is stored.
CompletedIsDelivered ==
  \A e \in Ids : status[e] = "completed" =>
    \A p \in Publishers : <<p, e>> \in delivered

\* The contract of the outbox towards its users: the dispatcher's tables are the
\* contract's state, its goroutines, batches and transactions are hidden.
Contract == INSTANCE OutboxContract WITH Publishers <- Publishers, MaxId <- MaxId,
                                         status <- status, cursor <- cursor

\* The dispatcher implements the contract: every step on its tables is a step of
\* OutboxContract or leaves them as they are.
ImplementsContract == Contract!Spec

=============================================================================
