---------------------------- MODULE OutboxWorker ----------------------------
(***************************************************************************)
(* The polling workers of internal/worker/outbox_worker.go.  Several        *)
(* workers claim rows of outbox_events with FOR UPDATE SKIP LOCKED, set      *)
(* them to 'processing', publish them and record the outcome.               *)
(*                                                                          *)
(* A row is its rank in ORDER BY occurred_at; rows are committed in any      *)
(* order.  retry_count is counted up to MaxRetries, the only value it is     *)
(* compared with.                                                           *)
(***************************************************************************)
EXTENDS Integers, FiniteSets

CONSTANTS
  Workers,        \* worker processes
  MaxId,          \* rows have ranks 1..MaxId
  BatchSize,      \* OutboxWorkerConfig.BatchSize
  MaxRetries,     \* the smaller of event.MaxRetries and config.MaxRetries
  ErrLimit,       \* consecutive poll errors that Health tolerates (5)
  MaxWorkerFaults       \* bound on database errors, crashes and shutdowns

ASSUME OutboxWorkerConstants ==
  /\ MaxId \in Nat
  /\ BatchSize \in Nat \ {0}
  /\ MaxRetries \in Nat \ {0}
  /\ ErrLimit \in Nat
  /\ MaxWorkerFaults \in Nat

VARIABLES
  status,       \* outbox_events.status; "none" before the row is committed
  retryCount,   \* outbox_events.retry_count
  nextRetry,    \* outbox_events.next_retry_at: "null", "future" or "past"
  locked,       \* rows locked by the open claim transaction of a worker
  up,           \* the context of a worker is not cancelled
  workerPc,           \* where the poll loop of a worker is
  batch,        \* claimed events it has not finished with
  errs,         \* consecutiveErrs
  delivered,    \* history: events the publisher has taken
  workerFaults        \* faults injected so far

rows == <<status, retryCount, nextRetry>>
outboxWorkerVars == <<status, retryCount, nextRetry, locked, up, workerPc, batch, errs,
          delivered, workerFaults>>

Ids    == 1..MaxId
Status == {"none", "pending", "processing", "completed", "failed"}

\* An OutboxEvent in the memory of a worker: the row as it was when claimed.
Claimed == [id : Ids, retries : 0..MaxRetries]

OutboxWorkerTypeOK ==
  /\ status \in [Ids -> Status]
  /\ retryCount \in [Ids -> 0..MaxRetries]
  /\ nextRetry \in [Ids -> {"null", "future", "past"}]
  /\ locked \in [Workers -> SUBSET Ids]
  /\ up \in [Workers -> BOOLEAN]
  /\ workerPc \in [Workers -> {"down", "idle", "claim", "next", "publish",
                         "succeeded", "failed"}]
  /\ batch \in [Workers -> SUBSET Claimed]
  /\ errs \in [Workers -> 0..(ErrLimit + 1)]
  /\ delivered \subseteq Ids
  /\ workerFaults \in 0..MaxWorkerFaults

OutboxWorkerInit ==
  /\ status = [e \in Ids |-> "none"]
  /\ retryCount = [e \in Ids |-> 0]
  /\ nextRetry = [e \in Ids |-> "null"]
  /\ locked = [w \in Workers |-> {}]
  /\ up = [w \in Workers |-> FALSE]
  /\ workerPc = [w \in Workers |-> "down"]
  /\ batch = [w \in Workers |-> {}]
  /\ errs = [w \in Workers |-> 0]
  /\ delivered = {}
  /\ workerFaults = 0

WorkerFault == workerFaults < MaxWorkerFaults /\ workerFaults' = workerFaults + 1

-----------------------------------------------------------------------------
(* The application and the clock                                           *)

StoreRow(e) ==
  /\ status[e] = "none"
  /\ status' = [status EXCEPT ![e] = "pending"]
  /\ UNCHANGED <<retryCount, nextRetry, locked, up, workerPc, batch, errs,
                 delivered, workerFaults>>

\* next_retry_at <= now from here on.
RetryFallsDue(e) ==
  /\ nextRetry[e] = "future"
  /\ nextRetry' = [nextRetry EXCEPT ![e] = "past"]
  /\ UNCHANGED <<status, retryCount, locked, up, workerPc, batch, errs, delivered,
                 workerFaults>>

-----------------------------------------------------------------------------
(* Life cycle of a worker                                                  *)

Start(w) ==
  /\ workerPc[w] = "down"
  /\ up' = [up EXCEPT ![w] = TRUE]
  /\ workerPc' = [workerPc EXCEPT ![w] = "idle"]
  /\ errs' = [errs EXCEPT ![w] = 0]
  /\ UNCHANGED <<rows, locked, batch, delivered, workerFaults>>

WorkerStop(w) ==
  /\ up[w]
  /\ WorkerFault
  /\ up' = [up EXCEPT ![w] = FALSE]
  /\ UNCHANGED <<rows, locked, workerPc, batch, errs, delivered>>

\* The poll loop has seen the cancelled context and Stop returns.
StopReturns(w) ==
  /\ ~up[w] /\ workerPc[w] \in {"idle", "next"}
  /\ workerPc' = [workerPc EXCEPT ![w] = "down"]
  /\ batch' = [batch EXCEPT ![w] = {}]
  /\ UNCHANGED <<rows, locked, up, errs, delivered, workerFaults>>

\* The process ends: killed, or Stop gave up after ShutdownTimeout.  The open
\* transaction is rolled back.
WorkerCrash(w) ==
  /\ workerPc[w] # "down"
  /\ WorkerFault
  /\ up' = [up EXCEPT ![w] = FALSE]
  /\ workerPc' = [workerPc EXCEPT ![w] = "down"]
  /\ batch' = [batch EXCEPT ![w] = {}]
  /\ locked' = [locked EXCEPT ![w] = {}]
  /\ UNCHANGED <<rows, errs, delivered>>

-----------------------------------------------------------------------------
(* claimBatch                                                              *)

\* The WHERE clause: pending, or failed with a retry time that has passed.
Eligible_PendingOnly(e) == status[e] = "pending"
Eligible_Processing(e) ==
  \/ status[e] \in {"pending", "processing"}
  \/ status[e] = "failed" /\ nextRetry[e] = "past"
Eligible(e) ==
  \/ status[e] = "pending"
  \/ status[e] = "failed" /\ nextRetry[e] = "past"

\* FOR UPDATE SKIP LOCKED leaves out the rows other transactions hold.
Selectable(w) ==
  {e \in Ids : Eligible(e) /\ \A v \in Workers \ {w} : e \notin locked[v]}

\* ORDER BY occurred_at LIMIT BatchSize.
ClaimSelects(w) ==
  /\ up[w] /\ workerPc[w] = "idle"
  /\ \E B \in SUBSET Selectable(w) \ {{}} :
       /\ Cardinality(B) <= BatchSize
       /\ Cardinality(B) = BatchSize \/ B = Selectable(w)
       /\ \A e \in B, f \in Selectable(w) \ B : e < f
       /\ locked' = [locked EXCEPT ![w] = B]
  /\ workerPc' = [workerPc EXCEPT ![w] = "claim"]
  /\ UNCHANGED <<rows, up, batch, errs, delivered, workerFaults>>

ClaimCommits(w) ==
  /\ up[w] /\ workerPc[w] = "claim"
  /\ status' = [e \in Ids |-> IF e \in locked[w] THEN "processing" ELSE status[e]]
  /\ batch' = [batch EXCEPT ![w] = {[id |-> e, retries |-> retryCount[e]] : e \in locked[w]}]
  /\ locked' = [locked EXCEPT ![w] = {}]
  /\ errs' = [errs EXCEPT ![w] = 0]
  /\ workerPc' = [workerPc EXCEPT ![w] = "next"]
  /\ UNCHANGED <<retryCount, nextRetry, up, delivered, workerFaults>>

\* A database error, or the context cancelled before the commit.
ClaimFails(w) ==
  /\ workerPc[w] = "claim" \/ (workerPc[w] = "idle" /\ up[w])
  /\ WorkerFault \/ (~up[w] /\ UNCHANGED workerFaults)
  /\ locked' = [locked EXCEPT ![w] = {}]
  /\ errs' = [errs EXCEPT ![w] = IF @ <= ErrLimit THEN @ + 1 ELSE @]
  /\ workerPc' = [workerPc EXCEPT ![w] = "idle"]
  /\ UNCHANGED <<rows, up, batch, delivered>>

-----------------------------------------------------------------------------
(* processEvent                                                            *)

\* poll goes through the claimed events in order.
Current(w, c) == c \in batch[w] /\ \A d \in batch[w] : c.id <= d.id

Done(w, c) ==
  /\ batch' = [batch EXCEPT ![w] = @ \ {c}]
  /\ workerPc' = [workerPc EXCEPT ![w] = IF batch[w] = {c} THEN "idle" ELSE "next"]

PublishBegins(w) ==
  /\ up[w] /\ workerPc[w] = "next"
  /\ workerPc' = [workerPc EXCEPT ![w] = "publish"]
  /\ UNCHANGED <<rows, locked, up, batch, errs, delivered, workerFaults>>

PublishSucceeds(w, c) ==
  /\ workerPc[w] = "publish" /\ Current(w, c)
  /\ delivered' = delivered \cup {c.id}
  /\ workerPc' = [workerPc EXCEPT ![w] = "succeeded"]
  /\ UNCHANGED <<rows, locked, up, batch, errs, workerFaults>>

\* An error, the ProcessingTimeout or the cancelled context; the receiver may
\* have taken the event all the same.
PublishFails(w, c) ==
  /\ workerPc[w] = "publish" /\ Current(w, c)
  /\ delivered' \in {delivered, delivered \cup {c.id}}
  /\ workerPc' = [workerPc EXCEPT ![w] = "failed"]
  /\ UNCHANGED <<rows, locked, up, batch, errs, workerFaults>>

markCompleted(w, c) ==
  /\ workerPc[w] = "succeeded" /\ Current(w, c)
  /\ \/ status' = [status EXCEPT ![c.id] = "completed"] /\ UNCHANGED workerFaults
     \/ WorkerFault /\ UNCHANGED status
  /\ Done(w, c)
  /\ UNCHANGED <<retryCount, nextRetry, locked, up, errs, delivered>>

\* The dead-letter branch leaves next_retry_at as it is.
handleFailure(w, c) ==
  /\ workerPc[w] = "failed" /\ Current(w, c)
  /\ \/ /\ status' = [status EXCEPT ![c.id] = "failed"]
        /\ retryCount' = [retryCount EXCEPT ![c.id] =
                            IF c.retries < MaxRetries THEN c.retries + 1 ELSE MaxRetries]
        /\ nextRetry' = IF c.retries + 1 >= MaxRetries
                          THEN nextRetry
                          ELSE [nextRetry EXCEPT ![c.id] = "future"]
        /\ UNCHANGED workerFaults
     \/ WorkerFault /\ UNCHANGED rows
  /\ Done(w, c)
  /\ UNCHANGED <<locked, up, errs, delivered>>

-----------------------------------------------------------------------------
Outcome(w, c) ==
  \/ PublishSucceeds(w, c) \/ PublishFails(w, c)
  \/ markCompleted(w, c) \/ handleFailure(w, c)

OutboxWorkerNext ==
  \/ \E e \in Ids : StoreRow(e) \/ RetryFallsDue(e)
  \/ \E w \in Workers :
       \/ Start(w) \/ WorkerStop(w) \/ StopReturns(w) \/ WorkerCrash(w)
       \/ ClaimSelects(w) \/ ClaimCommits(w) \/ ClaimFails(w)
       \/ PublishBegins(w)
       \/ \E c \in batch[w] : Outcome(w, c)

OutboxWorkerSpec == OutboxWorkerInit /\ [][OutboxWorkerNext]_outboxWorkerVars

-----------------------------------------------------------------------------
(* Properties                                                              *)

HeldBy(w) == locked[w] \cup {c.id : c \in batch[w]}

\* Two workers never hold the same row, from the SELECT ... FOR UPDATE SKIP
\* LOCKED to the recorded outcome: a row is not published by two at a time.
ExclusiveClaim ==
  \A v, w \in Workers : v # w => HeldBy(v) \cap HeldBy(w) = {}

\* What a worker holds in memory agrees with the row: it is 'processing' and
\* nobody has changed the retry count since the claim, so handleFailure does
\* not write back a stale count.
ClaimIsCurrent ==
  \A w \in Workers : \A c \in batch[w] :
    status[c.id] = "processing" /\ retryCount[c.id] = c.retries

\* A completed event has been taken by the publisher.
CompletedIsDelivered ==
  \A e \in Ids : status[e] = "completed" => e \in delivered

\* A completed event is never claimed or failed again.
CompletedIsFinal ==
  [][\A e \in Ids : status[e] = "completed" => status'[e] = "completed"]_outboxWorkerVars

\* The strengthening that makes the invariants inductive: a locked row is still
\* pending or failed and is held in no batch, locks live only inside a claim,
\* and an outcome is recorded only after the publisher took the event.
LockedIsWaiting ==
  \A w \in Workers :
    /\ \A e \in locked[w] : status[e] \in {"pending", "failed"}
    /\ workerPc[w] # "claim" => locked[w] = {}
    /\ workerPc[w] \in {"down", "idle", "claim"} => batch[w] = {}

SucceededIsDelivered ==
  \A w \in Workers : \A c \in batch[w] :
    workerPc[w] = "succeeded" /\ Current(w, c) => c.id \in delivered

OutboxWorkerIInv ==
  /\ OutboxWorkerTypeOK
  /\ ExclusiveClaim
  /\ ClaimIsCurrent
  /\ CompletedIsDelivered
  /\ LockedIsWaiting
  /\ SucceededIsDelivered

\* As long as one worker stays up and the batch is not smaller than the
\* backlog, a pending event, and a failed one that has attempts left, is
\* claimed: handleFailure gives every event it does not dead-letter a retry time.
WaitingIsClaimed ==
  (\E w \in Workers : <>[]up[w]) =>
    \A e \in Ids :
      (status[e] = "pending" \/ (status[e] = "failed" /\ retryCount[e] < MaxRetries))
        ~> (status[e] = "processing")

\* A dead-lettered event is out of the workers' hands: none claims an event whose
\* retries are used up ("max retries before dead-letter (failed permanently)").
DeadLetterIsFinal ==
  \A w \in Workers : \A c \in batch[w] : c.retries < MaxRetries

=============================================================================
