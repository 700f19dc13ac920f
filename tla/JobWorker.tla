----------------------------- MODULE JobWorker -----------------------------
(***************************************************************************)
(* The billing workers of internal/worker: each polls the shared JobStore,  *)
(* takes a TTL lock on a job, and hands it to one of MaxConcurrency          *)
(* goroutines that executes it and writes it back (worker.go,                *)
(* store_memory.go).                                                        *)
(*                                                                          *)
(* The store hands out copies and StoreUpdate overwrites the whole job, so what   *)
(* a worker holds may be stale.  The choice of the lane is LaneScheduler;    *)
(* here Next returns any due job.                                           *)
(***************************************************************************)
EXTENDS Integers, FiniteSets

CONSTANTS
  Jobs,             \* job ids
  JobWorkers,          \* worker ids sharing the store
  MaxJobAttempts,      \* Config.MaxAttempts
  PollSize,        \* Config.BatchSize
  MaxConcurrency,   \* Config.MaxConcurrency of each worker
  MaxQueueDepth,    \* Config.MaxQueueDepth
  MayExpire,        \* jobs whose lock may outlive its TTL
  MayStop           \* workers that may be shut down

ASSUME JobConstants ==
  /\ IsFiniteSet(Jobs)
  /\ MaxJobAttempts \in Nat \ {0}
  /\ PollSize \in Nat \ {0}
  /\ MaxConcurrency \in [JobWorkers -> Nat \ {0}]
  /\ MaxQueueDepth \in Nat
  /\ MayExpire \subseteq Jobs /\ MayStop \subseteq JobWorkers

VARIABLES
  job,       \* the store: status, attempts and whether ScheduledAt has passed
  lock,      \* holder of the lock of each job, or NoWorker
  expired,   \* the TTL of that lock has passed
  stopped,   \* the context of a worker is cancelled
  left,      \* picks left in the current pollAndDispatch
  pick,      \* the job the poll loop has in hand
  exec       \* what each goroutine slot of a worker does

jobWorkerVars == <<job, lock, expired, stopped, left, pick, exec>>

NoWorker == "no worker"
ExecSlots    == UNION {1..MaxConcurrency[w] : w \in JobWorkers}
Job      == [status : {"absent", "pending", "running", "completed", "dead_letter"},
             attempts : 0..MaxJobAttempts, due : BOOLEAN]
Pick     == [pc : {"picked", "locked"}, id : Jobs, attempts : 0..MaxJobAttempts]
Exec     == [pc : {"begin", "execute", "release"}, id : Jobs, attempts : 0..MaxJobAttempts]
NoJob     == [pc |-> "none"]

\* Types of the store, the polls and the slots; attempts stay within MaxJobAttempts.
JobWorkerTypeOK ==
  /\ job \in [Jobs -> Job]
  /\ lock \in [Jobs -> JobWorkers \cup {NoWorker}]
  /\ expired \in [Jobs -> BOOLEAN]
  /\ stopped \in [JobWorkers -> BOOLEAN]
  /\ left \in [JobWorkers -> 0..PollSize]
  /\ pick \in [JobWorkers -> Pick \cup {NoJob}]
  /\ exec \in [JobWorkers \X ExecSlots -> Exec \cup {NoJob}]

JobWorkerInit ==
  /\ job = [j \in Jobs |-> [status |-> "absent", attempts |-> 0, due |-> FALSE]]
  /\ lock = [j \in Jobs |-> NoWorker]
  /\ expired = [j \in Jobs |-> FALSE]
  /\ stopped = [w \in JobWorkers |-> FALSE]
  /\ left = [w \in JobWorkers |-> 0]
  /\ pick = [w \in JobWorkers |-> NoJob]
  /\ exec = [ws \in JobWorkers \X ExecSlots |-> NoJob]

-----------------------------------------------------------------------------
(* The scheduler's callers and the clock                                   *)

\* ScheduleCharge, ScheduleInvoice, ScheduleReminder.
Create(j) ==
  /\ job[j].status = "absent"
  /\ \E d \in BOOLEAN :
       job' = [job EXCEPT ![j] = [status |-> "pending", attempts |-> 0, due |-> d]]
  /\ UNCHANGED <<lock, expired, stopped, left, pick, exec>>

FallsDue(j) ==
  /\ job[j].status = "pending" /\ ~job[j].due
  /\ job' = [job EXCEPT ![j].due = TRUE]
  /\ UNCHANGED <<lock, expired, stopped, left, pick, exec>>

LockExpires(j) ==
  /\ j \in MayExpire /\ lock[j] # NoWorker /\ ~expired[j]
  /\ expired' = [expired EXCEPT ![j] = TRUE]
  /\ UNCHANGED <<job, lock, stopped, left, pick, exec>>

-----------------------------------------------------------------------------
(* pollAndDispatch                                                         *)

Due == {j \in Jobs : job[j].status = "pending" /\ job[j].due}

\* A queue deeper than MaxQueueDepth makes the poll return at once, and a poll
\* that finds nothing due does nothing.
PollBegins(w) ==
  /\ ~stopped[w] /\ left[w] = 0 /\ pick[w] = NoJob
  /\ Due # {} /\ Cardinality(Due) <= MaxQueueDepth
  /\ left' = [left EXCEPT ![w] = PollSize]
  /\ UNCHANGED <<job, lock, expired, stopped, pick, exec>>

\* scheduler.Next returns a copy of a due job.
NextPicks(w, j) ==
  /\ left[w] > 0 /\ pick[w] = NoJob
  /\ j \in Due
  /\ pick' = [pick EXCEPT ![w] = [pc |-> "picked", id |-> j, attempts |-> job[j].attempts]]
  /\ left' = [left EXCEPT ![w] = @ - 1]
  /\ UNCHANGED <<job, lock, expired, stopped, exec>>

NextFindsNone(w) ==
  /\ left[w] > 0 /\ pick[w] = NoJob
  /\ Due = {}
  /\ left' = [left EXCEPT ![w] = 0]
  /\ UNCHANGED <<job, lock, expired, stopped, pick, exec>>

\* Another worker's lock blocks until its TTL has passed; one's own is renewed.
AcquireJobLock(w) ==
  /\ pick[w].pc = "picked"
  /\ LET j == pick[w].id IN
     IF lock[j] \in JobWorkers \ {w} /\ ~expired[j]
       THEN /\ pick' = [pick EXCEPT ![w] = NoJob]
            /\ UNCHANGED <<lock, expired>>
       ELSE /\ pick' = [pick EXCEPT ![w].pc = "locked"]
            /\ lock' = [lock EXCEPT ![j] = w]
            /\ expired' = [expired EXCEPT ![j] = FALSE]
  /\ UNCHANGED <<job, stopped, left, exec>>

\* w.sem <- struct{}{} blocks until a slot is free.
Dispatch(w, s) ==
  /\ pick[w].pc = "locked"
  /\ s <= MaxConcurrency[w] /\ exec[w, s] = NoJob
  /\ exec' = [exec EXCEPT ![w, s] =
                [pc |-> "begin", id |-> pick[w].id, attempts |-> pick[w].attempts]]
  /\ pick' = [pick EXCEPT ![w] = NoJob]
  /\ UNCHANGED <<job, lock, expired, stopped, left>>

JobStop(w) ==
  /\ w \in MayStop /\ ~stopped[w]
  /\ stopped' = [stopped EXCEPT ![w] = TRUE]
  /\ UNCHANGED <<job, lock, expired, left, pick, exec>>

-----------------------------------------------------------------------------
(* executeJob                                                              *)

\* store.Update overwrites the job with the copy in hand.
StoreUpdate(x, s, d) ==
  job' = [job EXCEPT ![x.id] = [status |-> s, attempts |-> x.attempts, due |-> d]]

ExecuteBegins(w, s) ==
  LET x == [exec[w, s] EXCEPT !.pc = "execute", !.attempts = @ + 1] IN
  /\ exec[w, s].pc = "begin"
  /\ exec' = [exec EXCEPT ![w, s] = x]
  /\ StoreUpdate(x, "running", TRUE)
  /\ UNCHANGED <<lock, expired, stopped, left, pick>>

handleJobSuccess(w, s) ==
  /\ exec[w, s].pc = "execute"
  /\ StoreUpdate(exec[w, s], "completed", TRUE)
  /\ exec' = [exec EXCEPT ![w, s].pc = "release"]
  /\ UNCHANGED <<lock, expired, stopped, left, pick>>

\* The executor returns an error, or its context is cancelled or times out.
handleJobFailure_OffByOne(w, s) ==
  /\ exec[w, s].pc = "execute"
  /\ IF exec[w, s].attempts > MaxJobAttempts
       THEN StoreUpdate(exec[w, s], "dead_letter", TRUE)
       ELSE StoreUpdate(exec[w, s], "pending", FALSE)
  /\ exec' = [exec EXCEPT ![w, s].pc = "release"]
  /\ UNCHANGED <<lock, expired, stopped, left, pick>>
handleJobFailure_Forever(w, s) ==
  /\ exec[w, s].pc = "execute"
  /\ job' = [job EXCEPT ![exec[w, s].id] = [status |-> "pending", attempts |-> 0, due |-> FALSE]]
  /\ exec' = [exec EXCEPT ![w, s].pc = "release"]
  /\ UNCHANGED <<lock, expired, stopped, left, pick>>
handleJobFailure(w, s) ==
  /\ exec[w, s].pc = "execute"
  /\ IF exec[w, s].attempts >= MaxJobAttempts
       THEN StoreUpdate(exec[w, s], "dead_letter", TRUE)
       ELSE StoreUpdate(exec[w, s], "pending", FALSE)
  /\ exec' = [exec EXCEPT ![w, s].pc = "release"]
  /\ UNCHANGED <<lock, expired, stopped, left, pick>>

\* The deferred ReleaseJobLock, for whoever of this worker holds the lock.
ReleaseJobLock(w, s) ==
  /\ exec[w, s].pc = "release"
  /\ LET j == exec[w, s].id IN
       /\ lock' = [lock EXCEPT ![j] = IF @ = w THEN NoWorker ELSE @]
       /\ expired' = [expired EXCEPT ![j] = @ /\ lock[j] # w]
  /\ exec' = [exec EXCEPT ![w, s] = NoJob]
  /\ UNCHANGED <<job, stopped, left, pick>>

-----------------------------------------------------------------------------
SlotStep(w, s) ==
  \/ ExecuteBegins(w, s) \/ handleJobSuccess(w, s) \/ handleJobFailure(w, s)
  \/ ReleaseJobLock(w, s)

PollStep(w) ==
  \/ PollBegins(w) \/ NextFindsNone(w) \/ AcquireJobLock(w)
  \/ \E j \in Jobs : NextPicks(w, j)
  \/ \E s \in ExecSlots : Dispatch(w, s)

JobWorkerNext ==
  \/ \E j \in Jobs : Create(j) \/ FallsDue(j) \/ LockExpires(j)
  \/ \E w \in JobWorkers : PollStep(w) \/ JobStop(w)
  \/ \E w \in JobWorkers, s \in ExecSlots : SlotStep(w, s)

JobWorkerSpec == JobWorkerInit /\ [][JobWorkerNext]_jobWorkerVars

-----------------------------------------------------------------------------
(* Properties                                                              *)

WorksOn(w, j) ==
  \/ pick[w].pc = "locked" /\ pick[w].id = j
  \/ \E s \in ExecSlots : exec[w, s] # NoJob /\ exec[w, s].id = j

\* A lock is held only by a worker that still has the job in hand: every path
\* through executeJob ends in ReleaseJobLock, so no job stays locked until its TTL
\* passes, even when one worker executes it twice or its lock was taken over.
NoLeakedLock ==
  \A j \in Jobs, w \in JobWorkers : lock[j] = w => WorksOn(w, j)

\* The retry budget survives overwrites by stale copies: a pending job has an
\* attempt left, and a job is dead-lettered exactly when none is left.
RetryBudget ==
  \A j \in Jobs :
    /\ job[j].status = "pending" => job[j].attempts < MaxJobAttempts
    /\ job[j].status = "dead_letter" => job[j].attempts = MaxJobAttempts

\* A job that is completed is not executed again ("Distributed locking prevents
\* duplicate execution").
CompletedRunsNoMore ==
  \A w \in JobWorkers, s \in ExecSlots :
    exec[w, s].pc = "begin" => job[exec[w, s].id].status # "completed"

\* While one worker keeps polling and the queue stays below MaxQueueDepth,
\* every job ends completed or dead-lettered and stays there, although stale
\* copies may bring a finished job back for a while.
EventuallySettled ==
  (\E w \in JobWorkers : []~stopped[w]) =>
    \A j \in Jobs :
      [](job[j].status = "pending" =>
           <>[](job[j].status \in {"completed", "dead_letter"}))

=============================================================================
