--------------------------- MODULE ScheduledJobs ---------------------------
(***************************************************************************)
(* The jobs of internal/worker that run in every process and elect a leader *)
(* by an advisory lock (leader.go): the statement archive job, which moves  *)
(* old statements to the object store, and the partition rollover job.      *)
(*                                                                          *)
(* The two jobs use different lock keys and share nothing; jobKind selects  *)
(* the one a behaviour runs.  Time is counted in half months: month m is    *)
(* the times 2*m and 2*m+1.                                                 *)
(***************************************************************************)
EXTENDS Integers, FiniteSets

CONSTANTS
  Procs,             \* processes, each with a job, a guard and a session
  Stmts,             \* statements old enough to be archived
  Lookahead,         \* config.LookaheadMonths
  DetachThreshold,   \* config.DetachThresholdMonths
  Horizon,           \* bound on the clock, for each job
  MaxCrashes         \* bound on crashes, lost sessions and processes without a guard

NoProc == "no process"
NoKey  == <<>>

VARIABLES
  jobKind,     \* archive or rollover
  clock,       \* j.clock
  stage,       \* off, loop (between ticks), run (in the guarded function)
  pc,          \* the next step of that function
  cancelled,   \* j.ctx is cancelled
  hold,        \* leaderGuard.hold
  leader,      \* the process whose session holds the advisory lock
  guardConn,   \* the guard's connection is alive; it is never replaced
  unguarded,   \* processes that could not open it when they started: j.leader is nil
  cycleNow,    \* the time the cycle, or the current statement, was begun at
  crashes,
  archiveKey,  \* statements.archive_key; the row is cleared with it
  objects,     \* keys of the object store: a statement and the day of archival
  doubtful,    \* history: statements whose UPDATE was applied and then reported
               \* as failed, or that two processes archived at once
  todo,        \* statements of the batch still to archive
  attached,    \* months with a partition attached to statements_partitioned
  detached,    \* months whose partition was detached
  lastRollover \* partition_rollover_state.last_rollover_at, -1 before the first

electionVars == <<leader, guardConn, unguarded, crashes>>
guardVars    == <<stage, pc, cancelled, hold, electionVars>>
archiveVars  == <<archiveKey, objects, doubtful, todo>>
rolloverVars == <<attached, detached, lastRollover, cycleNow>>
jobVars      == <<jobKind, clock, guardVars, archiveVars, rolloverVars>>

MaxTime == Horizon["rollover"]
Keys == Stmts \X (0..Horizon["archive"])
MonthOf(t) == t \div 2

JobTypeOK ==
  /\ jobKind \in {"archive", "rollover"}
  /\ clock \in 0..Horizon[jobKind]
  /\ stage \in [Procs -> {"off", "loop", "run"}]
  /\ pc \in [Procs -> {"begin", "put", "update", "undo", "create", "detach", "mark", "return"}]
  /\ cancelled \in [Procs -> BOOLEAN]
  /\ hold \in [Procs -> BOOLEAN]
  /\ leader \in Procs \cup {NoProc}
  /\ guardConn \in [Procs -> BOOLEAN] /\ unguarded \subseteq Procs
  /\ crashes \in 0..MaxCrashes
  /\ archiveKey \in [Stmts -> Keys \cup {NoKey}]
  /\ objects \subseteq Keys
  /\ doubtful \subseteq Stmts
  /\ todo \in [Procs -> SUBSET Stmts]
  /\ attached \subseteq 0..(MonthOf(MaxTime) + Lookahead)
  /\ detached \subseteq 0..MonthOf(MaxTime)
  /\ lastRollover \in -1..MaxTime
  /\ cycleNow \in [Procs -> 0..MaxTime]

JobInit ==
  /\ jobKind \in {"archive", "rollover"}
  /\ clock = 0
  /\ stage = [p \in Procs |-> "off"]
  /\ pc = [p \in Procs |-> "begin"]
  /\ cancelled = [p \in Procs |-> FALSE]
  /\ hold = [p \in Procs |-> FALSE]
  /\ leader = NoProc
  /\ guardConn = [p \in Procs |-> TRUE] /\ unguarded = {}
  /\ crashes = 0
  /\ archiveKey = [s \in Stmts |-> NoKey]
  /\ objects = {}
  /\ doubtful = {}
  /\ todo = [p \in Procs |-> {}]
  /\ attached = {0}
  /\ detached = {}
  /\ lastRollover = -1
  /\ cycleNow = [p \in Procs |-> 0]

Tick ==
  /\ clock < Horizon[jobKind]
  /\ clock' = clock + 1
  /\ UNCHANGED <<jobKind, guardVars, archiveVars, rolloverVars>>

-----------------------------------------------------------------------------
(* Start, Stop and leaderGuard                                             *)

\* Start is called once, in a new process.  When the connection of the guard cannot
\* be had the job goes without one.
StartJob(p) ==
  /\ stage[p] = "off"
  /\ \/ UNCHANGED <<unguarded, crashes>>
     \/ /\ crashes < MaxCrashes /\ crashes' = crashes + 1
        /\ unguarded' = unguarded \cup {p}
  /\ stage' = [stage EXCEPT ![p] = "loop"]
  /\ UNCHANGED <<jobKind, clock, pc, cancelled, hold, leader, guardConn, archiveVars, rolloverVars>>

\* The process ends; the next one begins anew.
ProcessGone(p) ==
  /\ stage' = [stage EXCEPT ![p] = "off"]
  /\ cancelled' = [cancelled EXCEPT ![p] = FALSE]
  /\ guardConn' = [guardConn EXCEPT ![p] = TRUE]
  /\ unguarded' = unguarded \ {p}

\* pg_try_advisory_lock on the guard's session, which may hold the lock already,
\* and pg_advisory_unlock, which does nothing for another session's lock.
AcquireLock(p) == guardConn[p] /\ leader \in {NoProc, p} /\ leader' = p
ReleaseLock(p) == leader' = IF leader = p THEN NoProc ELSE leader

\* leaderGuard.Run, up to the call of fn: without a guard fn is called at once, else
\* the lock is taken by this session, or the tick ends with errNotLeader or with the
\* error of the query.
GuardAcquires(p) ==
  /\ stage[p] = "loop"
  /\ \/ p \in unguarded /\ UNCHANGED <<leader, hold>>
     \/ /\ p \notin unguarded
        /\ AcquireLock(p)
        /\ hold' = [hold EXCEPT ![p] = TRUE]
  /\ stage' = [stage EXCEPT ![p] = "run"]
  /\ pc' = [pc EXCEPT ![p] = "begin"]
  /\ UNCHANGED <<jobKind, clock, cancelled, guardConn, unguarded, crashes, archiveVars, rolloverVars>>

\* fn has returned; the deferred function unlocks if hold is still set.  The
\* unlock has no effect when the session has lost the lock.
GuardReturns(p) ==
  /\ stage[p] = "run" /\ pc[p] = "return"
  /\ hold' = [hold EXCEPT ![p] = FALSE]
  /\ IF hold[p] THEN ReleaseLock(p) ELSE UNCHANGED leader
  /\ stage' = [stage EXCEPT ![p] = "loop"]
  /\ pc' = [pc EXCEPT ![p] = "begin"]
  /\ UNCHANGED <<jobKind, clock, cancelled, guardConn, unguarded, crashes, archiveVars, rolloverVars>>

\* Stop cancels the context; the loop ends when it next looks at it, and Stop
\* then finds nothing to release.
StopJob(p) ==
  /\ stage[p] # "off"
  /\ cancelled' = [cancelled EXCEPT ![p] = TRUE]
  /\ UNCHANGED <<jobKind, clock, stage, pc, hold, electionVars, archiveVars, rolloverVars>>

LoopEnds(p) ==
  /\ stage[p] = "loop" /\ cancelled[p]
  /\ ProcessGone(p)
  /\ UNCHANGED <<jobKind, clock, pc, hold, leader, crashes, archiveVars, rolloverVars>>

\* ShutdownTimeout: Release unlocks although the function is still running.
StopTimesOut(p) ==
  /\ stage[p] = "run" /\ cancelled[p] /\ hold[p]
  /\ hold' = [hold EXCEPT ![p] = FALSE]
  /\ ReleaseLock(p)
  /\ UNCHANGED <<jobKind, clock, stage, pc, cancelled, guardConn, unguarded, crashes, archiveVars, rolloverVars>>

\* The session that holds the lock ends; the guard does not learn of it.
SessionLost(p) ==
  /\ leader = p /\ crashes < MaxCrashes
  /\ leader' = NoProc
  /\ guardConn' = [guardConn EXCEPT ![p] = FALSE]
  /\ crashes' = crashes + 1
  /\ UNCHANGED <<jobKind, clock, stage, pc, cancelled, hold, unguarded, archiveVars, rolloverVars>>

\* The process dies; the database ends its session.
JobCrash(p) ==
  /\ stage[p] # "off" /\ crashes < MaxCrashes
  /\ crashes' = crashes + 1
  /\ ProcessGone(p)
  /\ pc' = [pc EXCEPT ![p] = "begin"]
  /\ hold' = [hold EXCEPT ![p] = FALSE]
  /\ leader' = IF leader = p THEN NoProc ELSE leader
  /\ todo' = [todo EXCEPT ![p] = {}]
  /\ cycleNow' = [cycleNow EXCEPT ![p] = 0]
  /\ UNCHANGED <<jobKind, clock, archiveKey, objects, doubtful,
                 attached, detached, lastRollover>>

-----------------------------------------------------------------------------
(* StatementArchiveJob.runArchiveBatch                                     *)

Goto(p, step) == pc' = [pc EXCEPT ![p] = step]

At(p, kind, step) == jobKind = kind /\ stage[p] = "run" /\ pc[p] = step

\* The function returns, and its variables are gone.
Return(p) ==
  /\ Goto(p, "return")
  /\ todo' = [todo EXCEPT ![p] = {}]
  /\ cycleNow' = [cycleNow EXCEPT ![p] = 0]

\* Every other step may fail and do nothing, which ends the function with an error.
BodyFails(p) ==
  /\ stage[p] = "run" /\ pc[p] \notin {"update", "undo", "return"}
  /\ Return(p)
  /\ UNCHANGED <<jobKind, clock, stage, cancelled, hold, electionVars,
                 archiveKey, objects, doubtful, attached, detached, lastRollover>>

bodyUnchanged == <<jobKind, clock, stage, cancelled, hold, electionVars>>

\* SELECT of the rows that are old enough and not archived.
SelectBatch(p) ==
  LET rows == {s \in Stmts : archiveKey[s] = NoKey} IN
  /\ At(p, "archive", "begin") /\ ~cancelled[p]
  /\ todo' = [todo EXCEPT ![p] = rows]
  /\ Goto(p, IF rows = {} THEN "return" ELSE "put")
  /\ UNCHANGED <<bodyUnchanged, archiveKey, objects, doubtful, rolloverVars>>

Current(p) == CHOOSE s \in todo[p] : TRUE
KeyOf(p)   == <<Current(p), cycleNow[p]>>

\* Another process is between its upload and the end of its update of s, or has
\* archived s since this process selected it.
Contended(p, s) ==
  \/ archiveKey[s] # NoKey
  \/ \E q \in Procs \ {p} : stage[q] = "run" /\ pc[q] \in {"update", "undo"} /\ Current(q) = s

\* objStore.Put under the key of the day.
PutObject_IgnoresError(p) ==
  /\ At(p, "archive", "put")
  /\ cycleNow' = [cycleNow EXCEPT ![p] = clock]
  /\ objects' \in {objects, objects \cup {<<Current(p), clock>>}}
  /\ Goto(p, "update")
  /\ UNCHANGED <<bodyUnchanged, archiveKey, doubtful, todo, attached, detached, lastRollover>>
PutObject(p) ==
  /\ At(p, "archive", "put")
  /\ cycleNow' = [cycleNow EXCEPT ![p] = clock]
  /\ objects' = objects \cup {<<Current(p), clock>>}
  /\ Goto(p, "update")
  /\ doubtful' = IF Contended(p, Current(p)) THEN doubtful \cup {Current(p)} ELSE doubtful
  /\ UNCHANGED <<bodyUnchanged, archiveKey, todo, attached, detached, lastRollover>>

\* The upload reports an error, and the object is there all the same.
PutFails(p) ==
  /\ At(p, "archive", "put")
  /\ objects' = objects \cup {<<Current(p), clock>>}
  /\ Return(p)
  /\ UNCHANGED <<bodyUnchanged, archiveKey, doubtful, attached, detached, lastRollover>>

\* The UPDATE clears the row if it still has its period_start; a row that was
\* already cleared matches nothing, which is not an error.
UpdateRow(p) ==
  /\ At(p, "archive", "update") /\ ~cancelled[p]
  /\ archiveKey' = [archiveKey EXCEPT ![Current(p)] = IF @ = NoKey THEN KeyOf(p) ELSE @]
  /\ todo' = [todo EXCEPT ![p] = @ \ {Current(p)}]
  /\ cycleNow' = [cycleNow EXCEPT ![p] = 0]
  /\ Goto(p, IF todo[p] = {Current(p)} THEN "return" ELSE "put")
  /\ UNCHANGED <<bodyUnchanged, objects, doubtful, attached, detached, lastRollover>>

\* The UPDATE reports an error; its effect may have been committed all the same.
UpdateFails(p) ==
  /\ At(p, "archive", "update")
  /\ \/ UNCHANGED <<archiveKey, doubtful>>
     \/ /\ archiveKey[Current(p)] = NoKey
        /\ archiveKey' = [archiveKey EXCEPT ![Current(p)] = KeyOf(p)]
        /\ doubtful' = doubtful \cup {Current(p)}
  /\ Goto(p, "undo")
  /\ UNCHANGED <<bodyUnchanged, objects, todo, rolloverVars>>

\* objStore.Delete, which may fail; the batch ends either way.
UndoPut(p) ==
  /\ At(p, "archive", "undo")
  /\ objects' \in {objects, objects \ {KeyOf(p)}}
  /\ Return(p)
  /\ UNCHANGED <<bodyUnchanged, archiveKey, doubtful, attached, detached, lastRollover>>

-----------------------------------------------------------------------------
(* PartitionRolloverJob.runRolloverCycle                                   *)

\* LastRolloverAt; the cooldown is shorter than a clock step, so a cycle is
\* skipped when the last one was recorded with the same time.
WithinCooldown == lastRollover = clock

CheckCooldown(p) ==
  /\ At(p, "rollover", "begin") /\ ~cancelled[p]
  /\ cycleNow' = [cycleNow EXCEPT ![p] = IF WithinCooldown THEN 0 ELSE clock]
  /\ Goto(p, IF WithinCooldown THEN "return" ELSE "create")
  /\ UNCHANGED <<bodyUnchanged, archiveVars, attached, detached, lastRollover>>

NextMonths(p) == {MonthOf(cycleNow[p]) + m : m \in 1..Lookahead}

\* One turn of the loop that creates the partitions still missing.
CreatePartition(p) ==
  /\ At(p, "rollover", "create") /\ ~cancelled[p]
  /\ \/ /\ NextMonths(p) \subseteq attached
        /\ Goto(p, "detach")
        /\ UNCHANGED attached
     \/ \E m \in NextMonths(p) \ attached :
          /\ \A k \in NextMonths(p) \ attached : m <= k
          /\ attached' = attached \cup {m}
          /\ UNCHANGED pc
  /\ UNCHANGED <<bodyUnchanged, archiveVars, detached, lastRollover, cycleNow>>

\* parsePartitionDate(p).Before(now - DetachThresholdMonths)
OldMonths(p) == {m \in attached : 2 * m < cycleNow[p] - 2 * DetachThreshold}

DetachPartition(p) ==
  /\ At(p, "rollover", "detach") /\ ~cancelled[p]
  /\ \/ /\ OldMonths(p) = {}
        /\ Goto(p, "mark")
        /\ UNCHANGED <<attached, detached>>
     \/ \E m \in OldMonths(p) :
          /\ attached' = attached \ {m}
          /\ detached' = detached \cup {m}
          /\ UNCHANGED pc
  /\ UNCHANGED <<bodyUnchanged, archiveVars, lastRollover, cycleNow>>

\* MarkRolloverDone writes the time the cycle began with.
MarkRolloverDone(p) ==
  /\ At(p, "rollover", "mark") /\ ~cancelled[p]
  /\ lastRollover' = cycleNow[p]
  /\ Return(p)
  /\ UNCHANGED <<bodyUnchanged, archiveKey, objects, doubtful, attached, detached>>

JobNext ==
  \/ Tick
  \/ \E p \in Procs :
       \/ StartJob(p) \/ StopJob(p) \/ LoopEnds(p) \/ StopTimesOut(p)
       \/ GuardAcquires(p) \/ GuardReturns(p) \/ BodyFails(p)
       \/ SessionLost(p) \/ JobCrash(p)
       \/ SelectBatch(p) \/ PutObject(p) \/ PutFails(p) \/ UpdateRow(p) \/ UpdateFails(p) \/ UndoPut(p)
       \/ CheckCooldown(p) \/ CreatePartition(p) \/ DetachPartition(p) \/ MarkRolloverDone(p)

JobSpec == JobInit /\ [][JobNext]_jobVars

-----------------------------------------------------------------------------
(* Properties                                                              *)

\* leaderGuard.Run keeps a job to one process at a time: a process in the guarded
\* function whose guard still holds is the leader, and there is one other way only
\* to be in it, without a guard.  So two processes are in it only after one has lost
\* the lock under it, to a dead session or a Stop that timed out, or had no guard.
LeaderExclusive ==
  \A p \in Procs :
    stage[p] = "run" => leader = p \/ p \in unguarded \/ ~hold[p] \/ ~guardConn[p]

\* A row is cleared only when its contents are in the object store, and the
\* clean-up after a failed UPDATE does not take them away again, over crashes,
\* retries on a later day and a stopped leader that goes on.  The exceptions are
\* an UPDATE that was applied and reported as failed, and a row that two
\* processes archived at once.
ArchivedHasObject ==
  \A s \in Stmts : archiveKey[s] # NoKey => archiveKey[s] \in objects \/ s \in doubtful

\* Once a rollover is recorded, the partitions of the months it looked ahead to
\* are there, or have aged until they were detached: the cooldown never skips a
\* cycle that is still needed.
MarkedIsCreated ==
  lastRollover >= 0 =>
    {MonthOf(lastRollover) + m : m \in 1..Lookahead} \subseteq attached \cup detached

=============================================================================
