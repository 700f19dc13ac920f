--------------------------- MODULE LaneScheduler ---------------------------
(***************************************************************************)
(* Scheduler.Next of internal/worker/scheduler.go: weighted round-robin     *)
(* over three priority lanes, a starvation guard for the low lane and a     *)
(* fallback to strict priority when the chosen lane is empty.               *)
(*                                                                          *)
(* A lane is the number of its due jobs.  A job that Next returned may stay  *)
(* in its lane, because its lock is taken or its goroutine has not started. *)
(***************************************************************************)
EXTENDS Integers

CONSTANTS
  Weight,            \* Scheduler.weights, a function of the lane
  StarvationLimit,   \* Scheduler.starvationLimit
  MaxDepth           \* bound on the jobs of a lane

Lanes == {"high", "normal", "low"}

ASSUME LaneConstants ==
  /\ Weight \in [Lanes -> Nat]
  /\ StarvationLimit \in Nat
  /\ MaxDepth \in Nat

VARIABLES
  depth,            \* due jobs of each lane
  idx,              \* Scheduler.counter modulo totalWeight
  starvationCount,  \* Scheduler.starvationCount
  waited            \* history: picks from other lanes since a lane was non-empty

laneVars == <<depth, idx, starvationCount, waited>>

Sum   == Weight["high"] + Weight["normal"] + Weight["low"]
Total == IF Sum = 0 THEN 1 ELSE Sum

\* waited is counted up to WaitCap.
WaitCap == Total + StarvationLimit + 1

LaneTypeOK ==
  /\ depth \in [Lanes -> 0..MaxDepth]
  /\ idx \in 0..(Total - 1)
  /\ starvationCount \in 0..StarvationLimit
  /\ waited \in [Lanes -> 0..WaitCap]

LaneInit ==
  /\ depth = [p \in Lanes |-> 0]
  /\ idx = 0
  /\ starvationCount = 0
  /\ waited = [p \in Lanes |-> 0]

-----------------------------------------------------------------------------
\* ScheduleCharge, ScheduleInvoice and ScheduleReminder, or a retry falling due.
JobArrives(p) ==
  /\ depth[p] < MaxDepth
  /\ depth' = [depth EXCEPT ![p] = @ + 1]
  /\ UNCHANGED <<idx, starvationCount, waited>>

\* laneForIdx: the lane whose share of the cycle contains the index.
laneForIdx(forceLow) ==
  IF forceLow THEN "low"
  ELSE IF idx < Weight["high"] THEN "high"
  ELSE IF idx < Weight["high"] + Weight["normal"] THEN "normal"
  ELSE IF idx < Sum THEN "low"
  ELSE "normal"

\* pickHighestPriority, when some lane is not empty.
HighestPriority ==
  IF depth["high"] > 0 THEN "high"
  ELSE IF depth["normal"] > 0 THEN "normal" ELSE "low"

\* tryLane, else pickHighestPriority; the fallback is not counted.
StarvationAfter(lane) ==
  IF depth[lane] = 0 THEN starvationCount
  ELSE IF lane # "low" THEN starvationCount + 1 ELSE 0

LanePicks ==
  LET lane   == laneForIdx(starvationCount >= StarvationLimit)
      picked == IF depth[lane] > 0 THEN lane ELSE HighestPriority
  IN
  /\ \E p \in Lanes : depth[p] > 0
  /\ idx' = (idx + 1) % Total
  /\ starvationCount' = StarvationAfter(lane)
  /\ depth' \in {depth, [depth EXCEPT ![picked] = @ - 1]}
  /\ waited' = [p \in Lanes |->
                  IF p = picked \/ depth[p] = 0 THEN 0
                  ELSE IF waited[p] < WaitCap THEN waited[p] + 1 ELSE WaitCap]

\* Next on empty lanes returns nil but has advanced the counter.
LaneFindsNone ==
  /\ \A p \in Lanes : depth[p] = 0
  /\ idx' = (idx + 1) % Total
  /\ waited' = [p \in Lanes |-> 0]
  /\ UNCHANGED <<depth, starvationCount>>

LaneNext ==
  \/ \E p \in Lanes : JobArrives(p)
  \/ LanePicks
  \/ LaneFindsNone

LaneSpec == LaneInit /\ [][LaneNext]_laneVars

-----------------------------------------------------------------------------
(* Properties                                                              *)

\* With the default weights the low lane, and the high lane, are served within
\* one round of totalWeight picks whenever they have a due job, whatever the
\* other lanes, the guard and the fallback do.
OuterLanesServed ==
  waited["low"] < Total /\ waited["high"] < Total

\* Weighted round-robin serves every lane with a due job once in a round.  When
\* the guard has been reached and the low lane is empty, every pick falls back
\* to strict priority and the normal lane waits as long as the high lane lasts.
NoLaneStarves ==
  \A p \in Lanes : waited[p] < Total

=============================================================================
