---------------------------- MODULE RefreshJobs ----------------------------
(***************************************************************************)
(* The periodic jobs of internal/worker that elect no leader: the refresh   *)
(* of the fee-revenue view, of the KPI gauges and of the planner statistics,*)
(* and the dead-letter watcher with its PagerDuty client.                   *)
(*                                                                          *)
(* They share nothing; refreshKind selects the one a behaviour runs.        *)
(***************************************************************************)
EXTENDS Integers

CONSTANTS
  Replicas,         \* processes that run the fee-revenue job
  RefreshTimeout,   \* FeeRevenueRefreshConfig.RefreshTimeout, in clock steps
  LastTime,         \* bound on the clock
  MaxCycles,        \* bound on the KPI cycles
  SendAttempts       \* maxRetries of the PagerDuty client

Kinds  == {"fee", "kpi", "analyze", "watcher"}
Tables == {"outbox_events", "statements", "subscriptions"}
Gauges == {"mrr", "subscribers", "churn"}

VARIABLES
  refreshKind,
  time,
  \* FeeRevenueRefreshJob
  feeStep,        \* idle, wait (for the view's lock), refresh, mark
  begun,          \* when refreshOnce began; its context ends RefreshTimeout later
  concurrently,   \* the REFRESH in progress is CONCURRENTLY
  snapshot,       \* when the REFRESH took its snapshot, then the time to record
  populated,      \* j.populated
  viewTime,       \* snapshot of the view's data, -1 when it has none
  lastRefreshed,  \* last_refreshed_at, -1 before the first
  \* KpiRefreshJob
  kpiStep,        \* steps of refreshOnce done
  cycle,          \* number of the cycle
  gauge,          \* the cycle each gauge was set in
  \* AnalyzeJob
  started,
  due,            \* isDue: the interval of the table has passed
  scanning,       \* tables analyzeDue has still to look at
  \* DeadLetterWatcher
  inflow,         \* the dead-letter inflow has reached the threshold
  firing,         \* w.firing
  incident,       \* PagerDuty has an open incident under the key
  sending,        \* attempts of the send in progress, 0 when there is none
  checked,        \* the inflow that the last completed Run saw
  missed          \* history: a send gave up, or the watcher was restarted

feeVars     == <<time, feeStep, begun, concurrently, snapshot, populated, viewTime, lastRefreshed>>
kpiVars     == <<kpiStep, cycle, gauge>>
analyzeVars == <<started, due, scanning>>
watcherVars == <<inflow, firing, incident, sending, checked, missed>>
refreshVars == <<refreshKind, feeVars, kpiVars, analyzeVars, watcherVars>>

RefreshTypeOK ==
  /\ refreshKind \in Kinds
  /\ time \in 0..LastTime
  /\ feeStep \in [Replicas -> {"idle", "wait", "refresh", "mark"}]
  /\ begun \in [Replicas -> 0..LastTime]
  /\ concurrently \in [Replicas -> BOOLEAN]
  /\ snapshot \in [Replicas -> 0..LastTime]
  /\ populated \in [Replicas -> BOOLEAN]
  /\ viewTime \in -1..LastTime
  /\ lastRefreshed \in -1..LastTime
  /\ kpiStep \in 0..5
  /\ cycle \in 0..MaxCycles
  /\ gauge \in [Gauges -> 0..MaxCycles]
  /\ started \in BOOLEAN
  /\ due \subseteq Tables
  /\ scanning \subseteq Tables
  /\ inflow \in BOOLEAN /\ firing \in BOOLEAN /\ incident \in BOOLEAN
  /\ sending \in 0..SendAttempts
  /\ checked \in BOOLEAN /\ missed \in BOOLEAN

RefreshInit ==
  /\ refreshKind \in Kinds
  /\ time = 0
  /\ feeStep = [r \in Replicas |-> "idle"]
  /\ begun = [r \in Replicas |-> 0]
  /\ concurrently = [r \in Replicas |-> FALSE]
  /\ snapshot = [r \in Replicas |-> 0]
  /\ populated = [r \in Replicas |-> FALSE]
  /\ viewTime = -1
  /\ lastRefreshed = -1
  /\ kpiStep = 0
  /\ cycle = 0
  /\ gauge = [g \in Gauges |-> 0]
  /\ started = FALSE
  /\ due = {}
  /\ scanning = {}
  /\ inflow = FALSE /\ firing = FALSE /\ incident = FALSE
  /\ sending = 0
  /\ checked = FALSE /\ missed = FALSE

-----------------------------------------------------------------------------
(* FeeRevenueRefreshJob                                                    *)

\* The context of a refresh in progress bounds how far time goes on.
TimePasses ==
  /\ time < LastTime
  /\ \A r \in Replicas : feeStep[r] # "idle" => time < begun[r] + RefreshTimeout
  /\ time' = time + 1
  /\ UNCHANGED <<feeStep, begun, concurrently, snapshot, populated, viewTime, lastRefreshed>>

\* refreshOnce calls doRefresh.  The server takes the snapshot of a REFRESH when the
\* statement starts, before it waits for the lock of the view.
RefreshBegins(r) ==
  /\ feeStep[r] = "idle"
  /\ feeStep' = [feeStep EXCEPT ![r] = "wait"]
  /\ begun' = [begun EXCEPT ![r] = time]
  /\ concurrently' = [concurrently EXCEPT ![r] = populated[r]]
  /\ snapshot' = [snapshot EXCEPT ![r] = time]
  /\ UNCHANGED <<time, populated, viewTime, lastRefreshed>>

ViewLocked(r) ==
  /\ feeStep[r] = "wait" /\ \A q \in Replicas : feeStep[q] # "refresh"
  /\ feeStep' = [feeStep EXCEPT ![r] = "refresh"]
  /\ UNCHANGED <<time, begun, concurrently, snapshot, populated, viewTime, lastRefreshed>>

\* CONCURRENTLY on a view without data is refused, and retried once without.
RefreshFallsBack(r) ==
  /\ feeStep[r] = "refresh" /\ concurrently[r] /\ viewTime = -1
  /\ feeStep' = [feeStep EXCEPT ![r] = "wait"]
  /\ concurrently' = [concurrently EXCEPT ![r] = FALSE]
  /\ snapshot' = [snapshot EXCEPT ![r] = time]
  /\ UNCHANGED <<time, begun, populated, viewTime, lastRefreshed>>

RefreshSucceeds(r) ==
  /\ feeStep[r] = "refresh" /\ (concurrently[r] => viewTime # -1)
  /\ viewTime' = snapshot[r]
  /\ populated' = [populated EXCEPT ![r] = TRUE]
  /\ snapshot' = [snapshot EXCEPT ![r] = time]
  /\ feeStep' = [feeStep EXCEPT ![r] = "mark"]
  /\ UNCHANGED <<time, begun, concurrently, lastRefreshed>>

\* doRefresh fails, its context ends, or Stop cancels it: recordError.
RefreshFails_MarksAnyway(r) ==
  /\ feeStep[r] \in {"wait", "refresh"}
  /\ feeStep' = [feeStep EXCEPT ![r] = "mark"]
  /\ snapshot' = [snapshot EXCEPT ![r] = time]
  /\ UNCHANGED <<time, begun, concurrently, populated, viewTime, lastRefreshed>>
RefreshFails(r) ==
  /\ feeStep[r] \in {"wait", "refresh"}
  /\ feeStep' = [feeStep EXCEPT ![r] = "idle"]
  /\ UNCHANGED <<time, begun, concurrently, snapshot, populated, viewTime, lastRefreshed>>

\* MarkRefreshed writes the time that was read after doRefresh, or fails.
MarkRefreshed(r) ==
  /\ feeStep[r] = "mark"
  /\ feeStep' = [feeStep EXCEPT ![r] = "idle"]
  /\ lastRefreshed' \in {lastRefreshed, snapshot[r]}
  /\ UNCHANGED <<time, begun, concurrently, snapshot, populated, viewTime>>

\* A migration recreates the view.
ViewRecreated ==
  /\ viewTime # -1 /\ \A r \in Replicas : feeStep[r] # "refresh"
  /\ viewTime' = -1
  /\ UNCHANGED <<time, feeStep, begun, concurrently, snapshot, populated, lastRefreshed>>

FeeNext ==
  /\ refreshKind = "fee"
  /\ \/ TimePasses
     \/ ViewRecreated
     \/ \E r \in Replicas : \/ RefreshBegins(r) \/ ViewLocked(r)
                            \/ RefreshFallsBack(r) \/ RefreshSucceeds(r)
                            \/ RefreshFails(r) \/ MarkRefreshed(r)
  /\ UNCHANGED <<refreshKind, kpiVars, analyzeVars, watcherVars>>

-----------------------------------------------------------------------------
(* KpiRefreshJob.refreshOnce: three queries, then three gauges              *)

KpiQuery ==
  /\ kpiStep < 3 /\ (kpiStep = 0 => cycle < MaxCycles)
  /\ kpiStep' = kpiStep + 1
  /\ cycle' = IF kpiStep = 0 THEN cycle + 1 ELSE cycle
  /\ UNCHANGED gauge

KpiQueryFails ==
  /\ kpiStep \in 1..3
  /\ kpiStep' = 0
  /\ UNCHANGED <<cycle, gauge>>

KpiPush ==
  /\ kpiStep \in 3..5
  /\ gauge' = CASE kpiStep = 3 -> [gauge EXCEPT !["mrr"] = cycle]
                [] kpiStep = 4 -> [gauge EXCEPT !["subscribers"] = cycle]
                [] kpiStep = 5 -> [gauge EXCEPT !["churn"] = cycle]
  /\ kpiStep' = (kpiStep + 1) % 6
  /\ UNCHANGED cycle

KpiNext ==
  /\ refreshKind = "kpi"
  /\ KpiQuery \/ KpiQueryFails \/ KpiPush
  /\ UNCHANGED <<refreshKind, feeVars, analyzeVars, watcherVars>>

-----------------------------------------------------------------------------
(* AnalyzeJob                                                              *)

\* Start; no table has a last run, so analyzeDue finds all of them due.
AnalyzeStarts ==
  /\ ~started
  /\ started' = TRUE
  /\ due' = Tables
  /\ scanning' = Tables

IntervalPasses(t) ==
  /\ started /\ t \notin due
  /\ due' = due \cup {t}
  /\ UNCHANGED <<started, scanning>>

AnalyzeTick ==
  /\ started /\ scanning = {}
  /\ scanning' = Tables
  /\ UNCHANGED <<started, due>>

\* One turn of the loop of analyzeDue; lastRunTime is set whether the ANALYZE of
\* the table succeeds or fails, and the loop goes on.
AnalyzeTable(t) ==
  /\ t \in scanning
  /\ scanning' = scanning \ {t}
  /\ due' = due \ {t}
  /\ UNCHANGED started

AnalyzeStep == AnalyzeTick \/ \E t \in Tables : AnalyzeTable(t)

AnalyzeNext ==
  /\ refreshKind = "analyze"
  /\ AnalyzeStarts \/ AnalyzeStep \/ \E t \in Tables : IntervalPasses(t)
  /\ UNCHANGED <<refreshKind, feeVars, kpiVars, watcherVars>>

-----------------------------------------------------------------------------
(* DeadLetterWatcher and the PagerDuty client                              *)

InflowChanges ==
  /\ sending = 0
  /\ inflow' = ~inflow
  /\ UNCHANGED <<firing, incident, sending, checked, missed>>

\* Run; firing changes before the client is called.
WatcherRun ==
  /\ sending = 0
  /\ checked' = inflow
  /\ firing' = inflow
  /\ sending' = IF inflow # firing THEN 1 ELSE 0
  /\ UNCHANGED <<inflow, incident, missed>>

\* send: a 2xx answer.
SendAccepted ==
  /\ sending > 0
  /\ incident' = firing
  /\ sending' = 0
  /\ UNCHANGED <<inflow, firing, checked, missed>>

\* A 5xx answer or a transport error, after which the event may have been taken;
\* a 4xx answer ends the send at once.
SendFails ==
  /\ sending > 0
  /\ incident' \in {incident, firing}
  /\ \/ sending < SendAttempts /\ sending' = sending + 1 /\ UNCHANGED missed
     \/ sending' = 0 /\ missed' = TRUE
  /\ UNCHANGED <<inflow, firing, checked>>

\* A new process starts with firing unset.
WatcherRestarts ==
  /\ firing' = FALSE
  /\ sending' = 0
  /\ missed' = TRUE
  /\ checked' = FALSE
  /\ UNCHANGED <<inflow, incident>>

WatcherNext ==
  /\ refreshKind = "watcher"
  /\ InflowChanges \/ WatcherRun \/ SendAccepted \/ SendFails \/ WatcherRestarts
  /\ UNCHANGED <<refreshKind, feeVars, kpiVars, analyzeVars>>

RefreshNext == FeeNext \/ KpiNext \/ AnalyzeNext \/ WatcherNext

-----------------------------------------------------------------------------
(* Properties                                                              *)

\* What IsStale answers can be relied on: the recorded time is never ahead of
\* the data by more than RefreshTimeout, whichever process recorded it, although
\* it is read after the refresh and two processes refresh and record in any order.
FreshnessHonest ==
  viewTime # -1 /\ lastRefreshed # -1 => lastRefreshed - viewTime <= RefreshTimeout

\* A KPI cycle whose query fails leaves the gauges as they were: between cycles
\* all of them come from the same one.
KpiAllOrNothing ==
  kpiStep <= 3 => \A g, h \in Gauges : gauge[g] = gauge[h]

\* The incident follows the inflow that the last Run saw, unless a send gave up
\* (it is not repeated while the inflow stays) or the watcher was restarted.
IncidentFollowsInflow ==
  sending = 0 /\ ~missed => incident = checked

=============================================================================
