---------------------------- MODULE DatabaseReads ---------------------------
(***************************************************************************)
(* internal/db: hedged reads (HedgedQuery, ReadRouter.QueryContext), the    *)
(* choice of a replica (ReadRouter.Reader) and the connections of the two   *)
(* row-level-security wrappers (RLSPool over pgxpool, RLSDB over            *)
(* database/sql).  The three share nothing; readKind selects the one a      *)
(* behaviour is about.                                                      *)
(***************************************************************************)
EXTENDS Integers, FiniteSets

CONSTANTS
  HealthCheckFreq,  \* ReadRouter, in clock steps
  LastTick,         \* bound on the router's clock
  Sessions,         \* concurrent readers of the router, callers of the wrappers
  Tenants,
  Conns             \* connections of the pool

Attempts == {1, 2}

VARIABLES
  readKind,
  \* HedgedQuery
  attempt,      \* [Attempts -> new, running, rows, failed]: what its query came to
  reported,     \* attempts whose result is in the channel, and not yet read
  cancelledCtx, \* attempts whose context is cancelled
  canCancel2,   \* the main goroutine can see cancelSecond
  timer,        \* armed, fired, stopped
  resultRows,   \* the attempt whose rows were kept, 0 when none
  seen,         \* results read
  hedge,        \* waiting, rows, error: what QueryContext returned
  ctxDone,      \* the caller's context has ended
  \* ReadRouter
  tick,
  replicaUp,
  downSince,    \* when the replica last went down
  replicaDown,  \* r.replicaDown
  lastCheck,    \* r.lastCheck, -1 before the first
  reader,       \* [Sessions -> where its read is, when it judged the health, where it goes]
  \* RLSPool and RLSDB
  conn,         \* [Conns -> [where, tx]]: in the pool, used, or left outside by a closed
                \* rlsRows or a scanned row; its transaction's app.tenant_id
  rlsCall       \* [Sessions -> the call it makes: [op, at, tenant, conn]]

hedgeVars  == <<attempt, reported, cancelledCtx, canCancel2, timer, resultRows, seen, hedge, ctxDone>>
routerVars == <<tick, replicaUp, downSince, replicaDown, lastCheck, reader>>
rlsVars    == <<conn, rlsCall>>
readVars   == <<readKind, hedgeVars, routerVars, rlsVars>>

PoolOps == {"Exec", "Query", "QueryRow", "BeginTx", "Acquire"}
SqlOps  == {"ExecContext", "QueryContext", "QueryRowContext", "DBBeginTx"}

NoRead == [at |-> "idle", asked |-> 0, target |-> "primary"]
NoCall == [op |-> "Exec", at |-> "idle", tenant |-> CHOOSE t \in Tenants : TRUE,
           conn |-> CHOOSE c \in Conns : TRUE]

ReadTypeOK ==
  /\ readKind \in {"hedge", "router", "rls", "rlsdb"}
  /\ attempt \in [Attempts -> {"new", "running", "rows", "failed"}]
  /\ reported \subseteq Attempts /\ cancelledCtx \subseteq Attempts
  /\ canCancel2 \in BOOLEAN /\ timer \in {"armed", "fired", "stopped"}
  /\ resultRows \in 0..2 /\ seen \in 0..2
  /\ hedge \in {"waiting", "rows", "error"} /\ ctxDone \in BOOLEAN
  /\ tick \in 0..LastTick /\ lastCheck \in -1..LastTick /\ downSince \in 0..LastTick
  /\ replicaUp \in BOOLEAN /\ replicaDown \in BOOLEAN
  /\ reader \in [Sessions -> [at : {"idle", "check", "query"}, asked : 0..LastTick,
                             target : {"primary", "replica"}]]
  /\ conn \in [Conns -> [where : {"pool", "used", "closed", "scanned"},
                          tx : Tenants \cup {"none", "unset"}]]
  /\ rlsCall \in [Sessions -> [op : PoolOps \cup SqlOps, tenant : Tenants, conn : Conns,
                              at : {"idle", "begin", "set", "run", "result", "empty", "norow"}]]

ReadInit ==
  /\ readKind \in {"hedge", "router", "rls", "rlsdb"}
  /\ attempt = [a \in Attempts |-> IF a = 1 THEN "running" ELSE "new"]
  /\ reported = {} /\ cancelledCtx = {} /\ canCancel2 = FALSE /\ timer = "armed"
  /\ resultRows = 0 /\ seen = 0 /\ hedge = "waiting" /\ ctxDone = FALSE
  /\ tick = 0 /\ lastCheck = -1 /\ replicaUp = TRUE /\ replicaDown = FALSE
  /\ downSince = 0 /\ reader = [r \in Sessions |-> NoRead]
  /\ conn = [c \in Conns |-> [where |-> "pool", tx |-> "none"]]
  /\ rlsCall = [s \in Sessions |-> NoCall]

-----------------------------------------------------------------------------
(* HedgedQuery, called by QueryContext                                     *)

\* The timer goroutine: the delay passes, unless the query is over or the
\* caller's context is.  It starts the second attempt; the main goroutine reads
\* cancelSecond without the lock and may miss it.
TimerFires ==
  /\ timer = "armed"
  /\ timer' = "fired"
  /\ attempt' = [attempt EXCEPT ![2] = "running"]
  /\ canCancel2' \in {FALSE, hedge = "waiting"}
  /\ UNCHANGED <<reported, cancelledCtx, resultRows, seen, hedge, ctxDone>>

TimerStops ==
  /\ timer = "armed" /\ (hedge = "rows" \/ ctxDone)
  /\ timer' = "stopped"
  /\ UNCHANGED <<attempt, reported, cancelledCtx, canCancel2, resultRows, seen, hedge, ctxDone>>

\* The query of an attempt ends; its rows are kept if they are the first, and
\* left alone otherwise.
AttemptEnds(a, outcome) ==
  /\ attempt[a] = "running"
  /\ attempt' = [attempt EXCEPT ![a] = outcome]
  /\ resultRows' = IF outcome = "rows" /\ resultRows = 0 THEN a ELSE resultRows
  /\ reported' = reported \cup {a}
  /\ UNCHANGED <<cancelledCtx, canCancel2, timer, seen, hedge, ctxDone>>

\* The loop of HedgedQuery reads a result.  A success ends it: the deferred
\* cancelFirst runs whichever attempt won, cancelSecond when the first did.
ReadResult(a) ==
  /\ hedge = "waiting" /\ a \in reported
  /\ reported' = reported \ {a}
  /\ seen' = seen + 1
  /\ hedge' = IF attempt[a] = "rows" THEN "rows" ELSE IF seen' = 2 THEN "error" ELSE "waiting"
  /\ cancelledCtx' = IF hedge' = "waiting" THEN cancelledCtx
                     ELSE cancelledCtx \cup {1} \cup (IF hedge' = "rows" /\ a = 1 /\ canCancel2 THEN {2} ELSE {})
  /\ UNCHANGED <<attempt, canCancel2, timer, resultRows, ctxDone>>

\* The caller's context ends; QueryContext returns rows that were kept, when its
\* read of resultRows, without the lock, sees them.
CallerGivesUp ==
  /\ ~ctxDone
  /\ ctxDone' = TRUE
  /\ cancelledCtx' = Attempts
  /\ UNCHANGED <<attempt, reported, canCancel2, timer, resultRows, seen, hedge>>
LoopSeesDone ==
  /\ hedge = "waiting" /\ ctxDone
  /\ hedge' \in {"error"} \cup (IF resultRows # 0 THEN {"rows"} ELSE {})
  /\ UNCHANGED <<attempt, reported, cancelledCtx, canCancel2, timer, resultRows, seen, ctxDone>>

HedgeNext ==
  /\ readKind = "hedge"
  /\ \/ TimerFires \/ TimerStops \/ CallerGivesUp \/ LoopSeesDone
     \/ \E a \in Attempts : ReadResult(a) \/ \E o \in {"rows", "failed"} : AttemptEnds(a, o)
  /\ UNCHANGED <<readKind, routerVars, rlsVars>>

-----------------------------------------------------------------------------
(* ReadRouter.Reader                                                       *)

RouterTick ==
  /\ tick < LastTick
  /\ tick' = tick + 1
  /\ UNCHANGED <<replicaUp, downSince, replicaDown, lastCheck, reader>>

ReplicaChanges ==
  /\ replicaUp' = ~replicaUp
  /\ downSince' = IF replicaUp THEN tick ELSE downSince
  /\ UNCHANGED <<tick, replicaDown, lastCheck, reader>>

\* healthCheckFreq has passed since the last check.
CheckDue_Late == lastCheck = -1 \/ tick - lastCheck > HealthCheckFreq
CheckDue == lastCheck = -1 \/ tick - lastCheck >= HealthCheckFreq

Routed(s, target) ==
  reader' = [reader EXCEPT ![s] = [at |-> "query", asked |-> tick, target |-> target]]

\* Reader up to the read lock: a freshness token in the context means the primary,
\* and so does a replica that was found down of late.
ReadHealth(s) ==
  /\ reader[s].at = "idle"
  /\ \/ Routed(s, "primary")                                      \* a token
     \/ ~CheckDue /\ Routed(s, IF replicaDown THEN "primary" ELSE "replica")
     \/ CheckDue /\ reader' = [reader EXCEPT ![s].at = "check"]
  /\ UNCHANGED <<tick, replicaUp, downSince, replicaDown, lastCheck>>

\* Under the write lock the time is looked at again, since another reader may have
\* checked meanwhile; the ping fails also when the reader's own context has ended.
CheckHealth(s) ==
  /\ reader[s].at = "check"
  /\ \E pinged \in {replicaUp, FALSE} :
       /\ lastCheck' = IF CheckDue THEN tick ELSE lastCheck
       /\ replicaDown' = IF CheckDue THEN ~pinged ELSE replicaDown
  /\ Routed(s, IF replicaDown' THEN "primary" ELSE "replica")
  /\ UNCHANGED <<tick, replicaUp, downSince>>

\* QueryContext or QueryRowContext on the connection that was chosen.
ReaderQueries(s) ==
  /\ reader[s].at = "query"
  /\ reader' = [reader EXCEPT ![s] = NoRead]
  /\ UNCHANGED <<tick, replicaUp, downSince, replicaDown, lastCheck>>

RouterNext ==
  /\ readKind = "router"
  /\ \/ RouterTick \/ ReplicaChanges
     \/ \E s \in Sessions : ReadHealth(s) \/ CheckHealth(s) \/ ReaderQueries(s)
  /\ UNCHANGED <<readKind, hedgeVars, rlsVars>>

-----------------------------------------------------------------------------
(* RLSPool and RLSDB                                                       *)

GoesTo(s, at) == rlsCall' = [rlsCall EXCEPT ![s].at = at]
ConnIs(s, where, tx) == conn' = [conn EXCEPT ![rlsCall[s].conn] = [where |-> where, tx |-> tx]]

\* A call of an operation of the wrapper takes a connection for a tenant.
TakesConn(s, op, t, c) ==
  /\ conn[c].where = "pool"
  /\ rlsCall' = [rlsCall EXCEPT ![s] = [op |-> op, at |-> "begin", tenant |-> t, conn |-> c]]
  /\ conn' = [conn EXCEPT ![c].where = "used"]
CallBegins(s, t, c) ==
  /\ rlsCall[s].at = "idle"
  /\ \E op \in IF readKind = "rls" THEN PoolOps ELSE SqlOps : TakesConn(s, op, t, c)

Doing(s, op, at) == rlsCall[s].op = op /\ rlsCall[s].at = at

\* BEGIN, and SET LOCAL app.tenant_id for the transaction.
Begins(s)         == ConnIs(s, "used", "unset") /\ GoesTo(s, "set")
SetsTenant(s, at) == ConnIs(s, "used", rlsCall[s].tenant) /\ GoesTo(s, at)
HandsOver(s)      == GoesTo(s, "result") /\ UNCHANGED conn

\* Release; before it, where there is a transaction, Commit or Rollback.  A pool
\* that is given a connection whose ROLLBACK failed replaces it.
Release(s) == ConnIs(s, "pool", "none") /\ GoesTo(s, "idle")

\* Every step of the operations succeeds or takes its error branch.
RLSAcquire(s) ==
  \/ Doing(s, "Acquire", "begin") /\ (Begins(s) \/ Release(s))
  \/ Doing(s, "Acquire", "set") /\ (SetsTenant(s, "result") \/ Release(s))
ReleaseConnWithRollback(s) == Doing(s, "Acquire", "result") /\ Release(s)

RLSExec(s) ==
  \/ Doing(s, "Exec", "begin") /\ (Begins(s) \/ Release(s))
  \/ Doing(s, "Exec", "set") /\ (SetsTenant(s, "run") \/ Release(s))
  \/ Doing(s, "Exec", "run") /\ Release(s)

RLSQuery_KeepsConn(s) ==
  \/ Doing(s, "Query", "begin") /\ (Begins(s) \/ Release(s))
  \/ Doing(s, "Query", "set") /\ (SetsTenant(s, "run") \/ Release(s))
  \/ Doing(s, "Query", "run") /\ (HandsOver(s) \/ (ConnIs(s, "used", "none") /\ GoesTo(s, "idle")))
RLSQuery(s) ==
  \/ Doing(s, "Query", "begin") /\ (Begins(s) \/ Release(s))
  \/ Doing(s, "Query", "set") /\ (SetsTenant(s, "run") \/ Release(s))
  \/ Doing(s, "Query", "run") /\ (HandsOver(s) \/ Release(s))

\* rlsRows: Next past the last row returns the connection, Close does not.
RowsNext(s)  == Doing(s, "Query", "result") /\ Release(s)
RowsClose(s) ==
  Doing(s, "Query", "result") /\ ConnIs(s, "closed", rlsCall[s].tenant) /\ GoesTo(s, "idle")

RLSQueryRow(s) ==
  \/ Doing(s, "QueryRow", "begin") /\ (Begins(s) \/ Release(s))
  \/ Doing(s, "QueryRow", "set") /\ (SetsTenant(s, "result") \/ Release(s))
RowScan(s) == Doing(s, "QueryRow", "result") /\ Release(s)

RLSBeginTx(s) ==
  \/ Doing(s, "BeginTx", "begin") /\ (Begins(s) \/ Release(s))
  \/ Doing(s, "BeginTx", "set") /\ (SetsTenant(s, "result") \/ Release(s))
TxEnds(s) == Doing(s, "BeginTx", "result") /\ Release(s)

\* RLSDB, whose transactions hold a connection of sql.DB until they end.
DBExecContext(s) ==
  \/ Doing(s, "ExecContext", "begin") /\ (Begins(s) \/ Release(s))
  \/ Doing(s, "ExecContext", "set") /\ (SetsTenant(s, "run") \/ Release(s))
  \/ Doing(s, "ExecContext", "run") /\ Release(s)

DBQueryContext(s) ==
  \/ Doing(s, "QueryContext", "begin") /\ (Begins(s) \/ Release(s))
  \/ Doing(s, "QueryContext", "set") /\ (SetsTenant(s, "run") \/ Release(s))
  \/ Doing(s, "QueryContext", "run") /\ (HandsOver(s) \/ Release(s))
SqlRowsClose(s) == Doing(s, "QueryContext", "result") /\ Release(s)

\* After an error the caller gets the row of an empty query, on a connection of its
\* own; without a tenant it gets that row at once.  The row of the real query comes
\* from a transaction that nobody ends when it has been scanned.
DBQueryRowContext(s) ==
  \/ Doing(s, "QueryRowContext", "begin") /\ Begins(s)
  \/ Doing(s, "QueryRowContext", "set") /\ SetsTenant(s, "result")
  \/ /\ rlsCall[s].op = "QueryRowContext" /\ rlsCall[s].at \in {"begin", "set"}
     /\ ConnIs(s, "pool", "none") /\ GoesTo(s, "empty")
  \/ /\ readKind = "rlsdb" /\ rlsCall[s].at = "idle"
     /\ rlsCall' = [rlsCall EXCEPT ![s].op = "QueryRowContext", ![s].at = "empty"]
     /\ UNCHANGED conn
  \/ /\ Doing(s, "QueryRowContext", "empty")
     /\ \E c \in Conns :
          /\ conn[c].where = "pool"
          /\ conn' = [conn EXCEPT ![c].where = "used"]
          /\ rlsCall' = [rlsCall EXCEPT ![s].at = "norow", ![s].conn = c]
SqlRowScan(s) ==
  \/ /\ Doing(s, "QueryRowContext", "result")
     /\ ConnIs(s, "scanned", rlsCall[s].tenant) /\ GoesTo(s, "idle")
  \/ Doing(s, "QueryRowContext", "norow") /\ Release(s)

DBBeginTx(s) ==
  \/ Doing(s, "DBBeginTx", "begin") /\ (Begins(s) \/ Release(s))
  \/ Doing(s, "DBBeginTx", "set") /\ (SetsTenant(s, "result") \/ Release(s))
SqlTxEnds(s) == Doing(s, "DBBeginTx", "result") /\ Release(s)

\* database/sql rolls a transaction back when its context ends.
ContextEnds(c) ==
  /\ conn[c].where = "scanned"
  /\ conn' = [conn EXCEPT ![c] = [where |-> "pool", tx |-> "none"]]
  /\ UNCHANGED rlsCall

RLSNext ==
  /\ readKind \in {"rls", "rlsdb"}
  /\ \/ \E s \in Sessions :
          \/ \E t \in Tenants, c \in Conns : CallBegins(s, t, c)
          \/ RLSAcquire(s) \/ ReleaseConnWithRollback(s) \/ RLSExec(s)
          \/ RLSQuery(s) \/ RowsNext(s) \/ RowsClose(s) \/ RLSQueryRow(s) \/ RowScan(s)
          \/ RLSBeginTx(s) \/ TxEnds(s)
          \/ DBExecContext(s) \/ DBQueryContext(s) \/ SqlRowsClose(s)
          \/ DBQueryRowContext(s) \/ SqlRowScan(s) \/ DBBeginTx(s) \/ SqlTxEnds(s)
     \/ \E c \in Conns : ContextEnds(c)
  /\ UNCHANGED <<readKind, hedgeVars, routerVars>>

ReadNext == HedgeNext \/ RouterNext \/ RLSNext

-----------------------------------------------------------------------------
(* Properties                                                              *)

\* A hedged read fails only when both attempts failed or the caller gave up: one
\* bad replica alone is never seen by the caller, whatever the order of the
\* results and of the timer.
HedgeHidesOneFailure ==
  hedge = "error" => ctxDone \/ \A a \in Attempts : attempt[a] = "failed"

\* An outage of the replica reaches the callers for less than HealthCheckFreq:
\* Reader sends nobody to a replica that has been down for so long, although the
\* health it goes by is cached, was found by another reader, and may have been
\* judged in the middle of that reader's check (ReadRouter.Reader).
OutageIsBounded ==
  \A s \in Sessions :
    (reader[s].at = "query" /\ reader[s].target = "replica" /\ ~replicaUp)
      => reader[s].asked - downSince < HealthCheckFreq

\* A connection that is out of the pool has exactly one call at work on it, whatever
\* error branch an operation of RLSPool or RLSDB took; the only ones that nobody can
\* return any more are those of an rlsRows that was closed before its last row, and,
\* until its context ends, of a row of RLSDB.QueryRowContext.  A statement runs in a
\* transaction of its caller's tenant, and none is open on a pooled connection.
ConnsComeBack ==
  /\ \A c \in Conns :
       LET users == {s \in Sessions : rlsCall[s].at \notin {"idle", "empty"} /\ rlsCall[s].conn = c}
       IN /\ Cardinality(users) = (IF conn[c].where = "used" THEN 1 ELSE 0)
          /\ conn[c].where = "pool" => conn[c].tx = "none"
  /\ \A s \in Sessions :
       rlsCall[s].at \in {"run", "result"} => conn[rlsCall[s].conn].tx = rlsCall[s].tenant

=============================================================================
