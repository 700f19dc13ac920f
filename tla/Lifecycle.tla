------------------------------ MODULE Lifecycle -----------------------------
(***************************************************************************)
(* Start, health and end of the server, and its schema: the migration       *)
(* loader and runner (migrations/), the configuration checks                *)
(* (config/config.go), the readiness probe (handlers/health.go) and the     *)
(* start-up and graceful shutdown of cmd/server with DrainPool (db/pool.go).*)
(* lifeKind selects the part a behaviour is about.                          *)
(***************************************************************************)
EXTENDS Integers, FiniteSets, SequencesExt

CONSTANTS
  Runners,        \* processes that run migrations
  LocalVersions,  \* [Runners -> the versions its directory holds]
  MaxFiles,       \* bound on the files of a migration directory
  AttemptTimeout, \* MaxDatabaseTimeout of a ping
  PingAttempts,   \* MaxRetries of checkDatabase
  ProbeTimeout,   \* deadline of the readiness probe
  Handlers        \* requests in flight at shutdown

VARIABLES
  lifeKind,
  \* migrations
  applied,    \* [versions -> how often its up migration is in force]
  recorded,   \* rows of schema_migrations
  holder,     \* runner that holds the table lock
  runner,     \* [Runners -> the run it is in]
  \* loader and configuration: pure functions of their input
  files, dirLoaded,
  env, config,
  \* readiness probe
  pclock, dbCheck, outboxCheck, probe,
  \* server
  mainAt, signalled, server, shutdownTimer, handling, pool

Versions == UNION {LocalVersions[r] : r \in Runners}
NoRunner == "none"

migrateVars == <<applied, recorded, holder, runner>>
inputVars   == <<files, dirLoaded, env, config>>
probeVars   == <<pclock, dbCheck, outboxCheck, probe>>
serverVars  == <<mainAt, signalled, server, shutdownTimer, handling, pool>>
lifeVars    == <<lifeKind, migrateVars, inputVars, probeVars, serverVars>>

IdleRunner == [op |-> "idle", locked |-> FALSE, todo |-> {}, did |-> {}]

-----------------------------------------------------------------------------
(* Runner: one transaction per run                                         *)

\* Up or Down: BEGIN and CREATE TABLE IF NOT EXISTS; the lock comes next.
RunBegins(r, op) ==
  /\ runner[r].op = "idle"
  /\ runner' = [runner EXCEPT ![r] = [IdleRunner EXCEPT !.op = op]]
  /\ UNCHANGED <<applied, recorded, holder>>

\* What the run has to do, from the rows it reads: Up the versions that are not
\* recorded, Down the highest recorded one, which its directory must hold.
Todo(r) ==
  IF runner[r].op = "up" THEN LocalVersions[r] \ recorded
  ELSE {v \in recorded : \A w \in recorded : w <= v}

\* LOCK TABLE IN EXCLUSIVE MODE waits for the end of the other transaction.
LockTable_NoWait(r) ==
  /\ runner[r].op # "idle" /\ ~runner[r].locked
  /\ runner' = [runner EXCEPT ![r].locked = TRUE, ![r].todo = Todo(r)]
  /\ UNCHANGED <<applied, recorded, holder>>
LockTable(r) ==
  /\ runner[r].op # "idle" /\ ~runner[r].locked
  /\ holder = NoRunner
  /\ holder' = r
  /\ runner' = [runner EXCEPT ![r].locked = TRUE, ![r].todo = Todo(r)]
  /\ UNCHANGED <<applied, recorded>>

\* One migration's SQL and its row of schema_migrations, whose version is the
\* primary key, inside the transaction.
MigrateOne(r) ==
  /\ runner[r].locked
  /\ \E v \in runner[r].todo :
       /\ \A w \in runner[r].todo : v <= w
       /\ v \in LocalVersions[r]
       /\ runner[r].op = "up" => v \notin recorded
       /\ runner' = [runner EXCEPT ![r].todo = @ \ {v}, ![r].did = @ \cup {v}]
  /\ UNCHANGED <<applied, recorded, holder>>

RunCommits(r) ==
  LET did == runner[r].did  up == runner[r].op = "up" IN
  /\ runner[r].locked /\ runner[r].todo = {}
  /\ up => did \cap recorded = {}
  /\ recorded' = IF up THEN recorded \cup did ELSE recorded \ did
  /\ applied' = [v \in Versions |-> applied[v] + (IF v \notin did THEN 0 ELSE IF up THEN 1 ELSE -1)]
  /\ holder' = IF holder = r THEN NoRunner ELSE holder
  /\ runner' = [runner EXCEPT ![r] = IdleRunner]

\* An error, a missing local migration, a failed COMMIT or a lost connection: the
\* deferred Rollback, or the server itself, undoes the transaction.
RunFails(r) ==
  /\ runner[r].op # "idle"
  /\ runner' = [runner EXCEPT ![r] = IdleRunner]
  /\ holder' = IF holder = r THEN NoRunner ELSE holder
  /\ UNCHANGED <<applied, recorded>>

MigrateNext ==
  /\ lifeKind = "migrate"
  /\ \E r \in Runners :
       \/ \E op \in {"up", "down"} : RunBegins(r, op)
       \/ LockTable(r) \/ MigrateOne(r) \/ RunCommits(r) \/ RunFails(r)
  /\ UNCHANGED <<lifeKind, inputVars, probeVars, serverVars>>

-----------------------------------------------------------------------------
(* LoadDir and ValidateSequence                                            *)

\* A migration file; form tells 1_ from 01_, which are the same version.
Files == [version : 1..2, name : {"a", "b"}, kind : {"up", "down"}, form : {"1", "01"}]

\* os.ReadDir returns the names in order.
Rank(f) == (IF f.form = "01" THEN 0 ELSE 8) + 4 * (f.version - 1)
           + (IF f.name = "b" THEN 2 ELSE 0) + (IF f.kind = "up" THEN 1 ELSE 0)
InOrder(S) == SetToSortSeq(S, LAMBDA f, g : Rank(f) < Rank(g))

\* The loop over the entries: a partial migration per version, or an error.
AddFile(acc, f) ==
  LET p == acc.by[f.version] IN
  IF acc.err \/ f.kind \in p.kinds \/ (p.kinds # {} /\ p.name # f.name)
  THEN [acc EXCEPT !.err = TRUE]
  ELSE [acc EXCEPT !.by[f.version] = [name |-> f.name, kinds |-> p.kinds \cup {f.kind}]]

\* The versions in order, each with both halves, or <<>> for an error.
LoadDir(S) ==
  LET start == [err |-> FALSE, by |-> [v \in 1..2 |-> [name |-> "", kinds |-> {}]]]
      acc   == FoldLeft(AddFile, start, InOrder(S))
      found == {v \in 1..2 : acc.by[v].kinds # {}} IN
  IF acc.err \/ \E v \in found : acc.by[v].kinds # {"up", "down"} THEN <<>>
  ELSE SetToSortSeq(found, LAMBDA v, w : v < w)

ValidateSequence(migs) == \A i \in DOMAIN migs : migs[i] = i

\* cmd/validate-migrations on some directory.
ValidateMigrations ==
  /\ dirLoaded = "no"
  /\ \E S \in SUBSET Files :
       /\ Cardinality(S) <= MaxFiles
       /\ files' = S
       /\ dirLoaded' = IF LoadDir(S) = <<>> THEN "refused"
                    ELSE IF ValidateSequence(LoadDir(S)) THEN "valid" ELSE "gap"
  /\ UNCHANGED <<env, config>>

-----------------------------------------------------------------------------
(* Config.validate: the settings that depend on each other                 *)

\* An environment variable: unset, or a number, of which 0 and the one over the
\* limit stand for what is out of bounds or no number at all.
Unset == -1
Limits == [rps |-> 2, burst |-> 4, conns |-> 3, timeout |-> 2, failures |-> 3]
Defaults == [rps |-> 1, burst |-> 2, minConns |-> 1, maxConns |-> 2, timeout |-> 1, failures |-> 2]

\* The groups do not depend on each other: each varies beside one setting
\* of the others.
BaseEnv == [secrets |-> "ok", jwks |-> "unset", rps |-> Unset, burst |-> Unset, tenantRPS |-> Unset,
            tenantBurst |-> Unset, minConns |-> Unset, maxConns |-> Unset, timeout |-> Unset, failures |-> Unset]
Envs ==
  {[BaseEnv EXCEPT !.secrets = x, !.jwks = y] : x \in {"ok", "missing", "weak"}, y \in {"unset", "ok", "bad"}}
  \cup {[BaseEnv EXCEPT !.rps = m, !.burst = n] : m \in Unset..(Limits.rps + 1), n \in Unset..(Limits.burst + 1)}
  \cup {[BaseEnv EXCEPT !.tenantRPS = m, !.tenantBurst = n] :
          m \in Unset..(Limits.rps + 1), n \in Unset..(Limits.burst + 1)}
  \cup {[BaseEnv EXCEPT !.minConns = m, !.maxConns = n] :
          m \in Unset..(Limits.conns + 1), n \in Unset..(Limits.conns + 1)}
  \cup {[BaseEnv EXCEPT !.timeout = m, !.failures = n] :
          m \in Unset..(Limits.timeout + 1), n \in Unset..(Limits.failures + 1)}

InBounds(n, lo, hi) == n >= lo /\ n <= hi

\* A hard setting: an invalid value is an error.
Hard(n, lo, hi) == n = Unset \/ InBounds(n, lo, hi)
Setting(n, lo, hi, default) == IF n = Unset THEN default ELSE IF InBounds(n, lo, hi) THEN n ELSE 0

\* JWT_SECRET may be missing, but not weak, when JWKS_URL is set.
SecretsValid(e) ==
  /\ e.jwks # "bad"
  /\ e.secrets = "ok" \/ (e.secrets = "missing" /\ e.jwks = "ok")

\* The port, the header size and the timeouts.
ServerSettings(e) ==
  [timeout |-> Setting(e.timeout, 1, Limits.timeout, Defaults.timeout),
   ok |-> Hard(e.timeout, 1, Limits.timeout)]

RateLimits(e) ==
  LET rps   == Setting(e.rps, 1, Limits.rps, Defaults.rps)
      burst == Setting(e.burst, 1, Limits.burst, Defaults.burst) IN
  [rps |-> rps, burst |-> burst,
   ok |-> Hard(e.rps, 1, Limits.rps) /\ Hard(e.burst, 1, Limits.burst) /\ burst >= rps]

TenantLimits(e) ==
  LET rps   == Setting(e.tenantRPS, 1, Limits.rps, 0)
      set   == Setting(e.tenantBurst, 1, Limits.burst, 0)
      burst == IF rps > 0 /\ set = 0 THEN 2 * rps ELSE set IN
  [rps |-> rps, burst |-> burst,
   ok |-> Hard(e.tenantRPS, 1, Limits.rps) /\ Hard(e.tenantBurst, 1, Limits.burst)
          /\ (rps > 0 => burst >= rps)]

\* A soft setting: an invalid value is a warning, and the default stays.
Soft(n, lo, hi, default) == IF InBounds(n, lo, hi) THEN n ELSE default

validateDBPool(e) ==
  LET max == Soft(e.maxConns, 1, Limits.conns, Defaults.maxConns)
      min == Soft(e.minConns, 0, Limits.conns, Defaults.minConns) IN
  [max |-> max, min |-> IF min > max THEN max ELSE min]

\* Load leaves the breaker's settings at zero, which validateDBBreaker keeps for an
\* unset or invalid value and NewBreakerPool replaces.
validateDBBreaker(e) == Soft(e.failures, 1, Limits.failures, 0)
BreakerFailures(e) == IF validateDBBreaker(e) = 0 THEN Defaults.failures ELSE validateDBBreaker(e)

\* Load: the settings, or an error; then NewPoolConfig and the middleware use them.
LoadConfig ==
  /\ config.at = "no"
  /\ \E e \in Envs :
       /\ env' = e
       /\ config' = [at |-> IF SecretsValid(e) /\ ServerSettings(e).ok /\ RateLimits(e).ok /\ TenantLimits(e).ok
                            THEN "loaded" ELSE "error",
                     rate |-> RateLimits(e), tenant |-> TenantLimits(e), pool |-> validateDBPool(e),
                     timeout |-> ServerSettings(e).timeout, failures |-> BreakerFailures(e)]
  /\ UNCHANGED <<files, dirLoaded>>

InputNext ==
  /\ \/ lifeKind = "load" /\ ValidateMigrations
     \/ lifeKind = "config" /\ LoadConfig
  /\ UNCHANGED <<lifeKind, migrateVars, probeVars, serverVars>>

-----------------------------------------------------------------------------
(* ReadinessProbe                                                          *)

\* The next moment something must happen: the end of a ping, of the pause after it
\* or of the probe.
Deadline == IF dbCheck.at \in {"ping", "backoff"} /\ dbCheck.until < ProbeTimeout THEN dbCheck.until ELSE ProbeTimeout

ProbeTick ==
  /\ probe = "open" /\ pclock < Deadline
  /\ pclock' = pclock + 1
  /\ UNCHANGED <<dbCheck, outboxCheck, probe>>

\* checkDatabase: a bounded number of bounded pings with a pause between them.
PingAnswers ==
  /\ dbCheck.at = "ping"
  /\ \E ok \in BOOLEAN :
       /\ pclock = dbCheck.until => ~ok
       /\ dbCheck' =
            IF ok THEN [dbCheck EXCEPT !.at = "healthy"]
            ELSE IF dbCheck.attempt < PingAttempts THEN [dbCheck EXCEPT !.at = "backoff", !.until = pclock + 1]
            ELSE [dbCheck EXCEPT !.at = "degraded", !.until = 0]
  /\ UNCHANGED <<pclock, outboxCheck, probe>>
BackoffEnds ==
  /\ dbCheck.at = "backoff"
  /\ dbCheck' = [at |-> "ping", attempt |-> dbCheck.attempt + 1, until |-> pclock + AttemptTimeout]
  /\ UNCHANGED <<pclock, outboxCheck, probe>>

\* checkOutbox: Health takes no context and may take any time.
OutboxAnswers ==
  /\ outboxCheck = "asked"
  /\ outboxCheck' \in {"healthy", "degraded"}
  /\ UNCHANGED <<pclock, dbCheck, probe>>

\* checkAllDependencies, deriveOverallStatus and the status code: when both have
\* answered, or at the deadline, where a missing one is marked "timeout", which
\* deriveOverallStatus does not count.
Answered(s) == s \in {"healthy", "degraded", "unhealthy", "not_configured"}
ProbeAnswers ==
  /\ probe = "open"
  /\ (Answered(dbCheck.at) /\ Answered(outboxCheck)) \/ pclock = ProbeTimeout
  /\ probe' = IF {dbCheck.at, outboxCheck} \cap {"degraded", "unhealthy"} # {} THEN "503" ELSE "200"
  /\ UNCHANGED <<pclock, dbCheck, outboxCheck>>

ProbeNext ==
  /\ lifeKind = "probe"
  /\ ProbeTick \/ PingAnswers \/ BackoffEnds \/ OutboxAnswers \/ ProbeAnswers
  /\ UNCHANGED <<lifeKind, migrateVars, inputVars, serverVars>>

-----------------------------------------------------------------------------
(* main, InitializeServer, runHTTPServer and DrainPool                     *)

Pools == {"primary", "replica"}

\* InitializeServer opens the pools one after the other; an error ends the process.
ServerStarts ==
  /\ mainAt = "init"
  /\ \E ok \in BOOLEAN :
       IF ok THEN /\ mainAt' = "serving" /\ server' = "open"
                  /\ pool' = [p \in Pools |-> "open"]
       ELSE mainAt' = "exit" /\ UNCHANGED <<server, pool>>
  /\ UNCHANGED <<signalled, shutdownTimer, handling>>

RequestBegins(h) ==
  /\ server = "open" /\ handling[h] = "no"
  /\ handling' = [handling EXCEPT ![h] = "running"]
  /\ UNCHANGED <<mainAt, signalled, server, shutdownTimer, pool>>
\* A request takes a connection from an open pool, and ends after giving it back.
RequestQueries(h) ==
  /\ handling[h] = "running"
  /\ handling' = [handling EXCEPT ![h] = IF pool["primary"] = "open" THEN "conn" ELSE "refused"]
  /\ UNCHANGED <<mainAt, signalled, server, shutdownTimer, pool>>
RequestEnds(h) ==
  /\ handling[h] \in {"running", "conn", "refused"}
  /\ handling' = [handling EXCEPT ![h] = "done"]
  /\ UNCHANGED <<mainAt, signalled, server, shutdownTimer, pool>>

SignalArrives ==
  /\ mainAt = "serving" /\ ~signalled
  /\ signalled' = TRUE
  /\ UNCHANGED <<mainAt, server, shutdownTimer, handling, pool>>
\* ListenAndServe fails: runHTTPServer returns the error and main exits.
ListenFails ==
  /\ mainAt = "serving" /\ ~signalled
  /\ mainAt' = "exit" /\ server' = "closed"
  /\ UNCHANGED <<signalled, shutdownTimer, handling, pool>>

\* srv.Shutdown closes the listener and waits for the requests, up to the timeout.
ShutdownBegins ==
  /\ mainAt = "serving" /\ signalled
  /\ mainAt' = "shutdown" /\ server' = "closing" /\ shutdownTimer' = "running"
  /\ UNCHANGED <<signalled, handling, pool>>
TimerExpires ==
  /\ shutdownTimer = "running"
  /\ shutdownTimer' = "expired"
  /\ UNCHANGED <<mainAt, signalled, server, handling, pool>>

\* Either way cleanup runs, with a timeout of its own: DrainPool of the primary.
Quiet == \A h \in Handlers : handling[h] \in {"no", "done"}
ShutdownEnds ==
  /\ mainAt = "shutdown"
  /\ Quiet \/ shutdownTimer = "expired"
  /\ server' = IF Quiet THEN "closed" ELSE "timedout"
  /\ mainAt' = "drain" /\ shutdownTimer' = "running"
  /\ pool' = [pool EXCEPT !["primary"] = "closing"]
  /\ UNCHANGED <<signalled, handling>>

\* Pool.Close, in its own goroutine, waits for the acquired connections.
PoolCloses ==
  /\ \E p \in Pools :
       /\ pool[p] = "closing"
       /\ p = "primary" => \A h \in Handlers : handling[h] # "conn"
       /\ pool' = [pool EXCEPT ![p] = "closed"]
  /\ UNCHANGED <<mainAt, signalled, server, shutdownTimer, handling>>

\* DrainPool returns when its pool is closed, or at the timeout; the replica's
\* follows the primary's, unless that one failed; then the process exits.
DrainReturns_Waits ==
  /\ mainAt \in {"drain", "drainReplica"}
  /\ pool[IF mainAt = "drain" THEN "primary" ELSE "replica"] = "closed"
  /\ mainAt' = IF mainAt = "drain" THEN "drainReplica" ELSE "exit"
  /\ pool' = IF mainAt = "drain" THEN [pool EXCEPT !["replica"] = "closing"] ELSE pool
  /\ UNCHANGED <<signalled, server, shutdownTimer, handling>>
DrainReturns ==
  /\ mainAt \in {"drain", "drainReplica"}
  /\ \/ /\ pool[IF mainAt = "drain" THEN "primary" ELSE "replica"] = "closed"
        /\ mainAt' = IF mainAt = "drain" THEN "drainReplica" ELSE "exit"
        /\ pool' = IF mainAt = "drain" THEN [pool EXCEPT !["replica"] = "closing"] ELSE pool
     \/ shutdownTimer = "expired" /\ mainAt' = "exit" /\ UNCHANGED pool
  /\ UNCHANGED <<signalled, server, shutdownTimer, handling>>

\* The process's own steps, which its runtime schedules.
MainStep == ShutdownBegins \/ TimerExpires \/ ShutdownEnds \/ PoolCloses \/ DrainReturns

ServerNext ==
  /\ lifeKind = "server"
  /\ mainAt # "exit"
  /\ \/ ServerStarts \/ SignalArrives \/ ListenFails \/ MainStep
     \/ \E h \in Handlers : RequestBegins(h) \/ RequestQueries(h) \/ RequestEnds(h)
  /\ UNCHANGED <<lifeKind, migrateVars, inputVars, probeVars>>

-----------------------------------------------------------------------------

LifeInit ==
  /\ lifeKind \in {"migrate", "load", "config", "probe", "server"}
  /\ applied = [v \in Versions |-> 0] /\ recorded = {} /\ holder = NoRunner
  /\ runner = [r \in Runners |-> IdleRunner]
  /\ files = {} /\ dirLoaded = "no" /\ env = [at |-> "no"] /\ config = [at |-> "no"]
  /\ pclock = 0 /\ probe = "open" /\ outboxCheck \in {"asked", "not_configured"}
  /\ dbCheck \in {[at |-> "ping", attempt |-> 1, until |-> AttemptTimeout],
                  [at |-> "not_configured", attempt |-> 0, until |-> 0]}
  /\ lifeKind # "probe" => outboxCheck = "asked" /\ dbCheck.at = "ping"
  /\ mainAt = "init" /\ signalled = FALSE /\ server = "none" /\ shutdownTimer = "none"
  /\ handling = [h \in Handlers |-> "no"] /\ pool = [p \in Pools |-> "none"]

LifeNext == MigrateNext \/ InputNext \/ ProbeNext \/ ServerNext

LifeTypeOK ==
  /\ applied \in [Versions -> Int] /\ recorded \subseteq Versions
  /\ holder \in Runners \cup {NoRunner}
  /\ runner \in [Runners -> [op : {"idle", "up", "down"}, locked : BOOLEAN,
                             todo : SUBSET Versions, did : SUBSET Versions]]
  /\ dirLoaded \in {"no", "refused", "valid", "gap"} /\ config.at \in {"no", "loaded", "error"}
  /\ pclock \in 0..ProbeTimeout /\ probe \in {"open", "200", "503"}
  /\ dbCheck.attempt \in 0..PingAttempts
  /\ outboxCheck \in {"asked", "healthy", "degraded", "not_configured"}
  /\ mainAt \in {"init", "serving", "shutdown", "drain", "drainReplica", "exit"}
  /\ signalled \in BOOLEAN /\ shutdownTimer \in {"none", "running", "expired"}
  /\ server \in {"none", "open", "closing", "closed", "timedout"}
  /\ handling \in [Handlers -> {"no", "running", "conn", "refused", "done"}]
  /\ pool \in [Pools -> {"none", "open", "closing", "closed"}]

-----------------------------------------------------------------------------
(* Properties                                                              *)

\* The schema is what schema_migrations records: every recorded version's up
\* migration is in force exactly once and no other is, with two runners of
\* different releases, failures at every statement and lost connections.
SchemaMatchesRecord ==
  \A v \in Versions : applied[v] = IF v \in recorded THEN 1 ELSE 0

\* A directory that validates holds, for the versions 1 to n without a gap, exactly
\* one up and one down file of one name each.
ValidDirIsComplete ==
  dirLoaded = "valid" =>
    LET vs == {f.version : f \in files} IN
    /\ vs = 1..Cardinality(vs)
    /\ \A v \in vs : \E n \in {"a", "b"} :
         LET mine == {f \in files : f.version = v} IN
         Cardinality(mine) = 2 /\ {<<f.name, f.kind>> : f \in mine} = {<<n, "up">>, <<n, "down">>}

\* A configuration that loads is one the server can run with: no timeout is zero,
\* every bucket holds at least a second's requests, the pool's floor is not over
\* its ceiling and the breaker does not trip on success, for every combination of unset, invalid and boundary values.
LoadedIsUsable ==
  config.at = "loaded" =>
    /\ config.rate.rps >= 1 /\ config.rate.burst >= config.rate.rps
    /\ config.tenant.rps > 0 => config.tenant.burst >= config.tenant.rps
    /\ config.pool.max >= 1 /\ config.pool.min <= config.pool.max
    /\ config.timeout >= 1 /\ config.failures >= 1

\* The readiness probe answers 200 only after the database has answered a ping, or
\* when none is configured: its pings and pauses end before the probe's deadline.
ReadyIsChecked == probe = "200" => dbCheck.at \in {"healthy", "not_configured"}

\* No request finds the pool closing before the server has waited for it up to
\* the shutdown timeout.
PoolOutlivesRequests ==
  \A h \in Handlers : handling[h] = "refused" => server = "timedout"

\* After the signal the process exits, although requests may hang for ever and
\* hold their connections: every wait of the shutdown has a timeout.
SignalEndsProcess == (lifeKind = "server" /\ signalled) ~> (mainAt = "exit")

=============================================================================
