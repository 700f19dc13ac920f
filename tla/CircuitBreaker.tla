--------------------------- MODULE CircuitBreaker ---------------------------
(***************************************************************************)
(* The circuit breaker that internal/db puts before the pool (BreakerPool,  *)
(* breakerTx, breakerRow) and internal/httpx before each host (Pool.Do),    *)
(* and the DNS cache of internal/httpx.                                     *)
(*                                                                          *)
(* The breaker itself is gobreaker's: a change of its state starts a new    *)
(* generation, and the result of a call admitted in an earlier generation   *)
(* is ignored.                                                              *)
(***************************************************************************)
EXTENDS Integers, FiniteSets

CONSTANTS
  Clients,       \* callers, each with one transaction or request at a time
  MaxFailures,   \* ReadyToTrip
  HalfOpenMax,   \* MaxRequests
  Dialers,       \* concurrent dials to one host
  DNSTTL,
  LookupTime,    \* bound on a lookup: the request's context
  LastNow,       \* bound on the clock
  MaxMoves       \* bound on the moves of the A record

VARIABLES
  breakerKind,   \* what a behaviour is about: breaker or dns
  breaker,       \* closed, open, half
  failures,      \* ConsecutiveFailures
  probes,        \* requests admitted in the half-open generation
  successes,     \* ConsecutiveSuccesses of that generation
  healthy,       \* whether calls succeed
  op,            \* [Clients -> what the client does; held: it has a transaction,
                 \* row: it has a row of QueryRow and has not scanned it]
  flight,        \* [Clients -> none, current, stale]: generation of the call
  dbTx,          \* [Clients -> none, open, committed, rolledback] at the server
  answer,        \* [Clients -> none, ok, error]: what its last call returned
  now,
  record,        \* the address the name resolves to, by number
  lastValid,     \* [addresses -> last time it was the record]
  cached,        \* dnsAddrs[0], -1 when there is none
  resolvedAt,    \* dnsResolvedAt
  lookup         \* [Dialers -> start of the lookup in progress, -1]

stateVars   == <<breaker, failures, probes, successes>>
txVars      == <<op, dbTx, answer>>
breakerVars == <<stateVars, healthy, txVars, flight>>
dnsVars     == <<now, record, lastValid, cached, resolvedAt, lookup>>
circuitVars == <<breakerKind, breakerVars, dnsVars>>

CircuitTypeOK ==
  /\ breakerKind \in {"breaker", "dns"}
  /\ breaker \in {"closed", "open", "half"}
  /\ failures \in 0..MaxFailures /\ probes \in 0..HalfOpenMax /\ successes \in 0..HalfOpenMax
  /\ healthy \in BOOLEAN
  /\ op \in [Clients -> {"idle", "call", "row", "scan", "begin", "held", "stmt",
                         "commit", "rollback"}]
  /\ flight \in [Clients -> {"none", "current", "stale"}]
  /\ dbTx \in [Clients -> {"none", "open", "committed", "rolledback"}]
  /\ answer \in [Clients -> {"none", "ok", "error"}]
  /\ now \in 0..LastNow
  /\ record \in 0..MaxMoves /\ lastValid \in [0..MaxMoves -> 0..LastNow]
  /\ cached \in -1..MaxMoves /\ resolvedAt \in 0..LastNow
  /\ lookup \in [Dialers -> -1..LastNow]

CircuitInit ==
  /\ breakerKind \in {"breaker", "dns"}
  /\ breaker = "closed" /\ failures = 0 /\ probes = 0 /\ successes = 0
  /\ healthy = TRUE
  /\ op = [c \in Clients |-> "idle"]
  /\ flight = [c \in Clients |-> "none"]
  /\ dbTx = [c \in Clients |-> "none"]
  /\ answer = [c \in Clients |-> "none"]
  /\ now = 0 /\ record = 0 /\ lastValid = [a \in 0..MaxMoves |-> 0]
  /\ cached = -1 /\ resolvedAt = 0
  /\ lookup = [d \in Dialers |-> -1]

-----------------------------------------------------------------------------
(* gobreaker                                                               *)

\* beforeRequest
Admits == breaker = "closed" \/ (breaker = "half" /\ probes < HalfOpenMax)

Admit(c) ==
  /\ Admits
  /\ flight' = [flight EXCEPT ![c] = "current"]
  /\ probes' = IF breaker = "half" THEN probes + 1 ELSE probes
  /\ UNCHANGED <<breaker, failures, successes>>

\* setState: the calls in flight belong to an earlier generation from now on.
NewGeneration(state, c) ==
  /\ breaker' = state
  /\ failures' = 0 /\ probes' = 0 /\ successes' = 0
  /\ flight' = [d \in Clients |-> IF d = c \/ flight[d] = "none" THEN "none" ELSE "stale"]

\* afterRequest
Settle(c, success) ==
  IF flight[c] = "stale" THEN flight' = [flight EXCEPT ![c] = "none"] /\ UNCHANGED stateVars
  ELSE IF breaker = "half" /\ ~success THEN NewGeneration("open", c)
  ELSE IF breaker = "half" /\ successes + 1 >= HalfOpenMax THEN NewGeneration("closed", c)
  ELSE IF ~success /\ failures + 1 >= MaxFailures THEN NewGeneration("open", c)
  ELSE /\ flight' = [flight EXCEPT ![c] = "none"]
       /\ failures' = IF success THEN 0 ELSE failures + 1
       /\ successes' = IF success /\ breaker = "half" THEN successes + 1 ELSE successes
       /\ UNCHANGED <<breaker, probes>>

\* The open state ends after Timeout; the next call finds the breaker half-open.
OpenTimesOut ==
  /\ breaker = "open"
  /\ \E c \in Clients : flight[c] = "none" /\ NewGeneration("half", c)
  /\ UNCHANGED <<healthy, txVars>>

HealthChanges ==
  /\ healthy' = ~healthy
  /\ UNCHANGED <<stateVars, txVars, flight>>

-----------------------------------------------------------------------------
(* BreakerPool and breakerTx                                               *)

\* Begin, or a call without a transaction: Ping, Query, Exec, Pool.Do.
CallAdmitted(c, kind) ==
  /\ op[c] = "idle" /\ kind \in {"begin", "call"}
  /\ Admit(c)
  /\ op' = [op EXCEPT ![c] = kind]
  /\ answer' = [answer EXCEPT ![c] = "none"]
  /\ dbTx' = [dbTx EXCEPT ![c] = "none"]
  /\ UNCHANGED healthy

\* QueryRow asks the pool whatever the state of the breaker; Scan asks the breaker.
QueryRow(c) ==
  /\ op[c] = "idle"
  /\ op' = [op EXCEPT ![c] = "row"]
  /\ answer' = [answer EXCEPT ![c] = "none"]
  /\ dbTx' = [dbTx EXCEPT ![c] = "none"]
  /\ UNCHANGED <<stateVars, flight, healthy>>
ScanAdmitted(c) ==
  /\ op[c] = "row"
  /\ Admit(c)
  /\ op' = [op EXCEPT ![c] = "scan"]
  /\ UNCHANGED <<dbTx, answer, healthy>>

\* A statement, Commit or Rollback of an open transaction.
EndAdmitted(c, kind) ==
  /\ op[c] = "held" /\ kind \in {"stmt", "commit", "rollback"}
  /\ Admit(c)
  /\ op' = [op EXCEPT ![c] = kind]
  /\ UNCHANGED <<dbTx, answer, healthy>>

\* The breaker refuses, which is an error of the call; but Commit, Rollback and Scan
\* return the error variable that only the function that was not called would have
\* set.
Refused(c) ==
  /\ ~Admits
  /\ \/ /\ op[c] \in {"idle", "held"}
        /\ answer' = [answer EXCEPT ![c] = "error"] /\ UNCHANGED op
     \/ /\ op[c] \in {"held", "row"}
        /\ answer' = [answer EXCEPT ![c] = "ok"]
        /\ op' = [op EXCEPT ![c] = "idle"]
  /\ UNCHANGED <<stateVars, flight, dbTx, healthy>>

\* The call ends.  A row that is not found counts as a failure too, so that calls
\* may fail at any time; a commit that fails may have taken place.
CallEnds(c, success) ==
  /\ flight[c] # "none" /\ (success => healthy)
  /\ Settle(c, success)
  /\ op' = [op EXCEPT ![c] = IF op[c] = "stmt" \/ (op[c] = "begin" /\ success)
                             THEN "held" ELSE "idle"]
  /\ dbTx' = [dbTx EXCEPT ![c] = CASE op[c] = "begin" /\ success -> "open"
                                   [] op[c] = "commit" /\ success -> "committed"
                                   [] op[c] = "rollback" -> "rolledback"
                                   [] OTHER -> dbTx[c]]
  /\ answer' = [answer EXCEPT ![c] = IF success THEN "ok" ELSE "error"]
  /\ UNCHANGED healthy

BreakerNext ==
  /\ breakerKind = "breaker"
  /\ \/ OpenTimesOut \/ HealthChanges
     \/ \E c \in Clients, kind \in {"begin", "call", "stmt", "commit", "rollback"} :
          CallAdmitted(c, kind) \/ EndAdmitted(c, kind)
     \/ \E c \in Clients :
          \/ QueryRow(c) \/ ScanAdmitted(c) \/ Refused(c)
          \/ \E success \in BOOLEAN : CallEnds(c, success)
  /\ UNCHANGED <<breakerKind, dnsVars>>

-----------------------------------------------------------------------------
(* resolveHost                                                             *)

ClockTicks ==
  /\ now < LastNow
  /\ \A d \in Dialers : lookup[d] # -1 => now - lookup[d] < LookupTime
  /\ now' = now + 1
  /\ lastValid' = [lastValid EXCEPT ![record] = now + 1]
  /\ UNCHANGED <<record, cached, resolvedAt, lookup>>

RecordMoves ==
  /\ record < MaxMoves
  /\ record' = record + 1
  /\ lastValid' = [lastValid EXCEPT ![record + 1] = now]
  /\ UNCHANGED <<now, cached, resolvedAt, lookup>>

Fresh == cached # -1 /\ now - resolvedAt < DNSTTL

LookupBegins(d) ==
  /\ lookup[d] = -1 /\ ~Fresh
  /\ lookup' = [lookup EXCEPT ![d] = now]
  /\ UNCHANGED <<now, record, lastValid, cached, resolvedAt>>

\* The answer is some record that was valid since the lookup began; the time that
\* is stored is the one read before it.  An error leaves the cache alone.
LookupEnds_StampsEnd(d) ==
  /\ lookup[d] # -1
  /\ \/ \E a \in 0..record : lastValid[a] >= lookup[d] /\ cached' = a /\ resolvedAt' = now
     \/ UNCHANGED <<cached, resolvedAt>>
  /\ lookup' = [lookup EXCEPT ![d] = -1]
  /\ UNCHANGED <<now, record, lastValid>>
LookupEnds(d) ==
  /\ lookup[d] # -1
  /\ \/ \E a \in 0..record : lastValid[a] >= lookup[d] /\ cached' = a /\ resolvedAt' = lookup[d]
     \/ UNCHANGED <<cached, resolvedAt>>
  /\ lookup' = [lookup EXCEPT ![d] = -1]
  /\ UNCHANGED <<now, record, lastValid>>

DnsNext ==
  /\ breakerKind = "dns"
  /\ ClockTicks \/ RecordMoves \/ \E d \in Dialers : LookupBegins(d) \/ LookupEnds(d)
  /\ UNCHANGED <<breakerKind, breakerVars>>

CircuitNext == BreakerNext \/ DnsNext

-----------------------------------------------------------------------------
(* Properties                                                              *)

\* A Commit that is answered without an error took place, unless the breaker was
\* not closed: then breakerTx.Commit may answer nil without a call.  So a commit
\* is lost in an outage only, never while the breaker is closed.
CommitHolds ==
  [][\A c \in Clients :
       /\ op[c] \in {"held", "commit"} /\ op'[c] = "idle" /\ answer'[c] = "ok"
       /\ breaker = "closed"
       => dbTx'[c] # "open"]_breakerVars

\* An address that resolveHost serves from the cache was the host's less than DNSTTL
\* ago, although a lookup takes time, the record moves meanwhile, and the lookups of
\* several dials overlap and store their answers in any order.
ServedWithinTTL ==
  Fresh => now - lastValid[cached] < DNSTTL

=============================================================================
