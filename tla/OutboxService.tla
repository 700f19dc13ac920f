---------------------------- MODULE OutboxService ---------------------------
(***************************************************************************)
(* The producing and the delivering end of internal/outbox: Service and    *)
(* Manager, the subscriber keys, the publishers and the concurrency limiter *)
(* of the HTTP publisher.  One event is followed from the transaction that  *)
(* publishes it to the sinks; the dispatchers, which pick rows and count    *)
(* retries, are the modules OutboxDispatcher and ShardedDispatcher.         *)
(*                                                                          *)
(* A publisher is the set of its outcomes: the result that Publish returns  *)
(* and the sinks that were reached, an answer being lost included.          *)
(***************************************************************************)
EXTENDS Integers, FiniteSets, FiniteSetsExt, Sequences

CONSTANTS
  MaxKeys,    \* bound on the registered subscriber keys
  Callers,    \* concurrent Publish calls of one HTTPPublisher
  MinLimit,   \* LimiterConfig
  MaxLimit

\* What NewService can build; any other type is the console.
PublisherTypes == {"console", "http", "multi", "kafka"}
Sinks == {"console", "http", "kafka"}

VARIABLES
  serviceKind,  \* what a behaviour is about: the service or the limiter
  conf,         \* configuration and the event's traits, chosen once
  tx,           \* the caller's transaction: none, open, published, committed, aborted
  told,         \* what PublishEvent answered: none, ok, error
  eventRow,          \* the event's row: absent, pending, completed, failed
  sealedRow,    \* its event_data holds a JWE and no data
  keys,         \* statuses of the subscriber's keys, oldest first
  messages,     \* what the sinks received
  limit,        \* floor of l.limit
  call          \* [Callers -> idle, waiting, inflight]

serviceVars == <<conf, tx, told, eventRow, sealedRow, keys, messages>>
limiterVars == <<limit, call>>
outboxServiceVars == <<serviceKind, serviceVars, limiterVars>>

Confs == [type : PublisherTypes, jwe : BOOLEAN, sensitive : BOOLEAN, subscriber : BOOLEAN,
          mapped : BOOLEAN, acked : BOOLEAN, readable : BOOLEAN]
\* The traits that tell nothing apart under a type are fixed.  event_data that is
\* no EventData is never made by the service: such a row has another writer.
Sensible(c) ==
  /\ c.readable \/ (~c.jwe /\ ~c.sensitive)
  /\ c.type = "kafka" \/ (c.mapped /\ c.acked)
  /\ c.sensitive \/ c.subscriber

Message == [sink : Sinks, sealed : BOOLEAN, data : BOOLEAN]

OutboxServiceTypeOK ==
  /\ serviceKind \in {"service", "limiter"}
  /\ conf \in Confs
  /\ tx \in {"none", "open", "published", "committed", "aborted"}
  /\ told \in {"none", "ok", "error"}
  /\ eventRow \in {"absent", "pending", "completed", "failed"}
  /\ sealedRow \in BOOLEAN
  /\ keys \in Seq({"active", "revoked", "expired"}) /\ Len(keys) <= MaxKeys
  /\ messages \subseteq Message
  /\ limit \in MinLimit..MaxLimit
  /\ call \in [Callers -> {"idle", "waiting", "inflight"}]

OutboxServiceInit ==
  /\ serviceKind \in {"service", "limiter"}
  /\ conf \in {c \in Confs : Sensible(c)}
  /\ serviceKind = "limiter" => conf.type = "http" /\ ~conf.jwe /\ ~conf.sensitive /\ conf.readable
  /\ tx = "none" /\ told = "none" /\ eventRow = "absent" /\ sealedRow = FALSE
  /\ keys = <<>>
  /\ messages = {}
  /\ limit = MaxLimit
  /\ call = [c \in Callers |-> "idle"]

-----------------------------------------------------------------------------
(* Subscriber keys                                                         *)

\* GetActiveKey: the newest active key, 0 when there is none.
GetActiveKey == Max({0} \cup {k \in 1..Len(keys) : keys[k] = "active"})

RegisterSubscriberKey ==
  /\ Len(keys) < MaxKeys
  /\ keys' = Append(keys, "active")
  /\ UNCHANGED <<conf, tx, told, eventRow, sealedRow, messages>>

\* PATCH by an administrator; expires_at passing has the effect of "expired".
UpdateSubscriberKey(k, status) ==
  /\ keys[k] # status
  /\ keys' = [keys EXCEPT ![k] = status]
  /\ UNCHANGED <<conf, tx, told, eventRow, sealedRow, messages>>

-----------------------------------------------------------------------------
(* Service: the row that buildEvent makes                                  *)

Encrypts == conf.jwe /\ conf.sensitive

\* Status and sealing of the event, or an error.  A failed key lookup of any
\* kind makes a dead-lettered event, a failed encryption an error.
BuiltEvents ==
  IF ~Encrypts THEN {<<"pending", FALSE>>}
  ELSE {<<"failed", FALSE>>}
       \cup (IF conf.subscriber /\ GetActiveKey # 0 THEN {<<"pending", TRUE>>} ELSE {})

\* Store runs on the pool's connection, outside every transaction; the answer may
\* be lost after the insert.
StoreEvent(built) ==
  /\ eventRow' = built[1]
  /\ sealedRow' = built[2]

PublishEventWithTx ==
  /\ tx = "open" /\ eventRow = "absent"
  /\ \/ \E b \in BuiltEvents : StoreEvent(b) /\ tx' \in {"published", "aborted"}
     \/ UNCHANGED <<eventRow, sealedRow>> /\ tx' = "aborted"
  /\ UNCHANGED <<conf, told, keys, messages>>

\* The caller commits what it wrote together with the event, or the commit fails.
BeginTx ==
  /\ tx = "none" /\ told = "none"
  /\ tx' = "open"
  /\ UNCHANGED <<conf, told, eventRow, sealedRow, keys, messages>>
EndTx ==
  /\ tx = "published"
  /\ tx' \in {"committed", "aborted"}
  /\ UNCHANGED <<conf, told, eventRow, sealedRow, keys, messages>>

\* storeEventInTransaction: its own transaction brackets the insert without
\* carrying it.
PublishEvent ==
  /\ tx = "none" /\ told = "none"
  /\ \/ \E b \in BuiltEvents : StoreEvent(b) /\ told' \in {"ok", "error"}
     \/ UNCHANGED <<eventRow, sealedRow>> /\ told' = "error"
  /\ UNCHANGED <<conf, tx, keys, messages>>

-----------------------------------------------------------------------------
(* Publishers: sets of <<result, sinks reached>>                           *)

\* Every status from 400 up, every transport error and event data that cannot be
\* read are worth a retry.
HTTPPublish ==
  {<<"retry", {}>>} \cup
  IF conf.readable THEN {<<"ok", {"http"}>>, <<"retry", {"http"}>>} ELSE {}

ConsolePublish == IF conf.readable THEN {<<"ok", {"console"}>>} ELSE {<<"retry", {}>>}

\* Every publisher is called; the last error is the result.
MultiPublish_AnySuccess ==
  {<<IF c[1] = "ok" THEN c[1] ELSE h[1], c[2] \cup h[2]>> :
     c \in ConsolePublish, h \in HTTPPublish}
MultiPublish ==
  {<<IF h[1] = "ok" THEN c[1] ELSE h[1], c[2] \cup h[2]>> :
     c \in ConsolePublish, h \in HTTPPublish}

\* An event type without a topic goes to the fallback; without acknowledgements
\* a write succeeds whether it arrives or not.
KafkaPublish ==
  IF ~conf.mapped THEN HTTPPublish
  ELSE {<<"ok", {"kafka"}>>, <<"retry", {"kafka"}>>, <<"retry", {}>>}
       \cup (IF conf.acked THEN {} ELSE {<<"ok", {}>>})

InnerPublish ==
  CASE conf.type = "console" -> ConsolePublish
    [] conf.type = "http"    -> HTTPPublish
    [] conf.type = "multi"   -> MultiPublish
    [] conf.type = "kafka"   -> KafkaPublish

\* JWEPublisher: <<outcome, message sealed>>.  A missing subscriber or key is
\* permanent, also when the key lookup itself failed.
JWEPublish ==
  IF ~Encrypts THEN {<<o, FALSE>> : o \in InnerPublish}
  ELSE {<<<<"permanent", {}>>, FALSE>>}
       \cup (IF conf.subscriber /\ GetActiveKey # 0
             THEN {<<o, TRUE>> : o \in InnerPublish \cup {<<"retry", {}>>}} ELSE {})

\* A dispatcher publishes a pending event and records the result; retries that
\* run out end in "failed" too.  What a sink receives is made from the row.
Deliver ==
  /\ eventRow = "pending"
  /\ \E p \in JWEPublish :
       /\ messages' = messages \cup
            {[sink |-> s, sealed |-> p[2], data |-> ~sealedRow] : s \in p[1][2]}
       /\ eventRow' \in CASE p[1][1] = "ok"        -> {"completed"}
                     [] p[1][1] = "permanent" -> {"failed"}
                     [] p[1][1] = "retry"     -> {"pending", "failed"}
  /\ UNCHANGED <<conf, tx, told, sealedRow, keys>>

\* POST /api/admin/outbox/:id/requeue
RequeueOutboxEvent ==
  /\ eventRow = "failed"
  /\ eventRow' = "pending"
  /\ UNCHANGED <<conf, tx, told, sealedRow, keys, messages>>

ServiceNext ==
  /\ serviceKind = "service"
  /\ \/ RegisterSubscriberKey
     \/ \E k \in 1..Len(keys), s \in {"active", "revoked", "expired"} : UpdateSubscriberKey(k, s)
     \/ BeginTx \/ PublishEventWithTx \/ EndTx \/ PublishEvent
     \/ Deliver \/ RequeueOutboxEvent
  /\ UNCHANGED <<serviceKind, limiterVars>>

-----------------------------------------------------------------------------
(* Gradient2Limiter                                                        *)

Inflight == Cardinality({c \in Callers : call[c] = "inflight"})
Clamped(l) == IF l < MinLimit THEN MinLimit ELSE IF l > MaxLimit THEN MaxLimit ELSE l

PublishCalled(c) ==
  /\ call[c] = "idle"
  /\ call' = [call EXCEPT ![c] = "waiting"]
  /\ UNCHANGED limit

Acquire(c) ==
  /\ call[c] = "waiting" /\ Inflight < limit
  /\ call' = [call EXCEPT ![c] = "inflight"]
  /\ UNCHANGED limit

AcquireTimesOut(c) ==
  /\ call[c] = "waiting"
  /\ call' = [call EXCEPT ![c] = "idle"]
  /\ UNCHANGED limit

\* After an error the limit is halved; after a success it is multiplied by a
\* gradient between one half and one and grows by the smoothing term, which moves
\* the floor by at most one.
Release(c) ==
  /\ call[c] = "inflight"
  /\ call' = [call EXCEPT ![c] = "idle"]
  /\ limit' \in {Clamped(l) : l \in (limit \div 2)..(limit + 1)}

LimiterNext ==
  /\ serviceKind = "limiter"
  /\ \E c \in Callers : PublishCalled(c) \/ Acquire(c) \/ AcquireTimesOut(c) \/ Release(c)
  /\ UNCHANGED <<serviceKind, serviceVars>>

OutboxServiceNext == ServiceNext \/ LimiterNext

-----------------------------------------------------------------------------
(* Properties                                                              *)

\* An answer is backed by a row: whoever was told that the event was published,
\* or committed its transaction after publishing in it, has the event in the
\* outbox, whatever failed in between.
AcceptedIsStored ==
  tx = "committed" \/ told = "ok" => eventRow # "absent"

\* The sinks the configuration names; Kafka without acknowledgements counts none.
Targets ==
  CASE conf.type = "multi" -> {"console", "http"}
    [] conf.type = "kafka" -> IF ~conf.mapped THEN {"http"} ELSE IF conf.acked THEN {"kafka"} ELSE {}
    [] OTHER -> {conf.type}

\* A completed event reached every sink its configuration names, over any number
\* of attempts: also when one publisher of a MultiPublisher failed and the other
\* did not, and when answers were lost (MultiPublisher.Publish, KafkaPublisher).
CompletedReachedAll ==
  eventRow = "completed" => Targets \subseteq {msg.sink : msg \in messages}

\* With JWE on, no sink sees a sensitive event unsealed: through key rotation,
\* revocation, requeueing and every kind of publisher.
SensitiveIsSealed ==
  Encrypts => \A msg \in messages : msg.sealed

\* The limit never falls so low that a waiting call waits for nobody: with
\* nothing in flight the next Acquire succeeds.
NoLimiterStall ==
  Inflight = 0 => \A c \in Callers : call[c] = "waiting" => Inflight < limit

=============================================================================
