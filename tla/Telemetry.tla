------------------------------ MODULE Telemetry ------------------------------
(***************************************************************************)
(* What the service decides about its own signals, after the fact:         *)
(*   "tail"   internal/tracing/tail_sampling.go: spans are buffered until  *)
(*            the request's root span ends, and the whole trace is then    *)
(*            exported or dropped;                                         *)
(*   "fraud"  internal/security/fraud: per-tenant counts over a ring of    *)
(*            time buckets, reported when they reach a threshold.          *)
(* Both keep a bounded amount of memory and so forget on purpose; the      *)
(* properties say what the forgetting may not lose.                        *)
(***************************************************************************)
EXTENDS Integers, Sequences, FiniteSets, FiniteSetsExt, SequencesExt

CONSTANTS
  Traces,        \* trace ids
  Children,      \* child spans per trace
  TailTraces,    \* cfg.maxTraces
  TailSpans,     \* cfg.maxSpans
  TailWindow,    \* cfg.decisionWindow; tail behaviours end soon after it
  FraudWindow,   \* SignalConfig.Window
  FraudBuckets,  \* SignalConfig.Buckets
  FraudThreshold,\* SignalConfig.Threshold
  FraudCooldown, \* SignalConfig.Cooldown
  LastInstant    \* bound on the clock

ASSUME TelemetryAssumption ==
  /\ TailSpans \in Nat \ {0} /\ TailTraces \in Nat \ {0}
  /\ FraudBuckets \in Nat \ {0} /\ FraudWindow >= FraudBuckets

VARIABLES
  telKind,   \* which part this behaviour is about
  instant,   \* the clock both parts read
  head,      \* head[t]: the head sampler's decision, inherited by all spans of t
  promoted,  \* promoted[t]: the root of t is slow or carries an error signal
  ended,     \* spans that ended while the processor accepted them
  traces,    \* p.traces: t -> [spans, firstSeen]; order is p.order
  order,
  decisions, \* p.decisions: t -> [keep, expiresAt]
  flight,    \* spans decided on, to be forwarded now that the lock is released
  exported,  \* how often each span was handed to the next processor
  tail,      \* "running" | "stopped" (p.stopped) | "down" (next.Shutdown done)
  seen,      \* instants of the tenant's observations (history)
  ring,      \* ring[i]: [start, n] of bucket i; start = -1 for the zero time
  lastEmit,  \* st.lastEmit, -1 when zero
  emits,     \* instants at which an event was emitted (history)
  tracked    \* the tenant has an entry in c.tenants

tailVars == <<head, promoted, ended, traces, order, decisions, flight, exported, tail>>
fraudVars == <<seen, ring, lastEmit, emits, tracked>>
telVars == <<telKind, instant, tailVars, fraudVars>>

Spans == Traces \X (0..Children)
IsRoot(s) == s[2] = 0
Slots == 0..(FraudBuckets - 1)
EmptyBucket == [start |-> -1, n |-> 0]

TelemetryTypeOK ==
  /\ telKind \in {"tail", "fraud"} /\ instant \in 0..LastInstant
  /\ head \in [Traces -> BOOLEAN] /\ promoted \in [Traces -> BOOLEAN]
  /\ ended \subseteq Spans /\ flight \subseteq Spans
  /\ DOMAIN traces \subseteq Traces /\ DOMAIN decisions \subseteq Traces
  /\ ToSet(order) = DOMAIN traces /\ exported \in [Spans -> Nat]
  /\ tail \in {"running", "stopped", "down"}
  /\ seen \in Seq(0..LastInstant) /\ emits \in Seq(0..LastInstant)
  /\ ring \in [Slots -> [start : -1..LastInstant, n : Nat]]
  /\ lastEmit \in -1..LastInstant /\ tracked \in BOOLEAN

TelemetryInit ==
  /\ telKind \in {"tail", "fraud"} /\ instant = 0
  /\ IF telKind = "tail" THEN head \in [Traces -> BOOLEAN] /\ promoted \in [Traces -> BOOLEAN]
                         ELSE head = [t \in Traces |-> FALSE] /\ promoted = head
  /\ ended = {} /\ flight = {} /\ exported = [s \in Spans |-> 0] /\ tail = "running"
  /\ traces = <<>> /\ order = <<>> /\ decisions = <<>>
  /\ seen = <<>> /\ emits = <<>> /\ lastEmit = -1 /\ tracked = FALSE
  /\ ring = [i \in Slots |-> EmptyBucket]

TimeGoesOn == instant < LastInstant /\ instant' = instant + 1

(***************************************************************************)
(* Tail sampling                                                           *)
(***************************************************************************)
Without(f, ts) == [t \in DOMAIN f \ ts |-> f[t]]

(* shouldKeep: head-sampled, slow, or an error on the root. *)
shouldKeep(t) == head[t] \/ promoted[t]

(* headSampled over the buffered spans. *)
headSampled(spans) == \E i \in DOMAIN spans : head[spans[i][1]]

(* addDecisionLocked: a full map makes room by deleting an arbitrary entry. *)
addDecision(ds, t, keep) ==
  LET new == [keep |-> keep, expiresAt |-> instant + TailWindow]
      full == t \notin DOMAIN ds /\ Cardinality(DOMAIN ds) >= TailTraces
  IN  {[u \in (DOMAIN ds \ out) \cup {t} |-> IF u = t THEN new ELSE ds[u]] :
         out \in IF full THEN {{c} : c \in DOMAIN ds} ELSE {{}}}

(* The buffer a span of t goes to: an existing one, or a new one for which
   the oldest buffered trace is evicted when the table is full. *)
evictOldest == IF Cardinality(DOMAIN traces) >= TailTraces THEN {Head(order)} ELSE {}

(* One span appended to a buffer; at the cap only a root still gets in. *)
Append2(spans, s) ==
  IF Len(spans) < TailSpans THEN Append(spans, s)
  ELSE IF IsRoot(s) THEN [spans EXCEPT ![Len(spans)] = s] ELSE spans

(* OnEnd with a cached decision for the trace. *)
OnEndDecided(s) ==
  LET t == s[1]
      d == decisions[t]
      revised == ~d.keep /\ IsRoot(s) /\ shouldKeep(t)
  IN  /\ t \in DOMAIN decisions
      /\ IF revised THEN decisions' \in addDecision(decisions, t, TRUE)
                    ELSE UNCHANGED decisions
      /\ flight' = IF revised \/ d.keep THEN flight \cup {s} ELSE flight
      /\ UNCHANGED <<traces, order>>

(* OnEnd without one: buffer the span, and decide when it is the root. *)
OnEndBuffered(s) ==
  LET t == s[1]
      new == t \notin DOMAIN traces
      gone == IF new THEN evictOldest ELSE {}
      buffer == IF new THEN [spans |-> <<>>, firstSeen |-> instant] ELSE traces[t]
      spans == Append2(buffer.spans, s)
      keep == shouldKeep(t)
      afterEvict == IF gone = {} THEN {decisions}
                    ELSE addDecision(decisions, CHOOSE u \in gone : TRUE, FALSE)
      left == SelectSeq(order, LAMBDA u : u \notin gone \cup {t})
  IN  /\ t \notin DOMAIN decisions
      /\ IF IsRoot(s)
         THEN /\ traces' = Without(traces, gone \cup {t}) /\ order' = left
              /\ \E ds \in afterEvict : decisions' \in addDecision(ds, t, keep)
              /\ flight' = IF keep THEN flight \cup ToSet(spans) ELSE flight
         ELSE /\ traces' = [u \in (DOMAIN traces \ gone) \cup {t} |->
                              IF u = t THEN [buffer EXCEPT !.spans = spans] ELSE traces[u]]
              /\ order' = IF new THEN Append(left, t) ELSE order
              /\ decisions' \in afterEvict
              /\ UNCHANGED flight

OnEnd(s) ==
  /\ tail = "running" /\ s \notin ended /\ ended' = ended \cup {s}
  /\ OnEndDecided(s) \/ OnEndBuffered(s)
  /\ UNCHANGED <<instant, head, promoted, exported, tail>>

expire_KeepsBuffer(all) ==
  LET due == {t \in DOMAIN traces : all \/ instant - traces[t].firstSeen >= TailWindow}
  IN  /\ flight' = flight \cup UNION {ToSet(traces[t].spans) :
                     t \in {u \in due : headSampled(traces[u].spans)}}
      /\ UNCHANGED <<traces, order, decisions, instant, head, promoted, ended, exported>>

(* expire: traces without a root fall back to the head decision. Both maps
   are walked in an arbitrary order, so which cached decisions survive a full
   map is arbitrary too; the last one added always does. *)
expire(all) ==
  LET due == {t \in DOMAIN traces : all \/ instant - traces[t].firstSeen >= TailWindow}
      candidates == DOMAIN decisions \cup due
      decided(t) == IF t \in due THEN [keep |-> headSampled(traces[t].spans),
                                       expiresAt |-> instant + TailWindow]
                                 ELSE decisions[t]
      fits(S) == /\ Cardinality(S) = Min({TailTraces, Cardinality(candidates)})
                 /\ due # {} => S \cap due # {}
  IN  /\ \E S \in SUBSET candidates :
           /\ fits(S)
           /\ decisions' = [t \in {u \in S : ~all /\ decided(u).expiresAt > instant} |-> decided(t)]
      /\ traces' = Without(traces, due)
      /\ order' = SelectSeq(order, LAMBDA u : u \notin due)
      /\ flight' = flight \cup UNION {ToSet(traces[t].spans) :
                     t \in {u \in due : headSampled(traces[u].spans)}}
      /\ UNCHANGED <<instant, head, promoted, ended, exported>>

expireLoop == tail = "running" /\ traces # <<>> /\ expire(FALSE) /\ UNCHANGED tail

ForceFlush == tail = "running" /\ traces # <<>> /\ expire(TRUE) /\ UNCHANGED tail

(* Spans leave the lock one call at a time; a next processor that was shut
   down in between drops them. *)
Forward(s) ==
  /\ s \in flight /\ flight' = flight \ {s}
  /\ exported' = IF tail = "down" THEN exported ELSE [exported EXCEPT ![s] = @ + 1]
  /\ UNCHANGED <<instant, head, promoted, ended, traces, order, decisions, tail>>

ShutdownTail ==
  \/ /\ tail = "running" /\ tail' = "stopped"
     /\ expire(TRUE)
  \/ /\ tail = "stopped" /\ tail' = "down"
     /\ UNCHANGED <<instant, head, promoted, ended, traces, order, decisions, flight, exported>>

TailNext ==
  /\ \/ \E s \in Spans : OnEnd(s) \/ Forward(s)
     \/ expireLoop
     \/ ForceFlush
     \/ ShutdownTail
     \/ TimeGoesOn /\ instant <= TailWindow /\ UNCHANGED tailVars
  /\ UNCHANGED fraudVars

(***************************************************************************)
(* Fraud signals                                                           *)
(***************************************************************************)
BucketSpan == FraudWindow \div FraudBuckets
bucketIndex(t) == (t \div BucketSpan) % FraudBuckets
bucketStart(t) == (t \div BucketSpan) * BucketSpan

roll(b, now) == IF b.start # -1 /\ now - b.start >= FraudWindow THEN EmptyBucket ELSE b

(* add: roll the ring, reset a reused bucket, count the event. *)
addEvent(r, now) ==
  LET rolled == [i \in Slots |-> roll(r[i], now)]
      i == bucketIndex(now)
  IN  [rolled EXCEPT ![i] = IF @.start = bucketStart(now) THEN [@ EXCEPT !.n = @ + 1]
                            ELSE [start |-> bucketStart(now), n |-> 1]]

windowSum(r, now) ==
  MapThenSumSet(LAMBDA i : IF r[i].start # -1 /\ now - r[i].start < FraudWindow
                            THEN r[i].n ELSE 0, Slots)

(* What Observe does once it holds the tenant's lock. *)
Reports(count) ==
  count >= FraudThreshold /\ ~(lastEmit # -1 /\ instant - lastEmit < FraudCooldown)

Observe ==
  LET before == IF tracked THEN ring ELSE [i \in Slots |-> EmptyBucket]
      after == addEvent(before, instant)
      emit == Reports(windowSum(after, instant))
  IN  /\ Len(seen) < 2 * FraudThreshold
      /\ tracked' = TRUE /\ ring' = after /\ seen' = Append(seen, instant)
      /\ lastEmit' = IF emit THEN instant ELSE lastEmit
      /\ emits' = IF emit THEN Append(emits, instant) ELSE emits
      /\ UNCHANGED instant

(* EvictIdle: an entry whose window is empty and that was idle for IdleTTL,
   by default the longest window. *)
EvictIdle ==
  /\ tracked /\ instant - Last(seen) >= FraudWindow
  /\ windowSum([i \in Slots |-> roll(ring[i], instant)], instant) = 0
  /\ tracked' = FALSE /\ lastEmit' = -1 /\ ring' = [i \in Slots |-> EmptyBucket]
  /\ UNCHANGED <<instant, seen, emits>>

FraudNext ==
  /\ Observe \/ EvictIdle \/ (TimeGoesOn /\ UNCHANGED fraudVars)
  /\ UNCHANGED tailVars

TelemetryNext ==
  /\ \/ telKind = "tail" /\ TailNext
     \/ telKind = "fraud" /\ FraudNext
  /\ UNCHANGED telKind

TelemetrySpec == TelemetryInit /\ [][TelemetryNext]_telVars

(***************************************************************************)
(* Properties                                                              *)
(***************************************************************************)

TimesExported(s) == exported[s] + (IF s \in flight THEN 1 ELSE 0)

(* A slow, failed or head-sampled request is never lost to the sampler's
   memory caps, and nothing is exported twice or for another request: the root
   span of a wanted trace is exported once it has ended, whether the trace was
   still buffered, had hit the span cap, had been evicted by newer traces or had
   already been decided against; every other span of it at most once, although
   root, decision window, flush and eviction may each decide the trace. *)
WantedSpansOnce ==
  /\ \A s \in Spans : TimesExported(s) <= (IF shouldKeep(s[1]) THEN 1 ELSE 0)
  /\ \A t \in Traces :
       (<<t, 0>> \in ended /\ shouldKeep(t)) => TimesExported(<<t, 0>>) = 1 \/ tail = "down"

(* The buffer and the decision cache stay within their configured sizes
   whatever order spans end in. *)
TailIsBounded ==
  /\ Cardinality(DOMAIN traces) <= TailTraces
  /\ Cardinality(DOMAIN decisions) <= TailTraces
  /\ \A t \in DOMAIN traces : Len(traces[t].spans) \in 1..TailSpans

Within(age) == Cardinality({i \in DOMAIN seen : instant - seen[i] < age})

(* The ring counts what the window promises: every event younger than the
   window less one bucket, and none older than the window. *)
CountWithinWindow ==
  LET count == IF tracked THEN windowSum(ring, instant) ELSE 0
  IN  telKind = "fraud" => count <= Within(FraudWindow)
                           /\ count >= Within(FraudWindow - BucketSpan + 1)

(* A tenant that reached the threshold within the window is reported: when
   the last observation made the count, an event went out in the cooldown
   that precedes it, at the latest with that observation. *)
HotTenantIsReported ==
  LET now == Last(seen)
      recent == {i \in DOMAIN seen : now - seen[i] < FraudWindow - BucketSpan + 1}
  IN  seen # <<>> /\ Cardinality(recent) >= FraudThreshold
        => \E k \in DOMAIN emits : now - emits[k] < FraudCooldown \/ emits[k] = now
=============================================================================
