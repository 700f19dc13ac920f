---------------------------- MODULE RequestLimits ---------------------------
(***************************************************************************)
(* The limits a request meets: the token buckets of                         *)
(* middleware/ratelimit.go, the per-tenant limiters with idle eviction of   *)
(* middleware/tenant_ratelimit.go, the in-flight semaphores of              *)
(* middleware/inflight.go and the login lockout of security/lockout.go with *)
(* handlers/admin.go.  One key, tenant, route or account each; limitKind    *)
(* selects the part a behaviour is about.                                   *)
(***************************************************************************)
EXTENDS Integers, Sequences, FiniteSets

CONSTANTS
  Burst,        \* burst size of bucket and tenant limiter
  RefillEvery,  \* clock steps per token
  IdleTTL,      \* of an idle tenant limiter
  RouteLimit,   \* in-flight limit of the route
  LimitRequests,     \* requests that run at the same time
  BaseLockout, MaxLockout,
  CleanupEvery, \* LockoutTracker.cleanupEvery
  MaxAttempts,  \* bound on the failures
  LastClock     \* bound on the clock

ASSUME LimitConstants == Burst \in Nat /\ RefillEvery \in Nat \ {0} /\ IdleTTL \in Nat

None == -1

VARIABLES
  limitKind,
  clock,
  step,       \* [LimitRequests -> where its request is]
  seenAt,     \* [LimitRequests -> the time it read before its lock]
  tokens, lastRefill, \* of the bucket
  limiters,   \* the limiters made for the tenant: fill in clock steps, the time it
              \* is of, lastAccess
  mapped,     \* the one in the map, 0 when none is
  limiterOf,  \* [LimitRequests -> the limiter its request got from getLimiter]
  evictNow,   \* the time evictIdleLimiters read, None when it does not run
  admitted,   \* requests that were let through
  sem,        \* number of the semaphore in the map, 0 when none
  semaphores, \* semaphores made
  holds,      \* [LimitRequests -> the semaphore its request holds, 0 when none]
  entry,      \* the lockout entry, attempts = 0 when there is none
  lastCleanup,
  lockUntil   \* end of the lockout the last failure announced

tenantVars  == <<limiters, mapped, limiterOf, evictNow>>
bucketVars  == <<tokens, lastRefill, tenantVars, admitted>>
routeVars   == <<sem, semaphores, holds>>
lockoutVars == <<entry, lastCleanup, lockUntil>>
limitVars   == <<limitKind, clock, step, seenAt, bucketVars, routeVars, lockoutVars>>

NoEntry == [attempts |-> 0, lockedAt |-> 0, lockoutFor |-> 0]

LimitTypeOK ==
  /\ limitKind \in {"bucket", "tenant", "inflight", "lockout"}
  /\ clock \in 0..LastClock
  /\ step \in [LimitRequests -> {"idle", "refilled", "looked", "has", "allowed", "running", "expired", "verify"}]
  /\ seenAt \in [LimitRequests -> 0..LastClock]
  /\ tokens \in 0..Burst /\ lastRefill \in 0..LastClock
  /\ limiters \in Seq([fill : 0..Burst * RefillEvery, at : 0..LastClock, lastAccess : 0..LastClock])
  /\ mapped \in 0..Len(limiters) /\ limiterOf \in [LimitRequests -> 0..Len(limiters)]
  /\ evictNow \in None..LastClock
  /\ admitted \in Nat
  /\ sem \in 0..semaphores /\ semaphores \in 0..Cardinality(LimitRequests)
  /\ holds \in [LimitRequests -> 0..semaphores]
  /\ entry \in [attempts : 0..MaxAttempts, lockedAt : 0..LastClock, lockoutFor : 0..MaxLockout]
  /\ lastCleanup \in 0..LastClock /\ lockUntil \in 0..(LastClock + MaxLockout)

LimitInit ==
  /\ limitKind \in {"bucket", "tenant", "inflight", "lockout"}
  /\ clock = 0
  /\ step = [r \in LimitRequests |-> "idle"] /\ seenAt = [r \in LimitRequests |-> 0]
  /\ tokens = Burst /\ lastRefill = 0 /\ admitted = 0
  /\ limiters = <<>> /\ mapped = 0 /\ limiterOf = [r \in LimitRequests |-> 0] /\ evictNow = None
  /\ sem = 0 /\ semaphores = 0 /\ holds = [r \in LimitRequests |-> 0]
  /\ entry = NoEntry /\ lastCleanup = 0 /\ lockUntil = 0

LimitTick ==
  /\ limitKind # "inflight" /\ clock < LastClock
  /\ clock' = clock + 1
  /\ UNCHANGED <<limitKind, step, seenAt, bucketVars, routeVars, lockoutVars>>

GoTo(r, at) == step' = [step EXCEPT ![r] = at]

Least(a, b) == IF a < b THEN a ELSE b

-----------------------------------------------------------------------------
(* APIRateLimiter: one bucket                                              *)

\* refill, under its own lock: whole tokens, and the stamp moves with them.
Refill_KeepsStamp(r) ==
  LET add == (clock - lastRefill) \div RefillEvery IN
  /\ step[r] = "idle"
  /\ tokens' = Least(Burst, tokens + add)
  /\ GoTo(r, "refilled")
  /\ UNCHANGED <<lastRefill, seenAt, tenantVars, admitted>>
Refill(r) ==
  LET add == (clock - lastRefill) \div RefillEvery IN
  /\ step[r] = "idle"
  /\ tokens' = Least(Burst, tokens + add)
  /\ lastRefill' = IF add > 0 THEN clock ELSE lastRefill
  /\ GoTo(r, "refilled")
  /\ UNCHANGED <<seenAt, tenantVars, admitted>>

\* The second lock of allowRequest.
TakeToken(r) ==
  /\ step[r] = "refilled"
  /\ tokens' = tokens - (IF tokens >= 1 THEN 1 ELSE 0)
  /\ admitted' = admitted + (IF tokens >= 1 THEN 1 ELSE 0)
  /\ GoTo(r, "idle")
  /\ UNCHANGED <<seenAt, lastRefill, tenantVars>>

BucketNext ==
  /\ limitKind = "bucket"
  /\ \E r \in LimitRequests : Refill(r) \/ TakeToken(r)
  /\ UNCHANGED <<limitKind, clock, routeVars, lockoutVars>>

-----------------------------------------------------------------------------
(* TenantRateLimiter: one tenant                                           *)

NewLimiter == [fill |-> Burst * RefillEvery, at |-> clock, lastAccess |-> clock]

\* getLimiter: the limiter of the map is touched; one is made when there is none
\* at the second look, under the write lock (a first look that misses has no
\* effect).
GetLimiter ==
  IF mapped # 0
  THEN limiters' = [limiters EXCEPT ![mapped].lastAccess = clock] /\ UNCHANGED mapped
  ELSE limiters' = Append(limiters, NewLimiter) /\ mapped' = Len(limiters) + 1

TenantAsks(r) ==
  /\ step[r] = "idle"
  /\ GetLimiter
  /\ limiterOf' = [limiterOf EXCEPT ![r] = mapped']
  /\ GoTo(r, "has")
  /\ UNCHANGED <<evictNow, admitted>>

\* Allow of the library's limiter, which refills continuously: the one in hand,
\* whether or not it is still in the map.
LimiterAllow(r) ==
  LET l    == limiters[limiterOf[r]]
      have == Least(Burst * RefillEvery, l.fill + (clock - l.at))
      ok   == have >= RefillEvery IN
  /\ step[r] = "has"
  /\ limiters' = [limiters EXCEPT ![limiterOf[r]] =
                    [l EXCEPT !.fill = have - (IF ok THEN RefillEvery ELSE 0), !.at = clock]]
  /\ admitted' = admitted + (IF ok THEN 1 ELSE 0)
  /\ limiterOf' = [limiterOf EXCEPT ![r] = 0]
  /\ GoTo(r, "allowed")
  /\ UNCHANGED <<mapped, evictNow>>

\* getRateLimitSnapshot, on either outcome, gets the limiter once more.
Snapshot(r) ==
  /\ step[r] = "allowed"
  /\ GetLimiter
  /\ GoTo(r, "idle")
  /\ UNCHANGED <<limiterOf, evictNow, admitted>>

\* evictIdleLimiters reads the time once and then goes through the shards.
EvictBegins ==
  /\ evictNow = None
  /\ evictNow' = clock
  /\ UNCHANGED <<step, limiters, mapped, limiterOf, admitted>>
EvictShard ==
  /\ evictNow # None
  /\ mapped' = IF mapped # 0 /\ evictNow - limiters[mapped].lastAccess > IdleTTL THEN 0 ELSE mapped
  /\ evictNow' = None
  /\ UNCHANGED <<step, limiters, limiterOf, admitted>>

TenantNext ==
  /\ limitKind = "tenant"
  /\ \/ \E r \in LimitRequests : TenantAsks(r) \/ LimiterAllow(r) \/ Snapshot(r)
     \/ EvictBegins \/ EvictShard
  /\ UNCHANGED <<limitKind, clock, seenAt, tokens, lastRefill, routeVars, lockoutVars>>

-----------------------------------------------------------------------------
(* InflightLimiter: a route without a semaphore of its own yet             *)

\* getSemaphore under the read lock.
LookSemaphore(r) ==
  /\ step[r] = "idle"
  /\ holds' = [holds EXCEPT ![r] = sem]
  /\ GoTo(r, IF sem # 0 THEN "has" ELSE "looked")
  /\ UNCHANGED <<sem, semaphores>>

\* getSemaphore under the write lock, where it looks again.
MakeSemaphore(r) ==
  /\ step[r] = "looked"
  /\ semaphores' = IF sem = 0 THEN semaphores + 1 ELSE semaphores
  /\ sem' = IF sem = 0 THEN semaphores + 1 ELSE sem
  /\ holds' = [holds EXCEPT ![r] = sem']
  /\ GoTo(r, "has")

InUse(s) == Cardinality({r \in LimitRequests : step[r] = "running" /\ holds[r] = s})

\* The middleware takes a place or sheds the request; the handler's end, a panic
\* included, gives the place back.
EnterRoute(r) ==
  /\ step[r] = "has"
  /\ IF InUse(holds[r]) < RouteLimit
     THEN GoTo(r, "running") /\ UNCHANGED holds
     ELSE GoTo(r, "idle") /\ holds' = [holds EXCEPT ![r] = 0]
  /\ UNCHANGED <<sem, semaphores>>
LeaveRoute(r) ==
  /\ step[r] = "running"
  /\ GoTo(r, "idle")
  /\ holds' = [holds EXCEPT ![r] = 0]
  /\ UNCHANGED <<sem, semaphores>>

InflightNext ==
  /\ limitKind = "inflight"
  /\ \E r \in LimitRequests : LookSemaphore(r) \/ MakeSemaphore(r) \/ EnterRoute(r) \/ LeaveRoute(r)
  /\ UNCHANGED <<limitKind, clock, seenAt, bucketVars, lockoutVars>>

-----------------------------------------------------------------------------
(* AdminHandler.Login with LockoutTracker: one source and account          *)

Expiry == entry.lockedAt + entry.lockoutFor

\* IsLocked under the read lock: locked, free, or an expired entry to remove.
LoginAsks(r) ==
  /\ step[r] = "idle"
  /\ seenAt' = [seenAt EXCEPT ![r] = IF entry.attempts > 0 /\ clock >= Expiry THEN clock ELSE 0]
  /\ GoTo(r, IF entry.attempts = 0 THEN "verify" ELSE IF clock < Expiry THEN "idle" ELSE "expired")
  /\ UNCHANGED lockoutVars

\* IsLocked under the write lock: the entry goes if it is expired at the time
\* that was read before, which a newer failure's entry is not.
DropExpired_NoSecondLook(r) ==
  /\ step[r] = "expired"
  /\ entry' = NoEntry
  /\ GoTo(r, "verify")
  /\ seenAt' = [seenAt EXCEPT ![r] = 0]
  /\ UNCHANGED <<lastCleanup, lockUntil>>
DropExpired(r) ==
  /\ step[r] = "expired"
  /\ entry' = IF seenAt[r] > Expiry THEN NoEntry ELSE entry
  /\ GoTo(r, "verify")
  /\ seenAt' = [seenAt EXCEPT ![r] = 0]
  /\ UNCHANGED <<lastCleanup, lockUntil>>

\* The loop of RecordFailure: doubled per failure up to MaxLockout.
Duration[n \in 1..MaxAttempts] ==
  IF n = 1 THEN BaseLockout ELSE Least(MaxLockout, 2 * Duration[n - 1])

\* RecordFailure, with cleanupLocked before it.
LoginFails(r) ==
  LET cleans == clock - lastCleanup >= CleanupEvery
      old    == IF cleans /\ clock > Expiry THEN NoEntry ELSE entry IN
  /\ step[r] = "verify" /\ old.attempts < MaxAttempts
  /\ lastCleanup' = IF cleans THEN clock ELSE lastCleanup
  /\ entry' = [attempts |-> old.attempts + 1, lockedAt |-> clock,
               lockoutFor |-> Duration[old.attempts + 1]]
  /\ lockUntil' = clock + entry'.lockoutFor
  /\ GoTo(r, "idle")
  /\ UNCHANGED seenAt

\* Reset after the right token.
LoginSucceeds(r) ==
  /\ step[r] = "verify"
  /\ entry' = NoEntry /\ lockUntil' = 0
  /\ GoTo(r, "idle")
  /\ UNCHANGED <<seenAt, lastCleanup>>

LockoutNext ==
  /\ limitKind = "lockout"
  /\ \E r \in LimitRequests : LoginAsks(r) \/ DropExpired(r) \/ LoginFails(r) \/ LoginSucceeds(r)
  /\ UNCHANGED <<limitKind, clock, bucketVars, routeVars>>

LimitNext == LimitTick \/ BucketNext \/ TenantNext \/ InflightNext \/ LockoutNext

-----------------------------------------------------------------------------
(* Properties                                                              *)

\* A bucket lets through at most the burst and what has been refilled since.  A
\* tenant may get a new limiter, and with it a new burst, but only once in more
\* than IdleTTL, and requests in the middle of Allow may still use the old ones,
\* however requests, refills and eviction interleave.
AdmissionBounded ==
  LET fresh == IF limitKind = "tenant" THEN clock \div (IdleTTL + 1) ELSE 0 IN
  /\ Len(limiters) <= 1 + fresh
  /\ admitted * RefillEvery <= (1 + fresh) * (Burst * RefillEvery + clock)

\* No more requests of a route run than its limit, also when the first ones come
\* at the same time and the semaphore is not there yet.
InflightBounded == Cardinality({r \in LimitRequests : step[r] = "running"}) <= RouteLimit

\* A lockout holds for as long as the failure announced: no other request that
\* looks at an older, expired entry takes it away.
LockoutHolds == clock < lockUntil => entry.attempts > 0 /\ Expiry = lockUntil

=============================================================================
