----------------------------- MODULE Credentials -----------------------------
(***************************************************************************)
(* What requests are verified with: the JWKS key cache (auth/jwks_cache.go), *)
(* the Vault secrets cache with its single flight (secrets/), and the        *)
(* signed webhook and admin requests with their cache of event ids           *)
(* (middleware/webhook_verification.go, request_signing.go,                  *)
(* webhook_event_cache.go).  credKind selects the part a behaviour is about. *)
(***************************************************************************)
EXTENDS Integers, FiniteSets

CONSTANTS
  Askers,        \* concurrent callers
  RefreshLimit,  \* JWKSCache.refreshLimit
  KeyTTL,        \* JWKSCache.ttl
  NegativeTTL,   \* maxNegativeCacheTTL
  SecretTTL,     \* VaultProvider.ttl
  EventTTL,      \* EventIDCache.ttl
  LastMoment,    \* bound on the clock
  MaxRotations   \* bound on the changes of keys and secrets

\* The cache of admin signatures outlives the time an admin date is accepted.
AdminSkew == 1
ASSUME CacheOutlivesDate == EventTTL > 2 * AdminSkew

VARIABLES
  credKind,   \* "jwks", "vault" or "signed"
  moment,     \* the clock
  version,    \* number of the key set, or secret, that the issuer now has
  asker,      \* [Askers -> [at, got]]: where its call is, the version it holds
  \* JWKSCache
  keysOf,     \* version of the cached key set, 0 when none
  keysUntil, lastRefresh, notFoundUntil,
  fetchFlight,     \* the fetch in flight, 0 when none: the asker that leads it
  ownEnd,     \* [Askers -> when its last refresh ended, -RefreshLimit when long ago]
  \* VaultProvider
  secretOf, secretUntil,
  \* Event ids
  route,      \* the middleware in front of the handler
  sentAt,     \* the date the sender signed
  seenUntil,  \* expiry of the id in the cache, 0 when it is not there
  handledAt,  \* when the handler last ran for the id, -1 when never
  verdict     \* of the last delivery

jwksVars  == <<keysOf, keysUntil, lastRefresh, notFoundUntil, ownEnd>>
vaultVars == <<secretOf, secretUntil>>
eventVars == <<route, sentAt, seenUntil, handledAt, verdict>>
credVars  == <<credKind, moment, version, asker, fetchFlight, jwksVars, vaultVars, eventVars>>

Nobody == "nobody"
Free == [at |-> "free", got |-> 0]

\* ProviderConfig and the two admin middlewares: tolerance 0 when no date is
\* asked for; whether the id is remembered, and before the signature is looked at.
Routes ==
  [generic |-> [tolerance |-> 5,  dedup |-> TRUE,  early |-> FALSE],
   stripe  |-> [tolerance |-> 5,  dedup |-> FALSE, early |-> FALSE],
   paypal  |-> [tolerance |-> 10, dedup |-> TRUE,  early |-> FALSE],
   github  |-> [tolerance |-> 0,  dedup |-> TRUE,  early |-> FALSE],
   admin   |-> [tolerance |-> AdminSkew, dedup |-> TRUE, early |-> FALSE],
   adminId |-> [tolerance |-> AdminSkew, dedup |-> TRUE, early |-> TRUE]]

CredTypeOK ==
  /\ credKind \in {"jwks", "vault", "signed"}
  /\ moment \in 0..LastMoment /\ version \in 1..MaxRotations + 1
  /\ asker \in [Askers -> [at : {"free", "checked", "flying", "leads", "joined", "fetched"},
                           got : 0..MaxRotations + 1]]
  /\ fetchFlight \in Askers \union {Nobody}
  /\ keysOf \in 0..MaxRotations + 1 /\ keysUntil \in 0..LastMoment + KeyTTL
  /\ lastRefresh \in -RefreshLimit..LastMoment /\ notFoundUntil \in 0..LastMoment + NegativeTTL
  /\ ownEnd \in [Askers -> -RefreshLimit..LastMoment]
  /\ secretOf \in 0..MaxRotations + 1 /\ secretUntil \in 0..LastMoment + SecretTTL
  /\ route \in DOMAIN Routes /\ sentAt \in 0..LastMoment
  /\ seenUntil \in 0..LastMoment + EventTTL /\ handledAt \in -1..LastMoment
  /\ verdict \in {"none", "handled", "refused"}

CredInit ==
  /\ credKind \in {"jwks", "vault", "signed"}
  /\ moment = 0 /\ version = 1
  /\ asker = [a \in Askers |-> Free] /\ fetchFlight = Nobody
  /\ keysOf = 0 /\ keysUntil = 0 /\ lastRefresh = -RefreshLimit /\ notFoundUntil = 0
  /\ ownEnd = [a \in Askers |-> -RefreshLimit]
  /\ secretOf = 0 /\ secretUntil = 0
  /\ route \in (IF credKind = "signed" THEN DOMAIN Routes ELSE {"generic"})
  /\ sentAt \in (IF credKind = "signed" THEN 0..2 ELSE {0})
  /\ seenUntil = 0 /\ handledAt = -1 /\ verdict = "none"

\* Refreshes older than the limit are forgotten.
CredTick ==
  /\ moment < LastMoment /\ moment' = moment + 1
  /\ ownEnd' = [a \in Askers |-> IF moment' - ownEnd[a] >= RefreshLimit THEN -RefreshLimit ELSE ownEnd[a]]
  /\ UNCHANGED <<credKind, version, asker, fetchFlight, keysOf, keysUntil, lastRefresh, notFoundUntil,
                 vaultVars, eventVars>>

\* The issuer publishes another key set, or the secret is rotated.
IssuerRotates ==
  /\ credKind # "signed" /\ version <= MaxRotations
  /\ version' = version + 1
  /\ UNCHANGED <<credKind, moment, asker, fetchFlight, jwksVars, vaultVars, eventVars>>

At(a, at, got) == asker' = [asker EXCEPT ![a] = [at |-> at, got |-> got]]

-----------------------------------------------------------------------------
(* JWKSCache: askers look for the key of the newest set                    *)

HasKey(set) == set = version
Served == HasKey(keysOf) /\ moment <= keysUntil
NotFound == notFoundUntil # 0 /\ moment <= notFoundUntil

\* GetKey's look under the read lock, then the look under the write lock; only
\* a call that both send on, outside the refresh limit, goes to the issuer.
GetKey(a) ==
  /\ asker[a].at = "free"
  /\ ~Served /\ ~NotFound
  /\ moment - lastRefresh >= RefreshLimit
  /\ At(a, "checked", 0)
  /\ UNCHANGED <<fetchFlight, jwksVars>>

\* singleflight.Do: the first starts the fetch, the others wait for its result.
FetchBegins(a) ==
  /\ asker[a].at = "checked"
  /\ \/ fetchFlight = Nobody /\ fetchFlight' = a /\ At(a, "leads", 0)
     \/ fetchFlight # Nobody /\ UNCHANGED fetchFlight /\ At(a, "joined", 0)
  /\ UNCHANGED jwksVars

\* The issuer's answer, or an error (got = 0), which everyone waiting shares.
FetchEnds ==
  /\ fetchFlight # Nobody
  /\ \E got \in {0, version} :
       asker' = [a \in Askers |-> IF asker[a].at \in {"leads", "joined"}
                                  THEN [at |-> "fetched", got |-> got] ELSE asker[a]]
  /\ fetchFlight' = Nobody
  /\ UNCHANGED jwksVars

\* Under the lock again: a failed attempt counts for the refresh limit too.
StoreKeys_SuccessOnly(a) ==
  /\ asker[a].at = "fetched" /\ At(a, "free", 0)
  /\ ownEnd' = [ownEnd EXCEPT ![a] = moment]
  /\ IF asker[a].got = 0
     THEN UNCHANGED <<keysOf, keysUntil, lastRefresh, notFoundUntil>>
     ELSE /\ keysOf' = asker[a].got /\ keysUntil' = moment + KeyTTL
          /\ lastRefresh' = moment
          /\ notFoundUntil' = IF HasKey(asker[a].got) THEN 0 ELSE moment + NegativeTTL
  /\ UNCHANGED fetchFlight
StoreKeys(a) ==
  /\ asker[a].at = "fetched" /\ At(a, "free", 0)
  /\ ownEnd' = [ownEnd EXCEPT ![a] = moment]
  /\ lastRefresh' = moment
  /\ IF asker[a].got = 0
     THEN UNCHANGED <<keysOf, keysUntil, notFoundUntil>>
     ELSE /\ keysOf' = asker[a].got /\ keysUntil' = moment + KeyTTL
          /\ notFoundUntil' = IF HasKey(asker[a].got) THEN 0 ELSE moment + NegativeTTL
  /\ UNCHANGED fetchFlight

JwksNext ==
  /\ credKind = "jwks"
  /\ \/ \E a \in Askers : GetKey(a) \/ FetchBegins(a) \/ StoreKeys(a)
     \/ FetchEnds
  /\ UNCHANGED <<credKind, moment, version, vaultVars, eventVars>>

-----------------------------------------------------------------------------
(* VaultProvider                                                           *)

\* GetSecret with a cached entry answers at once, near its expiry also starting
\* a refresh in the background; without one, or in that goroutine, fetchAndCache
\* leads a fetch or joins the one in flight.
GetSecret(a) ==
  /\ asker[a].at = "free"
  /\ moment >= secretUntil \/ secretUntil - moment <= SecretTTL \div 5
  /\ \/ fetchFlight = Nobody /\ fetchFlight' = a /\ At(a, "leads", 0)
     \/ fetchFlight # Nobody /\ UNCHANGED fetchFlight /\ At(a, "joined", 0)
  /\ UNCHANGED <<secretOf, secretUntil>>

\* Vault answers the leader: the version is read then, and stored below.
VaultAnswers(a) ==
  /\ asker[a].at = "leads"
  /\ \E got \in {0, version} : At(a, "fetched", got)
  /\ UNCHANGED <<fetchFlight, vaultVars>>

\* The second lock of fetchAndCache: the entry, and the waiting callers.
FetchCached(a) ==
  /\ asker[a].at = "fetched"
  /\ fetchFlight' = Nobody
  /\ asker' = [b \in Askers |-> IF b = a \/ asker[b].at = "joined" THEN Free ELSE asker[b]]
  /\ IF asker[a].got = 0
     THEN UNCHANGED <<secretOf, secretUntil>>
     ELSE secretOf' = asker[a].got /\ secretUntil' = moment + SecretTTL

\* A joined caller's own context ends.
JoinerLeaves(a) ==
  /\ asker[a].at = "joined" /\ At(a, "free", 0)
  /\ UNCHANGED <<fetchFlight, vaultVars>>

VaultNext ==
  /\ credKind = "vault"
  /\ \E a \in Askers : GetSecret(a) \/ VaultAnswers(a) \/ FetchCached(a) \/ JoinerLeaves(a)
  /\ UNCHANGED <<credKind, moment, version, jwksVars, eventVars>>

-----------------------------------------------------------------------------
(* Signed requests: the deliveries of one event                            *)

\* verifyTimestamp: both bounds are inclusive.
verifyTimestamp ==
  LET t == Routes[route].tolerance
  IN  t = 0 \/ (sentAt >= moment - t /\ sentAt <= moment + t)

\* CheckAndStore under its lock, with the removal of expired entries.
Seen == seenUntil # 0 /\ moment < seenUntil
CheckAndStore == seenUntil' = IF Seen THEN seenUntil ELSE moment + EventTTL

\* One delivery: signature, date and id are checked, then the handler runs.  The
\* signature of a delivery that was damaged on the way does not fit.
Delivery(fits) ==
  LET remembers == Routes[route].dedup
      passes == fits /\ verifyTimestamp
      looks  == remembers /\ verifyTimestamp /\ (fits \/ Routes[route].early)
  IN
  /\ IF looks THEN CheckAndStore ELSE UNCHANGED seenUntil
  /\ IF passes /\ ~(remembers /\ Seen)
     THEN verdict' = "handled" /\ handledAt' = moment
     ELSE verdict' = "refused" /\ UNCHANGED handledAt
  /\ UNCHANGED <<route, sentAt>>

\* The process restarts with an empty cache.
CacheLost ==
  /\ seenUntil' = 0 /\ handledAt' = -1 /\ verdict' = "none"
  /\ UNCHANGED <<route, sentAt>>

SignedNext ==
  /\ credKind = "signed"
  /\ (\E fits \in BOOLEAN : Delivery(fits)) \/ CacheLost
  /\ UNCHANGED <<credKind, moment, version, asker, fetchFlight, jwksVars, vaultVars>>

CredNext == CredTick \/ IssuerRotates \/ JwksNext \/ VaultNext \/ SignedNext

CredSpec == CredInit /\ [][CredNext]_credVars

-----------------------------------------------------------------------------
\* A caller whose refresh ended, failed ones included, sends no other to the
\* issuer within the refresh limit, however many callers refresh meanwhile: "so
\* a persistently broken issuer is still rate-limited" (jwks_cache.go:148-150).
IssuerIsSpared ==
  [][\A a \in Askers :
       credKind = "jwks" /\ asker[a].at = "free" /\ asker'[a].at = "checked"
          => moment - ownEnd[a] >= RefreshLimit]_credVars

\* One request per secret is under way at a time.
OneFetchPerSecret ==
  credKind = "vault" => Cardinality({a \in Askers : asker[a].at \in {"leads", "fetched"}}) <= 1

\* Whoever joined a fetch is woken when it ends, whatever its result: a caller
\* waits only while the fetch it joined is under way.
JoinedHasLeader ==
  credKind = "vault" =>
     \A a \in Askers : asker[a].at = "joined" =>
        \E b \in Askers : fetchFlight = b /\ asker[b].at \in {"leads", "fetched"}

\* Two runs of the handler for one event are at least the cache's lifetime apart,
\* and a signed admin request runs once: its date is refused before its id is
\* forgotten.
RepeatsAreApart ==
  [][verdict' = "handled" /\ handledAt # -1 /\ handledAt' # -1 /\ Routes[route].dedup
     /\ eventVars' # eventVars
       => handledAt' - handledAt >= EventTTL /\ route \notin {"admin", "adminId"}]_credVars
=============================================================================
