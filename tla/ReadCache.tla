----------------------------- MODULE ReadCache ------------------------------
(***************************************************************************)
(* The read-through caches in front of plans and subscriptions             *)
(* (internal/repository/cached_plan_repo.go, cached_subscription_repo.go)  *)
(* and the guarded cache they load through (internal/cache/cache.go).      *)
(*                                                                         *)
(* One object is cached under several keys: a plan under its id and in the *)
(* list, a subscription under its id and under id and tenant.  The cache   *)
(* is shared by the replicas; the time of the last invalidation and the    *)
(* per-key mutex are local to a replica.                                   *)
(*                                                                         *)
(* Data and time are abstracted to what staleness is about.  An envelope   *)
(* records the replicas whose writes its data does not contain (missed),   *)
(* the replicas whose invalidatedAt is later than its StoredAt (old), and  *)
(* those whose write fell between the read of the row and StoredAt (late). *)
(***************************************************************************)
EXTENDS Naturals, Sequences

CONSTANTS
    Replicas,  \* processes, each of which may write the object
    Readers,   \* goroutines that call FindByID, FindByIDAndTenant or List
    Home,      \* Home[r]: the replica of reader r
    KeyOrder,  \* the cache keys of the object, in the order Delete removes them
    CacheMiss       \* a cache miss, and the key of an idle reader

Keys == {KeyOrder[i] : i \in DOMAIN KeyOrder}

Envelope == [missed : SUBSET Replicas, old : SUBSET Replicas, late : SUBSET Replicas]

ASSUME ConstantsAssumption ==
    /\ Home \in [Readers -> Replicas]
    /\ CacheMiss \notin Envelope \union Keys

VARIABLES
    cache,   \* the shared cache: an envelope or CacheMiss for each key
    held,  \* replica and key pairs whose mutex in GuardedCache.locks is held
    readPc,      \* where each reader is
    key,     \* the key each reader asks for
    envelope,     \* the envelope a reader is building
    writing, \* replicas with a write in progress
    todo     \* the keys that write has still to delete

cacheVars == <<cache, held, readPc, key, envelope, writing, todo>>

Empty == [missed |-> {}, old |-> {}, late |-> {}]

Mutex(r) == <<Home[r], key[r]>>

(* Readers inside the critical section of GetOrLoad. *)
Guarded(r) == readPc[r] \in {"recheck", "load", "stamp", "set"}

(* Types; a per-key mutex is held exactly by the readers in its section. *)
CacheTypeOK ==
    /\ cache \in [Keys -> Envelope \union {CacheMiss}]
    /\ readPc \in [Readers -> {"idle", "look", "purge", "fast", "lock", "recheck",
                           "load", "stamp", "set"}]
    /\ key \in [Readers -> Keys \union {CacheMiss}]
    /\ envelope \in [Readers -> Envelope]
    /\ writing \subseteq Replicas
    /\ todo \in [Replicas -> {SubSeq(KeyOrder, i, Len(KeyOrder)) :
                                i \in 1..(Len(KeyOrder) + 1)}]
    /\ held = {Mutex(r) : r \in {q \in Readers : Guarded(q)}}

CacheInit ==
    /\ cache = [k \in Keys |-> CacheMiss]
    /\ held = {}
    /\ readPc = [r \in Readers |-> "idle"]
    /\ key = [r \in Readers |-> CacheMiss]
    /\ envelope = [r \in Readers |-> Empty]
    /\ writing = {}
    /\ todo = [p \in Replicas |-> <<>>]

(* isStale: the replica invalidated the key after the envelope was stored. *)
IsStale(r) == Home[r] \in cache[key[r]].old

ReadGoto(r, label) ==
    /\ readPc' = [readPc EXCEPT ![r] = label]
    /\ key' = [key EXCEPT ![r] = IF label = "idle" THEN CacheMiss ELSE @]

(* A caller asks for one of the keys. *)
ReadBegins(r) ==
    /\ readPc[r] = "idle"
    /\ \E k \in Keys : key' = [key EXCEPT ![r] = k]
    /\ readPc' = [readPc EXCEPT ![r] = "look"]
    /\ UNCHANGED <<cache, held, envelope, writing, todo>>

Look_WaitsForPurge(r) ==
    /\ readPc[r] = "look"
    /\ ReadGoto(r, IF cache[key[r]] = CacheMiss THEN "purge"
               ELSE IF IsStale(r) THEN "look" ELSE "idle")
    /\ UNCHANGED <<cache, held, envelope, writing, todo>>

(* Fast path of FindByID: a fresh hit is returned. *)
Look(r) ==
    /\ readPc[r] = "look"
    /\ ReadGoto(r, IF cache[key[r]] # CacheMiss /\ ~ IsStale(r) THEN "idle" ELSE "purge")
    /\ UNCHANGED <<cache, held, envelope, writing, todo>>

(* Stale path of FindByID: the cache is read once more, and a stale entry  *)
(* is deleted.                                                             *)
Purge(r) ==
    /\ readPc[r] = "purge"
    /\ cache' = IF cache[key[r]] # CacheMiss /\ IsStale(r)
                THEN [cache EXCEPT ![key[r]] = CacheMiss] ELSE cache
    /\ ReadGoto(r, "fast")
    /\ UNCHANGED <<held, envelope, writing, todo>>

(* GetOrLoad before the mutex: a hit is returned whether stale or not. *)
FastPath(r) ==
    /\ readPc[r] = "fast"
    /\ ReadGoto(r, IF cache[key[r]] # CacheMiss THEN "idle" ELSE "lock")
    /\ UNCHANGED <<cache, held, envelope, writing, todo>>

Lock(r) ==
    /\ readPc[r] = "lock"
    /\ Mutex(r) \notin held
    /\ held' = held \union {Mutex(r)}
    /\ ReadGoto(r, "recheck")
    /\ UNCHANGED <<cache, envelope, writing, todo>>

(* GetOrLoad returns: the deferred Unlock runs on every path. *)
Return(r) ==
    /\ ReadGoto(r, "idle")
    /\ envelope' = [envelope EXCEPT ![r] = Empty]
    /\ held' = held \ {Mutex(r)}

(* The second look, under the mutex. *)
Recheck(r) ==
    /\ readPc[r] = "recheck"
    /\ IF cache[key[r]] # CacheMiss
       THEN Return(r)
       ELSE ReadGoto(r, "load") /\ UNCHANGED <<held, envelope>>
    /\ UNCHANGED <<cache, writing, todo>>

(* The loader reads the row, or fails. *)
Load(r) ==
    /\ readPc[r] = "load"
    /\ \/ ReadGoto(r, "stamp") /\ UNCHANGED <<held, envelope>>
       \/ Return(r)
    /\ UNCHANGED <<cache, writing, todo>>

(* The loader takes StoredAt: no invalidation is later yet, and the writes *)
(* missed so far will not be told from older ones.                         *)
Stamp(r) ==
    /\ readPc[r] = "stamp"
    /\ envelope' = [envelope EXCEPT ![r].late = envelope[r].missed]
    /\ ReadGoto(r, "set")
    /\ UNCHANGED <<cache, held, writing, todo>>

(* GetOrLoad stores what was loaded; an error of Set is ignored. *)
Set(r) ==
    /\ readPc[r] = "set"
    /\ cache' \in {cache, [cache EXCEPT ![key[r]] = envelope[r]]}
    /\ Return(r)
    /\ UNCHANGED <<writing, todo>>

InFlight(r) == readPc[r] \in {"stamp", "set"}

Miss(e, p) == [e EXCEPT !.missed = @ \union {p}, !.late = @ \ {p}]

(* UpdateStatus (or the update of a plan): the row changes.  Envelopes     *)
(* read before lack the write.                                             *)
RowChanges(p) ==
    /\ p \notin writing
    /\ cache' = [k \in Keys |->
                    IF cache[k] = CacheMiss THEN CacheMiss ELSE Miss(cache[k], p)]
    /\ envelope' = [r \in Readers |->
                    IF InFlight(r) THEN Miss(envelope[r], p) ELSE envelope[r]]
    /\ writing' = writing \union {p}
    /\ todo' = [todo EXCEPT ![p] = KeyOrder]
    /\ UNCHANGED <<held, readPc, key>>

(* Delete, first half: the keys are removed one after the other, and an    *)
(* error of the cache is ignored.                                          *)
Drop(p) ==
    /\ todo[p] # <<>>
    /\ cache' \in {cache, [cache EXCEPT ![Head(todo[p])] = CacheMiss]}
    /\ todo' = [todo EXCEPT ![p] = Tail(@)]
    /\ UNCHANGED <<held, readPc, key, envelope, writing>>

Mark_Skipped(p) ==
    /\ p \in writing /\ todo[p] = <<>>
    /\ writing' = writing \ {p}
    /\ UNCHANGED <<cache, held, readPc, key, envelope, todo>>

Outdate(e, p) == [e EXCEPT !.old = @ \union {p}]

(* Delete, second half: invalidatedAt becomes the present time for every   *)
(* key, which is later than the StoredAt of every envelope stamped so far. *)
Mark(p) ==
    /\ p \in writing /\ todo[p] = <<>>
    /\ cache' = [k \in Keys |->
                    IF cache[k] = CacheMiss THEN CacheMiss ELSE Outdate(cache[k], p)]
    /\ envelope' = [r \in Readers |->
                    IF readPc[r] = "set" THEN Outdate(envelope[r], p) ELSE envelope[r]]
    /\ writing' = writing \ {p}
    /\ UNCHANGED <<held, readPc, key, todo>>

(* The TTL of an entry runs out. *)
EntryExpires(k) ==
    /\ cache[k] # CacheMiss
    /\ cache' = [cache EXCEPT ![k] = CacheMiss]
    /\ UNCHANGED <<held, readPc, key, envelope, writing, todo>>

Read(r) ==
    \/ Look(r) \/ Purge(r) \/ FastPath(r)
    \/ Lock(r) \/ Recheck(r) \/ Load(r) \/ Stamp(r) \/ Set(r)

CacheNext ==
    \/ \E r \in Readers : ReadBegins(r) \/ Read(r)
    \/ \E p \in Replicas : RowChanges(p) \/ Drop(p) \/ Mark(p)
    \/ \E k \in Keys : EntryExpires(k)

-----------------------------------------------------------------------------
(* Whatever replicas have finished writing, an entry that lacks the write  *)
(* is one the writing replica recognises as stale (StoredAt before         *)
(* invalidatedAt), even when deleting it from the cache failed or a reader *)
(* put it back afterwards.  The one exception is an entry whose row was    *)
(* read before the write and whose StoredAt was taken after it.            *)
MissedWriteIsRecognised ==
    \A k \in Keys, p \in Replicas :
        cache[k] # CacheMiss /\ p \notin writing /\ p \in cache[k].missed
            => p \in cache[k].old \union cache[k].late

(* A reader that waits for the per-key mutex, or holds it, returns: the    *)
(* mutex is released when the loader fails and when the second look hits.  *)
ReadReturns == \A r \in Readers : (readPc[r] = "look") ~> (readPc[r] = "idle")
=============================================================================
