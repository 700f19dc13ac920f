------------------------- MODULE OutboxWorkerProofs -------------------------
(***************************************************************************)
(* Proofs about OutboxWorker, for every set of workers, number of rows,     *)
(* batch size and retry limit.                                              *)
(***************************************************************************)
EXTENDS OutboxWorker, TLAPS

USE DEF Ids

\* The initial state satisfies the inductive invariant.
LEMMA InitInv == OutboxWorkerInit => OutboxWorkerIInv
<1> SUFFICES ASSUME OutboxWorkerInit PROVE OutboxWorkerIInv
  OBVIOUS
<1>1. OutboxWorkerTypeOK
  <2>1. 0 \in 0..MaxRetries /\ 0 \in 0..(ErrLimit + 1) /\ 0 \in 0..MaxWorkerFaults
    BY OutboxWorkerConstants
  <2> QED BY <2>1 DEF OutboxWorkerInit, OutboxWorkerTypeOK, Status
<1>2. ExclusiveClaim
  BY DEF OutboxWorkerInit, ExclusiveClaim, HeldBy
<1>3. ClaimIsCurrent /\ CompletedIsDelivered
  BY DEF OutboxWorkerInit, ClaimIsCurrent, CompletedIsDelivered
<1>4. LockedIsWaiting /\ SucceededIsDelivered
  BY DEF OutboxWorkerInit, LockedIsWaiting, SucceededIsDelivered
<1> QED BY <1>1, <1>2, <1>3, <1>4 DEF OutboxWorkerIInv

\* A step that changes nothing preserves it.
LEMMA StutterInv == OutboxWorkerIInv /\ UNCHANGED outboxWorkerVars => OutboxWorkerIInv'
<1> SUFFICES ASSUME OutboxWorkerIInv, UNCHANGED outboxWorkerVars PROVE OutboxWorkerIInv'
  OBVIOUS
<1> USE DEF OutboxWorkerIInv, outboxWorkerVars
<1>1. OutboxWorkerTypeOK'
  BY DEF OutboxWorkerTypeOK
<1>2. ExclusiveClaim'
  BY DEF ExclusiveClaim, HeldBy
<1>3. ClaimIsCurrent' /\ CompletedIsDelivered'
  BY DEF ClaimIsCurrent, CompletedIsDelivered
<1>4. LockedIsWaiting' /\ SucceededIsDelivered'
  BY DEF LockedIsWaiting, SucceededIsDelivered, Current
<1> QED BY <1>1, <1>2, <1>3, <1>4

\* A claimed row has an id and a retry count.
LEMMA ClaimedType ==
  ASSUME OutboxWorkerTypeOK, NEW w \in Workers, NEW c \in batch[w]
  PROVE  c.id \in Ids /\ c.retries \in 0..MaxRetries
<1>1. c \in Claimed
  BY DEF OutboxWorkerTypeOK
<1> QED BY <1>1 DEF Claimed

\* New rows and retries falling due preserve the invariant.
LEMMA RowInv ==
  ASSUME OutboxWorkerIInv, NEW e \in Ids, StoreRow(e) \/ RetryFallsDue(e)
  PROVE  OutboxWorkerIInv'
<1> USE DEF OutboxWorkerIInv, StoreRow, RetryFallsDue
<1>1. OutboxWorkerTypeOK'
  BY Zenon DEF OutboxWorkerTypeOK, Status
<1>2. ExclusiveClaim'
  BY DEF ExclusiveClaim, HeldBy
<1>3. ClaimIsCurrent'
  BY Zenon, ClaimedType DEF OutboxWorkerTypeOK, ClaimIsCurrent
<1>3a. CompletedIsDelivered'
  BY Zenon DEF OutboxWorkerTypeOK, CompletedIsDelivered
<1>4. LockedIsWaiting' /\ SucceededIsDelivered'
  BY Zenon DEF OutboxWorkerTypeOK, LockedIsWaiting, SucceededIsDelivered, Current
<1> QED BY <1>1, <1>2, <1>3, <1>3a, <1>4

\* Steps that start, stop or kill a worker, and a claim that fails, leave the
\* rows alone and at most drop what the worker holds.
LEMMA DropInv ==
  ASSUME OutboxWorkerIInv, NEW w \in Workers,
         \/ Start(w) \/ WorkerStop(w) \/ StopReturns(w) \/ WorkerCrash(w)
         \/ ClaimFails(w) \/ PublishBegins(w)
  PROVE  OutboxWorkerIInv'
<1> USE DEF OutboxWorkerIInv, rows
<1>1. UNCHANGED rows /\ UNCHANGED delivered
  BY DEF Start, WorkerStop, StopReturns, WorkerCrash, ClaimFails, PublishBegins
<1>2. \/ UNCHANGED locked
      \/ locked' = [locked EXCEPT ![w] = {}]
  BY DEF Start, WorkerStop, StopReturns, WorkerCrash, ClaimFails, PublishBegins
<1>3. \/ UNCHANGED batch
      \/ batch' = [batch EXCEPT ![w] = {}]
  BY DEF Start, WorkerStop, StopReturns, WorkerCrash, ClaimFails, PublishBegins
<1>4. \A v \in Workers : locked'[v] \subseteq locked[v] /\ batch'[v] \subseteq batch[v]
  BY Zenon, <1>2, <1>3 DEF OutboxWorkerTypeOK
<1>5. OutboxWorkerTypeOK'
  <2>1. /\ up' \in [Workers -> BOOLEAN]
        /\ workerPc' \in [Workers -> {"down", "idle", "claim", "next", "publish",
                                "succeeded", "failed"}]
    BY Zenon DEF OutboxWorkerTypeOK, Start, WorkerStop, StopReturns, WorkerCrash, ClaimFails, PublishBegins
  <2>2. workerFaults' \in 0..MaxWorkerFaults
    BY OutboxWorkerConstants DEF OutboxWorkerTypeOK, Start, WorkerStop, StopReturns, WorkerCrash,
                               ClaimFails, PublishBegins, WorkerFault
  <2>3. errs' \in [Workers -> 0..(ErrLimit + 1)]
    <3>1. 0 \in 0..(ErrLimit + 1)
      BY OutboxWorkerConstants
    <3>2. (IF errs[w] <= ErrLimit THEN errs[w] + 1 ELSE errs[w]) \in 0..(ErrLimit + 1)
      BY OutboxWorkerConstants DEF OutboxWorkerTypeOK
    <3> QED BY <3>1, <3>2 DEF OutboxWorkerTypeOK, Start, WorkerStop, StopReturns, WorkerCrash,
                              ClaimFails, PublishBegins
  <2> QED BY Zenon, <1>1, <1>2, <1>3, <2>1, <2>2, <2>3 DEF OutboxWorkerTypeOK
<1>6. ExclusiveClaim'
  BY <1>4 DEF ExclusiveClaim, HeldBy
<1>7. ClaimIsCurrent' /\ CompletedIsDelivered'
  BY <1>1, <1>4 DEF ClaimIsCurrent, CompletedIsDelivered
<1>8. LockedIsWaiting'
  <2>1. \A v \in Workers : \A e \in locked'[v] : status'[e] \in {"pending", "failed"}
    BY <1>1, <1>4 DEF LockedIsWaiting
  <2>2. \A v \in Workers : workerPc'[v] # "claim" => locked'[v] = {}
    <3>1. CASE Start(w) \/ WorkerStop(w) \/ StopReturns(w) \/ PublishBegins(w)
      BY Zenon, <3>1 DEF OutboxWorkerTypeOK, LockedIsWaiting, Start, WorkerStop, StopReturns, PublishBegins
    <3>2. CASE WorkerCrash(w) \/ ClaimFails(w)
      BY <3>2 DEF OutboxWorkerTypeOK, LockedIsWaiting, WorkerCrash, ClaimFails
    <3> QED BY <3>1, <3>2
  <2>3. \A v \in Workers : workerPc'[v] \in {"down", "idle", "claim"} => batch'[v] = {}
    <3>1. CASE Start(w) \/ WorkerStop(w) \/ StopReturns(w) \/ PublishBegins(w)
      BY Zenon, <3>1 DEF OutboxWorkerTypeOK, LockedIsWaiting, Start, WorkerStop, StopReturns, PublishBegins
    <3>2. CASE WorkerCrash(w) \/ ClaimFails(w)
      BY <3>2 DEF OutboxWorkerTypeOK, LockedIsWaiting, WorkerCrash, ClaimFails
    <3> QED BY <3>1, <3>2
  <2> QED BY <2>1, <2>2, <2>3 DEF LockedIsWaiting
<1>9. SucceededIsDelivered'
  BY <1>1 DEF OutboxWorkerTypeOK, SucceededIsDelivered, Current, Start, WorkerStop, StopReturns,
              WorkerCrash, ClaimFails, PublishBegins
<1> QED BY <1>5, <1>6, <1>7, <1>8, <1>9

\* The locking SELECT of a claim preserves it.
LEMMA ClaimSelectsInv ==
  ASSUME OutboxWorkerIInv, NEW w \in Workers, ClaimSelects(w)
  PROVE  OutboxWorkerIInv'
<1> USE DEF OutboxWorkerIInv, rows
<1>1. PICK B \in SUBSET Selectable(w) : locked' = [locked EXCEPT ![w] = B]
  BY Zenon DEF ClaimSelects
<1>2. /\ workerPc[w] = "idle" /\ workerPc' = [workerPc EXCEPT ![w] = "claim"]
      /\ UNCHANGED <<status, retryCount, nextRetry, up, batch, errs, delivered,
                     workerFaults>>
  BY DEF ClaimSelects
<1>3. \A e \in B : e \in Ids /\ status[e] \in {"pending", "failed"}
  BY DEF Selectable, Eligible
<1>4. OutboxWorkerTypeOK'
  BY <1>1, <1>2, <1>3 DEF OutboxWorkerTypeOK
<1>5. ExclusiveClaim'
  <2>1. \A v \in Workers \ {w} : B \cap locked[v] = {}
    BY DEF Selectable
  <2>2. \A v \in Workers : \A c \in batch[v] : c.id \notin B
    BY <1>3 DEF ClaimIsCurrent
  <2>3. batch[w] = {}
    BY <1>2 DEF LockedIsWaiting
  <2>4. \A v \in Workers : HeldBy(v)' = IF v = w THEN B ELSE HeldBy(v)
    BY <1>1, <1>2, <2>3 DEF HeldBy, OutboxWorkerTypeOK
  <2>5. \A v \in Workers \ {w} : HeldBy(v) \cap B = {}
    BY <2>1, <2>2 DEF HeldBy
  <2> QED BY <2>4, <2>5 DEF ExclusiveClaim
<1>6. ClaimIsCurrent' /\ CompletedIsDelivered'
  BY <1>2 DEF ClaimIsCurrent, CompletedIsDelivered
<1>7. LockedIsWaiting'
  BY <1>1, <1>2, <1>3 DEF OutboxWorkerTypeOK, LockedIsWaiting
<1>8. SucceededIsDelivered'
  BY <1>2 DEF OutboxWorkerTypeOK, SucceededIsDelivered, Current
<1> QED BY <1>4, <1>5, <1>6, <1>7, <1>8

\* The commit of a claim preserves it.
LEMMA ClaimCommitsInv ==
  ASSUME OutboxWorkerIInv, NEW w \in Workers, ClaimCommits(w)
  PROVE  OutboxWorkerIInv'
<1> USE DEF OutboxWorkerIInv
<1> DEFINE New == {[id |-> e, retries |-> retryCount[e]] : e \in locked[w]}
<1>1. /\ status' = [e \in Ids |-> IF e \in locked[w] THEN "processing" ELSE status[e]]
      /\ batch' = [batch EXCEPT ![w] = New]
      /\ locked' = [locked EXCEPT ![w] = {}]
      /\ workerPc[w] = "claim" /\ workerPc' = [workerPc EXCEPT ![w] = "next"]
      /\ UNCHANGED <<retryCount, nextRetry, up, delivered, workerFaults>>
  BY DEF ClaimCommits
<1>2. New \subseteq Claimed
  BY DEF OutboxWorkerTypeOK, Claimed
<1>3. \A c \in New : c.id \in locked[w] /\ c.retries = retryCount[c.id]
  OBVIOUS
<1>4. OutboxWorkerTypeOK'
  <2>1. errs' \in [Workers -> 0..(ErrLimit + 1)]
    <3>1. 0 \in 0..(ErrLimit + 1)
      BY OutboxWorkerConstants
    <3> QED BY <3>1 DEF ClaimCommits, OutboxWorkerTypeOK
  <2>2. status' \in [Ids -> Status]
    BY <1>1 DEF OutboxWorkerTypeOK, Status
  <2> HIDE DEF New
  <2> QED BY Zenon, <1>1, <1>2, <2>1, <2>2 DEF OutboxWorkerTypeOK
<1>5. ExclusiveClaim'
  <2>1. \A v \in Workers : HeldBy(v)' \subseteq HeldBy(v)
    <3> SUFFICES ASSUME NEW v \in Workers PROVE HeldBy(v)' \subseteq HeldBy(v)
      OBVIOUS
    <3>1. CASE v = w
      <4> HIDE DEF New
      <4>1. locked'[v] = {} /\ batch'[v] = New
        BY <1>1, <3>1 DEF OutboxWorkerTypeOK
      <4> QED BY <1>3, <3>1, <4>1 DEF HeldBy
    <3>2. CASE v # w
      BY <1>1, <3>2 DEF HeldBy, OutboxWorkerTypeOK
    <3> QED BY <3>1, <3>2
  <2> QED BY <2>1 DEF ExclusiveClaim
<1>6. ClaimIsCurrent'
  <2> SUFFICES ASSUME NEW v \in Workers, NEW c \in batch'[v]
               PROVE  status'[c.id] = "processing" /\ retryCount'[c.id] = c.retries
    BY DEF ClaimIsCurrent
  <2> HIDE DEF New
  <2>1. CASE v = w
    <3>1. c \in New
      BY <1>1, <2>1 DEF OutboxWorkerTypeOK
    <3>2. c.id \in locked[w] /\ c.id \in Ids /\ c.retries = retryCount[c.id]
      BY <1>3, <3>1 DEF OutboxWorkerTypeOK
    <3> QED BY <1>1, <3>2
  <2>2. CASE v # w
    <3>1. c \in batch[v]
      BY <1>1, <2>2 DEF OutboxWorkerTypeOK
    <3> QED BY <1>1, <3>1, ClaimedType DEF ClaimIsCurrent
  <2> QED BY <2>1, <2>2
<1>7. CompletedIsDelivered'
  BY <1>1 DEF CompletedIsDelivered
<1>8. LockedIsWaiting'
  <2> SUFFICES ASSUME NEW v \in Workers
               PROVE  /\ \A e \in locked'[v] : status'[e] \in {"pending", "failed"}
                      /\ workerPc'[v] # "claim" => locked'[v] = {}
                      /\ workerPc'[v] \in {"down", "idle", "claim"} => batch'[v] = {}
    BY DEF LockedIsWaiting
  <2> HIDE DEF New
  <2>1. CASE v = w
    BY <1>1, <2>1 DEF OutboxWorkerTypeOK
  <2>2. CASE v # w
    <3>1. locked'[v] = locked[v] /\ batch'[v] = batch[v] /\ workerPc'[v] = workerPc[v]
      BY <1>1, <2>2 DEF OutboxWorkerTypeOK
    <3>2. \A e \in locked[v] : e \in Ids /\ e \notin locked[w]
      BY <2>2 DEF ExclusiveClaim, HeldBy, OutboxWorkerTypeOK
    <3> QED BY <1>1, <3>1, <3>2 DEF LockedIsWaiting
  <2> QED BY <2>1, <2>2
<1>9. SucceededIsDelivered'
  <2> HIDE DEF New
  <2> QED BY <1>1 DEF OutboxWorkerTypeOK, SucceededIsDelivered, Current
<1> QED BY <1>4, <1>5, <1>6, <1>7, <1>8, <1>9

\* The answer of the publisher preserves it.
LEMMA PublishInv ==
  ASSUME OutboxWorkerIInv, NEW w \in Workers, NEW c \in batch[w],
         PublishSucceeds(w, c) \/ PublishFails(w, c)
  PROVE  OutboxWorkerIInv'
<1> USE DEF OutboxWorkerIInv, rows
<1>1. /\ workerPc[w] = "publish" /\ Current(w, c)
      /\ UNCHANGED <<status, retryCount, nextRetry, locked, up, batch, errs, workerFaults>>
  BY DEF PublishSucceeds, PublishFails
<1>2. delivered \subseteq delivered' /\ delivered' \subseteq Ids
  BY Zenon, ClaimedType DEF OutboxWorkerTypeOK, PublishSucceeds, PublishFails
<1>3. \/ workerPc' = [workerPc EXCEPT ![w] = "succeeded"] /\ c.id \in delivered'
      \/ workerPc' = [workerPc EXCEPT ![w] = "failed"]
  BY DEF PublishSucceeds, PublishFails
<1>4. OutboxWorkerTypeOK'
  BY Zenon, <1>1, <1>2, <1>3 DEF OutboxWorkerTypeOK
<1>5. ExclusiveClaim'
  BY <1>1 DEF ExclusiveClaim, HeldBy
<1>6. ClaimIsCurrent' /\ CompletedIsDelivered'
  BY <1>1, <1>2 DEF ClaimIsCurrent, CompletedIsDelivered
<1>7. LockedIsWaiting'
  BY Zenon, <1>1, <1>3 DEF OutboxWorkerTypeOK, LockedIsWaiting
<1>8. SucceededIsDelivered'
  <2> SUFFICES ASSUME NEW v \in Workers, NEW d \in batch[v],
                      workerPc'[v] = "succeeded", Current(v, d)
               PROVE  d.id \in delivered'
    BY <1>1 DEF SucceededIsDelivered, Current
  <2>1. CASE v = w
    <3>1. d.id = c.id
      <4>1. d.id \in Int /\ c.id \in Int
        BY ClaimedType DEF Ids
      <4> QED BY <1>1, <2>1, <4>1 DEF Current
    <3> QED BY <1>3, <2>1, <3>1 DEF OutboxWorkerTypeOK
  <2>2. CASE v # w
    BY Zenon, <1>2, <1>3, <2>2 DEF OutboxWorkerTypeOK, SucceededIsDelivered
  <2> QED BY <2>1, <2>2
<1> QED BY <1>4, <1>5, <1>6, <1>7, <1>8

\* Recording an outcome touches one row, and nobody else holds that row.
LEMMA RecordInv ==
  ASSUME OutboxWorkerIInv, NEW w \in Workers, NEW c \in batch[w],
         markCompleted(w, c) \/ handleFailure(w, c)
  PROVE  OutboxWorkerIInv'
<1> USE DEF OutboxWorkerIInv, rows
<1>1. Current(w, c) /\ workerPc[w] \in {"succeeded", "failed"} /\ Done(w, c)
  BY DEF markCompleted, handleFailure
<1>2. UNCHANGED <<locked, up, errs, delivered>>
  BY DEF markCompleted, handleFailure
<1>3. /\ c.id \in Ids /\ c.retries \in 0..MaxRetries
      /\ status[c.id] = "processing" /\ retryCount[c.id] = c.retries
  BY ClaimedType DEF ClaimIsCurrent
<1>4. \/ UNCHANGED status
      \/ status' = [status EXCEPT ![c.id] = "failed"]
      \/ status' = [status EXCEPT ![c.id] = "completed"] /\ workerPc[w] = "succeeded"
  BY DEF markCompleted, handleFailure
<1>5. \/ UNCHANGED retryCount
      \/ \E n \in 0..MaxRetries : retryCount' = [retryCount EXCEPT ![c.id] = n]
  <2>1. (IF c.retries < MaxRetries THEN c.retries + 1 ELSE MaxRetries) \in 0..MaxRetries
    BY <1>3, OutboxWorkerConstants
  <2> QED BY <2>1 DEF markCompleted, handleFailure
<1>6. \A v \in Workers : \A d \in batch'[v] :
        d \in batch[v] /\ d.id \in Ids /\ d.id # c.id
  <2> SUFFICES ASSUME NEW v \in Workers, NEW d \in batch'[v]
               PROVE  d \in batch[v] /\ d.id \in Ids /\ d.id # c.id
    OBVIOUS
  <2>1. d \in batch[v] /\ (v = w => d # c)
    BY <1>1 DEF Done, OutboxWorkerTypeOK
  <2>2. d \in Claimed /\ c \in Claimed
    BY <2>1 DEF OutboxWorkerTypeOK
  <2>3. CASE v = w
    <3>1. d.id = c.id => d.retries = c.retries
      BY <2>1, <2>3 DEF ClaimIsCurrent
    <3> QED BY <2>1, <2>2, <2>3, <3>1 DEF Claimed
  <2>4. CASE v # w
    BY <2>1, <2>2, <2>4 DEF ExclusiveClaim, HeldBy, Claimed
  <2> QED BY <2>3, <2>4
<1>7. \A v \in Workers : \A e \in locked[v] : e \in Ids /\ e # c.id
  BY <1>3 DEF LockedIsWaiting, OutboxWorkerTypeOK
<1>8. OutboxWorkerTypeOK'
  <2>1. status' \in [Ids -> Status]
    BY Zenon, <1>4 DEF OutboxWorkerTypeOK, Status
  <2>2. retryCount' \in [Ids -> 0..MaxRetries]
    BY <1>5 DEF OutboxWorkerTypeOK
  <2>3. nextRetry' \in [Ids -> {"null", "future", "past"}]
    BY DEF OutboxWorkerTypeOK, markCompleted, handleFailure
  <2>4. workerFaults' \in 0..MaxWorkerFaults
    BY OutboxWorkerConstants DEF OutboxWorkerTypeOK, markCompleted, handleFailure, WorkerFault
  <2>5. /\ batch' \in [Workers -> SUBSET Claimed]
        /\ workerPc' \in [Workers -> {"down", "idle", "claim", "next", "publish",
                                "succeeded", "failed"}]
    BY <1>1 DEF OutboxWorkerTypeOK, Done
  <2> QED BY <1>2, <2>1, <2>2, <2>3, <2>4, <2>5 DEF OutboxWorkerTypeOK
<1>9. ExclusiveClaim'
  BY <1>2, <1>6 DEF ExclusiveClaim, HeldBy
<1>10. ClaimIsCurrent'
  <2> SUFFICES ASSUME NEW v \in Workers, NEW d \in batch'[v]
               PROVE  status'[d.id] = "processing" /\ retryCount'[d.id] = d.retries
    BY DEF ClaimIsCurrent
  <2>1. d \in batch[v] /\ d.id \in Ids /\ d.id # c.id
    BY <1>6
  <2>2. status'[d.id] = status[d.id]
    BY Zenon, <1>4, <2>1 DEF OutboxWorkerTypeOK
  <2>3. retryCount'[d.id] = retryCount[d.id]
    BY Zenon, <1>5, <2>1 DEF OutboxWorkerTypeOK
  <2> QED BY <2>1, <2>2, <2>3 DEF ClaimIsCurrent
<1>11. CompletedIsDelivered'
  <2>1. workerPc[w] = "succeeded" => c.id \in delivered
    BY <1>1 DEF SucceededIsDelivered
  <2> QED BY Zenon, <1>2, <1>4, <2>1 DEF OutboxWorkerTypeOK, CompletedIsDelivered
<1>12. LockedIsWaiting'
  <2>1. \A v \in Workers : \A e \in locked'[v] : status'[e] \in {"pending", "failed"}
    <3> SUFFICES ASSUME NEW v \in Workers, NEW e \in locked[v]
                 PROVE  status'[e] \in {"pending", "failed"}
      BY <1>2
    <3>1. status'[e] = status[e]
      BY Zenon, <1>4, <1>7 DEF OutboxWorkerTypeOK
    <3> QED BY <3>1 DEF LockedIsWaiting
  <2>2. \A v \in Workers : workerPc'[v] # "claim" => locked'[v] = {}
    BY <1>1, <1>2 DEF OutboxWorkerTypeOK, LockedIsWaiting, Done
  <2>3. \A v \in Workers : workerPc'[v] \in {"down", "idle", "claim"} => batch'[v] = {}
    BY <1>1 DEF OutboxWorkerTypeOK, LockedIsWaiting, Done
  <2> QED BY <2>1, <2>2, <2>3 DEF LockedIsWaiting
<1>13. SucceededIsDelivered'
  BY <1>1, <1>2 DEF OutboxWorkerTypeOK, SucceededIsDelivered, Current, Done
<1> QED BY <1>8, <1>9, <1>10, <1>11, <1>12, <1>13

\* Every step preserves it.
LEMMA NextInv == OutboxWorkerIInv /\ [OutboxWorkerNext]_outboxWorkerVars => OutboxWorkerIInv'
<1> SUFFICES ASSUME OutboxWorkerIInv, OutboxWorkerNext PROVE OutboxWorkerIInv'
  BY StutterInv
<1>1. CASE \E e \in Ids : StoreRow(e) \/ RetryFallsDue(e)
  BY <1>1, RowInv
<1>2. CASE \E w \in Workers :
             \/ Start(w) \/ WorkerStop(w) \/ StopReturns(w) \/ WorkerCrash(w)
             \/ ClaimFails(w) \/ PublishBegins(w)
  BY <1>2, DropInv
<1>3. CASE \E w \in Workers : ClaimSelects(w) \/ ClaimCommits(w)
  BY <1>3, ClaimSelectsInv, ClaimCommitsInv
<1>4. CASE \E w \in Workers : \E c \in batch[w] : Outcome(w, c)
  BY <1>4, PublishInv, RecordInv DEF Outcome
<1> QED BY <1>1, <1>2, <1>3, <1>4 DEF OutboxWorkerNext

\* The inductive invariant holds in every reachable state of the workers.
THEOREM Invariance == OutboxWorkerSpec => []OutboxWorkerIInv
  BY InitInv, NextInv, PTL DEF OutboxWorkerSpec

\* claimBatch: two workers never hold the same row.
THEOREM ClaimsAreExclusive == OutboxWorkerSpec => []ExclusiveClaim
<1>1. OutboxWorkerIInv => ExclusiveClaim
  BY DEF OutboxWorkerIInv
<1> QED BY <1>1, Invariance, PTL

\* handleFailure and markCompleted act on a row that is still the claimed one.
THEOREM ClaimsAreCurrent == OutboxWorkerSpec => []ClaimIsCurrent
<1>1. OutboxWorkerIInv => ClaimIsCurrent
  BY DEF OutboxWorkerIInv
<1> QED BY <1>1, Invariance, PTL

\* markCompleted is reached only after Publish returned nil.
THEOREM CompletedDelivered == OutboxWorkerSpec => []CompletedIsDelivered
<1>1. OutboxWorkerIInv => CompletedIsDelivered
  BY DEF OutboxWorkerIInv
<1> QED BY <1>1, Invariance, PTL

\* No step of any worker takes a completed row out of that status.
THEOREM CompletedFinal == OutboxWorkerSpec => CompletedIsFinal
<1>1. ASSUME OutboxWorkerIInv, OutboxWorkerNext, NEW e \in Ids, status[e] = "completed"
      PROVE  status'[e] = "completed"
  <2> USE DEF OutboxWorkerIInv, rows
  <2>1. CASE UNCHANGED status
    BY <1>1, <2>1
  <2>2. CASE \E f \in Ids : StoreRow(f)
    BY <1>1, <2>2 DEF StoreRow, OutboxWorkerTypeOK
  <2>3. CASE \E w \in Workers : ClaimCommits(w)
    BY <1>1, <2>3 DEF ClaimCommits, LockedIsWaiting
  <2>4. ASSUME NEW w \in Workers, NEW c \in batch[w],
               markCompleted(w, c) \/ handleFailure(w, c)
        PROVE  status'[e] = "completed"
    <3>1. c.id # e
      BY <1>1 DEF ClaimIsCurrent
    <3> QED BY Zenon, <1>1, <2>4, <3>1 DEF markCompleted, handleFailure, OutboxWorkerTypeOK
  <2>5. OutboxWorkerNext => \/ UNCHANGED status
                            \/ \E f \in Ids : StoreRow(f)
                            \/ \E w \in Workers : ClaimCommits(w)
                            \/ \E w \in Workers : \E c \in batch[w] :
                                 markCompleted(w, c) \/ handleFailure(w, c)
    BY DEF OutboxWorkerNext, RetryFallsDue, Start, WorkerStop, StopReturns, WorkerCrash, ClaimSelects,
           ClaimFails, PublishBegins, Outcome, PublishSucceeds, PublishFails
  <2> QED BY <1>1, <2>1, <2>2, <2>3, <2>4, <2>5
<1>2. OutboxWorkerIInv /\ [OutboxWorkerNext]_outboxWorkerVars =>
        [\A e \in Ids : status[e] = "completed" => status'[e] = "completed"]_outboxWorkerVars
  BY <1>1
<1> QED BY <1>2, Invariance, PTL DEF OutboxWorkerSpec, CompletedIsFinal

=============================================================================
