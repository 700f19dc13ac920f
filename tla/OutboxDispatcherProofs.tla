----------------------- MODULE OutboxDispatcherProofs -----------------------
(***************************************************************************)
(* Proofs about OutboxDispatcher, for every set of publishers, every number *)
(* of events, batch size, retry limit and number of faults.                 *)
(***************************************************************************)
EXTENDS OutboxDispatcher, TLAPS

USE DEF Ids

\* The initial state satisfies the inductive invariant.
LEMMA InitInv == Init => IInv
<1> SUFFICES ASSUME Init PROVE IInv
  OBVIOUS
<1>1. TypeOK
  <2>1. status \in [Ids -> Status] /\ pc \in [Publishers -> {"idle", "publish", "mark", "commit"}]
    BY DEF Init, Status
  <2>2. cursor \in [Publishers -> 0..MaxId]
    BY ConstantsAssumption DEF Init
  <2>2a. failCount \in [Publishers -> 0..(MaxRetries - 1)]
    BY ConstantsAssumption DEF Init
  <2>2b. faults \in 0..MaxFaults
    BY ConstantsAssumption DEF Init
  <2>3. batch \in [Publishers -> SUBSET Ids] /\ backoff \in [Publishers -> BOOLEAN] /\ reached \in [Publishers -> BOOLEAN]
    BY DEF Init
  <2>4. running \in BOOLEAN /\ alive \in BOOLEAN
    BY Zenon DEF Init
  <2>5. late \subseteq Publishers \X Ids /\ delivered \subseteq Publishers \X Ids
    BY DEF Init
  <2> QED BY <2>1, <2>2, <2>2a, <2>2b, <2>3, <2>4, <2>5 DEF TypeOK
<1>2. BatchAhead /\ MarkedIsDelivered /\ ReachedStillHolds
  BY DEF Init, BatchAhead, MarkedIsDelivered, ReachedStillHolds
<1>3. CompletedMeansReached /\ ProgressIsDelivered /\ BackoffCountsFailures
  BY DEF Init, CompletedMeansReached, ProgressIsDelivered, BackoffCountsFailures
<1> QED BY <1>1, <1>2, <1>3 DEF IInv

\* A step that changes nothing preserves it.
LEMMA StutterInv == IInv /\ UNCHANGED vars => IInv'
  BY DEF IInv, vars, TypeOK, BatchAhead, MarkedIsDelivered, ReachedStillHolds,
         CompletedMeansReached, ProgressIsDelivered, BackoffCountsFailures,
         Current

\* Steps on rows that no drain takes part in.
LEMMA RowInv ==
  ASSUME IInv, NEW e \in Ids,
         Store(e) \/ RequeueEvent(e) \/ DeleteCompletedEvents(e)
  PROVE  IInv'
<1> USE DEF IInv, drain
<1>1. TypeOK'
  BY ConstantsAssumption
     DEF TypeOK, Store, RequeueEvent, DeleteCompletedEvents, Status, Fault
<1>2. BatchAhead'
  BY Zenon DEF TypeOK, BatchAhead, Store, RequeueEvent, DeleteCompletedEvents
<1>3. MarkedIsDelivered' /\ ReachedStillHolds'
  BY DEF MarkedIsDelivered, ReachedStillHolds, Current, Store, RequeueEvent,
         DeleteCompletedEvents
<1>4. CompletedMeansReached'
  BY Zenon DEF TypeOK, CompletedMeansReached, Store, RequeueEvent, DeleteCompletedEvents
<1>5. ProgressIsDelivered' /\ BackoffCountsFailures'
  BY DEF ProgressIsDelivered, BackoffCountsFailures, Store, RequeueEvent,
         DeleteCompletedEvents
<1> QED BY <1>1, <1>2, <1>3, <1>4, <1>5

\* Start, Stop and Crash leave the tables alone and at most clear the drains.
LEMMA LifecycleInv ==
  ASSUME IInv, Start \/ StartFails \/ Stop \/ StopReturns \/ Crash
  PROVE  IInv'
<1> USE DEF IInv, drain, db
<1>1. UNCHANGED drain \/ ClearDrains
  BY DEF Start, StartFails, Stop, StopReturns, Crash
<1>2. UNCHANGED db /\ UNCHANGED delivered
  BY DEF Start, StartFails, Stop, StopReturns, Crash
<1>3. TypeOK'
  <2>1. late' \subseteq Publishers \X Ids
    BY DEF TypeOK, Start, StartFails, Stop, StopReturns, Crash
  <2>2. running' \in BOOLEAN /\ alive' \in BOOLEAN
    BY Zenon DEF TypeOK, Start, StartFails, Stop, StopReturns, Crash
  <2>3. faults' \in 0..MaxFaults
    BY ConstantsAssumption
       DEF TypeOK, Start, StartFails, Stop, StopReturns, Crash, Fault
  <2>4. CASE UNCHANGED drain
    BY <1>2, <2>1, <2>2, <2>3, <2>4 DEF TypeOK
  <2>5. CASE ClearDrains
    <3>1. 0 \in 0..(MaxRetries - 1)
      BY ConstantsAssumption
    <3> QED BY <1>2, <2>1, <2>2, <2>3, <2>5, <3>1 DEF TypeOK, ClearDrains
  <2> QED BY <1>1, <2>4, <2>5
<1>4. BatchAhead' /\ MarkedIsDelivered' /\ ReachedStillHolds'
  BY <1>1, <1>2 DEF BatchAhead, MarkedIsDelivered, ReachedStillHolds, Current,
                    ClearDrains
<1>5. CompletedMeansReached' /\ ProgressIsDelivered' /\ BackoffCountsFailures'
  BY <1>1, <1>2 DEF CompletedMeansReached, ProgressIsDelivered,
                    BackoffCountsFailures, ClearDrains
<1> QED BY <1>3, <1>4, <1>5

\* A drain that fetches a batch preserves it.
LEMMA DrainFetchInv ==
  ASSUME IInv, NEW p \in Publishers, DrainFetch(p)
  PROVE  IInv'
<1> USE DEF IInv, db
<1>1. PICK B \in SUBSET Ids :
        /\ B \subseteq PendingEventsFor(p)
        /\ batch' = [batch EXCEPT ![p] = B]
  BY Zenon DEF DrainFetch, GetPendingEventsForPublisher
<1>2. pc' = [pc EXCEPT ![p] = "publish"]
  BY DEF DrainFetch
<1>3. UNCHANGED <<status, cursor, running, alive, failCount, backoff, reached,
                  late, delivered, faults>>
  BY DEF DrainFetch
<1>4. TypeOK'
  BY <1>1, <1>2, <1>3 DEF TypeOK
<1>5. BatchAhead'
  BY <1>1, <1>3 DEF TypeOK, BatchAhead, PendingEventsFor
<1>6. MarkedIsDelivered' /\ ReachedStillHolds'
  BY Zenon, <1>1, <1>2, <1>3 DEF TypeOK, MarkedIsDelivered, ReachedStillHolds, Current
<1>7. CompletedMeansReached' /\ ProgressIsDelivered' /\ BackoffCountsFailures'
  BY <1>3 DEF CompletedMeansReached, ProgressIsDelivered, BackoffCountsFailures
<1> QED BY <1>4, <1>5, <1>6, <1>7

\* The end of a backoff preserves it.
LEMMA BackoffExpiresInv ==
  ASSUME IInv, NEW p \in Publishers, BackoffExpires(p)
  PROVE  IInv'
<1> USE DEF IInv, db, BackoffExpires
<1>1. TypeOK'
  BY DEF TypeOK
<1>2. BatchAhead' /\ MarkedIsDelivered' /\ ReachedStillHolds'
  BY DEF BatchAhead, MarkedIsDelivered, ReachedStillHolds, Current
<1>3. CompletedMeansReached' /\ ProgressIsDelivered' /\ BackoffCountsFailures'
  BY DEF TypeOK, CompletedMeansReached, ProgressIsDelivered, BackoffCountsFailures
<1> QED BY <1>1, <1>2, <1>3

\* A delivery that arrives after its timeout preserves it.
LEMMA LatePublishArrivesInv ==
  ASSUME IInv, NEW p \in Publishers, NEW e \in Ids, LatePublishArrives(p, e)
  PROVE  IInv'
<1> USE DEF IInv, db, drain, LatePublishArrives
<1>1. TypeOK'
  BY DEF TypeOK
<1>2. BatchAhead' /\ MarkedIsDelivered' /\ ReachedStillHolds'
  BY DEF BatchAhead, MarkedIsDelivered, ReachedStillHolds, Current
<1>3. CompletedMeansReached' /\ ProgressIsDelivered' /\ BackoffCountsFailures'
  BY DEF CompletedMeansReached, ProgressIsDelivered, BackoffCountsFailures
<1> QED BY <1>1, <1>2, <1>3

\* A successful publish preserves it.
LEMMA PublishSucceedsInv ==
  ASSUME IInv, NEW p \in Publishers, NEW e \in Ids, PublishSucceeds(p, e)
  PROVE  IInv'
<1> USE DEF IInv, db, PublishSucceeds
<1>1. TypeOK'
  <2>1. failCount' \in [Publishers -> 0..(MaxRetries - 1)]
    BY ConstantsAssumption DEF TypeOK
  <2> QED BY <2>1 DEF TypeOK
<1>2. BatchAhead' /\ ReachedStillHolds'
  BY Zenon DEF TypeOK, BatchAhead, ReachedStillHolds, Current
<1>3. MarkedIsDelivered'
  <2>1. \A f \in Ids : Current(p, f) => f = e
    BY DEF Publishing, Current
  <2> QED BY <2>1 DEF TypeOK, MarkedIsDelivered, Current
<1>4. CompletedMeansReached' /\ ProgressIsDelivered' /\ BackoffCountsFailures'
  BY DEF TypeOK, CompletedMeansReached, ProgressIsDelivered, BackoffCountsFailures
<1> QED BY <1>1, <1>2, <1>3, <1>4

\* A publish that ends in an error or a timeout: the loop goes on, and the
\* event is at most dead-lettered.
LEMMA PublishErrorInv ==
  ASSUME IInv, NEW p \in Publishers, NEW e \in Ids,
         PublishFails(p, e) \/ PublishTimesOut(p, e)
  PROVE  IInv'
<1> USE DEF IInv
<1>1. UNCHANGED <<cursor, running, alive, reached>>
  BY DEF PublishFails, PublishTimesOut
<1>2. Advance(p, e)
  BY DEF PublishFails, PublishTimesOut
<1>3. /\ delivered \subseteq delivered' /\ delivered' \subseteq Publishers \X Ids
      /\ late' \subseteq Publishers \X Ids
  BY DEF TypeOK, PublishFails, PublishTimesOut
<1>4. PermanentError(p, e) \/ RetryableError(p, e)
  BY DEF PublishFails, PublishTimesOut
<1>5. status' = status \/ status' = SetStatus(e, "failed")
  BY <1>4 DEF PermanentError, RetryableError, UpdateStatus
<1>6. faults' \in 0..MaxFaults
  BY <1>4, ConstantsAssumption
     DEF TypeOK, PermanentError, RetryableError, UpdateStatus, Fault
<1>7. /\ failCount' \in [Publishers -> 0..(MaxRetries - 1)]
      /\ backoff' \in [Publishers -> BOOLEAN]
      /\ BackoffCountsFailures'
  <2>1. CASE UNCHANGED <<failCount, backoff>>
    BY <2>1 DEF TypeOK, BackoffCountsFailures
  <2>2. CASE /\ failCount' = [failCount EXCEPT ![p] = 0]
             /\ backoff' = [backoff EXCEPT ![p] = FALSE]
    <3>1. 0 \in 0..(MaxRetries - 1)
      BY ConstantsAssumption
    <3> QED BY <2>2, <3>1 DEF TypeOK, BackoffCountsFailures
  <2>3. CASE /\ failCount' = [failCount EXCEPT ![p] = @ + 1]
             /\ backoff' = [backoff EXCEPT ![p] = TRUE]
             /\ ~(failCount[p] + 1 >= MaxRetries)
    <3>1. failCount[p] + 1 \in 1..(MaxRetries - 1)
      BY <2>3, ConstantsAssumption DEF TypeOK
    <3>2. failCount[p] + 1 \in 0..(MaxRetries - 1)
      BY <3>1, ConstantsAssumption
    <3> QED BY <2>3, <3>1, <3>2 DEF TypeOK, BackoffCountsFailures
  <2> QED BY <1>4, <2>1, <2>2, <2>3 DEF PermanentError, RetryableError
<1>9. TypeOK'
  <2>1. status' \in [Ids -> Status]
    BY <1>5 DEF TypeOK, SetStatus, Status
  <2>2. /\ pc' \in [Publishers -> {"idle", "publish", "mark", "commit"}]
        /\ batch' \in [Publishers -> SUBSET Ids]
    BY <1>2 DEF TypeOK, Advance
  <2> QED BY <1>1, <1>3, <1>6, <1>7, <2>1, <2>2 DEF TypeOK
<1>10. BatchAhead'
  BY Zenon, <1>1, <1>2, <1>5 DEF TypeOK, BatchAhead, Advance, SetStatus, Stored
<1>11. MarkedIsDelivered' /\ ReachedStillHolds'
  BY <1>1, <1>2, <1>3
     DEF TypeOK, MarkedIsDelivered, ReachedStillHolds, Current, Advance
<1>12. CompletedMeansReached'
  BY Zenon, <1>1, <1>5 DEF TypeOK, CompletedMeansReached, SetStatus
<1>13. ProgressIsDelivered'
  BY <1>1, <1>3 DEF ProgressIsDelivered
<1> QED BY <1>7, <1>9, <1>10, <1>11, <1>12, <1>13

\* The end of a drain preserves it.
LEMMA DrainReturnsInv ==
  ASSUME IInv, NEW p \in Publishers, NEW e \in Ids, DrainReturns(p, e)
  PROVE  IInv'
<1> USE DEF IInv, db, DrainReturns
<1>1. TypeOK'
  BY DEF TypeOK
<1>2. BatchAhead' /\ MarkedIsDelivered' /\ ReachedStillHolds'
  BY DEF TypeOK, BatchAhead, MarkedIsDelivered, ReachedStillHolds, Current
<1>3. CompletedMeansReached' /\ ProgressIsDelivered' /\ BackoffCountsFailures'
  BY DEF CompletedMeansReached, ProgressIsDelivered, BackoffCountsFailures
<1> QED BY <1>1, <1>2, <1>3

\* Reading the progress rows in MarkPublished preserves it.
LEMMA MarkPublishedReadsInv ==
  ASSUME IInv, NEW p \in Publishers, NEW e \in Ids, MarkPublishedReads(p, e)
  PROVE  IInv'
<1> USE DEF IInv, db, MarkPublishedReads
<1>1. TypeOK'
  BY DEF TypeOK, publisherProgressReached
<1>2. BatchAhead' /\ MarkedIsDelivered'
  BY DEF TypeOK, BatchAhead, MarkedIsDelivered, Current
<1>3. ReachedStillHolds'
  <2> SUFFICES ASSUME NEW q \in Publishers, NEW f \in Ids,
                      pc'[q] = "commit", Current(q, f)', reached'[q]
               PROVE  \A r \in Publishers \ {q} : cursor[r] >= f
    BY DEF ReachedStillHolds
  <2>1. Current(q, f)
    BY DEF Current
  <2>2. CASE q = p
    <3>1. f = e
      BY <2>1, <2>2 DEF Current
    <3>2. publisherProgressReached(p, e)
      BY <2>2 DEF TypeOK
    <3> QED BY <2>2, <3>1, <3>2 DEF publisherProgressReached
  <2>3. CASE q # p
    <3>1. pc[q] = "commit" /\ reached[q]
      BY <2>3 DEF TypeOK
    <3> QED BY <2>1, <3>1 DEF ReachedStillHolds
  <2> QED BY <2>2, <2>3
<1>4. CompletedMeansReached' /\ ProgressIsDelivered' /\ BackoffCountsFailures'
  BY DEF CompletedMeansReached, ProgressIsDelivered, BackoffCountsFailures
<1> QED BY <1>1, <1>2, <1>3, <1>4

\* The step in which an event becomes completed.
LEMMA MarkPublishedCommitsInv ==
  ASSUME IInv, NEW p \in Publishers, NEW e \in Ids, MarkPublishedCommits(p, e)
  PROVE  IInv'
<1> USE DEF IInv
<1>1. Current(p, e) /\ e \in batch[p] /\ pc[p] = "commit"
  BY DEF MarkPublishedCommits, Current
<1>2. cursor[p] < e
  BY <1>1 DEF BatchAhead
<1>3. cursor' = [cursor EXCEPT ![p] = e]
  BY <1>2 DEF MarkPublishedCommits, upsertPublisherProgress, TypeOK
<1>4. status' = IF reached[p] THEN SetStatus(e, "completed") ELSE status
  BY DEF MarkPublishedCommits
<1>5. Advance(p, e)
  BY DEF MarkPublishedCommits
<1>6. UNCHANGED <<running, alive, failCount, backoff, reached, late, delivered,
                  faults>>
  BY DEF MarkPublishedCommits
<1>7. \A q \in Publishers : cursor[q] <= cursor'[q]
  BY <1>2, <1>3 DEF TypeOK
<1>8. TypeOK'
  <2>1. status' \in [Ids -> Status]
    BY <1>4 DEF TypeOK, SetStatus, Status
  <2>2. cursor' \in [Publishers -> 0..MaxId]
    BY <1>3, ConstantsAssumption DEF TypeOK
  <2>3. /\ pc' \in [Publishers -> {"idle", "publish", "mark", "commit"}]
        /\ batch' \in [Publishers -> SUBSET Ids]
    BY <1>5 DEF TypeOK, Advance
  <2> QED BY <1>6, <2>1, <2>2, <2>3 DEF TypeOK
<1>9. BatchAhead'
  <2> SUFFICES ASSUME NEW q \in Publishers, NEW f \in batch'[q]
               PROVE  cursor'[q] < f /\ status'[f] # "none"
    BY DEF BatchAhead
  <2>1. f \in batch[q] /\ f \in Ids /\ (q = p => f # e)
    BY <1>5 DEF TypeOK, Advance
  <2>2. status'[f] # "none"
    BY <1>4, <2>1 DEF TypeOK, BatchAhead, SetStatus
  <2>3. q = p => e < f
    BY <1>1, <2>1 DEF Current
  <2> QED BY <1>3, <2>1, <2>2, <2>3 DEF TypeOK, BatchAhead
<1>10. MarkedIsDelivered'
  BY <1>5, <1>6 DEF TypeOK, MarkedIsDelivered, Current, Advance
<1>11. ReachedStillHolds'
  <2> SUFFICES ASSUME NEW q \in Publishers, NEW f \in Ids,
                      pc'[q] = "commit", Current(q, f)', reached'[q],
                      NEW r \in Publishers \ {q}
               PROVE  cursor'[r] >= f
    BY DEF ReachedStillHolds
  <2>1. q # p /\ pc[q] = "commit" /\ Current(q, f) /\ reached[q]
    BY <1>5, <1>6 DEF TypeOK, Advance, Current
  <2>2. cursor[r] >= f
    BY <2>1 DEF ReachedStillHolds
  <2>3. cursor[r] \in Int /\ cursor'[r] \in Int
    BY <1>8 DEF TypeOK
  <2> QED BY <1>7, <2>2, <2>3
<1>12. CompletedMeansReached'
  <2> SUFFICES ASSUME NEW f \in Ids, status'[f] = "completed",
                      NEW q \in Publishers
               PROVE  cursor'[q] >= f
    BY DEF CompletedMeansReached
  <2>1. cursor[q] \in Int /\ cursor'[q] \in Int
    BY <1>8 DEF TypeOK
  <2>2. CASE status[f] = "completed"
    BY <1>7, <2>1, <2>2 DEF CompletedMeansReached
  <2>3. CASE status[f] # "completed"
    <3>1. f = e /\ reached[p]
      BY <1>4, <2>3 DEF TypeOK, SetStatus
    <3>2. q # p => cursor[q] >= e
      BY <1>1, <3>1 DEF ReachedStillHolds
    <3> QED BY <1>3, <1>7, <2>1, <3>1, <3>2 DEF TypeOK
  <2> QED BY <2>2, <2>3
<1>13. ProgressIsDelivered'
  BY <1>1, <1>3, <1>6 DEF TypeOK, ProgressIsDelivered, MarkedIsDelivered
<1>14. BackoffCountsFailures'
  BY <1>6 DEF BackoffCountsFailures
<1> QED BY <1>8, <1>9, <1>10, <1>11, <1>12, <1>13, <1>14

\* A MarkPublished that rolls back preserves it.
LEMMA MarkPublishedFailsInv ==
  ASSUME IInv, NEW p \in Publishers, NEW e \in Ids, MarkPublishedFails(p, e)
  PROVE  IInv'
<1> USE DEF IInv, db, MarkPublishedFails
<1>1. TypeOK'
  <2>1. faults' \in 0..MaxFaults
    BY ConstantsAssumption DEF TypeOK, Fault
  <2> QED BY <2>1 DEF TypeOK, Advance
<1>2. BatchAhead'
  BY DEF TypeOK, BatchAhead, Advance
<1>3. MarkedIsDelivered' /\ ReachedStillHolds'
  BY Zenon DEF TypeOK, MarkedIsDelivered, ReachedStillHolds, Current, Advance
<1>4. CompletedMeansReached' /\ ProgressIsDelivered' /\ BackoffCountsFailures'
  BY DEF CompletedMeansReached, ProgressIsDelivered, BackoffCountsFailures
<1> QED BY <1>1, <1>2, <1>3, <1>4

\* Every step preserves it.
LEMMA NextInv == IInv /\ [Next]_vars => IInv'
<1> SUFFICES ASSUME IInv, Next PROVE IInv'
  BY StutterInv
<1>1. CASE \E e \in Ids : Store(e) \/ RequeueEvent(e) \/ DeleteCompletedEvents(e)
  BY <1>1, RowInv
<1>2. CASE Start \/ StartFails \/ Stop \/ StopReturns \/ Crash
  BY <1>2, LifecycleInv
<1>3. CASE \E p \in Publishers : DrainFetch(p) \/ BackoffExpires(p)
  BY <1>3, DrainFetchInv, BackoffExpiresInv
<1>4. CASE \E p \in Publishers, e \in Ids : PublishStep(p, e)
  BY <1>4, PublishSucceedsInv, PublishErrorInv, DrainReturnsInv DEF PublishStep
<1>5. CASE \E p \in Publishers, e \in Ids : MarkStep(p, e)
  BY <1>5, MarkPublishedReadsInv, MarkPublishedCommitsInv, MarkPublishedFailsInv
     DEF MarkStep
<1>6. CASE \E p \in Publishers, e \in Ids : LatePublishArrives(p, e)
  BY <1>6, LatePublishArrivesInv
<1> QED BY <1>1, <1>2, <1>3, <1>4, <1>5, <1>6 DEF Next

\* The inductive invariant holds in every reachable state of the dispatcher.
THEOREM Invariance == Spec => []IInv
  BY InitInv, NextInv, PTL DEF Spec

\* Every variable of the dispatcher keeps its type; in particular the failure
\* count of a publisher stays below MaxRetries.
THEOREM TypeCorrect == Spec => []TypeOK
<1>1. IInv => TypeOK
  BY DEF IInv
<1> QED BY <1>1, Invariance, PTL

\* markPublished completes an event only when every publisher has reached it.
THEOREM CompletedReached == Spec => []CompletedMeansReached
<1>1. IInv => CompletedMeansReached
  BY DEF IInv
<1> QED BY <1>1, Invariance, PTL

\* A progress row names an event that its publisher has delivered.
THEOREM ProgressDelivered == Spec => []ProgressIsDelivered
<1>1. IInv => ProgressIsDelivered
  BY DEF IInv
<1> QED BY <1>1, Invariance, PTL

\* A publisher backs off only after 1 to MaxRetries - 1 failures in a row.
THEOREM BackoffCounts == Spec => []BackoffCountsFailures
<1>1. IInv => BackoffCountsFailures
  BY DEF IInv
<1> QED BY <1>1, Invariance, PTL

\* What a step of the dispatcher does to the two tables: it is a step of the
\* contract or leaves them unchanged.
LEMMA TableStep ==
  ASSUME IInv, [Next]_vars
  PROVE  [Contract!Next]_<<status, cursor>>
<1> USE DEF IInv, Contract!Ids
<1>1. CASE UNCHANGED <<status, cursor>>
  BY <1>1
<1>2. ASSUME NEW e \in Ids,
             Store(e) \/ RequeueEvent(e) \/ DeleteCompletedEvents(e)
      PROVE  Contract!Next
  BY <1>2 DEF Store, RequeueEvent, DeleteCompletedEvents, Contract!Next,
              Contract!Store, Contract!Requeue, Contract!CleanUp, Contract!Move
<1>3. ASSUME NEW p \in Publishers, NEW e \in Ids,
             PublishFails(p, e) \/ PublishTimesOut(p, e), status' # status
      PROVE  Contract!Next
  <2>1. status' = SetStatus(e, "failed") /\ UNCHANGED cursor
    BY <1>3 DEF PublishFails, PublishTimesOut, PermanentError, RetryableError,
                UpdateStatus
  <2>2. status[e] \in Status \ {"none", "deleted"}
    BY Zenon, <1>3, <2>1 DEF TypeOK, SetStatus, Stored
  <2>3. status[e] # "completed"
    <3>1. cursor[p] < e
      BY <1>3 DEF PublishFails, PublishTimesOut, Publishing, Current, BatchAhead
    <3> QED BY <3>1 DEF TypeOK, CompletedMeansReached
  <2>4. Contract!DeadLetter(e)
    BY <2>1, <2>2, <2>3 DEF SetStatus, Stored, Status, Contract!DeadLetter,
                            Contract!Move
  <2> QED BY <2>4 DEF Contract!Next
<1>4. ASSUME NEW p \in Publishers, NEW e \in Ids, MarkPublishedCommits(p, e)
      PROVE  Contract!Next
  <2>1. cursor[p] < e /\ status[e] # "none" /\ pc[p] = "commit" /\ Current(p, e)
    BY <1>4 DEF MarkPublishedCommits, Current, BatchAhead
  <2>2. cursor' = [cursor EXCEPT ![p] = e]
    BY <1>4, <2>1 DEF MarkPublishedCommits, upsertPublisherProgress, TypeOK
  <2>3. status[e] # "completed"
    BY <2>1 DEF TypeOK, CompletedMeansReached
  <2>4. CASE status' = status
    BY Zenon, <2>1, <2>2, <2>4 DEF Contract!Next, Contract!Acknowledge
  <2>5. CASE status' # status
    <3>1. /\ reached[p]
          /\ status' = [status EXCEPT ![e] = "completed"]
          /\ status[e] \in {"pending", "failed"}
      BY <1>4, <2>1, <2>3, <2>5
         DEF MarkPublishedCommits, SetStatus, Stored, TypeOK, Status
    <3>2. \A q \in Publishers : cursor'[q] >= e
      BY <2>1, <2>2, <3>1 DEF ReachedStillHolds, TypeOK
    <3> QED BY Zenon, <2>1, <2>2, <3>1, <3>2 DEF Contract!Next, Contract!Acknowledge
  <2> QED BY <2>4, <2>5
<1>5. CASE Start \/ StartFails \/ Stop \/ StopReturns \/ Crash
  BY <1>1, <1>5 DEF Start, StartFails, Stop, StopReturns, Crash, db
<1>6. ASSUME NEW p \in Publishers, DrainFetch(p) \/ BackoffExpires(p)
      PROVE  UNCHANGED <<status, cursor>>
  BY <1>6 DEF DrainFetch, BackoffExpires, db
<1>7. ASSUME NEW p \in Publishers, NEW e \in Ids,
             \/ PublishSucceeds(p, e) \/ DrainReturns(p, e)
             \/ MarkPublishedReads(p, e) \/ MarkPublishedFails(p, e)
             \/ LatePublishArrives(p, e)
      PROVE  UNCHANGED <<status, cursor>>
  BY <1>7 DEF PublishSucceeds, DrainReturns, MarkPublishedReads,
              MarkPublishedFails, LatePublishArrives, db
<1>8. ASSUME NEW p \in Publishers, NEW e \in Ids,
             PublishFails(p, e) \/ PublishTimesOut(p, e)
      PROVE  UNCHANGED cursor
  BY <1>8 DEF PublishFails, PublishTimesOut
<1> QED
  BY <1>1, <1>2, <1>3, <1>4, <1>5, <1>6, <1>7, <1>8
     DEF Next, PublishStep, MarkStep, vars

\* The dispatcher implements the contract: rows move only along the life cycle,
\* progress only grows, and completion waits for every publisher.
THEOREM Refinement == Spec => ImplementsContract
<1>1. Init => Contract!Init
  BY DEF Init, Contract!Init, Contract!Ids
<1>2. IInv /\ [Next]_vars => [Contract!Next]_<<status, cursor>>
  BY TableStep
<1> QED BY <1>1, <1>2, Invariance, PTL DEF Spec, ImplementsContract, Contract!Spec

\* A completed event stays completed until cleanup deletes its row.
THEOREM CompletedFinal == Spec => CompletedIsFinal
<1>1. ASSUME IInv, [Next]_vars, NEW e \in Ids, status[e] = "completed"
      PROVE  status'[e] \in {"completed", "deleted"}
  <2>1. [Contract!Next]_<<status, cursor>>
    BY <1>1, TableStep
  <2>2. status \in [Ids -> Status]
    BY <1>1 DEF IInv, TypeOK
  <2> QED
    BY Zenon, <1>1, <2>1, <2>2
       DEF Contract!Next, Contract!Store, Contract!DeadLetter, Contract!Requeue,
           Contract!CleanUp, Contract!Acknowledge, Contract!Move, Contract!Ids
<1>2. IInv /\ [Next]_vars =>
        [\A e \in Ids : status[e] = "completed" =>
                          status'[e] \in {"completed", "deleted"}]_vars
  BY <1>1
<1> QED BY <1>2, Invariance, PTL DEF Spec, CompletedIsFinal

=============================================================================
