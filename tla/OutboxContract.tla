--------------------------- MODULE OutboxContract ---------------------------
(***************************************************************************)
(* What the outbox promises to the services that store events and to the    *)
(* operators: the life cycle of a row and the progress of the publishers,   *)
(* without goroutines, batches, transactions or failures.                   *)
(***************************************************************************)
EXTENDS Integers

CONSTANTS Publishers, MaxId

VARIABLES status, cursor

Ids == 1..MaxId

Init ==
  /\ status = [e \in Ids |-> "none"]
  /\ cursor = [p \in Publishers |-> 0]

\* Move row e from a status in From to s.
Move(e, From, s) ==
  /\ status[e] \in From
  /\ status' = [status EXCEPT ![e] = s]
  /\ UNCHANGED cursor

Store(e)      == Move(e, {"none"}, "pending")
DeadLetter(e) == Move(e, {"pending", "failed"}, "failed")
Requeue(e)    == Move(e, {"failed"}, "pending")
CleanUp(e)    == Move(e, {"completed"}, "deleted")

\* A publisher acknowledges e.  Its progress only grows, and the row may
\* become completed when every publisher has now reached it.
Acknowledge(p, e) ==
  /\ cursor[p] < e
  /\ status[e] # "none"
  /\ cursor' = [cursor EXCEPT ![p] = e]
  /\ \/ UNCHANGED status
     \/ /\ status[e] \in {"pending", "failed"}
        /\ \A q \in Publishers : cursor'[q] >= e
        /\ status' = [status EXCEPT ![e] = "completed"]

Next ==
  \/ \E e \in Ids : Store(e) \/ DeadLetter(e) \/ Requeue(e) \/ CleanUp(e)
  \/ \E p \in Publishers, e \in Ids : Acknowledge(p, e)

Spec == Init /\ [][Next]_<<status, cursor>>

=============================================================================
