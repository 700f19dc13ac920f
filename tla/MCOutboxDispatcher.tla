------------------------- MODULE MCOutboxDispatcher -------------------------
(***************************************************************************)
(* Instances of OutboxDispatcher for TLC.                                   *)
(***************************************************************************)
EXTENDS OutboxDispatcher, TLC

\* Publishers are interchangeable in every safety property.
Symmetry == Permutations(Publishers)

\* The dispatcher starts on a backlog: every event is stored before it runs.
BacklogSpec == Init /\ [][Next /\ (running' => \A e \in Ids : status'[e] # "none")]_vars

=============================================================================
