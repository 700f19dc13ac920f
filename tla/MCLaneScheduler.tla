-------------------------- MODULE MCLaneScheduler --------------------------
(***************************************************************************)
(* DefaultLaneWeights of internal/worker/job.go.                            *)
(***************************************************************************)
EXTENDS LaneScheduler

DefaultLaneWeights == [high |-> 3, normal |-> 2, low |-> 1]

=============================================================================
