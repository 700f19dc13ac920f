------------------------- MODULE MCSagaCoordinator -------------------------
(* Instances of SagaCoordinator for TLC.                                   *)
EXTENDS SagaCoordinator
FirstStep == {1}
=============================================================================
