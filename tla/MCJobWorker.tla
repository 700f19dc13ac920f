---------------------------- MODULE MCJobWorker ----------------------------
(* An instance of JobWorker for TLC.                                       *)
EXTENDS JobWorker, TLC
CONSTANTS w1, w2

OneEach == (w1 :> 1) @@ (w2 :> 1)
=============================================================================
