-------------------------- MODULE MCChangeCapture --------------------------
(* Two transactions of one change each.                                    *)
EXTENDS ChangeCapture

OneChangeEach == <<"plans", "commit", "subs", "commit">>

CdcSpec == CdcInit /\ [][CdcNext]_cdcVars
=============================================================================
