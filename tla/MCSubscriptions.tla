-------------------------- MODULE MCSubscriptions --------------------------
(* One loader call and one stream beside two requests on a subscription.   *)
EXTENDS Subscriptions, TLC

CONSTANT l1

OneId == l1 :> "a"

SubSpec == SubInit /\ [][SubNext]_subVars
=============================================================================
