-------------------------------- MODULE MCEventing --------------------------------
(***************************************************************************)
(* One event, one subscription, two instances' dispatchers.                *)
(***************************************************************************)
EXTENDS Eventing
================================================================================
