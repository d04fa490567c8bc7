----------------------------- MODULE MCThrottle -----------------------------
(***************************************************************************)
(* Instances of Throttle; the .cfg files give the bounds.                  *)
(***************************************************************************)
EXTENDS Throttle
=============================================================================
