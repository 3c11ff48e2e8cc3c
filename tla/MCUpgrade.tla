------------------------------ MODULE MCUpgrade ------------------------------
(* Model checking of Upgrade: the bounds are in the configurations. *)
EXTENDS Upgrade
=============================================================================
