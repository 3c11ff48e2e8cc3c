-------------------------- MODULE MCControlRegistry --------------------------
(* Model checking of ControlRegistry: the bounds are in the configuration. *)
EXTENDS ControlRegistry
=============================================================================
