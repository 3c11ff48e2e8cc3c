---------------------------- MODULE MCRunManager ----------------------------
(* Model checking of RunManager: runs and devices are interchangeable. *)
EXTENDS RunManager, TLC

RunSymmetry == Permutations(Runs) \cup Permutations(Devices)
=============================================================================
