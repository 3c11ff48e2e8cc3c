-------------------------- MODULE MCUpdateAdmission --------------------------
(* One client and the coordinator; a run and a media output.               *)
EXTENDS UpdateAdmission
=============================================================================
