---------------------------- MODULE MCRecording ----------------------------
(* Two recordings of one target, which is a device or a page.               *)
EXTENDS Recording
=============================================================================
