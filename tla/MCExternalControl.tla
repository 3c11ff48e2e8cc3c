------------------------- MODULE MCExternalControl -------------------------
(* One session with clients and users that call it at any time. *)
EXTENDS ExternalControl
=============================================================================
