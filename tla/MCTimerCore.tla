---------------------------- MODULE MCTimerCore ----------------------------
(* Model checking of TimerCore: two schedules, and one that an older       *)
(* version has left and the provider does not accept.                      *)
EXTENDS TimerCore

Some == {{0, 2}, {1}, {}}
Old  == {{}}
=============================================================================
