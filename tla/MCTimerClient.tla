---------------------------- MODULE MCTimerClient ----------------------------
(* Counts of 32 values with 4 ticks per millisecond: 8 ms wrap around.     *)
EXTENDS TimerClient
=============================================================================
