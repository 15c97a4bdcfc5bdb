---------------------------- MODULE MCBootButton ----------------------------
(* The instance of BootButton that TLC checks: polls, presses and the wrap   *)
(* of the tick count in the proportions of the firmware (5, 8, 300 and 2^32  *)
(* ticks), with numbers small enough to begin a press at every tick.         *)
EXTENDS BootButton

TickCount == 64
=============================================================================
