------------------------------ MODULE MCTimer ------------------------------
(***************************************************************************)
(* Two timers on a clock of a few ticks; the unsigned sum of the time and  *)
(* the longest timeout wraps around.                                       *)
(***************************************************************************)
EXTENDS Timer
=============================================================================
