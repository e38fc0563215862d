----------------------------- MODULE MCBarrier -----------------------------
(***************************************************************************)
(* A barrier that its threads use again.                                   *)
(***************************************************************************)
EXTENDS Barrier
=============================================================================
