------------------------------ MODULE MCStream ------------------------------
(***************************************************************************)
(* A stream by itself, a blocking one among them.                          *)
(***************************************************************************)
EXTENDS Stream
=============================================================================
