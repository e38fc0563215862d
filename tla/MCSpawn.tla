------------------------------ MODULE MCSpawn ------------------------------
(***************************************************************************)
(* uv_spawn with one slot above the standard ones, so that the slots reach *)
(* the numbers the caller's descriptors and the pipes have.                *)
(***************************************************************************)
EXTENDS Stdio
=============================================================================
