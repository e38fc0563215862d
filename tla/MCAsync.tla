------------------------------ MODULE MCAsync ------------------------------
(***************************************************************************)
(* Three handles, one without a callback; two senders; a descriptor that   *)
(* is full after two writes.                                               *)
(***************************************************************************)
EXTENDS Async
=============================================================================
