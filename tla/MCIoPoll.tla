------------------------------ MODULE MCIoPoll ------------------------------
(***************************************************************************)
(* Two descriptors, the second beyond the table's initial size, a stream   *)
(* and a poll handle; a number is used by up to three files in turn.       *)
(***************************************************************************)
EXTENDS IoPoll
=============================================================================
