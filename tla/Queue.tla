------------------------------- MODULE Queue -------------------------------
(***************************************************************************)
(* The intrusive circular lists of src/src/queue.h as sequences, from the  *)
(* head of the queue to its tail.  QUEUE_INSERT_TAIL is Append, QUEUE_HEAD *)
(* is Head, QUEUE_MOVE takes the sequence and leaves <<>>.                 *)
(***************************************************************************)
EXTENDS Integers, FiniteSets, SequencesExt

(***************************************************************************)
(* QUEUE_REMOVE unlinks a node from the queue it is in, wherever it is in  *)
(* it.                                                                     *)
(***************************************************************************)
Unlink(q, x) ==
    IF \E i \in 1..Len(q) : q[i] = x
    THEN RemoveAt(q, CHOOSE i \in 1..Len(q) : q[i] = x)
    ELSE q

\* No node is linked twice into the queue.
Distinct(q) == \A i, j \in 1..Len(q) : q[i] = q[j] => i = j
=============================================================================
