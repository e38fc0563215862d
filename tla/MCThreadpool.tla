---------------------------- MODULE MCThreadpool ----------------------------
(***************************************************************************)
(* Two workers, two loops; three requests, two of them on the first loop.  *)
(***************************************************************************)
EXTENDS Threadpool

CONSTANTS l1, l2, r1, r2, r3

MCLoopOf == (r1 :> l1) @@ (r2 :> l1) @@ (r3 :> l2)
=============================================================================
