------------------------------- MODULE MCLive -------------------------------
(***************************************************************************)
(* What must eventually happen in a loop, with a check watcher and a       *)
(* timer, and at a barrier whose threads use it once.  The first choice of *)
(* a behaviour is which of the two it is about.                            *)
(***************************************************************************)
EXTENDS Loop, Barrier

VARIABLE part

CONSTANTS c1, t1

MCKindOf == (c1 :> "check") @@ (t1 :> "timer")

allVars == <<part, vars, barrierVars>>

MCInit == part \in {"loop", "barrier"} /\ Init /\ BarrierInit

\* The threads have gone through the barrier as often as they meant to.
AllPassed ==
    /\ \A t \in Threads : tpc[t] = "out" /\ waits[t] = MaxWaits
    /\ UNCHANGED barrierVars

MCNext ==
    \/ part = "loop" /\ part' = part /\ Next /\ UNCHANGED barrierVars
    \/ part = "barrier" /\ part' = part /\ (BarrierNext \/ AllPassed) /\ UNCHANGED vars

\* The fairness of both specifications, each for the behaviours of its part.
MCSpec ==
    /\ MCInit /\ [][MCNext]_allVars
    /\ WF_allVars(part = "loop" /\ LoopStep /\ UNCHANGED <<part, barrierVars>>)
    /\ \A t \in Threads :
        /\ WF_allVars(part = "barrier" /\ Arrive(t) /\ UNCHANGED <<part, vars>>)
        /\ WF_allVars(part = "barrier" /\ Leave(t) /\ UNCHANGED <<part, vars>>)
=============================================================================
