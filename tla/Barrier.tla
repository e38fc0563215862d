------------------------------ MODULE Barrier ------------------------------
(***************************************************************************)
(* src/src/unix/pthread-barrier.cpp, behind uv_barrier_wait: a counter of  *)
(* arrivals, a counter of departures, a mutex and a condition variable.    *)
(*                                                                         *)
(* The mutex is held from the start of pthread_barrier_wait to its end but *)
(* for pthread_cond_wait, so a call is a step up to the wait, a wakeup     *)
(* (signalled or spurious) and a step after it.                            *)
(***************************************************************************)
EXTENDS Integers, FiniteSets

CONSTANTS
    Threads,    \* the threads that use the barrier
    MaxWaits    \* bound: calls of pthread_barrier_wait by each thread

threshold == Cardinality(Threads)

ASSUME BarrierAssumption ==
    /\ IsFiniteSet(Threads) /\ Threads # {}
    /\ MaxWaits \in Nat

VARIABLES
    in, out,        \* the counters of _uv_barrier
    tpc,            \* each thread: "out", "wait", "woken"
    waits,          \* calls of pthread_barrier_wait by each thread (bounded)
    serial,         \* history: calls that returned PTHREAD_BARRIER_SERIAL_THREAD
    released        \* history: threads whose round is complete but that are still inside

barrierVars == <<in, out, tpc, waits, serial, released>>

BarrierInit ==
    /\ in = 0
    /\ out = 0
    /\ tpc = [t \in Threads |-> "out"]
    /\ waits = [t \in Threads |-> 0]
    /\ serial = 0
    /\ released = {}

Waiting == {t \in Threads : tpc[t] = "wait"}

\* pthread_cond_signal wakes one waiter, if there is one.
Signalled(pcs) ==
    IF Waiting = {} THEN {pcs} ELSE {[pcs EXCEPT ![w] = "woken"] : w \in Waiting}

\* ++b->in, and the last thread to arrive opens the barrier.
Arrive(t) ==
    /\ tpc[t] = "out"
    /\ waits[t] < MaxWaits
    /\ waits' = [waits EXCEPT ![t] = @ + 1]
    /\ \/ /\ in + 1 = threshold
          /\ in' = 0
          /\ out' = threshold - 1
          /\ tpc' \in Signalled(tpc)
          /\ serial' = serial + 1
          /\ released' = {u \in Threads : tpc[u] # "out"}
       \/ /\ in + 1 # threshold
          /\ in' = in + 1
          /\ tpc' = [tpc EXCEPT ![t] = "wait"]
          /\ UNCHANGED <<out, serial, released>>

SpuriousWakeup(t) ==
    /\ tpc[t] = "wait"
    /\ tpc' = [tpc EXCEPT ![t] = "woken"]
    /\ UNCHANGED <<in, out, waits, serial, released>>

\* Mutant: the loop around pthread_cond_wait is a single call.
LeaveUntested(t) ==
    /\ tpc[t] = "woken"
    /\ out' = out - 1
    /\ tpc' \in Signalled([tpc EXCEPT ![t] = "out"])
    /\ released' = released \ {t}
    /\ UNCHANGED <<in, waits, serial>>

\* Mutant: a departing thread does not wake the next.
LeaveSilent(t) ==
    /\ tpc[t] = "woken"
    /\ \/ /\ in # 0
          /\ tpc' = [tpc EXCEPT ![t] = "wait"]
          /\ UNCHANGED <<out, released>>
       \/ /\ in = 0
          /\ out' = out - 1
          /\ tpc' = [tpc EXCEPT ![t] = "out"]
          /\ released' = released \ {t}
    /\ UNCHANGED <<in, waits, serial>>

\* pthread_cond_wait returns: wait again while in is not 0, else leave and
\* wake the next thread.
Leave(t) ==
    /\ tpc[t] = "woken"
    /\ \/ /\ in # 0
          /\ tpc' = [tpc EXCEPT ![t] = "wait"]
          /\ UNCHANGED <<out, released>>
       \/ /\ in = 0
          /\ out' = out - 1
          /\ tpc' \in Signalled([tpc EXCEPT ![t] = "out"])
          /\ released' = released \ {t}
    /\ UNCHANGED <<in, waits, serial>>

BarrierNext == \E t \in Threads : Arrive(t) \/ SpuriousWakeup(t) \/ Leave(t)

BarrierSpec == BarrierInit /\ [][BarrierNext]_barrierVars

(***************************************************************************)
(* Every thread that uses the barrier arrives as often as it means to, and *)
(* a woken thread gets the mutex.  Nothing wakes spuriously for sure.      *)
(***************************************************************************)
BarrierFairSpec == BarrierSpec /\ \A t \in Threads : WF_barrierVars(Arrive(t)) /\ WF_barrierVars(Leave(t))
-----------------------------------------------------------------------------
(* Properties *)

\* The values of the two counters and of the threads' places.
BarrierTypeOK ==
    /\ in \in 0..(threshold - 1)
    /\ out \in 0..(threshold - 1)
    /\ tpc \in [Threads -> {"out", "wait", "woken"}]
    /\ waits \in [Threads -> 0..MaxWaits]
    /\ serial \in 0..MaxWaits
    /\ released \subseteq {t \in Threads : tpc[t] # "out"}

\* The counter pthread_barrier_destroy relies on to tell whether a thread is
\* still inside: departures that are due and have not happened.
OutCounts == out = Cardinality(released)

\* No thread gets past the barrier before all of them have arrived, spurious
\* wakeups or not: the threads that have left n times have seen n rounds
\* complete, and each round has one serial thread.
NobodyEarly == \A t \in Threads : tpc[t] = "out" => waits[t] <= serial

\* pthread_barrier_wait lets nobody through early and keeps the count that
\* pthread_barrier_destroy needs.
BarrierRight == OutCounts /\ NobodyEarly

\* "Otherwise, wait for other threads until in is set to 0, then return 0":
\* a thread that waits when in is set to 0 returns.
EveryReleasedReturns == \A t \in Threads : (t \in released) ~> (t \notin released)
=============================================================================
