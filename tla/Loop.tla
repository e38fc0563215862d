------------------------------- MODULE Loop -------------------------------
(***************************************************************************)
(* uv_run (src/src/unix/core.cpp) and the life of a handle: initialised,   *)
(* started, stopped, referenced, closed (uv-common.h, core.cpp), for the   *)
(* idle, prepare and check watchers (loop-watcher_*.cpp) and timers.       *)
(*                                                                         *)
(* Everything runs on the loop thread.  What makes it hard is that user    *)
(* code runs in the middle: a callback may start, stop, close, reference   *)
(* or unreference any handle, stop the loop, or feed a watcher, while the  *)
(* loop is iterating over the very lists these calls change.               *)
(*                                                                         *)
(* A timer here is expired or not; Timer models when it expires.  The poll *)
(* runs the callback of some I/O watcher, or none.                         *)
(***************************************************************************)
EXTENDS Queue

CONSTANTS
    Handles,    \* handle structures
    KindOf,     \* the type each is initialised with
    MaxFeed,    \* bound: watchers in pending_queue
    MaxReqs     \* bound: active requests

Kinds    == {"idle", "prepare", "check", "timer"}
Watchers == {"idle", "prepare", "check"}

ASSUME LoopAssumption ==
    /\ IsFiniteSet(Handles)
    /\ KindOf \in [Handles -> Kinds]
    /\ MaxFeed \in Nat
    /\ MaxReqs \in Nat

VARIABLES
    hstate,             \* "none" (not initialised, or closed), "open", "closing"
    active, ref,        \* handles with UV__HANDLE_ACTIVE, UV__HANDLE_REF
    active_handles,     \* loop->active_handles
    list,               \* loop->idle_handles, prepare_handles, check_handles
    expired, repeating, \* active timers that are due; timers with a repeat
    closing_handles,    \* the stack of handles to finish closing
    pending_queue,      \* number of watchers fed to the loop
    active_reqs,        \* number of active requests
    stop_flag,
    mode, pc,           \* uv_run's mode and place
    user,               \* does user code run: outside uv_run, or in a callback
    queue,              \* the list on the stack of the running phase
    pq,                 \* the length of uv__run_pending's list
    ran_pending, block, polled  \* uv_run's and uv__io_poll's variables

flagVars  == <<hstate, active, ref, active_handles>>
listVars  == <<list, queue>>
timerVars == <<expired, repeating>>
feedVars  == <<pending_queue, pq>>
pollVars  == <<ran_pending, block, polled>>
runVars   == <<mode, pc, user>>
vars == <<flagVars, listVars, timerVars, closing_handles, feedVars, active_reqs, stop_flag, pollVars, runVars>>

Init ==
    /\ hstate = [h \in Handles |-> "none"]
    /\ active = {}
    /\ ref = {}
    /\ active_handles = 0
    /\ list = [k \in Watchers |-> <<>>]
    /\ expired = {}
    /\ repeating = {}
    /\ closing_handles = <<>>
    /\ pending_queue = 0
    /\ active_reqs = 0
    /\ stop_flag = FALSE
    /\ mode = "NOWAIT"
    /\ pc = "out"
    /\ user = TRUE
    /\ queue = <<>>
    /\ pq = 0
    /\ ran_pending = FALSE
    /\ block = "no"
    /\ polled = FALSE

\* Mutant: closing handles do not keep the loop alive.
AliveIgnoresClosing == active_handles > 0 \/ active_reqs > 0

\* uv__has_active_handles, uv__has_active_reqs, closing_handles: uv__loop_alive.
Alive == active_handles > 0 \/ active_reqs > 0 \/ closing_handles # <<>>

(***************************************************************************)
(* uv__handle_start and uv__handle_stop: the flag, and the count of active *)
(* handles when the handle is referenced.                                  *)
(***************************************************************************)
HandleStart(h) ==
    /\ active' = active \cup {h}
    /\ active_handles' = active_handles + IF h \in ref \ active THEN 1 ELSE 0

HandleStop(h) ==
    /\ active' = active \ {h}
    /\ active_handles' = active_handles - IF h \in ref \cap active THEN 1 ELSE 0

(***************************************************************************)
(* Calls of user code, outside uv_run or in a callback.                    *)
(***************************************************************************)
HandleInit(h) ==
    /\ user
    /\ hstate[h] = "none"
    /\ hstate' = [hstate EXCEPT ![h] = "open"]
    /\ ref' = ref \cup {h}
    /\ UNCHANGED <<active, active_handles, listVars, timerVars, closing_handles, feedVars, active_reqs,
                   stop_flag, pollVars, runVars>>

\* QUEUE_INSERT_HEAD into the loop's list, never into the one being run.
WatcherStart(h) ==
    LET k == KindOf[h] IN
    /\ user
    /\ hstate[h] = "open"
    /\ k \in Watchers
    /\ h \notin active
    /\ HandleStart(h)
    /\ list' = [list EXCEPT ![k] = <<h>> \o @]
    /\ UNCHANGED <<hstate, ref, queue, timerVars, closing_handles, feedVars, active_reqs,
                   stop_flag, pollVars, runVars>>

\* uv_timer_start, of an active timer too; with a timeout of 0 it is due at once.
TimerStart(h, due, rep) ==
    /\ user
    /\ hstate[h] = "open"
    /\ KindOf[h] = "timer"
    /\ HandleStart(h)
    /\ expired' = IF due THEN expired \cup {h} ELSE expired \ {h}
    /\ repeating' = IF rep THEN repeating \cup {h} ELSE repeating \ {h}
    /\ UNCHANGED <<hstate, ref, listVars, closing_handles, feedVars, active_reqs,
                   stop_flag, pollVars, runVars>>

\* uv_idle_stop and its like, uv_timer_stop: leave whatever list the handle is in.
Inactivate(h) ==
    /\ HandleStop(h)
    /\ list' = [k \in Watchers |-> Unlink(list[k], h)]
    /\ queue' = IF pc \in Watchers THEN Unlink(queue, h) ELSE queue
    /\ expired' = expired \ {h}

Stop(h) ==
    /\ user
    /\ hstate[h] = "open"
    /\ h \in active
    /\ Inactivate(h)
    /\ UNCHANGED <<hstate, ref, repeating, closing_handles, feedVars, active_reqs,
                   stop_flag, pollVars, runVars>>

Ref(h) ==
    /\ user
    /\ hstate[h] # "none"
    /\ h \notin ref
    /\ ref' = ref \cup {h}
    /\ active_handles' = active_handles + IF h \in active THEN 1 ELSE 0
    /\ UNCHANGED <<hstate, active, listVars, timerVars, closing_handles, feedVars, active_reqs,
                   stop_flag, pollVars, runVars>>

\* uv__handle_unref
Unreference(h) ==
    /\ ref' = ref \ {h}
    /\ active_handles' = active_handles - IF h \in ref \cap active THEN 1 ELSE 0

Unref(h) ==
    /\ user
    /\ hstate[h] # "none"
    /\ h \in ref
    /\ Unreference(h)
    /\ UNCHANGED <<hstate, active, listVars, timerVars, closing_handles, feedVars, active_reqs,
                   stop_flag, pollVars, runVars>>

\* uv_close: stop the handle and push it on the stack of closing handles.
Close(h) ==
    /\ user
    /\ hstate[h] = "open"
    /\ hstate' = [hstate EXCEPT ![h] = "closing"]
    /\ Inactivate(h)
    /\ repeating' = repeating \ {h}
    /\ closing_handles' = <<h>> \o closing_handles
    /\ UNCHANGED <<ref, feedVars, active_reqs, stop_flag, pollVars, runVars>>

\* uv_stop
StopLoop ==
    /\ user
    /\ stop_flag' = TRUE
    /\ UNCHANGED <<flagVars, listVars, timerVars, closing_handles, feedVars, active_reqs, pollVars, runVars>>

\* Mutant: while pending watchers are run, the new one joins their list.
FeedRunning ==
    /\ user
    /\ pending_queue + pq < MaxFeed
    /\ \/ pc = "pending" /\ pq' = pq + 1 /\ UNCHANGED pending_queue
       \/ pc # "pending" /\ pending_queue' = pending_queue + 1 /\ UNCHANGED pq
    /\ UNCHANGED <<flagVars, listVars, timerVars, closing_handles, active_reqs, stop_flag, pollVars, runVars>>

\* uv__io_feed, by a call that has the result of an operation at once.
Feed ==
    /\ user
    /\ pending_queue + pq < MaxFeed
    /\ pending_queue' = pending_queue + 1
    /\ UNCHANGED <<flagVars, listVars, timerVars, closing_handles, pq, active_reqs, stop_flag, pollVars, runVars>>

\* uv__req_register, by a call that starts a request.
Request ==
    /\ user
    /\ active_reqs < MaxReqs
    /\ active_reqs' = active_reqs + 1
    /\ UNCHANGED <<flagVars, listVars, timerVars, closing_handles, feedVars, stop_flag, pollVars, runVars>>

(***************************************************************************)
(* uv_run                                                                  *)
(***************************************************************************)
\* uv__update_time: any active timer may have become due.
Update == \E T \in SUBSET {h \in active : KindOf[h] = "timer"} : expired' = expired \cup T

RunBegin(m) ==
    /\ pc = "out"
    /\ mode' = m
    /\ \/ /\ Alive /\ ~stop_flag
          /\ pc' = "timers"
          /\ user' = FALSE
          /\ Update
          /\ UNCHANGED stop_flag
       \/ /\ ~(Alive /\ ~stop_flag)
          /\ stop_flag' = FALSE
          /\ IF Alive THEN UNCHANGED expired ELSE Update
          /\ UNCHANGED <<pc, user>>
    /\ UNCHANGED <<flagVars, listVars, repeating, closing_handles, feedVars, active_reqs, pollVars>>

CallbackReturn ==
    /\ pc # "out"
    /\ user
    /\ user' = FALSE
    /\ UNCHANGED <<flagVars, listVars, timerVars, closing_handles, feedVars, active_reqs,
                   stop_flag, pollVars, mode, pc>>

\* uv__run_timers: uv_timer_stop, uv_timer_again, the callback.
RunTimer(h) ==
    /\ pc \in {"timers", "timers again"}
    /\ ~user
    /\ h \in expired
    /\ expired' = expired \ {h}
    /\ \/ /\ h \in repeating
          /\ UNCHANGED <<active, active_handles>>
       \/ /\ h \notin repeating
          /\ HandleStop(h)
    /\ user' = TRUE
    /\ UNCHANGED <<hstate, ref, listVars, repeating, closing_handles, feedVars, active_reqs,
                   stop_flag, pollVars, mode, pc>>

\* The end of uv__run_timers and the QUEUE_MOVE of uv__run_pending.
TimersDone ==
    /\ pc = "timers"
    /\ ~user
    /\ expired = {}
    /\ pc' = "pending"
    /\ pq' = pending_queue
    /\ pending_queue' = 0
    /\ ran_pending' = (pending_queue > 0)
    /\ UNCHANGED <<flagVars, listVars, timerVars, closing_handles, active_reqs, stop_flag,
                   block, polled, mode, user>>

RunPending ==
    /\ pc = "pending"
    /\ ~user
    /\ pq > 0
    /\ pq' = pq - 1
    /\ user' = TRUE
    /\ UNCHANGED <<flagVars, listVars, timerVars, closing_handles, pending_queue, active_reqs,
                   stop_flag, pollVars, mode, pc>>

\* QUEUE_MOVE at the start of uv__run_idle, uv__run_prepare, uv__run_check.
Enter(k) ==
    /\ pc' = k
    /\ queue' = list[k]
    /\ list' = [list EXCEPT ![k] = <<>>]

PendingDone ==
    /\ pc = "pending"
    /\ ~user
    /\ pq = 0
    /\ Enter("idle")
    /\ UNCHANGED <<flagVars, timerVars, closing_handles, feedVars, active_reqs, stop_flag,
                   pollVars, mode, user>>

\* One round of uv__run_idle, uv__run_prepare, uv__run_check.
RunWatcher(k) ==
    /\ pc = k
    /\ ~user
    /\ queue # <<>>
    /\ queue' = Tail(queue)
    /\ list' = [list EXCEPT ![k] = Append(@, Head(queue))]
    /\ user' = TRUE
    /\ UNCHANGED <<flagVars, timerVars, closing_handles, feedVars, active_reqs, stop_flag,
                   pollVars, mode, pc>>

IdleDone ==
    /\ pc = "idle"
    /\ ~user
    /\ queue = <<>>
    /\ Enter("prepare")
    /\ UNCHANGED <<flagVars, timerVars, closing_handles, feedVars, active_reqs, stop_flag,
                   pollVars, mode, user>>

\* How long a poll may last when nothing forbids it to wait: uv__next_timeout.
WaitUnless(busy) ==
    IF busy THEN "no"
    ELSE IF \E h \in active : KindOf[h] = "timer" THEN "timer" ELSE "forever"

NothingActive == active_handles = 0 /\ active_reqs = 0
NextExpired   == expired # {}
IdleActive    == list["idle"] # <<>>
Fed           == pending_queue > 0
HasClosing    == closing_handles # <<>>

\* Mutants: one of the conditions is not tested.
timeout_ignores_closing == WaitUnless(stop_flag \/ NothingActive \/ IdleActive \/ Fed \/ NextExpired)

timeout_ignores_stop == WaitUnless(NothingActive \/ IdleActive \/ Fed \/ HasClosing \/ NextExpired)

timeout_ignores_pending == WaitUnless(stop_flag \/ NothingActive \/ IdleActive \/ HasClosing \/ NextExpired)

\* uv_backend_timeout
backend_timeout ==
    WaitUnless(stop_flag \/ NothingActive \/ IdleActive \/ Fed \/ HasClosing \/ NextExpired)

PrepareDone ==
    /\ pc = "prepare"
    /\ ~user
    /\ queue = <<>>
    /\ pc' = "poll"
    /\ block' = IF mode = "DEFAULT" \/ (mode = "ONCE" /\ ~ran_pending) THEN backend_timeout ELSE "no"
    /\ polled' = FALSE
    /\ UNCHANGED <<flagVars, listVars, timerVars, closing_handles, feedVars, active_reqs, stop_flag,
                   ran_pending, mode, user>>

\* An I/O watcher's callback, which may complete a request.
PollEvent ==
    /\ pc = "poll"
    /\ ~user
    /\ ~polled
    /\ polled' = TRUE
    /\ user' = TRUE
    /\ active_reqs' \in {active_reqs, active_reqs - 1} \cap Nat
    /\ UNCHANGED <<flagVars, listVars, timerVars, closing_handles, feedVars, stop_flag,
                   ran_pending, block, mode, pc>>

PollReturn ==
    /\ pc = "poll"
    /\ ~user
    /\ polled \/ block # "forever"
    /\ block' = "no"
    /\ polled' = FALSE
    /\ Enter("check")
    /\ UNCHANGED <<flagVars, timerVars, closing_handles, feedVars, active_reqs, stop_flag,
                   ran_pending, mode, user>>

\* Mutant: the loop keeps the stack it is about to walk.
CheckDoneKeepsStack ==
    /\ pc = "check"
    /\ ~user
    /\ queue = <<>>
    /\ pc' = "closing"
    /\ queue' = closing_handles
    /\ UNCHANGED <<flagVars, list, timerVars, closing_handles, feedVars, active_reqs, stop_flag, pollVars,
                   mode, user>>

\* The end of uv__run_check; uv__run_closing_handles takes the stack.
CheckDone ==
    /\ pc = "check"
    /\ ~user
    /\ queue = <<>>
    /\ pc' = "closing"
    /\ queue' = closing_handles
    /\ closing_handles' = <<>>
    /\ UNCHANGED <<flagVars, list, timerVars, feedVars, active_reqs, stop_flag, pollVars, mode, user>>

\* uv__finish_close and the close callback.
FinishClose ==
    LET h == Head(queue) IN
    /\ pc = "closing"
    /\ ~user
    /\ queue # <<>>
    /\ queue' = Tail(queue)
    /\ hstate' = [hstate EXCEPT ![h] = "none"]
    /\ Unreference(h)
    /\ user' = TRUE
    /\ UNCHANGED <<active, list, timerVars, closing_handles, feedVars, active_reqs, stop_flag,
                   pollVars, mode, pc>>

ClosingDone ==
    /\ pc = "closing"
    /\ ~user
    /\ queue = <<>>
    /\ \/ mode = "ONCE" /\ pc' = "timers again" /\ Update
       \/ mode # "ONCE" /\ pc' = "end" /\ UNCHANGED expired
    /\ UNCHANGED <<flagVars, listVars, repeating, closing_handles, feedVars, active_reqs, stop_flag,
                   pollVars, mode, user>>

TimersAgainDone ==
    /\ pc = "timers again"
    /\ ~user
    /\ expired = {}
    /\ pc' = "end"
    /\ UNCHANGED <<flagVars, listVars, timerVars, closing_handles, feedVars, active_reqs, stop_flag,
                   pollVars, mode, user>>

Again == mode = "DEFAULT" /\ Alive /\ ~stop_flag

RunEnd ==
    /\ pc = "end"
    /\ \/ /\ Again
          /\ pc' = "timers"
          /\ Update
          /\ UNCHANGED <<user, stop_flag>>
       \/ /\ ~Again
          /\ pc' = "out"
          /\ user' = TRUE
          /\ stop_flag' = FALSE
          /\ UNCHANGED expired
    /\ ran_pending' = FALSE
    /\ UNCHANGED <<flagVars, listVars, repeating, closing_handles, feedVars, active_reqs,
                   block, polled, mode>>

-----------------------------------------------------------------------------
LoopStep ==
    \/ CallbackReturn
    \/ \E h \in Handles : RunTimer(h)
    \/ TimersDone \/ RunPending \/ PendingDone
    \/ \E k \in Watchers : RunWatcher(k)
    \/ IdleDone \/ PrepareDone \/ PollReturn \/ CheckDone
    \/ FinishClose \/ ClosingDone \/ TimersAgainDone \/ RunEnd

UserCall ==
    \/ \E h \in Handles :
          \/ HandleInit(h) \/ WatcherStart(h) \/ Stop(h) \/ Ref(h) \/ Unref(h) \/ Close(h)
          \/ \E due, rep \in BOOLEAN : TimerStart(h, due, rep)
    \/ StopLoop \/ Feed \/ Request
    \/ \E m \in {"DEFAULT", "ONCE", "NOWAIT"} : RunBegin(m)

Next == LoopStep \/ PollEvent \/ UserCall

Spec == Init /\ [][Next]_vars

(***************************************************************************)
(* The loop thread runs and callbacks return.  No I/O has to happen, and   *)
(* nobody has to call uv_run.                                              *)
(***************************************************************************)
FairSpec == Spec /\ WF_vars(LoopStep)
-----------------------------------------------------------------------------
(* Properties *)

Closing == {h \in Handles : hstate[h] = "closing"}

\* The values of the flags, the lists and uv_run's variables.
TypeOK ==
    /\ hstate \in [Handles -> {"none", "open", "closing"}]
    /\ active \subseteq {h \in Handles : hstate[h] = "open"}
    /\ ref \subseteq {h \in Handles : hstate[h] # "none"}
    /\ active_handles \in Nat
    /\ list \in [Watchers -> Seq(Handles)]
    /\ queue \in Seq(Handles)
    /\ expired \subseteq {h \in active : KindOf[h] = "timer"}
    /\ repeating \subseteq Handles
    /\ closing_handles \in Seq(Handles)
    /\ pending_queue \in 0..MaxFeed
    /\ pq \in 0..MaxFeed
    /\ active_reqs \in 0..MaxReqs
    /\ stop_flag \in BOOLEAN
    /\ mode \in {"DEFAULT", "ONCE", "NOWAIT"}
    /\ pc \in {"out", "timers", "pending", "idle", "prepare", "poll", "check", "closing",
               "timers again", "end"}
    /\ user \in BOOLEAN
    /\ ran_pending \in BOOLEAN
    /\ block \in {"no", "timer", "forever"}
    /\ polled \in BOOLEAN

\* However starting, stopping, referencing, unreferencing and closing are
\* mixed, the counter that keeps uv_run going is the number of handles that
\* are active and referenced: it neither leaks nor drops below what is there.
ActiveCount == active_handles = Cardinality(active \cap ref)

\* Callbacks may stop, start and close watchers while their list is being run:
\* every active watcher stays linked exactly once and no inactive one is
\* linked, so none is skipped, called twice in a phase, or called when stopped.
WatchersListed ==
    \A k \in Watchers :
        LET q == IF pc = k THEN queue ELSE <<>> IN
        /\ Distinct(list[k])
        /\ Distinct(q)
        /\ ToSet(list[k]) \cap ToSet(q) = {}
        /\ ToSet(list[k]) \cup ToSet(q) = {h \in active : KindOf[h] = k}

\* A handle that is closing is on the stack, or on the list being finished,
\* exactly once, close callbacks that close other handles or initialise the
\* closed one again included: each uv_close has one close callback.
ClosingListed ==
    LET q == IF pc = "closing" THEN queue ELSE <<>> IN
    /\ Distinct(closing_handles)
    /\ Distinct(q)
    /\ ToSet(closing_handles) \cap ToSet(q) = {}
    /\ ToSet(closing_handles) \cup ToSet(q) = Closing

\* The loop's books are right whatever a callback calls: the count that keeps
\* uv_run going, the watcher lists and the stack of closing handles.
LoopConsistent == ActiveCount /\ WatchersListed /\ ClosingListed

\* uv_run(UV_RUN_DEFAULT) returns only when it is told to or when nothing is
\* left: no active and referenced handle, no request, no handle half closed.
ReturnsWhenDone ==
    [][pc = "end" /\ pc' = "out" /\ mode = "DEFAULT" /\ ~stop_flag =>
          active \cap ref = {} /\ active_reqs = 0 /\ Closing = {}]_vars

\* The one thing that keeps the loop in a phase for ever: timers with a
\* timeout of 0 started by timer callbacks, again and again.
LeavesTimers == []<>(pc \notin {"timers", "timers again"})

\* Once uv_close was called, uv_run calls the close callback before it can
\* block for I/O, unless it returns first.
EveryCloseFinished ==
    LeavesTimers => \A h \in Handles : (h \in Closing /\ pc # "out") ~> (h \notin Closing \/ pc = "out")

\* After uv_stop, uv_run returns without waiting for I/O.
StopReturns == LeavesTimers => ((stop_flag /\ pc # "out") ~> (pc = "out"))

\* Watchers fed to the loop are called without waiting for I/O.
EveryFeedServed ==
    LeavesTimers => ((pending_queue > 0 /\ pc # "out") ~> (pending_queue = 0 \/ pc = "out"))

\* A phase ends although its callbacks start and stop the watchers it runs,
\* close handles, and feed watchers without end.
PhasesEnd == \A k \in Watchers \cup {"pending", "closing"} : (pc = k) ~> (pc # k)
=============================================================================
