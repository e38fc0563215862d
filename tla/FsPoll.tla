------------------------------- MODULE FsPoll -------------------------------
(***************************************************************************)
(* A poll handle of src/src/fs-poll.cpp.  Every uv_fs_poll_start makes a   *)
(* context, which a stat request in the thread pool and a timer point to   *)
(* in turn and which has to outlive both, though the handle may be         *)
(* stopped, started again and closed at any time.                          *)
(***************************************************************************)
EXTENDS Integers, FiniteSets

CONSTANTS
    Ctxs,        \* contexts that can be allocated
    Versions,    \* what a stat of the file can say
    Errors,      \* or fail with
    Interval,    \* the polling interval
    MaxLate      \* bound: how long a stat takes

NoCtx == "none"
Unknown == "unknown"

ASSUME FsPollAssumption ==
    /\ Interval \in Nat \ {0} /\ MaxLate \in Nat /\ Versions \cap Errors = {}
    /\ NoCtx \notin Ctxs /\ {Unknown, "ok"} \cap (Versions \cup Errors) = {}

VARIABLES
    poll,        \* the handle: its context or NoCtx, whether it is closing, and
                 \* whether a failed start has left a freed timer in the loop
    ctx,         \* the contexts
    inCb,        \* the context whose callback is running, or NoCtx
    view         \* what the user of a context knows of the file

fsPollVars == <<poll, ctx, inCb, view>>

NewCtx ==
    [parent |-> TRUE, stat |-> TRUE, timer |-> "inactive", wait |-> 0, busy |-> Unknown,
     statbuf |-> Unknown, result |-> Unknown, late |-> 0]
Freed == [NewCtx EXCEPT !.parent = FALSE, !.stat = FALSE, !.timer = "freed"]

Live == {c \in Ctxs : ctx[c].timer # "freed"}
LoopRuns == inCb = NoCtx

----------------------------------------------------------------------------
(* The user, from the loop or from a callback.                             *)

\* The new context has its first stat under way.  uv__is_active(handle) is
\* whether it has a context.  When uv_fs_stat has no memory the context is
\* freed with its timer still in the loop's handle queue.
uv_fs_poll_start(c) ==
    /\ poll.ctx = NoCtx /\ ~poll.closing /\ c \notin Live
    /\ \/ /\ ctx' = [ctx EXCEPT ![c] = NewCtx]
          /\ poll' = [poll EXCEPT !.ctx = c]
          /\ view' = [view EXCEPT ![c] = Unknown]
       \/ poll' = [poll EXCEPT !.dangling = TRUE] /\ UNCHANGED <<ctx, view>>
    /\ UNCHANGED inCb

\* Mutant: the timer is closed while the stat is under way.
DetachedAtOnce(c) == [ctx EXCEPT ![c].parent = FALSE, ![c].timer = "closing"]

\* An active timer is closed; an inactive one means that a stat is under
\* way, or its callback running, and poll_cb will do it.
Detached(c) ==
    [ctx EXCEPT ![c].parent = FALSE,
                ![c].timer = IF @ = "active" THEN "closing" ELSE @]

uv_fs_poll_stop ==
    /\ poll.ctx # NoCtx
    /\ ctx' = Detached(poll.ctx)
    /\ poll' = [poll EXCEPT !.ctx = NoCtx]
    /\ UNCHANGED <<inCb, view>>

\* uv_close.  Once it is closed the handle may be initialized again.
uv__fs_poll_close ==
    /\ ~poll.closing
    /\ ctx' = IF poll.ctx = NoCtx THEN ctx ELSE Detached(poll.ctx)
    /\ poll' = [poll EXCEPT !.ctx = NoCtx, !.closing = TRUE]
    /\ UNCHANGED <<inCb, view>>

uv_fs_poll_init ==
    /\ LoopRuns /\ poll.closing
    /\ poll' = [poll EXCEPT !.closing = FALSE]
    /\ UNCHANGED <<ctx, inCb, view>>

----------------------------------------------------------------------------
(* The callbacks of the timer, of the stat request and of the close.       *)

timer_cb(c) ==
    /\ LoopRuns /\ ctx[c].timer = "active"
    /\ ctx' = [ctx EXCEPT ![c].timer = "inactive", ![c].stat = TRUE]
    /\ UNCHANGED <<poll, inCb, view>>

\* The user hears of an error that is not the last one, of a success after
\* an error and of a change; not of the first success.
Reports(x, result) ==
    IF result \in Errors THEN x.busy # result
    ELSE x.busy # Unknown /\ (x.busy \in Errors \/ x.statbuf # result)

\* The result is kept, and the timer is started for what is left of the
\* interval unless the callback stopped the handle.
Finish(x) ==
    [x EXCEPT !.busy = IF x.result \in Errors THEN x.result ELSE "ok",
              !.statbuf = IF x.result \in Errors THEN @ ELSE x.result,
              !.timer = IF x.parent THEN "active" ELSE "closing",
              !.wait = IF x.parent THEN Interval - (x.late % Interval) ELSE @]

\* The stat has come back, `late' after its start.
poll_cb(c) ==
    /\ LoopRuns /\ ctx[c].stat
    /\ \E result \in Versions \cup Errors, late \in 0..MaxLate :
         LET x == [ctx[c] EXCEPT !.stat = FALSE, !.result = result, !.late = late] IN
         IF ~x.parent
         THEN /\ ctx' = [ctx EXCEPT ![c].stat = FALSE, ![c].timer = "closing"]
              /\ UNCHANGED <<inCb, view>>
         ELSE IF Reports(ctx[c], result)
         THEN /\ ctx' = [ctx EXCEPT ![c] = x]
              /\ inCb' = c
              /\ view' = [view EXCEPT ![c] = result]
         ELSE /\ ctx' = [ctx EXCEPT ![c] = Finish(x)]
              /\ inCb' = inCb
              /\ view' = IF view[c] = Unknown THEN [view EXCEPT ![c] = result] ELSE view
    /\ UNCHANGED poll

PollCbReturns ==
    /\ ~LoopRuns
    /\ ctx' = [ctx EXCEPT ![inCb] = Finish(@)]
    /\ inCb' = NoCtx
    /\ UNCHANGED <<poll, view>>

timer_close_cb(c) ==
    /\ LoopRuns /\ ctx[c].timer = "closing"
    /\ ctx' = [ctx EXCEPT ![c] = Freed]
    /\ UNCHANGED <<poll, inCb, view>>

FsPollInit ==
    /\ poll = [ctx |-> NoCtx, closing |-> FALSE, dangling |-> FALSE]
    /\ ctx = [c \in Ctxs |-> Freed]
    /\ inCb = NoCtx
    /\ view = [c \in Ctxs |-> Unknown]

FsPollNext ==
    \/ uv_fs_poll_stop \/ uv__fs_poll_close \/ uv_fs_poll_init \/ PollCbReturns
    \/ \E c \in Ctxs : \/ uv_fs_poll_start(c) \/ timer_cb(c)
                       \/ poll_cb(c) \/ timer_close_cb(c)

FsPollSpec == FsPollInit /\ [][FsPollNext]_fsPollVars

----------------------------------------------------------------------------
(* Properties.                                                             *)

\* The life of a context: it belongs to the handle exactly while it is the
\* handle's context, it is freed only when neither a stat nor a timer nor a
\* callback refers to it, and an abandoned one is on its way to be freed:
\* its stat is under way, its callback runs or its timer is closing.
ContextsOutlive ==
    \A c \in Ctxs :
        /\ ctx[c].parent <=> poll.ctx = c
        /\ ctx[c].timer \in {"freed", "closing"} => ~ctx[c].stat /\ inCb # c
        /\ c \in Live =>
             Cardinality({x \in {"stat", "timer", "cb"} :
                 \/ x = "stat" /\ ctx[c].stat
                 \/ x = "timer" /\ ctx[c].timer \in {"active", "closing"}
                 \/ x = "cb" /\ inCb = c}) = 1

\* What the user was told, or saw at the start, is what the last stat said:
\* no change and no error is swallowed, and polling stays on the grid of
\* its interval.
NoChangeSwallowed ==
    \A c \in Ctxs :
        poll.ctx = c /\ inCb # c /\ ctx[c].timer = "active" =>
            /\ view[c] = ctx[c].result
            /\ ctx[c].wait \in 1..Interval
            /\ (ctx[c].late + ctx[c].wait) % Interval = 0

\* uv_fs_poll: the contexts outlive what refers to them and no change of the
\* file is swallowed.
FsPollRight == ContextsOutlive /\ NoChangeSwallowed
=============================================================================
