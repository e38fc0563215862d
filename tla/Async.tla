------------------------------- MODULE Async -------------------------------
(***************************************************************************)
(* src/src/unix/async.cpp: uv_async_send, from any thread, wakes the loop  *)
(* and makes it call the handle's callback.                                *)
(*                                                                         *)
(* The threads share the handles' pending flags and the descriptor the     *)
(* loop polls; each access to one of them is a step.  The lists of handles *)
(* belong to the loop thread alone.  The descriptor is an eventfd, or a    *)
(* pipe where there is none: either way a counter that a write increments, *)
(* that a write at its limit leaves alone (EAGAIN), and that uv__async_io  *)
(* reads to zero.                                                          *)
(***************************************************************************)
EXTENDS Queue

CONSTANTS
    Handles,    \* uv_async_t structures
    NullCb,     \* those initialised with a NULL callback
    Senders,    \* threads in uv_async_send; the loop thread's own sends too
    FdMax,      \* the limit of the descriptor's counter
    None

ASSUME AsyncAssumption ==
    /\ NullCb \subseteq Handles
    /\ FdMax \in Nat \ {0}
    /\ None \notin Handles

VARIABLES
    hstate,         \* each handle: "none" (not initialised, or closed), "open", "closing"
    pending,        \* handle->pending
    async_handles,  \* loop->async_handles
    queue,          \* the list on uv__async_event's stack
    fd,             \* the descriptor's counter
    spc, sh,        \* each sender's place in uv_async_send, and its handle
    lpc, ch,        \* the loop thread's place, and the handle it serves
    unseen          \* history: open handles sent to since their callback last started

listVars   == <<async_handles, queue>>
senderVars == <<spc, sh>>
loopVars   == <<lpc, ch>>
vars == <<hstate, pending, listVars, fd, senderVars, loopVars, unseen>>

Init ==
    /\ hstate = [h \in Handles |-> "none"]
    /\ pending = [h \in Handles |-> FALSE]
    /\ async_handles = <<>>
    /\ queue = <<>>
    /\ fd = 0
    /\ spc = [s \in Senders |-> "idle"]
    /\ sh = [s \in Senders |-> None]
    /\ lpc = "poll"
    /\ ch = None
    /\ unseen = {}

Open == {h \in Handles : hstate[h] = "open"}

\* User code runs on the loop thread between polls and inside callbacks.
UserRuns == lpc \in {"poll", "cb"}

\* Reinitialising a handle some thread is still sending to is the user's error.
AsyncInit(h) ==
    /\ UserRuns
    /\ hstate[h] = "none"
    /\ \A s \in Senders : sh[s] # h
    /\ hstate' = [hstate EXCEPT ![h] = "open"]
    /\ pending' = [pending EXCEPT ![h] = FALSE]
    /\ async_handles' = Append(async_handles, h)
    /\ UNCHANGED <<queue, fd, senderVars, loopVars, unseen>>

(***************************************************************************)
(* uv_async_send.  Other threads cannot know that the loop thread has      *)
(* closed the handle: they may still send while its memory is valid.       *)
(***************************************************************************)
\* "Do a cheap read first."
SendRead(s, h) ==
    /\ spc[s] = "idle"
    /\ hstate[h] # "none"
    /\ unseen' = unseen \cup ({h} \cap Open)
    /\ \/ /\ pending[h]
          /\ UNCHANGED senderVars
       \/ /\ ~pending[h]
          /\ spc' = [spc EXCEPT ![s] = "cas"]
          /\ sh' = [sh EXCEPT ![s] = h]
    /\ UNCHANGED <<hstate, pending, listVars, fd, loopVars>>

\* cmpxchgi(&handle->pending, 0, 1): one of several senders wins.
SendCas(s) ==
    /\ spc[s] = "cas"
    /\ pending' = [pending EXCEPT ![sh[s]] = TRUE]
    /\ \/ /\ pending[sh[s]]
          /\ spc' = [spc EXCEPT ![s] = "idle"]
          /\ sh' = [sh EXCEPT ![s] = None]
       \/ /\ ~pending[sh[s]]
          /\ spc' = [spc EXCEPT ![s] = "write"]
          /\ UNCHANGED sh
    /\ UNCHANGED <<hstate, listVars, fd, loopVars, unseen>>

\* uv__async_send: at the limit of the counter the write fails and is ignored.
SendWrite(s) ==
    /\ spc[s] = "write"
    /\ fd' = IF fd = FdMax THEN fd ELSE fd + 1
    /\ spc' = [spc EXCEPT ![s] = "idle"]
    /\ sh' = [sh EXCEPT ![s] = None]
    /\ UNCHANGED <<hstate, pending, listVars, loopVars, unseen>>

(***************************************************************************)
(* The loop thread: poll, uv__async_io, uv__async_event.                   *)
(***************************************************************************)
\* The descriptor is readable: uv__async_io empties it.
AsyncIo ==
    /\ lpc = "poll"
    /\ fd > 0
    /\ fd' = 0
    /\ lpc' = "event"
    /\ UNCHANGED <<hstate, pending, listVars, senderVars, ch, unseen>>

\* QUEUE_MOVE
EventMove ==
    /\ lpc = "event"
    /\ queue' = async_handles
    /\ async_handles' = <<>>
    /\ lpc' = "scan"
    /\ UNCHANGED <<hstate, pending, fd, senderVars, ch, unseen>>

\* Mutant: a handle is served until nobody sends to it any more.
EventNextRepeats ==
    LET h == Head(queue) IN
    /\ lpc = "scan"
    /\ queue # <<>>
    /\ pending' = [pending EXCEPT ![h] = FALSE]
    /\ \/ /\ pending[h] /\ h \notin NullCb
          /\ lpc' = "call"
          /\ ch' = h
          /\ UNCHANGED listVars
       \/ /\ ~(pending[h] /\ h \notin NullCb)
          /\ queue' = Tail(queue)
          /\ async_handles' = Append(async_handles, h)
          /\ UNCHANGED loopVars
    /\ UNCHANGED <<hstate, fd, senderVars, unseen>>

\* Move the head back to the loop's list and claim its pending flag.
EventNext ==
    LET h == Head(queue) IN
    /\ lpc = "scan"
    /\ queue # <<>>
    /\ queue' = Tail(queue)
    /\ async_handles' = Append(async_handles, h)
    /\ pending' = [pending EXCEPT ![h] = FALSE]
    /\ \/ /\ pending[h] /\ h \notin NullCb
          /\ lpc' = "call"
          /\ ch' = h
       \/ /\ ~(pending[h] /\ h \notin NullCb)
          /\ UNCHANGED loopVars
    /\ UNCHANGED <<hstate, fd, senderVars, unseen>>

\* h->async_cb(h) starts.
Callback ==
    /\ lpc = "call"
    /\ lpc' = "cb"
    /\ unseen' = unseen \ {ch}
    /\ UNCHANGED <<hstate, pending, listVars, fd, senderVars, ch>>

\* Mutant: the flag is cleared once more when the callback has returned.
CallbackReturnClears ==
    /\ lpc = "cb"
    /\ pending' = [pending EXCEPT ![ch] = FALSE]
    /\ lpc' = "scan"
    /\ ch' = None
    /\ UNCHANGED <<hstate, listVars, fd, senderVars, unseen>>

CallbackReturn ==
    /\ lpc = "cb"
    /\ lpc' = "scan"
    /\ ch' = None
    /\ UNCHANGED <<hstate, pending, listVars, fd, senderVars, unseen>>

\* Mutant: the descriptor is drained after the scan as well.
EventReturnDrains ==
    /\ lpc = "scan"
    /\ queue = <<>>
    /\ fd' = 0
    /\ lpc' = "poll"
    /\ UNCHANGED <<hstate, pending, listVars, senderVars, ch, unseen>>

EventReturn ==
    /\ lpc = "scan"
    /\ queue = <<>>
    /\ lpc' = "poll"
    /\ UNCHANGED <<hstate, pending, listVars, fd, senderVars, ch, unseen>>

(***************************************************************************)
(* uv_close / uv__async_close: the handle leaves the list it is in, which  *)
(* inside a callback is either of the two.  The close callback runs later, *)
(* from uv__run_closing_handles.                                           *)
(***************************************************************************)
\* Mutant: only the loop's own list is searched.
CloseLoopListOnly(h) ==
    /\ UserRuns
    /\ hstate[h] = "open"
    /\ hstate' = [hstate EXCEPT ![h] = "closing"]
    /\ async_handles' = Unlink(async_handles, h)
    /\ unseen' = unseen \ {h}
    /\ UNCHANGED <<pending, queue, fd, senderVars, loopVars>>

Close(h) ==
    /\ UserRuns
    /\ hstate[h] = "open"
    /\ hstate' = [hstate EXCEPT ![h] = "closing"]
    /\ async_handles' = Unlink(async_handles, h)
    /\ queue' = Unlink(queue, h)
    /\ unseen' = unseen \ {h}
    /\ UNCHANGED <<pending, fd, senderVars, loopVars>>

FinishClose(h) ==
    /\ lpc = "poll"
    /\ hstate[h] = "closing"
    /\ hstate' = [hstate EXCEPT ![h] = "none"]
    /\ UNCHANGED <<pending, listVars, fd, senderVars, loopVars, unseen>>

-----------------------------------------------------------------------------
SenderStep(s) == SendCas(s) \/ SendWrite(s)

LoopStep ==
    \/ AsyncIo \/ EventMove \/ EventNext
    \/ Callback \/ CallbackReturn \/ EventReturn

User(h) == AsyncInit(h) \/ Close(h) \/ FinishClose(h)

Next ==
    \/ LoopStep
    \/ \E s \in Senders : SenderStep(s) \/ \E h \in Handles : SendRead(s, h)
    \/ \E h \in Handles : User(h)

Spec == Init /\ [][Next]_vars

(***************************************************************************)
(* A thread inside uv_async_send finishes the call; the loop polls, and    *)
(* its callbacks return.  Nobody is obliged to send, open or close.        *)
(***************************************************************************)
Fairness ==
    /\ WF_vars(LoopStep)
    /\ \A s \in Senders : WF_vars(SenderStep(s))

FairSpec == Spec /\ Fairness
-----------------------------------------------------------------------------
(* Properties *)

\* The values of the handles, the descriptor, the senders and the loop.
TypeOK ==
    /\ hstate \in [Handles -> {"none", "open", "closing"}]
    /\ pending \in [Handles -> BOOLEAN]
    /\ async_handles \in Seq(Handles)
    /\ queue \in Seq(Handles)
    /\ fd \in 0..FdMax
    /\ spc \in [Senders -> {"idle", "cas", "write"}]
    /\ sh \in [Senders -> Handles \cup {None}]
    /\ lpc \in {"poll", "event", "scan", "call", "cb"}
    /\ ch \in Handles \cup {None}
    /\ unseen \subseteq Open

\* Callbacks that close and open handles in the middle of a scan leave every
\* open handle linked exactly once and no other handle linked at all, so no
\* handle is skipped for good, visited twice or called after uv_close.
ListedOnce ==
    /\ Distinct(queue)
    /\ Distinct(async_handles)
    /\ ToSet(queue) \cap ToSet(async_handles) = {}
    /\ ToSet(queue) \cup ToSet(async_handles) = Open
    /\ lpc = "call" => ch \in Open

\* No lost wakeup: the flag makes later senders return at once, so as long as
\* it is set something must still bring the loop to the handle: the write of
\* the sender that set it, the descriptor, or a scan that has yet to reach it.
WakeupArmed ==
    \A h \in Open : pending[h] =>
        \/ fd > 0
        \/ lpc = "event"
        \/ h \in ToSet(queue)
        \/ \E s \in Senders : spc[s] = "write" /\ sh[s] = h

\* No lost send: until a callback has started after a send began, the flag is
\* set, or the sender is about to set it, or the callback is about to start.
NoLostSend ==
    \A h \in unseen \ NullCb :
        \/ pending[h]
        \/ lpc = "call" /\ ch = h
        \/ \E s \in Senders : spc[s] = "cas" /\ sh[s] = h

\* Every send is followed by a callback that starts after it, unless the
\* handle is closed first, however often the other handles are sent to,
\* opened and closed in the meantime: no handle starves.
EverySendSeen ==
    \A h \in Handles \ NullCb :
        (h \in unseen) ~> (h \notin unseen)
=============================================================================
