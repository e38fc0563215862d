------------------------------- MODULE Signal -------------------------------
(***************************************************************************)
(* Signal handles of src/src/unix/signal.cpp: the tree shared by all loops *)
(* and its lock, the handler that writes a message for every watcher into  *)
(* its loop's pipe, the loops that read the pipes, and the close that      *)
(* waits for messages under way.  The handler runs on any thread at any    *)
(* moment the lock is free (signals are blocked while it is held); the     *)
(* loops run concurrently with it.                                         *)
(***************************************************************************)
EXTENDS Queue

CONSTANTS
    Signals,     \* signal handles
    LoopOf,      \* the loop of each handle
    Signums,     \* signal numbers, positive
    PipeSize,    \* messages a pipe holds
    BufSize,     \* messages a loop reads at once: 32 in the code
    MaxRaised    \* bound: signals raised

Loops == {LoopOf[h] : h \in Signals}

ASSUME SignalAssumption ==
    /\ Signums \subseteq Nat \ {0} /\ IsFiniteSet(Signums) /\ IsFiniteSet(Signals)
    /\ PipeSize \in Nat \ {0} /\ BufSize \in Nat \ {0} /\ MaxRaised \in Nat

VARIABLES
    signum,      \* signum[h]: what h watches, 0 for nothing; its place in the tree
    caught,      \* caught_signals
    dispatched,  \* dispatched_signals
    life,        \* open, closing (uv_close called), pending (on the closing
                 \* list) or freed
    registered,  \* signal numbers with uv__signal_handler as their action
    pipe,        \* pipe[l]: the messages in the pipe of l
    buf,         \* buf[l]: the messages l has read and not dispatched
    calling,     \* the loops that are in a signal callback
    handler,     \* the run of the handler: signal, watchers to go, watcher
                 \* whose message is written and not counted
    raised       \* signals raised so far

signalVars == <<signum, caught, dispatched, life, registered, pipe, buf, calling,
                handler, raised>>
treeVars == <<signum, registered>>
eventVars == <<dispatched, life, buf, calling>>
handlerVars == <<caught, handler, raised>>

Watchers(s) == {h \in Signals : signum[h] = s}
Unlocked == handler.signum = 0

----------------------------------------------------------------------------
(* uv__signal_handler, with the lock held from its first step to its last. *)

uv__signal_handler(s) ==
    /\ Unlocked /\ s \in registered /\ raised < MaxRaised
    /\ handler' = [signum |-> s, rest |-> Watchers(s), wrote |-> {}]
    /\ raised' = raised + 1
    /\ UNCHANGED <<treeVars, eventVars, caught, pipe>>

\* A message is written for the next watcher, unless the pipe is full.
HandlerWrites(h) ==
    /\ handler.wrote = {} /\ h \in handler.rest
    /\ LET l == LoopOf[h]
           fits == Len(pipe[l]) < PipeSize
       IN  /\ pipe' = IF fits THEN [pipe EXCEPT ![l] = Append(@, <<h, handler.signum>>)]
                              ELSE pipe
           /\ handler' = [handler EXCEPT !.rest = @ \ {h}, !.wrote = IF fits THEN {h} ELSE {}]
    /\ UNCHANGED <<treeVars, eventVars, caught, raised>>

\* It is counted after that: the loop may already have dispatched it.
HandlerCounts(h) ==
    /\ h \in handler.wrote
    /\ caught' = [caught EXCEPT ![h] = @ + 1]
    /\ handler' = [handler EXCEPT !.wrote = {}]
    /\ UNCHANGED <<treeVars, eventVars, pipe, raised>>

HandlerReturns ==
    /\ ~Unlocked /\ handler.rest = {} /\ handler.wrote = {}
    /\ handler' = [handler EXCEPT !.signum = 0]
    /\ UNCHANGED <<treeVars, eventVars, caught, pipe, raised>>

----------------------------------------------------------------------------
(* The calls of the user, from the loop's thread outside of and in signal  *)
(* callbacks.                                                              *)

SignalCall(h) == LoopOf[h] \in calling \/ buf[LoopOf[h]] = <<>>

\* The first watcher of a signal installs the handler.  One that watches
\* another signal is stopped first, by a uv__signal_stop of its own.
uv_signal_start(h, s) ==
    /\ SignalCall(h) /\ life[h] = "open" /\ signum[h] = 0 /\ Unlocked
    /\ signum' = [signum EXCEPT ![h] = s]
    /\ registered' = registered \cup {s}
    /\ UNCHANGED <<eventVars, handlerVars, pipe>>

\* The last one to leave removes it.
Unwatch(h) ==
    IF signum[h] = 0 THEN UNCHANGED treeVars
    ELSE /\ Unlocked
         /\ signum' = [signum EXCEPT ![h] = 0]
         /\ registered' = IF Watchers(signum[h]) = {h} THEN registered \ {signum[h]}
                          ELSE registered

uv__signal_stop(h) ==
    /\ SignalCall(h) /\ life[h] = "open" /\ signum[h] # 0
    /\ Unwatch(h)
    /\ UNCHANGED <<eventVars, handlerVars, pipe>>

\* Mutant: the close does not wait.
uv__signal_close_at_once(h) ==
    /\ SignalCall(h) /\ life[h] = "open"
    /\ Unwatch(h)
    /\ life' = [life EXCEPT ![h] = "pending"]
    /\ UNCHANGED <<dispatched, buf, calling, handlerVars, pipe>>

\* The close callback has to wait for the messages under way.
uv__signal_close(h) ==
    /\ SignalCall(h) /\ life[h] = "open"
    /\ Unwatch(h)
    /\ life' = [life EXCEPT ![h] = IF caught[h] = dispatched[h] THEN "pending" ELSE "closing"]
    /\ UNCHANGED <<dispatched, buf, calling, handlerVars, pipe>>

\* The closing phase; the user frees the handle and may use it again.
FinishSignal(h) ==
    /\ buf[LoopOf[h]] = <<>> /\ life[h] = "pending"
    /\ life' = [life EXCEPT ![h] = "freed"]
    /\ UNCHANGED <<dispatched, buf, calling, treeVars, handlerVars, pipe>>

uv_signal_init(h) ==
    /\ SignalCall(h) /\ life[h] = "freed"
    /\ life' = [life EXCEPT ![h] = "open"]
    /\ caught' = [caught EXCEPT ![h] = 0]
    /\ dispatched' = [dispatched EXCEPT ![h] = 0]
    /\ UNCHANGED <<treeVars, pipe, buf, calling, handler, raised>>

----------------------------------------------------------------------------
(* uv__signal_event.                                                       *)

ReadPipe(l) ==
    /\ buf[l] = <<>> /\ pipe[l] # <<>>
    /\ LET n == IF Len(pipe[l]) < BufSize THEN Len(pipe[l]) ELSE BufSize IN
       /\ buf' = [buf EXCEPT ![l] = SubSeq(pipe[l], 1, n)]
       /\ pipe' = [pipe EXCEPT ![l] = SubSeq(@, n + 1, Len(@))]
    /\ UNCHANGED <<treeVars, dispatched, life, calling, handlerVars>>

\* After the callback, or instead of it: the message is dispatched, and a
\* close that was waiting for it goes ahead.
Dispatched(l) ==
    LET h == Head(buf[l])[1] IN
    /\ dispatched' = [dispatched EXCEPT ![h] = @ + 1]
    /\ life' = IF life[h] = "closing" /\ caught[h] = dispatched[h] + 1
               THEN [life EXCEPT ![h] = "pending"] ELSE life
    /\ buf' = [buf EXCEPT ![l] = Tail(@)]

uv__signal_event(l) ==
    /\ buf[l] # <<>> /\ l \notin calling
    /\ LET m == Head(buf[l]) IN
       IF m[2] = signum[m[1]]
       THEN calling' = calling \cup {l} /\ UNCHANGED <<dispatched, life, buf>>
       ELSE calling' = calling /\ Dispatched(l)
    /\ UNCHANGED <<treeVars, handlerVars, pipe>>

SignalCbReturns(l) ==
    /\ l \in calling
    /\ calling' = calling \ {l}
    /\ Dispatched(l)
    /\ UNCHANGED <<treeVars, handlerVars, pipe>>

SignalInit ==
    /\ signum = [h \in Signals |-> 0]
    /\ caught = [h \in Signals |-> 0] /\ dispatched = [h \in Signals |-> 0]
    /\ life = [h \in Signals |-> "open"]
    /\ registered = {} /\ raised = 0 /\ calling = {}
    /\ pipe = [l \in Loops |-> <<>>] /\ buf = [l \in Loops |-> <<>>]
    /\ handler = [signum |-> 0, rest |-> {}, wrote |-> {}]

SignalNext ==
    \/ \E s \in Signums : uv__signal_handler(s) \/ \E h \in Signals : uv_signal_start(h, s)
    \/ \E h \in Signals : \/ HandlerWrites(h) \/ HandlerCounts(h)
                          \/ uv__signal_stop(h) \/ uv__signal_close(h)
                          \/ FinishSignal(h) \/ uv_signal_init(h)
    \/ \E l \in Loops : ReadPipe(l) \/ uv__signal_event(l) \/ SignalCbReturns(l)
    \/ HandlerReturns

SignalSpec == SignalInit /\ [][SignalNext]_signalVars

----------------------------------------------------------------------------
(* Properties.                                                             *)

\* The messages for h in the pipe of its loop and in the loop's buffer.
MessagesIn(q, h) == Cardinality({i \in 1..Len(q) : q[i][1] = h})
Messages(h) == MessagesIn(pipe[LoopOf[h]], h) + MessagesIn(buf[LoopOf[h]], h)

\* Caught and dispatched differ by the messages under way, also while the
\* handler has written one it has not counted and the loop is already
\* dispatching it; a message dropped by a full pipe is not counted.
SignalsCounted ==
    \A h \in Signals :
        caught[h] + (IF h \in handler.wrote THEN 1 ELSE 0) = dispatched[h] + Messages(h)

\* No message outlives its handle: nothing in a pipe or a buffer points to
\* a handle that is on the closing list or freed.  A close that waits for
\* messages has one under way to wake it up, and no callback is made on a
\* closing handle.
CloseWaitsForMessages ==
    \A h \in Signals :
        /\ life[h] \in {"pending", "freed"} => Messages(h) = 0
        /\ life[h] = "closing" => Messages(h) > 0
        /\ life[h] # "open" => signum[h] = 0 /\ h \notin handler.rest \cup handler.wrote

\* The process-wide action of a signal is the handler exactly while some
\* loop watches the signal.
HandlerInstalled == registered = {s \in Signums : Watchers(s) # {}}

\* From the signal handler through the pipe to uv__signal_event and to the
\* close: every message is counted, none outlives its handle, and the
\* handler is installed while it is wanted.
SignalsRight == SignalsCounted /\ CloseWaitsForMessages /\ HandlerInstalled
=============================================================================
