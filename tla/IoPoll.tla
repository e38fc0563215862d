------------------------------- MODULE IoPoll -------------------------------
(***************************************************************************)
(* I/O watchers (core.cpp), the epoll loop uv__io_poll (linux-core.cpp)    *)
(* and poll handles (poll.cpp).                                            *)
(*                                                                         *)
(* Streams and UDP handles own their descriptor: closing them stops the    *)
(* watcher, removes the stale events and closes the descriptor.  A poll    *)
(* handle only borrows it: closing it stops the watcher, and the user may  *)
(* close the descriptor afterwards.  Either way the number is free for the *)
(* next file that is opened, while events of the old one may still be in   *)
(* the array that uv__io_poll is working through.                          *)
(*                                                                         *)
(* A file has an identity for as long as anything remembers it; the        *)
(* kernel's registrations belong to a number and a file, as in epoll.  The *)
(* loop's own async and signal watchers are not among Watchers: they count *)
(* in nfds, the first is a callback of a batch and the second decides how  *)
(* a batch ends.  Timeouts are zero or not: Timer has the arithmetic.      *)
(***************************************************************************)
EXTENDS Queue

CONSTANTS
    Streams,        \* watchers of streams and UDP handles
    PollHandles,    \* watchers of poll handles
    Numbers,        \* descriptor numbers
    Inherited,      \* the numbers whose files another process may have open too
    Nwatchers,      \* size of loop->watchers once the loop is initialised
    Asked,          \* the masks passed to uv_poll_start
    Ready,          \* what a file may be ready for
    MaxFiles,       \* bound: files known to the kernel at a time
    MaxBatch,       \* ARRAY_SIZE(events) of uv__io_poll
    MaxPolls,       \* the count of 48 of uv__io_poll
    NULL

Watchers == Streams \cup PollHandles

\* What a watcher can ask for; UV__POLLRDHUP behaves like POLLIN here.
Mask == {"POLLIN", "POLLOUT"}
Trouble == {"POLLERR", "POLLHUP"}

Files == 1..MaxFiles

\* uv_loop_init starts signal_io_watcher and the watcher of async_watcher.
OwnFds == 2

ASSUME IoAssumption ==
    /\ Streams \cap PollHandles = {}
    /\ Numbers \subseteq Nat /\ IsFiniteSet(Numbers)
    /\ Inherited \subseteq Numbers
    /\ Nwatchers \in Nat
    /\ Asked \subseteq (SUBSET Mask) \ {{}}
    /\ Ready \subseteq (SUBSET (Mask \cup Trouble)) \ {{}}
    /\ MaxFiles \in Nat
    /\ MaxBatch \in Nat \ {0}
    /\ MaxPolls \in Nat \ {0}
    /\ NULL \notin Watchers

\* next_power_of_two finds a power for every size that the table can be asked for.
ASSUME PowersReach == \A f \in Numbers : \E k \in 0..(f + 3) : 2^k >= f + 3

VARIABLES
    file,           \* the file open at each number, 0 if none
    borrowed,       \* the files that a poll handle was initialised with
    kernel,         \* the events each <<number, file>> is registered for
    hstate, fd,     \* each watcher's handle, and its descriptor
    pevents, events,        \* the fields of a watcher
    watchers, nfds,         \* loop->watchers but for its two last entries, loop->nfds
    watcher_queue,
    pending,        \* the watchers in loop->pending_queue or in uv__run_pending's list
    fake,           \* do the two last entries of loop->watchers point to the array
    array,          \* the events that uv__io_poll has yet to look at
    nevents, full, have_signals, count, block,      \* locals of uv__io_poll
    pc

fileVars  == <<file, borrowed>>
watchVars == <<pevents, events, watchers, nfds, watcher_queue, fake>>
pollVars  == <<nevents, full, have_signals, count, block>>
vars == <<fileVars, kernel, hstate, fd, watchVars, pending, array, pollVars, pc>>

Init ==
    /\ file = [f \in Numbers |-> 0]
    /\ borrowed = {}
    /\ kernel = [p \in Numbers \X Files |-> {}]
    /\ hstate = [w \in Watchers |-> "none"]
    /\ fd = [w \in Watchers |-> -1]
    /\ pevents = [w \in Watchers |-> {}]
    /\ events = [w \in Watchers |-> {}]
    /\ watchers = [i \in 0..(Nwatchers - 1) |-> NULL]
    /\ nfds = OwnFds
    /\ watcher_queue = <<>>
    /\ pending = {}
    /\ fake = FALSE
    /\ array = <<>>
    /\ nevents = FALSE
    /\ full = FALSE
    /\ have_signals = FALSE
    /\ count = 0
    /\ block = FALSE
    /\ pc = "run"

\* User code: callbacks of uv__io_poll, and everything else of uv_run ("run").
UserCode == pc \in {"run", "cb", "signal cb"}

At(f) == <<f, file[f]>>

\* EPOLL_CTL_DEL; its failure on a closed or unregistered descriptor is ignored.
EpollDel(k, f) == IF file[f] = 0 THEN k ELSE [k EXCEPT ![At(f)] = {}]

-----------------------------------------------------------------------------
(* uv__io_start and uv__io_stop, from one value of watchVars to the next *)

Io == [pevents |-> pevents, events |-> events, watchers |-> watchers,
       nfds |-> nfds, queue |-> watcher_queue, fake |-> fake]

Become(s) ==
    /\ pevents' = s.pevents
    /\ events' = s.events
    /\ watchers' = s.watchers
    /\ nfds' = s.nfds
    /\ watcher_queue' = s.queue
    /\ fake' = s.fake

Size(s) == Cardinality(DOMAIN s.watchers)

next_power_of_two(n) == Min({p \in {2^k : k \in 0..n} : p >= n})

Grown(s, len) ==
    [i \in 0..(next_power_of_two(len + 2) - 3) |->
        IF i < Size(s) THEN s.watchers[i] ELSE NULL]

\* Mutant: the entries behind the watchers are not carried over.
maybe_resize_drops(s, len) ==
    IF len <= Size(s) THEN s
    ELSE [s EXCEPT !.watchers = Grown(s, len), !.fake = FALSE]

\* The table grows; the two entries behind the watchers move to its new end.
maybe_resize(s, len) ==
    IF len <= Size(s) THEN s
    ELSE [s EXCEPT !.watchers = Grown(s, len)]

InQueue(s, w) == Contains(s.queue, w)

uv__io_start(s0, w, ev) ==
    LET s == maybe_resize([s0 EXCEPT !.pevents[w] = @ \cup ev], fd[w] + 1)
    IN  IF s.events[w] = s.pevents[w] THEN s
        ELSE [s EXCEPT !.queue = IF InQueue(s, w) THEN @ ELSE Append(@, w),
                       !.watchers[fd[w]] = IF @ = NULL THEN w ELSE @,
                       !.nfds = IF s.watchers[fd[w]] = NULL THEN @ + 1 ELSE @]

\* Mutant: w->events keeps the registered mask, which a restart takes for granted.
Unwatched_stale(s, w) ==
    [s EXCEPT !.watchers[fd[w]] = NULL, !.nfds = @ - 1]

\* The registration with the kernel stays until an event of it comes in.
Unwatched(s, w) ==
    [s EXCEPT !.watchers[fd[w]] = NULL, !.nfds = @ - 1, !.events[w] = {}]

StopAll(s0, w) ==
    LET s == [s0 EXCEPT !.pevents[w] = {}, !.queue = Unlink(@, w)]
    IN  IF s.watchers[fd[w]] = NULL THEN s ELSE Unwatched(s, w)

uv__io_stop(s, w, ev) ==
    IF fd[w] = -1 \/ fd[w] >= Size(s) THEN s
    ELSE IF s.pevents[w] \subseteq ev THEN StopAll(s, w)
    ELSE [s EXCEPT !.pevents[w] = @ \ ev,
                   !.queue = IF InQueue(s, w) THEN @ ELSE Append(@, w)]

-----------------------------------------------------------------------------
(* Streams and UDP handles *)

\* Files that are open nowhere, registered nowhere and reported nowhere.
Fresh == {x \in Files :
            /\ \A f \in Numbers : file[f] # x /\ kernel[f, x] = {}
            /\ \A i \in DOMAIN array : array[i].file # x}

\* External: open, socket or accept returns the lowest free number.
OpenFile(f) ==
    /\ Fresh # {}
    /\ file[f] = 0
    /\ \A g \in Numbers : g < f => file[g] # 0
    /\ file' = [file EXCEPT ![f] = Min(Fresh)]
    /\ borrowed' = borrowed \ {Min(Fresh)}

uv__io_init(w, f) ==
    /\ fd' = [fd EXCEPT ![w] = f]
    /\ pevents' = [pevents EXCEPT ![w] = {}]
    /\ events' = [events EXCEPT ![w] = {}]
    /\ UNCHANGED <<watchers, nfds, watcher_queue, fake>>

\* A handle that starts with a descriptor, or gets it from uv__stream_open.
Open(w, f) ==
    /\ UserCode
    /\ hstate[w] = "none"
    /\ OpenFile(f)
    /\ uv__io_init(w, f)
    /\ hstate' = [hstate EXCEPT ![w] = "open"]
    /\ UNCHANGED <<kernel, pending, array, pollVars, pc>>

Start(w, e) ==
    /\ UserCode
    /\ hstate[w] = "open"
    /\ Become(uv__io_start(Io, w, {e}))
    /\ UNCHANGED <<fileVars, kernel, hstate, fd, pending, array, pollVars, pc>>

Stop(w, e) ==
    /\ UserCode
    /\ hstate[w] = "open"
    /\ Become(uv__io_stop(Io, w, {e}))
    /\ UNCHANGED <<fileVars, kernel, hstate, fd, pending, array, pollVars, pc>>

\* Serves delayed errors, finished writes and completed sends.
uv__io_feed(w) ==
    /\ UserCode
    /\ hstate[w] = "open"
    /\ w \notin pending
    /\ pending' = pending \cup {w}
    /\ UNCHANGED <<fileVars, kernel, hstate, fd, watchVars, array, pollVars, pc>>

\* uv__platform_invalidate_fd on the kernel's registrations,
Deregistered(f) == EpollDel(kernel, f)

\* and on the array, which it finds behind the watchers.
Invalidated(f) ==
    IF fake THEN [i \in DOMAIN array |-> IF array[i].fd = f THEN [array[i] EXCEPT !.fd = -1] ELSE array[i]]
    ELSE array

\* close() drops the registration with the last reference to the file.
DroppedByClose(k, f) == {EpollDel(k, f)} \cup (IF f \in Inherited THEN {k} ELSE {})

\* uv__io_close, then close().
CloseStream(w) ==
    LET f == fd[w] IN
    /\ UserCode
    /\ hstate[w] = "open"
    /\ Become(uv__io_stop(Io, w, Mask))
    /\ pending' = pending \ {w}
    /\ array' = Invalidated(f)
    /\ kernel' \in DroppedByClose(Deregistered(f), f)
    /\ file' = [file EXCEPT ![f] = 0]
    /\ fd' = [fd EXCEPT ![w] = -1]
    /\ hstate' = [hstate EXCEPT ![w] = "closing"]
    /\ UNCHANGED <<borrowed, pollVars, pc>>

\* uv__run_closing_handles has called the close callback; the memory may be used again.
Closed(w) ==
    /\ pc = "run"
    /\ hstate[w] = "closing"
    /\ hstate' = [hstate EXCEPT ![w] = "none"]
    /\ fd' = [fd EXCEPT ![w] = -1]
    /\ UNCHANGED <<fileVars, kernel, watchVars, pending, array, pollVars, pc>>

-----------------------------------------------------------------------------
(* Poll handles, on descriptors of the user *)

UserOpen(f) ==
    /\ UserCode
    /\ OpenFile(f)
    /\ UNCHANGED <<kernel, hstate, fd, watchVars, pending, array, pollVars, pc>>

\* The user closes a descriptor only after the handles on it are closed.
UserClose(f) ==
    /\ UserCode
    /\ file[f] # 0
    /\ \A w \in Watchers : ~(hstate[w] = "open" /\ fd[w] = f)
    /\ file' = [file EXCEPT ![f] = 0]
    /\ kernel' \in DroppedByClose(kernel, f)
    /\ UNCHANGED <<borrowed, hstate, fd, watchVars, pending, array, pollVars, pc>>

\* uv__io_check_fd adds the descriptor to the epoll set, or finds it there, and removes it.
PollInit(w, f) ==
    /\ UserCode
    /\ hstate[w] = "none"
    /\ file[f] # 0
    /\ \A v \in Watchers : ~(hstate[v] = "open" /\ fd[v] = f)
    /\ kernel' = EpollDel(kernel, f)
    /\ uv__io_init(w, f)
    /\ hstate' = [hstate EXCEPT ![w] = "open"]
    /\ borrowed' = borrowed \cup {file[f]}
    /\ UNCHANGED <<file, pending, array, pollVars, pc>>

PollStart(w, ev) ==
    /\ UserCode
    /\ hstate[w] = "open"
    /\ Become(uv__io_start(uv__io_stop(Io, w, Mask), w, ev))
    /\ UNCHANGED <<fileVars, kernel, hstate, fd, pending, array, pollVars, pc>>

\* uv_poll_stop, and uv_poll_start with no events.
PollStop(w) ==
    /\ UserCode
    /\ hstate[w] = "open"
    /\ Become(uv__io_stop(Io, w, Mask))
    /\ UNCHANGED <<fileVars, kernel, hstate, fd, pending, array, pollVars, pc>>

\* uv__poll_close only stops: neither the array nor the registration is touched.
PollClose(w) ==
    /\ UserCode
    /\ hstate[w] = "open"
    /\ Become(uv__io_stop(Io, w, Mask))
    /\ hstate' = [hstate EXCEPT ![w] = "closing"]
    /\ UNCHANGED <<fileVars, kernel, fd, pending, array, pollVars, pc>>

-----------------------------------------------------------------------------
(* uv__run_pending; Loop has the order of its list *)

PendingCall(w) ==
    /\ pc = "run"
    /\ w \in pending
    /\ pending' = pending \ {w}
    /\ UNCHANGED <<fileVars, kernel, hstate, fd, watchVars, array, pollVars, pc>>

-----------------------------------------------------------------------------
(* uv__io_poll *)

\* The locals of uv__io_poll do not outlive it.
LocalsEnd ==
    /\ nevents' = FALSE
    /\ full' = FALSE
    /\ have_signals' = FALSE
    /\ count' = 0
    /\ block' = FALSE

\* The watchers whose mask has changed are registered, then the loop waits.
Register ==
    LET Queued == ToSet(watcher_queue) IN
    /\ pc = "run"
    /\ kernel' = [p \in DOMAIN kernel |->
                    IF \E w \in Queued : p = At(fd[w])
                    THEN pevents[CHOOSE w \in Queued : p = At(fd[w])]
                    ELSE kernel[p]]
    /\ events' = [w \in Watchers |-> IF w \in Queued THEN pevents[w] ELSE events[w]]
    /\ watcher_queue' = <<>>
    /\ count' = MaxPolls
    /\ block' \in BOOLEAN
    /\ pc' = "wait"
    /\ UNCHANGED <<fileVars, hstate, fd, pevents, watchers, nfds, fake, pending, array,
                   nevents, full, have_signals>>

\* External: errors are reported whether asked for or not.
Reported(p, ready) == ready \cap (kernel[p] \cup Trouble)

\* External: at most MaxBatch of the registered files have something to report.
\* If the async watcher is among them, its event is the first.
EpollWait ==
    /\ pc = "wait"
    /\ \E S \in SUBSET {p \in DOMAIN kernel : kernel[p] # {}}, own \in SUBSET {"async", "signal"} :
         LET n == Cardinality(S) + Cardinality(own) IN
         /\ n \in 1..MaxBatch
         /\ \E order \in SetToSeqs(S), r \in [S -> Ready] :
              /\ \A p \in S : Reported(p, r[p]) # {}
              /\ array' = [i \in DOMAIN order |->
                             [fd |-> order[i][1], file |-> order[i][2],
                              events |-> Reported(order[i], r[order[i]])]]
         /\ have_signals' = ("signal" \in own)
         /\ full' = (n = MaxBatch)
         /\ nevents' = ("async" \in own)
         /\ pc' = IF "async" \in own THEN "cb" ELSE "scan"
    /\ fake' = TRUE
    /\ UNCHANGED <<fileVars, kernel, hstate, fd, pevents, events, watchers, nfds,
                   watcher_queue, pending, count, block>>

\* The timeout has passed, or a signal came with no time left.
WaitOver ==
    /\ pc = "wait"
    /\ LocalsEnd
    /\ pc' = "run"
    /\ UNCHANGED <<fileVars, kernel, hstate, fd, watchVars, pending, array>>

\* What the watcher gets to see of an event.
Delivered(w, ev) ==
    LET kept == ev \cap (pevents[w] \cup Trouble)
    IN  IF kept \in {{"POLLERR"}, {"POLLHUP"}} THEN kept \cup pevents[w] ELSE kept

Scanning == pc = "scan" /\ array # <<>>
Watcher(e) == watchers[e.fd]

SkipInvalidated ==
    /\ Scanning
    /\ Head(array).fd = -1
    /\ array' = Tail(array)
    /\ UNCHANGED <<fileVars, kernel, hstate, fd, watchVars, pending, pollVars, pc>>

\* Nobody watches this descriptor any longer.
Disarm ==
    /\ Scanning
    /\ Head(array).fd # -1
    /\ Watcher(Head(array)) = NULL
    /\ kernel' = EpollDel(kernel, Head(array).fd)
    /\ array' = Tail(array)
    /\ UNCHANGED <<fileVars, hstate, fd, watchVars, pending, pollVars, pc>>

SkipUnwanted ==
    /\ Scanning
    /\ Head(array).fd # -1
    /\ Watcher(Head(array)) # NULL
    /\ Delivered(Watcher(Head(array)), Head(array).events) = {}
    /\ array' = Tail(array)
    /\ UNCHANGED <<fileVars, kernel, hstate, fd, watchVars, pending, pollVars, pc>>

\* uv__poll_io stops the watcher of a poll handle on an error.
Dispatch ==
    /\ Scanning
    /\ Head(array).fd # -1
    /\ Watcher(Head(array)) # NULL
    /\ LET w == Watcher(Head(array))
           ev == Delivered(w, Head(array).events)
       IN  /\ ev # {}
           /\ Become(IF w \in PollHandles /\ "POLLERR" \in ev THEN uv__io_stop(Io, w, Mask) ELSE Io)
    /\ nevents' = TRUE
    /\ array' = Tail(array)
    /\ pc' = "cb"
    /\ UNCHANGED <<fileVars, kernel, hstate, fd, pending, full, have_signals, count, block>>

CallbackReturns ==
    /\ pc = "cb"
    /\ pc' = "scan"
    /\ UNCHANGED <<fileVars, kernel, hstate, fd, watchVars, pending, array, pollVars>>

\* Signal watchers come last, and end the poll.
RunSignals ==
    /\ pc = "scan"
    /\ array = <<>>
    /\ have_signals
    /\ LocalsEnd
    /\ pc' = "signal cb"
    /\ UNCHANGED <<fileVars, kernel, hstate, fd, watchVars, pending, array>>

SignalsDone ==
    /\ pc = "signal cb"
    /\ fake' = FALSE
    /\ pc' = "run"
    /\ UNCHANGED <<fileVars, kernel, hstate, fd, pevents, events, watchers, nfds,
                   watcher_queue, pending, array, pollVars>>

\* Mutant: a full array is always followed by another poll.
PollAgain_unbounded ==
    /\ nevents
    /\ full
    /\ UNCHANGED count
    /\ block' = FALSE

\* Poll for more events, but do not block and not more than count times.
PollAgain ==
    /\ nevents
    /\ full
    /\ count > 1
    /\ count' = count - 1
    /\ block' = FALSE

\* A timeout that has not passed yet.
WaitOn ==
    /\ ~nevents
    /\ block
    /\ UNCHANGED <<count, block>>

BatchEnds ==
    /\ pc = "scan"
    /\ array = <<>>
    /\ ~have_signals
    /\ fake' = FALSE
    /\ UNCHANGED <<fileVars, kernel, hstate, fd, pevents, events, watchers, nfds,
                   watcher_queue, pending, array>>

Again ==
    /\ BatchEnds
    /\ PollAgain \/ WaitOn
    /\ nevents' = FALSE
    /\ full' = FALSE
    /\ UNCHANGED have_signals
    /\ pc' = "wait"

\* A wait with a timeout may also have used it up.
Return ==
    /\ BatchEnds
    /\ nevents => ~(full /\ count > 1)
    /\ LocalsEnd
    /\ pc' = "run"

-----------------------------------------------------------------------------
PollStep ==
    \/ Register \/ EpollWait \/ WaitOver
    \/ SkipInvalidated \/ Disarm \/ SkipUnwanted \/ Dispatch
    \/ CallbackReturns \/ RunSignals \/ SignalsDone
    \/ Again \/ Return

UserStep ==
    \/ \E w \in Streams :
         \/ \E f \in Numbers : Open(w, f)
         \/ \E e \in Mask : Start(w, e) \/ Stop(w, e)
         \/ uv__io_feed(w) \/ CloseStream(w)
    \/ \E w \in PollHandles :
         \/ \E f \in Numbers : PollInit(w, f)
         \/ \E ev \in Asked : PollStart(w, ev)
         \/ PollStop(w) \/ PollClose(w)
    \/ \E w \in Streams : PendingCall(w)
    \/ \E w \in Watchers : Closed(w)
    \/ \E f \in Numbers : UserOpen(f) \/ UserClose(f)

Next == PollStep \/ UserStep

Spec == Init /\ [][Next]_vars

\* Callbacks return, the other phases of uv_run end (Loop), and uv_run is called
\* again or goes round.
FairSpec == Spec /\ WF_vars(PollStep)
-----------------------------------------------------------------------------
(* Properties *)

\* Every variable of the loop, its watchers and the files has its type; the
\* table of watchers never shrinks below the size of uv_loop_init.
TypeOK ==
    /\ file \in [Numbers -> Files \cup {0}]
    /\ borrowed \subseteq Files
    /\ kernel \in [Numbers \X Files -> SUBSET Mask]
    /\ hstate \in [Watchers -> {"none", "open", "closing"}]
    /\ fd \in [Watchers -> Numbers \cup {-1}]
    /\ pevents \in [Watchers -> SUBSET Mask]
    /\ events \in [Watchers -> SUBSET Mask]
    /\ DOMAIN watchers = 0..(Size(Io) - 1)
    /\ Size(Io) >= Nwatchers
    /\ \A i \in DOMAIN watchers : watchers[i] \in Watchers \cup {NULL}
    /\ nfds \in Nat
    /\ watcher_queue \in Seq(Watchers)
    /\ pending \subseteq Streams
    /\ array \in Seq([fd : Numbers \cup {-1}, file : Files, events : SUBSET (Mask \cup Trouble)])
    /\ {fake, nevents, full, have_signals, block} \subseteq BOOLEAN
    /\ count \in 0..MaxPolls
    /\ pc \in {"run", "wait", "scan", "cb", "signal cb"}

\* The table, nfds, the queue of changed watchers and the masks tell the same
\* story: a watcher that wants events has its own entry in the table, nfds
\* counts the entries and the loop's own (uv__io_poll returns at once when it is 0), a watcher
\* whose mask differs from the registered one is queued, and a handle that is
\* closed is linked nowhere.
TableAgrees ==
    /\ \A w \in Watchers :
         /\ pevents[w] # {} <=> \E i \in DOMAIN watchers : watchers[i] = w
         /\ pevents[w] # {} => /\ hstate[w] = "open"
                               /\ fd[w] \in DOMAIN watchers /\ watchers[fd[w]] = w
         /\ pevents[w] # events[w] => Contains(watcher_queue, w)
         /\ Contains(watcher_queue, w) => pevents[w] # {}
         /\ w \in pending => hstate[w] = "open"
    /\ nfds = OwnFds + Cardinality({i \in DOMAIN watchers : watchers[i] # NULL})
    /\ Distinct(watcher_queue)

\* What libuv believes to be registered is registered, so that EPOLL_CTL_MOD
\* finds it (uv__io_poll aborts otherwise); and no registration of a file
\* that a stream or a UDP handle has closed is left behind to report junk.
KernelAgrees ==
    /\ \A w \in Watchers :
         events[w] # {} => file[fd[w]] # 0 /\ kernel[At(fd[w])] = events[w]
    /\ \A f \in Numbers, x \in Files :
         kernel[f, x] # {} /\ file[f] # x => x \in borrowed

\* The watchers' masks, the table, the queue of changes and the kernel's
\* registrations agree, whatever callbacks start, stop, close and reopen.
TablesAgree == TableAgrees /\ KernelAgrees

\* An event that uv__io_poll has yet to look at is about the file that is
\* open at its number now, also when a callback has closed a descriptor, a
\* new file has got its number, and the table of watchers has moved.  Files
\* that a poll handle has borrowed are the exception: uv__poll_close leaves
\* their events in the array.
NoStaleEvent ==
    \A i \in DOMAIN array :
        \/ array[i].fd = -1
        \/ file[array[i].fd] = array[i].file
        \/ array[i].file \in borrowed

\* A watcher that is started, or whose mask changes, is registered with the
\* kernel or stopped again before long: callbacks that keep the array full
\* cannot hold up uv__io_poll for ever.
EveryStartRegistered ==
    (watcher_queue # <<>>) ~> (watcher_queue = <<>>)
=============================================================================
