# A TLA+ verification of libuv-windows

The repository is libuv's Unix backend compiled for Windows over a layer that
gives it `epoll`, `eventfd` and pthreads. This directory holds TLA+ models of
its core, TLC configurations that check them on small instances, and proofs
that TLAPS checks for every value of the constants.

Run `tlc -config X.cfg M` for a run and `tlapm M.tla` for a proof module;
`PROJECT.json` lists both, with the source lines each definition models.

## 1. Inventory

| component | state | operations | how it meets the others |
|---|---|---|---|
| thread pool (`threadpool.cpp`) | global `wq`, `idle_threads`, mutex and condition variable; per loop `wq`, `wq_mutex`, `wq_async`; per request `work` and its queue links | `uv_queue_work`, `uv_cancel`, `worker`, `uv__work_done` | workers wake a loop with `uv_async_send`; the done callbacks run on the loop thread; fs, getaddrinfo and getnameinfo submit through it |
| async (`unix/async.cpp`) | `pending` per handle, `loop->async_handles`, an eventfd or pipe | `uv_async_init`, `uv_async_send`, `uv__async_io`, `uv__async_event`, close | called from any thread; the descriptor is an I/O watcher of the loop |
| timers (`unix/timer.cpp`, `heap-inl.h`) | heap of timers, `timer_counter`, `loop->time` | start, stop, again, set_repeat, `uv__run_timers`, `uv__next_timeout` | the heap's minimum is the poll timeout |
| event loop (`unix/core.cpp`, `uv-common.h`) | `active_handles`, `active_reqs`, `closing_handles`, `pending_queue`, `stop_flag`, the watcher lists | `uv_run`, `uv_close`, `uv_ref`, `uv_unref`, `uv_stop`, `uv__io_feed` | calls every other component's callbacks, which may call anything back |
| idle, prepare, check (`unix/loop-watcher_*.cpp`) | three lists | init, start, stop, run, close | phases of `uv_run` |
| I/O watchers (`unix/core.cpp`, `unix/linux-core.cpp`) | `watchers[]`, `nfds`, `watcher_queue`, per watcher `events`, `pevents` | `uv__io_start`, `_stop`, `_close`, `_feed`, `uv__io_poll`, `uv__platform_invalidate_fd` | streams, udp, poll, async, signal and inotify are its clients |
| streams (`unix/stream.cpp`, `tcp.cpp`, `pipe.cpp`, `tty.cpp`) | write queue, completed queue, connect and shutdown requests, flags; the accepted and the queued descriptors | connect, listen, accept, read, write, try_write, shutdown, close | I/O watcher; TCP, pipe and TTY are built on it |
| UDP (`unix/udp.cpp`) | write and completed queues, processing flag | bind, send, try_send, recv, close | I/O watcher |
| signals (`unix/signal.cpp`) | global tree and lock pipe; per loop a pipe; per handle caught and dispatched counts | start, stop, the handler, the event callback, close | a signal handler that interrupts any thread |
| processes (`unix/process.cpp`) | list of children; the descriptors of parent and child | `uv_spawn`, `uv__chld`, kill, close | a SIGCHLD handle; an error pipe; streams get the parent's pipe ends |
| fs-poll (`fs-poll.cpp`) | a context per start | start, stop, poll and timer callbacks, close | a stat in the thread pool and a timer in turn |
| file system events (`unix/linux-inotify.cpp`) | a tree of watcher lists | start, stop, `uv__inotify_read` | I/O watcher |
| poll handles (`unix/poll.cpp`) | one watcher | init, start, stop, close | I/O watcher on the user's descriptor |
| file system requests (`unix/fs.cpp`) | what a request allocates | `uv_fs_*`, `uv__fs_work`, `uv__fs_done`, cleanup | thread pool, or on the spot |
| name resolution (`unix/getaddrinfo.cpp`, `getnameinfo.cpp`) | one allocation | the two calls, their work and done functions | thread pool, or on the spot |
| address conversion (`inet.cpp`) | none | `uv_inet_ntop`, `uv_inet_pton` | pure |
| timer heap (`heap-inl.h`) | nodes with three pointers | insert, remove, dequeue | the timers |
| barrier (`unix/pthread-barrier.cpp`) | `in`, `out`, mutex, condition variable | init, wait, destroy | behind `uv_barrier_*` |
| loop life cycle (`unix/loop.cpp`, `uv-common.cpp`) | the loop structure, the default loop | `uv_loop_init`, `uv_loop_close`, `uv_default_loop`, `uv_loop_new`, `uv_loop_delete`, `uv_walk` | |
| system calls, `/proc`, dl, versions | none | wrappers | not modelled: no state of their own |

What is hard in it: workers and loop threads share requests under two mutexes;
senders and the loop share flags without any; callbacks run in the middle of
walks over intrusive lists and change the lists; the loop decides once per
iteration whether and how long to block; 64 bit times become `int` timeouts
that are split, interrupted and recomputed; threads pass through a barrier at
different speeds; signals and child exits merge; a call that fails half way
has to give back what it took, and a close has to wait for what is still under
way. `PROJECT.json` lists these hazards at their lines.

## 2. Modules

| module | models | extends or instantiates |
|---|---|---|
| `Queue` | the lists of `queue.h` as sequences | |
| `WorkRequest` | abstract: the life of one request | |
| `Threadpool` | the pool, with several loops | `Queue`; refines `WorkRequest` |
| `Async` | handles, descriptor, senders, the loop's scan | `Queue` |
| `Timer` | timers, the clock, the wait in `uv__io_poll` | |
| `Heap` | the pointer structure the timers are kept in | |
| `Loop` | `uv_run`, handle flags, watcher lists, closing | `Queue` |
| `LoopLife` | `uv_loop_init` to `uv_loop_close`, `uv_walk` | `Queue` |
| `IoPoll` | I/O watchers, `uv__io_poll`'s event array, poll handles | `Queue` |
| `Stream` | a connecting, reading and writing stream | `Queue` |
| `Server` | a listening stream or ipc pipe and what it accepts | `Queue` |
| `Udp` | a UDP handle | `Queue` |
| `Signal` | signal handles on several loops, the handler | `Queue` |
| `Process` | children and their exits | `Queue` |
| `Stdio` | the descriptors of `uv_spawn` | |
| `FsPoll` | a polled file | |
| `Inotify` | file system events | `Queue` |
| `Fs`, `Resolve` | requests that run in the pool or on the spot | |
| `Inet` | IPv6 texts | |
| `Barrier` | `pthread_barrier_wait` | |
| `QueueLemmas`, `ThreadpoolProofs`, `ThreadProofs`, `HeapProofs`, `RequestProofs`, `HandleProofs`, `LoopProofs`, `SocketProofs` | theorems, see section 4 | the modules they are about |
| `MC*` | instances for TLC | |

`MCLoop`, `MCLive` and `MCHandles` put several modules that share no state into one run:
the variable `part`, chosen in the initial state, says which of them a behaviour
is about, and the others stay as they are. The state space is the sum of theirs.

The definitions marked "Mutant" are plausible bugs: each replaces the
definition after it, and the property named in `PROJECT.json` then fails.

**Threadpool.** A mutex is its owner, a critical section two steps: take the
lock; do the body and release it. The places of a worker are the program points
between those steps: `lock`, `locked`, `wait` (inside `uv_cond_wait`),
`woken`, `run` (inside `w->work`), `ran`, `finish`. A loop thread is in `user`
code, in `post`, in `uv__work_cancel` or in `uv__work_done`; done callbacks are
`user` code with `draining` set, so they submit and cancel while the list on
`uv__work_done`'s stack is being walked. `empty[r]` is what `QUEUE_EMPTY(&w->wq)`
says; `QUEUE_REMOVE` leaves it alone, as in the code, so a node that has been
popped still looks linked. `phase` and `status` are history: what the abstract
specification talks about. `wq_async` is its pending flag; `Async` refines that
step. `uv_cancel` is called on the loop's thread for a request whose done
callback has not run: a later call is a use of memory the user owns again, and
a call from another thread is outside the API. `cleanup` and the exit message
are dead code, since nothing calls `cleanup`, and are left out.

**Async.** The cheap read, the compare-and-swap and the write are three steps
of a sender; emptying the descriptor, moving the list, claiming a flag and
starting the callback are four of the loop. The descriptor is a bounded
counter, for the eventfd's limit and for a full pipe. Other threads may send
while the handle is closing, as long as its memory is there; initialising a
handle again while a thread is inside a send to it is the user's error and is
excluded.

**Timer.** `now` is the clock and `time` the loop's cached copy; `uint64_t`
and `int` are small constants, so that the sum wraps and the cast matters
within a few ticks. `poll`, `real_timeout`, `base` and `entered` are
`uv__io_poll`'s variables. An interruption (EINTR, or events nobody watches)
may end `epoll_wait` at any time. The model covers a loop with timers only, so
the timeout -1 does not occur; `Loop` has that case.

**Loop.** One variable per list, flag and counter, `pc` for the phase of
`uv_run`, `user` for "user code runs". User code may call anything, outside
`uv_run` and in every callback. A timer is due or not, nondeterministically
after each `uv__update_time`. A poll runs one I/O callback or none. Starting a
handle that is closing is the user's error: `UV__HANDLE_CLOSING` is 0 in this
build, so the assertions against it are no-ops.

**IoPoll.** A descriptor number and the file open at it are two things: the
number is the lowest free one, the file keeps its identity as long as a number,
a registration or an undelivered event refers to it, and `kernel` registers
pairs of both, as epoll does. `Inherited` numbers have files that another process
holds open too, so that `close` alone does not drop their registration.
`uv__io_start` and `uv__io_stop` are functions from one state of the table, the masks
and the queue (`Io`) to the next, because `uv_poll_start` runs one after the other.
`array` is the rest of the batch; `fake` says whether the two entries behind the
table point to it, which is how `uv__platform_invalidate_fd` finds it. The pc
`run` stands for all of `uv_run` outside `uv__io_poll`; user code runs there and in
every callback. The table covers the numbers in `Numbers`; the loop's async and
signal watchers only count in `nfds`, start a batch with a callback and end one.
Streams get their descriptor when they are opened: a stream without one has
nothing to stop. One handle uses a number at a time, and a poll handle is closed
before the user closes its descriptor. An `epoll_ctl` that would fail and abort
is not a step: `TablesAgree` says it does not happen.

**Barrier.** A call is one step up to `pthread_cond_wait`, one wakeup,
signalled or spurious, and one step after it.

**Heap.** `heap_insert`, `heap_remove` and `heap_dequeue` are operators from heap to
heap that follow the pointers, with the path to a place computed from the bits of
its number as in the code. The two loops of the code are functions of the number of
turns (`UpTurn`, `DownTurn`); a turn after the end of a loop changes nothing, so as
many turns as there are nodes are enough. `Timer` uses only what `HeapRight` says:
the minimum of a set.

**Stream.** The record `stream` is the `uv_stream_t`; handlers are operators from
stream to stream, or to the set of streams that the kernel's answers can leave
behind (all, a part or nothing written; EAGAIN; an error). `at` is where
`uv__stream_io` stands and `cb` says that a callback is running, in which the user
may call anything, close included. `size`, `left` and `bufs` are
`write_queue_size` and what each request still holds, so a write that fails
keeps its bytes until its callback, as in the code. `issued` and `wants` are
history: what the user was promised. A stream is a TCP socket, a pipe or a
blocking TTY.

**Server.** The kernel hands out the lowest free numbers; `emfile` is the loop's
spare descriptor; `accepted` and `queued` are `accepted_fd` and `queued_fds`, with the
array's size in `room`. `late` remembers that `uv_accept` failed outside
`connection_cb`. `recvmsg` opens all descriptors of a message at once; the loop over
the message then takes them one by one (`msg` is what is left of it) and closes the
rest when the queue cannot grow.

**Udp.** As `Stream`, with `processing` for `UV_UDP_PROCESSING`. `unlinked` is the
state `uv__io_close` leaves a fed watcher in: out of the pending queue with its own
links untouched, so that the next `uv__io_feed` does nothing. `stray` remembers that
the handle was closed in a receive callback whose event goes on to send what is
waiting, which feeds the closed handle. The feed outlives the closing: either the next
`uv__run_pending` serves it (`FedAfterClose`), or the memory is used again first and
the behaviour ends at `undefined`.

**Signal.** The handler runs on any thread while the lock is free and takes one
step for each message it writes and one for counting it; the loops run between
those steps. Messages are (handle, signal) pairs in bounded pipes, read `BufSize`
at a time. `life` distinguishes `uv_close` having been called from the handle
being on the closing list, which happens when the last message has been read.

**Process.** SIGCHLD is pending or not, so exits merge; `uv__chld` takes one step
per `waitpid`, between which children exit, and then walks the reaped ones with
the next node saved before each callback. **Stdio** covers the descriptors of one
`uv_spawn`. The caller may have any of its standard descriptors closed, and the
kernel gives a pipe the lowest free numbers. `at` is where the call stands: the parent
makes the pipes of the slots and the pipe that reports exec, forks, waits, and hands its
ends to the streams; between, the child takes a step for each turn of the three loops
of `uv__process_child_init` (`MoveUp`, `Place`, `CloseUsed`) and for exec, each of which
may fail. Its table maps descriptors to files, a file being named by the number it
has in the parent, and `cloexec` is what exec closes. `abort` is the assertion of
`uv__close`.

**FsPoll.** Contexts are allocated and freed; a stat, a timer and a callback refer
to them. `wait` and `late` are the arithmetic of the next interval. That `timer_cb` aborts
the process when `uv_fs_stat` has no memory (`fs-poll.cpp:168`) is left out.
**Inotify** keeps
the tree and a list per watch descriptor, the list on the stack of
`uv__inotify_read`, and the kernel's watches and queued events; removing a watch
queues `IN_IGNORED`. `unlisted` remembers the watches of starts that failed with ENOMEM
after `inotify_add_watch`: the kernel goes on watching for nobody.

**Fs.** One action for each `uv_fs_*` function; operations that differ only in the
system call share the functions behind it through the kind of the request. `mem` is
the set of blocks allocated for the request and `bad` records a double free or a
use after free. `uv__fs_buf_iter` and the emulated sendfile take a step per system call,
each of which may be interrupted, short or fail. **Resolve** does the same for the
single allocation of `uv_getaddrinfo`, freed through whichever argument starts it.

**LoopLife.** `fields` is what the loop structure holds, `held` what the process
holds for it; each of the five steps of `uv_loop_init` may fail.

**Inet.** A text is a sequence of tokens: colon, hex digits of one word, dotted
quad. Formatting and parsing are the loops of the code over those tokens; the
reference is a grammar.

## 3. Runs

| run | instance | shows |
|---|---|---|
| `threadpool` | 2 workers, 2 loops, 3 requests (two on one loop), 4 calls, 1 spurious wakeup | no lost wakeup, lost or doubled request, lock inversion, abort or unreported completion; refinement of `WorkRequest`; every request is done |
| `async` | 3 handles (one without callback), 2 senders, a descriptor full after 2 writes | no lost send, no starvation, list integrity under close and init in callbacks |
| `timer` | 2 timers, timeouts 0, 4, repeats 0, 2, 3 API calls, 2 interruptions; 64 bit maximum 5, INT_MAX 3, max_safe_timeout 2 | never early, never overslept, start order, every overdue timer fires |
| `timer_once` | 1 timer of 3 ticks, max_safe_timeout 1 | **violation**, see section 5 |
| `loop` | 2 idle watchers, 1 timer, 1 fed watcher, 1 request; 2 writes of up to 2 bytes and a try_write, 2 reads a turn; 3 descriptors, queue growing by 1; 3 sends, 2 datagrams a turn; addresses of words 0, 1, 0xffff with 1 edit | `LoopConsistent`: active count, watcher lists, closing stack; `ReturnsWhenDone`; `StreamRight`, `StreamServed`, `ServerRight`, `UdpRight`, `InetRight` |
| `live` | 1 check watcher, 1 timer, 2 fed watchers, 1 request; a barrier of 3 threads, one round | closes, stop and fed watchers do not wait for I/O; phases end; `BarrierRight`: nobody early, departures counted; all return |
| `io_poll` | 1 stream, 1 poll handle, 2 numbers (one beyond the table's first size), 2 files, 2 events a batch, 2 polls in a row | `TablesAgree`: table, masks, queue and kernel; no stale event of a closed stream; every start is registered |
| `barrier_reuse` | 2 threads, two rounds | **violation**, see section 5 |
| `handles` | 3 signal handles on 2 loops, 2 signals, pipes of 2 messages; 3 children; 2 fs-poll contexts; 3 inotify handles, 2 paths; a heap of 6 nodes, 2 keys; transfers of 3 buffers, 2 a call; 3 resolver arguments; 2 loops with 2 handles; 4 slots for `uv_spawn`, any of the 3 standard descriptors closed, one more descriptor, two marked close-on-exec | `SignalsRight`, `ProcessRight`, `SpawnRight`, `FsPollRight`, `InotifyRight`, `HeapRight`, `FsRight`, `ResolveRight`, `LoopLifeRight` |
| `tty_blocking` | the stream of `loop` by itself | **violation**, see section 5 |
| `spawn_exec`, `spawn_stdio` | the `uv_spawn` of `handles` by itself | **violations**, see section 5 |

What the larger properties say:

- `StreamRight`: writes are called back once each in the order they were accepted;
  `write_queue_size` and the loop's count of requests are exact; a closed stream
  polls and owes nothing. `StreamServed`: between two events every connection,
  write and shutdown has an event coming, and the stream reads exactly if the
  user last asked it to.
- `ServerRight`: every open descriptor has one owner and is handed on in order;
  a server without a connection to hand on polls. `uv_pipe_pending_count` counts what an
  ipc pipe has to hand on; for any other pipe the code returns 0.
- `UdpRight`: order and count of sends, no completed send without an event, the
  code's assertions; nothing of a closed handle is polled, owed, counted or fed but
  for the stray feed of section 5. One send made on an empty queue when the kernel has no room
  waits for the next one: the code turns POLLOUT on only then.
- `SignalsRight`: caught equals dispatched plus the messages under way, no
  message outlives its handle, a close that waits has a message coming, the
  process-wide action is installed exactly while somebody watches.
- `ProcessRight`: a zombie always has a signal, a message or the running scan to
  discover it; one exit callback per child. `SpawnRight`: after exec the child has the
  right file in each slot and nothing else of the parent's that is marked; a
  failure of exec goes unseen only where a slot has the number of the pipe that
  reports it; the parent leaks no pipe end and closes none twice.
- `FsPollRight`: a context is freed exactly once, when nothing refers to it; no
  change is swallowed. `InotifyRight`: lists, kernel watches and iteration in step, but for
  the watch of a start without memory.
- `HeapRight`: complete, doubly linked, ordered.
- `FsRight`: memory, the count of requests, and results equal to what was moved.
  `ResolveRight`: the allocation, one callback, an answer exactly on success.
- `LoopLifeRight`: failed and closed loops hold nothing but what a failed
  `uv_loop_init` forgets; `uv_walk` calls back once and in order for each handle that
  was there.
- `InetRight`: parsing reads back what formatting writes, accepts exactly the
  grammar, and formatting compresses the first longest run.

Why the bounds are enough to be interesting: two workers and two posts give
"signalled but still counted as idle"; two loops give lock orders across loops;
a second request on a loop gives cancellation of a node in the middle of a list
and from inside another request's callback; four calls give submit, cancel,
cancel again, submit again. Three async handles give a head, a middle and a
tail of the list being scanned. Two watchers of one kind are the least for one
to act on the other while the list is run; the three kinds run the same code.
In `io_poll` a batch of two is the least in which one event is left while a
callback runs; number 2 makes the table grow from 2 to 6 entries in the middle of
a batch; two files are enough for one to take over the other's number, since
files may be opened and closed without end. Poll handles ask for `POLLIN` only:
`uv_poll_start` always starts from an empty mask, and the stream has every mask.
In `threadpool`, `timer` and `barrier_reuse` the system comes to rest when the
bounded calls are used up, so those runs do not check deadlock; their liveness
properties do that work. `live` checks it: the loop never stops, and the threads at
the barrier may stop only when all of them are through (`AllPassed`).
In `loop` two writes are the least for one to be queued behind another and for
one to be issued in the other's callback; two bytes give partial writes. Three
descriptors and a queue that grows by one give an array that grows twice; three
sends give a walked, a completed and a waiting one. In `handles` a third signal
handle is on another loop, so the handler writes to two pipes; the two on one loop
are interchangeable (`SameLoop`). Six heap nodes are the least in which the
last node moves to another subtree and has to move up. Three buffers with two per
call give a second call that fails after a first that moved something.
In `uv_spawn` the fourth slot is one that may stay closed, that can inherit any lower number and
whose number a pipe may get; descriptor 4 is above the slots; four slots have cycles
of two, three and four.
`loop` and `handles` have states without a successor (a closed handle, a bound that is used
up, a call that has returned), so deadlock is not checked there; what must not be left waiting is stated in
their invariants instead.

**Fairness.** `Threadpool`: each thread runs when it can, work callbacks return
and a loop with active requests keeps polling (`uv_run` does not return while
`active_reqs` is not empty). `Async`: a thread inside `uv_async_send` finishes;
the loop polls and callbacks return. `Timer`: the clock advances, the loop thread
runs. `Loop`: the loop thread runs, callbacks return; I/O never has to happen.
`IoPoll`: the loop thread runs, callbacks return and the loop polls again.
`Barrier`: threads arrive and a woken thread gets the mutex. Nobody is obliged to
call, send, open or close anything, and no spurious wakeup is assumed.
`EveryCloseFinished`, `StopReturns` and `EveryFeedServed` assume that the loop leaves
`uv__run_timers` (`LeavesTimers`): a timer callback that restarts a timer with
timeout 0 keeps it there for ever, in the code as in the model.
The specifications in `loop` and `handles` are safety specifications without
fairness: "an event is coming" is checked as a state property.

## 4. Proofs

The proof modules hold for any sets of workers, loops, requests, handles,
descriptors, threads and timers, and any bounds.

| proof module | about | states of `PROJECT.json`'s properties |
|---|---|---|
| `QueueLemmas` | `Append`, `Tail`, `\o`, `Unlink`, least elements | |
| `ThreadpoolProofs` | `Threadpool`, `WorkRequest` | `WorkConserving`, `NeverAborts`, `LockOrder`, `NoLostCompletion`, `OnePlace`, the refinement |
| `ThreadProofs` | `Barrier`, `Signal`, `Async` | `BarrierRight`, `SignalsRight`, `ListedOnce`, `WakeupArmed`, `NoLostSend` |
| `HeapProofs` | `Heap` | `HeapRight` |
| `RequestProofs` | `Timer`, `Fs`, `Stdio` | `NeverEarly`, `NeverOversleeps`, `StartOrder`, `FsRight`, `SpawnRight` |
| `HandleProofs` | `Resolve`, `FsPoll`, `Process`, `Inotify`, `Stream` | `ResolveRight`, `FsPollRight`, `ProcessRight`, `InotifyRight`, `StreamRight`, `StreamServed` |
| `LoopProofs` | `Loop`, `LoopLife` | `LoopConsistent`, `ReturnsWhenDone`, `LoopLifeRight` |
| `SocketProofs` | `Udp`, `Server`, `IoPoll` | `UdpRight`, `ServerRight`, `TablesAgree`, `NoStaleEvent` |

**Assumptions.** What the ASSUMEs of the modules say, and nothing else: the sets
that the code counts are finite, sizes and bounds are natural numbers (positive
where the code needs one), threads and handles are distinct from each other and
from the values that stand for "none" (`None`, `NULL`, `Nothing`, `EndOfQueue`),
every request and signal handle belongs to a loop, the clock stops before the
largest `uint64_t`. `PowersReach` is a fact of arithmetic: for every number there
is a power of two that is large enough among those `next_power_of_two` is looked for
in. The provers cannot do the induction it takes; TLC evaluates it. One theorem has a
hypothesis of its own: `StreamServes` is about users that do not start to read again in
the callback of the end of the file (`~RestartsAtEof`); section 5 says what happens
to those that do.

**Threadpool.** The inductive invariant, `IInv`, is `TypeOK`, `WorkConserving`
and
- `LockOwners`: who owns each mutex, by program point;
- `WorkerHolds`, `CallerHolds`: what a worker or a submitting or cancelling
  loop thread has in its hands, and what `work`, `empty` and `phase` then are;
- `GlobalQueue`, `LoopQueues`: the same for the nodes of each queue, and that
  no node is in a queue twice;
- `NotLost`: a request that is not free is in one of these places;
- `PoolStarted`: the workers run once the first submission has been made.

`OnePlace` and `NeverAborts` are not inductive by themselves, because what
`uv__work_cancel` decides depends on `empty` and `work`: the proof has to know
which values these have in each place. `WorkConserving` is inductive once
`idle_threads` is known to be the number of workers in `wait` or `woken`: a
worker leaves "on its way" only by taking a request or by seeing an empty queue
under the mutex, and a post under the mutex either signals or finds nobody
asleep. `NoLostCompletion` is proved relative to `IInv`. The refinement proof
maps each step to a step of `WorkRequest` or a stutter; `phase` and `status` are
the refinement mapping.

**Async.** `IInv` is `TypeOK`, `ListedOnce`, `WakeupArmed`, `NoLostSend` and the
program-point facts that link `lpc`, `ch`, `queue`, `spc` and `sh`.

**Barrier.** `Rounds` says what `in` counts, the threads inside that the present
round has not released (`Arrived`), and that every thread has entered once per
complete round, and once more if it is among them. That nobody is early follows
from the second part, which needs the first to know that the round is complete
when `in` reaches the threshold.

**Signal.** `SignalsRight` needs `OwnPipe` (a message is in the pipe or the buffer
of its handle's loop, so counting there counts all) and `HandlerHolds` (while the
handler runs, the watchers it has left to write to cannot leave the tree, and one
message at most is written and not yet counted). The counting is by
`MessagesIn(q, h)`, with a lemma for each way a pipe changes.

**Timer.** `Armed`: an active timer's `timeout` is the clamped sum that
`uv_timer_start` means, and start ids are distinct and below the counter.
`CallsDue`: what the callback that runs was due at. `WaitFits`: the whole wait
that is left, not only the part capped by `max_safe_timeout`, ends before the next
deadline; it is needed because `uv__io_poll` starts another part without
looking at the heap. The heap's minimum exists because natural numbers are
well-founded; that `heap-inl.h` finds it is `HeapRight`.

**Heap.** `HeapInv` names the nodes of the tree by their places: there is a sequence
`at` of the members, each once, such that the pointers lead from `at[i]` to `at[2 * i]`
and `at[2 * i + 1]` and back (`Tree`), and no node is less than its parent
(`Ordered`). The steps of the operations keep `Tree` one by one: `SwapTree` for
`heap_node_swap`, `HangTree`, `CutTree`, `ReplaceTree` and `ClearTree` for what
`heap_insert` and `heap_remove` do around the walks. What a walk keeps is weaker than
`Ordered`: `Rises` allows the walking node to be less than its parent, `Sinks` also to
be greater than its children, and both ask that nothing below it is less than what is
above it, which is what makes the order hold again behind it. A walk ends because
the place of the node gets smaller, or greater, with each turn (`UpStep`, `DownStep`),
and `TreeFits` says that there are no more places than nodes. That the recursive
functions of `Heap` exist, and what they are, is shown by least counterexamples
(`IterateExists`, `AtFacts`).

**Handles.** `ResolveKeeps`: which block is allocated, and what is known of the
result, where the request stands. `ContextRight(c)` of `FsPoll`: who refers to a
context and what it knows of the file; the grid is arithmetic modulo the
interval (`BackToGrid`). `ProcessQueues` and `ProcessStands` of `Process`: the saved next node
is the first of the reaped ones, and which queue a process is in.
`InotifyKeeps` and `ListStands` of `Inotify`: a list and the part of it on
`uv__inotify_read`'s stack are disjoint and together hold its watchers; a descriptor
that has lost its list is watched no more, so it never comes to be one of `unlisted`.

**Stream.** `StreamInv` has the types and
- `BooksStand`: the two queues together are the accepted writes that are owed their
  callback, in order; `write_queue_size` is what they have left; a queued write
  has its buffers;
- `Counted`: the loop's requests are those writes, the leaked ones, the shutdown and
  the connection;
- `ConnectStands`: what reports the outcome of connecting, and that a stream that is
  neither connected nor connecting has nothing queued;
- `RequestsStand`: every queued or completed write and every shutdown has an event
  coming, or the present one has still to look at it (`EventComes`); SHUTTING is
  set exactly while there is a shutdown, until the stream is closed;
- `ClosingStands`, `ReadingStands`: a closing stream is inert, an open one polls for
  input exactly if the user wants it. The last is left out where `RestartsAtEof`
  holds, and once the process is about to abort.

The order and the sizes follow from `BooksStand` alone; that the assertions on closing
hold needs the rest, since each of them relies on what another call left behind.
Sums over a queue are a recursive function (`SumOver`); that it is the only one with
its equations is shown with a least counterexample (`SumsExist` and the lemmas after it).

**Spawn.** `SpawnInv` has `CallStands` (what was asked for), `ParentStands` (what the parent
holds at each place: its own descriptors, the ends of the pipes of the slots below
the one it is at, and the pipe to the child), `ChildAt` and `OutcomeStands`. The child is
described by three counters, one per loop (`ChildStands(s, c, m, p, k)`): the slots below
`m` have a descriptor that is not below their own number, those below `p` hold their file, and
what the slots below `k` used is closed. The first of these carries the proof: once no
slot uses a descriptor below itself, filling a slot overwrites nothing that a later
one still needs, for any permutation and any numbers of the pipes. That `Place` closes
the parent's end where it is above the slots, and `CloseUsed` the other, has to be
shown not to hit what another slot uses: every pipe end is a number of its own.

**Fs.** `FsInv` has the types and
- `RequestStands`, `BlocksStand`: what is known of result, path, buffers and entries at each
  place, cancelled or not;
- `MemStands`: what is allocated is what those fields refer to (`FsHeld`), plus the last
  directory entry where a clean-up has forgotten it;
- `MovesStand`: before a transfer nothing has been moved; between the calls of
  `uv__fs_buf_iter` what was moved rises, comes from the buffers passed, and is as much as
  `total` and the offset say (`IterStands`); the emulated sendfile has written exactly the
  span from where it read first (`CopyStands`); a result says what was moved
  (`ResultExact`).

`FsExact` speaks of finished requests only; the invariant has to say the same of those
that wait for the loop, and that a transfer that is tried again has moved nothing.

**Loop.** `LoopConsistent` is inductive with `TypeOK` and the bound of the pending
queue. Its parts need each other: active handles are open, so `uv__finish_close`
never changes the count, and the lists are what the flags say, so a handle that
stops itself in a walk is in the list the walk took it from.

**LoopLife.** `LifeInv` has `LoopStands` for each loop: what is held for it beyond its
fields, what a loop that is not open looks like, and that the internal handles are
in its queue unless it is being walked. `WalkStands`: the walk has passed some first part of the
queue it found, the callbacks were for that part without the internal handles, and
an internal handle is in one queue or the other. `WalkExact` follows from there
being a number of handles passed (`Passed`), not the other way round.

**Udp.** `UdpKeeps`: which flags mean what at each point of `uv__udp_io`; the
conjunct about `fed` and `out` is what keeps a completed send from being
forgotten, the one about `stray` says when a closed handle is going to be fed.
**Server.** `ServerKeeps`: descriptors queue up only behind an accepted
one and only on an ipc pipe, and what the walk over a message has left.

**IoPoll.** `IoInv` is the types and
- `IoOK`, with `BooksAgree`: the masks, the table, the queue and `nfds` against
  each other; it is a predicate on a value of `Io`, because `uv_poll_start` passes
  through an intermediate one;
- `HandlesOK`: an open handle has a number of its own with a file at it;
- `Registrations`: the kernel has what `events` says, and each registration is
  `Accounted`: of a file that was borrowed, or the one an open stream has now;
- `EventsOK`: the same for the events in the array, which the table reaches
  (`fake`) while it holds any.

`NoStaleEvent` is not inductive: an event is stale or not according to later opens
and closes, so the invariant has to say whose it is. A stream that closes
strikes out its events, which works because `fake` survives `maybe_resize`; a number
that is opened gets a file that no event and no registration knows.

**Only model-checked.** Liveness: the proof system has no support for fairness.
`InetRight`: `Inet` is made of folds over texts and words of any length, and what a fold
computes takes an induction over data, which it does not have either. (Where the
induction is over numbers and about one function, as in `Heap` and `Fs`, a least
counterexample does it.)

## 5. Findings

- `timer_once`: `uv__io_poll` subtracts `loop->time - base` from what is left each
  time round, and `base` is never moved, so earlier rounds are subtracted again.
  With a wait longer than `max_safe_timeout` (about 30 minutes, where `long` has
  32 bits, as on Windows), or after interruptions, it returns before the timer
  is due. Under `UV_RUN_DEFAULT` the loop polls again and nothing is lost
  (`EveryTimerFires` holds); under `UV_RUN_ONCE`, `uv_run` returns without having
  run a callback, which the comment in `uv_run` rules out.
- `barrier_reuse`: a thread that is through the barrier and enters it again
  increments `in` before a slower thread has looked at it; the slower thread,
  whose round is complete, goes back to sleep, and neither returns. The
  repository's tests use each barrier once, where all is well (`live`).
- `tty_blocking`: a write that fails leaves its bytes in `write_queue_size` until its
  callback. A second `uv_write` on a blocking stream before that meets the assertion
  that a blocking stream has nothing queued, and the process aborts.
- `spawn_exec`: the child's `dup2` into a slot replaces the pipe on which it is to report
  a failing exec, if that pipe got the slot's number. This takes a slot number that
  was free when the pipe was made: a standard descriptor that the caller has closed, or
  a fourth slot. The parent then reads the end of the file and takes exec for done:
  `uv_spawn` returns 0 with an active handle (the SIGCHLD that follows does report the
  exit). `ExecSeen` says that this is the only way.
- `spawn_stdio`: with two standard descriptors closed, `uv_spawn`'s own pipes get standard
  numbers, and the assertion of `uv__close`, which is to catch such closes, aborts
  the process. The error path closes the same pipes without it.

Behaviour that the models keep and the properties except by name, where no line
of the repository promises otherwise:

- `uv__poll_stop` (`poll.cpp:86`) touches neither the event array nor the
  registration: once the user has closed the descriptor of a closed poll handle, an
  old event can reach the next watcher with that number (`borrowed` in `IoPoll`).
- `uv_write2` without memory for its buffers returns after the request was
  registered: `leaked` in `Stream` counts those requests, which keep the loop alive.
- `uv_shutdown` before the stream is connected is accepted and, when connecting
  leaves nothing to write, waits for the next write (`shutdown = "early"`).
- `uv__stream_eof` clears the reading flag after the callback. If the callback calls
  `uv_read_start`, the stream polls for input that nobody reads; `RestartsAtEof`
  allows it, the run does not, since `StreamServed` then fails.
- `uv_accept` that fails outside `connection_cb` leaves the server without polling (`late`).
- `uv__udp_io` goes on to `uv__udp_sendmsg` after a receive callback has closed the
  handle; that feeds the closed watcher, which is still in `loop->pending_queue` when
  the handle is finished and its memory goes back to the user. `UdpAsserts` says
  that this is the only feed of a closed handle (`stray`), and that nothing is undefined
  without it.
- `uv_fs_event_start` that finds no memory for a new list leaves the kernel watching:
  `NoWatchLeaked` excepts those watches (`unlisted`) until a later start of the path
  finds the same descriptor.
- Binding a UDP handle a second time and failing closes its first socket; `Udp`'s
  user does not.
- An exit callback that closes the process whose callback comes next leaves
  `uv__chld`'s saved node outside the queue; `Process`'s user does not.
- `uv_fs_poll_start` that fails in `uv_fs_stat` frees the context with its timer linked
  into the loop (`poll.dangling`).
- A cancelled `uv_fs_read` or `uv_fs_write` keeps its buffers, and the last directory
  entry fetched is not freed unless the end is fetched too (`FsMemory`).
- A failed `uv_loop_init` keeps the epoll descriptor and the table of watchers
  (`LoopReleased`).

## 6. Not modelled

System information and process titles (parsing of `/proc`, raw calls), `dl.cpp`,
`version.cpp` and the error tables have no state. `thread.cpp` forwards to
pthreads; the semantics of its locks is the one `Threadpool` and `Barrier` use. Socket
options, names, buffer sizes, terminal modes, multicast and TTL, `uv_kill`, the
child's uid, gid, environment and directory are single system calls. `fsevents.cpp`
is macOS code that the project files do not compile, and `tree.h` third-party code
used as an ordered set. `uv_stream_set_blocking`, the macOS select thread and
`uv__process_open_stream`'s EBUSY path (a stream that is already open) are left out;
`Stdio`'s user passes fresh streams. The Windows layer below `epoll` and `eventfd` is
not in the repository: the kernel in the models is what the code in it expects.

## 7. Plan

Done: thread pool with abstract specification, async, timer, heap, loop, life
cycle, I/O watchers, poll, streams, UDP, signals, processes, file watchers,
requests, resolver, addresses, barrier; proofs for thread pool, async, barrier,
signals, timers and their heap, resolver, fs-poll, processes and `uv_spawn`, inotify, streams, file system
requests, the loop and its life, UDP, servers and I/O watchers. Every safety
invariant of a run is proved but `InetRight`.
