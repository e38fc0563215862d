----------------------------- MODULE Threadpool -----------------------------
(***************************************************************************)
(* The thread pool of src/src/threadpool.cpp: the workers, the global      *)
(* queue wq behind the global mutex and condition variable, and for each   *)
(* event loop its queue of finished work behind wq_mutex, drained by       *)
(* uv__work_done on the loop thread when wq_async fires.                   *)
(*                                                                         *)
(* Every mutex is an explicit owner, so that a critical section is two     *)
(* steps (take the lock; do the body and release) and the two locks that   *)
(* uv__work_cancel nests can meet the workers' locks in any order.  A      *)
(* condition variable is the set of workers in "wait"; a signal moves one  *)
(* of them to "woken", and a spurious wakeup does the same.                *)
(*                                                                         *)
(* The wq_async handle is its pending flag: Async models how a send gets   *)
(* from that flag to the callback.                                         *)
(***************************************************************************)
EXTENDS Queue

CONSTANTS
    Workers,            \* the pool's threads
    Loops,              \* the event loops, each run by a thread of its own
    Reqs,               \* work requests
    LoopOf,             \* the loop each request is submitted to
    UV_THREADPOOL_SIZE, \* atoi() of the environment variable, or Unset
    Unset,
    MallocOK,           \* does uv__malloc of the threads array succeed
    MaxCalls,           \* bound: calls of uv_queue_work and uv_cancel
    MaxSpurious,        \* bound: spurious wakeups of the condition variable
    None                \* no thread, no request

MAX_THREADPOOL_SIZE == 128
DefaultThreads == 4     \* ARRAY_SIZE(default_threads)

(***************************************************************************)
(* init_once: the number of threads.  atoi's int is stored in an unsigned  *)
(* int, so a negative value becomes 2^31 or more and is capped.            *)
(***************************************************************************)
nthreads ==
    LET asked == IF UV_THREADPOOL_SIZE = Unset THEN DefaultThreads
                 ELSE UV_THREADPOOL_SIZE
        capped == IF asked = 0 THEN 1
                  ELSE IF asked < 0 \/ asked > MAX_THREADPOOL_SIZE
                       THEN MAX_THREADPOOL_SIZE
                       ELSE asked
    IN  IF capped > DefaultThreads /\ ~MallocOK THEN DefaultThreads ELSE capped

ASSUME PoolAssumption ==
    /\ Unset \notin Int
    /\ UV_THREADPOOL_SIZE \in Int \cup {Unset}
    /\ IsFiniteSet(Workers)
    /\ Cardinality(Workers) = nthreads

ASSUME ThreadAssumption ==
    /\ Workers \cap Loops = {}
    /\ None \notin Workers \cup Loops \cup Reqs
    /\ LoopOf \in [Reqs -> Loops]
    /\ MaxCalls \in Nat
    /\ MaxSpurious \in Nat

VARIABLES
    initialized,    \* has init_once run
    mutex,          \* owner of the global mutex
    idle_threads,   \* workers inside uv_cond_wait, as the code counts them
    spurious,       \* spurious wakeups so far (bounded)
    wq,             \* the global queue of submitted work
    wpc, cur,       \* each worker's place in worker(), and its request
    wq_mutex,       \* owner of each loop's wq_mutex
    loop_wq,        \* loop->wq: work to report to the loop
    pending,        \* has wq_async been sent and not yet been delivered
    lpc, lreq,      \* each loop thread's place, and the request of its call
    local_wq,       \* the queue on uv__work_done's stack
    draining,       \* is uv__work_done on the loop thread's stack
    calls,          \* API calls the loop threads have made (bounded)
    work,           \* w->work
    empty,          \* QUEUE_EMPTY(&w->wq)
    phase, status   \* history: what happened to each request (WorkRequest)

workerVars == <<wpc, cur, idle_threads>>
loopVars   == <<lpc, lreq, draining, calls, local_wq>>
reqVars    == <<work, empty, phase, status>>
queueVars  == <<wq, loop_wq, pending>>
lockVars   == <<mutex, wq_mutex>>
vars == <<initialized, spurious, workerVars, loopVars, reqVars, queueVars, lockVars>>

WorkerPCs == {"unborn", "lock", "locked", "wait", "woken", "run", "ran", "finish"}
LoopPCs   == {"user", "post", "posting", "cancel", "cancelling", "trying",
              "mark", "reinsert", "reinserting", "done", "moving"}

Init ==
    /\ initialized = FALSE
    /\ mutex = None
    /\ idle_threads = 0
    /\ spurious = 0
    /\ wq = <<>>
    /\ wpc = [w \in Workers |-> "unborn"]
    /\ cur = [w \in Workers |-> None]
    /\ wq_mutex = [l \in Loops |-> None]
    /\ loop_wq = [l \in Loops |-> <<>>]
    /\ pending = [l \in Loops |-> FALSE]
    /\ lpc = [l \in Loops |-> "user"]
    /\ lreq = [l \in Loops |-> None]
    /\ local_wq = [l \in Loops |-> <<>>]
    /\ draining = [l \in Loops |-> FALSE]
    /\ calls = 0
    /\ work = [r \in Reqs |-> "NULL"]
    /\ empty = [r \in Reqs |-> TRUE]
    /\ phase = [r \in Reqs |-> "free"]
    /\ status = [r \in Reqs |-> "none"]

Idle == {w \in Workers : wpc[w] = "wait"}

(***************************************************************************)
(* worker()                                                                *)
(***************************************************************************)
WorkerLock(w) ==
    /\ wpc[w] = "lock"
    /\ mutex = None
    /\ mutex' = w
    /\ wpc' = [wpc EXCEPT ![w] = "locked"]
    /\ UNCHANGED <<initialized, spurious, idle_threads, cur, loopVars, reqVars, queueVars, wq_mutex>>

\* uv_cond_wait with the queue empty: the mutex is released atomically.
WorkerWait(w) ==
    /\ wpc[w] = "locked"
    /\ wq = <<>>
    /\ idle_threads' = idle_threads + 1
    /\ mutex' = None
    /\ wpc' = [wpc EXCEPT ![w] = "wait"]
    /\ UNCHANGED <<initialized, spurious, cur, loopVars, reqVars, queueVars, wq_mutex>>

\* pthread_cond_wait may return without a signal.
SpuriousWakeup(w) ==
    /\ wpc[w] = "wait"
    /\ spurious < MaxSpurious
    /\ spurious' = spurious + 1
    /\ wpc' = [wpc EXCEPT ![w] = "woken"]
    /\ UNCHANGED <<initialized, idle_threads, cur, loopVars, reqVars, queueVars, lockVars>>

\* uv_cond_wait returns with the mutex taken again.
WorkerRelock(w) ==
    /\ wpc[w] = "woken"
    /\ mutex = None
    /\ mutex' = w
    /\ idle_threads' = idle_threads - 1
    /\ wpc' = [wpc EXCEPT ![w] = "locked"]
    /\ UNCHANGED <<initialized, spurious, cur, loopVars, reqVars, queueVars, wq_mutex>>

\* Mutant: the global mutex is kept while the work runs.
WorkerTakeKeepsMutex(w) ==
    /\ wpc[w] = "locked"
    /\ wq # <<>>
    /\ cur' = [cur EXCEPT ![w] = Head(wq)]
    /\ wq' = Tail(wq)
    /\ empty' = [empty EXCEPT ![Head(wq)] = TRUE]
    /\ phase' = [phase EXCEPT ![Head(wq)] = "executing"]
    /\ wpc' = [wpc EXCEPT ![w] = "run"]
    /\ UNCHANGED <<initialized, spurious, idle_threads, loopVars, work, status, loop_wq, pending, lockVars>>

\* Take the head; QUEUE_INIT tells uv_cancel() that the request is executing.
WorkerTake(w) ==
    /\ wpc[w] = "locked"
    /\ wq # <<>>
    /\ cur' = [cur EXCEPT ![w] = Head(wq)]
    /\ wq' = Tail(wq)
    /\ empty' = [empty EXCEPT ![Head(wq)] = TRUE]
    /\ phase' = [phase EXCEPT ![Head(wq)] = "executing"]
    /\ mutex' = None
    /\ wpc' = [wpc EXCEPT ![w] = "run"]
    /\ UNCHANGED <<initialized, spurious, idle_threads, loopVars, work, status, loop_wq, pending, wq_mutex>>

\* w->work(w) returns; "run" is the time during which it executes.
WorkerRun(w) ==
    /\ wpc[w] = "run"
    /\ phase' = [phase EXCEPT ![cur[w]] = "executed"]
    /\ wpc' = [wpc EXCEPT ![w] = "ran"]
    /\ UNCHANGED <<initialized, spurious, idle_threads, cur, loopVars, work, empty, status, queueVars, lockVars>>

WorkerLoopLock(w) ==
    LET l == LoopOf[cur[w]] IN
    /\ wpc[w] = "ran"
    /\ wq_mutex[l] = None
    /\ wq_mutex' = [wq_mutex EXCEPT ![l] = w]
    /\ wpc' = [wpc EXCEPT ![w] = "finish"]
    /\ UNCHANGED <<initialized, spurious, idle_threads, cur, loopVars, reqVars, queueVars, mutex>>

\* Report the finished request to its loop and wake the loop.
WorkerFinish(w) ==
    LET r == cur[w]
        l == LoopOf[r]
    IN
    /\ wpc[w] = "finish"
    /\ work' = [work EXCEPT ![r] = "NULL"]
    /\ empty' = [empty EXCEPT ![r] = FALSE]
    /\ loop_wq' = [loop_wq EXCEPT ![l] = Append(@, r)]
    /\ pending' = [pending EXCEPT ![l] = TRUE]
    /\ wq_mutex' = [wq_mutex EXCEPT ![l] = None]
    /\ cur' = [cur EXCEPT ![w] = None]
    /\ wpc' = [wpc EXCEPT ![w] = "lock"]
    /\ UNCHANGED <<initialized, spurious, idle_threads, loopVars, phase, status, wq, mutex>>

(***************************************************************************)
(* uv_queue_work / uv__work_submit / post, on the loop thread.             *)
(***************************************************************************)
\* init_once, behind uv_once: the first submission of the process starts the workers.
InitOnce ==
    /\ initialized' = TRUE
    /\ wpc' = IF initialized THEN wpc ELSE [w \in Workers |-> "lock"]

\* uv__work_submit, up to its call of post.
Submit(l, r) ==
    /\ InitOnce
    /\ work' = [work EXCEPT ![r] = "work"]
    /\ lreq' = [lreq EXCEPT ![l] = r]
    /\ lpc' = [lpc EXCEPT ![l] = "post"]

QueueWork(l, r) ==
    /\ lpc[l] = "user"
    /\ calls < MaxCalls
    /\ LoopOf[r] = l
    /\ phase[r] = "free"
    /\ calls' = calls + 1
    /\ phase' = [phase EXCEPT ![r] = "queued"]
    /\ Submit(l, r)
    /\ UNCHANGED <<spurious, idle_threads, cur, draining, local_wq, empty, status, queueVars, lockVars>>

PostLock(l) ==
    /\ lpc[l] = "post"
    /\ mutex = None
    /\ mutex' = l
    /\ lpc' = [lpc EXCEPT ![l] = "posting"]
    /\ UNCHANGED <<initialized, spurious, workerVars, lreq, draining, calls, local_wq, reqVars, queueVars, wq_mutex>>

\* Mutants: no signal; no signal when a single worker is idle.
SignalNever == UNCHANGED wpc

SignalOffByOne ==
    IF idle_threads > 1 /\ Idle # {}
    THEN \E w \in Idle : wpc' = [wpc EXCEPT ![w] = "woken"]
    ELSE UNCHANGED wpc

\* uv_cond_signal wakes one waiter; there may be none left even though
\* idle_threads, which a woken worker has yet to decrement, is positive.
Signal ==
    IF idle_threads > 0 /\ Idle # {}
    THEN \E w \in Idle : wpc' = [wpc EXCEPT ![w] = "woken"]
    ELSE UNCHANGED wpc

Post(l) ==
    /\ lpc[l] = "posting"
    /\ wq' = Append(wq, lreq[l])
    /\ empty' = [empty EXCEPT ![lreq[l]] = FALSE]
    /\ Signal
    /\ mutex' = None
    /\ lpc' = [lpc EXCEPT ![l] = "user"]
    /\ lreq' = [lreq EXCEPT ![l] = None]
    /\ UNCHANGED <<initialized, spurious, idle_threads, cur, draining, calls, local_wq, work, phase, status,
                   loop_wq, pending, wq_mutex>>

(***************************************************************************)
(* uv_cancel / uv__work_cancel, on the loop thread, for a request whose    *)
(* done callback has not run yet.                                          *)
(***************************************************************************)
Cancel(l, r) ==
    /\ lpc[l] = "user"
    /\ calls < MaxCalls
    /\ LoopOf[r] = l
    /\ phase[r] # "free"
    /\ calls' = calls + 1
    /\ lreq' = [lreq EXCEPT ![l] = r]
    /\ lpc' = [lpc EXCEPT ![l] = "cancel"]
    /\ UNCHANGED <<initialized, spurious, workerVars, draining, local_wq, reqVars, queueVars, lockVars>>

CancelLock(l) ==
    /\ lpc[l] = "cancel"
    /\ mutex = None
    /\ mutex' = l
    /\ lpc' = [lpc EXCEPT ![l] = "cancelling"]
    /\ UNCHANGED <<initialized, spurious, workerVars, lreq, draining, calls, local_wq, reqVars, queueVars, wq_mutex>>

CancelLoopLock(l) ==
    /\ lpc[l] = "cancelling"
    /\ wq_mutex[l] = None
    /\ wq_mutex' = [wq_mutex EXCEPT ![l] = l]
    /\ lpc' = [lpc EXCEPT ![l] = "trying"]
    /\ UNCHANGED <<initialized, spurious, workerVars, lreq, draining, calls, local_wq, reqVars, queueVars, mutex>>

\* Mutants: only one of the two conditions is tested.
CancellableLinked(r) == ~empty[r]

CancellableHasWork(r) == work[r] # "NULL"

Cancellable(r) == ~empty[r] /\ work[r] # "NULL"

\* The request is unlinked from the queue it is in, or the call fails (UV_EBUSY).
CancelTry(l) ==
    LET r == lreq[l] IN
    /\ lpc[l] = "trying"
    /\ mutex' = None
    /\ wq_mutex' = [wq_mutex EXCEPT ![l] = None]
    /\ \/ /\ Cancellable(r)
          /\ wq' = Unlink(wq, r)
          /\ loop_wq' = [loop_wq EXCEPT ![l] = Unlink(@, r)]
          /\ local_wq' = [local_wq EXCEPT ![l] = Unlink(@, r)]
          /\ phase' = [phase EXCEPT ![r] = "cancelled"]
          /\ lpc' = [lpc EXCEPT ![l] = "mark"]
          /\ UNCHANGED lreq
       \/ /\ ~Cancellable(r)
          /\ lpc' = [lpc EXCEPT ![l] = "user"]
          /\ lreq' = [lreq EXCEPT ![l] = None]
          /\ UNCHANGED <<wq, loop_wq, local_wq, phase>>
    /\ UNCHANGED <<initialized, spurious, workerVars, draining, calls, work, empty, status, pending>>

CancelMark(l) ==
    /\ lpc[l] = "mark"
    /\ work' = [work EXCEPT ![lreq[l]] = "cancelled"]
    /\ lpc' = [lpc EXCEPT ![l] = "reinsert"]
    /\ UNCHANGED <<initialized, spurious, workerVars, lreq, draining, calls, local_wq, empty, phase, status,
                   queueVars, lockVars>>

CancelReinsertLock(l) ==
    /\ lpc[l] = "reinsert"
    /\ wq_mutex[l] = None
    /\ wq_mutex' = [wq_mutex EXCEPT ![l] = l]
    /\ lpc' = [lpc EXCEPT ![l] = "reinserting"]
    /\ UNCHANGED <<initialized, spurious, workerVars, lreq, draining, calls, local_wq, reqVars, queueVars, mutex>>

\* Mutant: the loop is not woken for a cancelled request.
CancelReinsertSilent(l) ==
    /\ lpc[l] = "reinserting"
    /\ loop_wq' = [loop_wq EXCEPT ![l] = Append(@, lreq[l])]
    /\ wq_mutex' = [wq_mutex EXCEPT ![l] = None]
    /\ lpc' = [lpc EXCEPT ![l] = "user"]
    /\ lreq' = [lreq EXCEPT ![l] = None]
    /\ UNCHANGED <<initialized, spurious, workerVars, draining, calls, local_wq, reqVars, wq, pending, mutex>>

CancelReinsert(l) ==
    /\ lpc[l] = "reinserting"
    /\ loop_wq' = [loop_wq EXCEPT ![l] = Append(@, lreq[l])]
    /\ pending' = [pending EXCEPT ![l] = TRUE]
    /\ wq_mutex' = [wq_mutex EXCEPT ![l] = None]
    /\ lpc' = [lpc EXCEPT ![l] = "user"]
    /\ lreq' = [lreq EXCEPT ![l] = None]
    /\ UNCHANGED <<initialized, spurious, workerVars, draining, calls, local_wq, reqVars, wq, mutex>>

(***************************************************************************)
(* uv__work_done: the callback of wq_async.                                *)
(***************************************************************************)
WorkDone(l) ==
    /\ lpc[l] = "user"
    /\ ~draining[l]
    /\ pending[l]
    /\ pending' = [pending EXCEPT ![l] = FALSE]
    /\ draining' = [draining EXCEPT ![l] = TRUE]
    /\ lpc' = [lpc EXCEPT ![l] = "done"]
    /\ UNCHANGED <<initialized, spurious, workerVars, lreq, calls, local_wq, reqVars, wq, loop_wq, lockVars>>

WorkDoneLock(l) ==
    /\ lpc[l] = "done"
    /\ wq_mutex[l] = None
    /\ wq_mutex' = [wq_mutex EXCEPT ![l] = l]
    /\ lpc' = [lpc EXCEPT ![l] = "moving"]
    /\ UNCHANGED <<initialized, spurious, workerVars, lreq, draining, calls, local_wq, reqVars, queueVars, mutex>>

WorkDoneMove(l) ==
    /\ lpc[l] = "moving"
    /\ local_wq' = [local_wq EXCEPT ![l] = loop_wq[l]]
    /\ loop_wq' = [loop_wq EXCEPT ![l] = <<>>]
    /\ wq_mutex' = [wq_mutex EXCEPT ![l] = None]
    /\ lpc' = [lpc EXCEPT ![l] = "user"]
    /\ UNCHANGED <<initialized, spurious, workerVars, lreq, draining, calls, reqVars, wq, pending, mutex>>

\* Pop a request and call w->done (uv__queue_done unregisters the request and
\* calls after_work_cb).  The callback runs while the loop thread is back in
\* "user": it may submit and cancel.  The node keeps its stale links.
WorkDoneNext(l) ==
    LET r == Head(local_wq[l]) IN
    /\ lpc[l] = "user"
    /\ draining[l]
    /\ local_wq[l] # <<>>
    /\ local_wq' = [local_wq EXCEPT ![l] = Tail(@)]
    /\ phase' = [phase EXCEPT ![r] = "free"]
    /\ status' = [status EXCEPT ![r] = IF work[r] = "cancelled" THEN "ECANCELED" ELSE "0"]
    /\ UNCHANGED <<initialized, spurious, workerVars, lpc, lreq, draining, calls, work, empty, queueVars, lockVars>>

WorkDoneReturn(l) ==
    /\ lpc[l] = "user"
    /\ draining[l]
    /\ local_wq[l] = <<>>
    /\ draining' = [draining EXCEPT ![l] = FALSE]
    /\ UNCHANGED <<initialized, spurious, workerVars, lpc, lreq, calls, local_wq, reqVars, queueVars, lockVars>>

-----------------------------------------------------------------------------
WorkerStep(w) ==
    \/ WorkerLock(w) \/ WorkerWait(w) \/ WorkerRelock(w) \/ WorkerTake(w)
    \/ WorkerRun(w) \/ WorkerLoopLock(w) \/ WorkerFinish(w)

LoopStep(l) ==
    \/ PostLock(l) \/ Post(l)
    \/ CancelLock(l) \/ CancelLoopLock(l) \/ CancelTry(l)
    \/ CancelMark(l) \/ CancelReinsertLock(l) \/ CancelReinsert(l)
    \/ WorkDone(l) \/ WorkDoneLock(l) \/ WorkDoneMove(l)
    \/ WorkDoneNext(l) \/ WorkDoneReturn(l)

Call(l, r) == QueueWork(l, r) \/ Cancel(l, r)

Next ==
    \/ \E w \in Workers : WorkerStep(w) \/ SpuriousWakeup(w)
    \/ \E l \in Loops : LoopStep(l) \/ \E r \in Reqs : Call(l, r)

Spec == Init /\ [][Next]_vars

(***************************************************************************)
(* The scheduler runs every thread that can run, work callbacks return,    *)
(* and a loop with an active request keeps polling: uv_run does not return *)
(* while active_reqs is not empty.  Nothing obliges the user to call, nor  *)
(* a condition variable to wake spuriously.                                *)
(***************************************************************************)
Fairness ==
    /\ \A w \in Workers : WF_vars(WorkerStep(w))
    /\ \A l \in Loops : WF_vars(LoopStep(l))

FairSpec == Spec /\ Fairness
-----------------------------------------------------------------------------
(* Properties *)

\* The values every variable of the pool, the loops and the requests may take.
TypeOK ==
    /\ initialized \in BOOLEAN
    /\ mutex \in Workers \cup Loops \cup {None}
    /\ idle_threads \in Nat
    /\ spurious \in Nat
    /\ wq \in Seq(Reqs)
    /\ wpc \in [Workers -> WorkerPCs]
    /\ cur \in [Workers -> Reqs \cup {None}]
    /\ wq_mutex \in [Loops -> Workers \cup Loops \cup {None}]
    /\ loop_wq \in [Loops -> Seq(Reqs)]
    /\ pending \in [Loops -> BOOLEAN]
    /\ lpc \in [Loops -> LoopPCs]
    /\ lreq \in [Loops -> Reqs \cup {None}]
    /\ local_wq \in [Loops -> Seq(Reqs)]
    /\ draining \in [Loops -> BOOLEAN]
    /\ calls \in Nat
    /\ work \in [Reqs -> {"NULL", "work", "cancelled"}]
    /\ empty \in [Reqs -> BOOLEAN]
    /\ phase \in [Reqs -> {"free", "queued", "executing", "executed", "cancelled"}]
    /\ status \in [Reqs -> {"none", "0", "ECANCELED"}]

\* Workers on their way to look at the queue.
Looking == {w \in Workers : wpc[w] \in {"lock", "locked", "woken"}}

\* Workers that have added themselves to idle_threads and not yet removed themselves.
Counted == {w \in Workers : wpc[w] \in {"wait", "woken"}}

\* post() signals only when idle_threads > 0, a counter that includes workers
\* already woken: still, whenever a worker sleeps, every queued request has a
\* worker on its way to take it, so no request waits beside a sleeping worker.
WorkConserving ==
    /\ idle_threads = Cardinality(Counted)
    /\ Idle # {} => Len(wq) <= Cardinality(Looking)

\* The places a request's queue node is in: a position of a queue, a worker's
\* hands, or the hands of a loop thread that is submitting or cancelling it.
Places(r) ==
    LET l == LoopOf[r] IN
    {<<"wq", i>> : i \in {i \in 1..Len(wq) : wq[i] = r}}
    \cup {<<"loop", i>> : i \in {i \in 1..Len(loop_wq[l]) : loop_wq[l][i] = r}}
    \cup {<<"local", i>> : i \in {i \in 1..Len(local_wq[l]) : local_wq[l][i] = r}}
    \cup {<<"worker", w>> : w \in {w \in Workers : cur[w] = r}}
    \cup {<<"caller", k>> : k \in {k \in Loops : /\ lreq[k] = r
                                               /\ lpc[k] \in {"post", "posting", "mark",
                                                             "reinsert", "reinserting"}}}

\* Whatever the order of submission, execution, completion and (repeated)
\* cancellation, a request is in exactly one place until its done callback has
\* run and in none afterwards: QUEUE_REMOVE and QUEUE_INSERT_TAIL never lose a
\* node, link it twice or cross the queues of two loops.
OnePlace ==
    \A r \in Reqs : Cardinality(Places(r)) = IF phase[r] = "free" THEN 0 ELSE 1

\* "It's crucial that the worker never holds the global mutex and the
\* loop-local mutex at the same time" (threadpool.cpp, above worker()), and no
\* thread that owns a wq_mutex waits for the global mutex.
LockOrder ==
    /\ \A w \in Workers : ~(mutex = w /\ \E l \in Loops : wq_mutex[l] = w)
    /\ \A l \in Loops :
          /\ wq_mutex[l] \in Workers => wpc[wq_mutex[l]] \notin {"lock", "woken"}
          /\ wq_mutex[l] \in Loops => lpc[wq_mutex[l]] \notin {"post", "cancel"}

\* A worker never calls the w->work of a request uv_cancel has taken, which is
\* uv__cancelled and aborts, nor one that has been cleared already.
NeverAborts == \A w \in Workers : wpc[w] = "run" => work[cur[w]] = "work"

\* Work reported to a loop is never forgotten: while loop->wq is not empty the
\* loop's wq_async is pending or uv__work_done is about to take the queue.
NoLostCompletion ==
    \A l \in Loops : loop_wq[l] # <<>> => pending[l] \/ lpc[l] \in {"done", "moving"}

WR == INSTANCE WorkRequest WITH Reqs <- Reqs, phase <- phase, status <- status

\* The pool implements WorkRequest: executed or cancelled but never both, one
\* done callback per submission, whose status says which of the two it was.
ImplementsWorkRequest == WR!Spec

\* Every submitted request is reported to its loop, cancelled or not: no
\* lost wakeup of a worker or of the loop, and no deadlock of the mutexes.
\* (Calls are finitely many, so the pool comes to rest with all of them done.)
EveryRequestDone ==
    (\E r \in Reqs : phase[r] # "free") ~> (\A r \in Reqs : phase[r] = "free")
=============================================================================
