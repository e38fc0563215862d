------------------------------ MODULE LoopLife ------------------------------
(***************************************************************************)
(* The life of a loop: uv_loop_init and what it undoes when a step of it   *)
(* fails, what handles add to a loop later, uv_loop_close, the default     *)
(* loop and loops on the heap, and uv_walk over the handle queue with      *)
(* callbacks that open handles.  (src/src/unix/loop.cpp and                *)
(* src/src/uv-common.cpp.)                                                 *)
(***************************************************************************)
EXTENDS Queue

CONSTANTS
    UserHandles,   \* handles of the user
    MaxActive      \* bound: active requests of a loop

Internal == {"child_watcher", "wq_async"}

ASSUME LoopLifeAssumption == MaxActive \in Nat /\ Internal \cap UserHandles = {}

VARIABLES
    uvloop,        \* uvloop[l]: the uv_loop_t
    held,          \* held[l]: what the process holds on behalf of l
    defaultPtr,    \* default_loop_ptr is set
    walk           \* the uv_walk under way

loopLifeVars == <<uvloop, held, defaultPtr, walk>>

UvLoops == {"default", "heap"}
NoWalk == [loop |-> "none", queue |-> <<>>, due |-> <<>>, seen |-> <<>>]
Walking(l) == walk.loop = l
NoLoop == [at |-> "none", fields |-> {}, handles |-> <<>>, active |-> 0]

----------------------------------------------------------------------------
(* uv_loop_init.                                                           *)

\* What uv__async_start can get: an eventfd, a pipe reopened as one
\* descriptor, or a pipe with two.
AsyncFds == {{"async"}, {"async", "async_wfd"}}

\* The steps in their order; the second starts an I/O watcher, which
\* allocates the table of watchers.
InitSteps(async) ==
    <<{"epoll"}, {"signal_pipe", "watchers"}, {"cloexec_lock"}, {"wq_mutex"}, async>>

\* What the labels of uv_loop_init undo when step k fails.
Undone(k) ==
    (IF k > 4 THEN {"wq_mutex"} ELSE {}) \cup (IF k > 3 THEN {"cloexec_lock"} ELSE {})
    \cup (IF k > 2 THEN {"signal_pipe"} ELSE {})

Acquired(k, async) == UNION {InitSteps(async)[i] : i \in 1..(k - 1)}

\* uv_loop_init succeeds, or fails at some step.
uv_loop_init(l, ok) ==
    /\ \E async \in AsyncFds :
         \/ /\ ok
            /\ uvloop' = [uvloop EXCEPT ![l] =
                  [at |-> "open", fields |-> Acquired(6, async),
                   handles |-> <<"child_watcher", "wq_async">>, active |-> 0]]
            /\ held' = [held EXCEPT ![l] = @ \cup Acquired(6, async)]
         \/ /\ ~ok
            /\ \E k \in 1..5 :
                 held' = [held EXCEPT ![l] = @ \cup (Acquired(k, async) \ Undone(k))]
            /\ uvloop' = [uvloop EXCEPT ![l] = NoLoop]
    /\ UNCHANGED walk

\* uv_default_loop initializes the static loop unless it is initialized.
uv_default_loop ==
    /\ ~defaultPtr /\ uvloop["default"].at = "none"
    /\ \E ok \in BOOLEAN : uv_loop_init("default", ok) /\ defaultPtr' = ok

\* uv_loop_new frees the loop again when it cannot be initialized.
uv_loop_new ==
    /\ uvloop["heap"].at = "none"
    /\ \E ok \in BOOLEAN : uv_loop_init("heap", ok)
    /\ UNCHANGED defaultPtr

----------------------------------------------------------------------------
(* What the user does with an open loop.                                   *)

Opened(l) == uvloop[l].at = "open"
Used(l) == Range(uvloop[l].handles)

\* uv__handle_init; a stream also opens the spare descriptor for EMFILE, if
\* it can.  The user may do it in a walk's callback.
uv__handle_init(l, h) ==
    /\ Opened(l) /\ \A m \in UvLoops : h \notin Used(m) \cup Range(walk.queue)
    /\ \E extra \in {{}, {"emfile_fd"}} :
         /\ uvloop' = [uvloop EXCEPT ![l].handles = Append(@, h), ![l].fields = @ \cup extra]
         /\ held' = [held EXCEPT ![l] = @ \cup extra]
    /\ UNCHANGED <<defaultPtr, walk>>

\* init_inotify, for the first fs event handle.
init_inotify(l) ==
    /\ Opened(l) /\ "inotify_fd" \notin uvloop[l].fields
    /\ uvloop' = [uvloop EXCEPT ![l].fields = @ \cup {"inotify_fd"}]
    /\ held' = [held EXCEPT ![l] = @ \cup {"inotify_fd"}]
    /\ UNCHANGED <<defaultPtr, walk>>

\* uv__finish_close, in uv_run and so never in a walk.
HandleClosed(l, h) ==
    /\ ~Walking(l) /\ h \in Used(l) \ Internal
    /\ uvloop' = [uvloop EXCEPT ![l].handles = Unlink(@, h)]
    /\ UNCHANGED <<held, defaultPtr, walk>>

RequestBegins(l) ==
    /\ Opened(l) /\ uvloop[l].active < MaxActive
    /\ uvloop' = [uvloop EXCEPT ![l].active = @ + 1]
    /\ UNCHANGED <<held, defaultPtr, walk>>

RequestEnds(l) ==
    /\ ~Walking(l) /\ uvloop[l].active > 0
    /\ uvloop' = [uvloop EXCEPT ![l].active = @ - 1]
    /\ UNCHANGED <<held, defaultPtr, walk>>

----------------------------------------------------------------------------
(* uv_walk.                                                                *)

\* The queue moves to a local one.
WalkBegins(l) ==
    /\ Opened(l) /\ walk = NoWalk
    /\ walk' = [loop |-> l, queue |-> uvloop[l].handles, seen |-> <<>>, due |-> uvloop[l].handles]
    /\ uvloop' = [uvloop EXCEPT ![l].handles = <<>>]
    /\ UNCHANGED <<held, defaultPtr>>

\* The next handle goes back to the loop's queue, then to the callback.
uv_walk ==
    /\ walk.loop # "none"
    /\ LET h == Head(walk.queue) IN
       IF walk.queue = <<>> THEN walk' = NoWalk /\ UNCHANGED uvloop
       ELSE /\ uvloop' = [uvloop EXCEPT ![walk.loop].handles = Append(@, h)]
            /\ walk' = [walk EXCEPT !.queue = Tail(@),
                                    !.seen = IF h \in Internal THEN @ ELSE Append(@, h)]
    /\ UNCHANGED <<held, defaultPtr>>

----------------------------------------------------------------------------
(* uv_loop_close and uv_loop_delete.                                       *)

Busy(l) == uvloop[l].active > 0 \/ ~(Used(l) \subseteq Internal)

\* Mutant: the spare descriptor is forgotten.
uv__loop_close_emfile(fields) ==
    {"signal_pipe", "wq_mutex", "cloexec_lock", "watchers"}
    \cup (fields \cap {"inotify_fd", "async", "async_wfd", "epoll"})

\* What uv__loop_close gives back of the loop's fields.
uv__loop_close(fields) ==
    {"signal_pipe", "wq_mutex", "cloexec_lock", "watchers"}
    \cup (fields \cap {"inotify_fd", "async", "async_wfd", "emfile_fd", "epoll"})

\* UV_EBUSY changes nothing.  uv_loop_delete, which insists on success and
\* frees a heap loop, is a close for what is modelled here.
uv_loop_close(l) ==
    /\ Opened(l) /\ ~Walking(l) /\ ~Busy(l)
    /\ held' = [held EXCEPT ![l] = @ \ uv__loop_close(uvloop[l].fields)]
    /\ uvloop' = [uvloop EXCEPT ![l] = NoLoop]
    /\ defaultPtr' = (defaultPtr /\ l # "default")
    /\ UNCHANGED walk

LoopLifeInit ==
    /\ uvloop = [l \in UvLoops |-> NoLoop] /\ held = [l \in UvLoops |-> {}]
    /\ defaultPtr = FALSE /\ walk = NoWalk

LoopLifeNext ==
    \/ uv_default_loop \/ uv_loop_new \/ uv_walk
    \/ \E l \in UvLoops :
         \/ init_inotify(l) \/ RequestBegins(l) \/ RequestEnds(l)
         \/ WalkBegins(l) \/ uv_loop_close(l)
         \/ \E h \in UserHandles : uv__handle_init(l, h) \/ HandleClosed(l, h)

LoopLifeSpec == LoopLifeInit /\ [][LoopLifeNext]_loopLifeVars

----------------------------------------------------------------------------
(* Properties.                                                             *)

\* An open loop holds what its fields say, and a loop that was closed or
\* never got open holds nothing but what a failed uv_loop_init forgets: the
\* epoll descriptor and, from the second step on, the table of watchers.
\* default_loop_ptr is set exactly while the default loop is open.
LoopReleased ==
    /\ \A l \in UvLoops :
         IF Opened(l) THEN uvloop[l].fields \subseteq held[l]
                           /\ held[l] \ uvloop[l].fields \subseteq {"epoll", "watchers"}
         ELSE held[l] \subseteq {"epoll", "watchers"}
    /\ defaultPtr <=> Opened("default")

Before(q, g, h) == \E i, j \in DOMAIN q : i < j /\ q[i] = g /\ q[j] = h

\* uv_walk calls back for every handle that is not internal and was open
\* when it began, once and in order, whatever handles its callbacks open:
\* it has called those that are not in its queue any longer.  No handle is
\* in two queues or twice in one.
WalkExact ==
    /\ walk.loop # "none" =>
         /\ Range(walk.seen) = Range(walk.due) \ (Internal \cup Range(walk.queue))
         /\ \A i, j \in DOMAIN walk.seen : i < j => Before(walk.due, walk.seen[i], walk.seen[j])
         /\ Distinct(walk.due)
         /\ Distinct(walk.queue \o uvloop[walk.loop].handles)
    /\ \A l \in UvLoops : Distinct(uvloop[l].handles)
    /\ \A l \in UvLoops : Opened(l) /\ ~Walking(l) => Internal \subseteq Used(l)

\* uv_loop_init and uv_loop_close are balanced and uv_walk is exact.
LoopLifeRight == LoopReleased /\ WalkExact
=============================================================================
