------------------------------- MODULE Timer -------------------------------
(***************************************************************************)
(* Timers: src/src/unix/timer.cpp, with the parts of uv_run (core.cpp) and *)
(* uv__io_poll (linux-core.cpp) that turn the earliest timer into a poll   *)
(* timeout and the end of the poll into timer callbacks.                   *)
(*                                                                         *)
(* now is the clock and time is loop->time, the loop's cached copy of it;  *)
(* the clock may advance at any moment.  Integers are unsigned of a small  *)
(* width: UINT64_MAX and INT_MAX keep their names but are constants.  The  *)
(* timer heap is the set of active timers with its minimum.                *)
(***************************************************************************)
EXTENDS Integers, FiniteSets, FiniteSetsExt

CONSTANTS
    Timers,             \* uv_timer_t handles, initialised, on one loop
    Timeouts, Repeats,  \* arguments of uv_timer_start
    Modes,              \* the modes uv_run is called with
    UINT64_MAX,         \* the largest uint64_t
    INT_MAX,            \* the largest int
    MaxSafeTimeout,     \* max_safe_timeout, where long has 32 bits
    MaxTime,            \* bound: outside epoll_wait the clock stops here
    ClockEnd,           \* bound: inside epoll_wait the clock stops here
    MaxCalls,           \* bound: calls of the timer API
    MaxInterrupts,      \* bound: epoll_wait calls that end without a callback
    None

ASSUME TimerAssumption ==
    /\ UINT64_MAX \in Nat
    /\ INT_MAX \in Nat \ {0}
    /\ MaxSafeTimeout \in Nat \ {0}
    /\ MaxTime \in Nat
    /\ ClockEnd \in (MaxTime + INT_MAX)..(UINT64_MAX - 1)
    /\ Timeouts \subseteq 0..UINT64_MAX
    /\ Repeats \subseteq 0..UINT64_MAX
    /\ Modes \subseteq {"DEFAULT", "ONCE", "NOWAIT"}
    /\ MaxCalls \in Nat
    /\ MaxInterrupts \in Nat
    /\ None \notin Timers

VARIABLES
    now, time,              \* the clock, loop->time
    active,                 \* timers in the heap
    has_cb,                 \* timers whose timer_cb is not NULL
    timeout, repeat,        \* each timer's fields
    start_id, timer_counter,
    due,                    \* history: the sum uv_timer_start means, not clamped
    pc, cur, mode,          \* the loop thread, the timer it serves, uv_run's mode
    poll, real_timeout, base, entered,  \* uv__io_poll's timeout, and when epoll_wait began
    progress,               \* history: has this uv_run called back
    calls, interrupts       \* bounds

timerVars == <<active, has_cb, timeout, repeat, start_id, timer_counter, due>>
pollVars  == <<poll, real_timeout, base, entered>>
runVars   == <<pc, cur, mode, progress>>
vars == <<now, time, timerVars, pollVars, runVars, calls, interrupts>>

Init ==
    /\ now = 0
    /\ time = 0
    /\ active = {}
    /\ has_cb = {}
    /\ timeout = [t \in Timers |-> 0]
    /\ repeat = [t \in Timers |-> 0]
    /\ start_id = [t \in Timers |-> 0]
    /\ timer_counter = 0
    /\ due = [t \in Timers |-> 0]
    /\ pc = "out"
    /\ cur = None
    /\ mode = "NOWAIT"
    /\ poll = 0
    /\ real_timeout = 0
    /\ base = 0
    /\ entered = 0
    /\ progress = TRUE
    /\ calls = 0
    /\ interrupts = 0

Tick ==
    /\ now < IF pc = "epoll" THEN ClockEnd ELSE MaxTime
    /\ now' = now + 1
    /\ UNCHANGED <<time, timerVars, pollVars, runVars, calls, interrupts>>

(***************************************************************************)
(* The timer API, from outside uv_run or from a callback.                  *)
(***************************************************************************)
\* Mutant: the sum wraps around.
DeadlineWraps(d) == (time + d) % (UINT64_MAX + 1)

\* uint64_t addition, clamped where it wraps around.
Deadline(d) ==
    LET sum == (time + d) % (UINT64_MAX + 1) IN
    IF sum < d THEN UINT64_MAX ELSE sum

\* Mutant: start_id is not advanced.
ArmSameId(t, d, r) ==
    /\ active' = active \cup {t}
    /\ has_cb' = has_cb \cup {t}
    /\ timeout' = [timeout EXCEPT ![t] = Deadline(d)]
    /\ due' = [due EXCEPT ![t] = time + d]
    /\ repeat' = [repeat EXCEPT ![t] = r]
    /\ start_id' = [start_id EXCEPT ![t] = timer_counter]
    /\ UNCHANGED timer_counter

\* The assignments of uv_timer_start.
Arm(t, d, r) ==
    /\ active' = active \cup {t}
    /\ has_cb' = has_cb \cup {t}
    /\ timeout' = [timeout EXCEPT ![t] = Deadline(d)]
    /\ due' = [due EXCEPT ![t] = time + d]
    /\ repeat' = [repeat EXCEPT ![t] = r]
    /\ start_id' = [start_id EXCEPT ![t] = timer_counter]
    /\ timer_counter' = timer_counter + 1

Api ==
    /\ pc \in {"out", "cb"}
    /\ calls < MaxCalls
    /\ calls' = calls + 1
    /\ UNCHANGED <<now, time, pollVars, runVars, interrupts>>

TimerStart(t, d, r) ==
    /\ Api
    /\ Arm(t, d, r)

TimerStop(t) ==
    /\ Api
    /\ active' = active \ {t}
    /\ UNCHANGED <<has_cb, timeout, repeat, start_id, timer_counter, due>>

TimerSetRepeat(t, r) ==
    /\ Api
    /\ repeat' = [repeat EXCEPT ![t] = r]
    /\ UNCHANGED <<active, has_cb, timeout, start_id, timer_counter, due>>

TimerAgain(t) ==
    /\ Api
    /\ t \in has_cb
    /\ repeat[t] # 0
    /\ Arm(t, repeat[t], repeat[t])

(***************************************************************************)
(* uv_run                                                                  *)
(***************************************************************************)
RunBegin(m) ==
    /\ pc = "out"
    /\ active # {}
    /\ mode' = m
    /\ progress' = FALSE
    /\ time' = now
    /\ pc' = "timers"
    /\ UNCHANGED <<now, timerVars, pollVars, cur, calls, interrupts>>

\* Mutant: the comparison is the wrong way round.
BeforeReversed(t, u) ==
    \/ timeout[t] > timeout[u]
    \/ timeout[t] = timeout[u] /\ start_id[t] < start_id[u]

\* timer_less_than
Before(t, u) ==
    \/ timeout[t] < timeout[u]
    \/ timeout[t] = timeout[u] /\ start_id[t] < start_id[u]

heap_min == CHOOSE t \in active : \A u \in active \ {t} : Before(t, u)

Expired == active # {} /\ timeout[heap_min] <= time

\* uv__run_timers takes the minimum, rearms it if it repeats, and calls back.
RunTimer ==
    /\ pc \in {"timers", "timers again"}
    /\ Expired
    /\ LET t == heap_min IN
       /\ \/ repeat[t] # 0 /\ Arm(t, repeat[t], repeat[t])
          \/ /\ repeat[t] = 0
             /\ active' = active \ {t}
             /\ UNCHANGED <<has_cb, timeout, repeat, start_id, timer_counter, due>>
       /\ cur' = <<pc, due[t]>>
    /\ pc' = "cb"
    /\ progress' = TRUE
    /\ UNCHANGED <<now, time, pollVars, mode, calls, interrupts>>

CallbackReturn ==
    /\ pc = "cb"
    /\ pc' = cur[1]
    /\ cur' = None
    /\ UNCHANGED <<now, time, timerVars, pollVars, mode, progress, calls, interrupts>>

\* Mutant: the difference is returned as an int without the cap.
next_timeout_truncated ==
    IF active = {} \/ timeout[heap_min] <= time THEN 0
    ELSE LET diff == timeout[heap_min] - time IN
         IF diff > INT_MAX THEN diff - 2 * (INT_MAX + 1) ELSE diff

\* uv_backend_timeout and uv__next_timeout; only timers are active here.
next_timeout ==
    IF active = {} \/ timeout[heap_min] <= time THEN 0
    ELSE Min({timeout[heap_min] - time, INT_MAX})

PollBegin ==
    /\ pc = "timers"
    /\ ~Expired
    /\ real_timeout' = IF mode = "NOWAIT" THEN 0 ELSE next_timeout
    /\ poll' = Min({real_timeout', MaxSafeTimeout})
    /\ base' = time
    /\ entered' = now
    /\ pc' = "epoll"
    /\ UNCHANGED <<now, time, timerVars, cur, mode, progress, calls, interrupts>>

\* The code after uv__io_poll: UV_RUN_ONCE updates the time and runs timers again.
AfterPoll == IF mode = "ONCE" THEN "update" ELSE "end"

\* uv__io_poll returns, and its variables are no more.
PollLeft ==
    /\ poll' = 0
    /\ real_timeout' = 0
    /\ base' = 0
    /\ entered' = 0

PollReturn == PollLeft /\ pc' = AfterPoll

\* Mutant: after an interruption the same timeout is waited for again.
UpdateTimeoutKeeps ==
    /\ entered' = now
    /\ UNCHANGED <<poll, real_timeout, base, pc>>

\* update_timeout: subtract what has passed since base and wait for the rest.
UpdateTimeout ==
    LET left == real_timeout - (time' - base) IN
    \/ /\ left <= 0
       /\ PollReturn
    \/ /\ left > 0
       /\ real_timeout' = left
       /\ poll' = Min({left, MaxSafeTimeout})
       /\ entered' = now
       /\ UNCHANGED <<base, pc>>

\* epoll_wait ends without a callback: its timeout is over, or before that a
\* signal interrupts it (EINTR) or it reports events nobody watches.
EpollNothing ==
    /\ pc = "epoll"
    /\ \/ now >= entered + poll /\ UNCHANGED interrupts
       \/ interrupts < MaxInterrupts /\ interrupts' = interrupts + 1
    /\ time' = now
    /\ \/ /\ poll = 0
          /\ PollReturn
       \/ /\ poll > 0
          /\ UpdateTimeout
    /\ UNCHANGED <<now, timerVars, cur, mode, progress, calls>>

\* epoll_wait reports an event of a watcher, whose callback runs.
EpollEvent ==
    /\ pc = "epoll"
    /\ interrupts < MaxInterrupts
    /\ interrupts' = interrupts + 1
    /\ time' = now
    /\ pc' = "cb"
    /\ cur' = <<AfterPoll, 0>>
    /\ progress' = TRUE
    /\ PollLeft
    /\ UNCHANGED <<now, timerVars, mode, calls>>

\* UV_RUN_ONCE: "uv__update_time(loop); uv__run_timers(loop);"
UpdateTime ==
    /\ pc = "update"
    /\ time' = now
    /\ pc' = "timers again"
    /\ UNCHANGED <<now, timerVars, pollVars, cur, mode, progress, calls, interrupts>>

TimersAgainDone ==
    /\ pc = "timers again"
    /\ ~Expired
    /\ pc' = "end"
    /\ UNCHANGED <<now, time, timerVars, pollVars, cur, mode, progress, calls, interrupts>>

RunEnd ==
    /\ pc = "end"
    /\ \/ /\ mode = "DEFAULT" /\ active # {}
          /\ time' = now
          /\ pc' = "timers"
       \/ /\ ~(mode = "DEFAULT" /\ active # {})
          /\ pc' = "out"
          /\ UNCHANGED time
    /\ UNCHANGED <<now, timerVars, pollVars, cur, mode, progress, calls, interrupts>>

-----------------------------------------------------------------------------
LoopStep ==
    \/ RunTimer \/ CallbackReturn \/ PollBegin \/ EpollNothing
    \/ UpdateTime \/ TimersAgainDone \/ RunEnd

User ==
    \/ \E m \in Modes : RunBegin(m)
    \/ \E t \in Timers : \/ \E d \in Timeouts, r \in Repeats : TimerStart(t, d, r)
                         \/ \E r \in Repeats : TimerSetRepeat(t, r)
                         \/ TimerStop(t)
                         \/ TimerAgain(t)

Next == Tick \/ LoopStep \/ EpollEvent \/ User

Spec == Init /\ [][Next]_vars

(***************************************************************************)
(* The clock advances, the loop thread runs, callbacks return.  No I/O has *)
(* to happen, and nobody has to call uv_run or the timer API.              *)
(***************************************************************************)
FairSpec == Spec /\ WF_vars(Tick) /\ WF_vars(LoopStep)
-----------------------------------------------------------------------------
(* Properties *)

\* The values of the clock, the timers' fields and uv__io_poll's variables.
TypeOK ==
    /\ now \in 0..ClockEnd
    /\ time \in 0..now
    /\ active \subseteq has_cb
    /\ has_cb \subseteq Timers
    /\ timeout \in [Timers -> 0..UINT64_MAX]
    /\ repeat \in [Timers -> 0..UINT64_MAX]
    /\ start_id \in [Timers -> Nat]
    /\ timer_counter \in Nat
    /\ due \in [Timers -> Nat]
    /\ pc \in {"out", "timers", "cb", "epoll", "update", "timers again", "end"}
    /\ cur \in {None} \cup ({"timers", "timers again", "update", "end"} \X Nat)
    /\ mode \in Modes \cup {"NOWAIT"}
    /\ poll \in 0..INT_MAX
    /\ real_timeout \in 0..INT_MAX
    /\ base \in 0..now
    /\ entered \in 0..now
    /\ progress \in BOOLEAN
    /\ calls \in 0..MaxCalls
    /\ interrupts \in 0..MaxInterrupts

\* A callback never runs before loop->time has reached the sum of the time of
\* uv_timer_start and the timeout asked for, even where the 64 bit sum wraps
\* around: such a timer waits for the end of time.
NeverEarly == pc = "cb" => time >= Min({cur[2], UINT64_MAX})

\* epoll_wait, first called or called again after an interruption, never waits
\* past the deadline of a timer: what is left of the timeout is recomputed
\* from loop->time each time.
NeverOversleeps ==
    pc = "epoll" => \A t \in active : time + poll <= Max({timeout[t], time})

\* Two timers never compare equal, so the order in which timers with one
\* deadline fire is the order in which they were started.
StartOrder ==
    \A t, u \in active : t # u =>
        /\ start_id[t] # start_id[u]
        /\ start_id[t] < start_id[u] /\ due[t] <= due[u] => Before(t, u)

\* While uv_run(UV_RUN_DEFAULT) runs, a timer whose deadline has passed is
\* called back, unless it is stopped or started again first: no chain of
\* interruptions and early returns of uv__io_poll leaves it behind.
Overdue(t) == mode = "DEFAULT" /\ pc # "out" /\ t \in active /\ timeout[t] <= now

EveryTimerFires == \A t \in Timers : Overdue(t) ~> ~Overdue(t)

\* "UV_RUN_ONCE implies forward progress: at least one callback must have been
\* invoked when it returns" (core.cpp, uv_run).
ForwardProgress == pc = "out" /\ mode = "ONCE" => progress
=============================================================================
