---------------------------- MODULE RequestProofs ----------------------------
(***************************************************************************)
(* The inductive invariants of what is asked of a loop once: its timers,   *)
(* for any set of timers, any clock and any width of uint64_t and int; the *)
(* requests of uv_fs_*, for any number of buffers, bytes and entries; and  *)
(* uv_spawn, for any number of slots and any descriptors of the caller.    *)
(***************************************************************************)
EXTENDS Timer, Fs, Stdio, QueueLemmas, FiniteSetTheorems

\* What uv_timer_start stores for the deadline it means.
Clamped(sum) == IF sum <= UINT64_MAX THEN sum ELSE UINT64_MAX

\* An active timer has the clamped deadline and an identity of its own.
Armed ==
    /\ \A t \in active : timeout[t] = Clamped(due[t]) /\ start_id[t] < timer_counter
    /\ \A t, u \in active : t # u => start_id[t] # start_id[u]

\* A callback knows where the loop goes on and was due.
CallsDue ==
    pc = "cb" => /\ cur \in {"timers", "timers again", "update", "end"} \X Nat
                 /\ time >= Clamped(cur[2])

\* The whole wait that is left, and not only the part epoll_wait is asked
\* for, ends before the next deadline; base is never later than loop->time.
WaitFits ==
    pc = "epoll" =>
        /\ base <= time /\ poll <= real_timeout
        /\ \A t \in active : real_timeout > 0 => time + real_timeout <= timeout[t]

\* TypeOK in three parts: the timers, the clock with the wait, and uv_run.
FieldsOK ==
    /\ active \subseteq has_cb /\ has_cb \subseteq Timers
    /\ timeout \in [Timers -> 0..UINT64_MAX] /\ repeat \in [Timers -> 0..UINT64_MAX]
    /\ start_id \in [Timers -> Nat] /\ timer_counter \in Nat
    /\ due \in [Timers -> Nat]
ClockOK ==
    /\ now \in 0..ClockEnd /\ time \in 0..now
    /\ poll \in 0..INT_MAX /\ real_timeout \in 0..INT_MAX
    /\ base \in 0..now /\ entered \in 0..now
RunOK ==
    /\ pc \in {"out", "timers", "cb", "epoll", "update", "timers again", "end"}
    /\ cur \in {None} \cup ({"timers", "timers again", "update", "end"} \X Nat)
    /\ mode \in Modes \cup {"NOWAIT"}
    /\ progress \in BOOLEAN
    /\ calls \in 0..MaxCalls
    /\ interrupts \in 0..MaxInterrupts

\* The inductive invariant.
IInv == TypeOK /\ Armed /\ CallsDue /\ WaitFits

----------------------------------------------------------------------------
(* Numbers.                                                                *)

\* Min and Max of two numbers.
LEMMA MinOfTwo ==
    ASSUME NEW a \in Int, NEW b \in Int
    PROVE  Min({a, b}) = IF a <= b THEN a ELSE b
  BY DEF Min

LEMMA MaxOfTwo ==
    ASSUME NEW a \in Int, NEW b \in Int
    PROVE  Max({a, b}) = IF a <= b THEN b ELSE a
  BY DEF Max

\* The heap's minimum is an active timer that no other comes before.
LEMMA HeapMin ==
    ASSUME TypeOK, Armed, active # {}
    PROVE  /\ heap_min \in active
           /\ \A u \in active : timeout[heap_min] <= timeout[u]
<1>0. active \subseteq Timers /\ timeout \in [Timers -> 0..UINT64_MAX]
      /\ start_id \in [Timers -> Nat] /\ UINT64_MAX \in Nat
  BY TimerAssumption DEF TypeOK
<1> DEFINE T == {timeout[t] : t \in active}
<1>1. T \subseteq Nat /\ T # {}
  BY <1>0
<1>2. PICK m \in T : \A y \in T : m <= y
  <2> HIDE DEF T
  <2> QED BY <1>1, LeastNatural
<1> DEFINE A == {t \in active : timeout[t] = m}
           S == {start_id[t] : t \in A}
<1>3. S \subseteq Nat /\ S # {}
  BY <1>0, <1>2
<1>4. PICK s \in S : \A y \in S : s <= y
  <2> HIDE DEF S
  <2> QED BY <1>3, LeastNatural
<1>5. PICK t \in A : start_id[t] = s
  BY <1>4
<1>6. ASSUME NEW u \in active \ {t}
      PROVE  Before(t, u)
  <2>1. m <= timeout[u] /\ timeout[t] = m /\ timeout[u] \in Nat /\ m \in Nat
    BY <1>0, <1>2, <1>5
  <2>2. CASE timeout[u] = m
    <3>1. start_id[u] \in S /\ start_id[u] \in Nat /\ start_id[t] \in Nat
      BY <2>2, <1>0, <1>5
    <3>2. start_id[t] <= start_id[u] /\ start_id[t] # start_id[u]
      BY <3>1, <1>4, <1>5 DEF Armed
    <3> QED BY <3>1, <3>2, <2>1, <2>2 DEF Before
  <2>3. CASE timeout[u] # m
    BY <2>1, <2>3 DEF Before
  <2> QED BY <2>2, <2>3
<1>7. t \in active /\ \A u \in active \ {t} : Before(t, u)
  BY <1>5, <1>6
<1>8. heap_min \in active /\ \A u \in active \ {heap_min} : Before(heap_min, u)
  BY <1>7 DEF heap_min
<1>9. ASSUME NEW u \in active PROVE timeout[heap_min] <= timeout[u]
  <2>1. timeout[heap_min] \in Nat /\ timeout[u] \in Nat
    BY <1>0, <1>8
  <2>2. CASE u = heap_min
    BY <2>1, <2>2
  <2>3. CASE u # heap_min
    BY <2>1, <2>3, <1>8 DEF Before
  <2> QED BY <2>2, <2>3
<1> QED BY <1>8, <1>9

----------------------------------------------------------------------------
(* The steps.                                                              *)

\* A number that has wrapped around once.
LEMMA ModOnce ==
    ASSUME NEW m \in Nat \ {0}, NEW x \in Nat, m <= x, x < 2 * m
    PROVE  x % m = x - m
  BY Z3

\* The loop's clock stays within uint64_t.
LEMMA TimeBounds ==
    ASSUME TypeOK
    PROVE  /\ UINT64_MAX \in Nat /\ INT_MAX \in Nat /\ MaxSafeTimeout \in Nat
           /\ time \in Nat /\ now \in Nat /\ time <= now /\ now < UINT64_MAX
<1>1. UINT64_MAX \in Nat /\ INT_MAX \in Nat /\ MaxSafeTimeout \in Nat /\ MaxTime \in Nat
  BY TimerAssumption
<1>2. ClockEnd \in Nat /\ ClockEnd < UINT64_MAX
  <2>1. ClockEnd \in (MaxTime + INT_MAX)..(UINT64_MAX - 1)
    BY TimerAssumption
  <2> QED BY <1>1, <2>1
<1>3. now \in 0..ClockEnd /\ time \in 0..now
  BY DEF TypeOK
<1> QED BY <1>1, <1>2, <1>3

\* The 64 bit sum is the sum, or wraps around to something less than d.
LEMMA DeadlineClamped ==
    ASSUME TypeOK, NEW d \in 0..UINT64_MAX
    PROVE  Deadline(d) = Clamped(time + d) /\ Deadline(d) \in 0..UINT64_MAX
<1>0. UINT64_MAX \in Nat /\ time \in Nat /\ time < UINT64_MAX + 1 /\ d \in Nat /\ d <= UINT64_MAX
  BY TimeBounds
<1>1. CASE time + d <= UINT64_MAX
  <2>1. (time + d) % (UINT64_MAX + 1) = time + d
    BY <1>0, <1>1
  <2> QED BY <2>1, <1>0, <1>1 DEF Deadline, Clamped
<1>2. CASE time + d > UINT64_MAX
  <2>1. (time + d) % (UINT64_MAX + 1) = (time + d) - (UINT64_MAX + 1)
    BY <1>0, <1>2, ModOnce
  <2> QED BY <2>1, <1>0, <1>2 DEF Deadline, Clamped
<1> QED BY <1>0, <1>1, <1>2

LEMMA InitIInv == Init => IInv
<1> SUFFICES ASSUME Init PROVE IInv
  OBVIOUS
<1> USE DEF Init
<1>1. ClockEnd \in Nat
  <2>1. UINT64_MAX \in Nat /\ INT_MAX \in Nat /\ MaxTime \in Nat
        /\ ClockEnd \in (MaxTime + INT_MAX)..(UINT64_MAX - 1)
    BY TimerAssumption
  <2> QED BY <2>1
<1>2. TypeOK
  BY <1>1, TimerAssumption DEF TypeOK
<1>3. Armed /\ CallsDue /\ WaitFits
  BY DEF Armed, CallsDue, WaitFits
<1> QED BY <1>2, <1>3 DEF IInv

\* The clock: nothing of the invariant is about the present moment but the
\* bounds of what was read from the clock before.
LEMMA TickStep ==
    ASSUME IInv, Tick
    PROVE  IInv'
<1> USE DEF Tick, timerVars, pollVars, runVars, IInv
<1>1. /\ now' = now + 1 /\ now \in Nat /\ now' <= ClockEnd /\ ClockEnd \in Nat
  <2>1. UINT64_MAX \in Nat /\ INT_MAX \in Nat /\ MaxTime \in Nat
        /\ ClockEnd \in (MaxTime + INT_MAX)..(UINT64_MAX - 1)
    BY TimerAssumption
  <2>2. now \in Nat /\ MaxTime <= ClockEnd /\ ClockEnd \in Nat
    BY <2>1, TimeBounds
  <2>3. now < ClockEnd
    BY <2>1, <2>2
  <2> QED BY <2>2, <2>3
<1>2. time \in 0..now' /\ base \in 0..now' /\ entered \in 0..now' /\ now' \in 0..ClockEnd
  <2>1. time \in 0..now /\ base \in 0..now /\ entered \in 0..now
    BY DEF TypeOK
  <2> QED BY <1>1, <2>1
<1>3. TypeOK'
  BY <1>2 DEF TypeOK
<1>4. Armed' /\ CallsDue' /\ WaitFits'
  BY DEF Armed, CallsDue, WaitFits
<1> QED BY <1>3, <1>4

\* uv_timer_start: the new deadline is clamped and the identity new.
LEMMA ArmFacts ==
    ASSUME TypeOK, Armed, NEW t \in Timers, NEW d \in 0..UINT64_MAX, NEW r \in 0..UINT64_MAX,
           Arm(t, d, r)
    PROVE  Armed' /\ FieldsOK'
<1> USE DEF Arm
<1>1. Deadline(d) = Clamped(time + d) /\ Deadline(d) \in 0..UINT64_MAX
  BY DeadlineClamped
<1>2. time + d \in Nat /\ timer_counter \in Nat
  <2>1. d \in Nat /\ time \in Nat
    BY TimeBounds
  <2>2. timer_counter \in Nat
    BY DEF TypeOK
  <2> QED BY <2>1, <2>2
<1>3. /\ timeout' = [timeout EXCEPT ![t] = Deadline(d)] /\ due' = [due EXCEPT ![t] = time + d]
      /\ active' = active \cup {t} /\ start_id' = [start_id EXCEPT ![t] = timer_counter]
      /\ repeat' = [repeat EXCEPT ![t] = r] /\ has_cb' = has_cb \cup {t}
      /\ timer_counter' = timer_counter + 1
  OBVIOUS
<1>3a. /\ active \subseteq Timers /\ has_cb \subseteq Timers /\ active \subseteq has_cb
       /\ timeout \in [Timers -> 0..UINT64_MAX] /\ repeat \in [Timers -> 0..UINT64_MAX]
       /\ start_id \in [Timers -> Nat] /\ due \in [Timers -> Nat]
  BY DEF TypeOK
<1> HIDE DEF Arm
<1>4. /\ active' \subseteq has_cb' /\ has_cb' \subseteq Timers
      /\ timeout' \in [Timers -> 0..UINT64_MAX] /\ repeat' \in [Timers -> 0..UINT64_MAX]
      /\ start_id' \in [Timers -> Nat] /\ timer_counter' \in Nat
      /\ due' \in [Timers -> Nat]
  BY <1>1, <1>2, <1>3, <1>3a
<1>5. ASSUME NEW u \in active'
      PROVE  timeout'[u] = Clamped(due'[u]) /\ start_id'[u] < timer_counter'
  <2>1. CASE u = t
    <3>1. timeout'[t] = Deadline(d) /\ due'[t] = time + d /\ start_id'[t] = timer_counter
      BY <1>3, <1>3a
    <3> QED BY <3>1, <2>1, <1>1, <1>2, <1>3
  <2>2. CASE u # t
    <3>1. u \in active /\ timeout'[u] = timeout[u] /\ due'[u] = due[u] /\ start_id'[u] = start_id[u]
          /\ start_id[u] \in Nat
      BY <2>2, <1>3, <1>3a
    <3>2. timeout[u] = Clamped(due[u]) /\ start_id[u] < timer_counter
      BY <3>1 DEF Armed
    <3> QED BY <3>1, <3>2, <1>2, <1>3
  <2> QED BY <2>1, <2>2
<1>6. ASSUME NEW u \in active', NEW v \in active', u # v
      PROVE  start_id'[u] # start_id'[v]
  <2>1. \A w \in active : start_id[w] \in Nat /\ start_id[w] < timer_counter
    BY <1>3a DEF Armed
  <2>2. \A w \in Timers : start_id'[w] = IF w = t THEN timer_counter ELSE start_id[w]
    BY <1>3, <1>3a
  <2>3. u \in Timers /\ v \in Timers /\ (u # t => u \in active) /\ (v # t => v \in active)
    BY <1>3, <1>3a
  <2>4. u # t /\ v # t => start_id[u] # start_id[v]
    BY <2>3, <1>6 DEF Armed
  <2> QED BY <2>1, <2>2, <2>3, <2>4, <1>2, <1>6
<1>7. Armed'
  <2>1. \A u \in active' : timeout'[u] = Clamped(due'[u]) /\ start_id'[u] < timer_counter'
    BY <1>5
  <2>2. \A u \in active' : timeout'[u] = Clamped(due[u])' /\ start_id'[u] < timer_counter'
    BY <2>1 DEF Clamped
  <2> QED BY <2>2, <1>6 DEF Armed
<1> QED BY <1>4, <1>7 DEF FieldsOK

LEMMA TypeParts == TypeOK <=> FieldsOK /\ ClockOK /\ RunOK
  BY DEF TypeOK, FieldsOK, ClockOK, RunOK

LEMMA TypePartsNext == TypeOK' <=> FieldsOK' /\ ClockOK' /\ RunOK'
  BY DEF TypeOK, FieldsOK, ClockOK, RunOK

\* The API, from outside uv_run or from a callback: the loop is not inside
\* epoll_wait and loop->time stands still.
LEMMA ApiStep ==
    ASSUME IInv, Api, Armed', FieldsOK'
    PROVE  IInv'
<1> USE DEF Api, pollVars, runVars
<1>1. ClockOK' /\ RunOK'
  <2>1. ClockOK /\ RunOK /\ MaxCalls \in Nat
    BY TypeParts, TimerAssumption DEF IInv
  <2>2. ClockOK'
    BY <2>1 DEF ClockOK
  <2>3. calls' \in 0..MaxCalls
    <3>1. calls \in 0..MaxCalls
      BY <2>1 DEF RunOK
    <3> QED BY <2>1, <3>1
  <2> QED BY <2>1, <2>2, <2>3 DEF RunOK
<1>2. CallsDue'
  BY DEF CallsDue, Clamped, IInv
<1>3. WaitFits'
  BY DEF WaitFits
<1> QED BY <1>1, <1>2, <1>3, TypePartsNext DEF IInv

LEMMA UserStep ==
    ASSUME IInv, NEW t \in Timers,
           \/ \E d \in Timeouts, r \in Repeats : TimerStart(t, d, r)
           \/ \E r \in Repeats : TimerSetRepeat(t, r)
           \/ TimerStop(t)
           \/ TimerAgain(t)
    PROVE  IInv'
<1>0. Timeouts \subseteq 0..UINT64_MAX /\ Repeats \subseteq 0..UINT64_MAX
  BY TimerAssumption
<1>1. FieldsOK /\ TypeOK /\ Armed
  BY TypeParts DEF IInv
<1>2. ASSUME NEW d \in Timeouts, NEW r \in Repeats, TimerStart(t, d, r)
      PROVE  IInv'
  <2>1. d \in 0..UINT64_MAX /\ r \in 0..UINT64_MAX /\ Arm(t, d, r) /\ Api
    BY <1>0, <1>2 DEF TimerStart
  <2> QED BY <2>1, <1>1, ArmFacts, ApiStep
<1>3. ASSUME NEW r \in Repeats, TimerSetRepeat(t, r)
      PROVE  IInv'
  <2>1. r \in 0..UINT64_MAX /\ Api /\ repeat' = [repeat EXCEPT ![t] = r]
        /\ UNCHANGED <<active, has_cb, timeout, start_id, timer_counter, due>>
    BY <1>0, <1>3 DEF TimerSetRepeat
  <2>2. FieldsOK'
    BY <2>1, <1>1 DEF FieldsOK
  <2>3. Armed'
    BY <2>1, <1>1 DEF Armed, Clamped
  <2> QED BY <2>1, <2>2, <2>3, ApiStep
<1>4. ASSUME TimerStop(t)
      PROVE  IInv'
  <2>1. Api /\ active' = active \ {t}
        /\ UNCHANGED <<has_cb, timeout, repeat, start_id, timer_counter, due>>
    BY <1>4 DEF TimerStop
  <2>2. FieldsOK'
    BY <2>1, <1>1 DEF FieldsOK
  <2>3. Armed'
    BY <2>1, <1>1 DEF Armed, Clamped
  <2> QED BY <2>1, <2>2, <2>3, ApiStep
<1>5. ASSUME TimerAgain(t)
      PROVE  IInv'
  <2>1. repeat[t] \in 0..UINT64_MAX
    BY <1>1 DEF FieldsOK
  <2>2. Arm(t, repeat[t], repeat[t]) /\ Api
    BY <1>5 DEF TimerAgain
  <2> QED BY <2>1, <2>2, <1>1, ArmFacts, ApiStep
<1> QED BY <1>2, <1>3, <1>4, <1>5

\* uv__run_timers: the minimum is due, and what it was due for is what its
\* start meant, clamped.
LEMMA RunTimerStep ==
    ASSUME IInv, RunTimer
    PROVE  IInv'
<1> DEFINE t == heap_min
<1>0. /\ active # {} /\ timeout[t] <= time /\ pc \in {"timers", "timers again"}
      /\ cur' = <<pc, due[t]>> /\ pc' = "cb" /\ progress' = TRUE
      /\ UNCHANGED <<now, time, pollVars, mode, calls, interrupts>>
      /\ \/ repeat[t] # 0 /\ Arm(t, repeat[t], repeat[t])
         \/ /\ active' = active \ {t}
            /\ UNCHANGED <<has_cb, timeout, repeat, start_id, timer_counter, due>>
  BY DEF RunTimer, Expired
<1>1. t \in active
  BY <1>0, HeapMin DEF IInv
<1> HIDE DEF t
<1>2. TypeOK /\ Armed /\ FieldsOK /\ ClockOK /\ RunOK
  BY TypeParts DEF IInv
<1>3. t \in Timers /\ repeat[t] \in 0..UINT64_MAX /\ due[t] \in Nat /\ timeout[t] = Clamped(due[t])
  BY <1>1, <1>2 DEF FieldsOK, Armed
<1>4. Armed' /\ FieldsOK'
  <2>1. CASE Arm(t, repeat[t], repeat[t])
    BY <2>1, <1>2, <1>3, ArmFacts
  <2>2. CASE active' = active \ {t} /\ UNCHANGED <<has_cb, timeout, repeat, start_id, timer_counter, due>>
    BY <2>2, <1>2 DEF Armed, FieldsOK, Clamped
  <2> QED BY <2>1, <2>2, <1>0
<1>5. ClockOK'
  BY <1>0, <1>2 DEF ClockOK, pollVars
<1>6. RunOK'
  BY <1>0, <1>2, <1>3 DEF RunOK
<1>7. CallsDue'
  <2>1. cur'[2] = due[t] /\ time' = time
        /\ cur' \in {"timers", "timers again", "update", "end"} \X Nat
    BY <1>0, <1>3
  <2> QED BY <2>1, <1>0, <1>3 DEF CallsDue, Clamped
<1>8. WaitFits'
  BY <1>0 DEF WaitFits
<1> QED BY <1>4, <1>5, <1>6, <1>7, <1>8, TypePartsNext DEF IInv

\* uv__next_timeout never reaches past the next deadline and fits an int.
LEMMA NextTimeout ==
    ASSUME TypeOK, Armed
    PROVE  /\ next_timeout \in 0..INT_MAX
           /\ \A t \in active : next_timeout > 0 => time + next_timeout <= timeout[t]
<1>0. INT_MAX \in Nat /\ time \in Nat
  BY TimeBounds
<1>1. CASE active = {} \/ timeout[heap_min] <= time
  BY <1>0, <1>1 DEF next_timeout
<1>2. CASE ~(active = {} \/ timeout[heap_min] <= time)
  <2>1. heap_min \in active /\ \A u \in active : timeout[heap_min] <= timeout[u]
    BY <1>2, HeapMin
  <2>2. \A u \in active : timeout[u] \in Nat
    BY TypeParts, TimeBounds DEF FieldsOK
  <2> DEFINE m == timeout[heap_min]
             n == next_timeout
  <2>3. m \in Nat /\ m > time /\ \A u \in active : m <= timeout[u]
    BY <1>0, <1>2, <2>1, <2>2
  <2>4. n = Min({m - time, INT_MAX})
    BY <1>2 DEF next_timeout
  <2> HIDE DEF m, n
  <2>5. n = IF m - time <= INT_MAX THEN m - time ELSE INT_MAX
    BY <2>3, <2>4, <1>0, MinOfTwo
  <2>6. n \in 0..INT_MAX /\ time + n <= m
    BY <2>3, <2>5, <1>0
  <2>7. \A u \in active : time + n <= timeout[u]
    BY <2>2, <2>3, <2>6, <1>0
  <2> QED BY <2>6, <2>7 DEF n
<1> QED BY <1>1, <1>2

LEMMA PollBeginStep ==
    ASSUME IInv, PollBegin
    PROVE  IInv'
<1>0. /\ real_timeout' = (IF mode = "NOWAIT" THEN 0 ELSE next_timeout)
      /\ poll' = Min({real_timeout', MaxSafeTimeout})
      /\ base' = time /\ entered' = now /\ pc' = "epoll"
      /\ UNCHANGED <<now, time, timerVars, cur, mode, progress, calls, interrupts>>
  BY DEF PollBegin
<1>1. TypeOK /\ Armed /\ FieldsOK /\ ClockOK /\ RunOK
  BY TypeParts DEF IInv
<1>2. INT_MAX \in Nat /\ MaxSafeTimeout \in Nat /\ time \in Nat /\ now \in Nat /\ time <= now
  BY <1>1, TimeBounds
<1>3. /\ next_timeout \in 0..INT_MAX
      /\ \A t \in active : next_timeout > 0 => time + next_timeout <= timeout[t]
  BY <1>1, NextTimeout
<1>4. /\ real_timeout' \in 0..INT_MAX
      /\ \A t \in active : real_timeout' > 0 => time + real_timeout' <= timeout[t]
  <2>1. CASE mode = "NOWAIT"
    <3>1. real_timeout' = 0
      BY <2>1, <1>0
    <3> QED BY <3>1, <1>2
  <2>2. CASE mode # "NOWAIT"
    BY <2>2, <1>0, <1>3
  <2> QED BY <2>1, <2>2
<1>5. poll' \in 0..INT_MAX /\ poll' <= real_timeout'
  <2>1. poll' = IF real_timeout' <= MaxSafeTimeout THEN real_timeout' ELSE MaxSafeTimeout
    BY <1>0, <1>2, <1>4, MinOfTwo
  <2> QED BY <2>1, <1>2, <1>4
<1>6. Armed' /\ FieldsOK'
  BY <1>0, <1>1 DEF Armed, FieldsOK, Clamped, timerVars
<1>7. ClockOK'
  BY <1>0, <1>1, <1>2, <1>4, <1>5 DEF ClockOK
<1>8. RunOK'
  BY <1>0, <1>1 DEF RunOK
<1>9. CallsDue'
  BY <1>0 DEF CallsDue
<1>10. WaitFits'
  BY <1>0, <1>2, <1>4, <1>5 DEF WaitFits, timerVars
<1> QED BY <1>6, <1>7, <1>8, <1>9, <1>10, TypePartsNext DEF IInv

\* A step that leaves the timers alone.
LEMMA QuietStep ==
    ASSUME IInv, UNCHANGED timerVars, ClockOK', RunOK', CallsDue', WaitFits'
    PROVE  IInv'
<1>1. Armed /\ FieldsOK
  BY TypeParts DEF IInv
<1>2. Armed' /\ FieldsOK'
  BY <1>1 DEF Armed, FieldsOK, Clamped, timerVars
<1> QED BY <1>2, TypePartsNext DEF IInv

\* uv__update_time.
LEMMA TimeUpdated ==
    ASSUME IInv, time' = now, now' = now, UNCHANGED pollVars
    PROVE  ClockOK'
<1>1. ClockOK /\ now \in Nat
  BY TypeParts, TimeBounds DEF IInv
<1> QED BY <1>1 DEF ClockOK, pollVars

LEMMA CallbackReturnStep ==
    ASSUME IInv, CallbackReturn
    PROVE  IInv'
<1> USE DEF CallbackReturn
<1>1. ClockOK /\ RunOK /\ CallsDue
  BY TypeParts DEF IInv
<1>2. cur[1] \in {"timers", "timers again", "update", "end"}
  BY <1>1 DEF CallsDue
<1>3. ClockOK'
  BY <1>1 DEF ClockOK, pollVars
<1>4. RunOK'
  BY <1>1, <1>2 DEF RunOK
<1>5. CallsDue' /\ WaitFits'
  BY <1>2 DEF CallsDue, WaitFits
<1> QED BY <1>3, <1>4, <1>5, QuietStep

\* uv_run begins, updates the time, goes round or returns.
LEMMA RunStep ==
    ASSUME IInv, (\E m \in Modes : RunBegin(m)) \/ UpdateTime \/ TimersAgainDone \/ RunEnd
    PROVE  IInv'
<1>1. ClockOK /\ RunOK
  BY TypeParts DEF IInv
<1>2. /\ UNCHANGED <<now, timerVars, pollVars, cur, calls, interrupts>>
      /\ time' = now \/ time' = time
      /\ pc' \in {"out", "timers", "timers again", "end"}
      /\ mode' \in Modes \cup {"NOWAIT"} /\ progress' \in BOOLEAN
  BY <1>1 DEF RunBegin, UpdateTime, TimersAgainDone, RunEnd, RunOK
<1>3. ClockOK'
  <2>1. CASE time' = now
    BY <2>1, <1>2, TimeUpdated
  <2>2. CASE time' = time
    BY <2>2, <1>1, <1>2 DEF ClockOK, pollVars
  <2> QED BY <2>1, <2>2, <1>2
<1>4. RunOK'
  BY <1>1, <1>2 DEF RunOK
<1>5. CallsDue' /\ WaitFits'
  BY <1>2 DEF CallsDue, WaitFits
<1> QED BY <1>2, <1>3, <1>4, <1>5, QuietStep

\* epoll_wait ends with a callback.
LEMMA EpollEventStep ==
    ASSUME IInv, EpollEvent
    PROVE  IInv'
<1>1. ClockOK /\ RunOK /\ now \in Nat /\ INT_MAX \in Nat /\ UINT64_MAX \in Nat
  BY TypeParts, TimeBounds DEF IInv
<1>2. /\ interrupts' = interrupts + 1 /\ interrupts < MaxInterrupts
      /\ time' = now /\ pc' = "cb" /\ cur' = <<AfterPoll, 0>> /\ progress' = TRUE
      /\ poll' = 0 /\ real_timeout' = 0 /\ base' = 0 /\ entered' = 0
      /\ UNCHANGED <<now, timerVars, mode, calls>>
  BY DEF EpollEvent, PollLeft
<1>3. AfterPoll \in {"update", "end"}
  BY DEF AfterPoll
<1>4. ClockOK'
  BY <1>1, <1>2 DEF ClockOK
<1>5. interrupts' \in 0..MaxInterrupts
  <2>1. interrupts \in 0..MaxInterrupts /\ MaxInterrupts \in Nat
    BY <1>1, TimerAssumption DEF RunOK
  <2> QED BY <2>1, <1>2
<1>6. cur' \in {"timers", "timers again", "update", "end"} \X Nat /\ cur'[2] = 0
  BY <1>2, <1>3
<1>7. RunOK'
  BY <1>1, <1>2, <1>5, <1>6 DEF RunOK
<1>8. CallsDue'
  <2>1. time' \in Nat /\ 0 <= UINT64_MAX /\ time' >= 0
    BY <1>1, <1>2
  <2>2. time' >= Clamped(cur'[2])
    BY <2>1, <1>6 DEF Clamped
  <2>3. Clamped(cur'[2]) = (Clamped(cur[2]))'
    BY DEF Clamped
  <2> QED BY <2>2, <2>3, <1>6 DEF CallsDue
<1>9. WaitFits'
  BY <1>2 DEF WaitFits
<1> QED BY <1>2, <1>4, <1>7, <1>8, <1>9, QuietStep

\* epoll_wait ends without one, and uv__io_poll returns or waits for the
\* rest.  base may lag behind loop->time, so too much is subtracted, never
\* too little.
LEMMA EpollNothingStep ==
    ASSUME IInv, EpollNothing
    PROVE  IInv'
<1>1. ClockOK /\ RunOK /\ FieldsOK /\ WaitFits /\ now \in Nat /\ time \in Nat /\ time <= now
      /\ INT_MAX \in Nat /\ UINT64_MAX \in Nat /\ MaxSafeTimeout \in Nat
  BY TypeParts, TimeBounds DEF IInv
<1>2. /\ pc = "epoll" /\ time' = now
      /\ UNCHANGED <<now, timerVars, cur, mode, progress, calls>>
      /\ PollReturn \/ (poll > 0 /\ UpdateTimeout)
      /\ interrupts' = interrupts \/ (interrupts < MaxInterrupts /\ interrupts' = interrupts + 1)
  BY DEF EpollNothing
<1>3. interrupts' \in 0..MaxInterrupts
  <2>1. interrupts \in 0..MaxInterrupts /\ MaxInterrupts \in Nat
    BY <1>1, TimerAssumption DEF RunOK
  <2> QED BY <2>1, <1>2
<1>4. CASE PollReturn
  <2>1. pc' \in {"update", "end"} /\ poll' = 0 /\ real_timeout' = 0 /\ base' = 0 /\ entered' = 0
    BY <1>4 DEF PollReturn, PollLeft, AfterPoll
  <2>2. ClockOK'
    BY <2>1, <1>1, <1>2 DEF ClockOK
  <2>3. RunOK'
    BY <2>1, <1>1, <1>2, <1>3 DEF RunOK
  <2>4. CallsDue' /\ WaitFits'
    BY <2>1 DEF CallsDue, WaitFits
  <2> QED BY <2>2, <2>3, <2>4, <1>2, QuietStep
<1>5. CASE poll > 0 /\ UpdateTimeout /\ ~PollReturn
  <2> DEFINE left == real_timeout - (now - base)
  <2>1. /\ left > 0 /\ real_timeout' = left /\ poll' = Min({left, MaxSafeTimeout})
        /\ entered' = now /\ base' = base /\ pc' = pc
    BY <1>2, <1>5 DEF UpdateTimeout
  <2>2. /\ real_timeout \in 0..INT_MAX /\ base \in Nat /\ base <= time /\ poll \in Nat
        /\ poll <= real_timeout /\ base \in 0..now
        /\ \A t \in active : real_timeout > 0 => time + real_timeout <= timeout[t]
    BY <1>1, <1>2 DEF ClockOK, WaitFits
  <2>3. left \in Int /\ left <= real_timeout /\ now + left <= time + real_timeout
        /\ real_timeout > 0 /\ left \in 0..INT_MAX
    BY <2>1, <2>2, <1>1, <1>5
  <2>4. poll' = IF left <= MaxSafeTimeout THEN left ELSE MaxSafeTimeout
    <3> HIDE DEF left
    <3> QED BY <2>1, <2>3, <1>1, MinOfTwo
  <2> HIDE DEF left
  <2>5. poll' \in 0..INT_MAX /\ poll' <= real_timeout'
    BY <2>1, <2>3, <2>4, <1>1
  <2>6. ClockOK'
    BY <2>1, <2>2, <2>3, <2>5, <1>1, <1>2 DEF ClockOK
  <2>7. RunOK'
    BY <2>1, <1>1, <1>2, <1>3 DEF RunOK
  <2>8. CallsDue'
    <3>1. pc' = "epoll"
      BY <2>1, <1>2
    <3> QED BY <3>1 DEF CallsDue
  <2>9. \A t \in active : now + left <= timeout[t]
    <3>1. \A t \in active : timeout[t] \in Nat
      BY <1>1 DEF FieldsOK
    <3>2. real_timeout \in Nat
      BY <2>2, <1>1
    <3> QED BY <2>2, <2>3, <3>1, <3>2, <1>1
  <2>10. base' <= time' /\ active' = active /\ timeout' = timeout
    BY <2>1, <2>2, <1>1, <1>2 DEF timerVars
  <2>11. WaitFits'
    BY <2>1, <2>5, <2>9, <2>10, <1>2 DEF WaitFits
  <2> QED BY <2>6, <2>7, <2>8, <2>11, <1>2, QuietStep
<1> QED BY <1>2, <1>4, <1>5

----------------------------------------------------------------------------
(* The theorems about timers.                                              *)

\* The inductive invariant of the timers, the clock and the wait.
THEOREM Inductive == Spec => []IInv
<1>1. IInv /\ [Next]_vars => IInv'
  <2> SUFFICES ASSUME IInv, [Next]_vars PROVE IInv'
    OBVIOUS
  <2>1. CASE UNCHANGED vars
    <3>1. UNCHANGED <<now, time, timerVars, pollVars, runVars, calls, interrupts>>
      BY <2>1 DEF vars
    <3>2. ClockOK /\ RunOK /\ CallsDue /\ WaitFits
      BY TypeParts DEF IInv
    <3>3. ClockOK' /\ RunOK'
      BY <3>1, <3>2 DEF ClockOK, RunOK, pollVars, runVars
    <3>4. CallsDue' /\ WaitFits'
      BY <3>1, <3>2 DEF CallsDue, WaitFits, Clamped, pollVars, runVars, timerVars
    <3> QED BY <3>1, <3>3, <3>4, QuietStep
  <2> QED BY <2>1, TickStep, UserStep, RunTimerStep, CallbackReturnStep, PollBeginStep,
             RunStep, EpollEventStep, EpollNothingStep DEF Next, LoopStep, User
<1> QED BY <1>1, InitIInv, PTL DEF Spec

\* Every variable of timers, clock and wait keeps its type.
THEOREM TypeCorrect == Spec => []TypeOK
  BY Inductive, PTL DEF IInv

\* uv__run_timers calls no timer back before its time, whatever the timeout:
\* also where loop->time + timeout wraps around.
THEOREM NoEarlyCallback == Spec => []NeverEarly
<1>1. IInv => NeverEarly
  <2> SUFFICES ASSUME IInv, pc = "cb" PROVE time >= Min({cur[2], UINT64_MAX})
    BY DEF NeverEarly
  <2>1. cur[2] \in Nat /\ time >= Clamped(cur[2])
    BY DEF IInv, CallsDue
  <2>2. UINT64_MAX \in Nat /\ time \in Nat
    BY TimeBounds DEF IInv
  <2>3. Min({cur[2], UINT64_MAX}) = Clamped(cur[2])
    BY <2>1, <2>2, MinOfTwo DEF Clamped
  <2> QED BY <2>1, <2>3
<1> QED BY <1>1, Inductive, PTL

\* epoll_wait never sleeps past a deadline, through any number of capped and
\* interrupted waits.
THEOREM NoOversleep == Spec => []NeverOversleeps
<1>1. IInv => NeverOversleeps
  <2> SUFFICES ASSUME IInv, pc = "epoll", NEW t \in active
               PROVE  time + poll <= Max({timeout[t], time})
    BY DEF NeverOversleeps
  <2>1. FieldsOK /\ ClockOK /\ time \in Nat /\ UINT64_MAX \in Nat /\ INT_MAX \in Nat
    BY TypeParts, TimeBounds DEF IInv
  <2>2. timeout[t] \in Nat /\ poll \in Nat /\ real_timeout \in Nat
    BY <2>1 DEF FieldsOK, ClockOK
  <2>3. poll <= real_timeout /\ (real_timeout > 0 => time + real_timeout <= timeout[t])
    BY DEF IInv, WaitFits
  <2>4. Max({timeout[t], time}) = IF timeout[t] <= time THEN time ELSE timeout[t]
    BY <2>1, <2>2, MaxOfTwo
  <2> QED BY <2>1, <2>2, <2>3, <2>4
<1> QED BY <1>1, Inductive, PTL

\* Timers with one deadline fire in the order in which they were started.
THEOREM FiresInStartOrder == Spec => []StartOrder
<1>1. IInv => StartOrder
  <2> SUFFICES ASSUME IInv, NEW t \in active, NEW u \in active, t # u
               PROVE  /\ start_id[t] # start_id[u]
                      /\ start_id[t] < start_id[u] /\ due[t] <= due[u] => Before(t, u)
    BY DEF StartOrder
  <2>1. FieldsOK /\ UINT64_MAX \in Nat
    BY TypeParts, TimeBounds DEF IInv
  <2>2. due[t] \in Nat /\ due[u] \in Nat
    BY <2>1 DEF FieldsOK
  <2>3. timeout[t] = Clamped(due[t]) /\ timeout[u] = Clamped(due[u]) /\ start_id[t] # start_id[u]
    BY DEF IInv, Armed
  <2>4. due[t] <= due[u] => timeout[t] < timeout[u] \/ timeout[t] = timeout[u]
    BY <2>1, <2>2, <2>3 DEF Clamped
  <2> QED BY <2>3, <2>4 DEF Before
<1> QED BY <1>1, Inductive, PTL

----------------------------------------------------------------------------
(* A file system request.                                                  *)

FsKinds == CopiesPath \cup Transfers
           \cup {"file", "close", "fstat", "mkdtemp", "sendfile"}
FsPlaces == {"idle", "queued", "work", "unmarked", "iter", "copy", "done", "finished"}
Unfinished == {"queued", "work", "unmarked", "iter", "copy"}

FsRequests ==
    [kind : FsKinds, cb : BOOLEAN, at : FsPlaces, reg : BOOLEAN, result : Int,
     ptr : {"NULL", "statbuf", "heap", "dents"}, path : {"NULL", "user", "heap"},
     bufs : {"NULL", "sml", "heap"}, nbufs : Nat, off : Int, canceled : BOOLEAN]

FsMoves ==
    [asked : Nat, from : Int, moved : Seq(Int), next : Nat, left : Nat, total : Nat,
     nread : Nat, nwritten : Nat, pread : BOOLEAN, pos : Nat, why : {"none", "read", "write"}]

\* What is known of a request f where it stands.
RequestStands(f) ==
    /\ f.reg <=> f.cb /\ f.at \notin {"idle", "finished"}
    /\ f.at \in {"queued"} => f.cb
    /\ f.at \in Unfinished \/ (f.at = "done" /\ f.canceled) => f.result = 0 /\ f.ptr = "NULL"
    /\ f.at \in Unfinished => ~f.canceled
    /\ f.at \in {"idle", "finished"} => (f.canceled <=> f.result = Canceled)
    /\ f.at = "done" => f.result >= IoFailed
    /\ f.at = "finished" /\ f.canceled => f.ptr = "NULL"
    /\ f.at = "unmarked" => f.kind = "open"
    /\ f.at = "iter" => f.kind \in Transfers
    /\ f.at = "copy" => f.kind = "sendfile"

\* Where its path, its buffers and its result in memory are.
BlocksStand(f) ==
    /\ f.path = IF f.at = "idle" THEN "NULL"
                ELSE IF f.kind = "mkdtemp" \/ (f.cb /\ f.kind \in CopiesPath) THEN "heap"
                ELSE IF f.kind \in CopiesPath THEN "user" ELSE "NULL"
    /\ f.bufs = "heap" => f.kind \in Transfers
    /\ f.at \in {"idle", "done", "finished"} /\ f.bufs = "heap" => f.canceled
    /\ f.kind \in Transfers /\ (f.canceled \/ f.at = "queued") => (f.bufs = "heap" <=> f.nbufs > SmlBufs)
    /\ f.ptr = "dents" => f.kind = "scandir" /\ f.result > 0 /\ f.nbufs <= f.result
    /\ f.kind = "scandir" /\ f.at \in Unfinished \cup {"done"} => f.nbufs = 0
    /\ f.kind = "scandir" => f.ptr \in {"NULL", "dents"}
    /\ f.at = "idle" => f.ptr = "NULL"

\* The entries that are still to be fetched, and the one fetched last.
EntriesLeft(f) == Entries(IF f.nbufs = 0 THEN 1 ELSE f.nbufs, f.result)

FsHeld(f) ==
    (IF f.path = "heap" THEN {Block("path")} ELSE {})
    \cup (IF f.bufs = "heap" THEN {Block("bufs")} ELSE {})
    \cup (IF f.ptr = "heap" THEN {Block("ptr")} ELSE {})
    \cup (IF f.ptr = "dents" THEN {Block("dents")} \cup EntriesLeft(f) ELSE {})
    \cup (IF f.at = "unmarked" \/ (f.kind = "open" /\ f.result = NewFd) THEN {Block("fd")} ELSE {})

\* m is allocated for f: what it holds and, if it has been cleaned up, an
\* entry.
MemStands(f, m) ==
    \/ m = FsHeld(f)
    \/ /\ f.at = "idle" /\ f.kind = "scandir" /\ f.result > 0 /\ f.nbufs = f.result
       /\ m = FsHeld(f) \cup {Entry(f.result)}

Rising(s) == \A i \in 1..(Len(s) - 1) : s[i] < s[i + 1]

\* Nothing has been moved.
Unmoved(f, m) ==
    /\ m.moved = <<>> /\ m.next = 0 /\ m.total = 0 /\ m.nread = 0 /\ m.nwritten = 0
    /\ m.pread /\ m.pos = 0 /\ m.why = "none" /\ f.off = m.from

FsAsked(f, m) ==
    /\ f.kind \in Transfers => f.nbufs <= m.asked /\ m.from \in {-1, 0}
    /\ f.kind = "sendfile" => m.from >= 0

Bytes(bufs) == bufs * BufBytes

\* Between two calls of uv__fs_buf_iter,
IterStands(f, m) ==
    /\ Len(m.moved) = m.total /\ Rising(m.moved)
    /\ \A i \in 1..Len(m.moved) : m.moved[i] <= Bytes(m.next)
    /\ f.off = IF m.from >= 0 THEN m.from + m.total ELSE m.from
    /\ m.next = 0 <=> m.total = 0
    /\ m.why = "none" /\ m.left <= m.asked
    /\ m.pread /\ m.nread = 0 /\ m.nwritten = 0 /\ m.pos = 0
    /\ m.asked <= IovMax => m.moved = Span(1, m.total) /\ (m.left = 0 \/ m.next = 0)

\* and of uv__fs_sendfile_emul: it has read from origin on.
CopyStands(f, m) ==
    LET origin == IF m.pread THEN m.from ELSE 0 IN
    /\ f.off = m.from /\ m.next = m.from + m.total /\ m.why = "none"
    /\ IF m.nread = 0 THEN m.nwritten = 0 ELSE m.nwritten < m.nread
    /\ m.pos = IF m.pread THEN 0 ELSE m.total + m.nread
    /\ m.moved = Span(origin + 1, origin + m.total + m.nwritten)

\* What FsExact says of a result, before the callback as well.
ResultExact(f, m) ==
    /\ f.result >= 0 =>
         /\ Len(m.moved) = f.result
         /\ f.off = IF m.from >= 0 THEN m.from + f.result ELSE m.from
         /\ m.why # "write"
         /\ Rising(m.moved)
         /\ f.kind = "sendfile" /\ f.result > 0 =>
                m.moved = Span(m.moved[1], m.moved[1] + f.result - 1)
         /\ f.kind = "sendfile" /\ m.pread /\ f.result > 0 => m.moved[1] = m.from + 1
         /\ f.kind \in Transfers /\ m.asked <= IovMax => m.moved = Span(1, f.result)
    /\ f.result < 0 => f.off = m.from /\ (m.why # "write" => m.moved = <<>>)

MovesStand(f, m) ==
    f.kind \in Transfers \cup {"sendfile"} =>
        /\ f.at # "idle" => FsAsked(f, m)
        /\ f.at \in {"queued", "work"} => Unmoved(f, m)
        /\ f.at = "iter" => IterStands(f, m)
        /\ f.at = "copy" => CopyStands(f, m)
        /\ f.at \in {"done", "finished"} /\ ~f.canceled => ResultExact(f, m)

\* The inductive invariant of file system requests.
FsInv ==
    /\ fs \in FsRequests /\ io \in FsMoves /\ bad = FALSE
    /\ RequestStands(fs) /\ BlocksStand(fs) /\ MemStands(fs, mem) /\ MovesStand(fs, io)

----------------------------------------------------------------------------
(* What the operators return.                                              *)

LEMMA SpanFacts ==
    ASSUME NEW a \in Int, NEW b \in Int, NEW n, n = IF b < a THEN 0 ELSE b - a + 1
    PROVE  /\ Span(a, b) \in Seq(Int) /\ Len(Span(a, b)) = n /\ n \in Nat
           /\ \A i \in 1..n : Span(a, b)[i] = a + i - 1
<1>1. n \in Nat
  OBVIOUS
<1>2. Span(a, b) = [i \in 1..n |-> a + i - 1]
  BY DEF Span
<1>3. [i \in 1..n |-> a + i - 1] \in [1..n -> Int]
  BY <1>1
<1>4. Span(a, b) \in Seq(Int) /\ Len(Span(a, b)) = n
  BY <1>1, <1>2, <1>3
<1> QED BY <1>1, <1>2, <1>4

\* Transfers that follow each other are one.
LEMMA SpanJoins ==
    ASSUME NEW a \in Int, NEW b \in Int, NEW c \in Int, a <= b + 1, b <= c
    PROVE  Span(a, b) \o Span(b + 1, c) = Span(a, c)
<1>1. PICK s, t, u, k, l, m :
        /\ s = Span(a, b) /\ t = Span(b + 1, c) /\ u = Span(a, c)
        /\ k = b - a + 1 /\ l = c - b /\ m = c - a + 1
  OBVIOUS
<1>2. k \in Nat /\ l \in Nat /\ m \in Nat /\ m = k + l
  BY <1>1
<1>3. s \in Seq(Int) /\ Len(s) = k /\ \A i \in 1..k : s[i] = a + i - 1
  <2>1. k = IF b < a THEN 0 ELSE b - a + 1
    BY <1>1
  <2> QED BY <1>1, <2>1, SpanFacts
<1>4. t \in Seq(Int) /\ Len(t) = l /\ \A i \in 1..l : t[i] = b + 1 + i - 1
  <2>1. l = (IF c < b + 1 THEN 0 ELSE c - (b + 1) + 1) /\ b + 1 \in Int
    BY <1>1
  <2> QED BY <1>1, <2>1, SpanFacts
<1>5. u \in Seq(Int) /\ Len(u) = m /\ \A i \in 1..m : u[i] = a + i - 1
  <2>1. m = IF c < a THEN 0 ELSE c - a + 1
    BY <1>1
  <2> QED BY <1>1, <2>1, SpanFacts
<1>6. PICK v : v = s \o t
  OBVIOUS
<1>c. /\ v \in Seq(Int) /\ Len(v) = k + l
      /\ \A i \in 1..(k + l) : v[i] = IF i <= k THEN s[i] ELSE t[i - k]
  BY <1>3, <1>4, <1>6, ConcatProperties, ZenonT(60)
<1>7. ASSUME NEW i \in 1..m PROVE v[i] = u[i]
  <2>0. i \in 1..(k + l) /\ i \in Int /\ k \in Int /\ l \in Int /\ b = a + k - 1
    BY <1>1, <1>2
  <2>3. u[i] = a + i - 1
    BY <1>5
  <2>1. CASE i <= k
    <3>1. i \in 1..k
      BY <2>0, <2>1
    <3>2. v[i] = s[i] /\ s[i] = a + i - 1
      BY <1>3, <1>c, <2>0, <2>1, <3>1
    <3> QED BY <2>3, <3>2
  <2>2. CASE i > k
    <3>1. i - k \in 1..l
      BY <2>0, <2>2
    <3>2. v[i] = t[i - k]
      BY <1>c, <2>0, <2>2
    <3>3. t[i - k] = b + 1 + (i - k) - 1
      BY <1>4, <3>1
    <3>4. b + 1 + (i - k) - 1 = a + i - 1
      BY <2>0
    <3> QED BY <2>3, <3>2, <3>3, <3>4
  <2> QED BY <2>0, <2>1, <2>2
<1>8. v = u
  BY <1>2, <1>5, <1>c, <1>7, SeqEqual
<1> QED BY <1>1, <1>6, <1>8

\* What was allocated for different purposes is different.
LEMMA BlockFacts ==
    /\ \A a, b : Block(a) = Block(b) <=> a = b
    /\ \A i, j : Entry(i) = Entry(j) <=> i = j
    /\ \A a, i : a # "entry" => Block(a) # Entry(i)
<1>1. \A a, b : Block(a) = Block(b) <=> a = b
  BY DEF Block
<1>2. \A i, j : Entry(i) = Entry(j) <=> i = j
  BY DEF Entry
<1>3. \A a, i : a # "entry" => Block(a) # Entry(i)
  BY DEF Block, Entry
<1> QED BY <1>1, <1>2, <1>3

LEMMA HeldFacts ==
    ASSUME NEW f, NEW x
    PROVE  x \in FsHeld(f) <=>
             \/ f.path = "heap" /\ x = Block("path")
             \/ f.bufs = "heap" /\ x = Block("bufs")
             \/ f.ptr = "heap" /\ x = Block("ptr")
             \/ f.ptr = "dents" /\ (x = Block("dents") \/ x \in EntriesLeft(f))
             \/ (f.at = "unmarked" \/ (f.kind = "open" /\ f.result = NewFd)) /\ x = Block("fd")
BY DEF FsHeld

LEMMA HeldSame ==
    ASSUME NEW f, NEW g, g.path = f.path, g.bufs = f.bufs, g.ptr = f.ptr,
           f.ptr = "dents" => g.nbufs = f.nbufs /\ g.result = f.result,
           (g.at = "unmarked" \/ (g.kind = "open" /\ g.result = NewFd))
             <=> (f.at = "unmarked" \/ (f.kind = "open" /\ f.result = NewFd))
    PROVE  FsHeld(g) = FsHeld(f)
<1>1. f.ptr = "dents" => EntriesLeft(g) = EntriesLeft(f)
  BY DEF EntriesLeft
<1> QED BY <1>1 DEF FsHeld

\* g is f when its work is done.
WorkDone(f, g) ==
    /\ g \in FsRequests /\ g.kind = f.kind /\ g.cb = f.cb /\ g.reg = f.reg /\ g.path = f.path
    /\ g.at = (IF f.cb THEN "done" ELSE "finished") /\ g.canceled = f.canceled

LEMMA WorkFinishes ==
    ASSUME NEW f \in FsRequests, RequestStands(f), BlocksStand(f),
           f.at \in Unfinished \ {"queued"}, NEW g, WorkDone(f, g), g.bufs # "heap",
           g.result >= IoFailed, g.ptr = "dents" => f.kind = "scandir" /\ g.result > 0,
           f.kind = "scandir" => g.nbufs = f.nbufs /\ g.ptr \in {"NULL", "dents"}
    PROVE  /\ RequestStands(g) /\ BlocksStand(g) /\ g.at \in {"done", "finished"}
           /\ g.canceled = FALSE
<1>1. /\ g \in FsRequests /\ g.kind = f.kind /\ g.cb = f.cb /\ g.reg = f.reg /\ g.path = f.path
      /\ g.at = (IF f.cb THEN "done" ELSE "finished") /\ g.canceled = f.canceled
      /\ g.result \in Int /\ g.nbufs \in Nat
  BY DEF WorkDone, FsRequests
<1>2. f.canceled = FALSE /\ (f.reg <=> f.cb) /\ f.cb \in BOOLEAN
  BY DEF RequestStands, FsRequests, Unfinished
<1>3. g.result # Canceled
  BY <1>1 DEF IoFailed, Canceled
<1>4. RequestStands(g)
  BY <1>1, <1>2, <1>3 DEF RequestStands, Unfinished
<1>5. f.kind = "scandir" => g.nbufs = 0
  BY DEF BlocksStand
<1>6. g.path = IF g.kind = "mkdtemp" \/ (g.cb /\ g.kind \in CopiesPath) THEN "heap"
               ELSE IF g.kind \in CopiesPath THEN "user" ELSE "NULL"
  BY <1>1 DEF BlocksStand, Unfinished
<1>7. BlocksStand(g)
  BY <1>1, <1>2, <1>5, <1>6 DEF BlocksStand, Unfinished
<1> QED BY <1>1, <1>2, <1>4, <1>7

----------------------------------------------------------------------------
(* The calls, the requests that are one system call, and the open.         *)

LEMMA FsPostStep ==
    ASSUME FsInv, NEW kind \in FsKinds, NEW cb \in BOOLEAN, NEW n \in Nat, NEW off \in Int,
           kind \in Transfers => off \in {-1, 0}, kind = "sendfile" => off >= 0,
           kind = "scandir" => n = 0, Post(kind, cb, n, off)
    PROVE  FsInv'
<1> DEFINE need == Copied(kind, cb, n)
           q == NewReq(kind, cb, n, off)
           d == NewIo(n, off)
<1>1. /\ q \in FsRequests /\ q.kind = kind /\ q.cb = cb /\ q.at = "idle" /\ q.reg = FALSE
      /\ q.result = 0 /\ q.ptr = "NULL" /\ q.path = "NULL" /\ q.bufs = "NULL" /\ q.nbufs = n
      /\ q.off = off /\ q.canceled = FALSE
  BY DEF NewReq, FsRequests, FsPlaces
<1>2. /\ d \in FsMoves /\ d.asked = n /\ d.from = off /\ d.moved = <<>> /\ d.next = 0
      /\ d.total = 0 /\ d.nread = 0 /\ d.nwritten = 0 /\ d.pread = TRUE /\ d.pos = 0
      /\ d.why = "none"
  BY DEF NewIo, FsMoves
<1>3. io' = d /\ bad' = FALSE
  BY DEF Post, FsInv
<1>4. /\ kind = "mkdtemp" \/ (cb /\ kind \in CopiesPath) <=> Block("path") \in need
      /\ kind \in Transfers /\ n > SmlBufs <=> Block("bufs") \in need
      /\ need \subseteq {Block("path"), Block("bufs")}
  BY BlockFacts DEF Copied
<1>5. CASE fs' = q /\ mem' = {}
  <2>1. PICK g, m : g = q /\ m = d
    OBVIOUS
  <2>2. RequestStands(g)
    BY <1>1, <2>1 DEF RequestStands, Unfinished, Canceled
  <2>3. BlocksStand(g)
    BY <1>1, <2>1 DEF BlocksStand, Unfinished
  <2>4. FsHeld(g) = {}
    BY <1>1, <2>1 DEF FsHeld, NewFd
  <2>5. MemStands(g, {})
    BY <2>4 DEF MemStands
  <2>6. MovesStand(g, m)
    BY <1>1, <2>1 DEF MovesStand
  <2>7. fs' = g /\ io' = m /\ mem' = {} /\ bad' = FALSE /\ g \in FsRequests /\ m \in FsMoves
    BY <1>1, <1>2, <1>3, <1>5, <2>1
  <2> QED BY <2>2, <2>3, <2>5, <2>6, <2>7 DEF FsInv
<1>6. CASE /\ mem' = need
           /\ fs' = [q EXCEPT
                       !.reg = cb, !.at = IF cb THEN "queued" ELSE "work",
                       !.path = Where("path", need, IF kind \in CopiesPath THEN "user" ELSE "NULL"),
                       !.bufs = Where("bufs", need, IF kind \in Transfers THEN "sml" ELSE "NULL")]
  <2>1. PICK g, m : g = fs' /\ m = d
    OBVIOUS
  <2> DEFINE path == IF kind = "mkdtemp" \/ (cb /\ kind \in CopiesPath) THEN "heap"
                     ELSE IF kind \in CopiesPath THEN "user" ELSE "NULL"
             bufs == IF kind \in Transfers /\ n > SmlBufs THEN "heap"
                     ELSE IF kind \in Transfers THEN "sml" ELSE "NULL"
  <2>2. /\ path = Where("path", need, IF kind \in CopiesPath THEN "user" ELSE "NULL")
        /\ bufs = Where("bufs", need, IF kind \in Transfers THEN "sml" ELSE "NULL")
    BY <1>4 DEF Where
  <2>3. g = [q EXCEPT !.reg = cb, !.at = IF cb THEN "queued" ELSE "work",
                      !.path = path, !.bufs = bufs]
    BY <1>6, <2>1, <2>2
  <2>4. path \in {"NULL", "user", "heap"} /\ bufs \in {"NULL", "sml", "heap"}
    OBVIOUS
  <2> HIDE DEF path, bufs, need, q, d
  <2>5. /\ g \in FsRequests /\ g.kind = kind /\ g.cb = cb /\ g.reg = cb
        /\ g.at = (IF cb THEN "queued" ELSE "work") /\ g.result = 0 /\ g.ptr = "NULL"
        /\ g.path = path /\ g.bufs = bufs /\ g.nbufs = n /\ g.off = off /\ g.canceled = FALSE
    BY <1>1, <2>3, <2>4 DEF FsRequests, FsPlaces
  <2>6. RequestStands(g)
    BY <2>5 DEF RequestStands, Unfinished, Canceled
  <2>7. BlocksStand(g)
    BY <2>5 DEF BlocksStand, Unfinished, path, bufs, Transfers, CopiesPath
  <2>8. g.path = "heap" <=> Block("path") \in need
    BY <1>4, <2>5 DEF path
  <2>9. g.bufs = "heap" <=> Block("bufs") \in need
    BY <1>4, <2>5 DEF bufs
  <2>10. FsHeld(g) = need
    BY <1>4, <2>5, <2>8, <2>9 DEF FsHeld, NewFd
  <2>11. MemStands(g, need)
    BY <2>10 DEF MemStands
  <2>12. Unmoved(g, m) /\ FsAsked(g, m)
    BY <1>2, <2>1, <2>5 DEF Unmoved, FsAsked
  <2>13. MovesStand(g, m)
    BY <2>5, <2>12 DEF MovesStand
  <2>14. fs' = g /\ io' = m /\ mem' = need /\ bad' = FALSE /\ g \in FsRequests /\ m \in FsMoves
    BY <1>2, <1>3, <1>6, <2>1, <2>5
  <2> QED BY <2>6, <2>7, <2>11, <2>13, <2>14 DEF FsInv
<1> QED BY <1>5, <1>6 DEF Post

LEMMA FsCancelStep ==
    ASSUME FsInv, uv_cancel
    PROVE  FsInv'
<1>1. PICK f, g, m : f = fs /\ g = fs' /\ m = io
  OBVIOUS
<1>2. f \in FsRequests /\ RequestStands(f) /\ BlocksStand(f) /\ MovesStand(f, m) /\ f.at = "queued"
  BY <1>1 DEF FsInv, uv_cancel
<1>3. g = [f EXCEPT !.at = "done", !.canceled = TRUE]
  BY <1>1 DEF uv_cancel
<1>4. /\ g \in FsRequests /\ g.kind = f.kind /\ g.cb = f.cb /\ g.at = "done" /\ g.reg = f.reg
      /\ g.result = f.result /\ g.ptr = f.ptr /\ g.path = f.path /\ g.bufs = f.bufs
      /\ g.nbufs = f.nbufs /\ g.off = f.off /\ g.canceled = TRUE
  BY <1>2, <1>3 DEF FsRequests, FsPlaces
<1>5. f.result = 0 /\ f.ptr = "NULL" /\ f.cb /\ f.reg
  BY <1>2 DEF RequestStands, Unfinished
<1>6. RequestStands(g)
  BY <1>4, <1>5 DEF RequestStands, Unfinished, IoFailed
<1>7. BlocksStand(g)
  BY <1>2, <1>4, <1>5 DEF BlocksStand, Unfinished
<1>8. FsHeld(g) = FsHeld(f)
  BY <1>2, <1>4, <1>5, HeldSame
<1>9. MemStands(g, mem)
  BY <1>1, <1>2, <1>8 DEF MemStands, FsInv
<1>10. MovesStand(g, m)
  BY <1>2, <1>4 DEF MovesStand, FsAsked
<1>11. fs' = g /\ io' = m /\ mem' = mem /\ bad' = FALSE /\ m \in FsMoves
  BY <1>1 DEF uv_cancel, FsInv
<1> QED BY <1>4, <1>6, <1>7, <1>9, <1>10, <1>11 DEF FsInv

LEMMA FsRunStep ==
    ASSUME FsInv, Run
    PROVE  FsInv'
<1>1. PICK f, g, m : f = fs /\ g = fs' /\ m = io
  OBVIOUS
<1>2. f \in FsRequests /\ RequestStands(f) /\ BlocksStand(f) /\ MovesStand(f, m) /\ f.at = "queued"
  BY <1>1 DEF FsInv, Run
<1>3. g = [f EXCEPT !.at = "work"]
  BY <1>1 DEF Run
<1>4. /\ g \in FsRequests /\ g.kind = f.kind /\ g.cb = f.cb /\ g.at = "work" /\ g.reg = f.reg
      /\ g.result = f.result /\ g.ptr = f.ptr /\ g.path = f.path /\ g.bufs = f.bufs
      /\ g.nbufs = f.nbufs /\ g.off = f.off /\ g.canceled = f.canceled
  BY <1>2, <1>3 DEF FsRequests, FsPlaces
<1>5. f.result = 0 /\ f.ptr = "NULL" /\ f.cb /\ f.reg /\ ~f.canceled
  BY <1>2 DEF RequestStands, Unfinished
<1>6. RequestStands(g)
  BY <1>4, <1>5 DEF RequestStands, Unfinished, IoFailed
<1>7. BlocksStand(g)
  BY <1>2, <1>4, <1>5 DEF BlocksStand, Unfinished
<1>8. FsHeld(g) = FsHeld(f)
  BY <1>2, <1>4, <1>5, HeldSame
<1>9. MemStands(g, mem)
  BY <1>1, <1>2, <1>8 DEF MemStands, FsInv
<1>10. MovesStand(g, m)
  BY <1>2, <1>4 DEF MovesStand, FsAsked, Unmoved
<1>11. fs' = g /\ io' = m /\ mem' = mem /\ bad' = FALSE /\ m \in FsMoves
  BY <1>1 DEF Run, FsInv
<1> QED BY <1>4, <1>6, <1>7, <1>9, <1>10, <1>11 DEF FsInv

\* What a request that was at work holds once it has its result.
LEMMA HeldMore ==
    ASSUME NEW f, NEW g, g.path = f.path, g.bufs = f.bufs, g.kind = f.kind,
           f.ptr = "NULL", f.result = 0, f.at # "unmarked", g.at # "unmarked"
    PROVE  FsHeld(g) = FsHeld(f)
             \cup (IF g.ptr = "heap" THEN {Block("ptr")} ELSE {})
             \cup (IF g.ptr = "dents" THEN {Block("dents")} \cup EntriesLeft(g) ELSE {})
             \cup (IF g.kind = "open" /\ g.result = NewFd THEN {Block("fd")} ELSE {})
<1>1. f.result # NewFd
  BY DEF NewFd
<1> QED BY <1>1 DEF FsHeld

\* A call other than a transfer gets its result.
LEMMA FsFinishes ==
    ASSUME FsInv, fs.kind \notin Transfers \cup {"sendfile"}, fs.at \in {"work", "unmarked"},
           NEW p \in {"NULL", "statbuf", "heap", "dents"}, NEW r \in Int, r >= IoFailed,
           p = "dents" => fs.kind = "scandir" /\ r > 0,
           fs.kind = "scandir" => p \in {"NULL", "dents"},
           fs' = FinishWork([fs EXCEPT !.ptr = p], r), mem' = FsHeld(fs'),
           UNCHANGED <<bad, io>>
    PROVE  FsInv'
<1>1. PICK f, g : f = fs /\ g = fs'
  OBVIOUS
<1>2. /\ f \in FsRequests /\ RequestStands(f) /\ BlocksStand(f) /\ f.at \in Unfinished \ {"queued"}
      /\ f.bufs # "heap" /\ f.kind \notin Transfers \cup {"sendfile"}
  BY <1>1 DEF FsInv, BlocksStand, Unfinished
<1>3. g = FinishWork([f EXCEPT !.ptr = p], r)
  BY <1>1
<1>4. WorkDone(f, g) /\ g.bufs = f.bufs /\ g.nbufs = f.nbufs /\ g.result = r /\ g.ptr = p
  BY <1>2, <1>3, ZenonT(60) DEF WorkDone, FinishWork, FsRequests, FsPlaces
<1>5. g \in FsRequests /\ RequestStands(g) /\ BlocksStand(g) /\ g.kind = f.kind
  <2>1. /\ g.bufs # "heap" /\ g.result >= IoFailed
        /\ g.ptr = "dents" => f.kind = "scandir" /\ g.result > 0
        /\ f.kind = "scandir" => g.ptr \in {"NULL", "dents"}
    BY <1>1, <1>2, <1>4
  <2>2. RequestStands(g) /\ BlocksStand(g)
    BY <1>2, <1>4, <2>1, WorkFinishes
  <2> QED BY <1>4, <2>2 DEF WorkDone
<1>6. fs' = g /\ io' = io /\ mem' = FsHeld(g) /\ bad' = FALSE /\ io \in FsMoves
  BY <1>1 DEF FsInv
<1>7. MemStands(g, FsHeld(g))
  BY DEF MemStands
<1>8. MovesStand(g, io)
  BY <1>2, <1>5 DEF MovesStand
<1> QED BY <1>5, <1>6, <1>7, <1>8 DEF FsInv

LEMMA FsFailStep ==
    ASSUME FsInv, NEW kinds, kinds \cap (Transfers \cup {"sendfile"}) = {}, FailsOrRepeats(kinds)
    PROVE  FsInv'
<1>1. CASE fs' = FinishWork(fs, IoFailed)
  <2>1. PICK f, g : f = fs /\ g = fs'
    OBVIOUS
  <2>2. /\ f \in FsRequests /\ f.at = "work" /\ f.result = 0 /\ f.ptr = "NULL" /\ mem = FsHeld(f)
        /\ f.kind \notin Transfers \cup {"sendfile"}
    BY <2>1 DEF FsInv, FailsOrRepeats, RequestStands, Unfinished, MemStands
  <2>3. [f EXCEPT !.ptr = "NULL"] = f
    BY <2>2 DEF FsRequests
  <2>4. g = FinishWork(f, IoFailed)
    BY <1>1, <2>1
  <2>5. /\ g.path = f.path /\ g.bufs = f.bufs /\ g.kind = f.kind /\ g.at # "unmarked"
        /\ g.ptr = "NULL" /\ g.result = IoFailed
    BY <2>2, <2>4 DEF FinishWork, FsRequests
  <2>6. FsHeld(g) = FsHeld(f)
    <3>1. g.ptr # "heap" /\ g.ptr # "dents" /\ g.result # NewFd /\ f.result # NewFd
      BY <2>2, <2>5 DEF IoFailed, NewFd
    <3>2. f.ptr # "heap" /\ f.ptr # "dents" /\ f.at # "unmarked"
      BY <2>2
    <3>3. g.path = f.path /\ g.bufs = f.bufs /\ g.at # "unmarked"
      BY <2>5
    <3> QED BY <3>1, <3>2, <3>3 DEF FsHeld
  <2>7. mem' = FsHeld(fs') /\ UNCHANGED <<bad, io>>
    BY <2>1, <2>2, <2>6 DEF FailsOrRepeats
  <2>8. fs' = FinishWork([fs EXCEPT !.ptr = "NULL"], IoFailed)
    BY <2>1, <2>3, <2>4
  <2>9. IoFailed \in Int /\ IoFailed >= IoFailed
    BY DEF IoFailed
  <2>10. fs.kind \notin Transfers \cup {"sendfile"} /\ fs.at \in {"work", "unmarked"}
    BY <2>1, <2>2
  <2> QED BY <2>7, <2>8, <2>9, <2>10, FsFinishes
<1>2. CASE UNCHANGED fs
  BY <1>2 DEF FsInv, FailsOrRepeats
<1> QED BY <1>1, <1>2 DEF FailsOrRepeats

LEMMA FsSucceedStep ==
    ASSUME FsInv, NEW kinds, kinds \cap (Transfers \cup {"sendfile"}) = {},
           NEW p \in {"NULL", "statbuf", "heap", "dents"}, NEW r \in Nat, NEW more,
           more = (IF p = "heap" THEN {Block("ptr")} ELSE {})
                  \cup (IF p = "dents" THEN {Block("dents")} \cup Entries(1, r) ELSE {})
                  \cup (IF kinds = {"open"} /\ r = NewFd THEN {Block("fd")} ELSE {}),
           "open" \in kinds => kinds = {"open"}, p = "dents" => kinds = {"scandir"} /\ r > 0,
           "scandir" \in kinds => p \in {"NULL", "dents"},
           Succeeds(kinds, p, r, more)
    PROVE  FsInv'
<1>1. PICK f, g : f = fs /\ g = fs'
  OBVIOUS
<1>2. /\ f \in FsRequests /\ f.at = "work" /\ f.result = 0 /\ f.ptr = "NULL" /\ mem = FsHeld(f)
      /\ f.kind \notin Transfers \cup {"sendfile"} /\ f.kind \in kinds
      /\ f.kind = "scandir" => f.nbufs = 0
  BY <1>1 DEF FsInv, Succeeds, RequestStands, BlocksStand, Unfinished, MemStands
<1>3. g = FinishWork([f EXCEPT !.ptr = p], r)
  BY <1>1 DEF Succeeds
<1>4. /\ g.path = f.path /\ g.bufs = f.bufs /\ g.kind = f.kind /\ g.at # "unmarked"
      /\ g.ptr = p /\ g.result = r /\ g.nbufs = f.nbufs
  BY <1>2, <1>3 DEF FinishWork, FsRequests
<1>5. p = "dents" => EntriesLeft(g) = Entries(1, r) /\ f.kind = "scandir" /\ r > 0
  BY <1>2, <1>4 DEF EntriesLeft
<1>6. g.kind = "open" <=> kinds = {"open"}
  BY <1>2, <1>4
<1>7. FsHeld(g) = FsHeld(f) \cup more
  <2>1. FsHeld(g) = FsHeld(f)
             \cup (IF g.ptr = "heap" THEN {Block("ptr")} ELSE {})
             \cup (IF g.ptr = "dents" THEN {Block("dents")} \cup EntriesLeft(g) ELSE {})
             \cup (IF g.kind = "open" /\ g.result = NewFd THEN {Block("fd")} ELSE {})
    BY <1>2, <1>4, HeldMore
  <2> QED BY <1>4, <1>5, <1>6, <2>1
<1>8. mem' = FsHeld(fs') /\ UNCHANGED <<bad, io>>
  BY <1>1, <1>2, <1>7 DEF Succeeds
<1>9. fs' = FinishWork([fs EXCEPT !.ptr = p], r)
  BY DEF Succeeds
<1>10. /\ fs.kind \notin Transfers \cup {"sendfile"} /\ fs.at \in {"work", "unmarked"}
       /\ p = "dents" => fs.kind = "scandir" /\ r > 0
       /\ fs.kind = "scandir" => p \in {"NULL", "dents"}
  BY <1>1, <1>2, <1>5
<1>11. r \in Int /\ r >= IoFailed
  BY DEF IoFailed
<1> QED BY <1>8, <1>9, <1>10, <1>11, FsFinishes

LEMMA FsWorkStep ==
    ASSUME FsInv, FsAssumption,
           uv__fs_work \/ uv__fs_stat \/ uv__fs_readlink \/ uv__fs_scandir
    PROVE  FsInv'
<1> DEFINE simple == {"path", "file", "close", "mkdtemp"}
           stats == {"stat", "fstat"}
<1>1. /\ simple \cap (Transfers \cup {"sendfile"}) = {} /\ "open" \notin simple /\ "scandir" \notin simple
      /\ stats \cap (Transfers \cup {"sendfile"}) = {} /\ "open" \notin stats /\ "scandir" \notin stats
      /\ {"readlink"} \cap (Transfers \cup {"sendfile"}) = {}
      /\ {"scandir"} \cap (Transfers \cup {"sendfile"}) = {}
  BY DEF Transfers
<1>2. \/ FailsOrRepeats(simple) \/ FailsOrRepeats(stats)
      \/ FailsOrRepeats({"readlink"}) \/ FailsOrRepeats({"scandir"})
      \/ Succeeds(simple, "NULL", 0, {})
      \/ Succeeds(stats, "statbuf", 0, {})
      \/ Succeeds({"readlink"}, "heap", 0, {Block("ptr")})
      \/ Succeeds({"scandir"}, "NULL", 0, {})
      \/ \E n \in 1..MaxEntries :
           Succeeds({"scandir"}, "dents", n, {Block("dents")} \cup Entries(1, n))
  BY DEF uv__fs_work, uv__fs_stat, uv__fs_readlink, uv__fs_scandir
<1> HIDE DEF simple, stats
<1>3. CASE FailsOrRepeats(simple) \/ FailsOrRepeats(stats)
           \/ FailsOrRepeats({"readlink"}) \/ FailsOrRepeats({"scandir"})
  BY <1>1, <1>3, FsFailStep
<1>4. CASE Succeeds(simple, "NULL", 0, {})
  BY <1>1, <1>4, FsSucceedStep
<1>5. CASE Succeeds(stats, "statbuf", 0, {})
  BY <1>1, <1>5, FsSucceedStep
<1>6. CASE Succeeds({"readlink"}, "heap", 0, {Block("ptr")})
  BY <1>1, <1>6, FsSucceedStep
<1>7. CASE Succeeds({"scandir"}, "NULL", 0, {})
  BY <1>1, <1>7, FsSucceedStep
<1>8. ASSUME NEW n \in 1..MaxEntries,
             Succeeds({"scandir"}, "dents", n, {Block("dents")} \cup Entries(1, n))
      PROVE  FsInv'
  <2>1. n \in Nat /\ n > 0
    BY DEF FsAssumption
  <2>2. PICK more : more = {Block("dents")} \cup Entries(1, n)
    OBVIOUS
  <2> QED BY <1>1, <1>8, <2>1, <2>2, FsSucceedStep
<1> QED BY <1>2, <1>3, <1>4, <1>5, <1>6, <1>7, <1>8

LEMMA FsOpenStep ==
    ASSUME FsInv, uv__fs_open \/ uv__cloexec
    PROVE  FsInv'
<1>1. {"open"} \cap (Transfers \cup {"sendfile"}) = {}
  BY DEF Transfers
<1>2. CASE FailsOrRepeats({"open"})
  BY <1>1, <1>2, FsFailStep
<1>3. CASE Succeeds({"open"}, "NULL", NewFd, {Block("fd")})
  <2>1. NewFd \in Nat
    BY DEF NewFd
  <2> QED BY <1>1, <1>3, <2>1, FsSucceedStep
<1>4. CASE /\ fs.at = "work" /\ fs.kind = "open"
           /\ fs' = [fs EXCEPT !.at = "unmarked"]
           /\ mem' = mem \cup {Block("fd")}
           /\ UNCHANGED <<bad, io>>
  <2>1. PICK f, g : f = fs /\ g = fs'
    OBVIOUS
  <2>2. /\ f \in FsRequests /\ RequestStands(f) /\ BlocksStand(f) /\ f.at = "work"
        /\ f.kind = "open" /\ mem = FsHeld(f)
    BY <1>4, <2>1 DEF FsInv, MemStands
  <2>3. g = [f EXCEPT !.at = "unmarked"]
    BY <1>4, <2>1
  <2>4. /\ g \in FsRequests /\ g.kind = f.kind /\ g.cb = f.cb /\ g.at = "unmarked" /\ g.reg = f.reg
        /\ g.result = f.result /\ g.ptr = f.ptr /\ g.path = f.path /\ g.bufs = f.bufs
        /\ g.nbufs = f.nbufs /\ g.off = f.off /\ g.canceled = f.canceled
    BY <2>2, <2>3 DEF FsRequests, FsPlaces
  <2>5. f.result = 0 /\ f.ptr = "NULL" /\ ~f.canceled
    BY <2>2 DEF RequestStands, Unfinished
  <2>6. RequestStands(g)
    BY <2>2, <2>4, <2>5 DEF RequestStands, Unfinished
  <2>7. BlocksStand(g)
    BY <2>2, <2>4, <2>5 DEF BlocksStand, Unfinished
  <2>8. FsHeld(g) = FsHeld(f) \cup {Block("fd")}
    BY <2>2, <2>4, <2>5 DEF FsHeld
  <2>9. MovesStand(g, io)
    BY <2>2, <2>4 DEF MovesStand, Transfers
  <2>10. fs' = g /\ io' = io /\ mem' = FsHeld(g) /\ bad' = FALSE /\ io \in FsMoves
    BY <1>4, <2>1, <2>2, <2>8 DEF FsInv
  <2>11. MemStands(g, FsHeld(g))
    BY DEF MemStands
  <2> QED BY <2>4, <2>6, <2>7, <2>9, <2>10, <2>11 DEF FsInv
<1>5. CASE uv__cloexec
  <2>1. PICK f, g : f = fs /\ g = fs'
    OBVIOUS
  <2>2. /\ f \in FsRequests /\ f.at = "unmarked" /\ f.kind = "open" /\ f.ptr = "NULL"
        /\ f.result = 0 /\ mem = FsHeld(f) /\ f.bufs # "heap"
    BY <1>5, <2>1 DEF FsInv, MemStands, uv__cloexec, RequestStands, BlocksStand, Unfinished, Transfers
  <2>3. [f EXCEPT !.ptr = "NULL"] = f
    BY <2>2 DEF FsRequests
  <2>4. fs.kind \notin Transfers \cup {"sendfile"} /\ fs.at \in {"work", "unmarked"}
    BY <2>1, <2>2 DEF Transfers
  <2>5. Block("fd") \in FsHeld(f)
    BY <2>2, HeldFacts
  <2>6. CASE fs' = FinishWork(fs, NewFd) /\ UNCHANGED <<mem, bad>>
    <3>1. g = FinishWork(f, NewFd)
      BY <2>1, <2>6
    <3>2. /\ g.path = f.path /\ g.bufs = f.bufs /\ g.kind = f.kind
          /\ g.ptr = f.ptr /\ g.result = NewFd
      BY <2>2, <3>1 DEF FinishWork, FsRequests
    <3>3. FsHeld(g) = FsHeld(f)
      BY <2>2, <3>2, HeldSame
    <3>4. mem' = FsHeld(fs') /\ UNCHANGED <<bad, io>>
      BY <1>5, <2>1, <2>2, <2>6, <3>3 DEF uv__cloexec
    <3>5. fs' = FinishWork([fs EXCEPT !.ptr = "NULL"], NewFd)
      BY <2>1, <2>3, <3>1
    <3>6. NewFd \in Int /\ NewFd >= IoFailed
      BY DEF NewFd, IoFailed
    <3> QED BY <2>4, <3>4, <3>5, <3>6, FsFinishes
  <2>7. CASE fs' = FinishWork(fs, IoFailed) /\ Free({Block("fd")})
    <3>1. g = FinishWork(f, IoFailed)
      BY <2>1, <2>7
    <3>2. /\ g.path = f.path /\ g.bufs = f.bufs /\ g.kind = f.kind /\ g.at # "unmarked"
          /\ g.ptr = f.ptr /\ g.result = IoFailed
      BY <2>2, <3>1 DEF FinishWork, FsRequests
    <3>3. FsHeld(g) = FsHeld(f) \ {Block("fd")}
      BY <2>2, <3>2, BlockFacts DEF FsHeld, IoFailed, NewFd
    <3>4. mem' = FsHeld(fs') /\ UNCHANGED <<bad, io>>
      BY <1>5, <2>1, <2>2, <2>5, <2>7, <3>3 DEF uv__cloexec, Free, FsInv
    <3>5. fs' = FinishWork([fs EXCEPT !.ptr = "NULL"], IoFailed)
      BY <2>1, <2>3, <3>1
    <3>6. IoFailed \in Int /\ IoFailed >= IoFailed
      BY DEF IoFailed
    <3> QED BY <2>4, <3>4, <3>5, <3>6, FsFinishes
  <2> QED BY <1>5, <2>6, <2>7 DEF uv__cloexec
<1> QED BY <1>2, <1>3, <1>4, <1>5 DEF uv__fs_open

----------------------------------------------------------------------------
(* Reads and writes.                                                       *)

LEMMA NoSpan ==
    ASSUME NEW a \in Int, NEW b \in Int, b < a
    PROVE  Span(a, b) = <<>>
<1>1. Span(a, b) \in Seq(Int) /\ Len(Span(a, b)) = 0
  BY SpanFacts
<1> QED BY <1>1, EmptySeq

LEMMA FsIterBegin ==
    ASSUME FsInv, IterBegin
    PROVE  FsInv'
<1>1. PICK f, g, m, n : f = fs /\ g = fs' /\ m = io /\ n = io'
  OBVIOUS
<1>2. /\ f \in FsRequests /\ RequestStands(f) /\ BlocksStand(f) /\ MovesStand(f, m)
      /\ f.at = "work" /\ f.kind \in Transfers /\ m \in FsMoves
  BY <1>1 DEF FsInv, IterBegin
<1>3. g = [f EXCEPT !.at = "iter"] /\ n = [m EXCEPT !.left = f.nbufs, !.total = 0]
  BY <1>1 DEF IterBegin
<1>4. /\ g \in FsRequests /\ g.kind = f.kind /\ g.cb = f.cb /\ g.at = "iter" /\ g.reg = f.reg
      /\ g.result = f.result /\ g.ptr = f.ptr /\ g.path = f.path /\ g.bufs = f.bufs
      /\ g.nbufs = f.nbufs /\ g.off = f.off /\ g.canceled = f.canceled
  BY <1>2, <1>3 DEF FsRequests, FsPlaces
<1>5. f.result = 0 /\ f.ptr = "NULL" /\ ~f.canceled
  BY <1>2 DEF RequestStands, Unfinished
<1>6. RequestStands(g)
  BY <1>2, <1>4, <1>5 DEF RequestStands, Unfinished
<1>7. BlocksStand(g)
  BY <1>2, <1>4, <1>5 DEF BlocksStand, Unfinished
<1>8. FsHeld(g) = FsHeld(f)
  BY <1>2, <1>4, <1>5, HeldSame
<1>9. MemStands(g, mem)
  BY <1>1, <1>2, <1>8 DEF MemStands, FsInv
<1>10. FsAsked(f, m) /\ Unmoved(f, m)
  BY <1>2 DEF MovesStand
<1>11. f.nbufs \in Nat /\ f.off \in Int
  BY <1>2 DEF FsRequests
<1>12. /\ n \in FsMoves /\ n.asked = m.asked /\ n.from = m.from /\ n.moved = m.moved
       /\ n.next = m.next /\ n.left = f.nbufs /\ n.total = 0 /\ n.nread = m.nread
       /\ n.nwritten = m.nwritten /\ n.pread = m.pread /\ n.pos = m.pos /\ n.why = m.why
  BY <1>2, <1>3, <1>11 DEF FsMoves
<1>13. FsAsked(g, n)
  BY <1>4, <1>10, <1>12 DEF FsAsked
<1>14. /\ n.moved = <<>> /\ n.next = 0 /\ n.why = "none" /\ g.off = n.from /\ n.left <= n.asked
       /\ n.pread /\ n.nread = 0 /\ n.nwritten = 0 /\ n.pos = 0
  BY <1>2, <1>4, <1>10, <1>12 DEF FsAsked, Unmoved
<1>15. Span(1, 0) = <<>>
  BY NoSpan
<1>16. IterStands(g, n)
  <2>1. Len(n.moved) = 0 /\ n.from \in Int
    BY <1>12, <1>14 DEF FsMoves
  <2>2. Rising(n.moved) /\ \A i \in 1..Len(n.moved) : n.moved[i] <= Bytes(n.next)
    BY <2>1 DEF Rising
  <2> QED BY <1>12, <1>14, <1>15, <2>1, <2>2 DEF IterStands
<1>17. MovesStand(g, n)
  BY <1>4, <1>13, <1>16 DEF MovesStand, Transfers
<1>18. fs' = g /\ io' = n /\ mem' = mem /\ bad' = FALSE
  BY <1>1 DEF IterBegin, FsInv
<1> QED BY <1>4, <1>6, <1>7, <1>9, <1>12, <1>17, <1>18 DEF FsInv

\* uv__fs_buf_iter returns: with the buffers kept, or freed.
LEMMA FsIterEnd ==
    ASSUME FsInv, fs.at = "iter", NEW n \in Nat, n <= io.asked, NEW total \in Int,
           total = io.total \/ (io.total = 0 /\ total \in {IoFailed, 0}),
           NEW eintr \in BOOLEAN, IterEnd([fs EXCEPT !.nbufs = n], total, eintr), io' = io
    PROVE  FsInv'
<1>1. PICK e, f, g, m : e = fs /\ f = [e EXCEPT !.nbufs = n] /\ g = fs' /\ m = io
  OBVIOUS
<1>2. /\ e \in FsRequests /\ RequestStands(e) /\ BlocksStand(e) /\ MovesStand(e, m)
      /\ e.at = "iter" /\ e.kind \in Transfers /\ m \in FsMoves /\ mem = FsHeld(e)
  BY <1>1 DEF FsInv, RequestStands, MemStands
<1>3. /\ f \in FsRequests /\ f.kind = e.kind /\ f.cb = e.cb /\ f.at = "iter" /\ f.reg = e.reg
      /\ f.result = e.result /\ f.ptr = e.ptr /\ f.path = e.path /\ f.bufs = e.bufs
      /\ f.nbufs = n /\ f.off = e.off /\ f.canceled = e.canceled
  BY <1>1, <1>2 DEF FsRequests
<1>4. e.result = 0 /\ e.ptr = "NULL" /\ ~e.canceled
  BY <1>2 DEF RequestStands, Unfinished
<1>5. RequestStands(f)
  BY <1>2, <1>3 DEF RequestStands
<1>6. BlocksStand(f)
  BY <1>2, <1>3, <1>4 DEF BlocksStand, Unfinished, Transfers
<1>7. FsHeld(f) = FsHeld(e)
  <2>1. /\ f.path = e.path /\ f.bufs = e.bufs /\ f.ptr = e.ptr /\ e.ptr # "dents"
        /\ f.at = e.at /\ f.kind = e.kind /\ f.result = e.result
    BY <1>2, <1>3, <1>4
  <2> HIDE <1>1
  <2> QED BY <2>1 DEF FsHeld
<1>8. FsAsked(e, m) /\ IterStands(e, m)
  BY <1>2 DEF MovesStand
<1>9. m.asked \in Nat /\ m.from \in Int /\ m.total \in Nat /\ m.moved \in Seq(Int)
  BY <1>2 DEF FsMoves
<1>10. /\ Len(m.moved) = m.total /\ Rising(m.moved) /\ m.why = "none"
       /\ f.off = (IF m.from >= 0 THEN m.from + m.total ELSE m.from)
       /\ m.asked <= IovMax => m.moved = Span(1, m.total)
       /\ m.next = 0 <=> m.total = 0
       /\ m.pread /\ m.nread = 0 /\ m.nwritten = 0 /\ m.pos = 0
  BY <1>3, <1>8 DEF IterStands
<1>11. m.total = 0 => m.moved = <<>> /\ f.off = m.from
  BY <1>9, <1>10, EmptySeq
<1>12. bad = FALSE /\ io' = m
  BY <1>1 DEF FsInv
<1>13. CASE eintr /\ total = IoFailed
  <2>1. g = [f EXCEPT !.at = "work"] /\ mem' = mem /\ bad' = bad
    BY <1>1, <1>13 DEF IterEnd
  <2>2. /\ g \in FsRequests /\ g.kind = f.kind /\ g.cb = f.cb /\ g.at = "work" /\ g.reg = f.reg
        /\ g.result = f.result /\ g.ptr = f.ptr /\ g.path = f.path /\ g.bufs = f.bufs
        /\ g.nbufs = f.nbufs /\ g.off = f.off /\ g.canceled = f.canceled
    BY <1>3, <2>1 DEF FsRequests, FsPlaces
  <2>3. RequestStands(g)
    BY <1>3, <1>4, <1>5, <2>2 DEF RequestStands, Unfinished
  <2>4. BlocksStand(g)
    BY <1>3, <1>4, <1>6, <2>2 DEF BlocksStand, Unfinished
  <2>5. FsHeld(g) = FsHeld(f)
    BY <1>3, <1>4, <2>2, HeldSame
  <2>6. MemStands(g, mem)
    BY <1>2, <1>7, <2>5 DEF MemStands
  <2>7. m.total = 0
    BY <1>1, <1>9, <1>13 DEF IoFailed
  <2>8. Unmoved(g, m)
    BY <1>10, <1>11, <2>2, <2>7 DEF Unmoved
  <2>9. FsAsked(g, m)
    BY <1>1, <1>2, <1>3, <1>8, <2>2 DEF FsAsked, Transfers
  <2>10. MovesStand(g, m)
    BY <2>2, <2>8, <2>9 DEF MovesStand
  <2>11. fs' = g /\ io' = m /\ mem' = mem /\ bad' = FALSE
    BY <1>1, <1>12, <2>1
  <2> QED BY <1>2, <2>2, <2>3, <2>4, <2>6, <2>10, <2>11 DEF FsInv
<1>14. CASE ~(eintr /\ total = IoFailed)
  <2>1. /\ g = FinishWork([f EXCEPT !.bufs = "NULL", !.nbufs = 0], total)
        /\ Free(IF f.bufs = "heap" THEN {Block("bufs")} ELSE {})
    BY <1>1, <1>14 DEF IterEnd
  <2>2. /\ WorkDone(f, g) /\ g.bufs = "NULL" /\ g.nbufs = 0 /\ g.result = total /\ g.ptr = f.ptr
        /\ g.off = f.off
    BY <1>3, <2>1 DEF WorkDone, FinishWork, FsRequests, FsPlaces
  <2>3. total >= IoFailed /\ g.ptr # "dents" /\ f.at \in Unfinished \ {"queued"} /\ f.kind # "scandir"
    BY <1>1, <1>2, <1>3, <1>4, <1>9, <2>2 DEF IoFailed, Unfinished, Transfers
  <2>4. RequestStands(g) /\ BlocksStand(g) /\ g.at \in {"done", "finished"} /\ g.canceled = FALSE
    <3>1. g.bufs # "heap" /\ g.result >= IoFailed
      BY <2>2, <2>3
    <3> QED BY <1>3, <1>5, <1>6, <2>2, <2>3, <3>1, WorkFinishes
  <2>5. Block("bufs") \in FsHeld(f) <=> f.bufs = "heap"
    BY <1>3, <1>4, HeldFacts, BlockFacts
  <2>6. mem' = FsHeld(f) \ {Block("bufs")} /\ bad' = FALSE
    BY <1>2, <1>7, <1>12, <2>1, <2>5 DEF Free
  <2>7. g.kind = f.kind /\ g.path = f.path /\ g \in FsRequests
    BY <2>2 DEF WorkDone
  <2>8. FsHeld(g) = FsHeld(f) \ {Block("bufs")}
    <3>1. f.kind # "open" /\ f.at # "unmarked" /\ g.at # "unmarked" /\ f.ptr = "NULL" /\ g.ptr = "NULL"
      BY <1>2, <1>3, <1>4, <2>2, <2>4 DEF Transfers
    <3>2. FsHeld(f) = (IF f.path = "heap" THEN {Block("path")} ELSE {})
                      \cup (IF f.bufs = "heap" THEN {Block("bufs")} ELSE {})
      BY <3>1 DEF FsHeld
    <3>3. FsHeld(g) = IF f.path = "heap" THEN {Block("path")} ELSE {}
      BY <2>2, <2>7, <3>1 DEF FsHeld
    <3>4. Block("path") # Block("bufs")
      BY BlockFacts
    <3> QED BY <3>2, <3>3, <3>4
  <2>9. MemStands(g, FsHeld(g))
    BY DEF MemStands
  <2>10. FsAsked(g, m)
    BY <1>2, <1>3, <1>8, <1>9, <2>2, <2>7 DEF FsAsked, Transfers
  <2>11. ResultExact(g, m)
    <3>1. CASE total = m.total
      <4>1. ~(g.result < 0) /\ g.kind # "sendfile"
        BY <1>2, <1>3, <1>9, <2>2, <2>7, <3>1 DEF Transfers
      <4>2. /\ Len(m.moved) = g.result /\ m.why # "write" /\ Rising(m.moved)
            /\ g.off = IF m.from >= 0 THEN m.from + g.result ELSE m.from
            /\ m.asked <= IovMax => m.moved = Span(1, g.result)
        BY <1>10, <2>2, <3>1
      <4> QED BY <4>1, <4>2 DEF ResultExact
    <3>2. CASE m.total = 0 /\ total = IoFailed
      <4>1. g.result < 0 /\ ~(g.result >= 0) /\ g.off = m.from /\ m.moved = <<>>
        BY <1>11, <2>2, <3>2 DEF IoFailed
      <4> QED BY <4>1 DEF ResultExact
    <3> QED BY <1>1, <3>1, <3>2
  <2>12. MovesStand(g, m)
    BY <2>4, <2>10, <2>11 DEF MovesStand
  <2>13. fs' = g /\ io' = m /\ mem' = FsHeld(g) /\ bad' = FALSE
    BY <1>1, <1>12, <2>6, <2>8
  <2> QED BY <1>2, <2>4, <2>7, <2>9, <2>12, <2>13 DEF FsInv
<1> QED BY <1>13, <1>14

\* Bytes that follow those of s in order.
LEMMA RisingOn ==
    ASSUME NEW s, NEW l \in Nat, Len(s) = l, Rising(s), NEW a \in Int, NEW r \in Nat \ {0},
           \A i \in 1..l : s[i] \in Int /\ s[i] <= a,
           NEW t, Len(t) = l + r, \A i \in 1..l : t[i] = s[i],
           \A i \in 1..(l + r) : i > l => t[i] = a + i - l
    PROVE  Rising(t) /\ \A i \in 1..(l + r) : t[i] \in Int /\ t[i] <= a + r
<1>1. ASSUME NEW i \in 1..(l + r) PROVE t[i] \in Int /\ t[i] <= a + r
  <2>1. CASE i <= l
    <3>1. i \in 1..l
      BY <2>1
    <3>2. t[i] \in Int /\ t[i] <= a
      BY <3>1
    <3> QED BY <3>2
  <2>2. CASE i > l
    <3>1. t[i] = a + i - l
      BY <2>2
    <3>2. a + i - l \in Int /\ a + i - l <= a + r
      OBVIOUS
    <3> QED BY <3>1, <3>2
  <2> QED BY <2>1, <2>2
<1>2. ASSUME NEW i \in 1..(l + r - 1) PROVE t[i] < t[i + 1]
  <2>1. CASE i < l
    <3>1. i \in 1..l /\ i + 1 \in 1..l /\ i \in 1..(l - 1)
      BY <2>1
    <3>2. s[i] < s[i + 1]
      BY <3>1 DEF Rising
    <3>3. t[i] = s[i] /\ t[i + 1] = s[i + 1]
      BY <3>1
    <3> QED BY <3>2, <3>3
  <2>2. CASE i = l
    <3>1. i \in 1..l /\ i + 1 \in 1..(l + r) /\ i + 1 > l
      BY <2>2
    <3>2. t[i] \in Int /\ t[i] <= a
      BY <3>1
    <3>3. t[i + 1] = a + (i + 1) - l
      BY <3>1
    <3>4. a + (i + 1) - l = a + 1
      BY <2>2
    <3> QED BY <3>2, <3>3, <3>4
  <2>3. CASE i > l
    <3>1. i \in 1..(l + r) /\ i + 1 \in 1..(l + r) /\ i + 1 > l
      BY <2>3
    <3>2. t[i] = a + i - l
      BY <2>3, <3>1
    <3>3. t[i + 1] = a + (i + 1) - l
      BY <3>1
    <3>4. a + i - l < a + (i + 1) - l
      OBVIOUS
    <3> QED BY <3>2, <3>3, <3>4
  <2> QED BY <2>1, <2>2, <2>3
<1> QED BY <1>1, <1>2 DEF Rising

\* A turn that moved r bytes: those from a + 1 on, where a is past all before.
LEMMA RisingSpan ==
    ASSUME NEW s \in Seq(Int), Rising(s), NEW a \in Int, NEW r \in Nat \ {0},
           \A i \in 1..Len(s) : s[i] <= a
    PROVE  /\ s \o Span(a + 1, a + r) \in Seq(Int)
           /\ Len(s \o Span(a + 1, a + r)) = Len(s) + r
           /\ Rising(s \o Span(a + 1, a + r))
           /\ \A i \in 1..(Len(s) + r) : (s \o Span(a + 1, a + r))[i] <= a + r
<1>1. PICK u, l, b, c : u = Span(b, c) /\ b = a + 1 /\ c = a + r /\ l = Len(s)
  OBVIOUS
<1>2. b \in Int /\ c \in Int /\ r = IF c < b THEN 0 ELSE c - b + 1
  BY <1>1
<1>3. u \in Seq(Int) /\ Len(u) = r /\ \A i \in 1..r : u[i] = b + i - 1
  BY <1>1, <1>2, SpanFacts, ZenonT(60)
<1>4. l \in Nat /\ Len(s) = l /\ \A i \in 1..l : s[i] \in Int /\ s[i] <= a
  BY <1>1
<1>5. PICK t : t = s \o u
  OBVIOUS
<1>6. /\ t \in Seq(Int) /\ Len(t) = l + r
      /\ \A i \in 1..(l + r) : t[i] = IF i <= l THEN s[i] ELSE u[i - l]
  BY <1>3, <1>4, <1>5, ConcatProperties, ZenonT(60)
<1>7. \A i \in 1..l : t[i] = s[i]
  <2> SUFFICES ASSUME NEW i \in 1..l PROVE t[i] = s[i]
    OBVIOUS
  <2>1. i \in 1..(l + r) /\ i <= l
    BY <1>4
  <2> QED BY <1>6, <2>1
<1>8. ASSUME NEW i \in 1..(l + r), i > l PROVE t[i] = a + i - l
  <2>1. i - l \in 1..r /\ ~(i <= l)
    BY <1>4, <1>8
  <2>2. t[i] = u[i - l]
    BY <1>6, <2>1
  <2>3. u[i - l] = b + (i - l) - 1
    BY <1>3, <2>1
  <2>4. b + (i - l) - 1 = a + i - l
    BY <1>1, <1>4
  <2> QED BY <2>2, <2>3, <2>4
<1>9. Rising(t) /\ \A i \in 1..(l + r) : t[i] \in Int /\ t[i] <= a + r
  BY <1>4, <1>6, <1>7, <1>8, RisingOn, ZenonT(60)
<1> QED BY <1>1, <1>5, <1>6, <1>9

LEMMA FsIterMoves ==
    ASSUME FsInv, FsAssumption, fs.at = "iter", io.left > 0,
           NEW k, k = Least(io.left, IovMax), NEW r \in Nat \ {0},
           Bytes(io.next) \in Nat, Bytes(io.next + k) \in Nat,
           Bytes(io.next) + r <= Bytes(io.next + k), io.next = 0 => Bytes(io.next) = 0,
           fs' = [[fs EXCEPT !.nbufs = k] EXCEPT !.off = IF @ >= 0 THEN @ + r ELSE @],
           io' = [io EXCEPT !.left = @ - k, !.next = @ + k, !.total = @ + r,
                            !.moved = @ \o Span(Bytes(io.next) + 1, Bytes(io.next) + r)],
           UNCHANGED <<mem, bad>>
    PROVE  FsInv'
<1>1. PICK f, g, m, n : f = fs /\ g = fs' /\ m = io /\ n = io'
  OBVIOUS
<1>2. /\ f \in FsRequests /\ RequestStands(f) /\ BlocksStand(f) /\ MovesStand(f, m)
      /\ f.at = "iter" /\ f.kind \in Transfers /\ m \in FsMoves /\ mem = FsHeld(f)
  BY <1>1 DEF FsInv, RequestStands, MemStands
<1>3. f.result = 0 /\ f.ptr = "NULL" /\ ~f.canceled
  BY <1>2 DEF RequestStands, Unfinished
<1>4. FsAsked(f, m) /\ IterStands(f, m)
  BY <1>2 DEF MovesStand
<1>5. /\ m.asked \in Nat /\ m.from \in Int /\ m.total \in Nat /\ m.moved \in Seq(Int)
      /\ m.next \in Nat /\ m.left \in Nat /\ f.off \in Int
  BY <1>2 DEF FsMoves, FsRequests
<1>6. k \in Nat /\ k > 0 /\ k <= m.left /\ (m.left <= IovMax => k = m.left)
  BY <1>1, <1>5, SMTT(30) DEF Least, FsAssumption
<1>7. PICK a, z : a = Bytes(m.next) /\ z = Bytes(m.next + k)
  OBVIOUS
<1>8. a \in Nat /\ z \in Nat /\ a + r <= z /\ (m.next = 0 => a = 0)
  BY <1>1, <1>7
<1>9. r \in Nat /\ r > 0
  OBVIOUS
<1>10. PICK s, t, o : /\ s = Span(a + 1, a + r) /\ t = m.moved \o s
                      /\ o = IF f.off >= 0 THEN f.off + r ELSE f.off
  OBVIOUS
<1>11. /\ t \in Seq(Int) /\ Len(t) = Len(m.moved) + r /\ Rising(t)
       /\ \A i \in 1..(Len(m.moved) + r) : t[i] <= a + r
  <2>1. Rising(m.moved) /\ \A i \in 1..Len(m.moved) : m.moved[i] <= a
    BY <1>4, <1>7 DEF IterStands
  <2>2. PICK v : v = m.moved
    OBVIOUS
  <2>3. v \in Seq(Int) /\ Rising(v) /\ \A i \in 1..Len(v) : v[i] <= a
    BY <1>5, <2>1, <2>2
  <2>4. a \in Int /\ r \in Nat \ {0}
    BY <1>8
  <2>5. t = v \o Span(a + 1, a + r)
    BY <1>10, <2>2
  <2>6. /\ v \o Span(a + 1, a + r) \in Seq(Int)
        /\ Len(v \o Span(a + 1, a + r)) = Len(v) + r
        /\ Rising(v \o Span(a + 1, a + r))
        /\ \A i \in 1..(Len(v) + r) : (v \o Span(a + 1, a + r))[i] <= a + r
    BY <2>3, <2>4, RisingSpan
  <2> QED BY <2>2, <2>5, <2>6
<1>12. o \in Int
  BY <1>5, <1>9, <1>10
<1>13. g = [[f EXCEPT !.nbufs = k] EXCEPT !.off = o]
  BY <1>1, <1>2, <1>10 DEF FsRequests
<1>14. /\ g \in FsRequests /\ g.kind = f.kind /\ g.cb = f.cb /\ g.at = "iter" /\ g.reg = f.reg
       /\ g.result = f.result /\ g.ptr = f.ptr /\ g.path = f.path /\ g.bufs = f.bufs
       /\ g.nbufs = k /\ g.off = o /\ g.canceled = f.canceled
  BY <1>2, <1>6, <1>12, <1>13 DEF FsRequests
<1>15. n = [m EXCEPT !.left = m.left - k, !.next = m.next + k, !.total = m.total + r, !.moved = t]
  BY <1>1, <1>7, <1>10
<1>16. m.left - k \in Nat /\ m.next + k \in Nat \ {0} /\ m.total + r \in Nat \ {0}
  <2>1. m.left - k \in Nat
    BY ONLY <1>5, <1>6
  <2>2. m.next + k \in Nat \ {0}
    BY ONLY <1>5, <1>6
  <2>3. m.total + r \in Nat \ {0}
    BY ONLY <1>5, <1>9
  <2> QED BY <2>1, <2>2, <2>3
<1>17. /\ n \in FsMoves /\ n.asked = m.asked /\ n.from = m.from /\ n.moved = t
       /\ n.next = m.next + k /\ n.left = m.left - k /\ n.total = m.total + r
       /\ n.nread = m.nread /\ n.nwritten = m.nwritten /\ n.pread = m.pread /\ n.pos = m.pos
       /\ n.why = m.why
  BY <1>2, <1>11, <1>15, <1>16 DEF FsMoves
<1>18. RequestStands(g)
  BY <1>2, <1>14 DEF RequestStands
<1>19. BlocksStand(g)
  BY <1>2, <1>3, <1>14 DEF BlocksStand, Unfinished, Transfers
<1>20. FsHeld(g) = FsHeld(f)
  BY <1>2, <1>3, <1>14, HeldSame
<1>21. MemStands(g, mem)
  BY <1>2, <1>20 DEF MemStands
<1>22. FsAsked(g, n)
  <2>1. k <= m.asked
    <3>1. m.left <= m.asked
      BY <1>4 DEF IterStands
    <3> QED BY ONLY <1>5, <1>6, <3>1
  <2> QED BY <1>2, <1>4, <1>14, <1>17, <2>1 DEF FsAsked, Transfers
<1>23. IterStands(g, n)
  <2>1. Len(n.moved) = n.total /\ Rising(n.moved)
    BY <1>4, <1>11, <1>17 DEF IterStands
  <2>2. \A i \in 1..Len(n.moved) : n.moved[i] <= Bytes(n.next)
    <3>1. Bytes(n.next) = z /\ n.moved = t /\ Len(t) = Len(m.moved) + r
      BY <1>7, <1>11, <1>17
    <3>2. ASSUME NEW i \in 1..(Len(m.moved) + r) PROVE t[i] <= z
      <4>1. t[i] <= a + r
        BY <1>11
      <4>2. i \in 1..Len(t)
        BY <1>11
      <4>3. t[i] \in Int
        BY ONLY <1>11, <4>2
      <4> QED BY ONLY <1>8, <1>9, <4>1, <4>3
    <3> QED BY <3>1, <3>2
  <2>3. g.off = IF n.from >= 0 THEN n.from + n.total ELSE n.from
    <3>1. f.off = IF m.from >= 0 THEN m.from + m.total ELSE m.from
      BY <1>4 DEF IterStands
    <3>2. g.off = (IF f.off >= 0 THEN f.off + r ELSE f.off) /\ n.total = m.total + r /\ n.from = m.from
      BY <1>10, <1>14, <1>17
    <3> QED BY ONLY <1>5, <1>9, <3>1, <3>2
  <2>4. ~(n.next = 0) /\ ~(n.total = 0) /\ n.why = "none" /\ n.left <= n.asked
        /\ n.pread /\ n.nread = 0 /\ n.nwritten = 0 /\ n.pos = 0
    <3>1. /\ m.why = "none" /\ m.left <= m.asked
          /\ m.pread /\ m.nread = 0 /\ m.nwritten = 0 /\ m.pos = 0
      BY <1>4 DEF IterStands
    <3>2. m.left - k <= m.asked
      BY ONLY <1>5, <1>6, <3>1
    <3>3. ~(n.next = 0) /\ ~(n.total = 0)
      BY ONLY <1>16, <1>17
    <3> QED BY ONLY <1>17, <3>1, <3>2, <3>3
  <2>5. ASSUME n.asked <= IovMax
        PROVE  n.moved = Span(1, n.total) /\ n.left = 0
    <3>1. m.left <= IovMax
      BY <1>4, <1>5, <1>17, <2>5, SMTT(30) DEF IterStands, FsAssumption
    <3>2. n.left = 0
      BY <1>5, <1>6, <1>17, <3>1
    <3>3. ~(m.left = 0)
      BY <1>5, <1>6
    <3>4. m.next = 0 /\ m.total = 0 /\ m.moved = Span(1, m.total)
      BY <1>4, <1>17, <2>5, <3>3 DEF IterStands
    <3>5. m.moved = <<>>
      <4>1. Span(1, 0) = <<>>
        BY ONLY NoSpan
      <4> QED BY ONLY <3>4, <4>1
    <3>6. a = 0
      BY <1>8, <3>4
    <3>7. s = Span(1, r) /\ s \in Seq(Int) /\ n.total = r
      <4>1. s = Span(0 + 1, 0 + r)
        BY <1>10, <3>6
      <4>2. Span(1, r) \in Seq(Int)
        BY <1>9, SpanFacts, SMTT(30)
      <4> QED BY <1>9, <1>17, <3>4, <4>1, <4>2
    <3>8. t = s
      BY <1>10, <3>5, <3>7, ConcatEmptySeq
    <3> QED BY <1>17, <3>2, <3>7, <3>8
  <2> QED BY <2>1, <2>2, <2>3, <2>4, <2>5 DEF IterStands
<1>24. MovesStand(g, n)
  BY <1>14, <1>22, <1>23 DEF MovesStand
<1>25. fs' = g /\ io' = n /\ mem' = mem /\ bad' = FALSE
  BY <1>1 DEF FsInv
<1> QED BY <1>14, <1>17, <1>18, <1>19, <1>21, <1>24, <1>25 DEF FsInv

LEMMA FsIterStep ==
    ASSUME FsInv, FsAssumption, uv__fs_buf_iter
    PROVE  FsInv'
<1>1. fs.at = "iter"
  BY DEF uv__fs_buf_iter, IterTurn
<1>2. fs \in FsRequests /\ io \in FsMoves /\ fs.kind \in Transfers /\ FsAsked(fs, io) /\ IterStands(fs, io)
  BY <1>1 DEF FsInv, RequestStands, MovesStand
<1>3. /\ fs.nbufs \in Nat /\ fs.nbufs <= io.asked /\ io.left \in Nat /\ io.left <= io.asked
      /\ io.total \in Nat /\ io.asked \in Nat
  BY <1>2 DEF FsRequests, FsMoves, FsAsked, IterStands
<1>4. CASE IterEnd(fs, io.total, FALSE) /\ io' = io
  <2>1. [fs EXCEPT !.nbufs = fs.nbufs] = fs
    BY <1>2 DEF FsRequests
  <2>2. IterEnd([fs EXCEPT !.nbufs = fs.nbufs], io.total, FALSE)
    BY <1>4, <2>1
  <2>3. io.total \in Int /\ FALSE \in BOOLEAN
    BY <1>3
  <2> QED BY <1>1, <1>3, <1>4, <2>2, <2>3, FsIterEnd
<1>5. CASE IterTurn
  <2>1. PICK k : k = Least(io.left, IovMax)
    OBVIOUS
  <2>2. k \in Nat /\ k <= io.asked
    BY <1>3, <2>1 DEF Least, FsAssumption
  <2>3. ASSUME NEW r \in {IoFailed, 0}, NEW eintr \in BOOLEAN,
               IterEnd([fs EXCEPT !.nbufs = k], IF io.total = 0 THEN r ELSE io.total, eintr), io' = io
        PROVE  FsInv'
    <3>1. PICK total : total = IF io.total = 0 THEN r ELSE io.total
      OBVIOUS
    <3>2. /\ total \in Int
          /\ total = io.total \/ (io.total = 0 /\ total \in {IoFailed, 0})
      BY <1>3, <3>1 DEF IoFailed
    <3>3. IterEnd([fs EXCEPT !.nbufs = k], total, eintr)
      BY <2>3, <3>1
    <3> QED BY <1>1, <2>2, <2>3, <3>2, <3>3, FsIterEnd
  <2>4. ASSUME NEW r \in 1..(k * BufBytes),
               fs' = [[fs EXCEPT !.nbufs = k] EXCEPT !.off = IF @ >= 0 THEN @ + r ELSE @],
               io' = [io EXCEPT !.left = @ - k, !.next = @ + k, !.total = @ + r,
                          !.moved = @ \o Span(io.next * BufBytes + 1, io.next * BufBytes + r)],
               UNCHANGED <<mem, bad>>
        PROVE  FsInv'
    <3>1. io.left > 0
      BY <1>5 DEF IterTurn
    <3>2. PICK b, d, e : b = io.next /\ d = BufBytes /\ e = k * d
      OBVIOUS
    <3>3. b \in Nat /\ d \in Nat /\ e \in Nat /\ r \in 1..e
      <4>1. b \in Nat /\ d \in Nat
        BY <1>2, <3>2 DEF FsAssumption, FsMoves
      <4>2. \A x, y \in Nat : x * y \in Nat
        OBVIOUS
      <4>3. e \in Nat
        BY ONLY <2>2, <3>2, <4>1, <4>2
      <4> QED BY <3>2, <4>1, <4>3
    <3>4. r \in Nat \ {0} /\ r <= e
      BY <3>3
    <3>5. b * d \in Nat /\ (b + k) * d \in Nat /\ (b + k) * d = b * d + e
      BY <2>2, <3>2, <3>3
    <3>6. /\ Bytes(io.next) \in Nat /\ Bytes(io.next + k) \in Nat
          /\ Bytes(io.next) + r <= Bytes(io.next + k)
      <4>1. Bytes(io.next) = b * d /\ Bytes(io.next + k) = (b + k) * d
        BY <3>2 DEF Bytes
      <4>2. PICK x, y : x = b * d /\ y = (b + k) * d
        OBVIOUS
      <4>3. x \in Nat /\ y \in Nat /\ y = x + e
        BY <3>5, <4>2
      <4>4. x + r <= y
        BY <3>3, <3>4, <4>3
      <4> QED BY <4>1, <4>2, <4>3, <4>4
    <3>7. io.next = 0 => Bytes(io.next) = 0
      BY DEF Bytes, FsAssumption
    <3>8. io' = [io EXCEPT !.left = @ - k, !.next = @ + k, !.total = @ + r,
                           !.moved = @ \o Span(Bytes(io.next) + 1, Bytes(io.next) + r)]
      BY <2>4 DEF Bytes
    <3>9. r \in Nat \ {0}
      BY <3>4
    <3>10. fs' = [[fs EXCEPT !.nbufs = k] EXCEPT !.off = IF @ >= 0 THEN @ + r ELSE @]
      BY <2>4
    <3>11. UNCHANGED <<mem, bad>>
      BY <2>4
    <3>12. FsInv /\ FsAssumption
      BY FsAssumption
    <3> QED BY ONLY <1>1, <2>1, <3>1, <3>6, <3>7, <3>8, <3>9, <3>10, <3>11, <3>12, FsIterMoves
  <2> QED BY <1>5, <2>1, <2>3, <2>4 DEF IterTurn
<1> QED BY <1>4, <1>5 DEF uv__fs_buf_iter

----------------------------------------------------------------------------
(* uv__fs_sendfile.                                                        *)

LEMMA SpanRising ==
    ASSUME NEW a \in Int, NEW n \in Nat
    PROVE  /\ Span(a + 1, a + n) \in Seq(Int) /\ Len(Span(a + 1, a + n)) = n
           /\ Rising(Span(a + 1, a + n))
           /\ n > 0 => Span(a + 1, a + n)[1] = a + 1
<1>1. PICK u, b, c : u = Span(b, c) /\ b = a + 1 /\ c = a + n
  OBVIOUS
<1>2. b \in Int /\ c \in Int /\ n = IF c < b THEN 0 ELSE c - b + 1
  BY <1>1
<1>3. u \in Seq(Int) /\ Len(u) = n /\ \A i \in 1..n : u[i] = b + i - 1
  BY <1>1, <1>2, SpanFacts, ZenonT(60)
<1>4. ASSUME NEW i \in 1..(n - 1) PROVE u[i] < u[i + 1]
  <2>1. i \in 1..n /\ i + 1 \in 1..n /\ i \in Int
    OBVIOUS
  <2>2. u[i] = b + i - 1 /\ u[i + 1] = b + (i + 1) - 1
    BY <1>3, <2>1
  <2>3. b + i - 1 < b + (i + 1) - 1
    BY <1>2, <2>1
  <2> QED BY <2>2, <2>3
<1>5. n > 0 => u[1] = b
  <2>1. n > 0 => 1 \in 1..n
    OBVIOUS
  <2>2. b + 1 - 1 = b
    BY <1>2
  <2> QED BY <1>3, <2>1, <2>2
<1> QED BY <1>1, <1>3, <1>4, <1>5 DEF Rising

\* A sendfile reports n and has moved as much.
LEMMA SentExact ==
    ASSUME NEW g, g.kind = "sendfile", NEW m, m.from \in Nat, m.why # "write",
           NEW origin \in Nat, m.pread => origin = m.from, NEW n \in Nat,
           g.result = n, g.off = m.from + n, m.moved = Span(origin + 1, origin + n)
    PROVE  ResultExact(g, m)
<1>1. /\ m.moved \in Seq(Int) /\ Len(m.moved) = n /\ Rising(m.moved)
      /\ n > 0 => m.moved[1] = origin + 1
  <2>1. origin \in Int
    OBVIOUS
  <2> QED BY <2>1, SpanRising
<1>2. origin + 1 + n - 1 = origin + n
  OBVIOUS
<1>3. n > 0 => m.moved = Span(m.moved[1], m.moved[1] + n - 1)
  BY <1>1, <1>2
<1>4. g.kind \notin Transfers /\ ~(g.result < 0) /\ m.from >= 0
  BY DEF Transfers
<1> QED BY <1>1, <1>3, <1>4 DEF ResultExact

LEMMA NothingExact ==
    ASSUME NEW g, NEW m, g.result = IoFailed, g.off = m.from,
           m.why # "write" => m.moved = <<>>
    PROVE  ResultExact(g, m)
<1>1. g.result < 0 /\ ~(g.result >= 0)
  BY DEF IoFailed
<1> QED BY <1>1 DEF ResultExact

LEMMA FsSent ==
    ASSUME FsInv, fs.kind = "sendfile", fs.at \in {"work", "copy"}, NEW off \in Int,
           NEW r \in Int, r >= IoFailed, fs' = FinishWork([fs EXCEPT !.off = off], r),
           io' \in FsMoves, io'.asked = io.asked, io'.from = io.from,
           fs'.kind = "sendfile" /\ fs'.result = r /\ fs'.off = off => ResultExact(fs', io'),
           UNCHANGED <<mem, bad>>
    PROVE  FsInv'
<1>1. PICK f, g, m, n : f = fs /\ g = fs' /\ m = io /\ n = io'
  OBVIOUS
<1>2. /\ f \in FsRequests /\ RequestStands(f) /\ BlocksStand(f) /\ MovesStand(f, m)
      /\ f.at \in {"work", "copy"} /\ f.kind = "sendfile" /\ mem = FsHeld(f)
  BY <1>1 DEF FsInv, MemStands
<1>3. g = FinishWork([f EXCEPT !.off = off], r)
  BY <1>1
<1>4. /\ WorkDone(f, g) /\ g.bufs = f.bufs /\ g.nbufs = f.nbufs /\ g.result = r /\ g.ptr = f.ptr
      /\ g.off = off
  BY <1>2, <1>3 DEF WorkDone, FinishWork, FsRequests, FsPlaces
<1>5. g.kind = "sendfile" /\ g.path = f.path /\ g \in FsRequests /\ f.ptr = "NULL" /\ f.bufs # "heap"
  BY <1>2, <1>4 DEF WorkDone, RequestStands, BlocksStand, Unfinished, Transfers
<1>6. RequestStands(g) /\ BlocksStand(g) /\ g.at \in {"done", "finished"} /\ g.canceled = FALSE
  <2>1. g.bufs # "heap" /\ g.ptr # "dents" /\ g.result >= IoFailed /\ f.at \in Unfinished \ {"queued"}
    BY <1>2, <1>4, <1>5 DEF Unfinished
  <2>2. f.kind = "scandir" => g.nbufs = f.nbufs /\ g.ptr \in {"NULL", "dents"}
    BY <1>2
  <2> HIDE <1>1, <1>3
  <2> QED BY <1>2, <1>4, <2>1, <2>2, WorkFinishes
<1>7. FsHeld(g) = FsHeld(f)
  BY <1>2, <1>4, <1>5, <1>6, HeldSame
<1>8. MemStands(g, mem)
  BY <1>2, <1>7 DEF MemStands
<1>9. FsAsked(g, n)
  BY <1>1, <1>2, <1>5 DEF MovesStand, FsAsked, Transfers
<1>10. ResultExact(g, n)
  BY <1>1, <1>4, <1>5
<1>11. MovesStand(g, n)
  BY <1>6, <1>9, <1>10 DEF MovesStand
<1>12. fs' = g /\ io' = n /\ mem' = mem /\ bad' = FALSE /\ n \in FsMoves
  BY <1>1 DEF FsInv
<1> QED BY <1>5, <1>6, <1>8, <1>11, <1>12 DEF FsInv

LEMMA FsSendfileStep ==
    ASSUME FsInv, FsAssumption, uv__fs_sendfile
    PROVE  FsInv'
<1>1. /\ fs.at = "work" /\ fs.kind = "sendfile" /\ fs \in FsRequests /\ io \in FsMoves
      /\ Unmoved(fs, io) /\ io.from >= 0 /\ mem' = mem /\ bad' = bad
      /\ RequestStands(fs) /\ BlocksStand(fs) /\ MemStands(fs, mem) /\ bad = FALSE
  BY DEF uv__fs_sendfile, FsInv, MovesStand, FsAsked
<1>2. PICK from, off : from = io.from /\ off = fs.off
  OBVIOUS
<1>3. from \in Nat /\ off = from /\ off \in Int
  BY <1>1, <1>2 DEF FsMoves, Unmoved
<1>4. ASSUME NEW n \in 0..Least(io.asked, FileLen - fs.off),
             fs' = FinishWork([fs EXCEPT !.off = @ + n], n),
             io' = [io EXCEPT !.moved = Span(io.from + 1, io.from + n)]
      PROVE  FsInv'
  <2>1. n \in Nat
    <3>1. PICK most : most = Least(io.asked, FileLen - fs.off)
      OBVIOUS
    <3>2. most \in Int
      <4>1. io.asked \in Int
        BY <1>1 DEF FsMoves
      <4>2. FileLen - fs.off \in Int
        BY <1>2, <1>3 DEF FsAssumption
      <4> QED BY ONLY <3>1, <4>1, <4>2 DEF Least
    <3> QED BY <1>4, <3>1, <3>2
  <2>2. PICK s : s = Span(from + 1, from + n)
    OBVIOUS
  <2>3. s \in Seq(Int)
    BY <1>3, <2>1, <2>2, SpanRising
  <2>4. io' = [io EXCEPT !.moved = s]
    BY <1>2, <1>4, <2>2
  <2>5. /\ io' \in FsMoves /\ io'.asked = io.asked /\ io'.from = from /\ io'.moved = s
        /\ io'.why = io.why /\ io'.pread = io.pread
    BY <1>1, <1>2, <2>3, <2>4 DEF FsMoves
  <2>6. from + n \in Int /\ n \in Int /\ n >= IoFailed
    BY <1>3, <2>1 DEF IoFailed
  <2>7. fs' = FinishWork([fs EXCEPT !.off = from + n], n)
    BY <1>2, <1>3, <1>4
  <2>8. ASSUME fs'.kind = "sendfile" /\ fs'.result = n /\ fs'.off = from + n
        PROVE  ResultExact(fs', io')
    <3>1. PICK g, m : g = fs' /\ m = io'
      OBVIOUS
    <3>2. /\ g.kind = "sendfile" /\ g.result = n /\ g.off = m.from + n /\ m.why # "write"
          /\ m.moved = Span(from + 1, from + n) /\ m.from \in Nat /\ m.from = from
      BY <1>1, <1>3, <2>2, <2>5, <2>8, <3>1 DEF Unmoved
    <3>3. ResultExact(g, m)
      BY ONLY <1>3, <2>1, <3>2, SentExact
    <3> QED BY <3>1, <3>3
  <2>9. fs.at \in {"work", "copy"} /\ io'.from = io.from /\ UNCHANGED <<mem, bad>>
    BY <1>1, <1>2, <2>5
  <2> QED BY <1>1, <2>5, <2>6, <2>7, <2>8, <2>9, FsSent
<1>5. CASE fs' = FinishWork(fs, IoFailed) /\ io' = io
  <2>1. fs' = FinishWork([fs EXCEPT !.off = off], IoFailed)
    <3>1. [fs EXCEPT !.off = off] = fs
      BY <1>1, <1>2 DEF FsRequests
    <3> QED BY <1>5, <3>1
  <2>2. ASSUME fs'.kind = "sendfile" /\ fs'.result = IoFailed /\ fs'.off = off
        PROVE  ResultExact(fs', io')
    BY <1>1, <1>2, <1>3, <1>5, <2>2, NothingExact DEF Unmoved
  <2>3. IoFailed \in Int /\ IoFailed >= IoFailed
    BY DEF IoFailed
  <2>4. /\ fs.at \in {"work", "copy"} /\ io' \in FsMoves /\ io'.asked = io.asked /\ io'.from = io.from
        /\ UNCHANGED <<mem, bad>>
    BY <1>1, <1>5
  <2> QED BY <1>1, <1>3, <2>1, <2>2, <2>3, <2>4, FsSent
<1>6. CASE fs' = fs /\ io' = io
  BY <1>1, <1>6 DEF FsInv
<1>7. CASE fs' = [fs EXCEPT !.at = "copy"] /\ io' = [io EXCEPT !.next = fs.off]
  <2>1. PICK f, g, m, n : f = fs /\ g = fs' /\ m = io /\ n = io'
    OBVIOUS
  <2>2. g = [f EXCEPT !.at = "copy"] /\ n = [m EXCEPT !.next = off]
    BY <1>2, <1>7, <2>1
  <2>3. /\ f \in FsRequests /\ RequestStands(f) /\ BlocksStand(f) /\ MemStands(f, mem)
        /\ f.at = "work" /\ f.kind = "sendfile" /\ f.off = from /\ f.ptr = "NULL" /\ ~f.canceled
        /\ f.result = 0
    BY <1>1, <1>2, <1>3, <2>1 DEF RequestStands, Unfinished
  <2>4. /\ g \in FsRequests /\ g.kind = f.kind /\ g.cb = f.cb /\ g.at = "copy" /\ g.reg = f.reg
        /\ g.result = f.result /\ g.ptr = f.ptr /\ g.path = f.path /\ g.bufs = f.bufs
        /\ g.nbufs = f.nbufs /\ g.off = f.off /\ g.canceled = f.canceled
    BY <2>2, <2>3 DEF FsRequests, FsPlaces
  <2>5. m \in FsMoves /\ Unmoved(f, m) /\ m.from = from
    BY <1>1, <1>2, <2>1
  <2>6. /\ n \in FsMoves /\ n.asked = m.asked /\ n.from = m.from /\ n.moved = m.moved
        /\ n.next = from /\ n.total = m.total /\ n.nread = m.nread /\ n.nwritten = m.nwritten
        /\ n.pread = m.pread /\ n.pos = m.pos /\ n.why = m.why
    BY <1>3, <2>2, <2>5 DEF FsMoves
  <2>7. RequestStands(g)
    BY <2>3, <2>4 DEF RequestStands, Unfinished
  <2>8. BlocksStand(g)
    BY <2>3, <2>4 DEF BlocksStand, Unfinished
  <2>9. FsHeld(g) = FsHeld(f)
    BY <2>3, <2>4, HeldSame
  <2>10. MemStands(g, mem)
    BY <2>3, <2>9 DEF MemStands
  <2>11. FsAsked(g, n)
    BY <1>3, <2>3, <2>4, <2>5, <2>6 DEF FsAsked, Transfers
  <2>12. CopyStands(g, n)
    <3>1. Span(from + 1, from + 0 + 0) = <<>>
      BY ONLY <1>3, NoSpan
    <3>2. /\ g.off = from /\ n.next = from + 0 /\ n.why = "none" /\ n.nread = 0 /\ n.nwritten = 0
          /\ n.pread /\ n.pos = 0 /\ n.moved = <<>> /\ n.total = 0 /\ n.from = from
      BY <1>3, <2>3, <2>4, <2>5, <2>6 DEF Unmoved
    <3> QED BY ONLY <3>1, <3>2 DEF CopyStands
  <2>13. MovesStand(g, n)
    BY <2>3, <2>4, <2>11, <2>12 DEF MovesStand
  <2>14. fs' = g /\ io' = n /\ mem' = mem /\ bad' = FALSE
    BY <1>1, <2>1
  <2> QED BY <2>4, <2>6, <2>7, <2>8, <2>10, <2>13, <2>14 DEF FsInv
<1> QED BY <1>4, <1>5, <1>6, <1>7 DEF uv__fs_sendfile

\* uv__fs_sendfile_emul returns.
LEMMA FsSendEnd ==
    ASSUME FsInv, fs.at = "copy", NEW nsent \in Int,
           \/ nsent = io.total /\ io.nread = 0 /\ io'.why # "write"
           \/ nsent = IoFailed /\ (io'.why # "write" => io.total = 0 /\ io.nread = 0),
           SendEnd(nsent), NEW why \in {"none", "read", "write"}, io' = [io EXCEPT !.why = why],
           UNCHANGED <<mem, bad>>
    PROVE  FsInv'
<1>1. PICK f, m, n : f = fs /\ m = io /\ n = io'
  OBVIOUS
<1>2. /\ f \in FsRequests /\ f.kind = "sendfile" /\ f.at = "copy" /\ m \in FsMoves
      /\ CopyStands(f, m) /\ m.from >= 0
  BY <1>1 DEF FsInv, RequestStands, MovesStand, FsAsked, Transfers
<1>3. n = [m EXCEPT !.why = why]
  BY <1>1
<1>4. /\ n \in FsMoves /\ n.asked = m.asked /\ n.from = m.from /\ n.moved = m.moved
      /\ n.pread = m.pread /\ n.why = why
  BY <1>2, <1>3 DEF FsMoves
<1>5. PICK origin, off : /\ origin = (IF m.pread THEN m.from ELSE 0)
                       /\ off = IF nsent = IoFailed THEN f.off ELSE m.next
  OBVIOUS
<1>6. /\ m.from \in Nat /\ m.total \in Nat /\ origin \in Nat /\ m.next \in Nat /\ f.off \in Int
      /\ m.nread \in Nat /\ m.nwritten \in Nat /\ off \in Int
  BY <1>2, <1>5 DEF FsMoves, FsRequests
<1>7. /\ f.off = m.from /\ m.next = m.from + m.total /\ (m.nread = 0 => m.nwritten = 0)
      /\ m.moved = Span(origin + 1, origin + m.total + m.nwritten)
  BY <1>2, <1>5 DEF CopyStands
<1>8. fs' = FinishWork([fs EXCEPT !.off = off], nsent)
  <2>1. [f EXCEPT !.off = f.off] = f
    BY <1>2 DEF FsRequests
  <2>2. CASE nsent = IoFailed
    <3>1. fs' = FinishWork(fs, nsent) /\ off = f.off
      BY <1>5, <2>2 DEF SendEnd
    <3> QED BY <1>1, <2>1, <3>1
  <2>3. CASE nsent # IoFailed
    BY <1>1, <1>5, <2>3 DEF SendEnd
  <2> QED BY <2>2, <2>3
<1>9. \/ nsent = m.total /\ m.nread = 0 /\ n.why # "write"
      \/ nsent = IoFailed /\ (n.why # "write" => m.total = 0 /\ m.nread = 0)
  BY <1>1
<1>10. nsent >= IoFailed
  BY <1>6, <1>9 DEF IoFailed
<1>11. ASSUME fs'.kind = "sendfile" /\ fs'.result = nsent /\ fs'.off = off
       PROVE  ResultExact(fs', n)
  <2>1. PICK g : g = fs'
    OBVIOUS
  <2>2. g.kind = "sendfile" /\ g.result = nsent /\ g.off = off
    BY <1>11, <2>1
  <2>3. CASE nsent = m.total /\ m.nread = 0 /\ n.why # "write"
    <3>1. nsent # IoFailed
      BY <1>6, <2>3 DEF IoFailed
    <3>2. g.off = n.from + m.total /\ g.result = m.total
      BY <1>4, <1>5, <1>7, <2>2, <2>3, <3>1
    <3>3. origin + m.total + 0 = origin + m.total
      BY <1>6
    <3>4. n.moved = Span(origin + 1, origin + m.total)
      BY <1>4, <1>7, <2>3, <3>3
    <3>5. n.pread => origin = n.from
      BY <1>4, <1>5
    <3>6. n.from \in Nat
      BY <1>4, <1>6
    <3>7. ResultExact(g, n)
      BY ONLY <1>6, <2>2, <2>3, <3>2, <3>4, <3>5, <3>6, SentExact
    <3> QED BY <2>1, <3>7
  <2>4. CASE nsent = IoFailed /\ (n.why # "write" => m.total = 0 /\ m.nread = 0)
    <3>1. g.off = n.from
      BY <1>4, <1>5, <1>7, <2>2, <2>4
    <3>2. ASSUME n.why # "write" PROVE n.moved = <<>>
      <4>1. m.total = 0 /\ m.nwritten = 0
        BY <1>7, <2>4, <3>2
      <4>2. origin + 0 + 0 < origin + 1 /\ origin + 0 + 0 \in Int /\ origin + 1 \in Int
        BY <1>6
      <4>3. Span(origin + 1, origin + 0 + 0) = <<>>
        BY ONLY <4>2, NoSpan
      <4> QED BY <1>4, <1>7, <4>1, <4>3
    <3>3. ResultExact(g, n)
      BY <2>2, <2>4, <3>1, <3>2, NothingExact
    <3> QED BY <2>1, <3>3
  <2> QED BY <1>9, <2>3, <2>4
<1>12. /\ fs.kind = "sendfile" /\ fs.at \in {"work", "copy"} /\ io' \in FsMoves
       /\ io'.asked = io.asked /\ io'.from = io.from /\ UNCHANGED <<mem, bad>>
  BY <1>1, <1>2, <1>4
<1>13. fs'.kind = "sendfile" /\ fs'.result = nsent /\ fs'.off = off => ResultExact(fs', io')
  BY <1>1, <1>11
<1> HIDE <1>1
<1> QED BY <1>6, <1>8, <1>10, <1>12, <1>13, FsSent

\* A step of uv__fs_sendfile_emul that goes on.
LEMMA FsCopyOn ==
    ASSUME FsInv, fs.at = "copy", fs' = fs, io' \in FsMoves, io'.asked = io.asked,
           io'.from = io.from, CopyStands(fs, io'), UNCHANGED <<mem, bad>>
    PROVE  FsInv'
<1>1. fs.kind = "sendfile"
  BY DEF FsInv, RequestStands
<1>2. FsAsked(fs, io')
  BY <1>1 DEF FsInv, MovesStand, FsAsked, Transfers
<1>3. MovesStand(fs, io')
  BY <1>1, <1>2 DEF MovesStand
<1> QED BY <1>3 DEF FsInv

LEMMA FsSendRead ==
    ASSUME FsInv, FsAssumption, SendRead
    PROVE  FsInv'
<1> DEFINE here == IF io.pread THEN io.next ELSE io.pos
           most == Least(Least(io.asked - io.total, CopyLen), FileLen - here)
<1>1. /\ fs.at = "copy" /\ io.nread = 0 /\ io \in FsMoves /\ fs \in FsRequests
      /\ CopyStands(fs, io) /\ UNCHANGED <<mem, bad>> /\ io.from >= 0 /\ fs.kind = "sendfile"
  BY DEF SendRead, FsInv, RequestStands, MovesStand, FsAsked, Transfers
<1>2. PICK m, n : m = io /\ n = io'
  OBVIOUS
<1>3. /\ m \in FsMoves /\ m.asked \in Nat /\ m.total \in Nat /\ m.next \in Nat /\ m.pos \in Nat
      /\ m.from \in Nat /\ m.nread = 0 /\ m.nwritten = 0 /\ m.why = "none"
      /\ m.pread \in BOOLEAN
  BY <1>1, <1>2 DEF FsMoves, CopyStands
<1>4. most \in Int
  <2>1. here \in Int /\ m.asked - m.total \in Int
    BY <1>2, <1>3
  <2>2. CopyLen \in Int /\ FileLen \in Int
    BY DEF FsAssumption
  <2>3. PICK h, a : h = here /\ a = m.asked - m.total /\ h \in Int /\ a \in Int
    BY <2>1
  <2>4. Least(a, CopyLen) \in Int
    BY ONLY <2>2, <2>3 DEF Least
  <2>5. FileLen - h \in Int
    BY ONLY <2>2, <2>3
  <2>6. Least(Least(a, CopyLen), FileLen - h) \in Int
    BY ONLY <2>4, <2>5 DEF Least
  <2> QED BY <1>2, <2>3, <2>6
<1>5. CASE SendEnd(io.total) /\ io' = io
  <2>1. io' = [io EXCEPT !.why = io.why] /\ io.why \in {"none", "read", "write"}
    BY <1>1, <1>5 DEF FsMoves
  <2>2. io'.why # "write" /\ io.total \in Int
    BY <1>2, <1>3, <1>5
  <2> QED BY <1>1, <1>5, <2>1, <2>2, FsSendEnd
<1>6. ASSUME NEW k \in 1..most, fs' = fs,
             io' = [io EXCEPT !.nread = k, !.nwritten = 0, !.pos = IF io.pread THEN @ ELSE @ + k]
      PROVE  FsInv'
  <2>1. k \in Nat \ {0}
    BY <1>4
  <2>2. PICK pos : pos = IF m.pread THEN m.pos ELSE m.pos + k
    OBVIOUS
  <2>3. pos \in Nat
    BY ONLY <1>3, <2>1, <2>2
  <2>4. n = [m EXCEPT !.nread = k, !.nwritten = 0, !.pos = pos]
    BY <1>2, <1>6, <2>2
  <2>5. /\ n \in FsMoves /\ n.asked = m.asked /\ n.from = m.from /\ n.moved = m.moved
        /\ n.next = m.next /\ n.total = m.total /\ n.nread = k
        /\ n.nwritten = 0 /\ n.pread = m.pread /\ n.pos = pos /\ n.why = m.why
    BY <1>3, <2>1, <2>3, <2>4 DEF FsMoves
  <2>6. /\ fs.off = m.from /\ m.next = m.from + m.total /\ m.pos = (IF m.pread THEN 0 ELSE m.total + 0)
        /\ m.moved = Span((IF m.pread THEN m.from ELSE 0) + 1,
                          (IF m.pread THEN m.from ELSE 0) + m.total + 0)
    BY <1>1, <1>2, <1>3 DEF CopyStands
  <2>7. n.pos = IF n.pread THEN 0 ELSE n.total + n.nread
    BY ONLY <1>3, <2>1, <2>2, <2>5, <2>6
  <2>8. n.nread # 0 /\ n.nwritten < n.nread
    BY ONLY <2>1, <2>5
  <2>9. CopyStands(fs, n)
    BY ONLY <1>3, <2>5, <2>6, <2>7, <2>8 DEF CopyStands
  <2> QED BY <1>1, <1>2, <1>6, <2>5, <2>9, FsCopyOn
<1>7. CASE /\ io.pread /\ io.total = 0 /\ io' = [io EXCEPT !.pread = FALSE] /\ fs' = fs
  <2>1. n = [m EXCEPT !.pread = FALSE]
    BY <1>2, <1>7
  <2>2. /\ n \in FsMoves /\ n.asked = m.asked /\ n.from = m.from /\ n.moved = m.moved
        /\ n.next = m.next /\ n.total = m.total /\ n.nread = m.nread
        /\ n.nwritten = m.nwritten /\ n.pread = FALSE /\ n.pos = m.pos /\ n.why = m.why
    BY <1>3, <2>1 DEF FsMoves
  <2>3. /\ fs.off = m.from /\ m.next = m.from + m.total /\ m.pos = 0 /\ m.total = 0
        /\ m.moved = Span(m.from + 1, m.from + m.total + m.nwritten)
    BY <1>1, <1>2, <1>7 DEF CopyStands
  <2>4. Span(m.from + 1, m.from + 0 + 0) = <<>>
    <3>1. PICK a : a = m.from /\ a \in Nat
      BY <1>3
    <3>2. a + 0 + 0 < a + 1 /\ a + 0 + 0 \in Int /\ a + 1 \in Int
      BY ONLY <3>1
    <3>3. Span(a + 1, a + 0 + 0) = <<>>
      BY ONLY <3>2, NoSpan
    <3> QED BY <3>1, <3>3
  <2>5. Span(0 + 1, 0 + 0 + 0) = <<>>
    BY ONLY NoSpan
  <2>6. CopyStands(fs, n)
    <3>1. n.moved = Span(0 + 1, 0 + n.total + n.nwritten)
      BY <1>3, <2>2, <2>3, <2>4, <2>5
    <3>2. /\ fs.off = n.from /\ n.next = n.from + n.total /\ n.why = "none" /\ n.nread = 0
          /\ n.nwritten = 0 /\ n.pread = FALSE
      BY <1>3, <2>2, <2>3
    <3>3. n.pos = n.total + n.nread
      BY ONLY <1>3, <2>2, <2>3
    <3> QED BY ONLY <3>1, <3>2, <3>3 DEF CopyStands
  <2> QED BY <1>1, <1>2, <1>7, <2>2, <2>6, FsCopyOn
<1>8. CASE /\ SendEnd(IF io.total = 0 THEN IoFailed ELSE io.total)
           /\ io' = [io EXCEPT !.why = "read"]
  <2>1. PICK nsent : nsent = IF io.total = 0 THEN IoFailed ELSE io.total
    OBVIOUS
  <2>2. nsent \in Int /\ SendEnd(nsent)
    BY <1>2, <1>3, <1>8, <2>1 DEF IoFailed
  <2>3. io'.why = "read"
    BY <1>1, <1>8 DEF FsMoves
  <2>4. \/ nsent = io.total /\ io.nread = 0 /\ io'.why # "write"
        \/ nsent = IoFailed /\ (io'.why # "write" => io.total = 0 /\ io.nread = 0)
    BY <1>1, <2>1, <2>3
  <2>5. "read" \in {"none", "read", "write"}
    OBVIOUS
  <2> QED BY <1>1, <1>8, <2>2, <2>4, <2>5, FsSendEnd
<1> QED BY <1>5, <1>6, <1>7, <1>8 DEF SendRead

LEMMA FsSendWrite ==
    ASSUME FsInv, SendWrite
    PROVE  FsInv'
<1> DEFINE here == IF io.pread THEN io.next ELSE io.pos - io.nread
<1>1. /\ fs.at = "copy" /\ io.nread > 0 /\ io \in FsMoves /\ fs \in FsRequests
      /\ CopyStands(fs, io) /\ UNCHANGED <<mem, bad>> /\ io.from >= 0 /\ fs.kind = "sendfile"
  BY DEF SendWrite, FsInv, RequestStands, MovesStand, FsAsked, Transfers
<1>2. PICK m, n : m = io /\ n = io'
  OBVIOUS
<1>3. /\ m \in FsMoves /\ m.asked \in Nat /\ m.total \in Nat /\ m.next \in Nat /\ m.pos \in Nat
      /\ m.from \in Nat /\ m.nread \in Nat /\ m.nread > 0 /\ m.nwritten \in Nat /\ m.why = "none"
      /\ m.pread \in BOOLEAN /\ m.moved \in Seq(Int)
  BY <1>1, <1>2 DEF FsMoves, CopyStands
<1>4. PICK origin : origin = IF m.pread THEN m.from ELSE 0
  OBVIOUS
<1>5. /\ fs.off = m.from /\ m.next = m.from + m.total /\ m.nwritten < m.nread
      /\ m.pos = (IF m.pread THEN 0 ELSE m.total + m.nread)
      /\ m.moved = Span(origin + 1, origin + m.total + m.nwritten)
  BY <1>1, <1>2, <1>3, <1>4 DEF CopyStands
<1>6. PICK h : h = here
  OBVIOUS
<1>7. origin \in Nat /\ h = origin + m.total
  <2>1. h = IF m.pread THEN m.next ELSE m.pos - m.nread
    BY <1>2, <1>6
  <2> QED BY ONLY <1>3, <1>4, <1>5, <2>1
<1>8. ASSUME NEW k \in 1..(io.nread - io.nwritten), NEW wrote, wrote = io.nwritten + k,
             NEW out, out = io.moved \o Span(here + io.nwritten + 1, here + wrote),
             fs' = fs,
             io' = IF wrote < io.nread THEN [io EXCEPT !.nwritten = wrote, !.moved = out]
                   ELSE [io EXCEPT !.moved = out, !.next = @ + io.nread,
                                   !.total = @ + io.nread, !.nread = 0, !.nwritten = 0]
      PROVE  FsInv'
  <2>1. k \in Nat \ {0} /\ k <= m.nread - m.nwritten /\ wrote = m.nwritten + k
    BY <1>2, <1>3, <1>8
  <2>2. wrote \in Nat /\ wrote > m.nwritten /\ wrote <= m.nread
    BY ONLY <1>3, <2>1
  <2>3. out \in Seq(Int) /\ out = Span(origin + 1, origin + m.total + wrote)
    <3>1. PICK b, c, d : b = origin + 1 /\ c = origin + m.total + m.nwritten /\ d = origin + m.total + wrote
      OBVIOUS
    <3>2. b \in Int /\ c \in Int /\ d \in Int /\ b <= c + 1 /\ c <= d
      <4>1. PICK x, y : x = m.total /\ y = m.nwritten
        OBVIOUS
      <4>2. x \in Nat /\ y \in Nat /\ origin \in Nat /\ wrote \in Nat /\ y < wrote
        BY <1>3, <1>7, <2>2, <4>1
      <4>3. b = origin + 1 /\ c = origin + x + y /\ d = origin + x + wrote
        BY <3>1, <4>1
      <4> QED BY ONLY <4>2, <4>3
    <3>3. here + io.nwritten + 1 = c + 1 /\ here + wrote = d
      <4>1. h + m.nwritten + 1 = c + 1 /\ h + wrote = d
        BY ONLY <1>3, <1>7, <2>2, <3>1
      <4> QED BY <1>2, <1>6, <4>1
    <3>4. out = Span(b, c) \o Span(c + 1, d)
      BY <1>2, <1>5, <1>8, <3>1, <3>3
    <3>5. Span(b, c) \o Span(c + 1, d) = Span(b, d)
      BY ONLY <3>2, SpanJoins
    <3>6. Span(b, d) \in Seq(Int)
      BY ONLY <3>2, SpanFacts
    <3> QED BY <3>1, <3>4, <3>5, <3>6
  <2>4. CASE wrote < m.nread
    <3>1. n = [m EXCEPT !.nwritten = wrote, !.moved = out]
      BY <1>2, <1>8, <2>4
    <3>2. /\ n \in FsMoves /\ n.asked = m.asked /\ n.from = m.from /\ n.moved = out
          /\ n.next = m.next /\ n.total = m.total /\ n.nread = m.nread
          /\ n.nwritten = wrote /\ n.pread = m.pread /\ n.pos = m.pos /\ n.why = m.why
      BY <1>3, <2>2, <2>3, <3>1 DEF FsMoves
    <3>3. origin = IF n.pread THEN n.from ELSE 0
      BY <1>4, <3>2
    <3>4. n.nread # 0 /\ n.nwritten < n.nread
      BY ONLY <1>3, <2>4, <3>2
    <3>5. CopyStands(fs, n)
      BY ONLY <1>3, <1>5, <2>3, <3>2, <3>3, <3>4 DEF CopyStands
    <3> QED BY <1>1, <1>2, <1>8, <3>2, <3>5, FsCopyOn
  <2>5. CASE ~(wrote < m.nread)
    <3>0. wrote = m.nread
      BY ONLY <1>3, <2>2, <2>5
    <3>1. PICK on, total : on = m.next + m.nread /\ total = m.total + m.nread
      OBVIOUS
    <3>2. on \in Nat /\ total \in Nat
      BY ONLY <1>3, <3>1, SMTT(30)
    <3>3. n = [m EXCEPT !.moved = out, !.next = on, !.total = total, !.nread = 0, !.nwritten = 0]
      BY <1>2, <1>8, <2>5, <3>1
    <3>4. /\ n \in FsMoves /\ n.asked = m.asked /\ n.from = m.from /\ n.moved = out
          /\ n.next = on /\ n.total = total /\ n.nread = 0
          /\ n.nwritten = 0 /\ n.pread = m.pread /\ n.pos = m.pos /\ n.why = m.why
      BY <1>3, <2>3, <3>2, <3>3 DEF FsMoves
    <3>5. origin = IF n.pread THEN n.from ELSE 0
      BY <1>4, <3>4
    <3>6. n.next = n.from + n.total
      BY ONLY <1>3, <1>5, <3>1, <3>4
    <3>7. n.pos = IF n.pread THEN 0 ELSE n.total + n.nread
      <4>1. total + 0 = m.total + m.nread
        BY ONLY <1>3, <3>1
      <4> QED BY ONLY <1>5, <3>4, <4>1
    <3>8. origin + m.total + wrote = origin + n.total + n.nwritten
      BY ONLY <1>3, <1>7, <3>0, <3>1, <3>4, SMTT(30)
    <3>9. n.moved = Span(origin + 1, origin + n.total + n.nwritten)
      BY <2>3, <3>4, <3>8
    <3>10. CopyStands(fs, n)
      BY ONLY <1>3, <1>5, <3>4, <3>5, <3>6, <3>7, <3>9 DEF CopyStands
    <3> QED BY <1>1, <1>2, <1>8, <3>4, <3>10, FsCopyOn
  <2> QED BY <2>4, <2>5
<1>9. CASE SendEnd(IoFailed) /\ io' = [io EXCEPT !.why = "write"]
  <2>1. io'.why = "write" /\ IoFailed \in Int /\ "write" \in {"none", "read", "write"}
    BY <1>1, <1>9 DEF FsMoves, IoFailed
  <2> QED BY <1>1, <1>9, <2>1, FsSendEnd
<1> QED BY <1>8, <1>9 DEF SendWrite

----------------------------------------------------------------------------
(* After the work.                                                         *)

\* In the loop's thread: a request whose result stands is finished.
LEMMA FsDoneStep ==
    ASSUME FsInv, uv__fs_done
    PROVE  FsInv'
<1>1. PICK f, g, m, r : /\ f = fs /\ g = fs' /\ m = io
                        /\ r = IF f.canceled THEN Canceled ELSE f.result
  OBVIOUS
<1>2. /\ f \in FsRequests /\ RequestStands(f) /\ BlocksStand(f) /\ MovesStand(f, m)
      /\ f.at = "done" /\ mem = FsHeld(f)
  BY <1>1 DEF FsInv, MemStands, uv__fs_done
<1>3. g = [f EXCEPT !.at = "finished", !.reg = FALSE, !.result = r]
  BY <1>1 DEF uv__fs_done
<1>4. r \in Int
  BY <1>1, <1>2 DEF Canceled, FsRequests
<1>5. /\ g \in FsRequests /\ g.kind = f.kind /\ g.cb = f.cb /\ g.at = "finished" /\ g.reg = FALSE
      /\ g.result = r /\ g.ptr = f.ptr /\ g.path = f.path /\ g.bufs = f.bufs
      /\ g.nbufs = f.nbufs /\ g.off = f.off /\ g.canceled = f.canceled
  BY <1>2, <1>3, <1>4 DEF FsRequests, FsPlaces
<1>6. /\ f.canceled => f.result = 0 /\ f.ptr = "NULL" /\ r = Canceled
      /\ ~f.canceled => r = f.result /\ f.result # Canceled /\ f.result >= IoFailed
  BY <1>1, <1>2 DEF RequestStands, IoFailed, Canceled
<1>7. RequestStands(g)
  BY <1>5, <1>6 DEF RequestStands, Unfinished
<1>8. BlocksStand(g)
  BY <1>2, <1>5, <1>6 DEF BlocksStand, Unfinished
<1>9. FsHeld(g) = FsHeld(f)
  <2>1. (g.kind = "open" /\ g.result = NewFd) <=> (f.kind = "open" /\ f.result = NewFd)
    BY <1>5, <1>6 DEF NewFd, Canceled
  <2>2. f.ptr = "dents" => g.nbufs = f.nbufs /\ g.result = f.result
    BY <1>5, <1>6
  <2>3. g.at # "unmarked" /\ f.at # "unmarked"
    BY <1>2, <1>5
  <2>4. g.path = f.path /\ g.bufs = f.bufs /\ g.ptr = f.ptr
    BY <1>5
  <2> QED BY ONLY <2>1, <2>2, <2>3, <2>4, HeldSame
<1>10. MemStands(g, mem)
  BY <1>2, <1>9 DEF MemStands
<1>11. MovesStand(g, m)
  <2>1. FsAsked(f, m) => FsAsked(g, m)
    BY <1>5 DEF FsAsked
  <2>2. ~f.canceled /\ ResultExact(f, m) => ResultExact(g, m)
    BY <1>5, <1>6 DEF ResultExact
  <2> QED BY <1>2, <1>5, <2>1, <2>2 DEF MovesStand
<1>12. fs' = g /\ io' = m /\ mem' = mem /\ bad' = FALSE /\ m \in FsMoves
  BY <1>1 DEF uv__fs_done, FsInv
<1> QED BY <1>5, <1>7, <1>8, <1>10, <1>11, <1>12 DEF FsInv

LEMMA EntriesFacts ==
    ASSUME NEW a \in Int, NEW b \in Int, a <= b
    PROVE  /\ Entries(a, b) = {Entry(a)} \cup Entries(a + 1, b)
           /\ Entry(a) \notin Entries(a + 1, b)
           /\ \A x : x # "entry" => Block(x) \notin Entries(a, b)
<1>1. a..b = {a} \cup (a + 1)..b /\ a \notin (a + 1)..b
  OBVIOUS
<1>2. \A i, j : Entry(i) = Entry(j) <=> i = j
  BY BlockFacts
<1>3. Entries(a, b) = {Entry(a)} \cup Entries(a + 1, b)
  BY <1>1 DEF Entries
<1>4. Entry(a) \notin Entries(a + 1, b)
  BY <1>1, <1>2 DEF Entries
<1>5. ASSUME NEW x, x # "entry" PROVE Block(x) \notin Entries(a, b)
  BY <1>5, BlockFacts DEF Entries
<1> QED BY <1>3, <1>4, <1>5

LEMMA FsScandirNext ==
    ASSUME FsInv, uv_fs_scandir_next
    PROVE  FsInv'
<1> DEFINE before == IF fs.nbufs > 0 THEN {Entry(fs.nbufs)} ELSE {}
<1>1. PICK f, g, m, k, r : f = fs /\ g = fs' /\ m = io /\ k = fs.nbufs /\ r = fs.result
  OBVIOUS
<1>2. /\ f \in FsRequests /\ RequestStands(f) /\ BlocksStand(f) /\ MovesStand(f, m)
      /\ f.at = "finished" /\ f.kind = "scandir" /\ f.ptr = "dents" /\ mem = FsHeld(f)
  BY <1>1 DEF FsInv, MemStands, uv_fs_scandir_next
<1>3. /\ k \in Nat /\ r \in Int /\ r > 0 /\ k <= r /\ f.nbufs = k /\ f.result = r
      /\ f.bufs # "heap" /\ m \in FsMoves /\ io' = m /\ bad = FALSE
  BY <1>1, <1>2 DEF BlocksStand, FsRequests, Transfers, FsInv, uv_fs_scandir_next
<1>4. PICK p, left : /\ p = (IF f.path = "heap" THEN {Block("path")} ELSE {})
                     /\ left = EntriesLeft(f)
  OBVIOUS
<1>5. mem = p \cup {Block("dents")} \cup left
  BY <1>2, <1>3, <1>4 DEF FsHeld
<1>6. left = Entries(IF k = 0 THEN 1 ELSE k, r)
  BY <1>3, <1>4 DEF EntriesLeft
<1>7. /\ \A i : Block("path") # Entry(i) /\ Block("dents") # Entry(i)
      /\ Block("path") # Block("dents")
  BY BlockFacts
<1>8. CASE k = r
  <2>1. /\ g = [f EXCEPT !.ptr = "NULL"] /\ before = {Entry(r)}
        /\ Free(before \cup {Block("dents")})
    BY <1>1, <1>3, <1>8 DEF uv_fs_scandir_next
  <2>2. /\ g \in FsRequests /\ g.kind = f.kind /\ g.cb = f.cb /\ g.at = f.at /\ g.reg = f.reg
        /\ g.result = f.result /\ g.ptr = "NULL" /\ g.path = f.path /\ g.bufs = f.bufs
        /\ g.nbufs = f.nbufs /\ g.off = f.off /\ g.canceled = f.canceled
    BY <1>2, <2>1 DEF FsRequests
  <2>3. left = {Entry(r)}
    <3>1. Entries(r + 1, r) = {}
      <4>1. (r + 1)..r = {}
        BY <1>3
      <4> QED BY <4>1 DEF Entries
    <3>2. Entries(r, r) = {Entry(r)} \cup Entries(r + 1, r)
      BY ONLY <1>3, EntriesFacts
    <3> QED BY <1>3, <1>6, <1>8, <3>1, <3>2
  <2>4. mem' = p /\ bad' = FALSE
    <3>1. before \cup {Block("dents")} = {Entry(r), Block("dents")}
      BY <2>1
    <3>2. mem' = mem \ {Entry(r), Block("dents")} /\ bad' = ~({Entry(r), Block("dents")} \subseteq mem)
      BY <1>3, <2>1, <3>1 DEF Free
    <3> QED BY <1>4, <1>5, <1>7, <2>3, <3>2
  <2>5. FsHeld(g) = p
    BY <1>2, <1>3, <1>4, <2>2 DEF FsHeld
  <2>6. RequestStands(g)
    BY <1>2, <2>2 DEF RequestStands, Unfinished
  <2>7. BlocksStand(g)
    BY <1>2, <2>2 DEF BlocksStand, Unfinished
  <2>8. MemStands(g, p)
    BY <2>5 DEF MemStands
  <2>9. MovesStand(g, m)
    BY <1>2, <2>2 DEF MovesStand, Transfers
  <2>10. fs' = g /\ io' = m /\ mem' = p /\ bad' = FALSE
    BY <1>1, <1>3, <2>4
  <2> QED BY <1>3, <2>2, <2>6, <2>7, <2>8, <2>9, <2>10 DEF FsInv
<1>9. CASE k # r
  <2>1. /\ g = [f EXCEPT !.nbufs = k + 1] /\ mem' = mem \ before
        /\ bad' = (bad \/ ~((before \cup {Entry(k + 1)}) \subseteq mem))
    BY <1>1, <1>2, <1>9 DEF uv_fs_scandir_next, FsRequests
  <2>2. k + 1 \in Nat /\ k + 1 <= r /\ k + 1 # 0
    BY <1>3, <1>9
  <2>3. /\ g \in FsRequests /\ g.kind = f.kind /\ g.cb = f.cb /\ g.at = f.at /\ g.reg = f.reg
        /\ g.result = f.result /\ g.ptr = f.ptr /\ g.path = f.path /\ g.bufs = f.bufs
        /\ g.nbufs = k + 1 /\ g.off = f.off /\ g.canceled = f.canceled
    BY <1>2, <2>1, <2>2 DEF FsRequests
  <2>4. EntriesLeft(g) = Entries(k + 1, r)
    BY <1>3, <2>2, <2>3 DEF EntriesLeft
  <2>5. Entries(k + 1, r) = {Entry(k + 1)} \cup Entries(k + 1 + 1, r)
    BY ONLY <1>3, <2>2, EntriesFacts
  <2>6. before \cup {Entry(k + 1)} \subseteq left /\ Entries(k + 1, r) = left \ before
    <3>1. CASE k = 0
      <4>1. before = {} /\ k + 1 = 1
        BY <1>1, <3>1
      <4> QED BY <1>6, <2>5, <3>1, <4>1
    <3>2. CASE k # 0
      <4>1. before = {Entry(k)} /\ left = Entries(k, r)
        BY <1>1, <1>3, <1>6, <3>2
      <4>2. Entries(k, r) = {Entry(k)} \cup Entries(k + 1, r) /\ Entry(k) \notin Entries(k + 1, r)
        BY ONLY <1>3, EntriesFacts
      <4> QED BY ONLY <2>5, <4>1, <4>2
    <3> QED BY <3>1, <3>2
  <2>7. bad' = FALSE
    BY <1>3, <1>5, <2>1, <2>6
  <2>8. mem' = p \cup {Block("dents")} \cup Entries(k + 1, r)
    <3>1. Block("dents") \notin before /\ p \cap before = {}
      BY <1>4, <1>7
    <3> HIDE DEF before
    <3> QED BY ONLY <1>5, <2>1, <2>6, <3>1
  <2>9. FsHeld(g) = mem'
    BY <1>2, <1>3, <1>4, <2>3, <2>4, <2>8 DEF FsHeld
  <2>10. RequestStands(g)
    BY <1>2, <2>3 DEF RequestStands, Unfinished
  <2>11. BlocksStand(g)
    BY <1>2, <1>3, <2>2, <2>3 DEF BlocksStand, Unfinished, Transfers
  <2>12. MemStands(g, mem')
    BY <2>9 DEF MemStands
  <2>13. MovesStand(g, m)
    BY <1>2, <2>3 DEF MovesStand, Transfers
  <2>14. fs' = g /\ io' = m /\ bad' = FALSE
    BY <1>1, <1>3, <2>7
  <2> QED BY <1>3, <2>3, <2>10, <2>11, <2>12, <2>13, <2>14 DEF FsInv
<1> QED BY <1>8, <1>9

\* The clean-up frees all but the buffers of a cancelled transfer, an open
\* descriptor and perhaps the entry fetched last.
LEMMA FsCleanupStep ==
    ASSUME FsInv, uv_fs_req_cleanup
    PROVE  FsInv'
<1>1. PICK f, g, m : f = fs /\ g = fs' /\ m = io
  OBVIOUS
<1>2. /\ f \in FsRequests /\ RequestStands(f) /\ BlocksStand(f) /\ MovesStand(f, m)
      /\ f.at = "finished" /\ mem = FsHeld(f) /\ m \in FsMoves /\ bad = FALSE /\ io' = m
  BY <1>1 DEF FsInv, MemStands, uv_fs_req_cleanup
<1>3. PICK path, dents, ptr :
        /\ path = (IF f.path # "NULL" /\ (f.cb \/ f.kind = "mkdtemp") THEN {Block("path")} ELSE {})
        /\ dents = (IF f.kind = "scandir" /\ f.ptr # "NULL" THEN uv__fs_scandir_cleanup(f) ELSE {})
        /\ ptr = (IF f.ptr = "heap" THEN {Block("ptr")} ELSE {})
  OBVIOUS
<1>4. /\ Free(path \cup dents \cup ptr)
      /\ g = [f EXCEPT !.at = "idle", !.path = "NULL", !.ptr = "NULL"]
  BY <1>1, <1>3 DEF uv_fs_req_cleanup
<1>5. /\ g \in FsRequests /\ g.kind = f.kind /\ g.cb = f.cb /\ g.at = "idle" /\ g.reg = f.reg
      /\ g.result = f.result /\ g.ptr = "NULL" /\ g.path = "NULL" /\ g.bufs = f.bufs
      /\ g.nbufs = f.nbufs /\ g.off = f.off /\ g.canceled = f.canceled
  BY <1>2, <1>4 DEF FsRequests, FsPlaces
<1>6. PICK bufs, fd, left :
        /\ bufs = (IF f.bufs = "heap" THEN {Block("bufs")} ELSE {})
        /\ fd = (IF f.kind = "open" /\ f.result = NewFd THEN {Block("fd")} ELSE {})
        /\ left = (IF f.ptr = "dents" THEN {Block("dents")} \cup EntriesLeft(f) ELSE {})
  OBVIOUS
<1>7. path = IF f.path = "heap" THEN {Block("path")} ELSE {}
  <2>1. /\ f.path = IF f.kind = "mkdtemp" \/ (f.cb /\ f.kind \in CopiesPath) THEN "heap"
                    ELSE IF f.kind \in CopiesPath THEN "user" ELSE "NULL"
        /\ f.cb \in BOOLEAN
    BY <1>2 DEF BlocksStand, FsRequests
  <2>2. f.path = "heap" <=> f.path # "NULL" /\ (f.cb \/ f.kind = "mkdtemp")
    BY <2>1 DEF CopiesPath
  <2> QED BY <1>3, <2>2
<1>8. FsHeld(f) = path \cup bufs \cup ptr \cup left \cup fd
  <2>1. f.at # "unmarked"
    BY <1>2
  <2> QED BY ONLY <1>3, <1>6, <1>7, <2>1 DEF FsHeld
<1>9. FsHeld(g) = bufs \cup fd
  BY <1>5, <1>6 DEF FsHeld
<1>10. /\ dents \subseteq left
       /\ \/ left \ dents = {}
          \/ /\ f.kind = "scandir" /\ f.result > 0 /\ f.nbufs = f.result
             /\ left \ dents = {Entry(f.result)}
  <2>1. CASE f.ptr = "dents"
    <3>1. PICK k, r : k = f.nbufs /\ r = f.result
      OBVIOUS
    <3>2. f.kind = "scandir" /\ k \in Nat /\ r \in Int /\ r > 0 /\ k <= r
      BY <1>2, <2>1, <3>1 DEF BlocksStand, FsRequests
    <3>3. /\ left = {Block("dents")} \cup Entries(IF k = 0 THEN 1 ELSE k, r)
          /\ dents = Entries(IF k > 0 /\ k # r THEN k ELSE k + 1, r) \cup {Block("dents")}
      BY <1>3, <1>6, <2>1, <3>1, <3>2 DEF EntriesLeft, uv__fs_scandir_cleanup
    <3>4. CASE k # r
      <4>1. (IF k > 0 /\ k # r THEN k ELSE k + 1) = (IF k = 0 THEN 1 ELSE k)
        BY ONLY <3>2, <3>4
      <4> QED BY <3>3, <4>1
    <3>5. CASE k = r
      <4>1. dents = Entries(r + 1, r) \cup {Block("dents")} /\ left = {Block("dents")} \cup Entries(r, r)
        BY <3>2, <3>3, <3>5
      <4>2. Entries(r + 1, r) = {}
        <5>1. (r + 1)..r = {}
          BY <3>2
        <5> QED BY <5>1 DEF Entries
      <4>3. Entries(r, r) = {Entry(r)} \cup Entries(r + 1, r)
        BY ONLY <3>2, EntriesFacts
      <4>4. Block("dents") # Entry(r)
        BY BlockFacts
      <4>5. dents \subseteq left /\ left \ dents = {Entry(r)}
        BY ONLY <4>1, <4>2, <4>3, <4>4
      <4> QED BY <3>1, <3>2, <3>5, <4>5
    <3> QED BY <3>4, <3>5
  <2>2. CASE f.ptr # "dents"
    <3>1. ~(f.kind = "scandir" /\ f.ptr # "NULL")
      BY <1>2, <2>2 DEF BlocksStand
    <3> QED BY <1>3, <1>6, <2>2, <3>1
  <2> QED BY <2>1, <2>2
<1>11. mem' = FsHeld(f) \ (path \cup dents \cup ptr) /\ bad' = FALSE
  BY <1>2, <1>4, <1>8, <1>10 DEF Free
<1>12. (bufs \cup fd) \cap (path \cup left \cup ptr) = {}
  <2>1. \A i : Block("bufs") # Entry(i) /\ Block("fd") # Entry(i)
    BY BlockFacts
  <2>2. /\ Block("bufs") \notin {Block("path"), Block("ptr"), Block("dents")}
        /\ Block("fd") \notin {Block("path"), Block("ptr"), Block("dents")}
    BY BlockFacts
  <2>3. Block("bufs") \notin EntriesLeft(f) /\ Block("fd") \notin EntriesLeft(f)
    BY <2>1 DEF EntriesLeft, Entries
  <2>4. bufs \cup fd \subseteq {Block("bufs"), Block("fd")}
    BY <1>6
  <2>5. path \cup left \cup ptr \subseteq {Block("path"), Block("ptr"), Block("dents")} \cup EntriesLeft(f)
    BY <1>3, <1>6
  <2> QED BY ONLY <2>2, <2>3, <2>4, <2>5
<1>13. left \cap (path \cup ptr) = {}
  <2>1. \A i : Block("path") # Entry(i) /\ Block("ptr") # Entry(i)
    BY BlockFacts
  <2>2. Block("path") # Block("dents") /\ Block("ptr") # Block("dents")
    BY BlockFacts
  <2>3. Block("path") \notin EntriesLeft(f) /\ Block("ptr") \notin EntriesLeft(f)
    BY <2>1 DEF EntriesLeft, Entries
  <2> QED BY <1>3, <1>6, <2>2, <2>3
<1>14. mem' = bufs \cup fd \cup (left \ dents)
  BY ONLY <1>8, <1>10, <1>11, <1>12, <1>13
<1>15. MemStands(g, mem')
  <2>1. CASE left \ dents = {}
    BY <1>9, <1>14, <2>1 DEF MemStands
  <2>2. CASE /\ f.kind = "scandir" /\ f.result > 0 /\ f.nbufs = f.result
             /\ left \ dents = {Entry(f.result)}
    BY <1>5, <1>9, <1>14, <2>2 DEF MemStands
  <2> QED BY <1>10, <2>1, <2>2
<1>16. RequestStands(g)
  BY <1>2, <1>5 DEF RequestStands, Unfinished
<1>17. BlocksStand(g)
  BY <1>2, <1>5 DEF BlocksStand, Unfinished
<1>18. MovesStand(g, m)
  BY <1>5 DEF MovesStand
<1>19. fs' = g /\ io' = m /\ bad' = FALSE
  BY <1>1, <1>2, <1>11
<1> QED BY <1>2, <1>5, <1>15, <1>16, <1>17, <1>18, <1>19 DEF FsInv

----------------------------------------------------------------------------
(* The theorems about file system requests.                                *)

LEMMA FsCallStep ==
    ASSUME FsInv, FsAssumption, NEW cb \in BOOLEAN,
           \/ uv_fs_access(cb) \/ uv_fs_chmod(cb) \/ uv_fs_chown(cb) \/ uv_fs_link(cb)
           \/ uv_fs_mkdir(cb) \/ uv_fs_open(cb) \/ uv_fs_rename(cb) \/ uv_fs_rmdir(cb)
           \/ uv_fs_symlink(cb) \/ uv_fs_unlink(cb) \/ uv_fs_utime(cb) \/ uv_fs_fchmod(cb)
           \/ uv_fs_fchown(cb) \/ uv_fs_fdatasync(cb) \/ uv_fs_fsync(cb) \/ uv_fs_ftruncate(cb)
           \/ uv_fs_futime(cb) \/ uv_fs_close(cb) \/ uv_fs_fstat(cb) \/ uv_fs_stat(cb)
           \/ uv_fs_lstat(cb) \/ uv_fs_mkdtemp(cb) \/ uv_fs_scandir(cb) \/ uv_fs_readlink(cb)
           \/ uv_fs_realpath(cb) \/ uv_fs_read(cb) \/ uv_fs_write(cb) \/ uv_fs_sendfile(cb)
    PROVE  FsInv'
<1> DEFINE others == FsKinds \ (Transfers \cup {"sendfile"})
<1>1. \/ \E kind \in others : Post(kind, cb, 0, 0)
      \/ \E kind \in Transfers, n \in 1..MaxBufs, off \in {-1, 0} : Post(kind, cb, n, off)
      \/ \E n \in 0..FileLen, off \in {0, 1} : Post("sendfile", cb, n, off)
  <2>1. /\ {"path", "file", "open", "close", "fstat", "stat", "mkdtemp", "scandir", "readlink"}
             \subseteq others
        /\ {"read", "write"} \subseteq Transfers
    BY DEF FsKinds, CopiesPath, Transfers
  <2>2. CASE uv_fs_read(cb) \/ uv_fs_write(cb) \/ uv_fs_sendfile(cb)
    BY <2>1, <2>2 DEF uv_fs_read, uv_fs_write, uv_fs_sendfile
  <2>3. CASE \/ uv_fs_access(cb) \/ uv_fs_chmod(cb) \/ uv_fs_chown(cb) \/ uv_fs_link(cb)
             \/ uv_fs_mkdir(cb) \/ uv_fs_rename(cb) \/ uv_fs_rmdir(cb)
             \/ uv_fs_symlink(cb) \/ uv_fs_unlink(cb) \/ uv_fs_utime(cb)
    <3>1. Post("path", cb, 0, 0)
      BY <2>3 DEF uv_fs_access, uv_fs_chmod, uv_fs_chown, uv_fs_link, uv_fs_mkdir, uv_fs_rename,
                  uv_fs_rmdir, uv_fs_symlink, uv_fs_unlink, uv_fs_utime
    <3> QED BY <2>1, <3>1
  <2>4. CASE \/ uv_fs_fchmod(cb) \/ uv_fs_fchown(cb) \/ uv_fs_fdatasync(cb) \/ uv_fs_fsync(cb)
             \/ uv_fs_ftruncate(cb) \/ uv_fs_futime(cb)
    <3>1. Post("file", cb, 0, 0)
      BY <2>4 DEF uv_fs_fchmod, uv_fs_fchown, uv_fs_fdatasync, uv_fs_fsync, uv_fs_ftruncate,
                  uv_fs_futime
    <3> QED BY <2>1, <3>1
  <2>5. CASE \/ uv_fs_open(cb) \/ uv_fs_close(cb) \/ uv_fs_fstat(cb) \/ uv_fs_stat(cb)
             \/ uv_fs_lstat(cb) \/ uv_fs_mkdtemp(cb) \/ uv_fs_scandir(cb) \/ uv_fs_readlink(cb)
             \/ uv_fs_realpath(cb)
    <3>1. \E kind \in {"open", "close", "fstat", "stat", "mkdtemp", "scandir", "readlink"} :
            Post(kind, cb, 0, 0)
      BY <2>5 DEF uv_fs_open, uv_fs_close, uv_fs_fstat, uv_fs_stat, uv_fs_lstat, uv_fs_mkdtemp,
                  uv_fs_scandir, uv_fs_readlink, uv_fs_realpath
    <3> QED BY <2>1, <3>1
  <2> QED BY <2>2, <2>3, <2>4, <2>5
<1>2. ASSUME NEW kind \in others, Post(kind, cb, 0, 0) PROVE FsInv'
  <2>1. kind \in FsKinds /\ kind \notin Transfers /\ kind # "sendfile" /\ 0 \in Nat /\ 0 \in Int
    OBVIOUS
  <2> HIDE DEF others
  <2> QED BY <1>2, <2>1, FsPostStep
<1>3. ASSUME NEW kind \in Transfers, NEW n \in 1..MaxBufs, NEW off \in {-1, 0},
             Post(kind, cb, n, off)
      PROVE  FsInv'
  <2>1. kind \in FsKinds /\ kind # "sendfile" /\ kind # "scandir" /\ off \in Int
    BY DEF FsKinds, Transfers
  <2>2. n \in Nat
    BY DEF FsAssumption
  <2> QED BY <1>3, <2>1, <2>2, FsPostStep
<1>4. ASSUME NEW n \in 0..FileLen, NEW off \in {0, 1}, Post("sendfile", cb, n, off)
      PROVE  FsInv'
  <2>1. "sendfile" \in FsKinds /\ "sendfile" \notin Transfers /\ off \in Int /\ off >= 0
    BY DEF FsKinds, Transfers
  <2>2. n \in Nat
    BY DEF FsAssumption
  <2> QED BY <1>4, <2>1, <2>2, FsPostStep
<1> QED BY <1>1, <1>2, <1>3, <1>4

\* FsInv holds in every reachable state.
THEOREM FsInductive == FsSpec => []FsInv
<1>1. FsInit => FsInv
  <2> SUFFICES ASSUME FsInit PROVE FsInv
    OBVIOUS
  <2>1. PICK f, m : f = NewReq("path", FALSE, 0, 0) /\ m = NewIo(0, 0)
    OBVIOUS
  <2>2. /\ f \in FsRequests /\ f.kind = "path" /\ f.cb = FALSE /\ f.at = "idle" /\ f.reg = FALSE
        /\ f.result = 0 /\ f.ptr = "NULL" /\ f.path = "NULL" /\ f.bufs = "NULL" /\ f.nbufs = 0
        /\ f.canceled = FALSE
    BY <2>1 DEF NewReq, FsRequests, FsPlaces, FsKinds, CopiesPath
  <2>3. m \in FsMoves
    BY <2>1 DEF NewIo, FsMoves
  <2>4. RequestStands(f)
    BY <2>2 DEF RequestStands, Unfinished, Canceled
  <2>5. BlocksStand(f)
    BY <2>2 DEF BlocksStand, Unfinished
  <2>6. FsHeld(f) = {}
    BY <2>2 DEF FsHeld, NewFd
  <2>7. MemStands(f, {}) /\ MovesStand(f, m)
    BY <2>2, <2>6 DEF MemStands, MovesStand
  <2>8. fs = f /\ io = m /\ mem = {} /\ bad = FALSE
    BY <2>1 DEF FsInit
  <2> QED BY <2>2, <2>3, <2>4, <2>5, <2>7, <2>8 DEF FsInv
<1>2. FsInv /\ [FsNext]_fsVars => FsInv'
  <2> SUFFICES ASSUME FsInv, [FsNext]_fsVars PROVE FsInv'
    OBVIOUS
  <2>0. FsAssumption
    BY FsAssumption
  <2>1. CASE uv_cancel
    BY <2>1, FsCancelStep
  <2>2. CASE Run
    BY <2>2, FsRunStep
  <2>3. CASE uv__fs_work \/ uv__fs_stat \/ uv__fs_readlink \/ uv__fs_scandir
    BY <2>0, <2>3, FsWorkStep
  <2>4. CASE uv__fs_open \/ uv__cloexec
    BY <2>4, FsOpenStep
  <2>5. CASE IterBegin
    BY <2>5, FsIterBegin
  <2>6. CASE uv__fs_buf_iter
    BY <2>0, <2>6, FsIterStep
  <2>7. CASE uv__fs_sendfile
    BY <2>0, <2>7, FsSendfileStep
  <2>8. CASE uv__fs_sendfile_emul
    BY <2>0, <2>8, FsSendRead, FsSendWrite DEF uv__fs_sendfile_emul
  <2>9. CASE uv__fs_done
    BY <2>9, FsDoneStep
  <2>10. CASE uv_fs_scandir_next
    BY <2>10, FsScandirNext
  <2>11. CASE uv_fs_req_cleanup
    BY <2>11, FsCleanupStep
  <2>12. CASE UNCHANGED fsVars
    BY <2>12 DEF fsVars, FsInv
  <2> QED BY <2>0, <2>1, <2>2, <2>3, <2>4, <2>5, <2>6, <2>7, <2>8, <2>9, <2>10, <2>11, <2>12,
            FsCallStep DEF FsNext
<1> QED BY <1>1, <1>2, PTL DEF FsSpec

\* No request frees anything twice or uses it after it was freed; one that is
\* cleaned up leaves only what FsMemory names; the loop counts it while it
\* owes its callback; and what a transfer reports is what it moved.
THEOREM FsCorrect == FsSpec => []FsRight
<1>1. FsInv => FsRight
  <2> SUFFICES ASSUME FsInv PROVE FsRight
    OBVIOUS
  <2>1. PICK f, m : f = fs /\ m = io
    OBVIOUS
  <2>2. /\ f \in FsRequests /\ m \in FsMoves /\ bad = FALSE /\ RequestStands(f) /\ BlocksStand(f)
        /\ MemStands(f, mem) /\ MovesStand(f, m)
    BY <2>1 DEF FsInv
  <2>3. FsMemory
    <3>1. ASSUME f.at = "idle"
          PROVE  mem = (IF f.kind \in Transfers /\ f.result = Canceled /\ f.nbufs > SmlBufs
                        THEN {Block("bufs")} ELSE {})
                       \cup (IF f.kind = "scandir" /\ f.result > 0 /\ f.nbufs = f.result
                             THEN mem \cap {Entry(f.result)} ELSE {})
                       \cup (IF f.kind = "open" /\ f.result = NewFd THEN {Block("fd")} ELSE {})
      <4>1. f.path = "NULL" /\ f.ptr = "NULL"
        BY <2>2, <3>1 DEF BlocksStand
      <4>2. f.bufs = "heap" <=> f.kind \in Transfers /\ f.result = Canceled /\ f.nbufs > SmlBufs
        BY <2>2, <3>1 DEF BlocksStand, RequestStands
      <4>3. FsHeld(f) = (IF f.bufs = "heap" THEN {Block("bufs")} ELSE {})
                        \cup (IF f.kind = "open" /\ f.result = NewFd THEN {Block("fd")} ELSE {})
        BY <3>1, <4>1 DEF FsHeld
      <4>4. f.kind = "scandir" => FsHeld(f) = {}
        BY <4>2, <4>3 DEF Transfers
      <4>5. CASE mem = FsHeld(f)
        BY <4>2, <4>3, <4>4, <4>5
      <4>6. CASE /\ f.kind = "scandir" /\ f.result > 0 /\ f.nbufs = f.result
                 /\ mem = FsHeld(f) \cup {Entry(f.result)}
        BY <4>2, <4>3, <4>4, <4>6
      <4> QED BY <2>2, <4>5, <4>6 DEF MemStands
    <3> QED BY <2>1, <2>2, <3>1 DEF FsMemory
  <2>4. FsCounted
    BY <2>1, <2>2 DEF FsCounted, RequestStands
  <2>5. FsExact
    <3> SUFFICES ASSUME f.at = "finished", f.kind \in Transfers \cup {"sendfile"}, ~f.canceled,
                        ResultExact(f, m)
                 PROVE  FsExact
      BY <2>1, <2>2 DEF MovesStand, FsExact
    <3> QED BY <2>1 DEF FsExact, ResultExact, Rising
  <2> QED BY <2>3, <2>4, <2>5 DEF FsRight
<1> QED BY <1>1, FsInductive, PTL

----------------------------------------------------------------------------
(* uv_spawn.                                                               *)

SpawnPlaces == {"idle", "init", "fork", "move", "place", "close", "exec", "streams",
                "returned", "abort"}

Tables == UNION {[D -> Int] : D \in SUBSET Nat}
Children == [tab : Tables, cloexec : SUBSET Nat, use : [Slots -> Int]]

SpawnRecords ==
    [open : SUBSET Nat, kind : [Slots -> Int], at : SpawnPlaces, slot : Slots,
     par : [Slots -> Int], use : [Slots -> Int], signal : [r : Int, w : Int],
     fds : SUBSET Nat, owned : SUBSET Nat, err : BOOLEAN, ran : BOOLEAN, stray : BOOLEAN,
     child : Children]

InChild == {"move", "place", "close", "exec"}

\* What is asked for.
CallStands(s) ==
    /\ s \in SpawnRecords /\ IsFiniteSet(s.open) /\ IsFiniteSet(s.fds)
    /\ s.kind \in [Slots -> s.open \cup {Ignore, Pipe}]

\* The ends of the pipe of slot i.
Ends(s, i) == {s.par[i], s.use[i]}

\* The slots below n have what was asked for; the ends are all different and
\* none is one of the caller's.
PipesStand(s, n) ==
    /\ \A i \in Slots : s.kind[i] # Pipe \/ i >= n =>
          s.par[i] = Unset /\ s.use[i] = IF s.kind[i] = Ignore \/ i >= n THEN Unset ELSE s.kind[i]
    /\ \A i \in PipeSlots(s) : i < n =>
          Ends(s, i) \in SUBSET (Nat \ s.open) /\ s.par[i] # s.use[i]
    /\ \A i, j \in PipeSlots(s) : i < j /\ j < n => Ends(s, i) \cap Ends(s, j) = {}

\* The pipe for the error number is different from the others.
SignalStands(s) ==
    /\ {s.signal.r, s.signal.w} \in SUBSET (Nat \ s.open) /\ s.signal.r # s.signal.w
    /\ \A i \in PipeSlots(s) : {s.signal.r, s.signal.w} \cap Ends(s, i) = {}

EndsBelow(s, n) == UNION {Ends(s, i) : i \in {j \in PipeSlots(s) : j < n}}
ParsBelow(s, n) == {s.par[i] : i \in {j \in PipeSlots(s) : j < n}}

\* What the parent has open besides the caller's descriptors.
ParentStands(s) ==
    /\ ~s.stray
    /\ s.at \in {"idle", "init", "fork"} \cup InChild => s.owned = {} /\ ~s.ran
    /\ s.at = "init" => PipesStand(s, s.slot) /\ s.fds = s.open \cup EndsBelow(s, s.slot)
    /\ s.at \in {"fork", "streams"} \cup InChild => PipesStand(s, StdioCount)
    /\ s.at = "fork" => s.slot = 0 /\ s.fds = s.open \cup EndsBelow(s, StdioCount)
    /\ s.at \in InChild =>
         /\ SignalStands(s)
         /\ s.fds = s.open \cup EndsBelow(s, StdioCount) \cup {s.signal.r}
    /\ s.at = "streams" =>
         /\ s.fds = s.open \cup (EndsBelow(s, StdioCount) \ {s.use[i] : i \in {j \in PipeSlots(s) : j < s.slot}})
         /\ s.owned = ParsBelow(s, s.slot)
    /\ s.at = "returned" =>
         /\ s.fds = s.open \cup s.owned
         /\ s.ran => s.owned = ParsBelow(s, StdioCount)

\* The child c when the slots below m have been looked at by the first loop,
\* those below p by the second and those below k by the third.  What each
\* slot uses, and that it has the file the slot is to hold:
ChildUses(s, c, m, p) ==
    /\ c \in Children /\ IsFiniteSet(DOMAIN c.tab)
    /\ \A i \in Slots :
         /\ s.kind[i] = Ignore => c.use[i] = Unset
         /\ s.kind[i] # Ignore => c.use[i] \in Nat /\ (i < m => c.use[i] >= i)
         /\ s.kind[i] # Ignore /\ i >= p =>
              c.use[i] \in DOMAIN c.tab /\ c.tab[c.use[i]] = Wanted(s, i)

\* the slots that are done:
ChildPlaced(s, c, p) ==
    \A i \in Filled(s) : i < p => i \in DOMAIN c.tab /\ c.tab[i] = Wanted(s, i) /\ i \notin c.cloexec

\* why any other descriptor is open:
Accounted(s, c, k, f) ==
    \/ f \in c.cloexec
    \/ f \in s.open \ Private /\ c.tab[f] = f
    \/ f >= StdioCount /\ \E i \in Slots : i >= k /\ c.use[i] = f
    \/ f \in Slots /\ c.tab[f] = DevNull

ChildRest(s, c, p, k) ==
    \A f \in DOMAIN c.tab : (f \in Filled(s) /\ f < p) \/ Accounted(s, c, k, f)

\* and that no slot takes the pipe for the error number or a parent's end.
ChildPipes(s, c, m) ==
    /\ s.signal.w \in Filled(s) \/ (s.signal.w \in DOMAIN c.tab /\ c.tab[s.signal.w] = s.signal.w)
    /\ \A i \in Slots : c.use[i] # s.signal.w /\ s.par[i] # s.signal.w
    /\ \A i, j \in Slots : s.par[i] # Unset => s.par[i] # c.use[j]
    /\ m < StdioCount =>
         s.signal.w \in DOMAIN c.tab /\ \A i \in Slots : s.par[i] # Unset => s.par[i] \in DOMAIN c.tab

ChildStands(s, c, m, p, k) ==
    ChildUses(s, c, m, p) /\ ChildPlaced(s, c, p) /\ ChildRest(s, c, p, k) /\ ChildPipes(s, c, m)

ChildAt(s) ==
    /\ s.at = "move" => ChildStands(s, s.child, s.slot, 0, 0)
    /\ s.at = "place" => ChildStands(s, s.child, StdioCount, s.slot, 0)
    /\ s.at = "close" => ChildStands(s, s.child, StdioCount, StdioCount, s.slot)
    /\ s.at = "exec" => ChildStands(s, s.child, StdioCount, StdioCount, StdioCount)

\* What is known of the child's end.
OutcomeStands(s) ==
    /\ s.ran => ChildFilled(s)
    /\ s.at \in {"streams", "returned"} =>
         /\ s.ran => ~s.err
         /\ s.err \/ s.ran \/ s.signal.w \in Filled(s)

SpawnStands(s) == CallStands(s) /\ ParentStands(s) /\ ChildAt(s) /\ OutcomeStands(s)

\* The inductive invariant of uv_spawn.
SpawnInv == SpawnStands(spawn)
----------------------------------------------------------------------------
(* What the operators on descriptors do, and the loops of the child.       *)

\* There is a lowest free number.
LEMMA LowestFacts ==
    ASSUME NEW D \in SUBSET Nat, IsFiniteSet(D), NEW a \in Nat
    PROVE  Lowest(D, a) \in Nat /\ Lowest(D, a) >= a /\ Lowest(D, a) \notin D
<1> DEFINE K == Cardinality(D)
           Unused == (a..(a + K)) \ D
<1>1. K \in Nat
  BY FS_CardinalityType
<1>2. Unused # {}
  <2> SUFFICES ASSUME a..(a + K) \subseteq D PROVE FALSE
    OBVIOUS
  <2>1. Cardinality(a..(a + K)) = K + 1
    BY <1>1, FS_Interval
  <2>2. Cardinality(a..(a + K)) <= K
    BY FS_Subset
  <2> QED BY <1>1, <2>1, <2>2
<1>3. Unused \in SUBSET Nat
  BY <1>1
<1>4. PICK f \in Unused : \A g \in Unused : f <= g
  BY <1>2, <1>3, LeastNatural
<1>5. f \in a..(a + K) /\ f \notin D /\ \A g \in a..(f - 1) : g \in D
  BY <1>1, <1>4
<1>6. \E x \in a..(a + K) : x \notin D /\ \A g \in a..(x - 1) : g \in D
  BY <1>5
<1>7. Lowest(D, a) \in a..(a + K) /\ Lowest(D, a) \notin D
  BY <1>6 DEF Lowest
<1> QED BY <1>1, <1>7

\* What dup2 and close do to a table.
LEMMA PutFacts ==
    ASSUME NEW t \in Tables, IsFiniteSet(DOMAIN t), NEW f \in Nat, NEW x \in Int
    PROVE  /\ Put(t, f, x) \in Tables /\ DOMAIN Put(t, f, x) = DOMAIN t \cup {f}
           /\ IsFiniteSet(DOMAIN Put(t, f, x)) /\ Put(t, f, x)[f] = x
           /\ \A g \in DOMAIN t : g # f => Put(t, f, x)[g] = t[g]
<1>1. DOMAIN t \in SUBSET Nat /\ \A g \in DOMAIN t : t[g] \in Int
  BY DEF Tables
<1>2. Put(t, f, x) \in [DOMAIN t \cup {f} -> Int]
  BY <1>1 DEF Put
<1>3. DOMAIN t \cup {f} \in SUBSET Nat
  BY <1>1
<1>4. Put(t, f, x) \in Tables
  BY <1>2, <1>3 DEF Tables
<1>5. IsFiniteSet(DOMAIN t \cup {f})
  BY FS_AddElement
<1>6. DOMAIN Put(t, f, x) = DOMAIN t \cup {f} /\ Put(t, f, x)[f] = x
      /\ \A g \in DOMAIN t : g # f => Put(t, f, x)[g] = t[g]
  BY DEF Put
<1> QED BY <1>4, <1>5, <1>6

LEMMA DropFacts ==
    ASSUME NEW t \in Tables, IsFiniteSet(DOMAIN t), NEW f
    PROVE  /\ Drop(t, f) \in Tables /\ DOMAIN Drop(t, f) = DOMAIN t \ {f}
           /\ IsFiniteSet(DOMAIN Drop(t, f))
           /\ \A g \in DOMAIN t : g # f => Drop(t, f)[g] = t[g]
<1>1. DOMAIN t \in SUBSET Nat /\ \A g \in DOMAIN t : t[g] \in Int
  BY DEF Tables
<1>2. Drop(t, f) \in [DOMAIN t \ {f} -> Int]
  BY <1>1 DEF Drop
<1>3. DOMAIN t \ {f} \in SUBSET Nat
  BY <1>1
<1>4. Drop(t, f) \in Tables
  BY <1>2, <1>3 DEF Tables
<1>5. IsFiniteSet(DOMAIN t \ {f})
  BY FS_Subset
<1>6. DOMAIN Drop(t, f) = DOMAIN t \ {f} /\ \A g \in DOMAIN t : g # f => Drop(t, f)[g] = t[g]
  BY DEF Drop
<1> QED BY <1>4, <1>5, <1>6

\* What Advance does.
LEMMA AdvanceFacts ==
    ASSUME NEW s \in SpawnRecords, NEW after \in SpawnPlaces, NEW t, t = Advance(s, after)
    PROVE  /\ t \in SpawnRecords
           /\ \/ t.at = s.at /\ t.slot = s.slot + 1
              \/ t.at = after /\ t.slot = 0 /\ s.slot + 1 = StdioCount
           /\ t.open = s.open /\ t.kind = s.kind /\ t.par = s.par /\ t.use = s.use
           /\ t.signal = s.signal /\ t.fds = s.fds /\ t.owned = s.owned /\ t.err = s.err
           /\ t.ran = s.ran /\ t.stray = s.stray /\ t.child = s.child
<1>1. 0 \in Slots /\ s.slot \in Slots
  BY StdioAssumption DEF Slots, SpawnRecords
<1>2. s.slot + 1 \notin Slots => s.slot + 1 = StdioCount
  BY <1>1, StdioAssumption DEF Slots
<1> QED BY <1>1, <1>2 DEF Advance, SpawnRecords

\* The first loop of the child leaves a slot's descriptor or moves it up.
LEMMA MoveKeeps ==
    ASSUME NEW s \in SpawnRecords, NEW c, NEW m \in Slots, ChildStands(s, c, m, 0, 0),
           c.use[m] < 0 \/ c.use[m] >= m
    PROVE  ChildStands(s, c, m + 1, 0, 0)
<1>1. m \in Nat /\ m < StdioCount
  BY StdioAssumption DEF Slots
<1>2. \A i \in Slots : s.kind[i] # Ignore => c.use[i] \in Nat /\ (i < m + 1 => c.use[i] >= i)
  <2> SUFFICES ASSUME NEW i \in Slots, s.kind[i] # Ignore
               PROVE  c.use[i] \in Nat /\ (i < m + 1 => c.use[i] >= i)
    OBVIOUS
  <2>1. c.use[i] \in Nat /\ (i < m => c.use[i] >= i)
    BY DEF ChildStands, ChildUses
  <2>2. i \in Nat
    BY StdioAssumption DEF Slots
  <2>3. CASE i = m
    BY <2>1, <2>3, <2>2
  <2>4. CASE i # m
    BY <2>1, <2>2, <2>4, <1>1
  <2> QED BY <2>3, <2>4
<1>3. ChildUses(s, c, m + 1, 0)
  BY <1>2 DEF ChildStands, ChildUses
<1>4. ChildPipes(s, c, m + 1)
  BY <1>1 DEF ChildStands, ChildPipes
<1> QED BY <1>3, <1>4 DEF ChildStands

LEMMA MoveMoves ==
    ASSUME NEW s \in SpawnRecords, NEW c, NEW m \in Slots, ChildStands(s, c, m, 0, 0),
           0 <= c.use[m], c.use[m] < m, NEW new, new = Lowest(DOMAIN c.tab, StdioCount),
           NEW d, d = [tab |-> Put(c.tab, new, c.tab[c.use[m]]),
                       use |-> [c.use EXCEPT ![m] = new], cloexec |-> c.cloexec \ {new}]
    PROVE  ChildStands(s, d, m + 1, 0, 0)
<1>1. /\ m \in Nat /\ m < StdioCount /\ StdioCount \in Nat
      /\ \A i \in Slots : i \in Nat /\ i < StdioCount
  BY StdioAssumption DEF Slots
<1>2. /\ c \in Children /\ c.tab \in Tables /\ IsFiniteSet(DOMAIN c.tab) /\ c.use \in [Slots -> Int]
      /\ c.cloexec \in SUBSET Nat
  BY DEF ChildStands, ChildUses, Children
<1>3. DOMAIN c.tab \in SUBSET Nat /\ \A g \in DOMAIN c.tab : c.tab[g] \in Int
  BY <1>2 DEF Tables
<1>4. new \in Nat /\ new >= StdioCount /\ new \notin DOMAIN c.tab
  BY <1>1, <1>2, <1>3, LowestFacts
<1>5. \A i \in Slots : /\ s.kind[i] = Ignore => c.use[i] = Unset
                       /\ s.kind[i] # Ignore => /\ c.use[i] \in Nat /\ (i < m => c.use[i] >= i)
                                                /\ c.use[i] \in DOMAIN c.tab
                                                /\ c.tab[c.use[i]] = Wanted(s, i)
  BY <1>1 DEF ChildStands, ChildUses
<1>6. s.kind[m] # Ignore
  BY <1>2, <1>5 DEF Unset
<1>7. c.use[m] \in DOMAIN c.tab /\ c.tab[c.use[m]] = Wanted(s, m) /\ c.tab[c.use[m]] \in Int
  BY <1>3, <1>5, <1>6
<1>8. /\ d.tab \in Tables /\ DOMAIN d.tab = DOMAIN c.tab \cup {new} /\ IsFiniteSet(DOMAIN d.tab)
      /\ d.tab[new] = Wanted(s, m) /\ \A g \in DOMAIN c.tab : d.tab[g] = c.tab[g]
  <2>1. PICK u, t, x : u = c.tab /\ t = Put(u, new, x) /\ x = c.tab[c.use[m]]
    OBVIOUS
  <2>x. u \in Tables /\ IsFiniteSet(DOMAIN u) /\ new \in Nat /\ x \in Int
    BY <1>2, <1>4, <1>7, <2>1
  <2>y. /\ Put(u, new, x) \in Tables /\ DOMAIN Put(u, new, x) = DOMAIN u \cup {new}
        /\ IsFiniteSet(DOMAIN Put(u, new, x)) /\ Put(u, new, x)[new] = x
        /\ \A g \in DOMAIN u : g # new => Put(u, new, x)[g] = u[g]
    BY ONLY <2>x, PutFacts
  <2>2. /\ t \in Tables /\ DOMAIN t = DOMAIN c.tab \cup {new} /\ IsFiniteSet(DOMAIN t)
        /\ t[new] = x /\ \A g \in DOMAIN c.tab : g # new => t[g] = c.tab[g]
    BY ONLY <2>1, <2>y
  <2>3. d.tab = t /\ x = Wanted(s, m)
    BY <1>7, <2>1
  <2>4. \A g \in DOMAIN c.tab : g # new
    BY <1>4
  <2> QED BY <2>2, <2>3, <2>4
<1>9. /\ d.use \in [Slots -> Int] /\ d.cloexec = c.cloexec \ {new} /\ d.use[m] = new
      /\ \A i \in Slots : i # m => d.use[i] = c.use[i]
  BY <1>2, <1>4
<1>10. d \in Children
  BY <1>2, <1>8, <1>9 DEF Children
<1>11. \A i \in Slots :
         /\ s.kind[i] = Ignore => d.use[i] = Unset
         /\ s.kind[i] # Ignore => d.use[i] \in Nat /\ (i < m + 1 => d.use[i] >= i)
         /\ s.kind[i] # Ignore => d.use[i] \in DOMAIN d.tab /\ d.tab[d.use[i]] = Wanted(s, i)
  <2> SUFFICES ASSUME NEW i \in Slots
               PROVE  /\ s.kind[i] = Ignore => d.use[i] = Unset
                      /\ s.kind[i] # Ignore => /\ d.use[i] \in Nat /\ (i < m + 1 => d.use[i] >= i)
                                               /\ d.use[i] \in DOMAIN d.tab
                                               /\ d.tab[d.use[i]] = Wanted(s, i)
    OBVIOUS
  <2>1. CASE i = m
    BY <2>1, <1>1, <1>4, <1>6, <1>8, <1>9
  <2>2. CASE i # m
    <3>0. i \in Nat
      BY <1>1
    <3>1. i < m + 1 => i < m
      BY <3>0, <1>1, <2>2
    <3> QED BY <2>2, <3>1, <1>5, <1>8, <1>9
  <2> QED BY <2>1, <2>2
<1>19. \A f \in Filled(s) : ~(f < 0)
  BY StdioAssumption DEF Filled, Standard, Slots
<1>12. \A f \in DOMAIN d.tab : Accounted(s, d, 0, f)
  <2> SUFFICES ASSUME NEW f \in DOMAIN d.tab PROVE Accounted(s, d, 0, f)
    OBVIOUS
  <2>1. CASE f = new
    BY <2>1, <1>1, <1>4, <1>9 DEF Accounted
  <2>2. CASE f # new
    <3>1. f \in DOMAIN c.tab /\ d.tab[f] = c.tab[f] /\ f \in Nat
      BY <2>2, <1>3, <1>8
    <3>2. Accounted(s, c, 0, f)
      BY <3>1, <1>19 DEF ChildStands, ChildRest
    <3>3. ASSUME NEW i \in Slots, c.use[i] = f, f >= StdioCount PROVE d.use[i] = f
      <4>1. i # m
        BY <3>3, <1>1, <3>1
      <4> QED BY <4>1, <3>3, <1>9
    <3> QED BY <2>2, <3>1, <3>2, <3>3, <1>9 DEF Accounted
  <2> QED BY <2>1, <2>2
<1>13. /\ s.signal.w \in DOMAIN c.tab /\ \A i \in Slots : s.par[i] # Unset => s.par[i] \in DOMAIN c.tab
       /\ s.signal.w \in Filled(s) \/ c.tab[s.signal.w] = s.signal.w
       /\ \A i \in Slots : c.use[i] # s.signal.w /\ s.par[i] # s.signal.w
       /\ \A i, j \in Slots : s.par[i] # Unset => s.par[i] # c.use[j]
  BY <1>1 DEF ChildStands, ChildPipes
<1>14. s.signal.w # new /\ \A i \in Slots : s.par[i] # Unset => s.par[i] # new
  BY <1>4, <1>13
<1>15. /\ s.signal.w \in DOMAIN d.tab /\ \A i \in Slots : s.par[i] # Unset => s.par[i] \in DOMAIN d.tab
       /\ s.signal.w \in Filled(s) \/ d.tab[s.signal.w] = s.signal.w
  BY <1>8, <1>13
<1>16. \A i \in Slots : d.use[i] # s.signal.w /\ s.par[i] # s.signal.w
  BY <1>9, <1>13, <1>14
<1>17. \A i, j \in Slots : s.par[i] # Unset => s.par[i] # d.use[j]
  BY <1>9, <1>13, <1>14
<1>20. ChildUses(s, d, m + 1, 0)
  BY <1>8, <1>10, <1>11 DEF ChildUses
<1>21. ChildPlaced(s, d, 0) /\ ChildRest(s, d, 0, 0)
  BY <1>12, <1>19 DEF ChildPlaced, ChildRest
<1>22. ChildPipes(s, d, m + 1)
  BY <1>15, <1>16, <1>17 DEF ChildPipes
<1> QED BY <1>20, <1>21, <1>22 DEF ChildStands

LEMMA PlacedFacts ==
    ASSUME NEW c \in Children, IsFiniteSet(DOMAIN c.tab), NEW i \in Slots,
           NEW from \in DOMAIN c.tab, NEW close_fd \in Int,
           NEW d, d = Placed(c, i, from, close_fd)
    PROVE  /\ d \in Children /\ IsFiniteSet(DOMAIN d.tab) /\ d.use = c.use
           /\ d.cloexec = c.cloexec \ {i}
           /\ \A g : g \in DOMAIN d.tab <=>
                  (g \in DOMAIN c.tab \/ g = i) /\ (close_fd >= StdioCount => g # close_fd)
           /\ i \in DOMAIN d.tab => d.tab[i] = c.tab[from]
           /\ \A g \in DOMAIN d.tab : g # i => d.tab[g] = c.tab[g]
<1>1. c.tab \in Tables /\ c.cloexec \in SUBSET Nat /\ c.use \in [Slots -> Int]
  BY DEF Children
<1>2. c.tab[from] \in Int
  <2>1. PICK D \in SUBSET Nat : c.tab \in [D -> Int]
    BY <1>1 DEF Tables
  <2> QED BY <2>1
<1>0. i \in Nat
  BY StdioAssumption DEF Slots
<1>3. PICK x, t, u : /\ x = c.tab[from] /\ t = Put(c.tab, i, x)
                     /\ u = IF close_fd >= StdioCount THEN Drop(t, close_fd) ELSE t
  OBVIOUS
<1>4. x \in Int
  BY <1>2, <1>3
<1>5. /\ t \in Tables /\ DOMAIN t = DOMAIN c.tab \cup {i} /\ IsFiniteSet(DOMAIN t) /\ t[i] = x
      /\ \A g \in DOMAIN c.tab : g # i => t[g] = c.tab[g]
  <2>1. PICK tab : tab = c.tab
    OBVIOUS
  <2>2. t = Put(tab, i, x) /\ tab \in Tables /\ IsFiniteSet(DOMAIN tab)
    BY <1>1, <1>3, <2>1
  <2>3. /\ t \in Tables /\ DOMAIN t = DOMAIN tab \cup {i} /\ IsFiniteSet(DOMAIN t) /\ t[i] = x
        /\ \A g \in DOMAIN tab : g # i => t[g] = tab[g]
    BY <1>0, <1>4, <2>2, PutFacts
  <2> QED BY <2>1, <2>3
<1>6. PICK v : v = Drop(t, close_fd)
  OBVIOUS
<1>7. /\ v \in Tables /\ DOMAIN v = DOMAIN t \ {close_fd} /\ IsFiniteSet(DOMAIN v)
      /\ \A g \in DOMAIN t : g # close_fd => v[g] = t[g]
  BY <1>5, <1>6, DropFacts
<1>8. /\ u \in Tables /\ IsFiniteSet(DOMAIN u)
      /\ \A g : g \in DOMAIN u <=> g \in DOMAIN t /\ (close_fd >= StdioCount => g # close_fd)
      /\ \A g \in DOMAIN u : u[g] = t[g]
  <2>1. CASE close_fd >= StdioCount
    BY <2>1, <1>3, <1>6, <1>7
  <2>2. CASE ~(close_fd >= StdioCount)
    BY <2>2, <1>3, <1>5
  <2> QED BY <2>1, <2>2
<1>9. d = [c EXCEPT !.cloexec = c.cloexec \ {i}, !.tab = u]
  BY <1>3 DEF Placed
<1>10. d \in Children /\ d.use = c.use /\ d.cloexec = c.cloexec \ {i} /\ d.tab = u
  BY <1>1, <1>8, <1>9 DEF Children
<1> QED BY <1>3, <1>5, <1>8, <1>10

\* The second loop: a slot above the standard ones that is ignored,
LEMMA PlaceSkips ==
    ASSUME NEW s \in SpawnRecords, NEW c, NEW p \in Slots, ChildStands(s, c, StdioCount, p, 0),
           c.use[p] < 0, p \notin Standard
    PROVE  ChildStands(s, c, StdioCount, p + 1, 0)
<1>1. p \in Nat /\ \A i \in Slots : i \in Nat
  BY StdioAssumption DEF Slots
<1>2. s.kind[p] = Ignore
  BY DEF ChildStands, ChildUses
<1>3. p \notin Filled(s) /\ \A i \in Filled(s) : i \in Nat
  <2>1. p \notin Filled(s)
    BY <1>2 DEF Filled
  <2>2. \A i \in Standard : i \in Nat
    BY DEF Standard
  <2> QED BY <1>1, <2>1, <2>2 DEF Filled
<1>4. ChildUses(s, c, StdioCount, p + 1)
  BY <1>1 DEF ChildStands, ChildUses
<1>5. \A i \in Filled(s) : i < p + 1 <=> i < p
  BY <1>1, <1>3
<1>6. ChildPlaced(s, c, p + 1) /\ ChildRest(s, c, p + 1, 0)
  BY <1>5 DEF ChildStands, ChildPlaced, ChildRest
<1> QED BY <1>4, <1>6 DEF ChildStands

\* What a slot's turn in the second loop has to leave alone: d is c with slot
\* p filled, from any file, and perhaps a descriptor closed that no slot
\* uses.
SlotFilled(s, c, d, p) ==
    /\ d \in Children /\ IsFiniteSet(DOMAIN d.tab) /\ d.use = c.use
    /\ p \in Filled(s) /\ p \in DOMAIN d.tab /\ d.tab[p] = Wanted(s, p) /\ p \notin d.cloexec
    /\ \A i \in Slots : i > p /\ s.kind[i] # Ignore =>
         c.use[i] \in DOMAIN d.tab /\ d.tab[c.use[i]] = c.tab[c.use[i]]
    /\ \A i \in Filled(s) : i < p =>
         i \in DOMAIN d.tab /\ d.tab[i] = c.tab[i] /\ (i \in d.cloexec => i \in c.cloexec)
    /\ \A f \in DOMAIN d.tab : f # p =>
         \/ f \in DOMAIN c.tab /\ d.tab[f] = c.tab[f] /\ (f \in c.cloexec => f \in d.cloexec)
         \/ f \in Slots /\ d.tab[f] = DevNull
    /\ s.signal.w \in Filled(s) \/ (s.signal.w \in DOMAIN d.tab /\ d.tab[s.signal.w] = s.signal.w)

LEMMA PlaceKeeps ==
    ASSUME NEW s \in SpawnRecords, NEW c, NEW d, NEW p \in Slots,
           ChildStands(s, c, StdioCount, p, 0), SlotFilled(s, c, d, p)
    PROVE  ChildStands(s, d, StdioCount, p + 1, 0)
<1>1. /\ p \in Nat /\ \A i \in Slots : i \in Nat /\ i < StdioCount
      /\ StdioCount \in Nat
  BY StdioAssumption DEF Slots
<1>2. \A i \in Filled(s) : i \in Nat
  BY <1>1 DEF Filled, Standard
<1>3. ChildUses(s, d, StdioCount, p + 1)
  <2>1. \A i \in Slots :
         /\ s.kind[i] = Ignore => c.use[i] = Unset
         /\ s.kind[i] # Ignore => c.use[i] \in Nat /\ (i < StdioCount => c.use[i] >= i)
         /\ s.kind[i] # Ignore /\ i >= p => c.tab[c.use[i]] = Wanted(s, i)
    BY DEF ChildStands, ChildUses
  <2>2. ASSUME NEW i \in Slots, s.kind[i] # Ignore, i >= p + 1
        PROVE  c.use[i] \in DOMAIN d.tab /\ d.tab[c.use[i]] = Wanted(s, i)
    <3>1. i > p /\ i >= p
      BY <1>1, <2>2
    <3>2. c.use[i] \in DOMAIN d.tab /\ d.tab[c.use[i]] = c.tab[c.use[i]]
      BY <3>1, <2>2 DEF SlotFilled
    <3>3. c.tab[c.use[i]] = Wanted(s, i)
      BY <3>1, <2>1, <2>2
    <3> QED BY <3>2, <3>3
  <2> QED BY <2>1, <2>2 DEF ChildUses, SlotFilled
<1>4. ChildPlaced(s, d, p + 1)
  <2> SUFFICES ASSUME NEW i \in Filled(s), i < p + 1
               PROVE  i \in DOMAIN d.tab /\ d.tab[i] = Wanted(s, i) /\ i \notin d.cloexec
    BY DEF ChildPlaced
  <2>1. CASE i = p
    BY <2>1 DEF SlotFilled
  <2>2. CASE i # p
    <3>1. i < p
      BY <1>1, <1>2, <2>2
    <3>2. c.tab[i] = Wanted(s, i) /\ i \notin c.cloexec
      BY <3>1 DEF ChildStands, ChildPlaced
    <3> QED BY <3>1, <3>2 DEF SlotFilled
  <2> QED BY <2>1, <2>2
<1>5. ChildRest(s, d, p + 1, 0)
  <2> SUFFICES ASSUME NEW f \in DOMAIN d.tab
               PROVE  (f \in Filled(s) /\ f < p + 1) \/ Accounted(s, d, 0, f)
    BY DEF ChildRest
  <2>1. CASE f = p
    BY <2>1, <1>1 DEF SlotFilled
  <2>2. CASE f # p /\ f \in Slots /\ d.tab[f] = DevNull
    BY <2>2 DEF Accounted
  <2>3. CASE f # p /\ f \in DOMAIN c.tab /\ d.tab[f] = c.tab[f] /\ (f \in c.cloexec => f \in d.cloexec)
    <3>1. (f \in Filled(s) /\ f < p) \/ Accounted(s, c, 0, f)
      BY <2>3 DEF ChildStands, ChildRest
    <3>2. CASE f \in Filled(s) /\ f < p
      <4>1. f < p + 1
        BY <1>1, <1>2, <3>2
      <4> QED BY <3>2, <4>1
    <3>3. CASE Accounted(s, c, 0, f)
      <4>1. d.use = c.use
        BY DEF SlotFilled
      <4> QED BY <2>3, <3>3, <4>1 DEF Accounted
    <3> QED BY <3>1, <3>2, <3>3
  <2>4. \/ f = p
        \/ f # p /\ f \in Slots /\ d.tab[f] = DevNull
        \/ f # p /\ f \in DOMAIN c.tab /\ d.tab[f] = c.tab[f] /\ (f \in c.cloexec => f \in d.cloexec)
    BY DEF SlotFilled
  <2> QED BY <2>1, <2>2, <2>3, <2>4
<1>6. ChildPipes(s, d, StdioCount)
  BY <1>1 DEF SlotFilled, ChildStands, ChildPipes
<1> QED BY <1>3, <1>4, <1>5, <1>6 DEF ChildStands

\* a slot that was given a descriptor or a pipe,
LEMMA PlaceUses ==
    ASSUME NEW s \in SpawnRecords, NEW c, NEW p \in Slots, ChildStands(s, c, StdioCount, p, 0),
           c.use[p] >= 0, NEW d, d = Placed(c, p, c.use[p], s.par[p])
    PROVE  ChildStands(s, d, StdioCount, p + 1, 0)
<1>1. /\ p \in Nat /\ p < StdioCount /\ \A i \in Slots : i \in Nat /\ i < StdioCount
      /\ StdioCount \in Nat /\ StdioCount >= 3
  BY StdioAssumption DEF Slots
<1>2. \A i \in Filled(s) : i \in Slots /\ i \in Nat /\ i < StdioCount
  BY <1>1 DEF Filled, Standard, Slots
<1>3. /\ c \in Children /\ IsFiniteSet(DOMAIN c.tab) /\ s.par[p] \in Int /\ c.use \in [Slots -> Int]
      /\ s.kind[p] # Ignore
  BY DEF ChildStands, ChildUses, SpawnRecords, Children, Unset
<1>4. c.use[p] \in DOMAIN c.tab /\ c.tab[c.use[p]] = Wanted(s, p)
  BY <1>1, <1>3 DEF ChildStands, ChildUses
<1>5. PICK from, close_fd : from = c.use[p] /\ close_fd = s.par[p]
  OBVIOUS
<1>6. /\ d \in Children /\ IsFiniteSet(DOMAIN d.tab) /\ d.use = c.use
      /\ d.cloexec = c.cloexec \ {p}
      /\ \A g : g \in DOMAIN d.tab <=>
             (g \in DOMAIN c.tab \/ g = p) /\ (close_fd >= StdioCount => g # close_fd)
      /\ p \in DOMAIN d.tab => d.tab[p] = c.tab[from]
      /\ \A g \in DOMAIN d.tab : g # p => d.tab[g] = c.tab[g]
  <2>1. d = Placed(c, p, from, close_fd) /\ from \in DOMAIN c.tab /\ close_fd \in Int
    BY <1>3, <1>4, <1>5
  <2>2. c \in Children /\ IsFiniteSet(DOMAIN c.tab)
    BY <1>3
  <2> QED BY <2>1, <2>2, PlacedFacts
<1>7. close_fd >= StdioCount => /\ \A i \in Slots : i # close_fd /\ c.use[i] # close_fd
                                /\ close_fd # s.signal.w
  <2> SUFFICES ASSUME close_fd >= StdioCount
               PROVE  /\ \A i \in Slots : i # close_fd /\ c.use[i] # close_fd
                      /\ close_fd # s.signal.w
    OBVIOUS
  <2>1. close_fd # Unset
    BY <1>1 DEF Unset
  <2>2. /\ \A i \in Slots : s.par[i] # s.signal.w
        /\ \A i, j \in Slots : s.par[i] # Unset => s.par[i] # c.use[j]
    BY DEF ChildStands, ChildPipes
  <2>3. \A i \in Slots : i # close_fd
    BY <1>1
  <2> QED BY <1>5, <2>1, <2>2, <2>3
<1>8. p \in Filled(s)
  BY <1>3 DEF Filled
<1>9. p \in DOMAIN d.tab /\ d.tab[p] = Wanted(s, p) /\ p \notin d.cloexec
  BY <1>4, <1>5, <1>6, <1>7
<1>10. ASSUME NEW i \in Slots, i > p, s.kind[i] # Ignore
       PROVE  c.use[i] \in DOMAIN d.tab /\ d.tab[c.use[i]] = c.tab[c.use[i]]
  <2>1. c.use[i] \in Nat /\ c.use[i] >= i /\ c.use[i] \in DOMAIN c.tab
    BY <1>1, <1>10 DEF ChildStands, ChildUses
  <2>0. i \in Nat /\ i > p
    BY <1>1, <1>10
  <2>2. c.use[i] # p
    BY <1>1, <2>0, <2>1
  <2> QED BY <1>6, <1>7, <2>1, <2>2
<1>11. ASSUME NEW i \in Filled(s), i < p
       PROVE  i \in DOMAIN d.tab /\ d.tab[i] = c.tab[i] /\ (i \in d.cloexec => i \in c.cloexec)
  <2>1. i \in Slots /\ i # p
    BY <1>1, <1>2, <1>11
  <2>2. i \in DOMAIN c.tab
    BY <1>11 DEF ChildStands, ChildPlaced
  <2> QED BY <1>6, <1>7, <2>1, <2>2
<1>12. ASSUME NEW f \in DOMAIN d.tab, f # p
       PROVE  f \in DOMAIN c.tab /\ d.tab[f] = c.tab[f] /\ (f \in c.cloexec => f \in d.cloexec)
  BY <1>6, <1>12
<1>13. s.signal.w \in Filled(s) \/ (s.signal.w \in DOMAIN d.tab /\ d.tab[s.signal.w] = s.signal.w)
  <2>1. s.signal.w \in Filled(s) \/ (s.signal.w \in DOMAIN c.tab /\ c.tab[s.signal.w] = s.signal.w)
    BY DEF ChildStands, ChildPipes
  <2> QED BY <1>6, <1>7, <1>8, <2>1
<1>14. \A i \in Slots : i > p /\ s.kind[i] # Ignore =>
         c.use[i] \in DOMAIN d.tab /\ d.tab[c.use[i]] = c.tab[c.use[i]]
  BY <1>10
<1>15. \A i \in Filled(s) : i < p =>
         i \in DOMAIN d.tab /\ d.tab[i] = c.tab[i] /\ (i \in d.cloexec => i \in c.cloexec)
  BY <1>11
<1>16. \A f \in DOMAIN d.tab : f # p =>
         \/ f \in DOMAIN c.tab /\ d.tab[f] = c.tab[f] /\ (f \in c.cloexec => f \in d.cloexec)
         \/ f \in Slots /\ d.tab[f] = DevNull
  BY <1>12
<1>17. SlotFilled(s, c, d, p)
  BY <1>6, <1>8, <1>9, <1>13, <1>14, <1>15, <1>16 DEF SlotFilled
<1> QED BY <1>17, PlaceKeeps

\* and a standard slot that is ignored.
LEMMA PlaceNulls ==
    ASSUME NEW s \in SpawnRecords, NEW c, NEW p \in Slots, ChildStands(s, c, StdioCount, p, 0),
           c.use[p] < 0, p \in Standard, NEW null, null = Lowest(DOMAIN c.tab, 0),
           NEW d, d = Placed(NullOpened(c, null), p, null, null)
    PROVE  ChildStands(s, d, StdioCount, p + 1, 0)
<1>1. /\ p \in Nat /\ p < StdioCount /\ \A i \in Slots : i \in Nat /\ i < StdioCount
      /\ StdioCount \in Nat /\ StdioCount >= 3
  BY StdioAssumption DEF Slots
<1>2. \A i \in Filled(s) : i \in Slots /\ i \in Nat /\ i < StdioCount
  BY <1>1 DEF Filled, Standard, Slots
<1>3. /\ c \in Children /\ IsFiniteSet(DOMAIN c.tab) /\ c.use \in [Slots -> Int]
      /\ c.tab \in Tables /\ c.cloexec \in SUBSET Nat /\ s.kind[p] = Ignore
  BY DEF ChildStands, ChildUses, Children
<1>4. null \in Nat /\ null \notin DOMAIN c.tab
  <2>1. DOMAIN c.tab \in SUBSET Nat
    BY <1>3 DEF Tables
  <2> QED BY <1>3, <2>1, LowestFacts
<1>5. PICK b : b = NullOpened(c, null)
  OBVIOUS
<1>6. /\ b \in Children /\ IsFiniteSet(DOMAIN b.tab) /\ b.use = c.use
      /\ b.cloexec = c.cloexec \ {null} /\ DOMAIN b.tab = DOMAIN c.tab \cup {null}
      /\ b.tab[null] = DevNull /\ \A g \in DOMAIN c.tab : b.tab[g] = c.tab[g]
  <2>1. PICK tab, t, x : tab = c.tab /\ x = DevNull /\ t = Put(tab, null, x)
    OBVIOUS
  <2>2. tab \in Tables /\ IsFiniteSet(DOMAIN tab) /\ x \in Int
    BY <1>3, <2>1 DEF DevNull
  <2>p. t = Put(tab, null, x) /\ null \in Nat
    BY <1>4, <2>1
  <2>3. /\ t \in Tables /\ DOMAIN t = DOMAIN tab \cup {null} /\ IsFiniteSet(DOMAIN t) /\ t[null] = x
        /\ \A g \in DOMAIN tab : g # null => t[g] = tab[g]
    BY <2>p, <2>2, PutFacts, ZenonT(60)
  <2>4. b = [c EXCEPT !.tab = t, !.cloexec = c.cloexec \ {null}]
    BY <1>5, <2>1 DEF NullOpened
  <2>5. b \in Children /\ b.use = c.use /\ b.cloexec = c.cloexec \ {null} /\ b.tab = t
    BY <1>3, <2>3, <2>4 DEF Children
  <2> QED BY <1>4, <2>1, <2>3, <2>5
<1>7. /\ d \in Children /\ IsFiniteSet(DOMAIN d.tab) /\ d.use = b.use
      /\ d.cloexec = b.cloexec \ {p}
      /\ \A g : g \in DOMAIN d.tab <=>
             (g \in DOMAIN b.tab \/ g = p) /\ (null >= StdioCount => g # null)
      /\ p \in DOMAIN d.tab => d.tab[p] = b.tab[null]
      /\ \A g \in DOMAIN d.tab : g # p => d.tab[g] = b.tab[g]
  <2>1. PICK from, close_fd : from = null /\ close_fd = null
    OBVIOUS
  <2>2. d = Placed(b, p, from, close_fd) /\ from \in DOMAIN b.tab /\ close_fd \in Int
    BY <1>4, <1>5, <1>6, <2>1
  <2>3. b \in Children /\ IsFiniteSet(DOMAIN b.tab)
    BY <1>6
  <2>4. /\ d \in Children /\ IsFiniteSet(DOMAIN d.tab) /\ d.use = b.use
        /\ d.cloexec = b.cloexec \ {p}
        /\ \A g : g \in DOMAIN d.tab <=>
               (g \in DOMAIN b.tab \/ g = p) /\ (close_fd >= StdioCount => g # close_fd)
        /\ p \in DOMAIN d.tab => d.tab[p] = b.tab[from]
        /\ \A g \in DOMAIN d.tab : g # p => d.tab[g] = b.tab[g]
    BY <2>2, <2>3, PlacedFacts
  <2> QED BY <2>1, <2>4
<1>8. null >= StdioCount => \A i \in Slots : i # null
  BY <1>1, <1>4
<1>9. p \in Filled(s) /\ Wanted(s, p) = DevNull
  BY <1>3 DEF Filled, Wanted, Ignore, Pipe
<1>10. p \in DOMAIN d.tab /\ d.tab[p] = Wanted(s, p) /\ p \notin d.cloexec
  BY <1>6, <1>7, <1>8, <1>9
<1>11. ASSUME NEW i \in Slots, i > p, s.kind[i] # Ignore
       PROVE  c.use[i] \in DOMAIN d.tab /\ d.tab[c.use[i]] = c.tab[c.use[i]]
  <2>1. c.use[i] \in Nat /\ c.use[i] >= i /\ c.use[i] \in DOMAIN c.tab
    BY <1>1, <1>11 DEF ChildStands, ChildUses
  <2>0. i \in Nat /\ i > p
    BY <1>1, <1>11
  <2>2. c.use[i] # p
    BY <1>1, <2>0, <2>1
  <2>3. c.use[i] # null
    BY <1>4, <2>1
  <2> QED BY <1>6, <1>7, <2>1, <2>2, <2>3
<1>12. ASSUME NEW i \in Filled(s), i < p
       PROVE  i \in DOMAIN d.tab /\ d.tab[i] = c.tab[i] /\ (i \in d.cloexec => i \in c.cloexec)
  <2>1. i \in Slots /\ i # p
    BY <1>1, <1>2, <1>12
  <2>2. i \in DOMAIN c.tab
    BY <1>12 DEF ChildStands, ChildPlaced
  <2>3. i # null
    BY <1>4, <2>2
  <2> QED BY <1>6, <1>7, <2>1, <2>2, <2>3
<1>13. ASSUME NEW f \in DOMAIN d.tab, f # p
       PROVE  \/ f \in DOMAIN c.tab /\ d.tab[f] = c.tab[f] /\ (f \in c.cloexec => f \in d.cloexec)
              \/ f \in Slots /\ d.tab[f] = DevNull
  <2>1. f \in DOMAIN b.tab /\ d.tab[f] = b.tab[f] /\ (null >= StdioCount => f # null)
    BY <1>7, <1>13
  <2>2. CASE f = null
    <3>1. ~(null >= StdioCount)
      BY <2>1, <2>2
    <3>2. null \in Slots
      BY <1>1, <1>4, <3>1 DEF Slots
    <3> QED BY <1>6, <2>1, <2>2, <3>2
  <2>3. CASE f # null
    BY <1>6, <1>7, <1>13, <2>1, <2>3
  <2> QED BY <2>2, <2>3
<1>14. s.signal.w \in Filled(s) \/ (s.signal.w \in DOMAIN d.tab /\ d.tab[s.signal.w] = s.signal.w)
  <2>1. s.signal.w \in Filled(s) \/ (s.signal.w \in DOMAIN c.tab /\ c.tab[s.signal.w] = s.signal.w)
    BY DEF ChildStands, ChildPipes
  <2> QED BY <1>4, <1>6, <1>7, <1>9, <2>1
<1>15. d.use = c.use
  BY <1>6, <1>7
<1>16. \A i \in Slots : i > p /\ s.kind[i] # Ignore =>
         c.use[i] \in DOMAIN d.tab /\ d.tab[c.use[i]] = c.tab[c.use[i]]
  BY <1>11
<1>17. \A i \in Filled(s) : i < p =>
         i \in DOMAIN d.tab /\ d.tab[i] = c.tab[i] /\ (i \in d.cloexec => i \in c.cloexec)
  BY <1>12
<1>18. \A f \in DOMAIN d.tab : f # p =>
         \/ f \in DOMAIN c.tab /\ d.tab[f] = c.tab[f] /\ (f \in c.cloexec => f \in d.cloexec)
         \/ f \in Slots /\ d.tab[f] = DevNull
  BY <1>13
<1>19. SlotFilled(s, c, d, p)
  BY <1>7, <1>9, <1>10, <1>14, <1>15, <1>16, <1>17, <1>18 DEF SlotFilled
<1> QED BY <1>19, PlaceKeeps

\* The third loop closes what a slot used.
LEMMA CloseKeeps ==
    ASSUME NEW s \in SpawnRecords, NEW c, NEW k \in Slots,
           ChildStands(s, c, StdioCount, StdioCount, k),
           NEW d, d = IF c.use[k] >= StdioCount THEN [c EXCEPT !.tab = Drop(c.tab, c.use[k])] ELSE c
    PROVE  ChildStands(s, d, StdioCount, StdioCount, k + 1)
<1>1. /\ k \in Nat /\ \A i \in Slots : i \in Nat /\ i < StdioCount
      /\ StdioCount \in Nat /\ StdioCount >= 3
  BY StdioAssumption DEF Slots
<1>2. \A i \in Filled(s) : i \in Slots /\ i \in Nat /\ i < StdioCount
  BY <1>1 DEF Filled, Standard, Slots
<1>3. /\ c \in Children /\ IsFiniteSet(DOMAIN c.tab) /\ c.use \in [Slots -> Int]
      /\ c.tab \in Tables /\ c.cloexec \in SUBSET Nat
  BY DEF ChildStands, ChildUses, Children
<1>4. PICK u, tab, t : u = c.use[k] /\ tab = c.tab /\ t = Drop(tab, u)
  OBVIOUS
<1>5. tab \in Tables /\ IsFiniteSet(DOMAIN tab) /\ u \in Int
  BY <1>3, <1>4
<1>6. /\ t \in Tables /\ DOMAIN t = DOMAIN tab \ {u} /\ IsFiniteSet(DOMAIN t)
      /\ \A g \in DOMAIN tab : g # u => t[g] = tab[g]
  <2>1. t = Drop(tab, u)
    BY <1>4
  <2> QED BY <1>5, <2>1, DropFacts
<1>7. u >= StdioCount => d = [c EXCEPT !.tab = t]
  BY <1>4
<1>8. /\ d \in Children /\ IsFiniteSet(DOMAIN d.tab) /\ d.use = c.use /\ d.cloexec = c.cloexec
      /\ \A g : g \in DOMAIN d.tab <=> g \in DOMAIN c.tab /\ (u >= StdioCount => g # u)
      /\ \A g \in DOMAIN d.tab : d.tab[g] = c.tab[g]
  <2>1. CASE u >= StdioCount
    <3>1. d \in Children /\ d.use = c.use /\ d.cloexec = c.cloexec /\ d.tab = t
      BY <1>3, <1>6, <1>7, <2>1 DEF Children
    <3> QED BY <2>1, <3>1, <1>4, <1>6
  <2>2. CASE ~(u >= StdioCount)
    <3>1. d = c
      BY <1>4, <2>2
    <3> QED BY <2>2, <3>1, <1>3
  <2> QED BY <2>1, <2>2
<1>9. u >= StdioCount => (\A i \in Slots : i # u) /\ u # s.signal.w
  <2>1. \A i \in Slots : c.use[i] # s.signal.w
    BY DEF ChildStands, ChildPipes
  <2>2. u # s.signal.w
    BY <1>4, <2>1
  <2> QED BY <1>1, <1>5, <2>2
<1>10. ChildUses(s, d, StdioCount, StdioCount)
  <2>1. \A i \in Slots : ~(i >= StdioCount)
    BY <1>1
  <2> QED BY <1>8, <2>1 DEF ChildStands, ChildUses
<1>11. ChildPlaced(s, d, StdioCount)
  BY <1>2, <1>8, <1>9 DEF ChildStands, ChildPlaced
<1>12. ChildRest(s, d, StdioCount, k + 1)
  <2> SUFFICES ASSUME NEW f \in DOMAIN d.tab
               PROVE  (f \in Filled(s) /\ f < StdioCount) \/ Accounted(s, d, k + 1, f)
    BY DEF ChildRest
  <2>1. f \in DOMAIN c.tab /\ d.tab[f] = c.tab[f] /\ (u >= StdioCount => f # u)
    BY <1>8
  <2>2. (f \in Filled(s) /\ f < StdioCount) \/ Accounted(s, c, k, f)
    BY <2>1 DEF ChildStands, ChildRest
  <2>3. ASSUME NEW i \in Slots, i >= k, c.use[i] = f, f >= StdioCount PROVE i >= k + 1
    <3>1. i # k
      BY <1>4, <2>1, <2>3
    <3> QED BY <1>1, <2>3, <3>1
  <2> QED BY <1>8, <2>1, <2>2, <2>3 DEF Accounted
<1>13. ChildPipes(s, d, StdioCount)
  BY <1>1, <1>8, <1>9 DEF ChildStands, ChildPipes
<1> QED BY <1>10, <1>11, <1>12, <1>13 DEF ChildStands

----------------------------------------------------------------------------
(* The parent.                                                             *)

\* The two ends of a new pipe.
LEMMA NewPipe ==
    ASSUME NEW s \in SpawnRecords, IsFiniteSet(s.fds)
    PROVE  /\ Read(s) \in Nat \ s.fds /\ Write(s) \in Nat \ s.fds /\ Read(s) # Write(s)
           /\ IsFiniteSet(s.fds \cup {Read(s), Write(s)})
           /\ s.fds \cup {Read(s), Write(s)} \in SUBSET Nat
<1>1. PICK D : D = s.fds
  OBVIOUS
<1>2. D \in SUBSET Nat /\ IsFiniteSet(D) /\ 0 \in Nat
  BY <1>1 DEF SpawnRecords
<1>3. PICK r : r = Lowest(D, 0)
  OBVIOUS
<1>4. r \in Nat /\ r \notin D
  BY <1>2, <1>3, LowestFacts
<1>5. D \cup {r} \in SUBSET Nat /\ IsFiniteSet(D \cup {r})
  BY <1>2, <1>4, FS_AddElement
<1>6. PICK E, w : E = D \cup {r} /\ w = Lowest(E, 0)
  OBVIOUS
<1>7. E \in SUBSET Nat /\ IsFiniteSet(E)
  BY <1>5, <1>6
<1>8. w \in Nat /\ w \notin E
  BY <1>2, <1>6, <1>7, LowestFacts
<1>9. IsFiniteSet(E \cup {w})
  BY <1>7, FS_AddElement
<1>10. r = Read(s) /\ w = Write(s)
  BY <1>1, <1>3, <1>6 DEF Read, Write
<1>11. E \cup {w} = s.fds \cup {Read(s), Write(s)}
  BY <1>1, <1>6, <1>10
<1> QED BY <1>1, <1>4, <1>6, <1>7, <1>8, <1>9, <1>10, <1>11

\* Closing: either the assertion fails, or the descriptors are closed.
LEMMA CloseFacts ==
    ASSUME NEW s \in SpawnRecords, IsFiniteSet(s.fds), NEW E \in SUBSET Nat,
           NEW t, t = CloseAll(s, E)
    PROVE  /\ t \in SpawnRecords /\ IsFiniteSet(t.fds) /\ t.fds = s.fds \ E
           /\ (E \subseteq s.fds \ s.open => t.stray = s.stray)
           /\ t.open = s.open /\ t.kind = s.kind /\ t.at = s.at /\ t.slot = s.slot
           /\ t.par = s.par /\ t.use = s.use /\ t.signal = s.signal /\ t.owned = s.owned
           /\ t.err = s.err /\ t.ran = s.ran /\ t.child = s.child
<1>1. IsFiniteSet(s.fds \ E)
  BY FS_Subset
<1> QED BY <1>1 DEF CloseAll, SpawnRecords

LEMMA uv__closeFacts ==
    ASSUME NEW s \in SpawnRecords, IsFiniteSet(s.fds), NEW E \in SUBSET Nat,
           NEW t, t = uv__close(s, E), s.at # "abort"
    PROVE  \/ t.at # "abort" /\ t = CloseAll(s, E)
           \/ t.at = "abort" /\ t = [s EXCEPT !.at = "abort"]
<1>1. PICK u : u = CloseAll(s, E)
  OBVIOUS
<1>2. u.at = s.at
  BY <1>1, CloseFacts
<1> QED BY <1>1, <1>2 DEF uv__close, SpawnRecords

\* The slots' pipes when all slots, or those below n, have been looked at.
LEMMA EndsFacts ==
    ASSUME NEW s \in SpawnRecords, NEW n \in Int, PipesStand(s, n)
    PROVE  /\ EndsBelow(s, n) \in SUBSET (Nat \ s.open)
           /\ ({s.par[i] : i \in PipeSlots(s)} \cup {s.use[i] : i \in PipeSlots(s)}) \ {Unset}
                = EndsBelow(s, n)
<1>1. ASSUME NEW i \in PipeSlots(s)
      PROVE  IF i < n THEN Ends(s, i) \in SUBSET (Nat \ s.open) ELSE Ends(s, i) = {Unset}
  <2>1. i \in Slots /\ i \in Int
    BY StdioAssumption DEF PipeSlots, Slots
  <2>2. CASE i < n
    BY <2>2 DEF PipesStand
  <2>3. CASE ~(i < n)
    BY <2>1, <2>3 DEF PipesStand, Ends
  <2> QED BY <2>2, <2>3
<1>2. Unset \notin Nat
  BY DEF Unset
<1>3. EndsBelow(s, n) \in SUBSET (Nat \ s.open)
  BY <1>1 DEF EndsBelow
<1>4. ASSUME NEW f
      PROVE  f \in EndsBelow(s, n) <=>
               f \in ({s.par[i] : i \in PipeSlots(s)} \cup {s.use[i] : i \in PipeSlots(s)}) \ {Unset}
  <2>1. f \in EndsBelow(s, n) <=> \E i \in PipeSlots(s) : i < n /\ f \in Ends(s, i)
    BY DEF EndsBelow
  <2>2. f \in ({s.par[i] : i \in PipeSlots(s)} \cup {s.use[i] : i \in PipeSlots(s)}) \ {Unset}
          <=> f # Unset /\ \E i \in PipeSlots(s) : f \in Ends(s, i)
    BY DEF Ends
  <2> QED BY <1>1, <1>2, <2>1, <2>2
<1> QED BY <1>3, <1>4

\* t is about the same call as s, with the same pipes.
SameCall(s, t) == t.open = s.open /\ t.kind = s.kind /\ t.par = s.par /\ t.use = s.use

LEMMA SameFacts ==
    ASSUME NEW s, NEW t, SameCall(s, t)
    PROVE  /\ \A n : PipesStand(t, n) <=> PipesStand(s, n)
           /\ \A n : EndsBelow(t, n) = EndsBelow(s, n) /\ ParsBelow(t, n) = ParsBelow(s, n)
           /\ PipeSlots(t) = PipeSlots(s) /\ Filled(t) = Filled(s)
           /\ \A i : Wanted(t, i) = Wanted(s, i)
           /\ t.signal = s.signal => (SignalStands(s) <=> SignalStands(t))
           /\ t.child = s.child => (ChildFilled(s) <=> ChildFilled(t))
<1>1. PipeSlots(t) = PipeSlots(s) /\ Filled(t) = Filled(s)
  BY DEF SameCall, PipeSlots, Filled
<1>2. \A i : Wanted(t, i) = Wanted(s, i) /\ Ends(t, i) = Ends(s, i)
  BY DEF SameCall, Wanted, Ends
<1>3. \A n : PipesStand(t, n) <=> PipesStand(s, n)
  BY <1>1, <1>2 DEF SameCall, PipesStand
<1>4. \A n : EndsBelow(t, n) = EndsBelow(s, n) /\ ParsBelow(t, n) = ParsBelow(s, n)
  BY <1>1, <1>2 DEF SameCall, EndsBelow, ParsBelow
<1>5. t.signal = s.signal => (SignalStands(s) <=> SignalStands(t))
  BY <1>1, <1>2 DEF SameCall, SignalStands
<1>6. t.child = s.child => (ChildFilled(s) <=> ChildFilled(t))
  BY <1>1, <1>2 DEF SameCall, ChildFilled
<1> QED BY <1>1, <1>2, <1>3, <1>4, <1>5, <1>6

LEMMA SameChild ==
    ASSUME NEW s, NEW t, SameCall(s, t), t.signal = s.signal, NEW c, NEW m, NEW p, NEW k,
           ChildStands(s, c, m, p, k)
    PROVE  ChildStands(t, c, m, p, k)
<1>1. Filled(t) = Filled(s) /\ \A i : Wanted(t, i) = Wanted(s, i)
  BY SameFacts
<1>2. ChildUses(t, c, m, p) /\ ChildPlaced(t, c, p)
  BY <1>1 DEF ChildStands, ChildUses, ChildPlaced, SameCall
<1>3. \A f : Accounted(s, c, k, f) <=> Accounted(t, c, k, f)
  BY DEF Accounted, SameCall
<1>4. ChildRest(t, c, p, k)
  BY <1>1, <1>3 DEF ChildStands, ChildRest
<1>5. ChildPipes(t, c, m)
  BY <1>1 DEF ChildStands, ChildPipes, SameCall
<1> QED BY <1>2, <1>4, <1>5 DEF ChildStands

\* The error path leaves what the caller had.
LEMMA FailedStands ==
    ASSUME NEW s, CallStands(s), s.stray = FALSE, s.ran = FALSE, s.owned = {},
           NEW n \in Int, PipesStand(s, n), s.fds = s.open \cup EndsBelow(s, n),
           NEW t, t = Failed(s)
    PROVE  SpawnStands(t)
<1>1. PICK E : E = EndsBelow(s, n)
  OBVIOUS
<1>2. /\ s \in SpawnRecords /\ IsFiniteSet(s.fds) /\ IsFiniteSet(s.open)
      /\ s.kind \in [Slots -> s.open \cup {Ignore, Pipe}]
  BY DEF CallStands
<1>3. /\ E \in SUBSET (Nat \ s.open)
      /\ ({s.par[i] : i \in PipeSlots(s)} \cup {s.use[i] : i \in PipeSlots(s)}) \ {Unset} = E
  BY <1>1, <1>2, EndsFacts
<1>4. PICK u : u = CloseAll(s, E)
  OBVIOUS
<1>5. /\ u \in SpawnRecords /\ IsFiniteSet(u.fds) /\ u.fds = s.fds \ E
      /\ (E \subseteq s.fds \ s.open => u.stray = s.stray)
      /\ u.open = s.open /\ u.kind = s.kind /\ u.owned = s.owned /\ u.ran = s.ran
  <2>1. E \in SUBSET Nat /\ s \in SpawnRecords /\ IsFiniteSet(s.fds)
    BY <1>2, <1>3
  <2> QED BY <1>4, <2>1, CloseFacts
<1>6. t = [u EXCEPT !.at = "returned", !.err = TRUE]
  BY <1>3, <1>4 DEF Failed
<1>7. /\ t \in SpawnRecords /\ t.fds = u.fds /\ t.open = u.open /\ t.kind = u.kind
      /\ t.owned = u.owned /\ t.ran = u.ran /\ t.stray = u.stray /\ t.at = "returned" /\ t.err = TRUE
  BY <1>5, <1>6 DEF SpawnRecords, SpawnPlaces
<1>8. CallStands(t)
  BY <1>2, <1>5, <1>7 DEF CallStands
<1>9. s.fds \ E = s.open /\ E \subseteq s.fds \ s.open
  BY <1>1, <1>3
<1>10. ParentStands(t)
  BY <1>5, <1>7, <1>9 DEF ParentStands, InChild
<1>11. ChildAt(t) /\ OutcomeStands(t)
  BY <1>5, <1>7 DEF ChildAt, OutcomeStands
<1> QED BY <1>8, <1>10, <1>11 DEF SpawnStands

\* An assertion that fails ends it.
LEMMA AbortStands ==
    ASSUME NEW s, CallStands(s), s.stray = FALSE, s.ran => ChildFilled(s),
           NEW t, t = [s EXCEPT !.at = "abort"]
    PROVE  SpawnStands(t)
<1>1. /\ s \in SpawnRecords /\ IsFiniteSet(s.fds) /\ IsFiniteSet(s.open)
      /\ s.kind \in [Slots -> s.open \cup {Ignore, Pipe}]
  BY DEF CallStands
<1>2. /\ t \in SpawnRecords /\ t.at = "abort" /\ t.stray = FALSE /\ t.fds = s.fds /\ t.ran = s.ran
      /\ t.child = s.child /\ SameCall(s, t)
  BY <1>1 DEF SpawnRecords, SpawnPlaces, SameCall
<1>3. CallStands(t)
  BY <1>1, <1>2 DEF CallStands, SameCall
<1>4. ParentStands(t) /\ ChildAt(t)
  BY <1>2 DEF ParentStands, ChildAt, InChild
<1>5. OutcomeStands(t)
  BY <1>2, SameFacts DEF OutcomeStands
<1> QED BY <1>3, <1>4, <1>5 DEF SpawnStands

----------------------------------------------------------------------------
(* Each step.                                                              *)

LEMMA SpawnCalledStep == ASSUME SpawnInv, SpawnCalled PROVE SpawnInv'
<1>0. PICK low \in SUBSET Standard :
        \E kind \in [Slots -> low \cup Inheritable \cup {Ignore, Pipe}] :
            spawn' = Asked(low \cup Inheritable, kind, "init")
  BY DEF SpawnCalled
<1>1. PICK kind \in [Slots -> low \cup Inheritable \cup {Ignore, Pipe}] :
        spawn' = Asked(low \cup Inheritable, kind, "init")
  BY <1>0
<1>2. PICK o, t : o = low \cup Inheritable /\ t = spawn'
  OBVIOUS
<1>3. o \in SUBSET Nat /\ IsFiniteSet(o) /\ kind \in [Slots -> o \cup {Ignore, Pipe}]
  <2>1. IsFiniteSet(Standard)
    <3>1. PICK a, b : a = 0 /\ b = 2
      OBVIOUS
    <3>2. a \in Int /\ b \in Int
      BY <3>1
    <3>3. IsFiniteSet(a..b)
      BY <3>2, FS_Interval
    <3> QED BY <3>1, <3>3 DEF Standard
  <2>2. IsFiniteSet(low)
    BY <2>1, FS_Subset
  <2>3. IsFiniteSet(o)
    BY <1>2, <2>2, StdioAssumption, FS_Union
  <2> QED BY <1>2, <2>3, StdioAssumption DEF Standard
<1>4. kind \in [Slots -> Int]
  <2>1. o \cup {Ignore, Pipe} \subseteq Int
    BY <1>3 DEF Ignore, Pipe
  <2> QED BY <1>3, <2>1
<1>5. NoChild \in Children
  <2>1. [f \in {} |-> Unset] \in [{} -> Int]
    OBVIOUS
  <2>2. [f \in {} |-> Unset] \in Tables
    BY <2>1 DEF Tables
  <2> QED BY <2>2 DEF NoChild, Children, Unset
<1>6. 0 \in Slots /\ \A i \in Slots : i >= 0 /\ ~(i < 0)
  BY StdioAssumption DEF Slots
<1>7. t = Asked(o, kind, "init")
  BY <1>1, <1>2
<1>8. /\ t \in SpawnRecords /\ t.open = o /\ t.kind = kind /\ t.fds = o /\ t.at = "init" /\ t.slot = 0
      /\ t.owned = {} /\ t.ran = FALSE /\ t.stray = FALSE
      /\ \A i \in Slots : t.par[i] = Unset /\ t.use[i] = Unset
  BY <1>3, <1>4, <1>5, <1>6, <1>7 DEF Asked, SpawnRecords, SpawnPlaces, Unset
<1>9. CallStands(t)
  BY <1>3, <1>8 DEF CallStands
<1>10. PipesStand(t, 0)
  BY <1>6, <1>8 DEF PipesStand, PipeSlots
<1>11. EndsBelow(t, 0) = {}
  BY <1>6 DEF EndsBelow, PipeSlots
<1>12. ParentStands(t)
  BY <1>8, <1>10, <1>11 DEF ParentStands, InChild
<1>13. ChildAt(t) /\ OutcomeStands(t)
  BY <1>8 DEF ChildAt, OutcomeStands
<1> QED BY <1>2, <1>9, <1>12, <1>13 DEF SpawnInv, SpawnStands

\* A slot that has been given what was asked for.
LEMMA SlotGiven ==
    ASSUME NEW s, CallStands(s), ParentStands(s), s.at = "init",
           NEW t, t \in SpawnRecords, IsFiniteSet(t.fds), t.open = s.open, t.kind = s.kind,
           t.owned = s.owned, t.ran = s.ran, t.stray = s.stray,
           \/ t.at = "init" /\ t.slot = s.slot + 1
           \/ t.at = "fork" /\ t.slot = 0 /\ s.slot + 1 = StdioCount,
           PipesStand(t, s.slot + 1), t.fds = t.open \cup EndsBelow(t, s.slot + 1)
    PROVE  SpawnStands(t)
<1>1. CallStands(t)
  BY DEF CallStands
<1>2. s.owned = {} /\ s.ran = FALSE /\ s.stray = FALSE
  BY DEF ParentStands, CallStands, SpawnRecords
<1>3. ParentStands(t)
  BY <1>2 DEF ParentStands, InChild
<1>4. ChildAt(t) /\ OutcomeStands(t)
  BY <1>2 DEF ChildAt, OutcomeStands
<1> QED BY <1>1, <1>3, <1>4 DEF SpawnStands

LEMMA SpawnInitStep == ASSUME SpawnInv, uv__process_init_stdio PROVE SpawnInv'
<1>1. PICK s, t, i, n, u : /\ s = spawn /\ t = spawn' /\ i = s.slot /\ n = i + 1
                           /\ u = Advance(s, "fork")
  OBVIOUS
<1>2. /\ CallStands(s) /\ ParentStands(s) /\ s.at = "init" /\ s \in SpawnRecords
      /\ IsFiniteSet(s.fds) /\ s.kind \in [Slots -> s.open \cup {Ignore, Pipe}]
      /\ s.open \in SUBSET Nat /\ s.par \in [Slots -> Int] /\ s.use \in [Slots -> Int]
  BY <1>1 DEF SpawnInv, SpawnStands, CallStands, SpawnRecords, uv__process_init_stdio
<1>3. /\ PipesStand(s, i) /\ s.fds = s.open \cup EndsBelow(s, i)
      /\ s.owned = {} /\ s.ran = FALSE /\ s.stray = FALSE
  BY <1>1, <1>2 DEF ParentStands, SpawnRecords
<1>4. i \in Slots /\ i \in Nat /\ i < StdioCount /\ \A j \in Slots : j \in Nat
  BY <1>1, <1>2, StdioAssumption DEF SpawnRecords, Slots
<1>5. /\ u \in SpawnRecords
      /\ \/ u.at = "init" /\ u.slot = s.slot + 1
         \/ u.at = "fork" /\ u.slot = 0 /\ s.slot + 1 = StdioCount
      /\ u.open = s.open /\ u.kind = s.kind /\ u.par = s.par /\ u.use = s.use
      /\ u.fds = s.fds /\ u.owned = s.owned /\ u.ran = s.ran /\ u.stray = s.stray
  <2>1. "fork" \in SpawnPlaces
    BY DEF SpawnPlaces
  <2> QED BY <1>1, <1>2, <2>1, AdvanceFacts
<1>6. s.par[i] = Unset /\ s.use[i] = Unset
  BY <1>3, <1>4 DEF PipesStand
<1>7. \A j \in Slots : j < n <=> j < i \/ j = i
  BY <1>1, <1>4
<1>8. \A j \in Slots : j >= n <=> j >= i /\ j # i
  BY <1>1, <1>4
<1>9. CASE s.kind[i] = Ignore /\ t = u
  <2>1. SameCall(s, t)
    BY <1>5, <1>9 DEF SameCall
  <2>2. \A j \in PipeSlots(s) : j # i
    BY <1>9 DEF PipeSlots, Ignore, Pipe
  <2>3. PipesStand(s, n)
    <3>1. \A j \in PipeSlots(s) : j \in Slots /\ (j < n <=> j < i)
      BY <1>7, <2>2 DEF PipeSlots
    <3>2. \A j \in Slots : s.kind[j] # Pipe \/ j >= n =>
            s.par[j] = Unset /\ s.use[j] = IF s.kind[j] = Ignore \/ j >= n THEN Unset ELSE s.kind[j]
      BY <1>3, <1>6, <1>7, <1>8, <1>9 DEF PipesStand
    <3> QED BY <1>3, <3>1, <3>2 DEF PipesStand
  <2>4. EndsBelow(s, n) = EndsBelow(s, i)
    BY <1>7, <2>2 DEF EndsBelow, PipeSlots
  <2>5. PipesStand(t, n) /\ EndsBelow(t, n) = EndsBelow(s, n)
    BY <2>1, <2>3, SameFacts
  <2>6. /\ t \in SpawnRecords /\ IsFiniteSet(t.fds) /\ t.open = s.open /\ t.kind = s.kind
        /\ t.owned = s.owned /\ t.ran = s.ran /\ t.stray = s.stray
        /\ (t.at = "init" /\ t.slot = s.slot + 1) \/ (t.at = "fork" /\ t.slot = 0 /\ s.slot + 1 = StdioCount)
    BY <1>2, <1>5, <1>9
  <2>7. PipesStand(t, s.slot + 1) /\ t.fds = t.open \cup EndsBelow(t, s.slot + 1)
    BY <1>1, <1>3, <1>5, <1>9, <2>4, <2>5
  <2>8. SpawnStands(t)
    BY <1>2, <2>6, <2>7, SlotGiven
  <2> QED BY <1>1, <2>8 DEF SpawnInv
<1>10. CASE t = Failed(s)
  <2>0. i \in Int
    BY <1>4
  <2>1. SpawnStands(t)
    BY <1>2, <1>3, <2>0, <1>10, FailedStands
  <2> QED BY <1>1, <2>1 DEF SpawnInv
<1>11. CASE s.kind[i] = Pipe /\ t = [u EXCEPT !.fds = u.fds \cup {Read(s), Write(s)},
                                             !.par[i] = Read(s), !.use[i] = Write(s)]
  <2>1. PICK r, w, F : r = Read(s) /\ w = Write(s) /\ F = s.fds \cup {r, w}
    OBVIOUS
  <2>2. r \in Nat \ s.fds /\ w \in Nat \ s.fds /\ r # w /\ IsFiniteSet(F) /\ F \in SUBSET Nat
    BY <1>2, <2>1, NewPipe
  <2>3. t = [u EXCEPT !.fds = F, !.par = [s.par EXCEPT ![i] = r], !.use = [s.use EXCEPT ![i] = w]]
    BY <1>2, <1>5, <1>11, <2>1 DEF SpawnRecords
  <2>4. /\ [s.par EXCEPT ![i] = r] \in [Slots -> Int] /\ [s.use EXCEPT ![i] = w] \in [Slots -> Int]
    <3>1. r \in Int /\ w \in Int
      BY <2>2
    <3> QED BY <1>2, <3>1
  <2>5. /\ t \in SpawnRecords /\ t.fds = F /\ t.open = s.open /\ t.kind = s.kind
        /\ t.owned = s.owned /\ t.ran = s.ran /\ t.stray = s.stray /\ t.at = u.at /\ t.slot = u.slot
        /\ t.par = [s.par EXCEPT ![i] = r] /\ t.use = [s.use EXCEPT ![i] = w]
    BY <1>5, <2>2, <2>3, <2>4 DEF SpawnRecords
  <2>6. /\ t.par[i] = r /\ t.use[i] = w
        /\ \A j \in Slots : j # i => t.par[j] = s.par[j] /\ t.use[j] = s.use[j]
    BY <1>2, <1>4, <2>5
  <2>7. Ends(t, i) = {r, w} /\ \A j \in Slots : j # i => Ends(t, j) = Ends(s, j)
    BY <2>6 DEF Ends
  <2>8. PipeSlots(t) = PipeSlots(s) /\ i \in PipeSlots(s) /\ PipeSlots(s) \subseteq Slots
    BY <1>4, <1>11, <2>5 DEF PipeSlots
  <2>9. \A j \in PipeSlots(s) : j < i => Ends(s, j) \subseteq s.fds
    BY <1>3 DEF EndsBelow
  <2>10. PipesStand(t, n)
    <3>1. ASSUME NEW j \in Slots, t.kind[j] # Pipe \/ j >= n
          PROVE  t.par[j] = Unset /\ t.use[j] = IF t.kind[j] = Ignore \/ j >= n THEN Unset ELSE t.kind[j]
      <4>1. j # i /\ (j >= n <=> j >= i)
        BY <1>1, <1>4, <1>8, <1>11, <2>5, <3>1
      <4> QED BY <1>3, <2>5, <2>6, <3>1, <4>1 DEF PipesStand
    <3>2. ASSUME NEW j \in PipeSlots(t), j < n
          PROVE  Ends(t, j) \in SUBSET (Nat \ t.open) /\ t.par[j] # t.use[j]
      <4>1. CASE j = i
        BY <1>3, <2>2, <2>5, <2>6, <2>7, <4>1
      <4>2. CASE j # i
        <5>1. j < i /\ j \in Slots
          BY <1>7, <2>8, <3>2, <4>2
        <5> QED BY <1>3, <2>5, <2>6, <2>7, <2>8, <3>2, <4>2, <5>1 DEF PipesStand
      <4> QED BY <4>1, <4>2
    <3>3. ASSUME NEW j \in PipeSlots(t), NEW k \in PipeSlots(t), j < k, k < n
          PROVE  Ends(t, j) \cap Ends(t, k) = {}
      <4>1. j \in Slots /\ k \in Slots /\ j \in Nat /\ k \in Nat /\ j \in PipeSlots(s) /\ k \in PipeSlots(s)
        BY <1>4, <2>8
      <4>2. j < i /\ j # i
        BY <1>1, <1>4, <3>3, <4>1
      <4>3. CASE k = i
        BY <2>2, <2>7, <2>9, <4>1, <4>2, <4>3
      <4>4. CASE k # i
        <5>1. k < i
          BY <1>7, <3>3, <4>1, <4>4
        <5> QED BY <1>3, <2>7, <3>3, <4>1, <4>2, <4>4, <5>1 DEF PipesStand
      <4> QED BY <4>3, <4>4
    <3> QED BY <3>1, <3>2, <3>3 DEF PipesStand
  <2>11. EndsBelow(t, n) = EndsBelow(s, i) \cup {r, w}
    <3>1. ASSUME NEW f PROVE f \in EndsBelow(t, n) <=> f \in EndsBelow(s, i) \/ f \in {r, w}
      <4>1. f \in EndsBelow(t, n) <=> \E j \in PipeSlots(s) : j < n /\ f \in Ends(t, j)
        BY <2>8 DEF EndsBelow
      <4>2. f \in EndsBelow(s, i) <=> \E j \in PipeSlots(s) : j < i /\ f \in Ends(s, j)
        BY DEF EndsBelow
      <4>3. \A j \in PipeSlots(s) : /\ j < n <=> j < i \/ j = i
                                    /\ j < i => j # i
                                    /\ j # i => Ends(t, j) = Ends(s, j)
        BY <1>4, <1>7, <2>7, <2>8
      <4> QED BY <2>7, <2>8, <4>1, <4>2, <4>3
    <3> QED BY <3>1
  <2>12. t.fds = t.open \cup EndsBelow(t, n)
    BY <1>3, <2>1, <2>5, <2>11
  <2>13. /\ IsFiniteSet(t.fds)
         /\ (t.at = "init" /\ t.slot = s.slot + 1) \/ (t.at = "fork" /\ t.slot = 0 /\ s.slot + 1 = StdioCount)
    BY <1>5, <2>2, <2>5
  <2>14. PipesStand(t, s.slot + 1) /\ t.fds = t.open \cup EndsBelow(t, s.slot + 1)
    BY <1>1, <2>10, <2>12
  <2>15. SpawnStands(t)
    BY ZenonT(30), <1>2, <2>5, <2>13, <2>14, SlotGiven
  <2> QED BY <1>1, <2>15 DEF SpawnInv
<1>12. CASE s.kind[i] \in s.open /\ t = [u EXCEPT !.use[i] = s.kind[i]]
  <2>1. PICK f : f = s.kind[i]
    OBVIOUS
  <2>2. f \in Nat /\ f # Ignore /\ f # Pipe
    BY <1>2, <1>12, <2>1 DEF Ignore, Pipe
  <2>3. t = [u EXCEPT !.use = [s.use EXCEPT ![i] = f]]
    BY <1>2, <1>5, <1>12, <2>1 DEF SpawnRecords
  <2>4. [s.use EXCEPT ![i] = f] \in [Slots -> Int]
    <3>1. f \in Int
      BY <2>2
    <3> QED BY <1>2, <3>1
  <2>5. /\ t \in SpawnRecords /\ t.fds = s.fds /\ t.open = s.open /\ t.kind = s.kind
        /\ t.owned = s.owned /\ t.ran = s.ran /\ t.stray = s.stray /\ t.at = u.at /\ t.slot = u.slot
        /\ t.par = s.par /\ t.use = [s.use EXCEPT ![i] = f]
    BY <1>5, <2>3, <2>4 DEF SpawnRecords
  <2>6. t.use[i] = f /\ \A j \in Slots : j # i => t.use[j] = s.use[j]
    BY <1>2, <1>4, <2>5
  <2>7. /\ PipeSlots(t) = PipeSlots(s) /\ PipeSlots(s) \subseteq Slots
        /\ \A j \in PipeSlots(s) : j # i /\ (j < n <=> j < i)
    BY <1>7, <2>1, <2>2, <2>5 DEF PipeSlots
  <2>8. \A j \in PipeSlots(s) : Ends(t, j) = Ends(s, j) /\ t.par[j] = s.par[j] /\ t.use[j] = s.use[j]
    BY <2>5, <2>6, <2>7 DEF Ends
  <2>9. PipesStand(t, n)
    <3>1. ASSUME NEW j \in Slots, t.kind[j] # Pipe \/ j >= n
          PROVE  t.par[j] = Unset /\ t.use[j] = IF t.kind[j] = Ignore \/ j >= n THEN Unset ELSE t.kind[j]
      <4>1. CASE j = i
        <5>1. ~(j >= n)
          BY <1>1, <1>4, <4>1
        <5> QED BY <1>6, <2>1, <2>2, <2>5, <2>6, <4>1, <5>1
      <4>2. CASE j # i
        <5>1. j >= n <=> j >= i
          BY <1>8, <4>2
        <5> QED BY <1>3, <2>5, <2>6, <3>1, <4>2, <5>1 DEF PipesStand
      <4> QED BY <4>1, <4>2
    <3>2. \A j \in PipeSlots(t) : j < n => Ends(t, j) \in SUBSET (Nat \ t.open) /\ t.par[j] # t.use[j]
      BY <1>3, <2>5, <2>7, <2>8 DEF PipesStand
    <3>3. \A j, k \in PipeSlots(t) : j < k /\ k < n => Ends(t, j) \cap Ends(t, k) = {}
      BY <1>3, <2>7, <2>8 DEF PipesStand
    <3> QED BY <3>1, <3>2, <3>3 DEF PipesStand
  <2>10. EndsBelow(t, n) = EndsBelow(s, i)
    BY <2>7, <2>8 DEF EndsBelow
  <2>11. /\ IsFiniteSet(t.fds)
         /\ (t.at = "init" /\ t.slot = s.slot + 1) \/ (t.at = "fork" /\ t.slot = 0 /\ s.slot + 1 = StdioCount)
    BY <1>2, <1>5, <2>5
  <2>12. PipesStand(t, s.slot + 1) /\ t.fds = t.open \cup EndsBelow(t, s.slot + 1)
    BY <1>1, <1>3, <2>5, <2>9, <2>10
  <2>13. SpawnStands(t)
    BY ZenonT(30), <1>2, <2>5, <2>11, <2>12, SlotGiven
  <2> QED BY <1>1, <2>13 DEF SpawnInv
<1>13. \/ s.kind[i] = Ignore /\ t = u
       \/ t = Failed(s)
       \/ s.kind[i] = Pipe /\ t = [u EXCEPT !.fds = u.fds \cup {Read(s), Write(s)},
                                            !.par[i] = Read(s), !.use[i] = Write(s)]
       \/ s.kind[i] \in s.open /\ t = [u EXCEPT !.use[i] = s.kind[i]]
  BY <1>1 DEF uv__process_init_stdio
<1> QED BY <1>9, <1>10, <1>11, <1>12, <1>13

\* What the child has when it starts.
LEMMA ForkedChild ==
    ASSUME NEW s, CallStands(s), PipesStand(s, StdioCount), SignalStands(s), NEW F,
           F \in SUBSET Nat, IsFiniteSet(F),
           F = s.open \cup EndsBelow(s, StdioCount) \cup {s.signal.r, s.signal.w}, NEW c,
           c = [tab |-> [f \in F |-> f], use |-> s.use, cloexec |-> F \ (s.open \ Private)]
    PROVE  ChildStands(s, c, 0, 0, 0)
<1>1. /\ s \in SpawnRecords /\ s.kind \in [Slots -> s.open \cup {Ignore, Pipe}]
      /\ s.open \in SUBSET Nat /\ s.use \in [Slots -> Int] /\ s.par \in [Slots -> Int]
  BY DEF CallStands, SpawnRecords
<1>2. \A i \in Slots : i \in Nat /\ i < StdioCount /\ ~(i >= StdioCount) /\ ~(i < 0)
  BY StdioAssumption DEF Slots
<1>3. /\ c.use = s.use /\ c.cloexec = F \ (s.open \ Private) /\ DOMAIN c.tab = F
      /\ \A f \in F : c.tab[f] = f
  OBVIOUS
<1>4. c \in Children
  <2>1. [f \in F |-> f] \in [F -> Int]
    OBVIOUS
  <2>2. [f \in F |-> f] \in Tables
    BY <2>1 DEF Tables
  <2> QED BY <1>1, <2>2 DEF Children
<1>5. ASSUME NEW i \in Slots, s.kind[i] = Ignore
      PROVE  s.use[i] = Unset /\ s.par[i] = Unset
  BY <1>5, <1>2 DEF PipesStand, Ignore, Pipe
<1>6. ASSUME NEW i \in Slots, s.kind[i] # Ignore, s.kind[i] # Pipe
      PROVE  /\ s.par[i] = Unset /\ s.use[i] = s.kind[i] /\ s.use[i] \in s.open
             /\ Wanted(s, i) = s.use[i]
  <2>1. s.kind[i] \in s.open
    BY <1>1, <1>6
  <2> QED BY <2>1, <1>6, <1>2 DEF PipesStand, Wanted
<1>7. ASSUME NEW i \in Slots, s.kind[i] = Pipe
      PROVE  /\ i \in PipeSlots(s) /\ i < StdioCount /\ s.par[i] \in Nat /\ s.use[i] \in Nat
             /\ s.par[i] \in F \ s.open /\ s.use[i] \in F \ s.open /\ s.par[i] # s.use[i]
             /\ Wanted(s, i) = s.use[i]
             /\ s.signal.w \notin {s.par[i], s.use[i]}
  <2>1. i \in PipeSlots(s) /\ i < StdioCount
    BY <1>2, <1>7 DEF PipeSlots
  <2>2. Ends(s, i) \in SUBSET (Nat \ s.open) /\ s.par[i] # s.use[i]
    BY <2>1 DEF PipesStand
  <2>3. Ends(s, i) \subseteq EndsBelow(s, StdioCount)
    BY <2>1 DEF EndsBelow
  <2>4. s.signal.w \notin Ends(s, i)
    BY <2>1 DEF SignalStands
  <2> QED BY <1>7, <2>1, <2>2, <2>3, <2>4 DEF Ends, Wanted
<1>8. s.signal.w \in Nat \ s.open /\ s.signal.w \in F
  BY DEF SignalStands
<1>9. ChildUses(s, c, 0, 0)
  <2> SUFFICES ASSUME NEW i \in Slots
               PROVE  /\ s.kind[i] = Ignore => c.use[i] = Unset
                      /\ s.kind[i] # Ignore => c.use[i] \in Nat /\ c.use[i] \in DOMAIN c.tab
                                               /\ c.tab[c.use[i]] = Wanted(s, i)
    BY <1>2, <1>3, <1>4 DEF ChildUses
  <2>1. CASE s.kind[i] = Ignore
    BY <2>1, <1>3, <1>5
  <2>2. CASE s.kind[i] = Pipe
    BY <2>2, <1>3, <1>7 DEF Ignore, Pipe
  <2>3. CASE s.kind[i] # Ignore /\ s.kind[i] # Pipe
    BY <2>3, <1>1, <1>3, <1>6
  <2> QED BY <2>1, <2>2, <2>3
<1>10. ChildPlaced(s, c, 0)
  <2>1. \A i \in Filled(s) : ~(i < 0)
    BY <1>2 DEF Filled, Standard
  <2> QED BY <2>1 DEF ChildPlaced
<1>11. ChildRest(s, c, 0, 0)
  BY <1>3 DEF ChildRest, Accounted
<1>12. ChildPipes(s, c, 0)
  <2>1. ASSUME NEW i \in Slots PROVE s.use[i] # s.signal.w /\ s.par[i] # s.signal.w
    BY <1>5, <1>6, <1>7, <1>8 DEF Unset
  <2>2. ASSUME NEW i \in Slots, NEW j \in Slots, s.par[i] # Unset
        PROVE  s.par[i] # s.use[j] /\ s.par[i] \in F
    <3>1. s.kind[i] = Pipe
      BY <1>5, <1>6, <2>2
    <3>2. CASE s.kind[j] = Pipe /\ j # i
      <4>1. i < j \/ j < i
        BY <1>2, <3>2
      <4>2. Ends(s, i) \cap Ends(s, j) = {}
        BY <1>7, <3>1, <3>2, <4>1 DEF PipesStand
      <4> QED BY <1>7, <3>1, <4>2 DEF Ends
    <3>3. CASE s.kind[j] = Pipe /\ j = i
      BY <1>7, <3>1, <3>3
    <3>4. CASE s.kind[j] # Pipe
      BY <1>5, <1>6, <1>7, <2>2, <3>1, <3>4
    <3> QED BY <3>2, <3>3, <3>4
  <2> QED BY <1>3, <1>8, <2>1, <2>2 DEF ChildPipes
<1> QED BY <1>9, <1>10, <1>11, <1>12 DEF ChildStands

LEMMA SpawnForkStep == ASSUME SpawnInv, uv_spawn_fork PROVE SpawnInv'
<1>1. PICK s, t, r, w, F : /\ s = spawn /\ t = spawn' /\ r = Read(s) /\ w = Write(s)
                           /\ F = s.fds \cup {r, w}
  OBVIOUS
<1>2. /\ CallStands(s) /\ ParentStands(s) /\ s.at = "fork" /\ s \in SpawnRecords
      /\ IsFiniteSet(s.fds) /\ IsFiniteSet(s.open)
      /\ s.kind \in [Slots -> s.open \cup {Ignore, Pipe}]
      /\ s.open \in SUBSET Nat
  BY <1>1 DEF SpawnInv, SpawnStands, CallStands, SpawnRecords, uv_spawn_fork
<1>3. /\ PipesStand(s, StdioCount) /\ s.fds = s.open \cup EndsBelow(s, StdioCount)
      /\ s.slot = 0 /\ s.owned = {} /\ s.ran = FALSE /\ s.stray = FALSE
  BY <1>1, <1>2 DEF ParentStands, SpawnRecords
<1>4. StdioCount \in Int
  BY StdioAssumption
<1>5. r \in Nat \ s.fds /\ w \in Nat \ s.fds /\ r # w /\ IsFiniteSet(F) /\ F \in SUBSET Nat
  BY <1>1, <1>2, NewPipe
<1>6. PICK x : x = [s EXCEPT !.fds = F, !.signal = [r |-> r, w |-> w]]
  OBVIOUS
<1>7. /\ x \in SpawnRecords /\ x.fds = F /\ x.signal.r = r /\ x.signal.w = w /\ x.at = "fork"
      /\ x.open = s.open /\ x.kind = s.kind /\ x.par = s.par /\ x.use = s.use /\ x.slot = 0
      /\ x.owned = {} /\ x.ran = FALSE /\ x.stray = FALSE
  <2>1. r \in Int /\ w \in Int
    BY <1>5
  <2>2. PICK g : g = [r |-> r, w |-> w]
    OBVIOUS
  <2>3. g \in [r : Int, w : Int] /\ g.r = r /\ g.w = w
    BY <2>1, <2>2
  <2>4. x = [s EXCEPT !.fds = F, !.signal = g]
    BY <1>6, <2>2
  <2>5. F \in SUBSET Nat
    BY <1>5
  <2> QED BY <1>2, <1>3, <2>3, <2>4, <2>5 DEF SpawnRecords
<1>8. SameCall(s, x) /\ CallStands(x)
  BY <1>2, <1>5, <1>7 DEF SameCall, CallStands
<1>9. PipesStand(x, StdioCount) /\ EndsBelow(x, StdioCount) = EndsBelow(s, StdioCount)
  BY <1>3, <1>8, SameFacts
<1>10. SignalStands(x)
  <2>1. ASSUME NEW i \in PipeSlots(x) PROVE Ends(x, i) \subseteq s.fds
    <3>1. i < StdioCount
      BY StdioAssumption DEF PipeSlots, Slots
    <3>2. Ends(x, i) \subseteq EndsBelow(x, StdioCount)
      BY <3>1 DEF EndsBelow
    <3> QED BY <1>3, <1>9, <3>2
  <2> QED BY <1>3, <1>5, <1>7, <2>1 DEF SignalStands
<1>11. CASE t = Failed(s)
  <2>1. SpawnStands(t)
    BY <1>2, <1>3, <1>4, <1>11, FailedStands
  <2> QED BY <1>1, <2>1 DEF SpawnInv
<1>12. ASSUME NEW un, un = uv__close(x, {r, w}), t = IF un.at = "abort" THEN un ELSE Failed(un)
       PROVE  SpawnInv'
  <2>1. PICK E : E = {r, w}
    OBVIOUS
  <2>2. un = uv__close(x, E) /\ x.at # "abort" /\ E \in SUBSET Nat /\ IsFiniteSet(x.fds)
    BY <1>5, <1>7, <1>12, <2>1
  <2>3. \/ un.at # "abort" /\ un = CloseAll(x, E)
        \/ un.at = "abort" /\ un = [x EXCEPT !.at = "abort"]
    BY <1>7, <2>2, uv__closeFacts
  <2>4. CASE un.at = "abort" /\ un = [x EXCEPT !.at = "abort"]
    <3>1. SpawnStands(un)
      BY <1>7, <1>8, <2>4, AbortStands
    <3> QED BY <1>1, <1>12, <2>4, <3>1 DEF SpawnInv
  <2>5. CASE un.at # "abort" /\ un = CloseAll(x, E)
    <3>1. /\ un \in SpawnRecords /\ IsFiniteSet(un.fds) /\ un.fds = x.fds \ E
          /\ (E \subseteq x.fds \ x.open => un.stray = x.stray)
          /\ un.open = x.open /\ un.kind = x.kind /\ un.par = x.par /\ un.use = x.use
          /\ un.owned = x.owned /\ un.ran = x.ran
      BY <1>7, <2>2, <2>5, CloseFacts
    <3>2. SameCall(s, un) /\ CallStands(un)
      BY <1>2, <1>7, <3>1 DEF SameCall, CallStands
    <3>3. PipesStand(un, StdioCount) /\ EndsBelow(un, StdioCount) = EndsBelow(s, StdioCount)
      BY <1>3, <3>2, SameFacts
    <3>4. un.fds = s.fds /\ E \subseteq x.fds \ x.open
      BY <1>1, <1>3, <1>5, <1>7, <2>1, <3>1
    <3>5. un.stray = FALSE /\ un.ran = FALSE /\ un.owned = {}
      BY <1>7, <3>1, <3>4
    <3>6. un.fds = un.open \cup EndsBelow(un, StdioCount)
      BY <1>3, <1>7, <3>1, <3>3, <3>4
    <3>7. t = Failed(un)
      BY <1>12, <2>5
    <3>8. SpawnStands(t)
      BY <1>4, <3>2, <3>3, <3>5, <3>6, <3>7, FailedStands
    <3> QED BY <1>1, <3>8 DEF SpawnInv
  <2> QED BY <2>3, <2>4, <2>5
<1>13. ASSUME NEW c, c = [tab |-> [f \in F |-> f], use |-> s.use, cloexec |-> F \ (s.open \ Private)],
              NEW y, y = [x EXCEPT !.at = "move", !.child = c], t = uv__close(y, {w})
       PROVE  SpawnInv'
  <2>1. ChildStands(x, c, 0, 0, 0)
    <3>1. F = x.open \cup EndsBelow(x, StdioCount) \cup {x.signal.r, x.signal.w}
      BY <1>1, <1>3, <1>7, <1>9
    <3>2. c = [tab |-> [f \in F |-> f], use |-> x.use, cloexec |-> F \ (x.open \ Private)]
      BY <1>7, <1>13
    <3> QED BY <1>5, <1>8, <1>9, <1>10, <3>1, <3>2, ForkedChild
  <2>2. c \in Children
    BY <2>1 DEF ChildStands, ChildUses
  <2>3. /\ y \in SpawnRecords /\ y.fds = F /\ y.signal = x.signal /\ y.at = "move" /\ y.child = c
        /\ y.open = s.open /\ y.kind = s.kind /\ y.par = s.par /\ y.use = s.use /\ y.slot = 0
        /\ y.owned = {} /\ y.ran = FALSE /\ y.stray = FALSE
    BY <1>7, <1>13, <2>2 DEF SpawnRecords, SpawnPlaces
  <2>4. CallStands(y)
    BY <1>2, <1>5, <2>3 DEF CallStands
  <2>5. PICK E : E = {w}
    OBVIOUS
  <2>6. t = uv__close(y, E) /\ y.at # "abort" /\ E \in SUBSET Nat /\ IsFiniteSet(y.fds)
    BY <1>5, <1>13, <2>3, <2>5
  <2>7. \/ t.at # "abort" /\ t = CloseAll(y, E)
        \/ t.at = "abort" /\ t = [y EXCEPT !.at = "abort"]
    BY <2>3, <2>6, uv__closeFacts
  <2>8. CASE t.at = "abort" /\ t = [y EXCEPT !.at = "abort"]
    <3>1. SpawnStands(t)
      BY <2>3, <2>4, <2>8, AbortStands
    <3> QED BY <1>1, <3>1 DEF SpawnInv
  <2>9. CASE t = CloseAll(y, E)
    <3>1. /\ t \in SpawnRecords /\ IsFiniteSet(t.fds) /\ t.fds = y.fds \ E
          /\ (E \subseteq y.fds \ y.open => t.stray = y.stray)
          /\ t.open = y.open /\ t.kind = y.kind /\ t.at = y.at /\ t.slot = y.slot
          /\ t.par = y.par /\ t.use = y.use /\ t.signal = y.signal /\ t.owned = y.owned
          /\ t.ran = y.ran /\ t.child = y.child
      BY <2>3, <2>6, <2>9, CloseFacts
    <3>2. CallStands(t)
      BY <1>2, <2>3, <3>1 DEF CallStands
    <3>3. SameCall(x, t) /\ t.signal = x.signal
      BY <1>7, <2>3, <3>1 DEF SameCall
    <3>4. /\ PipesStand(t, StdioCount) /\ SignalStands(t)
          /\ EndsBelow(t, StdioCount) = EndsBelow(s, StdioCount)
      BY <1>9, <1>10, <3>3, SameFacts
    <3>5. E \subseteq y.fds \ y.open /\ y.fds \ E = s.fds \cup {r}
      BY <1>1, <1>3, <1>5, <2>3, <2>5
    <3>6. t.fds = t.open \cup EndsBelow(t, StdioCount) \cup {t.signal.r}
      BY <1>3, <1>7, <2>3, <3>1, <3>4, <3>5
    <3>7. t.at = "move" /\ t.slot = 0 /\ t.owned = {} /\ t.ran = FALSE /\ t.stray = FALSE /\ t.child = c
      BY <2>3, <3>1, <3>5
    <3>8. ParentStands(t)
      BY <3>4, <3>6, <3>7 DEF ParentStands, InChild
    <3>9. ChildStands(t, c, 0, 0, 0)
      BY <2>1, <3>3, SameChild
    <3>10. ChildAt(t) /\ OutcomeStands(t)
      BY <3>7, <3>9 DEF ChildAt, OutcomeStands
    <3> QED BY <1>1, <3>2, <3>8, <3>10 DEF SpawnInv, SpawnStands
  <2> QED BY <2>7, <2>8, <2>9
<1> QED BY <1>1, <1>6, <1>7, <1>11, <1>12, <1>13 DEF uv_spawn_fork

\* What the parent has when the child has exec'd or failed.
LEMMA HeardFacts ==
    ASSUME NEW s, CallStands(s), ParentStands(s), s.at \in InChild, NEW e \in BOOLEAN,
           NEW u, u = Heard(s, e)
    PROVE  /\ u \in SpawnRecords /\ CallStands(u) /\ ParentStands(u) /\ SameCall(s, u)
           /\ u.at = "streams" /\ u.slot = 0 /\ u.signal = s.signal /\ u.err = e
           /\ u.ran = FALSE /\ u.child = s.child /\ s.ran = FALSE
<1>1. /\ s \in SpawnRecords /\ IsFiniteSet(s.fds) /\ IsFiniteSet(s.open)
      /\ s.kind \in [Slots -> s.open \cup {Ignore, Pipe}]
  BY DEF CallStands
<1>2. /\ s.owned = {} /\ s.ran = FALSE /\ s.stray = FALSE /\ PipesStand(s, StdioCount)
      /\ SignalStands(s)
      /\ s.fds = s.open \cup EndsBelow(s, StdioCount) \cup {s.signal.r}
  BY <1>1 DEF ParentStands, SpawnRecords
<1>3. s.signal.r \in Nat \ s.open
  BY <1>2 DEF SignalStands
<1>4. s.signal.r \notin EndsBelow(s, StdioCount)
  BY <1>2 DEF SignalStands, EndsBelow
<1>5. PICK E, v : E = {s.signal.r} /\ v = CloseAll(s, E)
  OBVIOUS
<1>6. E \in SUBSET Nat
  BY <1>3, <1>5
<1>7. /\ v \in SpawnRecords /\ IsFiniteSet(v.fds) /\ v.fds = s.fds \ E
      /\ (E \subseteq s.fds \ s.open => v.stray = s.stray)
      /\ v.open = s.open /\ v.kind = s.kind /\ v.par = s.par /\ v.use = s.use
      /\ v.signal = s.signal /\ v.owned = s.owned /\ v.ran = s.ran /\ v.child = s.child
  BY <1>1, <1>5, <1>6, CloseFacts
<1>8. 0 \in Slots /\ \A i \in Slots : ~(i < 0)
  BY StdioAssumption DEF Slots
<1>9. u = [v EXCEPT !.at = "streams", !.slot = 0, !.err = e]
  BY <1>5 DEF Heard
<1>10. /\ u \in SpawnRecords /\ u.at = "streams" /\ u.slot = 0 /\ u.err = e /\ u.fds = v.fds
       /\ u.open = v.open /\ u.kind = v.kind /\ u.par = v.par /\ u.use = v.use
       /\ u.signal = v.signal /\ u.owned = v.owned /\ u.ran = v.ran /\ u.child = v.child
       /\ u.stray = v.stray
  BY <1>7, <1>8, <1>9 DEF SpawnRecords, SpawnPlaces
<1>11. SameCall(s, u) /\ u.signal = s.signal /\ u.ran = FALSE /\ u.child = s.child /\ u.owned = {}
  BY <1>2, <1>7, <1>10 DEF SameCall
<1>12. CallStands(u)
  BY <1>1, <1>7, <1>10 DEF CallStands
<1>13. u.stray = FALSE /\ u.fds = s.open \cup EndsBelow(s, StdioCount)
  BY <1>2, <1>3, <1>4, <1>5, <1>7, <1>10
<1>14. PipesStand(u, StdioCount) /\ EndsBelow(u, StdioCount) = EndsBelow(s, StdioCount)
  BY <1>2, <1>11, SameFacts
<1>15. {j \in PipeSlots(u) : j < 0} = {}
  BY <1>8 DEF PipeSlots
<1>16. /\ ParsBelow(u, 0) = {}
       /\ {u.use[i] : i \in {j \in PipeSlots(u) : j < 0}} = {}
  BY <1>15 DEF ParsBelow
<1>17. u.fds = u.open \cup (EndsBelow(u, StdioCount) \ {u.use[i] : i \in {j \in PipeSlots(u) : j < u.slot}})
  BY <1>7, <1>10, <1>13, <1>14, <1>16
<1>18. ParentStands(u)
  BY <1>10, <1>11, <1>13, <1>14, <1>16, <1>17 DEF ParentStands, InChild
<1> QED BY <1>2, <1>10, <1>11, <1>12, <1>18

LEMMA ChildFailsStep ==
    ASSUME SpawnInv, spawn.at \in InChild, NEW m, NEW p, NEW k,
           ChildStands(spawn, spawn.child, m, p, k), ChildFails
    PROVE  SpawnInv'
<1>1. PICK s, t, e : /\ s = spawn /\ t = spawn' /\ t = Heard(s, e)
                     /\ e = (s.signal.w \in DOMAIN s.child.tab
                             /\ s.child.tab[s.signal.w] = s.signal.w)
  BY DEF ChildFails
<1>2. CallStands(s) /\ ParentStands(s) /\ s.at \in InChild /\ e \in BOOLEAN
  BY <1>1 DEF SpawnInv, SpawnStands
<1>3. e \/ s.signal.w \in Filled(s)
  BY <1>1 DEF ChildStands, ChildPipes
<1>4. /\ CallStands(t) /\ ParentStands(t) /\ SameCall(s, t) /\ t.signal = s.signal
      /\ t.at = "streams" /\ t.err = e /\ t.ran = FALSE
  <2>1. t = Heard(s, e)
    BY <1>1
  <2> QED BY <1>2, <2>1, HeardFacts, ZenonT(60)
<1>5. Filled(t) = Filled(s)
  BY <1>4, SameFacts
<1>6. ChildAt(t) /\ OutcomeStands(t)
  BY <1>3, <1>4, <1>5 DEF ChildAt, OutcomeStands
<1> QED BY <1>1, <1>4, <1>6 DEF SpawnInv, SpawnStands

\* A turn of one of the loops, that leaves the child with d.
LEMMA TurnStands ==
    ASSUME NEW s, SpawnStands(s), NEW n, n = s.slot + 1, NEW d, NEW after,
           \/ s.at = "move" /\ after = "place" /\ ChildStands(s, d, n, 0, 0)
           \/ s.at = "place" /\ after = "close" /\ ChildStands(s, d, StdioCount, n, 0)
           \/ s.at = "close" /\ after = "exec" /\ ChildStands(s, d, StdioCount, StdioCount, n),
           NEW u, u = Advance(s, after), NEW t, t = [u EXCEPT !.child = d]
    PROVE  SpawnStands(t)
<1>1. /\ s \in SpawnRecords /\ CallStands(s) /\ ParentStands(s) /\ OutcomeStands(s)
      /\ s.at \in InChild /\ after \in SpawnPlaces
  BY DEF SpawnStands, CallStands, InChild, SpawnPlaces
<1>2. /\ u \in SpawnRecords
      /\ \/ u.at = s.at /\ u.slot = n
         \/ u.at = after /\ u.slot = 0 /\ n = StdioCount
      /\ u.open = s.open /\ u.kind = s.kind /\ u.par = s.par /\ u.use = s.use
      /\ u.signal = s.signal /\ u.fds = s.fds /\ u.owned = s.owned /\ u.err = s.err
      /\ u.ran = s.ran /\ u.stray = s.stray
  BY <1>1, AdvanceFacts
<1>3. d \in Children
  BY DEF ChildStands, ChildUses
<1>4. /\ t \in SpawnRecords /\ t.at = u.at /\ t.slot = u.slot /\ t.child = d
      /\ t.open = s.open /\ t.kind = s.kind /\ t.par = s.par /\ t.use = s.use
      /\ t.signal = s.signal /\ t.fds = s.fds /\ t.owned = s.owned
      /\ t.ran = s.ran /\ t.stray = s.stray
  BY <1>2, <1>3 DEF SpawnRecords
<1>5. SameCall(s, t) /\ t.at \in InChild
  BY <1>2, <1>4 DEF SameCall, InChild
<1>6. CallStands(t)
  BY <1>1, <1>4 DEF CallStands
<1>7. /\ s.ran = FALSE /\ s.stray = FALSE /\ s.owned = {} /\ PipesStand(s, StdioCount)
      /\ SignalStands(s) /\ s.fds = s.open \cup EndsBelow(s, StdioCount) \cup {s.signal.r}
  BY <1>1 DEF ParentStands, SpawnRecords
<1>8. /\ PipesStand(t, StdioCount) /\ SignalStands(t)
      /\ EndsBelow(t, StdioCount) = EndsBelow(s, StdioCount)
  <2>1. SameCall(s, t) /\ t.signal = s.signal /\ PipesStand(s, StdioCount) /\ SignalStands(s)
    BY <1>4, <1>5, <1>7
  <2> QED BY <2>1, SameFacts
<1>9. t.fds = t.open \cup EndsBelow(t, StdioCount) \cup {t.signal.r}
  BY <1>4, <1>7, <1>8
<1>10. ParentStands(t)
  BY <1>4, <1>5, <1>7, <1>8, <1>9 DEF ParentStands, InChild
<1>11. ASSUME NEW m, NEW p, NEW k, ChildStands(s, d, m, p, k) PROVE ChildStands(t, d, m, p, k)
  BY <1>4, <1>5, <1>11, SameChild
<1>12. ChildAt(t)
  <2>1. CASE s.at = "move" /\ after = "place" /\ ChildStands(s, d, n, 0, 0)
    BY <1>2, <1>4, <1>11, <2>1 DEF ChildAt
  <2>2. CASE s.at = "place" /\ after = "close" /\ ChildStands(s, d, StdioCount, n, 0)
    BY <1>2, <1>4, <1>11, <2>2 DEF ChildAt
  <2>3. CASE s.at = "close" /\ after = "exec" /\ ChildStands(s, d, StdioCount, StdioCount, n)
    BY <1>2, <1>4, <1>11, <2>3 DEF ChildAt
  <2> QED BY <2>1, <2>2, <2>3
<1>13. OutcomeStands(t)
  BY <1>4, <1>5, <1>7 DEF OutcomeStands, InChild
<1> QED BY <1>6, <1>10, <1>12, <1>13 DEF SpawnStands

LEMMA ChildMoveStep == ASSUME SpawnInv, MoveUp PROVE SpawnInv'
<1>1. PICK s, t, i, n, c, u, new :
        /\ s = spawn /\ t = spawn' /\ i = s.slot /\ n = i + 1 /\ c = s.child
        /\ u = Advance(s, "place") /\ new = Lowest(DOMAIN c.tab, StdioCount)
  OBVIOUS
<1>2. SpawnStands(s) /\ s.at = "move" /\ s \in SpawnRecords /\ ChildStands(s, c, i, 0, 0)
  BY <1>1 DEF SpawnInv, SpawnStands, CallStands, ChildAt, MoveUp
<1>3. i \in Slots /\ s.child = c /\ n = s.slot + 1 /\ n = i + 1
  BY <1>1, <1>2 DEF SpawnRecords
<1>4. /\ u \in SpawnRecords /\ u.child = c
  <2>1. "place" \in SpawnPlaces
    BY DEF SpawnPlaces
  <2> QED BY <1>1, <1>2, <2>1, AdvanceFacts
<1>5. CASE (c.use[i] < 0 \/ c.use[i] >= i) /\ t = u
  <2>1. ChildStands(s, c, n, 0, 0)
    BY <1>2, <1>3, <1>5, MoveKeeps
  <2>2. t = [u EXCEPT !.child = c]
    BY <1>4, <1>5 DEF SpawnRecords
  <2>3. u = Advance(s, "place")
    BY <1>1
  <2>4. SpawnStands(t)
    BY <1>2, <1>3, <2>1, <2>2, <2>3, TurnStands
  <2> QED BY <1>1, <2>4 DEF SpawnInv
<1>6. CASE ChildFails
  BY <1>1, <1>2, <1>6, ChildFailsStep DEF InChild
<1>7. ASSUME NEW d, d = [tab |-> Put(c.tab, new, c.tab[c.use[i]]),
                         use |-> [c.use EXCEPT ![i] = new], cloexec |-> c.cloexec \ {new}],
             c.use[i] >= 0, c.use[i] < i, t = [u EXCEPT !.child = d]
      PROVE  SpawnInv'
  <2>1. ChildStands(s, d, n, 0, 0)
    <3>1. new = Lowest(DOMAIN c.tab, StdioCount) /\ 0 <= c.use[i]
      BY <1>1, <1>7
    <3>2. ChildStands(s, d, i + 1, 0, 0)
      BY <1>2, <1>3, <1>7, <3>1, MoveMoves
    <3> QED BY <1>3, <3>2
  <2>2. u = Advance(s, "place") /\ t = [u EXCEPT !.child = d]
    BY <1>1, <1>7
  <2>3. SpawnStands(t)
    BY <1>2, <1>3, <2>1, <2>2, TurnStands
  <2> QED BY <1>1, <2>3 DEF SpawnInv
<1>8. c.use[i] \in Int
  BY <1>2, <1>3 DEF ChildStands, ChildUses, Children
<1>9. c.use[i] < 0 \/ c.use[i] >= i \/ (c.use[i] >= 0 /\ c.use[i] < i)
  <2>1. i \in Int
    BY <1>3, StdioAssumption DEF Slots
  <2> QED BY <1>8, <2>1
<1>10. IF c.use[i] < 0 \/ c.use[i] >= i THEN t = u
       ELSE \/ ChildFails
            \/ t = [u EXCEPT !.child = [tab |-> Put(c.tab, new, c.tab[c.use[i]]),
                                        use |-> [c.use EXCEPT ![i] = new],
                                        cloexec |-> c.cloexec \ {new}]]
  BY <1>1 DEF MoveUp
<1> QED BY <1>5, <1>6, <1>7, <1>9, <1>10

LEMMA ChildPlaceStep == ASSUME SpawnInv, Place PROVE SpawnInv'
<1>1. PICK s, t, i, n, c, u, null, m, k :
        /\ s = spawn /\ t = spawn' /\ i = s.slot /\ n = i + 1 /\ c = s.child
        /\ u = Advance(s, "close") /\ null = Lowest(DOMAIN c.tab, 0) /\ m = StdioCount /\ k = 0
  OBVIOUS
<1>2. SpawnStands(s) /\ s.at = "place" /\ s \in SpawnRecords /\ ChildStands(s, c, StdioCount, i, 0)
  BY <1>1 DEF SpawnInv, SpawnStands, CallStands, ChildAt, Place
<1>3. i \in Slots /\ s.child = c /\ n = s.slot + 1 /\ n = i + 1 /\ u = Advance(s, "close")
  BY <1>1, <1>2 DEF SpawnRecords
<1>4. /\ u \in SpawnRecords /\ u.child = c
  <2>1. "close" \in SpawnPlaces
    BY DEF SpawnPlaces
  <2> QED BY <1>1, <1>2, <2>1, AdvanceFacts
<1>5. ASSUME NEW d, ChildStands(s, d, StdioCount, n, 0), t = [u EXCEPT !.child = d] PROVE SpawnInv'
  <2>1. SpawnStands(t)
    BY <1>2, <1>3, <1>5, TurnStands
  <2> QED BY <1>1, <2>1 DEF SpawnInv
<1>6. CASE c.use[i] < 0 /\ i \notin Standard /\ t = u
  <2>1. ChildStands(s, c, StdioCount, n, 0)
    BY <1>2, <1>3, <1>6, PlaceSkips
  <2>2. t = [u EXCEPT !.child = c]
    BY <1>4, <1>6 DEF SpawnRecords
  <2> QED BY <1>5, <2>1, <2>2
<1>7. CASE c.use[i] < 0 /\ i \in Standard
           /\ t = [u EXCEPT !.child = Placed(NullOpened(c, null), i, null, null)]
  <2>1. PICK d : d = Placed(NullOpened(c, null), i, null, null)
    OBVIOUS
  <2>2. null = Lowest(DOMAIN c.tab, 0)
    BY <1>1
  <2>3. ChildStands(s, d, StdioCount, i + 1, 0)
    BY <1>2, <1>3, <1>7, <2>1, <2>2, PlaceNulls
  <2> QED BY <1>3, <1>5, <1>7, <2>1, <2>3
<1>8. CASE c.use[i] >= 0 /\ t = [u EXCEPT !.child = Placed(c, i, c.use[i], s.par[i])]
  <2>1. PICK d : d = Placed(c, i, c.use[i], s.par[i])
    OBVIOUS
  <2>2. ChildStands(s, d, StdioCount, i + 1, 0)
    BY <1>2, <1>3, <1>8, <2>1, PlaceUses
  <2> QED BY <1>3, <1>5, <1>8, <2>1, <2>2
<1>9. CASE ChildFails
  BY <1>1, <1>2, <1>9, ChildFailsStep DEF InChild
<1>10. \/ c.use[i] < 0 /\ i \notin Standard /\ t = u
       \/ c.use[i] < 0 /\ i \in Standard
          /\ t = [u EXCEPT !.child = Placed(NullOpened(c, null), i, null, null)]
       \/ c.use[i] >= 0 /\ t = [u EXCEPT !.child = Placed(c, i, c.use[i], s.par[i])]
       \/ ChildFails
  BY <1>1 DEF Place
<1> QED BY <1>6, <1>7, <1>8, <1>9, <1>10

LEMMA ChildCloseStep == ASSUME SpawnInv, CloseUsed PROVE SpawnInv'
<1>1. PICK s, t, i, n, c, u, x :
        /\ s = spawn /\ t = spawn' /\ i = s.slot /\ n = i + 1 /\ c = s.child
        /\ u = Advance(s, "exec") /\ x = c.use[i]
  OBVIOUS
<1>2. /\ SpawnStands(s) /\ s.at = "close" /\ s \in SpawnRecords
      /\ ChildStands(s, c, StdioCount, StdioCount, i)
  BY <1>1 DEF SpawnInv, SpawnStands, CallStands, ChildAt, CloseUsed
<1>3. i \in Slots /\ s.child = c /\ n = s.slot + 1 /\ n = i + 1 /\ u = Advance(s, "exec")
  BY <1>1, <1>2 DEF SpawnRecords
<1>4. /\ u \in SpawnRecords /\ u.child = c
  <2>1. "exec" \in SpawnPlaces
    BY DEF SpawnPlaces
  <2> QED BY <1>1, <1>2, <2>1, AdvanceFacts
<1>5. PICK d : d = IF c.use[i] >= StdioCount THEN [c EXCEPT !.tab = Drop(c.tab, c.use[i])] ELSE c
  OBVIOUS
<1>6. ChildStands(s, d, StdioCount, StdioCount, i + 1)
  BY <1>2, <1>3, <1>5, CloseKeeps
<1>7. t = IF x >= StdioCount THEN [u EXCEPT !.child.tab = Drop(u.child.tab, x)] ELSE u
  BY <1>1 DEF CloseUsed
<1>8. t = [u EXCEPT !.child = d]
  <2>1. CASE x >= StdioCount
    BY <1>1, <1>4, <1>5, <1>7, <2>1 DEF SpawnRecords
  <2>2. CASE ~(x >= StdioCount)
    <3>1. d = c /\ t = u
      BY <1>1, <1>5, <1>7, <2>2
    <3> QED BY <1>4, <3>1 DEF SpawnRecords
  <2> QED BY <2>1, <2>2
<1>9. SpawnStands(t)
  BY <1>2, <1>3, <1>6, <1>8, TurnStands
<1> QED BY <1>1, <1>9 DEF SpawnInv

\* exec with every slot placed and closed.
LEMMA ExecFills ==
    ASSUME NEW s, CallStands(s), ChildStands(s, s.child, StdioCount, StdioCount, StdioCount),
           NEW c, c = s.child,
           NEW t, t = [f \in DOMAIN c.tab \ c.cloexec |-> c.tab[f]],
           NEW u, SameCall(s, u), u.child.tab = t
    PROVE  ChildFilled(u) /\ t \in Tables
<1>1. /\ \A i \in Slots : i \in Nat /\ i < StdioCount /\ ~(i >= StdioCount)
      /\ StdioCount \in Nat /\ StdioCount >= 3
  BY StdioAssumption DEF Slots
<1>2. \A i \in Filled(s) : i < StdioCount
  BY <1>1 DEF Filled, Standard, Slots
<1>3. Filled(u) = Filled(s) /\ (\A i : Wanted(u, i) = Wanted(s, i)) /\ u.open = s.open
  BY SameFacts DEF SameCall
<1>4. \A i \in Filled(s) : i \in DOMAIN t /\ t[i] = Wanted(s, i)
  BY <1>2 DEF ChildStands, ChildPlaced
<1>5. ASSUME NEW f \in DOMAIN t \ Filled(s)
      PROVE  (f \in s.open \ Private /\ t[f] = f) \/ (f \in Slots /\ t[f] = DevNull)
  <2>1. f \in DOMAIN c.tab /\ f \notin c.cloexec /\ t[f] = c.tab[f]
    OBVIOUS
  <2>2. Accounted(s, c, StdioCount, f)
    BY <2>1 DEF ChildStands, ChildRest
  <2> QED BY <1>1, <2>1, <2>2 DEF Accounted
<1>6. ChildFilled(u)
  BY <1>3, <1>4, <1>5 DEF ChildFilled
<1>7. t \in Tables
  <2>1. c \in Children
    BY DEF ChildStands, ChildUses
  <2>2. PICK D \in SUBSET Nat : c.tab \in [D -> Int]
    BY <2>1 DEF Children, Tables
  <2>3. t \in [DOMAIN t -> Int] /\ DOMAIN t \in SUBSET Nat
    BY <2>2
  <2> QED BY <2>3 DEF Tables
<1> QED BY <1>6, <1>7

LEMMA ChildExecStep == ASSUME SpawnInv, Exec PROVE SpawnInv'
<1>1. PICK s, t, c, u, e : /\ s = spawn /\ t = spawn' /\ c = s.child /\ e = FALSE
                           /\ u = Heard(s, e)
  OBVIOUS
<1>2. /\ CallStands(s) /\ ParentStands(s) /\ s.at = "exec" /\ s.at \in InChild
      /\ ChildStands(s, c, StdioCount, StdioCount, StdioCount) /\ e \in BOOLEAN /\ c = s.child
  BY <1>1 DEF SpawnInv, SpawnStands, ChildAt, Exec, InChild
<1>3. CASE ChildFails
  BY <1>1, <1>2, <1>3, ChildFailsStep
<1>4. ASSUME NEW x, x = [f \in DOMAIN c.tab \ c.cloexec |-> c.tab[f]],
             t = [u EXCEPT !.ran = TRUE, !.child.tab = x]
      PROVE  SpawnInv'
  <2>0. u = Heard(s, e)
    BY <1>1
  <2>1. /\ u \in SpawnRecords /\ CallStands(u) /\ ParentStands(u) /\ SameCall(s, u)
        /\ u.at = "streams" /\ u.slot = 0 /\ u.signal = s.signal /\ u.err = e
        /\ u.ran = FALSE /\ u.child = s.child
    BY <1>2, <2>0, HeardFacts, ZenonT(60)
  <2>2. PICK d : d = [u.child EXCEPT !.tab = x]
    OBVIOUS
  <2>3. t = [u EXCEPT !.ran = TRUE, !.child = d]
    BY <1>4, <2>1, <2>2 DEF SpawnRecords
  <2>4. c \in Children /\ u.child = c
    BY <1>2, <2>1 DEF ChildStands, ChildUses
  <2>5. d.tab = x
    BY <2>2, <2>4 DEF Children
  <2>6. /\ t.at = "streams" /\ t.slot = 0 /\ t.ran = TRUE /\ t.child = d /\ t.err = e
        /\ t.open = u.open /\ t.kind = u.kind /\ t.par = u.par /\ t.use = u.use
        /\ t.signal = u.signal /\ t.fds = u.fds /\ t.owned = u.owned /\ t.stray = u.stray
    BY <2>1, <2>3 DEF SpawnRecords
  <2>7. SameCall(s, t) /\ SameCall(u, t) /\ t.child.tab = x
    BY <2>1, <2>5, <2>6 DEF SameCall
  <2>8. ChildFilled(t) /\ x \in Tables
    <3>1. /\ CallStands(s) /\ ChildStands(s, s.child, StdioCount, StdioCount, StdioCount)
          /\ c = s.child
      BY <1>2
    <3>2. x = [f \in DOMAIN c.tab \ c.cloexec |-> c.tab[f]]
      BY <1>4
    <3>3. SameCall(s, t) /\ t.child.tab = x
      BY <2>7
    <3> QED BY <3>1, <3>2, <3>3, ExecFills
  <2>9. d \in Children
    BY <2>2, <2>4, <2>8 DEF Children
  <2>10. t \in SpawnRecords
    BY <2>1, <2>3, <2>9 DEF SpawnRecords
  <2>11. CallStands(t)
    BY <2>1, <2>6, <2>10 DEF CallStands
  <2>12. /\ \A n : PipesStand(t, n) <=> PipesStand(u, n)
         /\ \A n : EndsBelow(t, n) = EndsBelow(u, n) /\ ParsBelow(t, n) = ParsBelow(u, n)
         /\ PipeSlots(t) = PipeSlots(u)
    BY <2>7, SameFacts
  <2>13. ParentStands(t)
    BY <2>1, <2>6, <2>12 DEF ParentStands, InChild
  <2>14. ChildAt(t) /\ OutcomeStands(t)
    BY <1>1, <2>6, <2>8 DEF ChildAt, OutcomeStands
  <2> QED BY <1>1, <2>11, <2>13, <2>14 DEF SpawnInv, SpawnStands
<1>5. ChildFails \/ t = [u EXCEPT !.ran = TRUE,
                              !.child.tab = [f \in DOMAIN c.tab \ c.cloexec |-> c.tab[f]]]
  BY <1>1 DEF Exec
<1> QED BY <1>3, <1>4, <1>5

\* Another stream has its pipe, and the child's end of it is closed.
LEMMA StreamGiven ==
    ASSUME NEW s, CallStands(s), ParentStands(s), OutcomeStands(s), s.at = "streams",
           NEW n, n = s.slot + 1,
           NEW t \in SpawnRecords, IsFiniteSet(t.fds), SameCall(s, t), t.signal = s.signal,
           t.ran = s.ran, t.err = s.err, t.child = s.child, t.stray = FALSE,
           \/ t.at = "streams" /\ t.slot = n
           \/ t.at = "returned" /\ n = StdioCount,
           t.fds = s.open \cup (EndsBelow(s, StdioCount)
                                  \ {s.use[i] : i \in {j \in PipeSlots(s) : j < n}}),
           t.owned = ParsBelow(s, n)
    PROVE  SpawnStands(t)
<1>1. CallStands(t)
  BY DEF CallStands, SameCall
<1>2. PipesStand(s, StdioCount)
  BY DEF ParentStands
<1>3. /\ PipesStand(t, StdioCount) /\ EndsBelow(t, StdioCount) = EndsBelow(s, StdioCount)
      /\ ParsBelow(t, n) = ParsBelow(s, n) /\ PipeSlots(t) = PipeSlots(s)
      /\ ParsBelow(t, StdioCount) = ParsBelow(s, StdioCount)
      /\ Filled(t) = Filled(s) /\ (ChildFilled(s) <=> ChildFilled(t))
  BY <1>2, SameFacts
<1>4. t.use = s.use /\ t.open = s.open
  BY DEF SameCall
<1>5. ParentStands(t)
  <2>1. CASE t.at = "streams" /\ t.slot = n
    BY <1>3, <1>4, <2>1 DEF ParentStands, InChild
  <2>2. CASE t.at = "returned" /\ n = StdioCount
    <3>1. \A i \in PipeSlots(s) : i < n
      BY <2>2, StdioAssumption DEF PipeSlots, Slots
    <3>2. ASSUME NEW f
          PROVE  f \in EndsBelow(s, StdioCount) \ {s.use[i] : i \in {j \in PipeSlots(s) : j < n}}
                   <=> f \in ParsBelow(s, n)
      <4>1. ASSUME NEW i \in PipeSlots(s), NEW j \in PipeSlots(s) PROVE s.par[i] # s.use[j]
        <5>1. i \in Nat /\ j \in Nat
          BY StdioAssumption DEF PipeSlots, Slots
        <5>2. CASE i = j
          BY <2>2, <3>1, <1>2, <5>2 DEF PipesStand
        <5>3. CASE i < j
          BY <2>2, <3>1, <1>2, <5>3 DEF PipesStand, Ends
        <5>4. CASE j < i
          BY <2>2, <3>1, <1>2, <5>4, ZenonT(60) DEF PipesStand, Ends
        <5> QED BY <5>1, <5>2, <5>3, <5>4
      <4>2. f \in EndsBelow(s, StdioCount) <=> \E i \in PipeSlots(s) : f \in {s.par[i], s.use[i]}
        BY <2>2, <3>1 DEF EndsBelow, Ends
      <4>3. f \in ParsBelow(s, n) <=> \E i \in PipeSlots(s) : f = s.par[i]
        BY <3>1 DEF ParsBelow
      <4>4. f \in {s.use[i] : i \in {j \in PipeSlots(s) : j < n}}
              <=> \E i \in PipeSlots(s) : f = s.use[i]
        BY <3>1
      <4> QED BY <4>1, <4>2, <4>3, <4>4
    <3>3. t.fds = t.open \cup t.owned
      BY <1>4, <3>2
    <3>4. t.owned = ParsBelow(t, StdioCount)
      BY <1>3, <2>2
    <3> QED BY <2>2, <3>3, <3>4 DEF ParentStands, InChild
  <2> QED BY <2>1, <2>2
<1>6. ChildAt(t)
  BY DEF ChildAt
<1>7. OutcomeStands(t)
  BY <1>3 DEF OutcomeStands
<1> QED BY <1>1, <1>5, <1>6, <1>7 DEF SpawnStands

LEMMA OpenStreamStep == ASSUME SpawnInv, uv__process_open_stream PROVE SpawnInv'
<1>1. PICK s, t, i, n, x, E, u, v :
        /\ s = spawn /\ t = spawn' /\ i = s.slot /\ n = i + 1 /\ x = s.use[i] /\ E = {x}
        /\ u = Advance(s, "returned") /\ v = uv__close(u, E)
  OBVIOUS
<1>2. /\ CallStands(s) /\ ParentStands(s) /\ OutcomeStands(s) /\ s.at = "streams"
      /\ s \in SpawnRecords /\ IsFiniteSet(s.fds)
  BY <1>1 DEF SpawnInv, SpawnStands, CallStands, uv__process_open_stream
<1>3. /\ i \in Slots /\ i \in Nat /\ i < StdioCount /\ n = s.slot + 1 /\ n \in Nat
      /\ \A j \in Slots : j \in Nat /\ j < StdioCount
  <2>1. i \in Slots /\ n = s.slot + 1 /\ n = i + 1
    BY <1>1, <1>2 DEF SpawnRecords
  <2>2. \A j \in Slots : j \in Nat /\ j < StdioCount
    BY StdioAssumption DEF Slots
  <2>3. i \in Nat /\ i < StdioCount
    BY <2>1, <2>2
  <2>4. n \in Nat
    BY <2>1, <2>3
  <2> QED BY <2>1, <2>2, <2>3, <2>4
<1>4. /\ PipesStand(s, StdioCount) /\ s.stray = FALSE
      /\ s.fds = s.open \cup (EndsBelow(s, StdioCount)
                                \ {s.use[j] : j \in {k \in PipeSlots(s) : k < i}})
      /\ s.owned = ParsBelow(s, i)
  BY <1>1, <1>2 DEF ParentStands, SpawnRecords
<1>5. /\ u \in SpawnRecords
      /\ \/ u.at = "streams" /\ u.slot = n
         \/ u.at = "returned" /\ u.slot = 0 /\ n = StdioCount
      /\ u.open = s.open /\ u.kind = s.kind /\ u.par = s.par /\ u.use = s.use
      /\ u.signal = s.signal /\ u.fds = s.fds /\ u.owned = s.owned /\ u.err = s.err
      /\ u.ran = s.ran /\ u.stray = s.stray /\ u.child = s.child
  <2>1. u = Advance(s, "returned") /\ "returned" \in SpawnPlaces
    BY <1>1 DEF SpawnPlaces
  <2>2. /\ u \in SpawnRecords
        /\ \/ u.at = s.at /\ u.slot = s.slot + 1
           \/ u.at = "returned" /\ u.slot = 0 /\ s.slot + 1 = StdioCount
        /\ u.open = s.open /\ u.kind = s.kind /\ u.par = s.par /\ u.use = s.use
        /\ u.signal = s.signal /\ u.fds = s.fds /\ u.owned = s.owned /\ u.err = s.err
        /\ u.ran = s.ran /\ u.stray = s.stray /\ u.child = s.child
    BY <1>2, <2>1, AdvanceFacts
  <2> QED BY <1>2, <1>3, <2>2
<1>6. SameCall(s, u) /\ IsFiniteSet(u.fds) /\ CallStands(u)
  BY <1>2, <1>5 DEF SameCall, CallStands
<1>7. CASE s.kind[i] # Pipe /\ t = u
  <2>1. \A j \in PipeSlots(s) : j < n <=> j < i
    BY <1>1, <1>3, <1>7 DEF PipeSlots
  <2>2. /\ {s.use[j] : j \in {k \in PipeSlots(s) : k < n}}
             = {s.use[j] : j \in {k \in PipeSlots(s) : k < i}}
        /\ ParsBelow(s, n) = ParsBelow(s, i)
    BY <2>1 DEF ParsBelow
  <2>3. t.fds = s.open \cup (EndsBelow(s, StdioCount)
                              \ {s.use[j] : j \in {k \in PipeSlots(s) : k < n}})
    BY <1>4, <1>5, <1>7, <2>2
  <2>4. t.owned = ParsBelow(s, n)
    BY <1>4, <1>5, <1>7, <2>2
  <2>5. /\ t \in SpawnRecords /\ IsFiniteSet(t.fds) /\ SameCall(s, t) /\ t.signal = s.signal
        /\ t.ran = s.ran /\ t.err = s.err /\ t.child = s.child /\ t.stray = FALSE
        /\ (t.at = "streams" /\ t.slot = n) \/ (t.at = "returned" /\ n = StdioCount)
    BY <1>4, <1>5, <1>6, <1>7
  <2>6. SpawnStands(t)
    BY <1>2, <1>3, <2>3, <2>4, <2>5, StreamGiven, ZenonT(60)
  <2> QED BY <1>1, <2>6 DEF SpawnInv
<1>8. ASSUME s.kind[i] = Pipe,
             t = IF v.at = "abort" THEN v ELSE [v EXCEPT !.owned = v.owned \cup {s.par[i]}]
      PROVE  SpawnInv'
  <2>1. i \in PipeSlots(s)
    BY <1>3, <1>8 DEF PipeSlots
  <2>2. Ends(s, i) \in SUBSET (Nat \ s.open)
    BY <1>3, <1>4, <2>1 DEF PipesStand
  <2>3. x \in Nat /\ x \notin s.open /\ s.par[i] \in Nat /\ E \in SUBSET Nat
    BY <1>1, <2>2 DEF Ends
  <2>4. x \in s.fds
    <3>1. x \in EndsBelow(s, StdioCount)
      BY <1>1, <1>3, <2>1 DEF EndsBelow, Ends
    <3>2. ASSUME NEW j \in PipeSlots(s), j < i PROVE s.use[j] # x
      <4>1. Ends(s, j) \cap Ends(s, i) = {}
        BY <1>3, <1>4, <2>1, <3>2 DEF PipesStand
      <4> QED BY <1>1, <4>1 DEF Ends
    <3> QED BY <1>4, <3>1, <3>2
  <2>5. /\ v = uv__close(u, E) /\ u.at # "abort"
    BY <1>1, <1>5
  <2>6. \/ v.at # "abort" /\ v = CloseAll(u, E)
        \/ v.at = "abort" /\ v = [u EXCEPT !.at = "abort"]
    BY <1>5, <1>6, <2>3, <2>5, uv__closeFacts
  <2>7. CASE v.at = "abort" /\ v = [u EXCEPT !.at = "abort"]
    <3>1. u.stray = FALSE
      BY <1>4, <1>5
    <3>2. u.ran => ChildFilled(u)
      <4>1. u.ran = s.ran /\ u.child = s.child /\ (s.ran => ChildFilled(s))
        BY <1>2, <1>5 DEF OutcomeStands
      <4> QED BY <1>6, <4>1, SameFacts
    <3>3. SpawnStands(v)
      BY <1>6, <2>7, <3>1, <3>2, AbortStands
    <3> QED BY <1>1, <1>8, <2>7, <3>3 DEF SpawnInv
  <2>8. CASE v.at # "abort" /\ v = CloseAll(u, E)
    <3>1. /\ v \in SpawnRecords /\ IsFiniteSet(v.fds) /\ v.fds = u.fds \ E
          /\ (E \subseteq u.fds \ u.open => v.stray = u.stray)
          /\ v.open = u.open /\ v.kind = u.kind /\ v.at = u.at /\ v.slot = u.slot
          /\ v.par = u.par /\ v.use = u.use /\ v.signal = u.signal /\ v.owned = u.owned
          /\ v.err = u.err /\ v.ran = u.ran /\ v.child = u.child
      BY <1>5, <1>6, <2>3, <2>8, CloseFacts
    <3>2. E \subseteq u.fds \ u.open
      BY <1>1, <1>5, <2>3, <2>4
    <3>3. PICK O : O = v.owned \cup {s.par[i]}
      OBVIOUS
    <3>4. O \in SUBSET Nat
      BY <2>3, <3>1, <3>3 DEF SpawnRecords
    <3>5. t = [v EXCEPT !.owned = O]
      BY <1>8, <2>8, <3>3
    <3>6. /\ t \in SpawnRecords /\ t.fds = v.fds /\ t.owned = O /\ t.at = v.at /\ t.slot = v.slot
          /\ t.open = v.open /\ t.kind = v.kind /\ t.par = v.par /\ t.use = v.use
          /\ t.signal = v.signal /\ t.ran = v.ran /\ t.err = v.err /\ t.child = v.child
          /\ t.stray = v.stray
      BY <3>1, <3>4, <3>5 DEF SpawnRecords
    <3>7. \A j \in PipeSlots(s) : j < n <=> j < i \/ j = i
      BY <1>1, <1>3 DEF PipeSlots
    <3>8. O = ParsBelow(s, n)
      <4>1. ParsBelow(s, n) = ParsBelow(s, i) \cup {s.par[i]}
        BY <2>1, <3>7 DEF ParsBelow
      <4> QED BY <1>4, <1>5, <3>1, <3>3, <4>1
    <3>9. t.fds = s.open \cup (EndsBelow(s, StdioCount)
                                \ {s.use[j] : j \in {k \in PipeSlots(s) : k < n}})
      <4>1. {s.use[j] : j \in {k \in PipeSlots(s) : k < n}}
              = {s.use[j] : j \in {k \in PipeSlots(s) : k < i}} \cup {x}
        BY <1>1, <2>1, <3>7
      <4>2. t.fds = s.fds \ {x}
        BY <1>1, <1>5, <3>1, <3>6
      <4> QED BY <1>4, <2>3, <4>1, <4>2
    <3>10. t.stray = FALSE
      BY <1>4, <1>5, <3>1, <3>2, <3>6
    <3>11. SameCall(s, t)
      BY <1>5, <3>1, <3>6 DEF SameCall
    <3>12. /\ IsFiniteSet(t.fds) /\ t.signal = s.signal
           /\ t.ran = s.ran /\ t.err = s.err /\ t.child = s.child
           /\ (t.at = "streams" /\ t.slot = n) \/ (t.at = "returned" /\ n = StdioCount)
           /\ t \in SpawnRecords /\ t.owned = ParsBelow(s, n)
      BY <1>5, <3>1, <3>6, <3>8
    <3>13. SpawnStands(t)
      BY <1>2, <1>3, <3>9, <3>10, <3>11, <3>12, StreamGiven, ZenonT(60)
    <3> QED BY <1>1, <3>13 DEF SpawnInv
  <2> QED BY <2>6, <2>7, <2>8
<1>9. \/ s.kind[i] # Pipe /\ t = u
      \/ /\ s.kind[i] = Pipe
         /\ t = IF v.at = "abort" THEN v ELSE [v EXCEPT !.owned = v.owned \cup {s.par[i]}]
  BY <1>1 DEF uv__process_open_stream
<1> QED BY <1>7, <1>8, <1>9

----------------------------------------------------------------------------
(* The theorems about uv_spawn.                                            *)

LEMMA IdleStands == SpawnInit => SpawnInv
<1> SUFFICES ASSUME SpawnInit PROVE SpawnInv
  OBVIOUS
<1>1. PICK s, o, kind : s = spawn /\ o = {} /\ kind = [i \in Slots |-> Ignore]
  OBVIOUS
<1>2. s = Asked(o, kind, "idle")
  BY <1>1 DEF SpawnInit
<1>3. o \in SUBSET Nat /\ kind \in [Slots -> Int] /\ kind \in [Slots -> o \cup {Ignore, Pipe}]
  BY <1>1 DEF Ignore
<1>4. IsFiniteSet(o)
  BY <1>1, FS_EmptySet
<1>5. NoChild \in Children
  <2>1. [f \in {} |-> Unset] \in [{} -> Int]
    OBVIOUS
  <2>2. [f \in {} |-> Unset] \in Tables
    BY <2>1 DEF Tables
  <2> QED BY <2>2 DEF NoChild, Children, Unset
<1>6. 0 \in Slots
  BY StdioAssumption DEF Slots
<1>7. /\ s \in SpawnRecords /\ s.open = o /\ s.kind = kind /\ s.fds = o /\ s.at = "idle"
      /\ s.owned = {} /\ s.ran = FALSE /\ s.stray = FALSE
  BY <1>2, <1>3, <1>5, <1>6 DEF Asked, SpawnRecords, SpawnPlaces, Unset
<1>8. CallStands(s)
  BY <1>3, <1>4, <1>7 DEF CallStands
<1>9. ParentStands(s) /\ ChildAt(s) /\ OutcomeStands(s)
  BY <1>7 DEF ParentStands, InChild, ChildAt, OutcomeStands
<1> QED BY <1>1, <1>8, <1>9 DEF SpawnInv, SpawnStands

\* uv_spawn keeps its invariant, with any number of slots and whatever
\* descriptors the caller has: what the parent holds at each step, and what
\* each slot of the child uses and holds in the middle of the shuffle.
THEOREM SpawnInductive == SpawnSpec => []SpawnInv
<1>1. SpawnInit => SpawnInv
  BY IdleStands
<1>2. SpawnInv /\ [SpawnNext]_spawn => SpawnInv'
  <2> SUFFICES ASSUME SpawnInv, [SpawnNext]_spawn PROVE SpawnInv'
    OBVIOUS
  <2>1. CASE SpawnCalled
    BY <2>1, SpawnCalledStep
  <2>2. CASE uv__process_init_stdio
    BY <2>2, SpawnInitStep
  <2>3. CASE uv_spawn_fork
    BY <2>3, SpawnForkStep
  <2>4. CASE uv__process_child_init
    BY <2>4, ChildMoveStep, ChildPlaceStep, ChildCloseStep, ChildExecStep DEF uv__process_child_init
  <2>5. CASE uv__process_open_stream
    BY <2>5, OpenStreamStep
  <2>6. CASE UNCHANGED spawn
    BY <2>6 DEF SpawnInv
  <2> QED BY <2>1, <2>2, <2>3, <2>4, <2>5, <2>6 DEF SpawnNext
<1> QED BY <1>1, <1>2, PTL DEF SpawnSpec

\* The invariant gives what the caller is promised of its child and of its
\* own descriptors.
THEOREM SpawnCorrect == SpawnSpec => []SpawnRight
<1>1. SpawnInv => SpawnRight
  <2> SUFFICES ASSUME SpawnInv PROVE SpawnRight
    OBVIOUS
  <2>1. PICK s : s = spawn
    OBVIOUS
  <2>2. CallStands(s) /\ ParentStands(s) /\ OutcomeStands(s)
    BY <2>1 DEF SpawnInv, SpawnStands
  <2>3. ChildSlotsRight
    BY <2>1, <2>2 DEF ChildSlotsRight, OutcomeStands
  <2>4. ExecSeen
    BY <2>1, <2>2 DEF ExecSeen, OutcomeStands
  <2>5. ParsBelow(s, StdioCount) = {s.par[i] : i \in PipeSlots(s)}
    <3>1. \A i \in PipeSlots(s) : i < StdioCount
      BY StdioAssumption DEF PipeSlots, Slots
    <3> QED BY <3>1 DEF ParsBelow
  <2>6. ParentPipesBalanced
    BY <2>1, <2>2, <2>5 DEF ParentPipesBalanced, ParentStands
  <2> QED BY <2>3, <2>4, <2>6 DEF SpawnRight
<1> QED BY <1>1, SpawnInductive, PTL
=============================================================================
