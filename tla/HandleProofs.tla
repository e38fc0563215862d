---------------------------- MODULE HandleProofs ----------------------------
(***************************************************************************)
(* What a loop does for its handles and requests: name resolution,         *)
(* fs-poll, child processes, file system events and streams, for any       *)
(* number of handles and requests.                                         *)
(***************************************************************************)
EXTENDS Resolve, FsPoll, Process, Inotify, Stream, QueueLemmas, FiniteSetTheorems

----------------------------------------------------------------------------
(* Name resolution.                                                        *)

ResolveRequests ==
    [kind : {Nothing, "getaddrinfo", "getnameinfo"},
     at : {"idle", "queued", "work", "done", "finished"},
     cb : BOOLEAN, reg : BOOLEAN, args : SUBSET Args, retcode : {0, EaiError, EaiCanceled},
     canceled : BOOLEAN, answer : BOOLEAN, calls : {0, 1}]

ResolveTypes ==
    /\ res \in ResolveRequests
    /\ alloc \in Args \cup {Nothing}
    /\ addrinfo \in BOOLEAN /\ resBad \in BOOLEAN

\* The allocation of a request starts with the first of its arguments, and
\* its codes are untouched until the work is done.
ResolveKeeps ==
    /\ res.kind = Nothing <=> res.at = "idle"
    /\ res.kind = "getaddrinfo" /\ res.at \in {"queued", "work", "done"} =>
         alloc = Start(res.args)
    /\ res.at \in {"idle", "queued", "work"} =>
         res.retcode = 0 /\ ~res.canceled /\ ~addrinfo
    /\ res.at # "finished" => res.calls = 0
    /\ res.at = "done" =>
         /\ addrinfo <=> res.kind = "getaddrinfo" /\ ~res.canceled /\ res.retcode = 0
         /\ res.retcode # EaiCanceled

\* The inductive invariant of name resolution.
ResolveInv == ResolveTypes /\ ResolveKeeps /\ ResolveRight

LEMMA StartIsAnArgument ==
    ASSUME NEW args \in SUBSET Args
    PROVE  Start(args) \in Args /\ Start(args) # Nothing /\ FreedArg(args) = Start(args)
BY ResolveAssumption DEF Start, FreedArg, Args

LEMMA ToldFacts ==
    ASSUME NEW r \in ResolveRequests, r.calls = 0, NEW answer \in BOOLEAN
    PROVE  Told(r, answer) \in ResolveRequests
<1>2. (IF r.canceled THEN EaiCanceled ELSE r.retcode) \in {0, EaiError, EaiCanceled}
  BY DEF ResolveRequests
<1>3. (IF r.cb THEN r.calls + 1 ELSE r.calls) \in {0, 1}
  OBVIOUS
<1>4. {} \in SUBSET Args
  OBVIOUS
<1> QED BY <1>2, <1>3, <1>4, ZenonT(60) DEF Told, ResolveRequests

\* A request of uv_getaddrinfo or uv_getnameinfo goes its way without a
\* leak, a wrong free, a second callback or an answer its code denies.
THEOREM ResolveInductive == ResolveSpec => []ResolveInv
<1> USE DEF Nothing, EaiCanceled, EaiError
<1>1. ResolveInit => ResolveInv
  <2> SUFFICES ASSUME ResolveInit PROVE ResolveInv
    OBVIOUS
  <2>1. ResolveTypes
    BY DEF ResolveInit, ResolveTypes, ResolveRequests, IdleRequest
  <2>2. ResolveKeeps
    BY DEF ResolveInit, ResolveKeeps, IdleRequest
  <2>3. ResolveRight
    BY DEF ResolveInit, ResolveRight, IdleRequest
  <2> QED BY <2>1, <2>2, <2>3 DEF ResolveInv
<1>2. ResolveInv /\ [ResolveNext]_resolveVars => ResolveInv'
  <2> SUFFICES ASSUME ResolveInv, [ResolveNext]_resolveVars PROVE ResolveInv'
    OBVIOUS
  <2>0. ResolveTypes /\ ResolveKeeps /\ ResolveRight
    BY DEF ResolveInv
  <2>1. CASE uv_getaddrinfo
    <3>1. PICK args \in SUBSET Args, cb \in BOOLEAN :
            res' = Begun("getaddrinfo", cb, args) /\ alloc' = Start(args)
      BY <2>1 DEF uv_getaddrinfo
    <3>2. Start(args) \in Args /\ Start(args) # Nothing
      BY StartIsAnArgument
    <3>3. res.at = "idle" /\ UNCHANGED <<addrinfo, resBad>>
      BY <2>1 DEF uv_getaddrinfo
    <3>a. ResolveTypes'
      BY <2>0, <3>1, <3>2, <3>3 DEF ResolveTypes, ResolveRequests, ResolveKeeps, IdleRequest, Begun
    <3>b. ResolveKeeps'
      BY <2>0, <3>1, <3>2, <3>3 DEF ResolveTypes, ResolveRequests, ResolveKeeps, IdleRequest, Begun
    <3>c. ResolveRight'
      BY <2>0, <3>1, <3>2, <3>3 DEF ResolveTypes, ResolveRequests, ResolveKeeps, ResolveRight, IdleRequest, Begun
    <3> QED BY <3>a, <3>b, <3>c DEF ResolveInv
  <2>2. CASE uv_getnameinfo
    <3>a. ResolveTypes'
      BY <2>0, <2>2 DEF ResolveTypes, ResolveRequests, ResolveKeeps, IdleRequest, Begun, uv_getnameinfo
    <3>b. ResolveKeeps'
      BY <2>0, <2>2 DEF ResolveTypes, ResolveRequests, ResolveKeeps, IdleRequest, Begun, uv_getnameinfo
    <3>c. ResolveRight'
      BY <2>0, <2>2 DEF ResolveTypes, ResolveRequests, ResolveKeeps, ResolveRight, IdleRequest, Begun, uv_getnameinfo
    <3> QED BY <3>a, <3>b, <3>c DEF ResolveInv
  <2>3. CASE CancelResolve
    <3>a. ResolveTypes'
      BY <2>0, <2>3 DEF ResolveTypes, ResolveRequests, ResolveKeeps, CancelResolve
    <3>b. ResolveKeeps'
      BY <2>0, <2>3 DEF ResolveTypes, ResolveRequests, ResolveKeeps, CancelResolve
    <3>c. ResolveRight'
      BY <2>0, <2>3 DEF ResolveTypes, ResolveRequests, ResolveKeeps, ResolveRight, CancelResolve
    <3> QED BY <3>a, <3>b, <3>c DEF ResolveInv
  <2>4. CASE TakeResolve
    <3>a. ResolveTypes'
      BY <2>0, <2>4 DEF ResolveTypes, ResolveRequests, ResolveKeeps, TakeResolve
    <3>b. ResolveKeeps'
      BY <2>0, <2>4 DEF ResolveTypes, ResolveRequests, ResolveKeeps, TakeResolve
    <3>c. ResolveRight'
      BY <2>0, <2>4 DEF ResolveTypes, ResolveRequests, ResolveKeeps, ResolveRight, TakeResolve
    <3> QED BY <3>a, <3>b, <3>c DEF ResolveInv
  <2>5. CASE ResolveWork
    <3>a. ResolveTypes'
      BY <2>0, <2>5 DEF ResolveTypes, ResolveRequests, ResolveKeeps, ResolveWork
    <3>b. ResolveKeeps'
      <4>1. res.at = "work" /\ res.retcode = 0 /\ ~res.canceled /\ ~addrinfo /\ res.calls = 0
            /\ res.kind # Nothing /\ UNCHANGED <<alloc, resBad>>
        BY <2>0, <2>5 DEF ResolveKeeps, ResolveWork
      <4>2. CASE res' = [res EXCEPT !.at = "done"] /\ addrinfo' = (res.kind = "getaddrinfo")
        <5>1. /\ res'.at = "done" /\ res'.kind = res.kind /\ res'.args = res.args
              /\ res'.retcode = 0 /\ ~res'.canceled /\ res'.calls = 0
          BY <2>0, <4>1, <4>2 DEF ResolveTypes, ResolveRequests
        <5>2. addrinfo' <=> res.kind = "getaddrinfo"
          BY <4>2
        <5> QED BY <2>0, <4>1, <5>1, <5>2 DEF ResolveKeeps
      <4>3. CASE res' = [res EXCEPT !.at = "done", !.retcode = EaiError] /\ UNCHANGED addrinfo
        BY <2>0, <4>1, <4>3 DEF ResolveTypes, ResolveRequests, ResolveKeeps
      <4> QED BY <2>5, <4>2, <4>3 DEF ResolveWork
    <3>c. ResolveRight'
      BY <2>0, <2>5 DEF ResolveTypes, ResolveRequests, ResolveKeeps, ResolveRight, ResolveWork
    <3> QED BY <3>a, <3>b, <3>c DEF ResolveInv
  <2>6. CASE uv__getaddrinfo_done
    <3>1. FreedArg(res.args) = alloc
      BY <2>0, <2>6, StartIsAnArgument DEF uv__getaddrinfo_done, ResolveTypes, ResolveRequests, ResolveKeeps
    <3>2. /\ res.at = "done" /\ res.kind = "getaddrinfo" /\ res' = Told(res, addrinfo)
          /\ alloc' = Nothing /\ resBad' = resBad /\ UNCHANGED addrinfo
      BY <2>0, <2>6, <3>1 DEF uv__getaddrinfo_done, ResolveTypes, ResolveRequests
    <3>a. ResolveTypes'
      <4>1. res \in ResolveRequests /\ res.calls = 0 /\ addrinfo \in BOOLEAN
        BY <2>0, <3>2 DEF ResolveTypes, ResolveKeeps
      <4>2. res' \in ResolveRequests
        BY <4>1, <3>2, ToldFacts
      <4> QED BY <2>0, <3>2, <4>2 DEF ResolveTypes
    <3>b. ResolveKeeps'
      BY <2>0, <3>2 DEF ResolveTypes, ResolveRequests, ResolveKeeps, Told
    <3>c. ResolveRight'
      BY <2>0, <3>2 DEF ResolveTypes, ResolveRequests, ResolveKeeps, ResolveRight, Told
    <3> QED BY <3>a, <3>b, <3>c DEF ResolveInv
  <2>7. CASE uv__getnameinfo_done
    <3>a. ResolveTypes'
      <4>1. res \in ResolveRequests /\ res.calls = 0
        BY <2>0, <2>7 DEF ResolveTypes, ResolveKeeps, uv__getnameinfo_done
      <4>2. (~res.canceled /\ res.retcode = 0) \in BOOLEAN
        OBVIOUS
      <4>3. res' \in ResolveRequests
        BY <2>7, <4>1, <4>2, ToldFacts DEF uv__getnameinfo_done
      <4> QED BY <2>0, <2>7, <4>3 DEF ResolveTypes, uv__getnameinfo_done
    <3>b. ResolveKeeps'
      BY <2>0, <2>7 DEF ResolveTypes, ResolveRequests, ResolveKeeps, uv__getnameinfo_done, Told
    <3>c. ResolveRight'
      BY <2>0, <2>7 DEF ResolveTypes, ResolveRequests, ResolveKeeps, ResolveRight, uv__getnameinfo_done, Told
    <3> QED BY <3>a, <3>b, <3>c DEF ResolveInv
  <2>8. CASE uv_freeaddrinfo
    <3>a. ResolveTypes'
      BY <2>0, <2>8 DEF ResolveTypes, ResolveRequests, ResolveKeeps, uv_freeaddrinfo, IdleRequest
    <3>b. ResolveKeeps'
      BY <2>0, <2>8 DEF ResolveTypes, ResolveRequests, ResolveKeeps, uv_freeaddrinfo, IdleRequest
    <3>c. ResolveRight'
      BY <2>0, <2>8 DEF ResolveTypes, ResolveRequests, ResolveKeeps, ResolveRight, uv_freeaddrinfo, IdleRequest
    <3> QED BY <3>a, <3>b, <3>c DEF ResolveInv
  <2>9. CASE UNCHANGED resolveVars
    BY <2>0, <2>9 DEF resolveVars, ResolveInv, ResolveTypes, ResolveRequests, ResolveKeeps, ResolveRight
  <2> QED BY <2>1, <2>2, <2>3, <2>4, <2>5, <2>6, <2>7, <2>8, <2>9 DEF ResolveNext
<1> QED BY <1>1, <1>2, PTL DEF ResolveSpec

\* Whatever arguments it copied and however it ends, a request frees what it
\* allocated, once, and tells its caller the truth.
THEOREM ResolveCorrect == ResolveSpec => []ResolveRight
<1>1. ResolveInv => ResolveRight
  BY DEF ResolveInv
<1> QED BY <1>1, ResolveInductive, PTL

----------------------------------------------------------------------------
(* fs-poll.                                                                *)

Contexts ==
    [parent : BOOLEAN, stat : BOOLEAN, timer : {"inactive", "active", "closing", "freed"},
     wait : Nat, busy : Errors \cup {Unknown, "ok"}, statbuf : Versions \cup {Unknown},
     result : Versions \cup Errors \cup {Unknown}, late : Nat]

FsPollTypes ==
    /\ poll \in [ctx : Ctxs \cup {NoCtx}, closing : BOOLEAN, dangling : BOOLEAN]
    /\ ctx \in [Ctxs -> Contexts]
    /\ inCb \in Ctxs \cup {NoCtx}
    /\ view \in [Ctxs -> Versions \cup Errors \cup {Unknown}]

\* A context is referred to by its stat, by its timer or by its callback,
\* and by one of them only: x is the context, cb whether it is called back.
Held(x, cb) ==
    /\ ~(x.stat /\ cb)
    /\ x.timer = "inactive" <=> x.stat \/ cb

\* What the user of context x knows, v, is what the context keeps; while
\* the callback runs it is what the callback has been told.
Knows(x, v, cb) ==
    /\ cb => v = x.result /\ v # Unknown
    /\ ~cb /\ x.busy = Unknown => v = Unknown
    /\ ~cb /\ x.busy = "ok" => v = x.statbuf /\ v # Unknown
    /\ ~cb /\ x.busy \in Errors => v = x.busy
    /\ x.timer = "active" =>
         /\ v = x.result /\ x.wait \in 1..Interval /\ (x.late + x.wait) % Interval = 0

\* A context that the handle has given up is not started again.
ContextRight(c) ==
    /\ ctx[c].parent <=> poll.ctx = c
    /\ Held(ctx[c], inCb = c)
    /\ ctx[c].timer # "freed" => Knows(ctx[c], view[c], inCb = c)
    /\ ctx[c].timer \in {"freed", "closing"} => ~ctx[c].parent

\* The inductive invariant of fs-poll.
FsPollInv == FsPollTypes /\ \A c \in Ctxs : ContextRight(c)

\* What is left of the interval brings the poll back to its grid.
LEMMA BackToGrid ==
    ASSUME NEW late \in Nat
    PROVE  /\ Interval - (late % Interval) \in 1..Interval
           /\ (late + (Interval - (late % Interval))) % Interval = 0
<1> DEFINE m == late % Interval
           d == late \div Interval
<1>1. Interval \in Nat \ {0}
  BY FsPollAssumption
<1>2. m \in 0..(Interval - 1) /\ d \in Nat /\ late = Interval * d + m
  BY <1>1
<1> HIDE DEF m, d
<1>3. late + (Interval - m) = Interval * (d + 1)
  BY <1>1, <1>2
<1>4. (Interval * (d + 1)) % Interval = 0
  BY <1>1, <1>2
<1>5. Interval - m \in 1..Interval
  BY <1>1, <1>2
<1> QED BY <1>3, <1>4, <1>5 DEF m

\* A poll that has its result keeps it, with the timer started or closing.
LEMMA FinishFacts ==
    ASSUME NEW x \in Contexts, x.result # Unknown, ~x.stat
    PROVE  /\ Finish(x) \in Contexts /\ Finish(x).parent = x.parent
           /\ Held(Finish(x), FALSE) /\ Knows(Finish(x), x.result, FALSE)
           /\ Finish(x).timer = IF x.parent THEN "active" ELSE "closing"
<1>1. x.late \in Nat /\ x.result \in Versions \cup Errors
  BY DEF Contexts
<1>2. /\ Interval - (x.late % Interval) \in 1..Interval
      /\ (x.late + (Interval - (x.late % Interval))) % Interval = 0
  BY <1>1, BackToGrid
<1> DEFINE w == Interval - (x.late % Interval)
<1>3. w \in 1..Interval /\ (x.late + w) % Interval = 0 /\ w \in Nat
  BY <1>2, FsPollAssumption
<1>4. Finish(x) = [x EXCEPT !.busy = IF x.result \in Errors THEN x.result ELSE "ok",
              !.statbuf = IF x.result \in Errors THEN @ ELSE x.result,
              !.timer = IF x.parent THEN "active" ELSE "closing",
              !.wait = IF x.parent THEN w ELSE @]
  BY DEF Finish
<1> HIDE DEF w
<1>5. /\ Finish(x).parent = x.parent /\ Finish(x).stat = x.stat /\ Finish(x).late = x.late
      /\ Finish(x).result = x.result
      /\ Finish(x).timer = IF x.parent THEN "active" ELSE "closing"
      /\ Finish(x).busy = IF x.result \in Errors THEN x.result ELSE "ok"
      /\ x.result \notin Errors => Finish(x).statbuf = x.result
      /\ x.parent => Finish(x).wait = w
  BY <1>4 DEF Contexts
<1>6. Finish(x) \in Contexts
  BY <1>1, <1>3, <1>4 DEF Contexts
<1>7. Held(Finish(x), FALSE)
  BY <1>5 DEF Held
<1>8. Knows(Finish(x), x.result, FALSE)
  BY <1>1, <1>3, <1>5, FsPollAssumption DEF Knows, Unknown
<1> QED BY <1>5, <1>6, <1>7, <1>8

\* A step does not concern a context that it leaves alone.
LEMMA OtherContexts ==
    ASSUME NEW d \in Ctxs, ContextRight(d), ctx'[d] = ctx[d], view'[d] = view[d],
           poll'.ctx = d <=> poll.ctx = d, inCb' = d <=> inCb = d
    PROVE  ContextRight(d)'
BY DEF ContextRight, Held, Knows

LEMMA FsPollBegins == FsPollInit => FsPollInv
<1> SUFFICES ASSUME FsPollInit PROVE FsPollInv
  OBVIOUS
<1>1. Freed \in Contexts /\ ~Freed.parent /\ ~Freed.stat /\ Freed.timer = "freed"
  BY DEF Freed, NewCtx, Contexts
<1>2. FsPollTypes
  BY <1>1 DEF FsPollInit, FsPollTypes
<1>3. ASSUME NEW c \in Ctxs PROVE ContextRight(c)
  <2>1. ctx[c] = Freed /\ poll.ctx # c /\ inCb # c
    BY FsPollAssumption DEF FsPollInit
  <2> QED BY <1>1, <2>1 DEF ContextRight, Held
<1> QED BY <1>2, <1>3 DEF FsPollInv

LEMMA FsPollStartStep ==
    ASSUME FsPollInv, NEW c \in Ctxs, uv_fs_poll_start(c)
    PROVE  FsPollInv'
<1>1. /\ poll.ctx = NoCtx /\ ctx[c].timer = "freed" /\ UNCHANGED inCb
  BY DEF uv_fs_poll_start, Live
<1>2. inCb # c
  BY <1>1 DEF FsPollInv, ContextRight, Held
<1>3. NewCtx \in Contexts /\ NewCtx.parent /\ NewCtx.stat /\ NewCtx.timer = "inactive"
      /\ NewCtx.busy = Unknown
  BY DEF NewCtx, Contexts
<1>4. CASE /\ ctx' = [ctx EXCEPT ![c] = NewCtx] /\ poll' = [poll EXCEPT !.ctx = c]
           /\ view' = [view EXCEPT ![c] = Unknown]
  <2>1. FsPollTypes'
    BY <1>1, <1>3, <1>4 DEF FsPollInv, FsPollTypes
  <2>2. ctx'[c] = NewCtx /\ view'[c] = Unknown /\ poll'.ctx = c /\ inCb' # c
    BY <1>1, <1>2, <1>4 DEF FsPollInv, FsPollTypes
  <2>3. ContextRight(c)'
    BY <2>2, <1>3, FsPollAssumption DEF ContextRight, Held, Knows, Unknown
  <2>4. ASSUME NEW d \in Ctxs, d # c PROVE ContextRight(d)'
    <3>1. /\ ContextRight(d) /\ ctx'[d] = ctx[d] /\ view'[d] = view[d]
          /\ poll'.ctx # d /\ poll.ctx # d
      BY <1>1, <1>4, <2>2, <2>4, FsPollAssumption DEF FsPollInv, FsPollTypes
    <3> QED BY <3>1, <1>1, OtherContexts
  <2> QED BY <2>1, <2>3, <2>4 DEF FsPollInv
<1>5. CASE poll' = [poll EXCEPT !.dangling = TRUE] /\ UNCHANGED <<ctx, view>>
  <2>1. FsPollTypes' /\ poll'.ctx = poll.ctx
    BY <1>1, <1>5 DEF FsPollInv, FsPollTypes
  <2>2. ASSUME NEW d \in Ctxs PROVE ContextRight(d)'
    BY <2>1, <1>1, <1>5, OtherContexts DEF FsPollInv
  <2> QED BY <2>1, <2>2 DEF FsPollInv
<1> QED BY <1>4, <1>5 DEF uv_fs_poll_start

\* A stop, and the stop in a close.
LEMMA DetachedStep ==
    ASSUME FsPollInv, poll.ctx # NoCtx, ctx' = Detached(poll.ctx),
           poll' \in [ctx : {NoCtx}, closing : BOOLEAN, dangling : BOOLEAN],
           UNCHANGED <<inCb, view>>
    PROVE  FsPollInv'
<1> PICK c \in Ctxs : c = poll.ctx
  BY DEF FsPollInv, FsPollTypes
<1> DEFINE x == ctx[c]
           y == [x EXCEPT !.parent = FALSE, !.timer = IF @ = "active" THEN "closing" ELSE @]
<1>1. x \in Contexts /\ ctx' = [ctx EXCEPT ![c] = y]
  BY DEF FsPollInv, FsPollTypes, Detached
<1>2. /\ y \in Contexts /\ ~y.parent /\ y.stat = x.stat
      /\ y.timer = IF x.timer = "active" THEN "closing" ELSE x.timer
      /\ y.busy = x.busy /\ y.statbuf = x.statbuf /\ y.result = x.result
  BY <1>1, ZenonT(60) DEF Contexts
<1> HIDE DEF y
<1>3. FsPollTypes' /\ ctx'[c] = y
  BY <1>1, <1>2 DEF FsPollInv, FsPollTypes
<1>4. ContextRight(c)'
  <2>1. poll'.ctx # c
    BY FsPollAssumption
  <2>2. ContextRight(c)
    BY DEF FsPollInv
  <2> QED BY <2>1, <2>2, <1>2, <1>3 DEF ContextRight, Held, Knows
<1>5. ASSUME NEW d \in Ctxs, d # c PROVE ContextRight(d)'
  <2>1. ContextRight(d) /\ ctx'[d] = ctx[d] /\ poll'.ctx # d /\ poll.ctx # d
    BY <1>1, <1>5, FsPollAssumption DEF FsPollInv, FsPollTypes
  <2> QED BY <2>1, OtherContexts
<1> QED BY <1>3, <1>4, <1>5 DEF FsPollInv

LEMMA FsPollUserStep ==
    ASSUME FsPollInv, uv_fs_poll_stop \/ uv__fs_poll_close \/ uv_fs_poll_init
    PROVE  FsPollInv'
<1>1. CASE uv_fs_poll_stop
  <2>1. poll' \in [ctx : {NoCtx}, closing : BOOLEAN, dangling : BOOLEAN]
    BY <1>1 DEF uv_fs_poll_stop, FsPollInv, FsPollTypes
  <2> QED BY <1>1, <2>1, DetachedStep DEF uv_fs_poll_stop
<1>2. CASE uv__fs_poll_close /\ poll.ctx # NoCtx
  <2>1. poll' \in [ctx : {NoCtx}, closing : BOOLEAN, dangling : BOOLEAN]
    BY <1>2 DEF uv__fs_poll_close, FsPollInv, FsPollTypes
  <2> QED BY <1>2, <2>1, DetachedStep DEF uv__fs_poll_close
<1>3. CASE uv_fs_poll_init \/ (uv__fs_poll_close /\ poll.ctx = NoCtx)
  <2>1. UNCHANGED <<ctx, inCb, view>> /\ poll'.ctx = poll.ctx /\ FsPollTypes'
    BY <1>3 DEF uv_fs_poll_init, uv__fs_poll_close, FsPollInv, FsPollTypes
  <2>2. ASSUME NEW d \in Ctxs PROVE ContextRight(d)'
    BY <2>1, OtherContexts DEF FsPollInv
  <2> QED BY <2>1, <2>2 DEF FsPollInv
<1> QED BY <1>1, <1>2, <1>3

\* A callback concerns its own context.
LEMMA OneContext ==
    ASSUME FsPollInv, NEW c \in Ctxs, NEW y \in Contexts,
           NEW v \in Versions \cup Errors \cup {Unknown},
           ctx' = [ctx EXCEPT ![c] = y], view' = [view EXCEPT ![c] = v], UNCHANGED poll,
           inCb' = inCb \/ (inCb = NoCtx /\ inCb' = c) \/ (inCb = c /\ inCb' = NoCtx),
           y.parent = ctx[c].parent, Held(y, inCb' = c),
           y.timer # "freed" => Knows(y, v, inCb' = c),
           y.timer \in {"freed", "closing"} => ~y.parent
    PROVE  FsPollInv'
<1>1. FsPollTypes' /\ ctx'[c] = y /\ view'[c] = v
  BY DEF FsPollInv, FsPollTypes
<1>2. ContextRight(c)'
  <2>1. ctx[c].parent <=> poll.ctx = c
    BY DEF FsPollInv, ContextRight
  <2> QED BY <1>1, <2>1 DEF ContextRight
<1>3. ASSUME NEW d \in Ctxs, d # c PROVE ContextRight(d)'
  <2>1. ContextRight(d) /\ ctx'[d] = ctx[d] /\ view'[d] = view[d] /\ (inCb' = d <=> inCb = d)
    BY <1>3, FsPollAssumption DEF FsPollInv, FsPollTypes
  <2> QED BY <2>1, OtherContexts
<1> QED BY <1>1, <1>2, <1>3 DEF FsPollInv

LEMMA TimerCbStep ==
    ASSUME FsPollInv, NEW c \in Ctxs, timer_cb(c)
    PROVE  FsPollInv'
<1> DEFINE x == ctx[c]
           y == [x EXCEPT !.timer = "inactive", !.stat = TRUE]
<1>1. /\ x \in Contexts /\ ctx' = [ctx EXCEPT ![c] = y] /\ UNCHANGED <<poll, inCb, view>>
      /\ x.timer = "active" /\ inCb = NoCtx /\ ContextRight(c)
  BY DEF FsPollInv, FsPollTypes, timer_cb, LoopRuns
<1>2. /\ y \in Contexts /\ y.parent = x.parent /\ y.stat /\ y.timer = "inactive"
      /\ y.busy = x.busy /\ y.statbuf = x.statbuf
  BY <1>1 DEF Contexts
<1> HIDE DEF y
<1>3. inCb' # c
  BY <1>1, FsPollAssumption
<1>4. Held(y, inCb' = c)
  BY <1>2, <1>3 DEF Held
<1>5. Knows(y, view[c], inCb' = c)
  BY <1>1, <1>2, <1>3 DEF ContextRight, Knows
<1>6. view' = [view EXCEPT ![c] = view[c]] /\ view[c] \in Versions \cup Errors \cup {Unknown}
  BY <1>1 DEF FsPollInv, FsPollTypes
<1> QED BY <1>1, <1>2, <1>4, <1>5, <1>6, OneContext

LEMMA TimerCloseStep ==
    ASSUME FsPollInv, NEW c \in Ctxs, timer_close_cb(c)
    PROVE  FsPollInv'
<1>1. /\ ctx[c].timer = "closing" /\ inCb = NoCtx /\ ContextRight(c)
      /\ ctx' = [ctx EXCEPT ![c] = Freed] /\ UNCHANGED <<poll, inCb, view>>
  BY DEF FsPollInv, timer_close_cb, LoopRuns
<1>2. Freed \in Contexts /\ Freed.parent = FALSE /\ ~Freed.stat /\ Freed.timer = "freed"
  BY DEF Freed, NewCtx, Contexts
<1>3. inCb' # c /\ ctx[c].parent = FALSE
  BY <1>1, FsPollAssumption DEF ContextRight, FsPollInv, FsPollTypes, Contexts
<1>4. Held(Freed, inCb' = c)
  BY <1>2, <1>3 DEF Held
<1>5. view' = [view EXCEPT ![c] = view[c]] /\ view[c] \in Versions \cup Errors \cup {Unknown}
  BY <1>1 DEF FsPollInv, FsPollTypes
<1> HIDE DEF Freed
<1> QED BY <1>1, <1>2, <1>3, <1>4, <1>5, OneContext

LEMMA PollCbReturnsStep ==
    ASSUME FsPollInv, PollCbReturns
    PROVE  FsPollInv'
<1> PICK c \in Ctxs : c = inCb
  BY DEF FsPollInv, FsPollTypes, PollCbReturns, LoopRuns
<1> DEFINE x == ctx[c]
<1>1. /\ x \in Contexts /\ ctx' = [ctx EXCEPT ![c] = Finish(x)] /\ UNCHANGED <<poll, view>>
      /\ inCb' = NoCtx /\ ContextRight(c)
  BY DEF FsPollInv, FsPollTypes, PollCbReturns
<1>2. x.timer = "inactive" /\ ~x.stat /\ view[c] = x.result /\ x.result # Unknown
  BY <1>1 DEF ContextRight, Held, Knows
<1>3. inCb' # c
  BY <1>1, FsPollAssumption
<1>4. /\ Finish(x) \in Contexts /\ Finish(x).parent = x.parent
      /\ Held(Finish(x), FALSE) /\ Knows(Finish(x), view[c], FALSE)
      /\ Finish(x).timer = IF x.parent THEN "active" ELSE "closing"
  BY <1>1, <1>2, FinishFacts
<1>5. Held(Finish(x), inCb' = c) /\ Knows(Finish(x), view[c], inCb' = c)
  BY <1>3, <1>4 DEF Held, Knows
<1>6. view' = [view EXCEPT ![c] = view[c]] /\ view[c] \in Versions \cup Errors \cup {Unknown}
  BY <1>1 DEF FsPollInv, FsPollTypes
<1>7. Finish(x).timer \in {"freed", "closing"} => ~Finish(x).parent
  BY <1>4
<1>8. Finish(x).parent = ctx[c].parent
  BY <1>4
<1> HIDE DEF x
<1> QED BY <1>1, <1>4, <1>5, <1>6, <1>7, <1>8, OneContext, ZenonT(60)

LEMMA PollCbStep ==
    ASSUME FsPollInv, NEW c \in Ctxs, poll_cb(c)
    PROVE  FsPollInv'
<1> DEFINE x == ctx[c]
           y(result, late) == [x EXCEPT !.stat = FALSE, !.result = result, !.late = late]
<1>1. /\ x \in Contexts /\ x.stat /\ inCb = NoCtx /\ UNCHANGED poll /\ ContextRight(c)
      /\ view[c] \in Versions \cup Errors \cup {Unknown} /\ view = [view EXCEPT ![c] = view[c]]
  BY DEF FsPollInv, FsPollTypes, poll_cb, LoopRuns
<1>2. inCb # c /\ inCb = NoCtx /\ x.timer = "inactive" /\ Knows(x, view[c], FALSE)
  BY <1>1, FsPollAssumption DEF ContextRight, Held, Knows
<1>3. PICK result \in Versions \cup Errors, late \in 0..MaxLate :
         IF ~y(result, late).parent
         THEN /\ ctx' = [ctx EXCEPT ![c].stat = FALSE, ![c].timer = "closing"]
              /\ UNCHANGED <<inCb, view>>
         ELSE IF Reports(ctx[c], result)
         THEN /\ ctx' = [ctx EXCEPT ![c] = y(result, late)]
              /\ inCb' = c
              /\ view' = [view EXCEPT ![c] = result]
         ELSE /\ ctx' = [ctx EXCEPT ![c] = Finish(y(result, late))]
              /\ inCb' = inCb
              /\ view' = IF view[c] = Unknown THEN [view EXCEPT ![c] = result] ELSE view
  BY DEF poll_cb
<1> DEFINE z == y(result, late)
<1>4. /\ z \in Contexts /\ z.parent = x.parent /\ ~z.stat /\ z.timer = "inactive"
      /\ z.result = result /\ z.busy = x.busy /\ z.statbuf = x.statbuf /\ result # Unknown
  <2>1. late \in Nat /\ result # Unknown
    BY FsPollAssumption
  <2> QED BY <2>1, <1>1, <1>2 DEF Contexts
<1>5. CASE ~z.parent
  <2> DEFINE w == [x EXCEPT !.stat = FALSE, !.timer = "closing"]
  <2>1. ctx' = [ctx EXCEPT ![c] = w] /\ UNCHANGED <<inCb, view>>
    BY <1>3, <1>5 DEF FsPollInv, FsPollTypes
  <2>2. /\ w \in Contexts /\ w.parent = x.parent /\ ~w.stat /\ w.timer = "closing"
        /\ w.busy = x.busy /\ w.statbuf = x.statbuf
    BY <1>1 DEF Contexts
  <2> HIDE DEF w, z
  <2>3. Held(w, inCb' = c) /\ Knows(w, view[c], inCb' = c)
    BY <1>2, <2>1, <2>2 DEF Held, Knows
  <2> QED BY <1>1, <1>4, <1>5, <2>1, <2>2, <2>3, OneContext
<1>6. CASE z.parent /\ Reports(ctx[c], result)
  <2>1. ctx' = [ctx EXCEPT ![c] = z] /\ inCb' = c /\ view' = [view EXCEPT ![c] = result]
    BY <1>3, <1>6
  <2> HIDE DEF z
  <2>2. Held(z, inCb' = c) /\ Knows(z, result, inCb' = c)
    BY <1>4, <2>1 DEF Held, Knows
  <2> QED BY <1>1, <1>2, <1>4, <2>1, <2>2, OneContext
<1>7. CASE z.parent /\ ~Reports(ctx[c], result)
  <2>1. /\ ctx' = [ctx EXCEPT ![c] = Finish(z)] /\ inCb' = inCb
        /\ view' = IF view[c] = Unknown THEN [view EXCEPT ![c] = result] ELSE view
    BY <1>3, <1>7
  <2> HIDE DEF z
  <2>2. view' = [view EXCEPT ![c] = result]
    <3>1. view[c] = Unknown \/ view[c] = result
      BY <1>1, <1>2, <1>7, FsPollAssumption DEF Reports, Knows, Contexts, Unknown
    <3> QED BY <3>1, <2>1, <1>1
  <2>3. /\ Finish(z) \in Contexts /\ Finish(z).parent = z.parent
        /\ Held(Finish(z), FALSE) /\ Knows(Finish(z), result, FALSE)
        /\ Finish(z).timer = "active"
    BY <1>4, <1>7, FinishFacts
  <2>4. Held(Finish(z), inCb' = c) /\ Knows(Finish(z), result, inCb' = c)
    BY <1>2, <2>1, <2>3 DEF Held, Knows
  <2> QED BY <1>1, <1>4, <2>1, <2>2, <2>3, <2>4, OneContext, ZenonT(60)
<1> QED BY <1>5, <1>6, <1>7

\* fs-poll keeps its contexts and its user's knowledge right, for any number
\* of contexts, any interval and stats that take any time.
THEOREM FsPollInductive == FsPollSpec => []FsPollInv
<1>1. FsPollInv /\ [FsPollNext]_fsPollVars => FsPollInv'
  <2> SUFFICES ASSUME FsPollInv, [FsPollNext]_fsPollVars PROVE FsPollInv'
    OBVIOUS
  <2>1. CASE UNCHANGED fsPollVars
    <3>1. UNCHANGED <<poll, ctx, inCb, view>> /\ FsPollTypes'
      BY <2>1 DEF fsPollVars, FsPollInv, FsPollTypes
    <3>2. ASSUME NEW d \in Ctxs PROVE ContextRight(d)'
      BY <3>1, OtherContexts DEF FsPollInv
    <3> QED BY <3>1, <3>2 DEF FsPollInv
  <2> QED BY <2>1, FsPollStartStep, FsPollUserStep, TimerCbStep, PollCbStep, TimerCloseStep,
             PollCbReturnsStep DEF FsPollNext
<1> QED BY <1>1, FsPollBegins, PTL DEF FsPollSpec

\* A context is freed when nothing refers to it and not before, an abandoned
\* one is on its way there, and no change of the file is swallowed.
THEOREM FsPollCorrect == FsPollSpec => []FsPollRight
<1>1. FsPollInv => FsPollRight
  <2> SUFFICES ASSUME FsPollInv, NEW c \in Ctxs
               PROVE  /\ ctx[c].parent <=> poll.ctx = c
                      /\ ctx[c].timer \in {"freed", "closing"} => ~ctx[c].stat /\ inCb # c
                      /\ c \in Live =>
                           Cardinality({x \in {"stat", "timer", "cb"} :
                               \/ x = "stat" /\ ctx[c].stat
                               \/ x = "timer" /\ ctx[c].timer \in {"active", "closing"}
                               \/ x = "cb" /\ inCb = c}) = 1
                      /\ poll.ctx = c /\ inCb # c /\ ctx[c].timer = "active" =>
                           /\ view[c] = ctx[c].result
                           /\ ctx[c].wait \in 1..Interval
                           /\ (ctx[c].late + ctx[c].wait) % Interval = 0
    BY DEF FsPollRight, ContextsOutlive, NoChangeSwallowed
  <2>1. ContextRight(c) /\ ctx[c] \in Contexts
    BY DEF FsPollInv, FsPollTypes
  <2> DEFINE R == {x \in {"stat", "timer", "cb"} :
                     \/ x = "stat" /\ ctx[c].stat
                     \/ x = "timer" /\ ctx[c].timer \in {"active", "closing"}
                     \/ x = "cb" /\ inCb = c}
  <2>2. ASSUME c \in Live PROVE Cardinality(R) = 1
    <3>1. R = {"stat"} \/ R = {"timer"} \/ R = {"cb"}
      <4>1. ctx[c].timer # "freed"
        BY <2>2 DEF Live
      <4>2. CASE ctx[c].stat
        BY <4>2, <2>1 DEF ContextRight, Held
      <4>3. CASE ~ctx[c].stat /\ inCb = c
        BY <4>3, <2>1 DEF ContextRight, Held
      <4>4. CASE ~ctx[c].stat /\ inCb # c
        BY <4>1, <4>4, <2>1 DEF ContextRight, Held, Contexts
      <4> QED BY <4>2, <4>3, <4>4
    <3> HIDE DEF R
    <3> QED BY <3>1, FS_Singleton
  <2>3. /\ ctx[c].parent <=> poll.ctx = c
        /\ ctx[c].timer \in {"freed", "closing"} => ~ctx[c].stat /\ inCb # c
    BY <2>1 DEF ContextRight, Held
  <2>4. ctx[c].timer = "active" =>
          /\ view[c] = ctx[c].result
          /\ ctx[c].wait \in 1..Interval
          /\ (ctx[c].late + ctx[c].wait) % Interval = 0
    BY <2>1 DEF ContextRight, Knows
  <2> QED BY <2>2, <2>3, <2>4
<1> QED BY <1>1, FsPollInductive, PTL

----------------------------------------------------------------------------
(* Child processes.                                                        *)

ProcessTypes ==
    /\ child \in [Procs -> {"none", "running", "exited", "reaped"}]
    /\ proc \in [Procs -> {"free", "active", "idle", "closing"}]
    /\ handles \in Seq(Procs) /\ scan \in Seq(Procs) /\ reaped \in Seq(Procs)
    /\ watching \in BOOLEAN /\ sigchld \in BOOLEAN /\ chld \in Nat
    /\ chldAt \in {"loop", "scan", "walk", "exit_cb"}
    /\ next \in Procs \cup {EndOfQueue}
    /\ told \in [Procs -> Nat]

\* The two queues a process can be in, and the part of the first that
\* uv__chld has yet to ask for.
ProcessQueues ==
    /\ Distinct(handles) /\ Distinct(reaped) /\ Distinct(scan)
    /\ ToSet(handles) \cap ToSet(reaped) = {}
    /\ ToSet(scan) \subseteq ToSet(handles)
    /\ chldAt # "scan" => scan = <<>>
    /\ chldAt \in {"walk", "exit_cb"} => next = First(reaped)
    /\ chldAt = "loop" => reaped = <<>>

\* Where a process stands says in which queue it is.
ProcessStands(p) ==
    /\ p \in ToSet(handles) => child[p] \in {"running", "exited"} /\ told[p] = 0 /\ watching
    /\ p \in ToSet(handles) /\ child[p] = "exited" => sigchld \/ chld > 0 \/ p \in ToSet(scan)
    /\ p \in ToSet(reaped) => child[p] = "reaped" /\ told[p] = 0
    /\ proc[p] = "active" <=> p \in ToSet(handles) \cup ToSet(reaped)
    /\ told[p] <= 1
    /\ told[p] = 1 /\ proc[p] \in {"active", "idle"} => child[p] = "reaped"

\* The inductive invariant of child processes.
ProcessInv == ProcessTypes /\ ProcessQueues /\ \A p \in Procs : ProcessStands(p)

\* The walk of uv__chld goes on with the process after the first.
LEMMA FollowingHead ==
    ASSUME NEW q \in Seq(Procs), q # <<>>, Distinct(q)
    PROVE  Following(q, Head(q)) = First(Tail(q))
<1>0. Len(q) \in Nat \ {0} /\ Head(q) = q[1] /\ 1 \in 1..Len(q)
  BY LenProperties, EmptySeq
<1> DEFINE k == CHOOSE i \in 1..Len(q) : q[i] = Head(q)
<1>1. k \in 1..Len(q) /\ q[k] = Head(q)
  BY <1>0
<1>2. Following(q, Head(q)) = IF k < Len(q) THEN q[k + 1] ELSE EndOfQueue
  BY DEF Following
<1> HIDE DEF k
<1>3. k = 1
  BY <1>0, <1>1 DEF Distinct
<1> DEFINE u == Tail(q)
<1>4. u \in Seq(Procs) /\ Len(u) = Len(q) - 1 /\ \A i \in 1..Len(u) : u[i] = q[i + 1]
  BY HeadTailProperties
<1> HIDE DEF u
<1>5. CASE Len(q) = 1
  <2>1. u = <<>>
    BY <1>4, <1>5, EmptySeq
  <2> QED BY <2>1, <1>2, <1>3, <1>5 DEF First, u
<1>6. CASE Len(q) # 1
  <2>1. 1 \in 1..Len(u) /\ Len(u) # 0
    BY <1>0, <1>4, <1>6
  <2>2. u # <<>> /\ Head(u) = u[1]
    BY <2>1, <1>4, EmptySeq
  <2>3. Head(u) = q[k + 1] /\ k < Len(q)
    BY <2>1, <2>2, <1>0, <1>3, <1>4, <1>6
  <2> QED BY <2>2, <2>3, <1>2 DEF First, u
<1> QED BY <1>5, <1>6

LEMMA ProcessBegins == ProcessInit => ProcessInv
<1> SUFFICES ASSUME ProcessInit PROVE ProcessInv
  OBVIOUS
<1>1. <<>> \in Seq(Procs) /\ ToSet(<<>>) = {} /\ Distinct(<<>>)
  BY DEF ToSet, Distinct
<1>2. ProcessTypes
  BY <1>1 DEF ProcessInit, ProcessTypes
<1>3. ProcessQueues /\ \A p \in Procs : ProcessStands(p)
  BY <1>1 DEF ProcessInit, ProcessQueues, ProcessStands
<1> QED BY <1>2, <1>3 DEF ProcessInv

LEMMA ChildExitsStep ==
    ASSUME ProcessInv, NEW p \in Procs, ChildExits(p)
    PROVE  ProcessInv'
<1> USE DEF ChildExits, chldVars
<1>1. ProcessTypes' /\ \A r \in Procs : child'[r] = IF r = p THEN "exited" ELSE child[r]
  BY DEF ProcessInv, ProcessTypes
<1>2. ProcessQueues'
  BY DEF ProcessInv, ProcessQueues
<1>3. ASSUME NEW r \in Procs PROVE ProcessStands(r)'
  BY <1>1 DEF ProcessInv, ProcessStands
<1> QED BY <1>1, <1>2, <1>3 DEF ProcessInv

LEMMA DeliverStep ==
    ASSUME ProcessInv, DeliverSigchld
    PROVE  ProcessInv'
<1> USE DEF DeliverSigchld, chldVars
<1>1. chld' \in Nat /\ (watching => chld' > 0)
  <2>1. chld \in Nat /\ MaxChld \in Nat \ {0}
    BY ProcessAssumption DEF ProcessInv, ProcessTypes
  <2> QED BY <2>1
<1>0. ProcessTypes'
  BY <1>1 DEF ProcessInv, ProcessTypes
<1>2. ProcessQueues'
  BY DEF ProcessInv, ProcessQueues
<1>3. ASSUME NEW r \in Procs PROVE ProcessStands(r)'
  BY <1>1 DEF ProcessInv, ProcessStands
<1> QED BY <1>0, <1>2, <1>3 DEF ProcessInv

LEMMA SpawnStep ==
    ASSUME ProcessInv, NEW p \in Procs, uv_spawn(p)
    PROVE  ProcessInv'
<1>1. /\ chldAt \in {"loop", "exit_cb"} /\ proc[p] = "free" /\ watching' = TRUE
      /\ told' = [told EXCEPT ![p] = 0] /\ UNCHANGED <<chld, chldAt, scan, reaped, next>>
  BY DEF uv_spawn, ProcessCall, chldVars
<1>2. p \notin ToSet(handles) \cup ToSet(reaped) /\ scan = <<>>
  BY <1>1 DEF ProcessInv, ProcessStands, ProcessQueues
<1>3. CASE /\ child' = [child EXCEPT ![p] = "running"] /\ proc' = [proc EXCEPT ![p] = "active"]
           /\ handles' = Append(handles, p) /\ UNCHANGED sigchld
  <2>1. /\ handles' \in Seq(Procs) /\ ToSet(handles') = ToSet(handles) \cup {p}
        /\ Distinct(handles) => Distinct(handles')
    BY <1>2, <1>3, AppendFacts DEF ProcessInv, ProcessTypes
  <2>2. ProcessTypes'
    BY <1>1, <1>3, <2>1 DEF ProcessInv, ProcessTypes
  <2>3. ProcessQueues'
    BY <1>1, <1>2, <1>3, <2>1 DEF ProcessInv, ProcessQueues
  <2>4. ASSUME NEW r \in Procs PROVE ProcessStands(r)'
    <3>1. /\ child'[r] = IF r = p THEN "running" ELSE child[r]
          /\ proc'[r] = IF r = p THEN "active" ELSE proc[r]
          /\ told'[r] = IF r = p THEN 0 ELSE told[r]
      BY <1>1, <1>3 DEF ProcessInv, ProcessTypes
    <3> QED BY <1>1, <1>2, <1>3, <2>1, <3>1 DEF ProcessInv, ProcessStands
  <2> QED BY <2>2, <2>3, <2>4 DEF ProcessInv
<1>4. CASE /\ sigchld' \in {sigchld, TRUE} /\ child' = [child EXCEPT ![p] = "none"]
           /\ proc' = [proc EXCEPT ![p] = "idle"] /\ UNCHANGED handles
  <2>1. ProcessTypes'
    BY <1>1, <1>4 DEF ProcessInv, ProcessTypes
  <2>2. ProcessQueues'
    BY <1>1, <1>4 DEF ProcessInv, ProcessQueues
  <2>3. ASSUME NEW r \in Procs PROVE ProcessStands(r)'
    <3>1. /\ child'[r] = IF r = p THEN "none" ELSE child[r]
          /\ proc'[r] = IF r = p THEN "idle" ELSE proc[r]
          /\ told'[r] = IF r = p THEN 0 ELSE told[r]
      BY <1>1, <1>4 DEF ProcessInv, ProcessTypes
    <3>2. sigchld => sigchld'
      BY <1>4
    <3> QED BY <1>1, <1>2, <1>4, <3>1, <3>2 DEF ProcessInv, ProcessStands
  <2> QED BY <2>1, <2>2, <2>3 DEF ProcessInv
<1> QED BY <1>3, <1>4 DEF uv_spawn

LEMMA ProcessCloseStep ==
    ASSUME ProcessInv, NEW p \in Procs, uv__process_close(p)
    PROVE  ProcessInv'
<1>1. /\ chldAt \in {"loop", "exit_cb"} /\ proc[p] \in {"active", "idle"}
      /\ chldAt = "exit_cb" => p # next
      /\ proc' = [proc EXCEPT ![p] = "closing"]
      /\ handles' = Unlink(handles, p) /\ reaped' = Unlink(reaped, p)
      /\ watching' = (watching /\ handles' # <<>>)
      /\ UNCHANGED <<child, sigchld, chld, chldAt, scan, next, told>>
  BY DEF uv__process_close, ProcessCall
<1>2. /\ handles \in Seq(Procs) /\ reaped \in Seq(Procs) /\ Distinct(handles) /\ Distinct(reaped)
      /\ scan = <<>> /\ ToSet(handles) \cap ToSet(reaped) = {}
  BY <1>1 DEF ProcessInv, ProcessTypes, ProcessQueues
<1>3. /\ handles' \in Seq(Procs) /\ ToSet(handles') = ToSet(handles) \ {p} /\ Distinct(handles')
  BY <1>1, <1>2, UnlinkFacts
<1>4. /\ reaped' \in Seq(Procs) /\ ToSet(reaped') = ToSet(reaped) \ {p} /\ Distinct(reaped')
  BY <1>1, <1>2, UnlinkFacts
<1>5. (handles' = <<>>) => ToSet(handles') = {}
  BY <1>3, EmptySeq DEF ToSet
<1>6. ProcessTypes'
  BY <1>1, <1>3, <1>4 DEF ProcessInv, ProcessTypes
<1>7. reaped = <<>> => reaped' = <<>>
  BY <1>1 DEF Unlink
<1>8. chldAt = "exit_cb" => next = First(reaped')
  <2> SUFFICES ASSUME chldAt = "exit_cb" PROVE next = First(reaped')
    OBVIOUS
  <2>1. next = First(reaped) /\ p # next
    BY <1>1 DEF ProcessInv, ProcessQueues
  <2>2. CASE reaped = <<>>
    BY <2>1, <2>2, <1>7
  <2>3. CASE reaped # <<>>
    <3>1. p # Head(reaped)
      BY <2>1, <2>3 DEF First
    <3>2. Unlink(reaped, p) # <<>> /\ Head(Unlink(reaped, p)) = Head(reaped)
      BY <3>1, <2>3, <1>2, UnlinkHead
    <3> QED BY <3>2, <2>1, <2>3, <1>1 DEF First
  <2> QED BY <2>2, <2>3
<1>9. ProcessQueues'
  <2>1. ToSet(<<>>) = {} /\ Distinct(<<>>)
    BY DEF ToSet, Distinct
  <2> QED BY <2>1, <1>1, <1>2, <1>3, <1>4, <1>7, <1>8 DEF ProcessInv, ProcessQueues
<1>10. ASSUME NEW r \in Procs PROVE ProcessStands(r)'
  <2>1. proc'[r] = IF r = p THEN "closing" ELSE proc[r]
    BY <1>1 DEF ProcessInv, ProcessTypes
  <2>2. r \in ToSet(handles') /\ watching => watching'
    BY <1>1, <1>5
  <2> QED BY <1>1, <1>3, <1>4, <2>1, <2>2 DEF ProcessInv, ProcessStands
<1> QED BY <1>6, <1>9, <1>10 DEF ProcessInv

LEMMA ProcessClosedStep ==
    ASSUME ProcessInv, NEW p \in Procs, ProcessClosed(p)
    PROVE  ProcessInv'
<1> USE DEF ProcessClosed, chldVars
<1>1. /\ ProcessTypes'
      /\ \A r \in Procs : /\ child'[r] = IF r = p THEN "none" ELSE child[r]
                          /\ proc'[r] = IF r = p THEN "free" ELSE proc[r]
  BY DEF ProcessInv, ProcessTypes
<1>2. ProcessQueues'
  BY DEF ProcessInv, ProcessQueues
<1>3. ASSUME NEW r \in Procs PROVE ProcessStands(r)'
  BY <1>1 DEF ProcessInv, ProcessStands
<1> QED BY <1>1, <1>2, <1>3 DEF ProcessInv

LEMMA ChldStep ==
    ASSUME ProcessInv, uv__chld
    PROVE  ProcessInv'
<1>0. /\ chldAt = "loop" /\ chld > 0 /\ chld' = chld - 1
      /\ IF watching THEN chldAt' = "scan" /\ scan' = handles ELSE UNCHANGED <<chldAt, scan>>
      /\ UNCHANGED <<child, proc, handles, watching, sigchld, reaped, next, told>>
  BY DEF uv__chld
<1>1. chld' \in Nat
  <2>1. chld \in Nat
    BY DEF ProcessInv, ProcessTypes
  <2> QED BY <2>1, <1>0
<1>2. ProcessTypes'
  BY <1>0, <1>1 DEF ProcessInv, ProcessTypes
<1>3. ProcessQueues'
  BY <1>0 DEF ProcessInv, ProcessQueues
<1>4. ASSUME NEW r \in Procs PROVE ProcessStands(r)'
  BY <1>0 DEF ProcessInv, ProcessStands
<1> QED BY <1>2, <1>3, <1>4 DEF ProcessInv

LEMMA WaitpidStep ==
    ASSUME ProcessInv, Waitpid
    PROVE  ProcessInv'
<1>0. /\ chldAt = "scan" /\ UNCHANGED <<proc, watching, sigchld, chld, told>>
      /\ handles \in Seq(Procs) /\ reaped \in Seq(Procs) /\ scan \in Seq(Procs)
      /\ Distinct(handles) /\ Distinct(reaped) /\ Distinct(scan)
      /\ ToSet(handles) \cap ToSet(reaped) = {} /\ ToSet(scan) \subseteq ToSet(handles)
  BY DEF Waitpid, ProcessInv, ProcessTypes, ProcessQueues
<1>1. CASE scan = <<>>
  <2>1. chldAt' = "walk" /\ next' = First(reaped) /\ UNCHANGED <<scan, child, handles, reaped>>
    BY <1>1 DEF Waitpid
  <2>2. First(reaped) \in Procs \cup {EndOfQueue}
    BY <1>0, TailFacts DEF First
  <2>3. ProcessTypes'
    BY <1>0, <2>1, <2>2 DEF ProcessInv, ProcessTypes
  <2>4. ProcessQueues'
    BY <1>1, <2>1 DEF ProcessInv, ProcessQueues
  <2>5. ASSUME NEW r \in Procs PROVE ProcessStands(r)'
    BY <1>0, <2>1 DEF ProcessInv, ProcessStands
  <2> QED BY <2>3, <2>4, <2>5 DEF ProcessInv
<1>2. CASE scan # <<>>
  <2> PICK p : p = Head(scan)
    OBVIOUS
  <2>1. /\ scan' = Tail(scan) /\ UNCHANGED <<chldAt, next>>
        /\ IF child[p] = "exited"
           THEN /\ child' = [child EXCEPT ![p] = "reaped"]
                /\ handles' = Unlink(handles, p) /\ reaped' = Append(reaped, p)
           ELSE UNCHANGED <<child, handles, reaped>>
    BY <1>2 DEF Waitpid
  <2>2. /\ p \in Procs /\ p \in ToSet(scan) /\ scan' \in Seq(Procs) /\ Distinct(scan')
        /\ ToSet(scan) = ToSet(scan') \cup {p} /\ p \notin ToSet(scan')
    BY <1>0, <1>2, <2>1, TailFacts
  <2>3. CASE child[p] # "exited"
    <3>1. ProcessTypes'
      BY <1>0, <2>1, <2>2, <2>3 DEF ProcessInv, ProcessTypes
    <3>2. ProcessQueues'
      BY <1>0, <2>1, <2>2, <2>3 DEF ProcessInv, ProcessQueues
    <3>3. ASSUME NEW r \in Procs PROVE ProcessStands(r)'
      BY <1>0, <2>1, <2>2, <2>3 DEF ProcessInv, ProcessStands
    <3> QED BY <3>1, <3>2, <3>3 DEF ProcessInv
  <2>4. CASE child[p] = "exited"
    <3>1. /\ handles' \in Seq(Procs) /\ ToSet(handles') = ToSet(handles) \ {p} /\ Distinct(handles')
      BY <1>0, <2>1, <2>4, UnlinkFacts
    <3>2. /\ reaped' \in Seq(Procs) /\ ToSet(reaped') = ToSet(reaped) \cup {p} /\ Distinct(reaped')
      <4>1. p \notin ToSet(reaped) /\ p \in Procs /\ reaped' = Append(reaped, p)
        BY <1>0, <2>1, <2>2, <2>4
      <4>2. /\ Append(reaped, p) \in Seq(Procs) /\ ToSet(Append(reaped, p)) = ToSet(reaped) \cup {p}
            /\ Distinct(reaped) /\ p \notin ToSet(reaped) => Distinct(Append(reaped, p))
        BY <4>1, <1>0, AppendFacts
      <4> QED BY <4>1, <4>2, <1>0
    <3>3. ProcessTypes' /\ \A r \in Procs : child'[r] = IF r = p THEN "reaped" ELSE child[r]
      BY <1>0, <2>1, <2>2, <2>4, <3>1, <3>2 DEF ProcessInv, ProcessTypes
    <3>4. ProcessQueues'
      BY <1>0, <2>1, <2>2, <3>1, <3>2 DEF ProcessInv, ProcessQueues
    <3>5. ASSUME NEW r \in Procs PROVE ProcessStands(r)'
      BY <1>0, <2>2, <3>1, <3>2, <3>3 DEF ProcessInv, ProcessStands
    <3> QED BY <3>3, <3>4, <3>5 DEF ProcessInv
  <2> QED BY <2>3, <2>4
<1> QED BY <1>1, <1>2

LEMMA ExitCbStep ==
    ASSUME ProcessInv, ExitCb
    PROVE  ProcessInv'
<1>0. /\ chldAt = "walk" /\ UNCHANGED <<child, handles, watching, sigchld, chld, scan>>
      /\ reaped \in Seq(Procs) /\ Distinct(reaped) /\ next = First(reaped)
      /\ next \in Procs \cup {EndOfQueue}
  BY DEF ExitCb, ProcessInv, ProcessTypes, ProcessQueues
<1>1. CASE next = EndOfQueue
  <2>1. chldAt' = "loop" /\ UNCHANGED <<proc, reaped, next, told>>
    BY <1>1 DEF ExitCb
  <2>2. reaped = <<>>
    <3>1. reaped # <<>> => Head(reaped) \in Procs
      BY <1>0, TailFacts
    <3> QED BY <3>1, <1>0, <1>1, ProcessAssumption DEF First
  <2>3. ProcessTypes'
    BY <1>0, <2>1 DEF ProcessInv, ProcessTypes
  <2>4. ProcessQueues'
    BY <1>0, <2>1, <2>2 DEF ProcessInv, ProcessQueues
  <2>5. ASSUME NEW r \in Procs PROVE ProcessStands(r)'
    BY <1>0, <2>1 DEF ProcessInv, ProcessStands
  <2> QED BY <2>3, <2>4, <2>5 DEF ProcessInv
<1>2. CASE next # EndOfQueue
  <2> PICK p \in Procs : p = next
    BY <1>0, <1>2
  <2>1. /\ next' = Following(reaped, p) /\ reaped' = Unlink(reaped, p)
        /\ proc' = [proc EXCEPT ![p] = "idle"] /\ told' = [told EXCEPT ![p] = @ + 1]
        /\ chldAt' = "exit_cb"
    BY <1>2 DEF ExitCb
  <2>2. reaped # <<>> /\ p = Head(reaped)
    BY <1>0, <1>2 DEF First
  <2>3. p \in ToSet(reaped) /\ Tail(reaped) \in Seq(Procs)
    BY <1>0, <2>2, TailFacts
  <2>4. reaped' = Tail(reaped) /\ next' = First(reaped')
    <3>1. Unlink(reaped, p) = Tail(reaped)
      BY <1>0, <2>2, UnlinkHead
    <3>2. Following(reaped, p) = First(Tail(reaped))
      BY <1>0, <2>2, FollowingHead
    <3> QED BY <3>1, <3>2, <2>1
  <2>5. /\ reaped' \in Seq(Procs) /\ ToSet(reaped') = ToSet(reaped) \ {p} /\ Distinct(reaped')
    BY <1>0, <2>1, UnlinkFacts
  <2>6. next' \in Procs \cup {EndOfQueue}
    BY <2>4, <2>5, TailFacts DEF First
  <2>7. /\ ProcessTypes'
        /\ \A r \in Procs : /\ proc'[r] = IF r = p THEN "idle" ELSE proc[r]
                            /\ told'[r] = IF r = p THEN told[p] + 1 ELSE told[r]
    BY <1>0, <2>1, <2>5, <2>6 DEF ProcessInv, ProcessTypes
  <2>8. ProcessQueues'
    BY <1>0, <2>1, <2>4, <2>5 DEF ProcessInv, ProcessQueues
  <2>9. ASSUME NEW r \in Procs PROVE ProcessStands(r)'
    <3>1. p \notin ToSet(handles)
      BY <2>3 DEF ProcessInv, ProcessQueues
    <3> QED BY <1>0, <2>3, <2>5, <2>7, <3>1 DEF ProcessInv, ProcessStands
  <2> QED BY <2>7, <2>8, <2>9 DEF ProcessInv
<1> QED BY <1>1, <1>2

\* No step of a child, of the kernel, of uv__chld or of the user breaks the
\* accounts of exits, for any number of processes and a pipe of any size.
THEOREM ProcessInductive == ProcessSpec => []ProcessInv
<1>1. ProcessInv /\ [ProcessNext]_processVars => ProcessInv'
  <2> SUFFICES ASSUME ProcessInv, [ProcessNext]_processVars PROVE ProcessInv'
    OBVIOUS
  <2>1. CASE UNCHANGED processVars
    BY <2>1 DEF processVars, ProcessInv, ProcessTypes, ProcessQueues, ProcessStands
  <2>2. CASE ExitCbReturns
    <3>1. ProcessTypes' /\ ProcessQueues'
      BY <2>2 DEF ExitCbReturns, ProcessInv, ProcessTypes, ProcessQueues
    <3>2. ASSUME NEW r \in Procs PROVE ProcessStands(r)'
      BY <2>2 DEF ExitCbReturns, ProcessInv, ProcessStands
    <3> QED BY <3>1, <3>2 DEF ProcessInv
  <2> QED BY <2>1, <2>2, ChildExitsStep, DeliverStep, SpawnStep, ProcessCloseStep,
             ProcessClosedStep, ChldStep, WaitpidStep, ExitCbStep DEF ProcessNext
<1> QED BY <1>1, ProcessBegins, PTL DEF ProcessSpec

\* While a listed child is a zombie its exit is on the way to be noticed,
\* though SIGCHLDs merge and the pipe fills up, and it is told once.
THEOREM ProcessCorrect == ProcessSpec => []ProcessRight
<1>1. ProcessInv => ProcessRight
  <2> SUFFICES ASSUME ProcessInv PROVE ProcessRight
    OBVIOUS
  <2>1. /\ handles \in Seq(Procs) /\ reaped \in Seq(Procs) /\ scan \in Seq(Procs)
        /\ told \in [Procs -> Nat] /\ ToSet(handles) \subseteq Procs
    BY ElementOfSeq, LenProperties DEF ProcessInv, ProcessTypes, ToSet
  <2>2. Range(handles) = ToSet(handles) /\ Range(scan) = ToSet(scan)
        /\ Range(handles \o reaped) = ToSet(handles \o reaped)
    BY DEF Range, ToSet
  <2>3. /\ ToSet(handles \o reaped) = ToSet(handles) \cup ToSet(reaped)
        /\ Distinct(handles \o reaped)
    BY <2>1, ConcatFacts DEF ProcessInv, ProcessQueues
  <2>4. NoExitUnnoticed
    BY <2>1, <2>2 DEF NoExitUnnoticed, ProcessInv, ProcessStands
  <2>5. ExitToldOnce
    BY <2>2, <2>3 DEF ExitToldOnce, ProcessInv, ProcessStands, ProcessQueues
  <2> QED BY <2>4, <2>5 DEF ProcessRight
<1> QED BY <1>1, ProcessInductive, PTL

----------------------------------------------------------------------------
(* File system events.                                                     *)

InotifyTypes ==
    /\ kernel \in [Paths -> 0..MaxWd] /\ lastWd \in 0..MaxWd
    /\ \A p \in Paths : kernel[p] <= lastWd
    /\ events \in Seq(Wds)
    /\ lists \in [Wds -> Seq(Watches)] /\ tree \subseteq 1..lastWd
    /\ wd \in [Watches -> 0..MaxWd]
    /\ current \in 0..MaxWd /\ rest \in Seq(Watches) /\ owed \subseteq Watches
    /\ unlisted \subseteq Wds

\* The local queue of uv__inotify_read, and the kernel's watches.
InotifyKeeps ==
    /\ Distinct(rest)
    /\ current = 0 => rest = <<>>
    /\ current # 0 => owed = ToSet(rest)
    /\ NoWatchLeaked

\* The list of w and the handles that watch w.
ListStands(w) ==
    /\ Distinct(lists[w])
    /\ current = w => ToSet(lists[w]) \cap ToSet(rest) = {}
    /\ \A h \in Watches :
          h \in ToSet(lists[w]) \/ (current = w /\ h \in ToSet(rest)) <=> wd[h] = w
    /\ w \in tree <=> lists[w] # <<>> \/ current = w

\* The inductive invariant of file system events.
InotifyInv == InotifyTypes /\ InotifyKeeps /\ \A w \in Wds : ListStands(w)

LEMMA InotifyFacts ==
    ASSUME InotifyInv
    PROVE  /\ MaxWd \in Nat \ {0} /\ 0 \notin Wds /\ lastWd \in Nat
           /\ tree \subseteq Wds /\ \A n : n \in 0..MaxWd /\ n # 0 => n \in Wds
           /\ \A w \in Wds : lists[w] \in Seq(Watches)
<1>1. MaxWd \in Nat \ {0} /\ 0 \notin Wds
  BY InotifyAssumption DEF Wds
<1>2. lastWd \in 0..MaxWd /\ tree \subseteq 1..lastWd /\ \A w \in Wds : lists[w] \in Seq(Watches)
  BY DEF InotifyInv, InotifyTypes
<1> QED BY <1>1, <1>2 DEF Wds

LEMMA EmptyQueue == ToSet(<<>>) = {} /\ Distinct(<<>>) /\ \A S : <<>> \in Seq(S)
BY EmptySeq DEF ToSet, Distinct

\* A queue without nodes is the empty one.
LEMMA NoNodes ==
    ASSUME NEW S, NEW q \in Seq(S), ToSet(q) = {}
    PROVE  q = <<>>
<1>1. q # <<>> => Head(q) \in ToSet(q)
  BY TailFacts
<1> QED BY <1>1

LEMMA InotifyBegins == InotifyInit => InotifyInv
<1> SUFFICES ASSUME InotifyInit PROVE InotifyInv
  OBVIOUS
<1>1. MaxWd \in Nat \ {0} /\ 0 \notin Wds
  BY InotifyAssumption DEF Wds
<1>2. InotifyTypes
  BY <1>1, EmptyQueue DEF InotifyInit, InotifyTypes
<1>3. InotifyKeeps
  BY EmptyQueue DEF InotifyInit, InotifyKeeps, NoWatchLeaked
<1>4. ASSUME NEW w \in Wds PROVE ListStands(w)
  BY <1>1, EmptyQueue DEF InotifyInit, ListStands
<1> QED BY <1>2, <1>3, <1>4 DEF InotifyInv

LEMMA EventStartStep ==
    ASSUME InotifyInv, NEW h \in Watches, NEW p \in Paths, uv_fs_event_start(h, p)
    PROVE  InotifyInv'
<1> PICK w : w = IF kernel[p] # 0 THEN kernel[p] ELSE lastWd + 1
  OBVIOUS
<1>1. /\ wd[h] = 0 /\ (kernel[p] # 0 \/ lastWd < MaxWd)
      /\ kernel' = [kernel EXCEPT ![p] = w]
      /\ lastWd' = IF kernel[p] # 0 THEN lastWd ELSE w
      /\ UNCHANGED <<events, current, rest, owed>>
      /\ \/ /\ tree' = tree \cup {w} /\ lists' = [lists EXCEPT ![w] = Append(@, h)]
            /\ wd' = [wd EXCEPT ![h] = w] /\ unlisted' = unlisted \ {w}
         \/ /\ w \notin tree /\ unlisted' = unlisted \cup {w}
            /\ UNCHANGED <<tree, lists, wd>>
  BY DEF uv_fs_event_start
<1>2. /\ MaxWd \in Nat \ {0} /\ 0 \notin Wds /\ lastWd \in Nat
      /\ tree \subseteq Wds /\ \A n : n \in 0..MaxWd /\ n # 0 => n \in Wds
      /\ \A v \in Wds : lists[v] \in Seq(Watches)
  BY InotifyFacts
<1>3. /\ w \in Wds /\ w \in 0..MaxWd /\ lastWd' \in 0..MaxWd
      /\ tree \subseteq 1..lastWd' /\ w \in 1..lastWd'
  <2>1. /\ lastWd \in 0..MaxWd /\ tree \subseteq 1..lastWd /\ kernel[p] \in 0..MaxWd
        /\ kernel[p] <= lastWd
    BY DEF InotifyInv, InotifyTypes
  <2>2. CASE kernel[p] # 0
    BY <1>1, <1>2, <2>1, <2>2 DEF Wds
  <2>3. CASE kernel[p] = 0
    <3>1. w = lastWd + 1 /\ lastWd < MaxWd /\ lastWd' = lastWd + 1 /\ w \in 1..MaxWd
      BY <1>1, <1>2, <2>1, <2>3
    <3> QED BY <1>1, <1>2, <2>1, <2>3, <3>1 DEF Wds
  <2> QED BY <2>2, <2>3
<1>4. \A v \in Wds : h \notin ToSet(lists[v]) /\ ~(current = v /\ h \in ToSet(rest))
  BY <1>1, <1>2 DEF InotifyInv, ListStands
<1>5. /\ Append(lists[w], h) \in Seq(Watches) /\ Append(lists[w], h) # <<>>
      /\ ToSet(Append(lists[w], h)) = ToSet(lists[w]) \cup {h}
      /\ Distinct(lists[w]) => Distinct(Append(lists[w], h))
  BY <1>2, <1>3, <1>4, AppendFacts
<1>6. \A r \in Paths : kernel'[r] = IF r = p THEN w ELSE kernel[r]
  BY <1>1 DEF InotifyInv, InotifyTypes
<1>7. CASE /\ tree' = tree \cup {w} /\ lists' = [lists EXCEPT ![w] = Append(@, h)]
           /\ wd' = [wd EXCEPT ![h] = w] /\ unlisted' = unlisted \ {w}
  <2>1. InotifyTypes'
    <3>1. lists' \in [Wds -> Seq(Watches)]
      BY <1>7, <1>3, <1>5 DEF InotifyInv, InotifyTypes
    <3>2. kernel' \in [Paths -> 0..MaxWd] /\ \A r \in Paths : kernel'[r] <= lastWd'
      BY <1>1, <1>2, <1>3, <1>6 DEF InotifyInv, InotifyTypes
    <3> QED BY <1>1, <1>3, <1>7, <3>1, <3>2 DEF InotifyInv, InotifyTypes
  <2>2. InotifyKeeps'
    BY <1>1, <1>6, <1>7 DEF InotifyInv, InotifyKeeps, NoWatchLeaked
  <2>3. ASSUME NEW v \in Wds PROVE ListStands(v)'
    <3>1. /\ lists'[v] = IF v = w THEN Append(lists[w], h) ELSE lists[v]
          /\ \A g \in Watches : wd'[g] = IF g = h THEN w ELSE wd[g]
      BY <1>3, <1>7 DEF InotifyInv, InotifyTypes
    <3> QED BY <1>1, <1>2, <1>4, <1>5, <1>7, <3>1 DEF InotifyInv, ListStands
  <2> QED BY <2>1, <2>2, <2>3 DEF InotifyInv
<1>8. CASE w \notin tree /\ unlisted' = unlisted \cup {w} /\ UNCHANGED <<tree, lists, wd>>
  <2>1. InotifyTypes'
    <3>1. kernel' \in [Paths -> 0..MaxWd] /\ \A r \in Paths : kernel'[r] <= lastWd'
      BY <1>1, <1>2, <1>3, <1>6 DEF InotifyInv, InotifyTypes
    <3> QED BY <1>1, <1>3, <1>8, <3>1 DEF InotifyInv, InotifyTypes
  <2>2. InotifyKeeps'
    BY <1>1, <1>6, <1>8 DEF InotifyInv, InotifyKeeps, NoWatchLeaked
  <2>3. ASSUME NEW v \in Wds PROVE ListStands(v)'
    BY <1>1, <1>8 DEF InotifyInv, ListStands
  <2> QED BY <2>1, <2>2, <2>3 DEF InotifyInv
<1> QED BY <1>1, <1>7, <1>8

\* What maybe_free_watcher_list does, whether it frees the list or not.
LEMMA MaybeFree ==
    ASSUME InotifyInv, NEW w \in Wds, NEW list \in Seq(Watches), NEW iterating \in BOOLEAN,
           maybe_free_watcher_list(w, list, iterating)
    PROVE  /\ lists' = [lists EXCEPT ![w] = list]
           /\ tree' = IF list = <<>> /\ ~iterating THEN tree \ {w} ELSE tree
           /\ kernel' \in [Paths -> 0..MaxWd] /\ events' \in Seq(Wds)
           /\ \A p \in Paths : kernel'[p] <= lastWd
           /\ unlisted' = unlisted => NoWatchLeaked'
<1>1. /\ kernel \in [Paths -> 0..MaxWd] /\ events \in Seq(Wds) /\ 0 \in 0..MaxWd
      /\ (\A p \in Paths : kernel[p] <= lastWd) /\ 0 <= lastWd /\ NoWatchLeaked
  BY InotifyAssumption DEF InotifyInv, InotifyTypes, InotifyKeeps
<1>2. CASE list = <<>> /\ ~iterating
  <2>1. FreeList(w)
    BY <1>2 DEF maybe_free_watcher_list
  <2>2. events' \in Seq(Wds)
    BY <1>1, <2>1, AppendFacts DEF FreeList
  <2>3. kernel' = [p \in Paths |-> IF kernel[p] = w THEN 0 ELSE kernel[p]] /\ tree' = tree \ {w}
    BY <2>1 DEF FreeList
  <2>4. \A p \in Paths : kernel'[p] = IF kernel[p] = w THEN 0 ELSE kernel[p]
    BY <2>3
  <2>5. unlisted' = unlisted => NoWatchLeaked'
    BY <1>1, <2>3, <2>4 DEF NoWatchLeaked
  <2> QED BY <1>1, <1>2, <2>1, <2>2, <2>3, <2>4, <2>5 DEF FreeList
<1>3. CASE ~(list = <<>> /\ ~iterating)
  BY <1>1, <1>3 DEF maybe_free_watcher_list, NoWatchLeaked
<1> QED BY <1>2, <1>3

LEMMA EventStopStep ==
    ASSUME InotifyInv, NEW h \in Watches, uv_fs_event_stop(h)
    PROVE  InotifyInv'
<1> PICK w : w = wd[h]
  OBVIOUS
<1> DEFINE list == Unlink(lists[w], h)
<1>1. /\ w # 0 /\ wd' = [wd EXCEPT ![h] = 0] /\ rest' = Unlink(rest, h) /\ owed' = owed \ {h}
      /\ maybe_free_watcher_list(w, list, current = w)
      /\ UNCHANGED <<lastWd, current, unlisted>>
  BY DEF uv_fs_event_stop
<1>2. /\ MaxWd \in Nat \ {0} /\ 0 \notin Wds /\ lastWd \in Nat
      /\ tree \subseteq Wds /\ \A n : n \in 0..MaxWd /\ n # 0 => n \in Wds
      /\ \A v \in Wds : lists[v] \in Seq(Watches)
  BY InotifyFacts
<1>3. w \in Wds /\ rest \in Seq(Watches) /\ Distinct(rest) /\ lists[w] \in Seq(Watches)
      /\ Distinct(lists[w])
  <2>1. wd[h] \in 0..MaxWd
    BY DEF InotifyInv, InotifyTypes
  <2>2. w \in Wds
    BY <2>1, <1>1, <1>2
  <2> QED BY <2>2, <1>2 DEF InotifyInv, InotifyTypes, InotifyKeeps, ListStands
<1>4. list \in Seq(Watches) /\ ToSet(list) = ToSet(lists[w]) \ {h} /\ Distinct(list)
  BY <1>3, UnlinkFacts
<1>5. rest' \in Seq(Watches) /\ ToSet(rest') = ToSet(rest) \ {h} /\ Distinct(rest')
  BY <1>1, <1>3, UnlinkFacts
<1> HIDE DEF list
<1>6. /\ lists' = [lists EXCEPT ![w] = list]
      /\ tree' = IF list = <<>> /\ current # w THEN tree \ {w} ELSE tree
      /\ kernel' \in [Paths -> 0..MaxWd] /\ events' \in Seq(Wds)
      /\ (\A p \in Paths : kernel'[p] <= lastWd) /\ NoWatchLeaked'
  <2>1. (current = w) \in BOOLEAN
    OBVIOUS
  <2> QED BY <2>1, <1>1, <1>3, <1>4, MaybeFree
<1>7. InotifyTypes'
  <2>1. lists' \in [Wds -> Seq(Watches)] /\ tree' \subseteq 1..lastWd'
    BY <1>1, <1>3, <1>4, <1>6 DEF InotifyInv, InotifyTypes
  <2>2. wd' \in [Watches -> 0..MaxWd]
    BY <1>1, <1>2 DEF InotifyInv, InotifyTypes
  <2> QED BY <1>1, <1>5, <1>6, <2>1, <2>2 DEF InotifyInv, InotifyTypes
<1>8. InotifyKeeps'
  <2>1. current = 0 => rest' = <<>>
    BY <1>1 DEF InotifyInv, InotifyKeeps, Unlink
  <2>2. current # 0 => owed' = ToSet(rest')
    BY <1>1, <1>5 DEF InotifyInv, InotifyKeeps
  <2> QED BY <1>1, <1>5, <1>6, <2>1, <2>2 DEF InotifyKeeps
<1>9. ASSUME NEW v \in Wds PROVE ListStands(v)'
  <2>1. /\ lists'[v] = IF v = w THEN list ELSE lists[v]
        /\ \A g \in Watches : wd'[g] = IF g = h THEN 0 ELSE wd[g]
    BY <1>1, <1>3, <1>6 DEF InotifyInv, InotifyTypes
  <2>2. ListStands(v)
    BY DEF InotifyInv
  <2>3. Distinct(lists'[v]) /\ (current' = v => ToSet(lists'[v]) \cap ToSet(rest') = {})
    BY <1>1, <1>4, <1>5, <2>1, <2>2 DEF ListStands
  <2>4. ASSUME NEW g \in Watches
        PROVE  g \in ToSet(lists'[v]) \/ (current' = v /\ g \in ToSet(rest')) <=> wd'[g] = v
    BY <1>1, <1>2, <1>4, <1>5, <2>1, <2>2 DEF ListStands
  <2>5. v \in tree' <=> lists'[v] # <<>> \/ current' = v
    <3>1. CASE v # w
      BY <3>1, <1>1, <1>6, <2>1, <2>2 DEF ListStands
    <3>2. CASE v = w
      <4>1. h \in ToSet(lists[w]) \/ (current = w /\ h \in ToSet(rest))
        BY <3>2, <2>2 DEF ListStands
      <4>2. lists[w] # <<>> \/ current = w
        BY <4>1, EmptyQueue
      <4> QED BY <3>2, <4>2, <1>1, <1>6, <2>1, <2>2 DEF ListStands
    <3> QED BY <3>1, <3>2
  <2> QED BY <2>3, <2>4, <2>5 DEF ListStands
<1> QED BY <1>7, <1>8, <1>9 DEF InotifyInv

LEMMA FileChangesStep ==
    ASSUME InotifyInv, NEW p \in Paths, FileChanges(p)
    PROVE  InotifyInv'
<1>1. /\ kernel[p] # 0 /\ events' = Append(events, kernel[p])
      /\ kernel' \in {kernel, [kernel EXCEPT ![p] = 0]}
      /\ UNCHANGED <<lastWd, lists, tree, wd, current, rest, owed, unlisted>>
  BY DEF FileChanges
<1>2. kernel[p] \in Wds /\ events \in Seq(Wds) /\ 0 \in 0..MaxWd
  BY <1>1, InotifyFacts DEF InotifyInv, InotifyTypes
<1>3. events' \in Seq(Wds)
  BY <1>1, <1>2, AppendFacts
<1>4. InotifyTypes'
  <2>1. kernel' \in [Paths -> 0..MaxWd] /\ \A r \in Paths : kernel'[r] <= lastWd
    <3>1. /\ kernel \in [Paths -> 0..MaxWd] /\ lastWd \in Nat
          /\ \A r \in Paths : kernel[r] <= lastWd
      BY InotifyFacts DEF InotifyInv, InotifyTypes
    <3>2. CASE kernel' = kernel
      BY <3>1, <3>2
    <3>3. CASE kernel' = [kernel EXCEPT ![p] = 0]
      BY <1>2, <3>1, <3>3
    <3> QED BY <1>1, <3>2, <3>3
  <2> QED BY <1>1, <1>3, <2>1 DEF InotifyInv, InotifyTypes
<1>5. InotifyKeeps'
  <2>1. \A r \in Paths : kernel'[r] = kernel[r] \/ kernel'[r] = 0
    BY <1>1 DEF InotifyInv, InotifyTypes
  <2>2. NoWatchLeaked'
    BY <1>1, <2>1 DEF InotifyInv, InotifyKeeps, NoWatchLeaked
  <2> QED BY <1>1, <2>2 DEF InotifyInv, InotifyKeeps
<1>6. ASSUME NEW v \in Wds PROVE ListStands(v)'
  BY <1>1 DEF InotifyInv, ListStands
<1> QED BY <1>4, <1>5, <1>6 DEF InotifyInv

LEMMA InotifyReadStep ==
    ASSUME InotifyInv, uv__inotify_read
    PROVE  InotifyInv'
<1> PICK w : w = Head(events)
  OBVIOUS
<1>1. /\ current = 0 /\ events # <<>> /\ events' = Tail(events)
      /\ UNCHANGED <<kernel, lastWd, tree, wd, unlisted>>
      /\ IF w \notin tree THEN UNCHANGED <<lists, current, rest, owed>>
         ELSE /\ current' = w /\ rest' = lists[w]
              /\ lists' = [lists EXCEPT ![w] = <<>>] /\ owed' = Range(lists[w])
  BY DEF uv__inotify_read
<1>2. w \in Wds /\ events' \in Seq(Wds) /\ w # 0 /\ w \in 0..MaxWd
  <2>1. events \in Seq(Wds)
    BY DEF InotifyInv, InotifyTypes
  <2>2. w \in Wds /\ events' \in Seq(Wds)
    BY <1>1, <2>1, TailFacts
  <2> QED BY <2>2, InotifyAssumption DEF Wds
<1>3. CASE w \notin tree
  <2>1. InotifyTypes' /\ InotifyKeeps'
    BY <1>1, <1>2, <1>3 DEF InotifyInv, InotifyTypes, InotifyKeeps, NoWatchLeaked
  <2>2. ASSUME NEW v \in Wds PROVE ListStands(v)'
    BY <1>1, <1>3 DEF InotifyInv, ListStands
  <2> QED BY <2>1, <2>2 DEF InotifyInv
<1>4. CASE w \in tree
  <2>1. lists[w] \in Seq(Watches) /\ Distinct(lists[w]) /\ rest = <<>>
    BY <1>1, <1>2 DEF InotifyInv, InotifyTypes, InotifyKeeps, ListStands
  <2>2. Range(lists[w]) = ToSet(lists[w]) /\ ToSet(lists[w]) \subseteq Watches
    BY <2>1, LenProperties, ElementOfSeq DEF Range, ToSet
  <2>3. InotifyTypes'
    <3>1. lists' \in [Wds -> Seq(Watches)]
      BY <1>1, <1>2, <1>4, EmptyQueue DEF InotifyInv, InotifyTypes
    <3> QED BY <1>1, <1>2, <1>4, <2>1, <2>2, <3>1 DEF InotifyInv, InotifyTypes
  <2>4. InotifyKeeps'
    BY <1>1, <1>2, <1>4, <2>1, <2>2 DEF InotifyInv, InotifyKeeps, NoWatchLeaked
  <2>5. ASSUME NEW v \in Wds PROVE ListStands(v)'
    <3>1. lists'[v] = IF v = w THEN <<>> ELSE lists[v]
      BY <1>1, <1>4 DEF InotifyInv, InotifyTypes
    <3>2. v # 0
      BY InotifyAssumption DEF Wds
    <3> QED BY <1>1, <1>4, <2>1, <3>1, <3>2, EmptyQueue DEF InotifyInv, ListStands
  <2> QED BY <2>3, <2>4, <2>5 DEF InotifyInv
<1> QED BY <1>3, <1>4

LEMMA EventCbStep ==
    ASSUME InotifyInv, EventCb
    PROVE  InotifyInv'
<1> PICK h : h = Head(rest)
  OBVIOUS
<1> PICK w : w = current
  OBVIOUS
<1>1. /\ w # 0 /\ rest # <<>> /\ rest' = Tail(rest)
      /\ lists' = [lists EXCEPT ![w] = Append(@, h)] /\ owed' = owed \ {h}
      /\ UNCHANGED <<kernel, lastWd, events, tree, wd, current, unlisted>>
  BY DEF EventCb, kernelVars
<1>2. /\ w \in Wds /\ rest \in Seq(Watches) /\ Distinct(rest) /\ lists[w] \in Seq(Watches)
      /\ ListStands(w)
  BY <1>1, InotifyFacts DEF InotifyInv, InotifyTypes, InotifyKeeps
<1>3. /\ h \in Watches /\ h \in ToSet(rest) /\ rest' \in Seq(Watches) /\ Distinct(rest')
      /\ ToSet(rest) = ToSet(rest') \cup {h} /\ h \notin ToSet(rest')
  BY <1>1, <1>2, TailFacts
<1>4. /\ Append(lists[w], h) \in Seq(Watches) /\ Append(lists[w], h) # <<>>
      /\ ToSet(Append(lists[w], h)) = ToSet(lists[w]) \cup {h}
      /\ Distinct(Append(lists[w], h))
  <2>1. h \notin ToSet(lists[w]) /\ Distinct(lists[w])
    BY <1>2, <1>3 DEF ListStands
  <2> QED BY <2>1, <1>2, <1>3, AppendFacts
<1>5. InotifyTypes'
  <2>1. lists' \in [Wds -> Seq(Watches)]
    BY <1>1, <1>2, <1>4 DEF InotifyInv, InotifyTypes
  <2> QED BY <1>1, <1>3, <2>1 DEF InotifyInv, InotifyTypes
<1>6. InotifyKeeps'
  BY <1>1, <1>3 DEF InotifyInv, InotifyKeeps, NoWatchLeaked
<1>7. ASSUME NEW v \in Wds PROVE ListStands(v)'
  <2>1. lists'[v] = IF v = w THEN Append(lists[w], h) ELSE lists[v]
    BY <1>1, <1>2 DEF InotifyInv, InotifyTypes
  <2> QED BY <1>1, <1>3, <1>4, <2>1 DEF InotifyInv, ListStands
<1> QED BY <1>5, <1>6, <1>7 DEF InotifyInv

LEMMA EventDoneStep ==
    ASSUME InotifyInv, EventDone
    PROVE  InotifyInv'
<1> PICK w : w = current
  OBVIOUS
<1>1. /\ w # 0 /\ rest = <<>> /\ current' = 0
      /\ maybe_free_watcher_list(w, lists[w], FALSE)
      /\ UNCHANGED <<lastWd, wd, rest, owed, unlisted>>
  BY DEF EventDone
<1>2. w \in Wds /\ lists[w] \in Seq(Watches) /\ 0 \in 0..MaxWd
  <2>1. current \in 0..MaxWd
    BY DEF InotifyInv, InotifyTypes
  <2>2. w \in Wds
    BY <1>1, <2>1, InotifyFacts
  <2> QED BY <2>2, InotifyFacts, InotifyAssumption
<1>3. /\ lists' = [lists EXCEPT ![w] = lists[w]]
      /\ tree' = IF lists[w] = <<>> THEN tree \ {w} ELSE tree
      /\ kernel' \in [Paths -> 0..MaxWd] /\ events' \in Seq(Wds)
      /\ (\A p \in Paths : kernel'[p] <= lastWd) /\ NoWatchLeaked'
  <2>1. /\ lists' = [lists EXCEPT ![w] = lists[w]]
        /\ tree' = IF lists[w] = <<>> /\ ~FALSE THEN tree \ {w} ELSE tree
        /\ kernel' \in [Paths -> 0..MaxWd] /\ events' \in Seq(Wds)
        /\ (\A p \in Paths : kernel'[p] <= lastWd) /\ NoWatchLeaked'
    BY <1>1, <1>2, MaybeFree
  <2> QED BY <2>1
<1>4. lists' = lists
  BY <1>2, <1>3 DEF InotifyInv, InotifyTypes
<1>5. InotifyTypes'
  BY <1>1, <1>2, <1>3, <1>4 DEF InotifyInv, InotifyTypes
<1>6. InotifyKeeps'
  BY <1>1, <1>3 DEF InotifyInv, InotifyKeeps
<1>7. ASSUME NEW v \in Wds PROVE ListStands(v)'
  <2>1. v # 0
    BY InotifyAssumption DEF Wds
  <2> QED BY <1>1, <1>3, <1>4, <2>1, EmptyQueue DEF InotifyInv, ListStands
<1> QED BY <1>5, <1>6, <1>7 DEF InotifyInv

\* Lists, kernel watches and the walk of uv__inotify_read stay in step, for
\* any number of handles, paths and watch descriptors.
THEOREM InotifyInductive == InotifySpec => []InotifyInv
<1>1. InotifyInv /\ [InotifyNext]_inotifyVars => InotifyInv'
  <2> SUFFICES ASSUME InotifyInv, [InotifyNext]_inotifyVars PROVE InotifyInv'
    OBVIOUS
  <2>1. CASE UNCHANGED inotifyVars
    BY <2>1 DEF inotifyVars, InotifyInv, InotifyTypes, InotifyKeeps, NoWatchLeaked, ListStands
  <2> QED BY <2>1, EventStartStep, EventStopStep, FileChangesStep, InotifyReadStep,
             EventCbStep, EventDoneStep DEF InotifyNext
<1> QED BY <1>1, InotifyBegins, PTL DEF InotifySpec

\* Every active handle is on the list of its watch, no list is freed under
\* the walk and no watch is leaked, and an event is heard by each handle
\* that watched when it was read, whatever the callbacks start and stop.
THEOREM InotifyCorrect == InotifySpec => []InotifyRight
<1>1. InotifyInv => InotifyRight
  <2> SUFFICES ASSUME InotifyInv PROVE InotifyRight
    OBVIOUS
  <2>1. /\ \A w \in Wds : lists[w] \in Seq(Watches) /\ ListStands(w)
        /\ rest \in Seq(Watches) /\ Distinct(rest)
    BY DEF InotifyInv, InotifyTypes, InotifyKeeps
  <2>2. Range(rest) = ToSet(rest) /\ \A w \in Wds : Range(lists[w]) = ToSet(lists[w])
    BY DEF Range, ToSet
  <2>3. ASSUME NEW w \in Wds PROVE Distinct(lists[w] \o IF current = w THEN rest ELSE <<>>)
    <3>1. CASE current = w
      BY <3>1, <2>1, ConcatFacts DEF ListStands
    <3>2. CASE current # w
      <4>1. lists[w] \o <<>> = lists[w]
        BY <2>1, ConcatEmptySeq
      <4> QED BY <3>2, <4>1, <2>1 DEF ListStands
    <3> QED BY <3>1, <3>2
  <2>4. current # 0 => current \in tree
    BY InotifyFacts, <2>1 DEF InotifyInv, InotifyTypes, ListStands
  <2>5. ListsRight
    BY <2>1, <2>2, <2>3, <2>4 DEF ListsRight, ListStands
  <2>6. NoWatchLeaked /\ EventHeardByAll
    BY <2>2 DEF EventHeardByAll, InotifyInv, InotifyKeeps
  <2> QED BY <2>5, <2>6 DEF InotifyRight
<1> QED BY <1>1, InotifyInductive, PTL

----------------------------------------------------------------------------
(* Streams.                                                                *)

StreamReqs == Writes \cup {TryReq}

StreamFlags ==
    {"WRITABLE", "CONNECTED", "BLOCKING", "CLOSING", "CLOSED", "READING", "PARTIAL", "EOF",
     "SHUTTING", "SHUT"}

StreamRecords ==
    [fd : BOOLEAN, connect : {"none", "pending", "refused"}, shutdown : {"none", "pending", "early"},
     flags : SUBSET StreamFlags, wq : Seq(StreamReqs), cq : Seq(StreamReqs), size : Int,
     left : [StreamReqs -> Nat], bufs : [StreamReqs -> BOOLEAN], pevents : SUBSET {"IN", "OUT"},
     fed : BOOLEAN, active : BOOLEAN, reqs : Int,
     at : {"loop", "read", "read_error", "partial", "eof", "hup", "out", "callbacks", "connected",
           "flushed", "destroy", "closed", "abort"},
     cb : BOOLEAN, events : SUBSET {"OUT", "HUP"}, count : Int, failed : BOOLEAN]

StreamTypes ==
    /\ stream \in StreamRecords
    /\ issued \in Seq(Writes) /\ wants \in BOOLEAN /\ leaked \in Nat

\* Before uv__stream_io looks at POLLOUT.
BeforeOut == {"read", "read_error", "partial", "eof", "hup", "out"}

\* An event is coming, or the present one has still to be looked at.
EventComes(s) ==
    "OUT" \in s.pevents \/ s.fed \/ (s.at \in BeforeOut /\ "OUT" \in s.events)

\* A closing stream is inert, and where the stages of closing are.
ClosingStands(s, want) ==
    /\ Has(s, "CLOSING") =>
         s.pevents = {} /\ ~s.fed /\ ~s.fd /\ ~Has(s, "READING") /\ ~want
    /\ s.at \in {"destroy", "closed"} => Has(s, "CLOSING") /\ s.wq = <<>> /\ s.connect = "none"
    /\ s.at = "closed" => s.cq = <<>> /\ s.shutdown = "none"

\* Connecting: which event reports the outcome, and that nothing else is
\* under way meanwhile.
ConnectStands(s) ==
    /\ s.connect = "pending" /\ ~Has(s, "CLOSING") => "OUT" \in s.pevents
    /\ s.connect = "refused" /\ ~Has(s, "CLOSING") => s.fed
    /\ s.connect # "none" => ~Has(s, "CONNECTED")
    /\ s.at \in BeforeOut \cup {"callbacks"} =>
         s.connect = "none" /\ (Has(s, "CLOSING") \/ s.fd)
    /\ s.at = "connected" => s.failed \/ Has(s, "CONNECTED")
    /\ ~s.fd /\ ~Has(s, "CLOSING") =>
         /\ s.wq = <<>> /\ s.cq = <<>> /\ s.shutdown = "none" /\ s.pevents = {}
         /\ s.fed => s.connect = "refused"
    /\ ~Has(s, "CONNECTED") /\ ~Has(s, "CLOSING") =>
         /\ s.at # "flushed" => s.cq = <<>>
         /\ s.connect = "none" => s.wq = <<>> \/ (s.at = "connected" /\ s.failed)

\* Every request waits for an event that comes.
RequestsStand(s) ==
    /\ ~Has(s, "CLOSING") /\ s.at # "abort" =>
         /\ s.wq # <<>> => EventComes(s) \/ (s.at = "connected" /\ s.failed)
         /\ s.cq # <<>> => EventComes(s) \/ s.at \in {"callbacks", "flushed"}
         /\ s.shutdown = "pending" => EventComes(s) \/ s.at = "callbacks"
    /\ s.shutdown # "none" => Has(s, "SHUTTING")
    /\ Has(s, "SHUTTING") => ~Has(s, "SHUT") /\ (s.at = "closed" \/ s.shutdown # "none")
    /\ s.shutdown = "pending" => Has(s, "CONNECTED")

\* Reading, unless an EOF callback may start it again.
ReadingStands(s, want) ==
    ~RestartsAtEof /\ ~Has(s, "CLOSING") /\ s.at # "abort" =>
        /\ s.at # "eof" /\ Has(s, "READING") => "IN" \in s.pevents /\ s.active
        /\ s.at # "eof" => (Has(s, "READING") <=> want)
        /\ s.at = "eof" => ~want

StreamStands(s, want) ==
    ClosingStands(s, want) /\ ConnectStands(s) /\ RequestsStand(s) /\ ReadingStands(s, want)

\* The queues of s hold the requests of q, in that order, and
\* write_queue_size is what they have left.
BooksStand(s, q) ==
    /\ s.cq \o s.wq = q
    /\ s.size = SumOver(Unwritten(s), q)
    /\ \A r \in ToSet(s.wq) : s.bufs[r]

\* The requests the loop counts for s, with the writes q and n leaked ones.
Counted(s, q, n) ==
    s.reqs = n + Len(q) + (IF s.shutdown # "none" THEN 1 ELSE 0) + (IF s.connect # "none" THEN 1 ELSE 0)

\* The inductive invariant of a stream.
StreamInv ==
    /\ StreamTypes
    /\ Distinct(issued) /\ BooksStand(stream, issued) /\ Counted(stream, issued, leaked)
    /\ StreamStands(stream, wants)

----------------------------------------------------------------------------
(* Sums over a queue.                                                      *)

\* g[i] is the sum of f over the first i requests of q.
Sums(g, f, q) ==
    /\ g \in [0..Len(q) -> Int] /\ g[0] = 0
    /\ \A i \in 1..Len(q) : g[i] = g[i - 1] + f[q[i]]

LEMMA SumsExist ==
    ASSUME NEW S, NEW f \in [S -> Int], NEW q \in Seq(S)
    PROVE  \E g : Sums(g, f, q)
<1> DEFINE Part(g, n) == /\ g \in [0..n -> Int] /\ g[0] = 0
                         /\ \A i \in 1..n : g[i] = g[i - 1] + f[q[i]]
           Missing == {n \in 0..Len(q) : ~\E g : Part(g, n)}
<1>1. Len(q) \in Nat /\ \A i \in 1..Len(q) : f[q[i]] \in Int
  BY LenProperties, ElementOfSeq
<1>2. ASSUME Missing # {} PROVE FALSE
  <2>0. Missing \subseteq Nat
    BY <1>1
  <2>1. PICK n \in Missing : \A m \in Missing : n <= m
    <3> HIDE DEF Missing
    <3> QED BY <2>0, <1>2, LeastNatural
  <2>2. n \in 0..Len(q) /\ ~\E g : Part(g, n)
    OBVIOUS
  <2>3. n # 0
    <3>1. Part([i \in 0..0 |-> 0], 0)
      OBVIOUS
    <3> QED BY <3>1, <2>2
  <2>4. n - 1 \in 0..Len(q) /\ n - 1 \notin Missing
    <3>1. n \in Nat /\ n - 1 \in 0..Len(q)
      BY <1>1, <2>2, <2>3
    <3> HIDE DEF Missing
    <3> QED BY <3>1, <2>1
  <2>5. PICK g : Part(g, n - 1)
    BY <2>4
  <2> DEFINE h == [i \in 0..n |-> IF i = n THEN g[n - 1] + f[q[n]] ELSE g[i]]
  <2>6. n \in 1..Len(q) /\ f[q[n]] \in Int /\ n - 1 \in 0..(n - 1)
    BY <1>1, <2>2, <2>3
  <2>7. h \in [0..n -> Int]
    <3>1. ASSUME NEW i \in 0..n, i # n PROVE g[i] \in Int
      <4>1. i \in 0..(n - 1)
        BY <2>6, <3>1
      <4> QED BY <4>1, <2>5
    <3>2. g[n - 1] + f[q[n]] \in Int
      BY <2>5, <2>6
    <3> QED BY <3>1, <3>2
  <2>8. h[0] = 0
    BY <2>5, <2>6
  <2>9. ASSUME NEW i \in 1..n PROVE h[i] = h[i - 1] + f[q[i]]
    <3>1. i \in 0..n /\ i - 1 \in 0..n /\ i - 1 # n
      BY <2>6
    <3>2. CASE i = n
      BY <3>1, <3>2
    <3>3. CASE i # n
      <4>1. i \in 1..(n - 1)
        BY <2>6, <3>3
      <4>2. g[i] = g[i - 1] + f[q[i]]
        BY <4>1, <2>5
      <4> QED BY <4>2, <3>1, <3>3
    <3> QED BY <3>2, <3>3
  <2> HIDE DEF h
  <2>10. Part(h, n)
    BY <2>7, <2>8, <2>9
  <2> QED BY <2>10, <2>2
<1>3. Len(q) \notin Missing /\ Len(q) \in 0..Len(q)
  <2> HIDE DEF Missing
  <2> QED BY <1>1, <1>2
<1>4. PICK g : Part(g, Len(q))
  BY <1>3
<1> QED BY <1>4 DEF Sums

\* The recursive function of SumOver is the only one with these sums.
LEMMA SumIs ==
    ASSUME NEW S, NEW f \in [S -> Int], NEW q \in Seq(S), NEW g, Sums(g, f, q)
    PROVE  SumOver(f, q) = g[Len(q)]
<1> DEFINE upto == CHOOSE u : u = [i \in 0..Len(q) |-> IF i = 0 THEN 0 ELSE u[i - 1] + f[q[i]]]
<1>1. Len(q) \in Nat /\ Len(q) \in 0..Len(q)
  BY LenProperties
<1>2. g \in [0..Len(q) -> Int] /\ g[0] = 0 /\ \A i \in 1..Len(q) : g[i] = g[i - 1] + f[q[i]]
  BY DEF Sums
<1>3. g = [i \in 0..Len(q) |-> IF i = 0 THEN 0 ELSE g[i - 1] + f[q[i]]]
  <2>1. ASSUME NEW i \in 0..Len(q) PROVE g[i] = IF i = 0 THEN 0 ELSE g[i - 1] + f[q[i]]
    <3>1. i = 0 \/ i \in 1..Len(q)
      BY <1>1
    <3> QED BY <3>1, <1>2
  <2> QED BY <2>1, <1>2
<1>4. upto = [i \in 0..Len(q) |-> IF i = 0 THEN 0 ELSE upto[i - 1] + f[q[i]]]
  BY <1>3
<1>5. SumOver(f, q) = upto[Len(q)]
  BY DEF SumOver
<1> HIDE DEF upto
<1>6. \A i \in 0..Len(q) : upto[i] = g[i]
  <2> DEFINE Wrong == {i \in 0..Len(q) : upto[i] # g[i]}
  <2>1. ASSUME Wrong # {} PROVE FALSE
    <3>0. Wrong \subseteq Nat
      BY <1>1
    <3>1. PICK n \in Wrong : \A m \in Wrong : n <= m
      <4> HIDE DEF Wrong
      <4> QED BY <3>0, <2>1, LeastNatural
    <3>2. n \in 0..Len(q) /\ upto[n] # g[n]
      OBVIOUS
    <3>3. n # 0
      BY <3>2, <1>1, <1>2, <1>4
    <3>4. n \in 1..Len(q) /\ n - 1 \in 0..Len(q) /\ n - 1 \notin Wrong
      BY <3>1, <3>2, <3>3, <1>1
    <3>5. upto[n - 1] = g[n - 1]
      BY <3>4
    <3>6. upto[n] = upto[n - 1] + f[q[n]]
      BY <3>2, <3>3, <1>4
    <3> QED BY <3>2, <3>4, <3>5, <3>6, <1>2
  <2> QED BY <2>1
<1> QED BY <1>1, <1>5, <1>6

LEMMA SumEmpty == ASSUME NEW S, NEW f \in [S -> Int] PROVE SumOver(f, <<>>) = 0
<1>1. <<>> \in Seq(S) /\ Len(<<>>) = 0
  BY EmptySeq
<1>2. Sums([i \in 0..0 |-> 0], f, <<>>)
  BY <1>1 DEF Sums
<1>3. SumOver(f, <<>>) = [i \in 0..0 |-> 0][Len(<<>>)]
  BY <1>1, <1>2, SumIs
<1> QED BY <1>1, <1>3

LEMMA SumAppend ==
    ASSUME NEW S, NEW f \in [S -> Int], NEW q \in Seq(S), NEW x \in S
    PROVE  /\ SumOver(f, q) \in Int
           /\ SumOver(f, Append(q, x)) = SumOver(f, q) + f[x]
<1>1. PICK g : Sums(g, f, Append(q, x))
  BY AppendFacts, SumsExist
<1>2. /\ Len(q) \in Nat /\ Append(q, x) \in Seq(S) /\ Len(Append(q, x)) = Len(q) + 1
      /\ \A i \in 1..Len(q) : Append(q, x)[i] = q[i]
      /\ Append(q, x)[Len(q) + 1] = x
  BY AppendProperties, LenProperties
<1>3. /\ g \in [0..(Len(q) + 1) -> Int] /\ g[0] = 0
      /\ \A i \in 1..(Len(q) + 1) : g[i] = g[i - 1] + f[Append(q, x)[i]]
  BY <1>1, <1>2 DEF Sums
<1> DEFINE h == [i \in 0..Len(q) |-> g[i]]
<1>4. Sums(h, f, q)
  <2>1. h \in [0..Len(q) -> Int] /\ h[0] = 0
    BY <1>2, <1>3
  <2>2. ASSUME NEW i \in 1..Len(q) PROVE h[i] = h[i - 1] + f[q[i]]
    <3>1. i \in 1..(Len(q) + 1) /\ i \in 0..Len(q) /\ i - 1 \in 0..Len(q)
      BY <1>2
    <3> QED BY <3>1, <1>2, <1>3
  <2> HIDE DEF h
  <2> QED BY <2>1, <2>2 DEF Sums
<1>5. Len(q) \in 0..Len(q) /\ h[Len(q)] = g[Len(q)] /\ g[Len(q)] \in Int
  BY <1>2, <1>3
<1> HIDE DEF h
<1>6. SumOver(f, q) = h[Len(q)]
  BY <1>4, SumIs
<1>7. SumOver(f, Append(q, x)) = g[Len(q) + 1]
  BY <1>1, <1>2, SumIs
<1>8. g[Len(q) + 1] = g[Len(q)] + f[x]
  <2>1. Len(q) + 1 \in 1..(Len(q) + 1) /\ (Len(q) + 1) - 1 = Len(q)
    BY <1>2
  <2> QED BY <2>1, <1>2, <1>3
<1> QED BY <1>5, <1>6, <1>7, <1>8

LEMMA SumTail ==
    ASSUME NEW S, NEW f \in [S -> Int], NEW q \in Seq(S), q # <<>>
    PROVE  SumOver(f, q) = SumOver(f, Tail(q)) + f[Head(q)]
<1>1. PICK g : Sums(g, f, q)
  BY SumsExist
<1>2. /\ Len(q) \in Nat \ {0} /\ Tail(q) \in Seq(S) /\ Len(Tail(q)) = Len(q) - 1
      /\ \A i \in 1..Len(Tail(q)) : Tail(q)[i] = q[i + 1]
      /\ Head(q) = q[1] /\ Head(q) \in S
  BY HeadTailProperties, LenProperties, EmptySeq, TailFacts
<1>3. /\ g \in [0..Len(q) -> Int] /\ g[0] = 0
      /\ \A i \in 1..Len(q) : g[i] = g[i - 1] + f[q[i]]
  BY <1>1 DEF Sums
<1> DEFINE n == Len(q) - 1
           h == [i \in 0..n |-> g[i + 1] - g[1]]
<1>4. Sums(h, f, Tail(q))
  <2>1. ASSUME NEW i \in 0..n PROVE g[i + 1] - g[1] \in Int
    <3>1. i + 1 \in 0..Len(q) /\ 1 \in 0..Len(q)
      BY <1>2
    <3>2. g[i + 1] \in Int /\ g[1] \in Int
      BY <3>1, <1>3
    <3> QED BY <3>2
  <2>2. h \in [0..Len(Tail(q)) -> Int]
    BY <2>1, <1>2
  <2>3. h[0] = 0
    <3>1. 0 \in 0..n /\ 1 \in 0..Len(q)
      BY <1>2
    <3> QED BY <3>1, <1>3
  <2>4. ASSUME NEW i \in 1..Len(Tail(q)) PROVE h[i] = h[i - 1] + f[Tail(q)[i]]
    <3>1. i + 1 \in 1..Len(q) /\ i + 1 \in 0..Len(q) /\ i \in 0..n /\ i - 1 \in 0..n /\ i \in 0..Len(q)
          /\ (i + 1) - 1 = i /\ (i - 1) + 1 = i /\ 1 \in 0..Len(q)
      BY <1>2
    <3>2. g[i + 1] = g[i] + f[q[i + 1]] /\ Tail(q)[i] = q[i + 1]
      BY <3>1, <1>2, <1>3
    <3>3. h[i] = g[i + 1] - g[1] /\ h[i - 1] = g[i] - g[1]
      BY <3>1
    <3>4. g[i + 1] \in Int /\ g[i] \in Int /\ g[1] \in Int
      BY <3>1, <1>3
    <3>5. f[q[i + 1]] \in Int
      BY <3>1, ElementOfSeq
    <3> HIDE DEF h
    <3> QED BY <3>2, <3>3, <3>4, <3>5
  <2> HIDE DEF h
  <2> QED BY <2>2, <2>3, <2>4 DEF Sums
<1>5. n \in 0..n /\ n = Len(Tail(q)) /\ n + 1 = Len(q) /\ h[n] = g[n + 1] - g[1]
      /\ g[n + 1] \in Int /\ g[1] \in Int /\ f[Head(q)] \in Int
  <2>1. n \in 0..n /\ n = Len(Tail(q)) /\ n + 1 = Len(q) /\ n + 1 \in 0..Len(q) /\ 1 \in 0..Len(q)
    BY <1>2
  <2> QED BY <2>1, <1>2, <1>3
<1>6. g[1] = f[Head(q)]
  <2>1. 1 \in 1..Len(q) /\ 1 - 1 = 0
    BY <1>2
  <2> QED BY <2>1, <1>2, <1>3, <1>5
<1> HIDE DEF n, h
<1>7. SumOver(f, q) = g[Len(q)] /\ SumOver(f, Tail(q)) = h[n]
  BY <1>1, <1>2, <1>4, <1>5, SumIs
<1> QED BY <1>5, <1>6, <1>7

LEMMA SumOne ==
    ASSUME NEW S, NEW f \in [S -> Int], NEW g \in [S -> Int], NEW q \in Seq(S), Distinct(q),
           NEW x \in ToSet(q), \A y \in ToSet(q) : y # x => g[y] = f[y]
    PROVE  SumOver(g, q) = SumOver(f, q) + (g[x] - f[x])
<1>0. PICK d : d = g[x] - f[x]
  OBVIOUS
<1>1. PICK u : Sums(u, f, q)
  BY SumsExist
<1>2. Len(q) \in Nat /\ DOMAIN q = 1..Len(q)
  BY LenProperties
<1>3. PICK p \in 1..Len(q) : q[p] = x
  BY <1>2 DEF ToSet
<1>d. x \in S /\ d \in Int /\ g[x] = f[x] + d
  BY <1>0, <1>3, ElementOfSeq
<1>e. d \in Int
  BY <1>d
<1>4. /\ u \in [0..Len(q) -> Int] /\ u[0] = 0
      /\ \A i \in 1..Len(q) : u[i] = u[i - 1] + f[q[i]]
  BY <1>1 DEF Sums
<1> DEFINE h == [i \in 0..Len(q) |-> IF i < p THEN u[i] ELSE u[i] + d]
<1>5. Sums(h, g, q)
  <2>1. h \in [0..Len(q) -> Int] /\ h[0] = 0
    BY <1>2, <1>4, <1>d
  <2>2. ASSUME NEW i \in 1..Len(q) PROVE h[i] = h[i - 1] + g[q[i]]
    <3>1. i \in 0..Len(q) /\ i - 1 \in 0..Len(q)
      BY <1>2
    <3>2. u[i] = u[i - 1] + f[q[i]] /\ u[i] \in Int /\ u[i - 1] \in Int
      BY <3>1, <1>4
    <3>3. f[q[i]] \in Int /\ q[i] \in ToSet(q)
      BY <1>2, ElementOfSeq DEF ToSet
    <3>4. CASE i = p
      <4>1. h[i] = u[i] + d /\ h[i - 1] = u[i - 1] /\ g[q[i]] = f[q[i]] + d
        BY <3>1, <3>4, <1>3, <1>d
      <4> HIDE DEF h
      <4> QED BY <4>1, <3>2, <3>3, <1>e
    <3>5. CASE i # p
      <4>1. q[i] # x
        BY <3>5, <1>3 DEF Distinct
      <4>2. g[q[i]] = f[q[i]]
        BY <4>1, <3>3
      <4>3. \/ h[i] = u[i] /\ h[i - 1] = u[i - 1]
            \/ h[i] = u[i] + d /\ h[i - 1] = u[i - 1] + d
        BY <3>1, <3>5, <1>3
      <4> HIDE DEF h
      <4> QED BY <4>2, <4>3, <3>2, <3>3, <1>e
    <3> QED BY <3>4, <3>5
  <2> HIDE DEF h
  <2> QED BY <2>1, <2>2 DEF Sums
<1>6. h[Len(q)] = u[Len(q)] + d
  BY <1>2, <1>3
<1> HIDE DEF h
<1> QED BY <1>0, <1>1, <1>5, <1>6, SumIs

LEMMA SumSame ==
    ASSUME NEW S, NEW f \in [S -> Int], NEW g \in [S -> Int], NEW q \in Seq(S),
           \A y \in ToSet(q) : g[y] = f[y]
    PROVE  SumOver(g, q) = SumOver(f, q)
<1>1. PICK u : Sums(u, f, q)
  BY SumsExist
<1>2. \A i \in 1..Len(q) : q[i] \in ToSet(q)
  BY LenProperties DEF ToSet
<1>3. Sums(u, g, q)
  BY <1>1, <1>2 DEF Sums
<1> QED BY <1>1, <1>3, SumIs, ZenonT(60)

\* A request moves from the head of one queue to the end of the other.
LEMMA MoveHead ==
    ASSUME NEW S, NEW a \in Seq(S), NEW b \in Seq(S), b # <<>>
    PROVE  Append(a, Head(b)) \o Tail(b) = a \o b
<1>1. PICK x, t, u, v : x = Head(b) /\ t = Tail(b) /\ u = Append(a, x) /\ v = u \o t
  OBVIOUS
<1>2. /\ Len(a) \in Nat /\ Len(b) \in Nat \ {0} /\ x = b[1] /\ x \in S /\ t \in Seq(S)
      /\ Len(t) = Len(b) - 1 /\ \A i \in 1..Len(t) : t[i] = b[i + 1]
  BY <1>1, HeadTailProperties, LenProperties, EmptySeq, TailFacts
<1>3. /\ u \in Seq(S) /\ Len(u) = Len(a) + 1 /\ \A i \in 1..Len(a) : u[i] = a[i]
      /\ u[Len(a) + 1] = x
  BY <1>1, <1>2, AppendProperties
<1>4. /\ v \in Seq(S) /\ Len(v) = Len(u) + Len(t)
      /\ \A i \in 1..(Len(u) + Len(t)) : v[i] = IF i <= Len(u) THEN u[i] ELSE t[i - Len(u)]
  BY <1>1, <1>2, <1>3, ConcatProperties
<1>5. /\ a \o b \in Seq(S) /\ Len(a \o b) = Len(a) + Len(b)
      /\ \A i \in 1..(Len(a) + Len(b)) : (a \o b)[i] = IF i <= Len(a) THEN a[i] ELSE b[i - Len(a)]
  BY ConcatProperties
<1>6. Len(v) = Len(a \o b)
  BY <1>2, <1>3, <1>4, <1>5
<1>7. ASSUME NEW i \in 1..Len(v) PROVE v[i] = (a \o b)[i]
  <2>1. i \in 1..(Len(u) + Len(t)) /\ i \in 1..(Len(a) + Len(b))
    BY <1>2, <1>3, <1>4
  <2>2. CASE i <= Len(a)
    BY <2>1, <2>2, <1>2, <1>3, <1>4, <1>5
  <2>3. CASE i = Len(a) + 1
    BY <2>1, <2>3, <1>2, <1>3, <1>4, <1>5
  <2>4. CASE i > Len(a) + 1
    <3>1. i - Len(u) \in 1..Len(t) /\ (i - Len(u)) + 1 = i - Len(a)
      BY <2>1, <2>4, <1>2, <1>3
    <3>2. t[i - Len(u)] = b[i - Len(a)]
      BY <3>1, <1>2
    <3>3. v[i] = t[i - Len(u)]
      BY <2>1, <2>4, <1>2, <1>3, <1>4
    <3>4. (a \o b)[i] = b[i - Len(a)]
      BY <2>1, <2>4, <1>2, <1>5
    <3> QED BY <3>2, <3>3, <3>4
  <2>5. i <= Len(a) \/ i = Len(a) + 1 \/ i > Len(a) + 1
    BY <2>1, <1>2
  <2> QED BY <2>2, <2>3, <2>4, <2>5
<1>8. v = a \o b
  BY <1>4, <1>5, <1>6, <1>7, SeqEqual
<1> QED BY <1>1, <1>8

----------------------------------------------------------------------------
(* The write queue.                                                        *)

\* t differs from s in the write queues and the watcher at most.
SameControl(s, t) ==
    /\ t.fd = s.fd /\ t.connect = s.connect /\ t.shutdown = s.shutdown /\ t.flags = s.flags
    /\ t.reqs = s.reqs /\ t.at = s.at /\ t.cb = s.cb /\ t.events = s.events /\ t.count = s.count
    /\ t.failed = s.failed

\* t differs from s in the control state and the watcher at most.
SameBooks(s, t) ==
    /\ t.wq = s.wq /\ t.cq = s.cq /\ t.size = s.size /\ t.left = s.left /\ t.bufs = s.bufs

LEMMA UnwrittenType == ASSUME NEW s \in StreamRecords PROVE Unwritten(s) \in [StreamReqs -> Int]
BY DEF Unwritten, StreamRecords, StreamReqs

LEMMA BooksStay ==
    ASSUME NEW s, NEW t, NEW q, SameBooks(s, t), BooksStand(s, q)
    PROVE  BooksStand(t, q)
<1>1. Unwritten(t) = Unwritten(s)
  BY DEF SameBooks, Unwritten
<1> QED BY <1>1 DEF SameBooks, BooksStand

\* Where the requests of q are.
LEMMA BooksParts ==
    ASSUME NEW s \in StreamRecords, NEW q \in Seq(StreamReqs), Distinct(q), BooksStand(s, q)
    PROVE  /\ ToSet(q) = ToSet(s.cq) \cup ToSet(s.wq) /\ ToSet(s.cq) \cap ToSet(s.wq) = {}
           /\ Distinct(s.cq) /\ Distinct(s.wq) /\ ToSet(q) \subseteq StreamReqs
<1>1. PICK a, b : a = s.cq /\ b = s.wq
  OBVIOUS
<1>2. a \in Seq(StreamReqs) /\ b \in Seq(StreamReqs) /\ a \o b = q
  BY <1>1 DEF StreamRecords, BooksStand
<1>3. /\ ToSet(a \o b) = ToSet(a) \cup ToSet(b)
      /\ Distinct(a \o b) <=> Distinct(a) /\ Distinct(b) /\ ToSet(a) \cap ToSet(b) = {}
  BY ONLY <1>2, ConcatFacts, ZenonT(60)
<1>4. ToSet(q) \subseteq StreamReqs
  BY ElementOfSeq, LenProperties DEF ToSet
<1> QED BY <1>1, <1>2, <1>3, <1>4

\* The head of the write queue writes k of its bytes.
Wrote(s, k) == [s EXCEPT !.left[Head(s.wq)] = @ - k, !.size = @ - k]

LEMMA WroteFacts ==
    ASSUME NEW s \in StreamRecords, NEW q \in Seq(StreamReqs), Distinct(q), BooksStand(s, q),
           s.wq # <<>>, NEW k \in 0..s.left[Head(s.wq)]
    PROVE  /\ Wrote(s, k) \in StreamRecords /\ BooksStand(Wrote(s, k), q)
           /\ SameControl(s, Wrote(s, k))
           /\ Wrote(s, k).wq = s.wq /\ Wrote(s, k).cq = s.cq /\ Wrote(s, k).pevents = s.pevents
           /\ Wrote(s, k).fed = s.fed /\ Wrote(s, k).active = s.active
           /\ Wrote(s, k).left[Head(s.wq)] = s.left[Head(s.wq)] - k
<1>1. PICK r : r = Head(s.wq)
  OBVIOUS
<1>2. s.wq \in Seq(StreamReqs) /\ s.cq \in Seq(StreamReqs) /\ s.size \in Int
      /\ s.left \in [StreamReqs -> Nat] /\ s.bufs \in [StreamReqs -> BOOLEAN]
  BY DEF StreamRecords
<1>3. r \in StreamReqs /\ r \in ToSet(s.wq) /\ r \in ToSet(q) /\ s.bufs[r]
  <2>1. r \in StreamReqs /\ r \in ToSet(s.wq)
    BY <1>1, <1>2, TailFacts
  <2>2. ToSet(q) = ToSet(s.cq) \cup ToSet(s.wq)
    BY BooksParts
  <2> QED BY <2>1, <2>2 DEF BooksStand
<1>4. PICK t : t = Wrote(s, k)
  OBVIOUS
<1>5. PICK left : left = [s.left EXCEPT ![r] = s.left[r] - k]
  OBVIOUS
<1>6. left \in [StreamReqs -> Nat] /\ left[r] = s.left[r] - k
      /\ \A x \in StreamReqs \ {r} : left[x] = s.left[x]
  BY <1>1, <1>2, <1>3, <1>5
<1>7. t = [s EXCEPT !.left = left, !.size = s.size - k]
  BY <1>1, <1>4, <1>5 DEF Wrote, StreamRecords
<1>8. /\ t \in StreamRecords /\ SameControl(s, t)
      /\ t.wq = s.wq /\ t.cq = s.cq /\ t.pevents = s.pevents /\ t.fed = s.fed /\ t.active = s.active
      /\ t.left = left /\ t.size = s.size - k /\ t.bufs = s.bufs
  <2>1. s.size - k \in Int
    BY <1>1, <1>2, <1>3
  <2> QED BY <2>1, <1>6, <1>7 DEF StreamRecords, SameControl
<1>9. BooksStand(t, q)
  <2>1. PICK f, g : f = Unwritten(s) /\ g = Unwritten(t)
    OBVIOUS
  <2>2. f \in [StreamReqs -> Int] /\ g \in [StreamReqs -> Int]
    BY <2>1, <1>8, UnwrittenType
  <2>3. \A x \in StreamReqs : /\ f[x] = IF s.bufs[x] THEN s.left[x] ELSE 0
                              /\ g[x] = IF s.bufs[x] THEN left[x] ELSE 0
    BY <2>1, <1>8 DEF Unwritten, StreamReqs
  <2>4. g[r] - f[r] = -k
    BY <2>3, <1>1, <1>2, <1>3, <1>6, SMTT(30)
  <2>5. \A y \in ToSet(q) : y # r => g[y] = f[y]
    <3>1. ToSet(q) \subseteq StreamReqs
      BY BooksParts
    <3> QED BY <3>1, <2>3, <1>6
  <2>6. SumOver(g, q) = SumOver(f, q) + (g[r] - f[r])
    BY <2>2, <2>5, <1>3, SumOne, SMTT(30)
  <2>7. t.size = SumOver(g, q)
    BY <2>1, <2>4, <2>6, <1>1, <1>2, <1>3, <1>8 DEF BooksStand
  <2> QED BY <2>1, <2>7, <1>8 DEF BooksStand
<1> QED BY <1>1, <1>4, <1>6, <1>8, <1>9

\* The head of the write queue goes to the completed ones, with its buffers
\* if it failed and with nothing left otherwise.
LEMMA WriteFinishFacts ==
    ASSUME NEW s \in StreamRecords, NEW q \in Seq(StreamReqs), Distinct(q), BooksStand(s, q),
           s.wq # <<>>, NEW error \in BOOLEAN, error \/ s.left[Head(s.wq)] = 0
    PROVE  /\ uv__write_req_finish(s, error) \in StreamRecords
           /\ BooksStand(uv__write_req_finish(s, error), q)
           /\ SameControl(s, uv__write_req_finish(s, error))
           /\ uv__write_req_finish(s, error).fed
           /\ uv__write_req_finish(s, error).pevents = s.pevents
           /\ uv__write_req_finish(s, error).active = s.active
           /\ uv__write_req_finish(s, error).wq = Tail(s.wq)
           /\ uv__write_req_finish(s, error).cq = Append(s.cq, Head(s.wq))
<1>1. PICK r, t : r = Head(s.wq) /\ t = uv__write_req_finish(s, error)
  OBVIOUS
<1>2. s.wq \in Seq(StreamReqs) /\ s.cq \in Seq(StreamReqs) /\ s.size \in Int
      /\ s.left \in [StreamReqs -> Nat] /\ s.bufs \in [StreamReqs -> BOOLEAN]
  BY DEF StreamRecords
<1>3. PICK a, b, bufs : a = Append(s.cq, r) /\ b = Tail(s.wq) /\ bufs = [s.bufs EXCEPT ![r] = error]
  OBVIOUS
<1>4. /\ r \in StreamReqs /\ r \in ToSet(s.wq) /\ r \in ToSet(q) /\ s.bufs[r]
      /\ b \in Seq(StreamReqs) /\ ToSet(b) \subseteq ToSet(s.wq) /\ r \notin ToSet(b)
      /\ ToSet(q) \subseteq StreamReqs /\ ToSet(s.wq) \subseteq StreamReqs
  <2>0. s.cq \o s.wq = q /\ \A x \in ToSet(s.wq) : s.bufs[x]
    BY DEF BooksStand
  <2>1. /\ r \in StreamReqs /\ r \in ToSet(s.wq) /\ b \in Seq(StreamReqs)
        /\ ToSet(b) \subseteq ToSet(s.wq) /\ (Distinct(s.wq) => r \notin ToSet(b))
    BY <1>1, <1>2, <1>3, TailFacts
  <2>2. ToSet(q) = ToSet(s.cq) \cup ToSet(s.wq) /\ Distinct(s.wq)
    BY BooksParts
  <2>3. ToSet(q) \subseteq StreamReqs
    BY BooksParts
  <2> QED BY <2>0, <2>1, <2>2, <2>3
<1>5. bufs \in [StreamReqs -> BOOLEAN] /\ bufs[r] = error
      /\ \A x \in StreamReqs \ {r} : bufs[x] = s.bufs[x]
  BY <1>2, <1>3, <1>4
<1>6. a \in Seq(StreamReqs) /\ a \o b = q
  <2>1. a \in Seq(StreamReqs)
    BY <1>2, <1>3, <1>4, AppendFacts
  <2>2. a \o b = s.cq \o s.wq
    BY <1>1, <1>2, <1>3, MoveHead
  <2> QED BY <2>1, <2>2 DEF BooksStand
<1>7. t = [s EXCEPT !.wq = b, !.cq = a, !.bufs = bufs, !.fed = TRUE]
  BY <1>1, <1>3 DEF uv__write_req_finish, io_feed, StreamRecords
<1>8. /\ t \in StreamRecords /\ SameControl(s, t)
      /\ t.wq = b /\ t.cq = a /\ t.pevents = s.pevents /\ t.fed /\ t.active = s.active
      /\ t.left = s.left /\ t.size = s.size /\ t.bufs = bufs
  BY <1>4, <1>5, <1>6, <1>7 DEF StreamRecords, SameControl
<1>9. BooksStand(t, q)
  <2>1. PICK f, g : f = Unwritten(s) /\ g = Unwritten(t)
    OBVIOUS
  <2>2. f \in [StreamReqs -> Int] /\ g \in [StreamReqs -> Int]
    BY <2>1, <1>8, UnwrittenType
  <2>3. \A x \in StreamReqs : /\ f[x] = IF s.bufs[x] THEN s.left[x] ELSE 0
                              /\ g[x] = IF bufs[x] THEN s.left[x] ELSE 0
    BY <2>1, <1>8 DEF Unwritten, StreamReqs
  <2>4. g[r] = f[r]
    BY <2>3, <1>1, <1>4, <1>5
  <2>5. \A y \in ToSet(q) : g[y] = f[y]
    BY <2>3, <2>4, <1>4, <1>5
  <2>6. SumOver(g, q) = SumOver(f, q)
    BY <2>2, <2>5, SumSame
  <2>7. t.size = SumOver(g, q)
    BY <2>1, <2>6, <1>8 DEF BooksStand
  <2>8. \A x \in ToSet(b) : bufs[x]
    BY <1>4, <1>5 DEF BooksStand
  <2> QED BY <2>1, <2>7, <2>8, <1>6, <1>8 DEF BooksStand
<1> QED BY <1>1, <1>3, <1>8, <1>9

\* uv__io_stop and uv__handle_stop leave the requests alone.
LEMMA StreamStopFacts ==
    ASSUME NEW s \in StreamRecords, NEW E \in SUBSET {"IN", "OUT"}, NEW e,
           NEW y, y = stop_unless(io_stop(s, E), e)
    PROVE  /\ y \in StreamRecords /\ SameControl(s, y) /\ SameBooks(s, y)
           /\ y.fed = s.fed /\ y.pevents = s.pevents \ E
           /\ e \in s.pevents \ E => y.active = s.active
<1>1. PICK x : x = [s EXCEPT !.pevents = @ \ E] /\ y = stop_unless(x, e)
  BY DEF io_stop
<1>2. /\ x \in StreamRecords /\ SameControl(s, x) /\ SameBooks(s, x)
      /\ x.fed = s.fed /\ x.pevents = s.pevents \ E /\ x.active = s.active
  BY <1>1 DEF StreamRecords, SameControl, SameBooks
<1>3. y = IF e \in x.pevents THEN x ELSE [x EXCEPT !.active = FALSE]
  BY <1>1 DEF stop_unless, handle_stop
<1>4. /\ y \in StreamRecords /\ SameControl(x, y) /\ SameBooks(x, y)
      /\ y.fed = x.fed /\ y.pevents = x.pevents /\ (e \in x.pevents => y.active = x.active)
  <2>1. CASE e \in x.pevents
    BY <2>1, <1>2, <1>3 DEF SameControl, SameBooks
  <2>2. CASE e \notin x.pevents
    <3>1. y = [x EXCEPT !.active = FALSE]
      BY <2>2, <1>3
    <3> QED BY <3>1, <2>2, <1>2, ZenonT(60) DEF StreamRecords, SameControl, SameBooks
  <2> QED BY <2>1, <2>2
<1>5. SameControl(s, y) /\ SameBooks(s, y)
  BY <1>2, <1>4 DEF SameControl, SameBooks
<1> QED BY <1>2, <1>4, <1>5

\* What one uv__write does to s.
WriteDone(s, t, q) ==
    /\ t \in StreamRecords /\ BooksStand(t, q) /\ SameControl(s, t)
    /\ s.wq = <<>> => t = s
    /\ s.wq # <<>> => "OUT" \in t.pevents \/ t.fed
    /\ s.fed => t.fed
    /\ "IN" \in s.pevents <=> "IN" \in t.pevents
    /\ "IN" \in s.pevents /\ s.active => t.active
    /\ \/ t.wq = s.wq /\ t.cq = s.cq
       \/ s.wq # <<>> /\ t.wq = Tail(s.wq) /\ t.cq = Append(s.cq, Head(s.wq)) /\ t.fed

LEMMA WriteFacts ==
    ASSUME NEW s \in StreamRecords, NEW q \in Seq(StreamReqs), Distinct(q), BooksStand(s, q),
           NEW t \in uv__write(s)
    PROVE  WriteDone(s, t, q)
<1>1. CASE s.wq = <<>>
  <2>1. t = s
    BY <1>1 DEF uv__write
  <2> QED BY <2>1, <1>1 DEF WriteDone, SameControl
<1>2. CASE s.wq # <<>>
  <2>1. PICK r : r = Head(s.wq)
    OBVIOUS
  <2>2. r \in StreamReqs /\ s.left[r] \in Nat
    <3>1. s.wq \in Seq(StreamReqs) /\ s.left \in [StreamReqs -> Nat]
      BY DEF StreamRecords
    <3> QED BY <3>1, <2>1, <1>2, TailFacts
  <2>3. \/ \E k \in 0..s.left[r] :
             t = stop_unless(io_stop(uv__write_req_finish(Wrote(s, k), TRUE), {"OUT"}), "IN")
        \/ t = uv__write_req_finish(Wrote(s, s.left[r]), FALSE)
        \/ \E k \in 0..s.left[r] : t = io_start(Wrote(s, k), {"OUT"})
    <3>1. /\ (IF Has(s, "BLOCKING") /\ s.left[r] > 0 THEN 0..(s.left[r] - 1) ELSE {0}) \subseteq 0..s.left[r]
          /\ (IF Has(s, "BLOCKING") THEN {} ELSE 0..(s.left[r] - 1)) \subseteq 0..s.left[r]
      BY <2>2
    <3>2. t \in { stop_unless(io_stop(uv__write_req_finish(Wrote(s, k), TRUE), {"OUT"}), "IN") :
                   k \in IF Has(s, "BLOCKING") /\ s.left[r] > 0
                         THEN 0..(s.left[r] - 1) ELSE {0} }
             \cup {uv__write_req_finish(Wrote(s, s.left[r]), FALSE)}
             \cup { io_start(Wrote(s, k), {"OUT"}) :
                   k \in IF Has(s, "BLOCKING") THEN {} ELSE 0..(s.left[r] - 1) }
      BY <1>2, <2>1, Zenon DEF uv__write, Wrote
    <3> QED BY <3>1, <3>2
  <2>4. ASSUME NEW k \in 0..s.left[r]
        PROVE  /\ Wrote(s, k) \in StreamRecords /\ BooksStand(Wrote(s, k), q)
               /\ SameControl(s, Wrote(s, k))
               /\ Wrote(s, k).wq = s.wq /\ Wrote(s, k).cq = s.cq /\ Wrote(s, k).pevents = s.pevents
               /\ Wrote(s, k).fed = s.fed /\ Wrote(s, k).active = s.active
               /\ Wrote(s, k).left[r] = s.left[r] - k
    BY <2>1, <1>2, WroteFacts
  <2>5. ASSUME NEW k \in 0..s.left[r], NEW error \in BOOLEAN, error \/ k = s.left[r], NEW y,
               y = uv__write_req_finish(Wrote(s, k), error)
        PROVE  /\ y \in StreamRecords /\ BooksStand(y, q) /\ SameControl(s, y) /\ y.fed
               /\ y.pevents = s.pevents /\ y.active = s.active
               /\ y.wq = Tail(s.wq) /\ y.cq = Append(s.cq, r)
    <3>1. PICK x : x = Wrote(s, k)
      OBVIOUS
    <3>2. /\ x \in StreamRecords /\ BooksStand(x, q) /\ SameControl(s, x)
          /\ x.wq = s.wq /\ x.cq = s.cq /\ x.pevents = s.pevents /\ x.active = s.active
          /\ x.left[r] = s.left[r] - k
      BY <3>1, <2>4
    <3>3. error \/ x.left[Head(x.wq)] = 0
      BY <3>2, <2>1, <2>2, <2>5
    <3>4. /\ y \in StreamRecords /\ BooksStand(y, q) /\ SameControl(x, y) /\ y.fed
          /\ y.pevents = x.pevents /\ y.active = x.active
          /\ y.wq = Tail(x.wq) /\ y.cq = Append(x.cq, Head(x.wq))
      <4>1. y = uv__write_req_finish(x, error) /\ x.wq # <<>>
        BY <3>1, <3>2, <2>5, <1>2
      <4> QED BY <4>1, <3>2, <3>3, WriteFinishFacts
    <3> QED BY <3>2, <3>4, <2>1 DEF SameControl
  <2>6. ASSUME NEW k \in 0..s.left[r],
               t = stop_unless(io_stop(uv__write_req_finish(Wrote(s, k), TRUE), {"OUT"}), "IN")
        PROVE  WriteDone(s, t, q)
    <3>1. PICK y : y = uv__write_req_finish(Wrote(s, k), TRUE)
      OBVIOUS
    <3>2. /\ y \in StreamRecords /\ BooksStand(y, q) /\ SameControl(s, y) /\ y.fed
          /\ y.pevents = s.pevents /\ y.active = s.active
          /\ y.wq = Tail(s.wq) /\ y.cq = Append(s.cq, r)
      BY <3>1, <2>5
    <3>3. /\ t \in StreamRecords /\ SameControl(y, t) /\ SameBooks(y, t) /\ t.fed = y.fed
          /\ t.pevents = y.pevents \ {"OUT"}
          /\ "IN" \in y.pevents \ {"OUT"} => t.active = y.active
      <4>1. PICK E, e : E = {"OUT"} /\ e = "IN"
        OBVIOUS
      <4>2. PICK z : z = stop_unless(io_stop(y, E), e)
        OBVIOUS
      <4>3. y \in StreamRecords /\ E \in SUBSET {"IN", "OUT"}
        BY <4>1, <3>2
      <4>4. /\ z \in StreamRecords /\ SameControl(y, z) /\ SameBooks(y, z) /\ z.fed = y.fed
            /\ z.pevents = y.pevents \ E /\ (e \in y.pevents \ E => z.active = y.active)
        BY ONLY <4>2, <4>3, StreamStopFacts
      <4> QED BY <4>1, <4>2, <4>4, <3>1, <2>6
    <3>4. BooksStand(t, q)
      BY <3>2, <3>3, BooksStay
    <3> QED BY <3>2, <3>3, <3>4, <1>2, <2>1 DEF WriteDone, SameControl, SameBooks
  <2>7. ASSUME t = uv__write_req_finish(Wrote(s, s.left[r]), FALSE)
        PROVE  WriteDone(s, t, q)
    <3>1. s.left[r] \in 0..s.left[r]
      BY <2>2
    <3>2. /\ t \in StreamRecords /\ BooksStand(t, q) /\ SameControl(s, t) /\ t.fed
          /\ t.pevents = s.pevents /\ t.active = s.active
          /\ t.wq = Tail(s.wq) /\ t.cq = Append(s.cq, r)
      BY <3>1, <2>5, <2>7
    <3> QED BY <3>2, <1>2, <2>1 DEF WriteDone
  <2>8. ASSUME NEW k \in 0..s.left[r], t = io_start(Wrote(s, k), {"OUT"})
        PROVE  WriteDone(s, t, q)
    <3>1. PICK x : x = Wrote(s, k)
      OBVIOUS
    <3>2. /\ x \in StreamRecords /\ BooksStand(x, q) /\ SameControl(s, x)
          /\ x.wq = s.wq /\ x.cq = s.cq /\ x.pevents = s.pevents /\ x.active = s.active
          /\ x.fed = s.fed
      BY <3>1, <2>4
    <3>3. t = [x EXCEPT !.pevents = x.pevents \cup {"OUT"}]
      BY <3>1, <2>8 DEF io_start
    <3>4. /\ t \in StreamRecords /\ SameControl(x, t) /\ SameBooks(x, t) /\ t.fed = x.fed
          /\ t.pevents = x.pevents \cup {"OUT"} /\ t.active = x.active
      BY <3>2, <3>3 DEF StreamRecords, SameControl, SameBooks
    <3>5. BooksStand(t, q)
      BY <3>2, <3>4, BooksStay
    <3> QED BY <3>2, <3>4, <3>5, <1>2 DEF WriteDone, SameControl, SameBooks
  <2> QED BY <2>3, <2>6, <2>7, <2>8
<1> QED BY <1>1, <1>2

\* uv_write2 has given the request r its n bytes and put it in the queue.
Handed(s, r, n) ==
    [s EXCEPT !.reqs = @ + 1, !.wq = Append(@, r), !.size = @ + n, !.left[r] = n, !.bufs[r] = TRUE]

LEMMA HandedFacts ==
    ASSUME NEW s \in StreamRecords, NEW q \in Seq(StreamReqs), Distinct(q), BooksStand(s, q),
           NEW r \in StreamReqs, r \notin ToSet(q), NEW n \in Nat
    PROVE  /\ Handed(s, r, n) \in StreamRecords
           /\ Append(q, r) \in Seq(StreamReqs) /\ Distinct(Append(q, r))
           /\ BooksStand(Handed(s, r, n), Append(q, r))
           /\ SameControl([s EXCEPT !.reqs = @ + 1], Handed(s, r, n))
           /\ Handed(s, r, n).wq = Append(s.wq, r) /\ Handed(s, r, n).cq = s.cq
           /\ Handed(s, r, n).pevents = s.pevents /\ Handed(s, r, n).fed = s.fed
           /\ Handed(s, r, n).active = s.active /\ Handed(s, r, n).wq # <<>>
<1>1. s.wq \in Seq(StreamReqs) /\ s.cq \in Seq(StreamReqs) /\ s.size \in Int /\ s.reqs \in Int
      /\ s.left \in [StreamReqs -> Nat] /\ s.bufs \in [StreamReqs -> BOOLEAN]
  BY DEF StreamRecords
<1>2. PICK b, t, left, bufs, p :
         /\ b = Append(s.wq, r) /\ t = Handed(s, r, n) /\ left = [s.left EXCEPT ![r] = n]
         /\ bufs = [s.bufs EXCEPT ![r] = TRUE] /\ p = Append(q, r)
  OBVIOUS
<1>3. /\ left \in [StreamReqs -> Nat] /\ left[r] = n
      /\ \A x \in StreamReqs \ {r} : left[x] = s.left[x]
  BY <1>1, <1>2
<1>4. /\ bufs \in [StreamReqs -> BOOLEAN] /\ bufs[r] = TRUE
      /\ \A x \in StreamReqs \ {r} : bufs[x] = s.bufs[x]
  BY <1>1, <1>2
<1>c. PICK a, w : a = s.cq /\ w = s.wq
  OBVIOUS
<1>5. b \in Seq(StreamReqs) /\ b # <<>> /\ ToSet(b) = ToSet(s.wq) \cup {r}
  <2>1. w \in Seq(StreamReqs) /\ b = Append(w, r)
    BY <1>c, <1>1, <1>2
  <2>2. Append(w, r) \in Seq(StreamReqs) /\ Append(w, r) # <<>> /\ ToSet(Append(w, r)) = ToSet(w) \cup {r}
    BY <2>1, AppendFacts
  <2> QED BY <2>1, <2>2, <1>c
<1>6. p \in Seq(StreamReqs) /\ Distinct(p)
  BY <1>2, AppendFacts
<1>7. s.cq \o b = p
  <2>1. w \in Seq(StreamReqs) /\ a \in Seq(StreamReqs) /\ a \o w = q /\ b = Append(w, r)
    BY <1>c, <1>1, <1>2 DEF BooksStand
  <2>2. a \o Append(w, r) = Append(a \o w, r)
    BY <2>1, ConcatAppend
  <2> QED BY <2>1, <2>2, <1>2, <1>c
<1>8. t = [s EXCEPT !.reqs = s.reqs + 1, !.wq = b, !.size = s.size + n, !.left = left, !.bufs = bufs]
  BY <1>2 DEF Handed, StreamRecords
<1>9. /\ t \in StreamRecords /\ t.reqs = s.reqs + 1 /\ t.wq = b /\ t.size = s.size + n /\ t.left = left
      /\ t.bufs = bufs /\ t.cq = s.cq /\ t.pevents = s.pevents /\ t.fed = s.fed /\ t.active = s.active
      /\ t.fd = s.fd /\ t.connect = s.connect /\ t.shutdown = s.shutdown /\ t.flags = s.flags
      /\ t.at = s.at /\ t.cb = s.cb /\ t.events = s.events /\ t.count = s.count /\ t.failed = s.failed
  <2>1. s.reqs + 1 \in Int /\ s.size + n \in Int
    BY <1>1
  <2> QED BY <2>1, <1>3, <1>4, <1>5, <1>8 DEF StreamRecords
<1>10. SameControl([s EXCEPT !.reqs = @ + 1], t)
  BY <1>9 DEF SameControl, StreamRecords
<1>11. BooksStand(t, p)
  <2>1. PICK f, g : f = Unwritten(s) /\ g = Unwritten(t)
    OBVIOUS
  <2>2. f \in [StreamReqs -> Int] /\ g \in [StreamReqs -> Int]
    BY <2>1, <1>9, UnwrittenType
  <2>3. \A x \in StreamReqs : /\ f[x] = IF s.bufs[x] THEN s.left[x] ELSE 0
                              /\ g[x] = IF bufs[x] THEN left[x] ELSE 0
    BY <2>1, <1>9 DEF Unwritten, StreamReqs
  <2>4. ToSet(q) \subseteq StreamReqs /\ ToSet(s.wq) \subseteq ToSet(q)
    BY BooksParts
  <2>5. \A y \in ToSet(q) : g[y] = f[y]
    BY <2>3, <2>4, <1>3, <1>4
  <2>6. SumOver(g, q) = SumOver(f, q)
    BY <2>2, <2>5, SumSame, SMTT(30)
  <2>7. SumOver(g, p) = SumOver(g, q) + g[r]
    BY <2>2, <1>2, SumAppend
  <2>8. g[r] = n
    BY <2>3, <1>3, <1>4
  <2>9. t.size = SumOver(g, p)
    BY <2>1, <2>6, <2>7, <2>8, <1>9 DEF BooksStand
  <2>10. \A x \in ToSet(b) : bufs[x]
    BY <2>4, <1>4, <1>5 DEF BooksStand
  <2> QED BY <2>1, <2>9, <2>10, <1>7, <1>9 DEF BooksStand
<1> QED BY <1>2, <1>5, <1>6, <1>9, <1>10, <1>11

\* What uv_write2 does to s once it has registered the request r, the last
\* of q.
SubmitDone(s, t, q) ==
    /\ t \in StreamRecords /\ BooksStand(t, q) /\ t.reqs = s.reqs + 1
    /\ t.fd = s.fd /\ t.connect = s.connect /\ t.shutdown = s.shutdown /\ t.flags = s.flags
    /\ t.events = s.events /\ t.count = s.count /\ t.failed = s.failed
    /\ \/ t.at = s.at /\ t.cb = s.cb
       \/ t.at = "abort" /\ ~t.cb /\ s.connect = "none" /\ s.size # 0
    /\ s.connect # "none" => t.pevents = s.pevents /\ t.cq = s.cq
    /\ s.connect = "none" /\ t.at # "abort" => "OUT" \in t.pevents \/ t.fed
    /\ "OUT" \in s.pevents => "OUT" \in t.pevents \/ t.fed
    /\ s.fed => t.fed
    /\ "IN" \in s.pevents <=> "IN" \in t.pevents
    /\ "IN" \in s.pevents /\ s.active => t.active

LEMMA SubmitFacts ==
    ASSUME NEW s \in StreamRecords, NEW q \in Seq(StreamReqs), Distinct(q), BooksStand(s, q),
           NEW r \in StreamReqs, r \notin ToSet(q), NEW n \in Nat, NEW t \in Submit(s, r, n)
    PROVE  SubmitDone(s, t, Append(q, r))
<1>1. PICK h, p : h = Handed(s, r, n) /\ p = Append(q, r)
  OBVIOUS
<1>2. /\ h \in StreamRecords /\ p \in Seq(StreamReqs) /\ Distinct(p) /\ BooksStand(h, p)
      /\ SameControl([s EXCEPT !.reqs = @ + 1], h)
      /\ h.pevents = s.pevents /\ h.fed = s.fed /\ h.active = s.active /\ h.wq # <<>>
      /\ h.cq = s.cq
  BY <1>1, HandedFacts
<1>3. /\ h.reqs = s.reqs + 1
      /\ h.fd = s.fd /\ h.connect = s.connect /\ h.shutdown = s.shutdown /\ h.flags = s.flags
      /\ h.at = s.at /\ h.cb = s.cb /\ h.events = s.events /\ h.count = s.count /\ h.failed = s.failed
  BY <1>2 DEF SameControl, StreamRecords
<1>4. \/ s.connect # "none" /\ t = h
      \/ s.connect = "none" /\ s.size = 0 /\ t \in uv__write(h)
      \/ s.connect = "none" /\ s.size # 0 /\ t = [h EXCEPT !.at = "abort", !.cb = FALSE]
      \/ s.connect = "none" /\ t = [h EXCEPT !.pevents = h.pevents \cup {"OUT"}]
  BY <1>1 DEF Submit, Handed, io_start
<1>5. CASE s.connect # "none" /\ t = h
  BY <1>1, <1>2, <1>3, <1>5 DEF SubmitDone
<1>6. CASE s.connect = "none" /\ t \in uv__write(h)
  <2>1. WriteDone(h, t, p)
    BY <1>2, <1>6, WriteFacts
  <2> QED BY <2>1, <1>1, <1>2, <1>3, <1>6 DEF WriteDone, SubmitDone, SameControl
<1>7. CASE s.connect = "none" /\ s.size # 0 /\ t = [h EXCEPT !.at = "abort", !.cb = FALSE]
  <2>1. /\ t \in StreamRecords /\ SameBooks(h, t) /\ t.reqs = h.reqs
        /\ t.fd = h.fd /\ t.connect = h.connect /\ t.shutdown = h.shutdown /\ t.flags = h.flags
        /\ t.at = "abort" /\ ~t.cb /\ t.events = h.events /\ t.count = h.count /\ t.failed = h.failed
        /\ t.pevents = h.pevents /\ t.fed = h.fed /\ t.active = h.active
    BY <1>2, <1>7, ZenonT(60) DEF StreamRecords, SameBooks
  <2>2. BooksStand(t, p)
    BY <2>1, <1>2, BooksStay
  <2> QED BY <2>1, <2>2, <1>1, <1>2, <1>3, <1>7, ZenonT(60) DEF SubmitDone
<1>8. CASE s.connect = "none" /\ t = [h EXCEPT !.pevents = h.pevents \cup {"OUT"}]
  <2>1. /\ t \in StreamRecords /\ SameBooks(h, t) /\ SameControl(h, t)
        /\ t.pevents = h.pevents \cup {"OUT"} /\ t.fed = h.fed /\ t.active = h.active
    BY <1>2, <1>8 DEF StreamRecords, SameBooks, SameControl
  <2>2. BooksStand(t, p)
    BY <2>1, <1>2, BooksStay
  <2> QED BY <2>1, <2>2, <1>1, <1>2, <1>3, <1>8 DEF SubmitDone, SameControl
<1> QED BY <1>4, <1>5, <1>6, <1>7, <1>8

\* A request that is not in the queue, or is the last of it, is taken out.
LEMMA UnlinkLast ==
    ASSUME NEW S, NEW a \in Seq(S), NEW x \in S, x \notin ToSet(a)
    PROVE  Unlink(a, x) = a /\ Unlink(Append(a, x), x) = a
<1>1. Len(a) \in Nat /\ \A i \in 1..Len(a) : a[i] # x
  BY LenProperties DEF ToSet
<1>2. Unlink(a, x) = a
  BY <1>1 DEF Unlink
<1>3. PICK b : b = Append(a, x)
  OBVIOUS
<1>4. /\ b \in Seq(S) /\ Len(b) = Len(a) + 1 /\ b[Len(a) + 1] = x
      /\ \A i \in 1..Len(a) : b[i] = a[i]
  BY <1>3, AppendProperties
<1>5. \E i \in 1..Len(b) : b[i] = x
  BY <1>1, <1>4
<1>6. PICK k \in 1..Len(b) :
         /\ b[k] = x
         /\ Unlink(b, x) \in Seq(S) /\ Len(Unlink(b, x)) = Len(b) - 1
         /\ \A i \in 1..(Len(b) - 1) : Unlink(b, x)[i] = IF i < k THEN b[i] ELSE b[i + 1]
  <2>1. b \in Seq(S)
    BY <1>4
  <2> QED BY <2>1, <1>5, UnlinkElements, ZenonT(40)
<1>7. k = Len(a) + 1
  BY <1>1, <1>4, <1>6
<1>8. Len(Unlink(b, x)) = Len(a) /\ \A i \in 1..Len(a) : Unlink(b, x)[i] = a[i]
  BY <1>1, <1>4, <1>6, <1>7
<1>9. Unlink(b, x) = a
  BY <1>6, <1>8, SeqEqual
<1> QED BY <1>2, <1>3, <1>9

\* The head and the tail of a queue to which x has been appended.
LEMMA AppendHeadTail ==
    ASSUME NEW S, NEW a \in Seq(S), NEW x \in S
    PROVE  /\ a = <<>> => Head(Append(a, x)) = x /\ Tail(Append(a, x)) = <<>>
           /\ a # <<>> => Head(Append(a, x)) = Head(a) /\ Tail(Append(a, x)) = Append(Tail(a), x)
<1>1. PICK b, t : b = Append(a, x) /\ t = Tail(b)
  OBVIOUS
<1>2. /\ Len(a) \in Nat /\ b \in Seq(S) /\ Len(b) = Len(a) + 1 /\ b[Len(a) + 1] = x
      /\ \A i \in 1..Len(a) : b[i] = a[i]
  BY <1>1, AppendProperties, LenProperties
<1>3. b # <<>>
  BY <1>2, EmptySeq
<1>4. /\ Head(b) = b[1] /\ t \in Seq(S) /\ Len(t) = Len(a) /\ \A i \in 1..Len(a) : t[i] = b[i + 1]
  BY <1>1, <1>2, <1>3, HeadTailProperties
<1>5. CASE a = <<>>
  <2>1. Len(a) = 0
    BY <1>5, EmptySeq
  <2> QED BY <2>1, <1>1, <1>2, <1>4, <1>5, EmptySeq
<1>6. CASE a # <<>>
  <2>1. Len(a) # 0
    BY <1>6, EmptySeq
  <2>2. Head(b) = Head(a)
    BY <2>1, <1>2, <1>4, <1>6, HeadTailProperties
  <2>3. PICK u, v : u = Tail(a) /\ v = Append(u, x)
    OBVIOUS
  <2>4. u \in Seq(S) /\ Len(u) = Len(a) - 1 /\ \A i \in 1..(Len(a) - 1) : u[i] = a[i + 1]
    BY <2>3, <1>6, HeadTailProperties
  <2>5. /\ v \in Seq(S) /\ Len(v) = Len(u) + 1 /\ v[Len(u) + 1] = x
        /\ \A i \in 1..Len(u) : v[i] = u[i]
    BY <2>3, <2>4, AppendProperties
  <2>6. Len(v) = Len(t)
    BY <2>4, <2>5, <1>2, <1>4
  <2>7. ASSUME NEW i \in 1..Len(t) PROVE v[i] = t[i]
    <3>1. i \in 1..Len(a) /\ t[i] = b[i + 1]
      BY <1>4
    <3>2. CASE i = Len(a)
      BY <3>1, <3>2, <2>4, <2>5, <1>2
    <3>3. CASE i # Len(a)
      <4>1. i \in 1..(Len(a) - 1) /\ i \in 1..Len(u) /\ i + 1 \in 1..Len(a)
        BY <3>1, <3>3, <2>4, <1>2
      <4> QED BY <4>1, <3>1, <2>4, <2>5, <1>2
    <3> QED BY <3>2, <3>3
  <2>8. v = t
    BY <2>5, <2>6, <2>7, <1>4, SeqEqual
  <2> QED BY <2>2, <2>3, <2>8, <1>1, <1>6
<1> QED BY <1>5, <1>6

\* uv_try_write takes its request out again, wherever uv__write left it.
LEMMA UnqueueFacts ==
    ASSUME NEW s \in StreamRecords, NEW q \in Seq(StreamReqs), Distinct(q), BooksStand(s, q),
           TryReq \notin ToSet(q), NEW n \in Nat, NEW t \in uv__write(Handed(s, TryReq, n)),
           NEW had \in BOOLEAN, NEW v, v = Unqueue(t, had)
    PROVE  /\ v \in StreamRecords /\ BooksStand(v, q) /\ SameControl(s, v)
           /\ "OUT" \in s.pevents /\ had => "OUT" \in v.pevents \/ v.fed
           /\ s.fed => v.fed
           /\ v.wq # <<>> => s.wq # <<>>
           /\ v.cq = s.cq \/ v.fed
           /\ "IN" \in s.pevents <=> "IN" \in v.pevents
           /\ "IN" \in s.pevents /\ s.active => v.active
<1>1. PICK h, p, a, b : h = Handed(s, TryReq, n) /\ p = Append(q, TryReq) /\ a = s.cq /\ b = s.wq
  OBVIOUS
<1>2. TryReq \in StreamReqs
  BY DEF StreamReqs
<1>3. /\ h \in StreamRecords /\ p \in Seq(StreamReqs) /\ Distinct(p) /\ BooksStand(h, p)
      /\ SameControl([s EXCEPT !.reqs = @ + 1], h) /\ h.wq = Append(b, TryReq) /\ h.cq = a
      /\ h.pevents = s.pevents /\ h.fed = s.fed /\ h.active = s.active /\ h.wq # <<>>
  BY <1>1, <1>2, HandedFacts
<1>4. WriteDone(h, t, p)
  BY <1>1, <1>3, WriteFacts
<1>5. /\ t \in StreamRecords /\ BooksStand(t, p) /\ SameControl(h, t)
      /\ "OUT" \in t.pevents \/ t.fed
      /\ h.fed => t.fed
      /\ "IN" \in h.pevents <=> "IN" \in t.pevents
      /\ "IN" \in h.pevents /\ h.active => t.active
      /\ \/ t.wq = h.wq /\ t.cq = h.cq
         \/ t.wq = Tail(h.wq) /\ t.cq = Append(h.cq, Head(h.wq)) /\ t.fed
  BY <1>3, <1>4 DEF WriteDone
<1>6. /\ a \in Seq(StreamReqs) /\ b \in Seq(StreamReqs) /\ a \o b = q
      /\ TryReq \notin ToSet(a) /\ TryReq \notin ToSet(b)
      /\ t.left \in [StreamReqs -> Nat] /\ t.bufs \in [StreamReqs -> BOOLEAN]
      /\ t.size \in Int /\ t.reqs \in Int
  <2>1. ToSet(q) = ToSet(s.cq) \cup ToSet(s.wq)
    BY BooksParts
  <2> QED BY <2>1, <1>1, <1>5 DEF StreamRecords, BooksStand
<1>7. PICK c, d : c = Unlink(t.cq, TryReq) /\ d = Unlink(t.wq, TryReq)
  OBVIOUS
<1>8. /\ c \in Seq(StreamReqs) /\ d \in Seq(StreamReqs) /\ c \o d = q
      /\ (d # <<>> => b # <<>>) /\ (c = a \/ t.fed)
      /\ ToSet(d) \subseteq ToSet(t.wq)
  <2>1. CASE t.wq = Append(b, TryReq) /\ t.cq = a
    <3>1. c = a /\ d = b
      BY <2>1, <1>2, <1>6, <1>7, UnlinkLast
    <3>2. ToSet(Append(b, TryReq)) = ToSet(b) \cup {TryReq}
      BY <1>2, <1>6, AppendFacts
    <3> QED BY <3>1, <3>2, <2>1, <1>6
  <2>2. CASE t.wq = Tail(Append(b, TryReq)) /\ t.cq = Append(a, Head(Append(b, TryReq))) /\ t.fed
    <3>1. CASE b = <<>>
      <4>1. t.wq = <<>> /\ t.cq = Append(a, TryReq)
        BY <3>1, <2>2, <1>2, <1>6, AppendHeadTail
      <4>2. d = b
        BY <4>1, <3>1, <1>2, <1>6, <1>7, UnlinkLast
      <4>3. c = a
        BY <4>1, <1>2, <1>6, <1>7, UnlinkLast
      <4> QED BY <4>1, <4>2, <4>3, <3>1, <1>6
    <3>2. CASE b # <<>>
      <4>1. PICK x, w : x = Head(b) /\ w = Tail(b)
        OBVIOUS
      <4>2. t.wq = Append(w, TryReq) /\ t.cq = Append(a, x)
        <5>1. b \in Seq(StreamReqs)
          BY <1>6
        <5>2. Head(Append(b, TryReq)) = Head(b) /\ Tail(Append(b, TryReq)) = Append(Tail(b), TryReq)
          BY <5>1, <3>2, <1>2, AppendHeadTail
        <5> QED BY <5>2, <4>1, <2>2
      <4>3. /\ x \in StreamReqs /\ x \in ToSet(b) /\ w \in Seq(StreamReqs)
            /\ ToSet(w) \subseteq ToSet(b)
        BY <4>1, <3>2, <1>6, TailFacts
      <4>4. /\ Append(a, x) \in Seq(StreamReqs) /\ ToSet(Append(a, x)) = ToSet(a) \cup {x}
            /\ ToSet(Append(w, TryReq)) = ToSet(w) \cup {TryReq}
        BY <4>3, <1>2, <1>6, AppendFacts
      <4>5. d = w
        BY <4>2, <4>3, <1>2, <1>6, <1>7, UnlinkLast
      <4>6. c = Append(a, x)
        <5>1. TryReq \notin ToSet(Append(a, x))
          BY <4>3, <4>4, <1>6
        <5>2. PICK y : y = Append(a, x)
          OBVIOUS
        <5>3. Unlink(y, TryReq) = y
          BY <5>1, <5>2, <4>4, <1>2, UnlinkLast
        <5> QED BY <5>2, <5>3, <4>2, <1>7
      <4>7. Append(a, x) \o w = a \o b
        BY <4>1, <3>2, <1>6, MoveHead
      <4> QED BY <4>2, <4>3, <4>4, <4>5, <4>6, <4>7, <3>2, <2>2, <1>6
    <3> QED BY <3>1, <3>2
  <2> QED BY <2>1, <2>2, <1>3, <1>5
<1>9. PICK left, bufs, size :
         /\ left = [t.left EXCEPT ![TryReq] = 0] /\ bufs = [t.bufs EXCEPT ![TryReq] = FALSE]
         /\ size = IF t.bufs[TryReq] THEN t.size - t.left[TryReq] ELSE t.size
  OBVIOUS
<1>10. /\ left \in [StreamReqs -> Nat] /\ bufs \in [StreamReqs -> BOOLEAN] /\ size \in Int
       /\ \A x \in StreamReqs \ {TryReq} : left[x] = t.left[x] /\ bufs[x] = t.bufs[x]
  BY <1>2, <1>6, <1>9
<1>11. PICK u : u = [t EXCEPT !.wq = d, !.cq = c, !.reqs = t.reqs - 1, !.left = left, !.bufs = bufs,
                              !.size = size]
  OBVIOUS
<1>12. v = IF had THEN u ELSE [u EXCEPT !.pevents = @ \ {"OUT"}]
  BY <1>7, <1>9, <1>11 DEF Unqueue, io_stop, StreamRecords
<1>13. /\ u \in StreamRecords /\ u.wq = d /\ u.cq = c /\ u.reqs = t.reqs - 1 /\ u.left = left
       /\ u.bufs = bufs /\ u.size = size
       /\ u.fd = t.fd /\ u.connect = t.connect /\ u.shutdown = t.shutdown /\ u.flags = t.flags
       /\ u.at = t.at /\ u.cb = t.cb /\ u.events = t.events /\ u.count = t.count /\ u.failed = t.failed
       /\ u.pevents = t.pevents /\ u.fed = t.fed /\ u.active = t.active
  <2>1. t.reqs - 1 \in Int
    BY <1>6
  <2> QED BY <2>1, <1>5, <1>8, <1>10, <1>11 DEF StreamRecords
<1>14. /\ v \in StreamRecords /\ SameControl(u, v) /\ SameBooks(u, v) /\ v.fed = u.fed
       /\ v.active = u.active /\ v.pevents = IF had THEN u.pevents ELSE u.pevents \ {"OUT"}
  <2>1. CASE had
    <3>1. v = u
      BY <2>1, <1>12
    <3> QED BY <3>1, <2>1, <1>13 DEF SameControl, SameBooks
  <2>2. CASE ~had
    <3>1. v = [u EXCEPT !.pevents = @ \ {"OUT"}]
      BY <2>2, <1>12
    <3>2. u \in StreamRecords /\ u.pevents \in SUBSET {"IN", "OUT"}
      BY <1>13 DEF StreamRecords
    <3>p. PICK polls \in SUBSET {"IN", "OUT"} : polls = u.pevents \ {"OUT"}
      BY <3>2
    <3>4. v = [u EXCEPT !.pevents = polls]
      BY <3>1, <3>p
    <3>3. /\ v \in StreamRecords /\ SameControl(u, v) /\ SameBooks(u, v) /\ v.fed = u.fed
          /\ v.active = u.active /\ v.pevents = polls
      BY <3>2, <3>4, ZenonT(60) DEF StreamRecords, SameControl, SameBooks
    <3> QED BY <3>3, <3>p, <2>2
  <2> QED BY <2>1, <2>2
<1>15. SameControl(s, v)
  <2>1. /\ t.reqs = s.reqs + 1 /\ s.reqs \in Int
        /\ t.fd = s.fd /\ t.connect = s.connect /\ t.shutdown = s.shutdown /\ t.flags = s.flags
        /\ t.at = s.at /\ t.cb = s.cb /\ t.events = s.events /\ t.count = s.count /\ t.failed = s.failed
    BY <1>3, <1>5 DEF SameControl, StreamRecords
  <2> QED BY <2>1, <1>13, <1>14 DEF SameControl
<1>16. BooksStand(u, q)
  <2>1. PICK f, g : f = Unwritten(t) /\ g = Unwritten(u)
    OBVIOUS
  <2>2. f \in [StreamReqs -> Int] /\ g \in [StreamReqs -> Int]
    BY <2>1, <1>5, <1>13, UnwrittenType
  <2>3. \A x \in StreamReqs : /\ f[x] = IF t.bufs[x] THEN t.left[x] ELSE 0
                              /\ g[x] = IF bufs[x] THEN left[x] ELSE 0
    BY <2>1, <1>13 DEF Unwritten, StreamReqs
  <2>4. ToSet(q) \subseteq StreamReqs
    BY BooksParts
  <2>5. \A y \in ToSet(q) : g[y] = f[y]
    BY <2>3, <2>4, <1>10
  <2>6. SumOver(g, q) = SumOver(f, q)
    BY <2>2, <2>5, SumSame
  <2>7. SumOver(f, p) = SumOver(f, q) + f[TryReq] /\ SumOver(f, q) \in Int
    BY <2>2, <1>1, <1>2, SumAppend, ZenonT(60)
  <2>8. t.size = SumOver(f, p)
    BY <2>1, <1>5 DEF BooksStand
  <2>9. size = SumOver(g, q)
    BY <2>2, <2>3, <2>6, <2>7, <2>8, <1>2, <1>6, <1>9
  <2>10. TryReq \notin ToSet(d)
    <3>0. c \in Seq(StreamReqs) /\ d \in Seq(StreamReqs)
      BY <1>8
    <3>1. ToSet(c \o d) = ToSet(c) \cup ToSet(d)
      BY <3>0, ConcatFacts
    <3> QED BY <3>1, <1>8
  <2>11. \A x \in ToSet(d) : bufs[x]
    <3>1. \A x \in ToSet(t.wq) : t.bufs[x] /\ x \in StreamReqs
      <4>1. ToSet(p) = ToSet(t.cq) \cup ToSet(t.wq) /\ ToSet(p) \subseteq StreamReqs
        BY <1>3, <1>5, BooksParts
      <4> QED BY <4>1, <1>5 DEF BooksStand
    <3> QED BY <3>1, <2>10, <1>8, <1>10
  <2> QED BY <2>1, <2>9, <2>11, <1>8, <1>13 DEF BooksStand
<1>17. BooksStand(v, q)
  BY <1>14, <1>16, BooksStay
<1>18. v.wq = d /\ v.cq = c
  BY <1>13, <1>14 DEF SameBooks
<1> QED BY <1>1, <1>3, <1>5, <1>8, <1>13, <1>14, <1>15, <1>17, <1>18

----------------------------------------------------------------------------
(* The steps of the user.                                                  *)

\* What StreamInv says, with names for the values of the variables.
LEMMA StreamFacts ==
    ASSUME StreamInv
    PROVE  /\ stream \in StreamRecords /\ wants \in BOOLEAN /\ leaked \in Nat
           /\ issued \in Seq(Writes) /\ issued \in Seq(StreamReqs) /\ Len(issued) \in Nat
           /\ TryReq \notin ToSet(issued) /\ ToSet(issued) \subseteq Writes
           /\ Distinct(issued) /\ BooksStand(stream, issued) /\ Counted(stream, issued, leaked)
           /\ ClosingStands(stream, wants) /\ ConnectStands(stream) /\ RequestsStand(stream)
           /\ ReadingStands(stream, wants)
<1>1. StreamTypes /\ Distinct(issued) /\ BooksStand(stream, issued) /\ Counted(stream, issued, leaked)
      /\ StreamStands(stream, wants)
  BY DEF StreamInv
<1>2. stream \in StreamRecords /\ issued \in Seq(Writes) /\ wants \in BOOLEAN /\ leaked \in Nat
  BY <1>1 DEF StreamTypes
<1>3. PICK q : q = issued
  OBVIOUS
<1>4. q \in Seq(Writes) /\ Len(q) \in Nat /\ ToSet(q) \subseteq Writes /\ q \in Seq(StreamReqs)
  <2>1. q \in Seq(Writes)
    BY <1>2, <1>3
  <2>2. Len(q) \in Nat /\ DOMAIN q = 1..Len(q) /\ \A i \in 1..Len(q) : q[i] \in Writes
    BY <2>1, LenProperties, ElementOfSeq
  <2>3. q \in Seq(StreamReqs)
    BY <2>1, <2>2, SeqDef DEF StreamReqs
  <2> QED BY <2>1, <2>2, <2>3 DEF ToSet
<1> QED BY <1>1, <1>2, <1>3, <1>4, StreamAssumption DEF StreamStands

\* The next state is right when its parts are.
LEMMA StreamNextFacts ==
    ASSUME NEW t \in StreamRecords, NEW q \in Seq(Writes), NEW w \in BOOLEAN, NEW n \in Nat,
           Distinct(q), BooksStand(t, q), Counted(t, q, n),
           ClosingStands(t, w), ConnectStands(t), RequestsStand(t), ReadingStands(t, w),
           stream' = t, issued' = q, wants' = w, leaked' = n
    PROVE  StreamInv'
<1>1. StreamTypes'
  BY DEF StreamTypes
<1>2. Distinct(issued)' /\ BooksStand(stream, issued)' /\ Counted(stream, issued, leaked)'
  BY Zenon
<1>3. StreamStands(stream, wants)'
  <2>1. StreamStands(t, w)
    BY DEF StreamStands
  <2> QED BY <2>1, Zenon
<1> QED BY <1>1, <1>2, <1>3 DEF StreamInv

\* A step that leaves the writes alone.
LEMMA QuietStep ==
    ASSUME StreamInv, NEW t \in StreamRecords, NEW w \in BOOLEAN, SameBooks(stream, t),
           t.reqs - stream.reqs = (IF t.shutdown # "none" THEN 1 ELSE 0) + (IF t.connect # "none" THEN 1 ELSE 0)
                                    - (IF stream.shutdown # "none" THEN 1 ELSE 0)
                                    - (IF stream.connect # "none" THEN 1 ELSE 0),
           ClosingStands(t, w), ConnectStands(t), RequestsStand(t), ReadingStands(t, w),
           stream' = t, wants' = w, issued' = issued, leaked' = leaked
    PROVE  StreamInv'
<1>1. PICK s, q, n : s = stream /\ q = issued /\ n = leaked
  OBVIOUS
<1>2. /\ s \in StreamRecords /\ q \in Seq(Writes) /\ n \in Nat /\ Len(q) \in Nat /\ Distinct(q)
      /\ BooksStand(s, q) /\ Counted(s, q, n)
  BY <1>1, StreamFacts
<1>3. BooksStand(t, q)
  BY <1>1, <1>2, BooksStay
<1>4. Counted(t, q, n)
  <2>1. s.reqs \in Int /\ t.reqs \in Int
    BY <1>2 DEF StreamRecords
  <2> QED BY <2>1, <1>1, <1>2 DEF Counted
<1> QED BY <1>1, <1>2, <1>3, <1>4, StreamNextFacts

LEMMA OpenStep == ASSUME StreamInv, Open PROVE StreamInv'
<1>1. PICK s, t, w : s = stream /\ t = stream' /\ w = wants
  OBVIOUS
<1>2. /\ s \in StreamRecords /\ w \in BOOLEAN
      /\ ClosingStands(s, w) /\ ConnectStands(s) /\ RequestsStand(s) /\ ReadingStands(s, w)
  BY <1>1, StreamFacts
<1>3. PICK fl \in {{"WRITABLE", "CONNECTED"}, {"WRITABLE", "CONNECTED", "BLOCKING"}} :
         t = [s EXCEPT !.fd = TRUE, !.flags = s.flags \cup fl]
  BY <1>1 DEF Open, uv__stream_open
<1>4. s.connect = "none" /\ "CLOSING" \notin s.flags /\ ~s.fd
      /\ issued' = issued /\ wants' = w /\ leaked' = leaked
  BY <1>1 DEF Open, MayCall, IsClosing, Has, Keep
<1>5. s.flags \cup fl \in SUBSET StreamFlags
  BY <1>2 DEF StreamRecords, StreamFlags
<1>6. /\ t \in StreamRecords /\ SameBooks(s, t) /\ t.reqs = s.reqs /\ t.fd
      /\ t.connect = s.connect /\ t.shutdown = s.shutdown /\ t.flags = s.flags \cup fl
      /\ t.pevents = s.pevents /\ t.fed = s.fed /\ t.active = s.active
      /\ t.at = s.at /\ t.cb = s.cb /\ t.events = s.events /\ t.failed = s.failed
  BY <1>2, <1>3, <1>5 DEF StreamRecords, SameBooks
<1>7. \A f \in {"CLOSING", "READING", "SHUTTING", "SHUT"} : f \in t.flags <=> f \in s.flags
  BY <1>3, <1>6
<1>8. "CONNECTED" \in t.flags
  BY <1>3, <1>6
<1>9. ClosingStands(t, w)
  BY <1>2, <1>4, <1>6, <1>7 DEF ClosingStands, Has, SameBooks
<1>10. ConnectStands(t)
  BY <1>2, <1>4, <1>6, <1>7, <1>8 DEF ConnectStands, Has, SameBooks
<1>11. RequestsStand(t)
  BY <1>2, <1>4, <1>6, <1>7, <1>8 DEF RequestsStand, EventComes, Has, SameBooks
<1>12. ReadingStands(t, w)
  BY <1>2, <1>4, <1>6, <1>7 DEF ReadingStands, Has
<1>13. s.reqs \in Int
  BY <1>2 DEF StreamRecords
<1> QED BY <1>1, <1>2, <1>4, <1>6, <1>9, <1>10, <1>11, <1>12, <1>13, QuietStep

\* The two connects: t is connecting, or has no more than a socket.
LEMMA ConnectingStep ==
    ASSUME StreamInv, MayConnect, NEW t \in StreamRecords, SameBooks(stream, t),
           t.shutdown = stream.shutdown, t.active = stream.active, t.at = stream.at, t.cb = stream.cb,
           t.events = stream.events, t.failed = stream.failed,
           t.flags = stream.flags \/ t.flags = stream.flags \cup {"WRITABLE"},
           stream.pevents \subseteq t.pevents, stream.fed => t.fed, stream.fd => t.fd,
           ~t.fd => t.pevents = stream.pevents,
           \/ t.connect = "none" /\ t.reqs = stream.reqs /\ t.fd
           \/ t.connect = "pending" /\ t.reqs = stream.reqs + 1 /\ t.fd /\ "OUT" \in t.pevents
           \/ t.connect = "refused" /\ t.reqs = stream.reqs + 1 /\ t.fed,
           stream' = t, wants' = wants, issued' = issued, leaked' = leaked
    PROVE  StreamInv'
<1>1. PICK s, w : s = stream /\ w = wants
  OBVIOUS
<1>2. /\ s \in StreamRecords /\ w \in BOOLEAN
      /\ ClosingStands(s, w) /\ ConnectStands(s) /\ RequestsStand(s) /\ ReadingStands(s, w)
  BY <1>1, StreamFacts
<1>3. /\ s.connect = "none" /\ "CLOSING" \notin s.flags /\ "CONNECTED" \notin s.flags
      /\ s.at \in {"loop", "connected"}
  BY <1>1 DEF MayConnect, MayCall, IsClosing, Has
<1>4. \A f \in {"CLOSING", "READING", "SHUTTING", "SHUT", "CONNECTED"} : f \in t.flags <=> f \in s.flags
  BY <1>1
<1>5. /\ SameBooks(s, t) /\ t.shutdown = s.shutdown /\ t.active = s.active /\ t.at = s.at /\ t.cb = s.cb
      /\ t.events = s.events /\ t.failed = s.failed
      /\ s.pevents \subseteq t.pevents /\ (s.fed => t.fed) /\ (s.fd => t.fd)
      /\ ~t.fd => t.pevents = s.pevents
  BY <1>1
<1>6. \/ t.connect = "none" /\ t.reqs = s.reqs /\ t.fd
      \/ t.connect = "pending" /\ t.reqs = s.reqs + 1 /\ t.fd /\ "OUT" \in t.pevents
      \/ t.connect = "refused" /\ t.reqs = s.reqs + 1 /\ t.fed
  BY <1>1
<1>7. ClosingStands(t, w)
  BY <1>2, <1>3, <1>4, <1>5 DEF ClosingStands, Has
<1>8. ConnectStands(t)
  BY <1>2, <1>3, <1>4, <1>5, <1>6 DEF ConnectStands, Has, SameBooks, BeforeOut
<1>9. RequestsStand(t)
  BY <1>2, <1>3, <1>4, <1>5 DEF RequestsStand, EventComes, Has, SameBooks
<1>10. ReadingStands(t, w)
  BY <1>2, <1>3, <1>4, <1>5 DEF ReadingStands, Has
<1>11. s.reqs \in Int
  BY <1>2 DEF StreamRecords
<1> QED BY <1>1, <1>2, <1>3, <1>5, <1>6, <1>7, <1>8, <1>9, <1>10, <1>11, QuietStep

LEMMA TcpConnectStep == ASSUME StreamInv, uv__tcp_connect PROVE StreamInv'
<1>1. PICK s, t, fl, ev : s = stream /\ t = stream' /\ fl = s.flags \cup {"WRITABLE"} /\ ev = s.pevents \cup {"OUT"}
  OBVIOUS
<1>2. s \in StreamRecords
  BY <1>1, StreamFacts
<1>3. /\ fl \in SUBSET StreamFlags /\ ev \in SUBSET {"IN", "OUT"} /\ s.reqs + 1 \in Int
      /\ s.pevents \subseteq ev /\ "OUT" \in ev /\ s.connect = "none"
  BY <1>1, <1>2 DEF StreamRecords, StreamFlags, uv__tcp_connect, MayConnect
<1>4. \/ t = [s EXCEPT !.fd = TRUE, !.flags = fl]
      \/ t = [s EXCEPT !.fd = TRUE, !.flags = fl, !.reqs = s.reqs + 1, !.pevents = ev, !.connect = "pending"]
      \/ t = [s EXCEPT !.fd = TRUE, !.flags = fl, !.reqs = s.reqs + 1, !.pevents = ev,
                       !.connect = "refused", !.fed = TRUE]
  BY <1>1 DEF uv__tcp_connect, uv__stream_open, io_start, io_feed
<1>5. /\ t \in StreamRecords /\ SameBooks(s, t)
      /\ t.shutdown = s.shutdown /\ t.active = s.active /\ t.at = s.at /\ t.cb = s.cb
      /\ t.events = s.events /\ t.failed = s.failed /\ t.flags = fl
      /\ s.pevents \subseteq t.pevents /\ (s.fed => t.fed) /\ t.fd
      /\ \/ t.connect = "none" /\ t.reqs = s.reqs
         \/ t.connect = "pending" /\ t.reqs = s.reqs + 1 /\ "OUT" \in t.pevents
         \/ t.connect = "refused" /\ t.reqs = s.reqs + 1 /\ t.fed
  <2>1. CASE t = [s EXCEPT !.fd = TRUE, !.flags = fl]
    BY <2>1, <1>2, <1>3 DEF StreamRecords, SameBooks
  <2>2. CASE t = [s EXCEPT !.fd = TRUE, !.flags = fl, !.reqs = s.reqs + 1, !.pevents = ev,
                           !.connect = "pending"]
    BY <2>2, <1>2, <1>3 DEF StreamRecords, SameBooks
  <2>3. CASE t = [s EXCEPT !.fd = TRUE, !.flags = fl, !.reqs = s.reqs + 1, !.pevents = ev,
                           !.connect = "refused", !.fed = TRUE]
    BY <2>3, <1>2, <1>3 DEF StreamRecords, SameBooks
  <2> QED BY <1>4, <2>1, <2>2, <2>3
<1>6. MayConnect /\ wants' = wants /\ issued' = issued /\ leaked' = leaked
  BY DEF uv__tcp_connect, Keep
<1> QED BY <1>1, <1>5, <1>6, ConnectingStep

LEMMA PipeConnectStep == ASSUME StreamInv, uv_pipe_connect PROVE StreamInv'
<1>1. PICK s, t, fl, ev : /\ s = stream /\ t = stream' /\ fl = s.flags \cup {"WRITABLE"}
                           /\ ev = s.pevents \cup {"IN", "OUT"}
  OBVIOUS
<1>2. s \in StreamRecords
  BY <1>1, StreamFacts
<1>3. fl \in SUBSET StreamFlags /\ s.reqs + 1 \in Int /\ s.fd \in BOOLEAN
      /\ ev \in SUBSET {"IN", "OUT"} /\ s.pevents \subseteq ev /\ "OUT" \in ev
  BY <1>1, <1>2 DEF StreamRecords, StreamFlags
<1>4. \/ t = [s EXCEPT !.reqs = s.reqs + 1, !.fd = TRUE, !.flags = fl, !.connect = "pending",
                       !.pevents = ev]
      \/ \E fd \in {s.fd, TRUE} :
            t = [s EXCEPT !.reqs = s.reqs + 1, !.connect = "refused", !.fd = fd, !.fed = TRUE]
  BY <1>1 DEF uv_pipe_connect, uv__stream_open, io_start, io_feed
<1>5. /\ t \in StreamRecords /\ SameBooks(s, t)
      /\ t.shutdown = s.shutdown /\ t.active = s.active /\ t.at = s.at /\ t.cb = s.cb
      /\ t.events = s.events /\ t.failed = s.failed
      /\ t.flags = s.flags \/ t.flags = s.flags \cup {"WRITABLE"}
      /\ s.pevents \subseteq t.pevents /\ (s.fed => t.fed) /\ (s.fd => t.fd)
      /\ ~t.fd => t.pevents = s.pevents
      /\ \/ t.connect = "pending" /\ t.reqs = s.reqs + 1 /\ t.fd /\ "OUT" \in t.pevents
         \/ t.connect = "refused" /\ t.reqs = s.reqs + 1 /\ t.fed
  <2>1. CASE t = [s EXCEPT !.reqs = s.reqs + 1, !.fd = TRUE, !.flags = fl, !.connect = "pending",
                           !.pevents = ev]
    <3>1. /\ t \in StreamRecords /\ SameBooks(s, t)
          /\ t.shutdown = s.shutdown /\ t.active = s.active /\ t.at = s.at /\ t.cb = s.cb
          /\ t.events = s.events /\ t.failed = s.failed /\ t.flags = fl
          /\ t.pevents = ev /\ t.fed = s.fed /\ t.fd
          /\ t.connect = "pending" /\ t.reqs = s.reqs + 1
      BY <2>1, <1>2, <1>3 DEF StreamRecords, SameBooks
    <3> QED BY <3>1, <1>1, <1>3
  <2>2. ASSUME NEW fd \in {s.fd, TRUE},
               t = [s EXCEPT !.reqs = s.reqs + 1, !.connect = "refused", !.fd = fd, !.fed = TRUE]
        PROVE  /\ t \in StreamRecords /\ SameBooks(s, t)
               /\ t.shutdown = s.shutdown /\ t.active = s.active /\ t.at = s.at /\ t.cb = s.cb
               /\ t.events = s.events /\ t.failed = s.failed /\ t.flags = s.flags
               /\ t.pevents = s.pevents /\ t.fed /\ (s.fd => t.fd)
               /\ t.connect = "refused" /\ t.reqs = s.reqs + 1
    <3>1. fd \in BOOLEAN /\ (s.fd => fd)
      BY <1>3
    <3> QED BY <3>1, <2>2, <1>2, <1>3 DEF StreamRecords, SameBooks
  <2> QED BY <1>4, <2>1, <2>2
<1>6. MayConnect /\ wants' = wants /\ issued' = issued /\ leaked' = leaked
  BY DEF uv_pipe_connect, Keep
<1> QED BY <1>1, <1>5, <1>6, ConnectingStep

LEMMA ShutdownStep == ASSUME StreamInv, uv_shutdown PROVE StreamInv'
<1>1. PICK s, t, w, fl, ev : /\ s = stream /\ t = stream' /\ w = wants
                             /\ fl = s.flags \cup {"SHUTTING"} /\ ev = s.pevents \cup {"OUT"}
  OBVIOUS
<1>2. /\ s \in StreamRecords /\ w \in BOOLEAN
      /\ ClosingStands(s, w) /\ ConnectStands(s) /\ RequestsStand(s) /\ ReadingStands(s, w)
  BY <1>1, StreamFacts
<1>3. /\ fl \in SUBSET StreamFlags /\ ev \in SUBSET {"IN", "OUT"} /\ s.reqs + 1 \in Int /\ s.reqs \in Int
      /\ s.pevents \subseteq ev /\ "OUT" \in ev /\ ("IN" \in ev <=> "IN" \in s.pevents)
  BY <1>1, <1>2 DEF StreamRecords, StreamFlags
<1>4. PICK asked : asked = IF "CONNECTED" \in s.flags THEN "pending" ELSE "early"
  OBVIOUS
<1>5. t = [s EXCEPT !.reqs = s.reqs + 1, !.shutdown = asked, !.flags = fl, !.pevents = ev]
  BY <1>1, <1>4 DEF uv_shutdown, io_start, Set, Has
<1>6. /\ "CLOSING" \notin s.flags /\ s.fd /\ "SHUTTING" \notin s.flags /\ "SHUT" \notin s.flags
      /\ wants' = w /\ issued' = issued /\ leaked' = leaked
  BY <1>1 DEF uv_shutdown, MayCall, IsClosing, Has, Keep
<1>7. /\ t \in StreamRecords /\ SameBooks(s, t) /\ t.reqs = s.reqs + 1 /\ t.fd = s.fd
      /\ t.connect = s.connect /\ t.shutdown = asked /\ t.flags = fl
      /\ t.pevents = ev /\ t.fed = s.fed /\ t.active = s.active
      /\ t.at = s.at /\ t.cb = s.cb /\ t.events = s.events /\ t.failed = s.failed
  <2>1. asked \in {"none", "pending", "early"}
    BY <1>4
  <2> QED BY <2>1, <1>2, <1>3, <1>5 DEF StreamRecords, SameBooks
<1>8. /\ \A f \in {"CLOSING", "READING", "SHUT", "CONNECTED"} : f \in t.flags <=> f \in s.flags
      /\ "SHUTTING" \in t.flags
  BY <1>1, <1>7
<1>9. ClosingStands(t, w)
  BY <1>2, <1>6, <1>7, <1>8 DEF ClosingStands, Has
<1>10. ConnectStands(t)
  BY <1>2, <1>3, <1>6, <1>7, <1>8 DEF ConnectStands, Has, SameBooks
<1>11. RequestsStand(t)
  BY <1>2, <1>3, <1>4, <1>6, <1>7, <1>8 DEF RequestsStand, EventComes, Has, SameBooks
<1>12. ReadingStands(t, w)
  BY <1>2, <1>3, <1>6, <1>7, <1>8 DEF ReadingStands, Has
<1>13. s.shutdown = "none"
  BY <1>2, <1>6 DEF RequestsStand, Has
<1>14. t.reqs - s.reqs = (IF t.shutdown # "none" THEN 1 ELSE 0) + (IF t.connect # "none" THEN 1 ELSE 0)
                         - (IF s.shutdown # "none" THEN 1 ELSE 0) - (IF s.connect # "none" THEN 1 ELSE 0)
  BY <1>3, <1>4, <1>7, <1>13
<1> QED BY <1>1, <1>2, <1>6, <1>7, <1>9, <1>10, <1>11, <1>12, <1>14, QuietStep

LEMMA ReadStartStep == ASSUME StreamInv, uv_read_start PROVE StreamInv'
<1>1. PICK s, t, w, fl, ev : /\ s = stream /\ t = stream' /\ w = wants
                             /\ fl = s.flags \cup {"READING"} /\ ev = s.pevents \cup {"IN"}
  OBVIOUS
<1>2. /\ s \in StreamRecords /\ w \in BOOLEAN
      /\ ClosingStands(s, w) /\ ConnectStands(s) /\ RequestsStand(s) /\ ReadingStands(s, w)
  BY <1>1, StreamFacts
<1>3. /\ fl \in SUBSET StreamFlags /\ ev \in SUBSET {"IN", "OUT"} /\ s.reqs \in Int
      /\ "IN" \in ev /\ ("OUT" \in ev <=> "OUT" \in s.pevents)
  BY <1>1, <1>2 DEF StreamRecords, StreamFlags
<1>4. t = [s EXCEPT !.flags = fl, !.pevents = ev, !.active = TRUE]
  BY <1>1 DEF uv_read_start, io_start, Set
<1>5. /\ "CLOSING" \notin s.flags /\ s.fd /\ (s.at = "eof" => RestartsAtEof)
      /\ wants' = TRUE /\ issued' = issued /\ leaked' = leaked
  BY <1>1 DEF uv_read_start, MayCall, IsClosing, Has, Keep
<1>6. /\ t \in StreamRecords /\ SameBooks(s, t) /\ t.reqs = s.reqs /\ t.fd = s.fd
      /\ t.connect = s.connect /\ t.shutdown = s.shutdown /\ t.flags = fl
      /\ t.pevents = ev /\ t.fed = s.fed /\ t.active
      /\ t.at = s.at /\ t.cb = s.cb /\ t.events = s.events /\ t.failed = s.failed
  BY <1>2, <1>3, <1>4 DEF StreamRecords, SameBooks
<1>7. /\ \A f \in {"CLOSING", "SHUTTING", "SHUT", "CONNECTED"} : f \in t.flags <=> f \in s.flags
      /\ "READING" \in t.flags
  BY <1>1, <1>6
<1>8. ClosingStands(t, TRUE)
  BY <1>2, <1>5, <1>6, <1>7 DEF ClosingStands, Has
<1>9. ConnectStands(t)
  BY <1>2, <1>3, <1>5, <1>6, <1>7 DEF ConnectStands, Has, SameBooks
<1>10. RequestsStand(t)
  BY <1>2, <1>3, <1>5, <1>6, <1>7 DEF RequestsStand, EventComes, Has, SameBooks
<1>11. ReadingStands(t, TRUE)
  BY <1>2, <1>3, <1>5, <1>6, <1>7 DEF ReadingStands, Has
<1>12. t.reqs - s.reqs = (IF t.shutdown # "none" THEN 1 ELSE 0) + (IF t.connect # "none" THEN 1 ELSE 0)
                         - (IF s.shutdown # "none" THEN 1 ELSE 0) - (IF s.connect # "none" THEN 1 ELSE 0)
  BY <1>3, <1>6
<1> QED BY <1>1, <1>5, <1>6, <1>8, <1>9, <1>10, <1>11, <1>12, QuietStep

\* What ends reading: the flag goes, then the event.
LEMMA StopReadingFacts ==
    ASSUME NEW s \in StreamRecords
    PROVE  /\ StopReading(s) \in StreamRecords /\ SameBooks(s, StopReading(s))
           /\ SameControl([s EXCEPT !.flags = s.flags \ {"READING"}], StopReading(s))
           /\ StopReading(s).fed = s.fed /\ StopReading(s).pevents = s.pevents \ {"IN"}
<1>1. PICK x, E, e, y : /\ x = [s EXCEPT !.flags = s.flags \ {"READING"}] /\ E = {"IN"} /\ e = "OUT"
                        /\ y = stop_unless(io_stop(x, E), e)
  OBVIOUS
<1>2. x \in StreamRecords /\ SameBooks(s, x) /\ x.fed = s.fed /\ x.pevents = s.pevents
  BY <1>1 DEF StreamRecords, SameBooks
<1>3. E \in SUBSET {"IN", "OUT"}
  BY <1>1
<1>4. /\ y \in StreamRecords /\ SameControl(x, y) /\ SameBooks(x, y) /\ y.fed = x.fed
      /\ y.pevents = x.pevents \ E
  <2>1. \A a \in StreamRecords : \A D \in SUBSET {"IN", "OUT"} : \A f, z :
           z = stop_unless(io_stop(a, D), f) =>
              /\ z \in StreamRecords /\ SameControl(a, z) /\ SameBooks(a, z) /\ z.fed = a.fed
              /\ z.pevents = a.pevents \ D
    BY ONLY StreamStopFacts
  <2>2. x \in StreamRecords /\ E \in SUBSET {"IN", "OUT"} /\ y = stop_unless(io_stop(x, E), e)
    BY ONLY <1>1, <1>2, <1>3
  <2>3. /\ y \in StreamRecords /\ SameControl(x, y) /\ SameBooks(x, y) /\ y.fed = x.fed
        /\ y.pevents = x.pevents \ E
    BY ONLY <2>1, <2>2
  <2> QED BY <2>3
<1>5. StopReading(s) = y
  BY <1>1 DEF StopReading, Clear
<1>6. SameBooks(s, y)
  BY <1>2, <1>4 DEF SameBooks
<1> QED BY <1>1, <1>2, <1>4, <1>5, <1>6

LEMMA ReadStopStep == ASSUME StreamInv, uv_read_stop PROVE StreamInv'
<1>1. PICK s, t, w : s = stream /\ t = stream' /\ w = wants
  OBVIOUS
<1>2. /\ s \in StreamRecords /\ w \in BOOLEAN
      /\ ClosingStands(s, w) /\ ConnectStands(s) /\ RequestsStand(s) /\ ReadingStands(s, w)
  BY <1>1, StreamFacts
<1>3. /\ t = StopReading(s) /\ "CLOSING" \notin s.flags
      /\ wants' = FALSE /\ issued' = issued /\ leaked' = leaked
  BY <1>1 DEF uv_read_stop, MayCall, IsClosing, Has, Keep
<1>4. /\ t \in StreamRecords /\ SameBooks(s, t)
      /\ SameControl([s EXCEPT !.flags = s.flags \ {"READING"}], t)
      /\ t.fed = s.fed /\ t.pevents = s.pevents \ {"IN"}
  BY <1>2, <1>3, StopReadingFacts
<1>5. /\ t.reqs = s.reqs /\ t.fd = s.fd /\ t.connect = s.connect /\ t.shutdown = s.shutdown
      /\ t.flags = s.flags \ {"READING"} /\ t.at = s.at /\ t.cb = s.cb /\ t.events = s.events
      /\ t.failed = s.failed /\ s.reqs \in Int
  BY <1>2, <1>4 DEF SameControl, StreamRecords
<1>6. /\ \A f \in {"CLOSING", "SHUTTING", "SHUT", "CONNECTED"} : f \in t.flags <=> f \in s.flags
      /\ "READING" \notin t.flags /\ ("OUT" \in t.pevents <=> "OUT" \in s.pevents)
  BY <1>4, <1>5
<1>7. ClosingStands(t, FALSE)
  BY <1>2, <1>3, <1>5, <1>6 DEF ClosingStands, Has
<1>8. ConnectStands(t)
  BY <1>2, <1>3, <1>4, <1>5, <1>6 DEF ConnectStands, Has, SameBooks
<1>9. RequestsStand(t)
  BY <1>2, <1>3, <1>4, <1>5, <1>6 DEF RequestsStand, EventComes, Has, SameBooks
<1>10. ReadingStands(t, FALSE)
  BY <1>6 DEF ReadingStands, Has
<1>11. t.reqs - s.reqs = (IF t.shutdown # "none" THEN 1 ELSE 0) + (IF t.connect # "none" THEN 1 ELSE 0)
                         - (IF s.shutdown # "none" THEN 1 ELSE 0) - (IF s.connect # "none" THEN 1 ELSE 0)
  BY <1>5
<1> QED BY <1>1, <1>3, <1>4, <1>7, <1>8, <1>9, <1>10, <1>11, QuietStep

LEMMA CloseStep == ASSUME StreamInv, uv__stream_close PROVE StreamInv'
<1>1. PICK s, t, w, fl : s = stream /\ t = stream' /\ w = wants /\ fl = (s.flags \cup {"CLOSING"}) \ {"READING"}
  OBVIOUS
<1>2. /\ s \in StreamRecords /\ w \in BOOLEAN
      /\ ClosingStands(s, w) /\ ConnectStands(s) /\ RequestsStand(s) /\ ReadingStands(s, w)
  BY <1>1, StreamFacts
<1>3. /\ t = [s EXCEPT !.flags = fl, !.pevents = {}, !.fed = FALSE, !.active = FALSE, !.fd = FALSE]
      /\ "CLOSING" \notin s.flags /\ wants' = FALSE /\ issued' = issued /\ leaked' = leaked
  BY <1>1 DEF uv__stream_close, Set, Clear, MayCall, IsClosing, Has, Keep
<1>4. fl \in SUBSET StreamFlags /\ s.reqs \in Int
  BY <1>1, <1>2 DEF StreamRecords, StreamFlags
<1>5. /\ t \in StreamRecords /\ SameBooks(s, t) /\ t.reqs = s.reqs /\ ~t.fd
      /\ t.connect = s.connect /\ t.shutdown = s.shutdown /\ t.flags = fl
      /\ t.pevents = {} /\ ~t.fed /\ ~t.active
      /\ t.at = s.at /\ t.cb = s.cb /\ t.events = s.events /\ t.failed = s.failed
  BY <1>2, <1>3, <1>4 DEF StreamRecords, SameBooks
<1>6. /\ \A f \in {"SHUTTING", "SHUT", "CONNECTED"} : f \in t.flags <=> f \in s.flags
      /\ "READING" \notin t.flags /\ "CLOSING" \in t.flags
  BY <1>1, <1>5
<1>7. ClosingStands(t, FALSE)
  BY <1>2, <1>3, <1>5, <1>6 DEF ClosingStands, Has
<1>8. ConnectStands(t)
  BY <1>2, <1>5, <1>6 DEF ConnectStands, Has
<1>9. RequestsStand(t)
  BY <1>2, <1>5, <1>6 DEF RequestsStand, Has
<1>10. ReadingStands(t, FALSE)
  BY <1>6 DEF ReadingStands, Has
<1>11. t.reqs - s.reqs = (IF t.shutdown # "none" THEN 1 ELSE 0) + (IF t.connect # "none" THEN 1 ELSE 0)
                         - (IF s.shutdown # "none" THEN 1 ELSE 0) - (IF s.connect # "none" THEN 1 ELSE 0)
  BY <1>4, <1>5
<1> QED BY <1>1, <1>3, <1>5, <1>7, <1>8, <1>9, <1>10, <1>11, QuietStep

LEMMA WriteStep == ASSUME StreamInv, NEW r \in Writes, uv_write2(r) PROVE StreamInv'
<1>1. PICK s, t, w, q, n : s = stream /\ t = stream' /\ w = wants /\ q = issued /\ n = leaked
  OBVIOUS
<1>2. /\ s \in StreamRecords /\ w \in BOOLEAN /\ n \in Nat /\ q \in Seq(Writes) /\ q \in Seq(StreamReqs)
      /\ Len(q) \in Nat /\ Distinct(q) /\ BooksStand(s, q) /\ Counted(s, q, n)
      /\ ClosingStands(s, w) /\ ConnectStands(s) /\ RequestsStand(s) /\ ReadingStands(s, w)
  BY <1>1, StreamFacts
<1>3. /\ "CLOSING" \notin s.flags /\ s.fd /\ ("CONNECTED" \in s.flags \/ s.connect # "none")
      /\ r \notin ToSet(q) /\ wants' = w
  <2>1. Range(q) = ToSet(q)
    BY DEF Range, ToSet
  <2> QED BY <2>1, <1>1 DEF uv_write2, MayCall, MayWrite, IsClosing, Has, Keep
<1>4. \/ (\E m \in 0..MaxSize : t \in Submit(s, r, m)) /\ issued' = Append(q, r) /\ leaked' = n
      \/ t = [s EXCEPT !.reqs = s.reqs + 1] /\ issued' = q /\ leaked' = n + 1
  BY <1>1 DEF uv_write2, Keep
<1>5. s.reqs \in Int
  BY <1>2 DEF StreamRecords
<1>6. CASE (\E m \in 0..MaxSize : t \in Submit(s, r, m)) /\ issued' = Append(q, r) /\ leaked' = n
  <2>1. PICK m \in 0..MaxSize : t \in Submit(s, r, m)
    BY <1>6
  <2>2. m \in Nat /\ r \in StreamReqs
    BY StreamAssumption DEF StreamReqs
  <2>3. PICK p : p = Append(q, r)
    OBVIOUS
  <2>4. SubmitDone(s, t, p)
    BY <1>2, <1>3, <2>1, <2>2, <2>3, SubmitFacts
  <2>5. p \in Seq(Writes) /\ Distinct(p) /\ Len(p) = Len(q) + 1
    BY <1>2, <1>3, <2>3, AppendFacts, AppendProperties
  <2>6. /\ t \in StreamRecords /\ BooksStand(t, p) /\ t.reqs = s.reqs + 1
        /\ t.fd = s.fd /\ t.connect = s.connect /\ t.shutdown = s.shutdown /\ t.flags = s.flags
        /\ t.events = s.events /\ t.failed = s.failed
        /\ t.at = s.at \/ (t.at = "abort" /\ s.connect = "none")
        /\ s.connect # "none" => t.pevents = s.pevents /\ t.cq = s.cq
        /\ s.connect = "none" /\ t.at # "abort" => "OUT" \in t.pevents \/ t.fed
        /\ "OUT" \in s.pevents => "OUT" \in t.pevents \/ t.fed
        /\ s.fed => t.fed
        /\ "IN" \in s.pevents <=> "IN" \in t.pevents
        /\ "IN" \in s.pevents /\ s.active => t.active
    BY <2>4 DEF SubmitDone
  <2>7. Counted(t, p, n)
    BY <1>2, <1>5, <2>5, <2>6 DEF Counted
  <2>8. s.at \notin {"destroy", "closed"}
    BY <1>2, <1>3 DEF ClosingStands, Has
  <2>9. ClosingStands(t, w)
    BY <1>3, <2>6, <2>8 DEF ClosingStands, Has
  <2>10. ConnectStands(t)
    BY <1>2, <1>3, <2>6 DEF ConnectStands, Has, BeforeOut
  <2>11. "CLOSING" \notin t.flags /\ t.at # "abort" => "OUT" \in t.pevents \/ t.fed
    <3>1. s.connect = "pending" => "OUT" \in t.pevents
      BY <1>2, <1>3, <2>6 DEF ConnectStands, Has
    <3>2. s.connect = "refused" => t.fed
      BY <1>2, <1>3, <2>6 DEF ConnectStands, Has
    <3>3. s.connect \in {"none", "pending", "refused"}
      BY <1>2 DEF StreamRecords
    <3> QED BY <3>1, <3>2, <3>3, <2>6
  <2>12. RequestsStand(t)
    BY <1>2, <1>3, <2>6, <2>8, <2>11 DEF RequestsStand, EventComes, Has
  <2>13. ReadingStands(t, w)
    BY <1>2, <1>3, <2>6 DEF ReadingStands, Has
  <2> QED BY <1>1, <1>2, <1>3, <1>6, <2>3, <2>5, <2>6, <2>7, <2>9, <2>10, <2>12, <2>13, StreamNextFacts
<1>7. CASE t = [s EXCEPT !.reqs = s.reqs + 1] /\ issued' = q /\ leaked' = n + 1
  <2>1. /\ t \in StreamRecords /\ SameBooks(s, t) /\ t.reqs = s.reqs + 1
        /\ t.fd = s.fd /\ t.connect = s.connect /\ t.shutdown = s.shutdown /\ t.flags = s.flags
        /\ t.events = s.events /\ t.failed = s.failed /\ t.at = s.at
        /\ t.pevents = s.pevents /\ t.fed = s.fed /\ t.active = s.active
    <3>1. s.reqs + 1 \in Int
      BY <1>5
    <3> QED BY <3>1, <1>2, <1>7 DEF StreamRecords, SameBooks
  <2>2. BooksStand(t, q)
    BY <1>2, <2>1, BooksStay
  <2>3. Counted(t, q, n + 1)
    BY <1>2, <1>5, <2>1 DEF Counted
  <2>4. ClosingStands(t, w)
    BY <1>2, <2>1 DEF ClosingStands, Has, SameBooks
  <2>5. ConnectStands(t)
    BY <1>2, <2>1 DEF ConnectStands, Has, SameBooks
  <2>6. RequestsStand(t)
    BY <1>2, <2>1 DEF RequestsStand, EventComes, Has, SameBooks
  <2>7. ReadingStands(t, w)
    BY <1>2, <2>1 DEF ReadingStands, Has
  <2>8. n + 1 \in Nat
    BY <1>2
  <2> QED BY <1>1, <1>2, <1>3, <1>7, <2>1, <2>2, <2>3, <2>4, <2>5, <2>6, <2>7, <2>8, StreamNextFacts
<1> QED BY <1>4, <1>6, <1>7

LEMMA TryWriteStep == ASSUME StreamInv, uv_try_write PROVE StreamInv'
<1>1. PICK s, t, w, q, had : /\ s = stream /\ t = stream' /\ w = wants /\ q = issued
                             /\ had = ("OUT" \in s.pevents)
  OBVIOUS
<1>2. /\ s \in StreamRecords /\ w \in BOOLEAN /\ leaked \in Nat /\ q \in Seq(Writes) /\ q \in Seq(StreamReqs)
      /\ Len(q) \in Nat /\ Distinct(q) /\ BooksStand(s, q) /\ Counted(s, q, leaked)
      /\ TryReq \notin ToSet(q)
      /\ ClosingStands(s, w) /\ ConnectStands(s) /\ RequestsStand(s) /\ ReadingStands(s, w)
  BY <1>1, StreamFacts
<1>3. /\ "CLOSING" \notin s.flags /\ s.fd /\ s.connect = "none" /\ s.size = 0 /\ "CONNECTED" \in s.flags
      /\ wants' = w /\ issued' = q /\ leaked' = leaked
  BY <1>1 DEF uv_try_write, MayCall, MayWrite, IsClosing, Has, Keep
<1>4. PICK m \in 0..MaxSize : \E u \in Submit(s, TryReq, m) : t = Unqueue(u, had)
  BY <1>1 DEF uv_try_write
<1>5. PICK u \in Submit(s, TryReq, m) : t = Unqueue(u, had)
  BY <1>4
<1>6. u \in uv__write(Handed(s, TryReq, m)) /\ m \in Nat /\ had \in BOOLEAN
  <2>1. u \in uv__write(Handed(s, TryReq, m))
    BY <1>3 DEF Submit, Handed
  <2> QED BY <2>1, <1>1, StreamAssumption
<1>7. /\ t \in StreamRecords /\ BooksStand(t, q) /\ SameControl(s, t)
      /\ "OUT" \in s.pevents /\ had => "OUT" \in t.pevents \/ t.fed
      /\ s.fed => t.fed
      /\ t.wq # <<>> => s.wq # <<>>
      /\ t.cq = s.cq \/ t.fed
      /\ "IN" \in s.pevents <=> "IN" \in t.pevents
      /\ "IN" \in s.pevents /\ s.active => t.active
  BY <1>2, <1>5, <1>6, UnqueueFacts
<1>8. /\ t.reqs = s.reqs /\ t.fd = s.fd /\ t.connect = s.connect /\ t.shutdown = s.shutdown
      /\ t.flags = s.flags /\ t.at = s.at /\ t.events = s.events /\ t.failed = s.failed
  BY <1>7 DEF SameControl
<1>9. Counted(t, q, leaked)
  BY <1>2, <1>8 DEF Counted
<1>10. s.at \notin {"destroy", "closed"}
  BY <1>2, <1>3 DEF ClosingStands, Has
<1>11. ClosingStands(t, w)
  BY <1>3, <1>8, <1>10 DEF ClosingStands, Has
<1>12. ConnectStands(t)
  BY <1>2, <1>3, <1>8 DEF ConnectStands, Has
<1>13. EventComes(s) => EventComes(t)
  BY <1>1, <1>7, <1>8 DEF EventComes
<1>14. t.fed => EventComes(t)
  BY DEF EventComes
<1>15. RequestsStand(t)
  BY <1>2, <1>3, <1>7, <1>8, <1>13, <1>14 DEF RequestsStand, Has
<1>16. ReadingStands(t, w)
  BY <1>2, <1>3, <1>7, <1>8 DEF ReadingStands, Has
<1> QED BY <1>1, <1>2, <1>3, <1>7, <1>9, <1>11, <1>12, <1>15, <1>16, StreamNextFacts

----------------------------------------------------------------------------
(* The steps of the loop.                                                  *)

StreamPlaces ==
    {"loop", "read", "read_error", "partial", "eof", "hup", "out", "callbacks", "connected",
     "flushed", "destroy", "closed", "abort"}

\* t is s gone to another place, with a callback or without.
Moved(s, t, where) ==
    /\ t \in StreamRecords /\ SameBooks(s, t) /\ t.at = where
    /\ t.fd = s.fd /\ t.connect = s.connect /\ t.shutdown = s.shutdown /\ t.flags = s.flags
    /\ t.reqs = s.reqs /\ t.pevents = s.pevents /\ t.fed = s.fed /\ t.active = s.active
    /\ where \notin {"loop", "closed"} => t.events = s.events /\ t.failed = s.failed

LEMMA GotoFacts ==
    ASSUME NEW s \in StreamRecords, NEW where \in StreamPlaces
    PROVE  Moved(s, Goto(s, where), where) /\ Moved(s, Call(s, where), where)
<1>1. PICK t, u : t = Goto(s, where) /\ u = Call(s, where)
  OBVIOUS
<1>2. u = [t EXCEPT !.cb = TRUE]
  BY <1>1 DEF Call
<1>3. Moved(s, t, where)
  <2>1. CASE where \in {"loop", "closed"}
    <3>1. t = [s EXCEPT !.at = where, !.events = {}, !.count = 0, !.failed = FALSE]
      BY <2>1, <1>1 DEF Goto
    <3>2. {} \in SUBSET {"OUT", "HUP"} /\ 0 \in Int /\ FALSE \in BOOLEAN
      OBVIOUS
    <3>3. t \in StreamRecords
      BY <3>1, <3>2, ZenonT(60) DEF StreamRecords, StreamPlaces
    <3>4. /\ SameBooks(s, t) /\ t.at = where
          /\ t.fd = s.fd /\ t.connect = s.connect /\ t.shutdown = s.shutdown /\ t.flags = s.flags
          /\ t.reqs = s.reqs /\ t.pevents = s.pevents /\ t.fed = s.fed /\ t.active = s.active
      BY <3>1 DEF StreamRecords, SameBooks
    <3> QED BY <3>3, <3>4, <2>1 DEF Moved
  <2>2. CASE where \notin {"loop", "closed"}
    <3>1. t = [s EXCEPT !.at = where]
      BY <2>2, <1>1 DEF Goto
    <3> QED BY <3>1, <2>2 DEF Moved, StreamRecords, SameBooks, StreamPlaces
  <2> QED BY <2>1, <2>2
<1>4. Moved(t, u, where) /\ u.events = t.events /\ u.failed = t.failed
  <2>1. t \in StreamRecords /\ t.at = where
    BY <1>3 DEF Moved
  <2> QED BY <2>1, <1>2 DEF Moved, StreamRecords, SameBooks
<1>5. Moved(s, u, where)
  BY <1>3, <1>4 DEF Moved, SameBooks
<1> QED BY <1>1, <1>3, <1>5

\* A callback returns.
LEMMA CallbackStep == ASSUME StreamInv, CallbackReturns PROVE StreamInv'
<1>1. PICK s, t, w : s = stream /\ t = stream' /\ w = wants
  OBVIOUS
<1>2. /\ s \in StreamRecords /\ w \in BOOLEAN
      /\ ClosingStands(s, w) /\ ConnectStands(s) /\ RequestsStand(s) /\ ReadingStands(s, w)
  BY <1>1, StreamFacts
<1>3. t = [s EXCEPT !.cb = FALSE] /\ wants' = w /\ issued' = issued /\ leaked' = leaked
  BY <1>1 DEF CallbackReturns, Keep
<1>4. /\ t \in StreamRecords /\ SameBooks(s, t) /\ t.reqs = s.reqs /\ t.fd = s.fd
      /\ t.connect = s.connect /\ t.shutdown = s.shutdown /\ t.flags = s.flags
      /\ t.pevents = s.pevents /\ t.fed = s.fed /\ t.active = s.active
      /\ t.at = s.at /\ t.events = s.events /\ t.failed = s.failed /\ s.reqs \in Int
  BY <1>2, <1>3 DEF StreamRecords, SameBooks
<1>5. ClosingStands(t, w) /\ ConnectStands(t)
  BY <1>2, <1>4 DEF ClosingStands, ConnectStands, Has, SameBooks
<1>6. RequestsStand(t) /\ ReadingStands(t, w)
  BY <1>2, <1>4 DEF RequestsStand, ReadingStands, EventComes, Has, SameBooks
<1>7. t.reqs - s.reqs = (IF t.shutdown # "none" THEN 1 ELSE 0) + (IF t.connect # "none" THEN 1 ELSE 0)
                         - (IF s.shutdown # "none" THEN 1 ELSE 0) - (IF s.connect # "none" THEN 1 ELSE 0)
  BY <1>4
<1> QED BY <1>1, <1>2, <1>3, <1>4, <1>5, <1>6, <1>7, QuietStep

\* A step within uv__stream_io before it looks at POLLOUT, to a place where
\* it has not looked yet: t differs from the stream in the reading at most.
LEMMA BeforeOutStep ==
    ASSUME StreamInv, stream.at \in BeforeOut, NEW t \in StreamRecords, NEW w \in BOOLEAN,
           SameBooks(stream, t), t.reqs = stream.reqs, t.fd = stream.fd, t.connect = stream.connect,
           t.shutdown = stream.shutdown, t.fed = stream.fed, t.at \in BeforeOut,
           \A f \in {"CLOSING", "SHUTTING", "SHUT", "CONNECTED"} : f \in t.flags <=> f \in stream.flags,
           "OUT" \in t.pevents <=> "OUT" \in stream.pevents,
           "OUT" \in t.events <=> "OUT" \in stream.events,
           "CLOSING" \in stream.flags => t.pevents = {} /\ "READING" \notin t.flags /\ ~w,
           ReadingStands(t, w),
           stream' = t, wants' = w, issued' = issued, leaked' = leaked
    PROVE  StreamInv'
<1>1. PICK s, v : s = stream /\ v = wants
  OBVIOUS
<1>2. /\ s \in StreamRecords /\ v \in BOOLEAN
      /\ ClosingStands(s, v) /\ ConnectStands(s) /\ RequestsStand(s)
  BY <1>1, StreamFacts
<1>3. /\ s.at \in BeforeOut /\ SameBooks(s, t) /\ t.reqs = s.reqs /\ t.fd = s.fd /\ t.connect = s.connect
      /\ t.shutdown = s.shutdown /\ t.fed = s.fed /\ s.reqs \in Int
      /\ \A f \in {"CLOSING", "SHUTTING", "SHUT", "CONNECTED"} : f \in t.flags <=> f \in s.flags
      /\ "OUT" \in t.pevents <=> "OUT" \in s.pevents
      /\ "OUT" \in t.events <=> "OUT" \in s.events
      /\ "CLOSING" \in s.flags => t.pevents = {} /\ "READING" \notin t.flags /\ ~w
  BY <1>1, <1>2 DEF StreamRecords
<1>4. ClosingStands(t, w)
  BY <1>2, <1>3 DEF ClosingStands, Has, BeforeOut
<1>5. ConnectStands(t)
  BY <1>2, <1>3 DEF ConnectStands, Has, SameBooks, BeforeOut
<1>6. EventComes(t) <=> EventComes(s)
  BY <1>3 DEF EventComes
<1>7. RequestsStand(t)
  BY <1>2, <1>3, <1>6 DEF RequestsStand, Has, SameBooks, BeforeOut
<1> QED BY <1>1, <1>2, <1>3, <1>4, <1>5, <1>7, QuietStep

\* Between two of these places nothing changes but the place.
LEMMA BeforeOutMove ==
    ASSUME StreamInv, stream.at \in BeforeOut, NEW where \in BeforeOut, NEW t, Moved(stream, t, where),
           stream.at # "eof", where # "eof",
           stream' = t, wants' = wants, issued' = issued, leaked' = leaked
    PROVE  StreamInv'
<1>1. PICK s, w : s = stream /\ w = wants
  OBVIOUS
<1>2. s \in StreamRecords /\ w \in BOOLEAN /\ ClosingStands(s, w) /\ ReadingStands(s, w)
  BY <1>1, StreamFacts
<1>3. where \notin {"loop", "closed"}
  BY DEF BeforeOut
<1>4. /\ t \in StreamRecords /\ SameBooks(s, t) /\ t.at = where
      /\ t.fd = s.fd /\ t.connect = s.connect /\ t.shutdown = s.shutdown /\ t.flags = s.flags
      /\ t.reqs = s.reqs /\ t.pevents = s.pevents /\ t.fed = s.fed /\ t.active = s.active
      /\ t.events = s.events
  BY <1>1, <1>3 DEF Moved
<1>5. "CLOSING" \in s.flags => t.pevents = {} /\ "READING" \notin t.flags /\ ~w
  BY <1>2, <1>4 DEF ClosingStands, Has
<1>6. ReadingStands(t, w)
  BY <1>1, <1>2, <1>4 DEF ReadingStands, Has, BeforeOut
<1> QED BY <1>1, <1>2, <1>4, <1>5, <1>6, BeforeOutStep

\* The end of file, from a stream that differs from this one in the number
\* of reads at most.
LEMMA EofStep ==
    ASSUME StreamInv, stream.at \in BeforeOut, "READING" \in stream.flags,
           NEW x, Moved(stream, x, stream.at), NEW t, t = AtEof(x),
           stream' = t, wants' = FALSE, issued' = issued, leaked' = leaked
    PROVE  StreamInv'
<1>1. PICK s, w, fl : s = stream /\ w = wants /\ fl = s.flags \cup {"EOF"}
  OBVIOUS
<1>2. s \in StreamRecords /\ w \in BOOLEAN /\ ClosingStands(s, w)
  BY <1>1, StreamFacts
<1>3. /\ x \in StreamRecords /\ SameBooks(s, x)
      /\ x.fd = s.fd /\ x.connect = s.connect /\ x.shutdown = s.shutdown /\ x.flags = s.flags
      /\ x.reqs = s.reqs /\ x.pevents = s.pevents /\ x.fed = s.fed /\ x.events = s.events
  BY <1>1 DEF Moved, BeforeOut
<1>4. fl \in SUBSET StreamFlags
  BY <1>1, <1>2 DEF StreamRecords, StreamFlags
<1>5. PICK y, E, e, z : /\ y = [x EXCEPT !.flags = fl] /\ E = {"IN"} /\ e = "OUT"
                        /\ z = stop_unless(io_stop(y, E), e)
  OBVIOUS
<1>6. /\ y \in StreamRecords /\ SameBooks(x, y) /\ y.fd = x.fd /\ y.connect = x.connect
      /\ y.shutdown = x.shutdown /\ y.flags = fl /\ y.reqs = x.reqs /\ y.pevents = x.pevents
      /\ y.fed = x.fed /\ y.events = x.events
  BY <1>3, <1>4, <1>5 DEF StreamRecords, SameBooks
<1>7. z \in StreamRecords /\ SameControl(y, z) /\ SameBooks(y, z) /\ z.fed = y.fed /\ z.pevents = y.pevents \ E
  <2>1. PICK v : v = stop_unless(io_stop(y, E), e)
    OBVIOUS
  <2>2. y \in StreamRecords /\ E \in SUBSET {"IN", "OUT"}
    BY <1>5, <1>6
  <2>3. v \in StreamRecords /\ SameControl(y, v) /\ SameBooks(y, v) /\ v.fed = y.fed /\ v.pevents = y.pevents \ E
    BY ONLY <2>1, <2>2, StreamStopFacts
  <2>4. v = z
    BY <1>5, <2>1
  <2> QED BY <2>3, <2>4
<1>8. t = Call(z, "eof")
  BY <1>1, <1>3, <1>5 DEF AtEof, Set
<1>9. Moved(z, t, "eof")
  BY <1>7, <1>8, GotoFacts DEF StreamPlaces
<1>10. /\ t \in StreamRecords /\ SameBooks(z, t) /\ t.at = "eof"
       /\ t.fd = z.fd /\ t.connect = z.connect /\ t.shutdown = z.shutdown /\ t.flags = z.flags
       /\ t.reqs = z.reqs /\ t.pevents = z.pevents /\ t.fed = z.fed /\ t.events = z.events
  BY <1>9 DEF Moved
<1>11. /\ z.fd = y.fd /\ z.connect = y.connect /\ z.shutdown = y.shutdown /\ z.flags = y.flags
       /\ z.reqs = y.reqs /\ z.events = y.events
  BY <1>7 DEF SameControl
<1>12. SameBooks(s, t)
  BY <1>3, <1>6, <1>7, <1>10 DEF SameBooks
<1>13. /\ t.fd = s.fd /\ t.connect = s.connect /\ t.shutdown = s.shutdown /\ t.flags = fl
       /\ t.reqs = s.reqs /\ t.pevents = s.pevents \ {"IN"} /\ t.fed = s.fed /\ t.events = s.events
  BY <1>3, <1>5, <1>6, <1>7, <1>10, <1>11
<1>14. /\ \A f \in {"CLOSING", "SHUTTING", "SHUT", "CONNECTED"} : f \in t.flags <=> f \in s.flags
       /\ "OUT" \in t.pevents <=> "OUT" \in s.pevents
  BY <1>1, <1>13
<1>15. "CLOSING" \notin s.flags
  BY <1>1, <1>2 DEF ClosingStands, Has
<1>16. ReadingStands(t, FALSE)
  BY <1>10 DEF ReadingStands
<1>17. t.at \in BeforeOut
  BY <1>10 DEF BeforeOut
<1> QED BY <1>1, <1>10, <1>12, <1>13, <1>14, <1>15, <1>16, <1>17, BeforeOutStep

LEMMA ReadStep == ASSUME StreamInv, uv__read PROVE StreamInv'
<1>1. PICK s, t, w, x, y : /\ s = stream /\ t = stream' /\ w = wants
                           /\ x = [s EXCEPT !.count = s.count - 1]
                           /\ y = [x EXCEPT !.pevents = x.pevents \cup {"IN"}]
  OBVIOUS
<1>2. s \in StreamRecords /\ w \in BOOLEAN /\ ClosingStands(s, w) /\ ReadingStands(s, w)
  BY <1>1, StreamFacts
<1>3. s.at = "read" /\ s.at \in BeforeOut /\ issued' = issued /\ leaked' = leaked
  BY <1>1 DEF uv__read, Step, Keep, BeforeOut
<1>4. \/ t = Goto(s, "hup") /\ wants' = w
      \/ /\ "READING" \in s.flags
         /\ \/ \E where \in {"hup", "read_error", "read", "partial"} : t = Call(x, where) /\ wants' = w
            \/ t = Call(y, "hup") /\ wants' = w
            \/ t = AtEof(x) /\ wants' = FALSE
  BY <1>1 DEF uv__read, io_start, Has
<1>5. Moved(s, x, "read")
  <2>1. s.count - 1 \in Int
    BY <1>2 DEF StreamRecords
  <2> QED BY <2>1, <1>1, <1>2, <1>3 DEF Moved, StreamRecords, SameBooks
<1>6. x \in StreamRecords
  BY <1>5 DEF Moved
<1>7. CASE t = Goto(s, "hup") /\ wants' = w
  <2>1. Moved(s, t, "hup")
    BY <1>2, <1>7, GotoFacts DEF StreamPlaces
  <2>2. "hup" \in BeforeOut
    BY DEF BeforeOut
  <2> QED BY <2>1, <2>2, <1>1, <1>3, <1>7, BeforeOutMove
<1>8. ASSUME NEW where \in {"hup", "read_error", "read", "partial"}, t = Call(x, where), wants' = w
      PROVE  StreamInv'
  <2>1. Moved(x, t, where)
    BY <1>6, <1>8, GotoFacts DEF StreamPlaces
  <2>2. Moved(s, t, where)
    BY <2>1, <1>5 DEF Moved, SameBooks
  <2>3. where \in BeforeOut /\ where # "eof"
    BY DEF BeforeOut
  <2> QED BY <2>2, <2>3, <1>1, <1>3, <1>8, BeforeOutMove
<1>9. ASSUME "READING" \in s.flags, t = Call(y, "hup"), wants' = w
      PROVE  StreamInv'
  <2>1. PICK ev : ev = x.pevents \cup {"IN"}
    OBVIOUS
  <2>2. ev \in SUBSET {"IN", "OUT"} /\ y = [x EXCEPT !.pevents = ev]
    BY <2>1, <1>1, <1>6 DEF StreamRecords
  <2>3. /\ y \in StreamRecords /\ SameBooks(x, y) /\ y.fd = x.fd /\ y.connect = x.connect
        /\ y.shutdown = x.shutdown /\ y.flags = x.flags /\ y.reqs = x.reqs /\ y.pevents = ev
        /\ y.fed = x.fed /\ y.events = x.events /\ y.active = x.active
    BY <2>2, <1>6 DEF StreamRecords, SameBooks
  <2>4. Moved(y, t, "hup")
    BY <2>3, <1>9, GotoFacts DEF StreamPlaces
  <2>5. /\ t \in StreamRecords /\ SameBooks(y, t) /\ t.at = "hup"
        /\ t.fd = y.fd /\ t.connect = y.connect /\ t.shutdown = y.shutdown /\ t.flags = y.flags
        /\ t.reqs = y.reqs /\ t.pevents = y.pevents /\ t.fed = y.fed /\ t.active = y.active
        /\ t.events = y.events
    BY <2>4 DEF Moved
  <2>6. /\ SameBooks(s, x)
        /\ x.fd = s.fd /\ x.connect = s.connect /\ x.shutdown = s.shutdown /\ x.flags = s.flags
        /\ x.reqs = s.reqs /\ x.pevents = s.pevents /\ x.fed = s.fed /\ x.active = s.active
        /\ x.events = s.events
    BY <1>5 DEF Moved
  <2>7. SameBooks(s, t)
    BY <2>3, <2>5, <2>6 DEF SameBooks
  <2>8. /\ t.fd = s.fd /\ t.connect = s.connect /\ t.shutdown = s.shutdown /\ t.flags = s.flags
        /\ t.reqs = s.reqs /\ t.pevents = s.pevents \cup {"IN"} /\ t.fed = s.fed /\ t.active = s.active
        /\ t.events = s.events
    BY <2>1, <2>3, <2>5, <2>6
  <2>9. "CLOSING" \notin s.flags
    BY <1>2, <1>9 DEF ClosingStands, Has
  <2>10. ReadingStands(t, w)
    BY <1>2, <1>3, <2>5, <2>8 DEF ReadingStands, Has
  <2>11. t.at \in BeforeOut /\ ("OUT" \in t.pevents <=> "OUT" \in s.pevents)
    BY <2>5, <2>8 DEF BeforeOut
  <2> QED BY <1>1, <1>2, <1>3, <1>9, <2>5, <2>7, <2>8, <2>9, <2>10, <2>11, BeforeOutStep
<1>10. ASSUME "READING" \in s.flags, t = AtEof(x), wants' = FALSE
       PROVE  StreamInv'
  BY <1>1, <1>3, <1>5, <1>10, EofStep
<1> QED BY <1>4, <1>7, <1>8, <1>9, <1>10

LEMMA ReadErrorStep == ASSUME StreamInv, ReadError PROVE StreamInv'
<1>1. PICK s, t, w, x : /\ s = stream /\ t = stream' /\ w = wants
                        /\ x = IF "READING" \in s.flags THEN StopReading(s) ELSE s
  OBVIOUS
<1>2. s \in StreamRecords /\ w \in BOOLEAN /\ ClosingStands(s, w)
  BY <1>1, StreamFacts
<1>3. /\ s.at \in BeforeOut /\ t = Goto(x, "hup") /\ wants' = FALSE
      /\ issued' = issued /\ leaked' = leaked
  BY <1>1 DEF ReadError, Step, Keep, BeforeOut, Has
<1>4. /\ x \in StreamRecords /\ SameBooks(s, x)
      /\ x.fd = s.fd /\ x.connect = s.connect /\ x.shutdown = s.shutdown
      /\ x.reqs = s.reqs /\ x.fed = s.fed /\ x.events = s.events
      /\ x.flags = s.flags \ {"READING"}
      /\ "OUT" \in x.pevents <=> "OUT" \in s.pevents
      /\ s.pevents = {} => x.pevents = {}
  <2>1. CASE "READING" \in s.flags
    <3>1. x = StopReading(s)
      BY <2>1, <1>1
    <3>2. /\ x \in StreamRecords /\ SameBooks(s, x)
          /\ SameControl([s EXCEPT !.flags = s.flags \ {"READING"}], x)
          /\ x.fed = s.fed /\ x.pevents = s.pevents \ {"IN"}
      BY <3>1, <1>2, StopReadingFacts
    <3>3. /\ x.fd = s.fd /\ x.connect = s.connect /\ x.shutdown = s.shutdown
          /\ x.reqs = s.reqs /\ x.events = s.events /\ x.flags = s.flags \ {"READING"}
      BY <3>2, <1>2 DEF SameControl, StreamRecords
    <3> QED BY <3>2, <3>3
  <2>2. CASE "READING" \notin s.flags
    <3>1. x = s /\ s.flags = s.flags \ {"READING"}
      BY <2>2, <1>1, <1>2 DEF StreamRecords
    <3> QED BY <3>1, <1>2 DEF SameBooks
  <2> QED BY <2>1, <2>2
<1>5. Moved(x, t, "hup")
  BY <1>3, <1>4, GotoFacts DEF StreamPlaces
<1>6. /\ t \in StreamRecords /\ SameBooks(x, t) /\ t.at = "hup"
      /\ t.fd = x.fd /\ t.connect = x.connect /\ t.shutdown = x.shutdown /\ t.flags = x.flags
      /\ t.reqs = x.reqs /\ t.pevents = x.pevents /\ t.fed = x.fed /\ t.events = x.events
  BY <1>5 DEF Moved
<1>7. SameBooks(s, t)
  BY <1>4, <1>6 DEF SameBooks
<1>8. /\ \A f \in {"CLOSING", "SHUTTING", "SHUT", "CONNECTED"} : f \in t.flags <=> f \in s.flags
      /\ "READING" \notin t.flags
  BY <1>4, <1>6
<1>9. "CLOSING" \in s.flags => t.pevents = {}
  BY <1>2, <1>4, <1>6 DEF ClosingStands, Has
<1>10. ReadingStands(t, FALSE)
  BY <1>8 DEF ReadingStands, Has
<1>11. t.at \in BeforeOut
  BY <1>6 DEF BeforeOut
<1>12. /\ t.fd = s.fd /\ t.connect = s.connect /\ t.shutdown = s.shutdown
       /\ t.reqs = s.reqs /\ t.fed = s.fed /\ t.events = s.events
       /\ "OUT" \in t.pevents <=> "OUT" \in s.pevents
  BY <1>4, <1>6
<1> QED BY <1>1, <1>3, <1>6, <1>7, <1>8, <1>9, <1>10, <1>11, <1>12, BeforeOutStep

\* A step to a later place in which the stream keeps the flags the requests
\* depend on, and its watcher.
LEMMA LaterStep ==
    ASSUME StreamInv, stream.at \in BeforeOut, NEW x \in StreamRecords, SameBooks(stream, x),
           x.fd = stream.fd, x.connect = stream.connect, x.shutdown = stream.shutdown,
           x.reqs = stream.reqs, x.fed = stream.fed, x.pevents = stream.pevents,
           x.active = stream.active, "OUT" \in x.events <=> "OUT" \in stream.events,
           \A f \in {"CLOSING", "SHUTTING", "SHUT", "CONNECTED"} : f \in x.flags <=> f \in stream.flags,
           "READING" \in x.flags <=> "READING" \in stream.flags /\ stream.at # "eof",
           NEW where \in BeforeOut \ {"eof"}, NEW t, t = Goto(x, where),
           stream' = t, wants' = wants, issued' = issued, leaked' = leaked
    PROVE  StreamInv'
<1>1. PICK s, w : s = stream /\ w = wants
  OBVIOUS
<1>2. s \in StreamRecords /\ w \in BOOLEAN /\ ClosingStands(s, w) /\ ReadingStands(s, w)
  BY <1>1, StreamFacts
<1>3. where \in StreamPlaces /\ where \notin {"loop", "closed"}
  BY DEF StreamPlaces, BeforeOut
<1>4. Moved(x, t, where)
  BY <1>3, GotoFacts
<1>5. /\ t \in StreamRecords /\ SameBooks(x, t) /\ t.at = where
      /\ t.fd = x.fd /\ t.connect = x.connect /\ t.shutdown = x.shutdown /\ t.flags = x.flags
      /\ t.reqs = x.reqs /\ t.pevents = x.pevents /\ t.fed = x.fed /\ t.active = x.active
      /\ t.events = x.events
  BY <1>3, <1>4 DEF Moved
<1>6. SameBooks(s, t)
  BY <1>1, <1>5 DEF SameBooks
<1>7. /\ t.fd = s.fd /\ t.connect = s.connect /\ t.shutdown = s.shutdown
      /\ t.reqs = s.reqs /\ t.fed = s.fed /\ t.pevents = s.pevents /\ t.active = s.active
      /\ "OUT" \in t.events <=> "OUT" \in s.events
      /\ \A f \in {"CLOSING", "SHUTTING", "SHUT", "CONNECTED"} : f \in t.flags <=> f \in s.flags
      /\ "READING" \in t.flags <=> "READING" \in s.flags /\ s.at # "eof"
  BY <1>1, <1>5
<1>8. "CLOSING" \in s.flags => t.pevents = {} /\ "READING" \notin t.flags /\ ~w
  BY <1>2, <1>7 DEF ClosingStands, Has
<1>9. s.at \in BeforeOut /\ s.at # "abort"
  BY <1>1 DEF BeforeOut
<1>10. ReadingStands(t, w)
  BY <1>2, <1>5, <1>7, <1>9 DEF ReadingStands, Has
<1> QED BY <1>1, <1>2, <1>5, <1>6, <1>7, <1>8, <1>9, <1>10, BeforeOutStep

LEMMA ReadPartialStep == ASSUME StreamInv, ReadPartial PROVE StreamInv'
<1>1. PICK s, t, fl, x : /\ s = stream /\ t = stream' /\ fl = s.flags \cup {"PARTIAL"}
                         /\ x = [s EXCEPT !.flags = fl]
  OBVIOUS
<1>2. s \in StreamRecords
  BY <1>1, StreamFacts
<1>3. /\ s.at \in BeforeOut /\ s.at # "eof" /\ t = Goto(x, "hup")
      /\ wants' = wants /\ issued' = issued /\ leaked' = leaked
  BY <1>1 DEF ReadPartial, Step, Keep, BeforeOut, Set
<1>4. fl \in SUBSET StreamFlags
  BY <1>1, <1>2 DEF StreamRecords, StreamFlags
<1>5. /\ x \in StreamRecords /\ SameBooks(s, x)
      /\ x.fd = s.fd /\ x.connect = s.connect /\ x.shutdown = s.shutdown /\ x.reqs = s.reqs
      /\ x.fed = s.fed /\ x.pevents = s.pevents /\ x.active = s.active /\ x.events = s.events
      /\ x.flags = fl
  BY <1>1, <1>2, <1>4, ZenonT(60) DEF StreamRecords, SameBooks
<1>6. \A f \in {"CLOSING", "SHUTTING", "SHUT", "CONNECTED", "READING"} : f \in x.flags <=> f \in s.flags
  BY <1>1, <1>5
<1>7. "hup" \in BeforeOut \ {"eof"}
  BY DEF BeforeOut
<1> QED BY ZenonT(60), <1>1, <1>3, <1>5, <1>6, <1>7, LaterStep

LEMMA StreamEofStep == ASSUME StreamInv, uv__stream_eof PROVE StreamInv'
<1>1. PICK s, t, fl, ev, x : /\ s = stream /\ t = stream' /\ fl = s.flags \ {"READING"}
                             /\ ev = s.events \ {"HUP"}
                             /\ x = [s EXCEPT !.flags = fl, !.events = ev, !.count = 0]
  OBVIOUS
<1>2. s \in StreamRecords
  BY <1>1, StreamFacts
<1>3. /\ s.at \in BeforeOut /\ s.at = "eof" /\ t = Goto(x, "out")
      /\ wants' = wants /\ issued' = issued /\ leaked' = leaked
  BY <1>1 DEF uv__stream_eof, Step, Keep, BeforeOut, Clear
<1>4. fl \in SUBSET StreamFlags /\ ev \in SUBSET {"OUT", "HUP"} /\ 0 \in Int
  BY <1>1, <1>2 DEF StreamRecords
<1>5. /\ x \in StreamRecords /\ SameBooks(s, x)
      /\ x.fd = s.fd /\ x.connect = s.connect /\ x.shutdown = s.shutdown /\ x.reqs = s.reqs
      /\ x.fed = s.fed /\ x.pevents = s.pevents /\ x.active = s.active /\ x.events = ev
      /\ x.flags = fl
  BY <1>1, <1>2, <1>4, ZenonT(60) DEF StreamRecords, SameBooks
<1>6. /\ \A f \in {"CLOSING", "SHUTTING", "SHUT", "CONNECTED"} : f \in x.flags <=> f \in s.flags
      /\ "READING" \notin x.flags /\ ("OUT" \in x.events <=> "OUT" \in s.events)
  BY <1>1, <1>5
<1>7. "out" \in BeforeOut \ {"eof"}
  BY DEF BeforeOut
<1>8. "READING" \in x.flags <=> "READING" \in s.flags /\ s.at # "eof"
  BY <1>3, <1>6
<1>9. "OUT" \in x.events <=> "OUT" \in s.events
  BY <1>6
<1>10. \A f \in {"CLOSING", "SHUTTING", "SHUT", "CONNECTED"} : f \in x.flags <=> f \in s.flags
  BY <1>6
<1> QED BY ZenonT(60), <1>1, <1>3, <1>5, <1>7, <1>8, <1>9, <1>10, LaterStep

LEMMA HangUpStep == ASSUME StreamInv, HangUp PROVE StreamInv'
<1>1. PICK s, t, ev, x : /\ s = stream /\ t = stream' /\ ev = s.events \ {"HUP"}
                         /\ x = [s EXCEPT !.events = ev, !.count = 0]
  OBVIOUS
<1>2. s \in StreamRecords
  BY <1>1, StreamFacts
<1>3. s.at \in BeforeOut /\ s.at = "hup" /\ issued' = issued /\ leaked' = leaked
  BY <1>1 DEF HangUp, Step, Keep, BeforeOut
<1>4. \/ "READING" \in s.flags /\ t = AtEof(s) /\ wants' = FALSE
      \/ t = Goto(x, "out") /\ wants' = wants
  BY <1>1 DEF HangUp, Has
<1>5. CASE "READING" \in s.flags /\ t = AtEof(s) /\ wants' = FALSE
  <2>1. Moved(s, s, s.at)
    BY <1>2 DEF Moved, SameBooks
  <2> QED BY <2>1, <1>1, <1>3, <1>5, EofStep
<1>6. CASE t = Goto(x, "out") /\ wants' = wants
  <2>1. ev \in SUBSET {"OUT", "HUP"} /\ 0 \in Int
    BY <1>1, <1>2 DEF StreamRecords
  <2>2. /\ x \in StreamRecords /\ SameBooks(s, x)
        /\ x.fd = s.fd /\ x.connect = s.connect /\ x.shutdown = s.shutdown /\ x.reqs = s.reqs
        /\ x.fed = s.fed /\ x.pevents = s.pevents /\ x.active = s.active /\ x.events = ev
        /\ x.flags = s.flags
    BY <1>1, <1>2, <2>1, ZenonT(60) DEF StreamRecords, SameBooks
  <2>3. "OUT" \in x.events <=> "OUT" \in s.events
    BY <1>1, <2>2
  <2>4. "out" \in BeforeOut \ {"eof"}
    BY DEF BeforeOut
  <2> QED BY ZenonT(60), <1>1, <1>3, <1>6, <2>2, <2>3, <2>4, LaterStep
<1> QED BY <1>4, <1>5, <1>6

LEMMA WriteReadyStep == ASSUME StreamInv, WriteReady PROVE StreamInv'
<1>1. PICK s, t, w, q : s = stream /\ t = stream' /\ w = wants /\ q = issued
  OBVIOUS
<1>2. /\ s \in StreamRecords /\ w \in BOOLEAN /\ leaked \in Nat /\ q \in Seq(Writes) /\ q \in Seq(StreamReqs)
      /\ Len(q) \in Nat /\ Distinct(q) /\ BooksStand(s, q) /\ Counted(s, q, leaked)
      /\ ClosingStands(s, w) /\ ConnectStands(s) /\ RequestsStand(s) /\ ReadingStands(s, w)
  BY <1>1, StreamFacts
<1>3. /\ s.at = "out" /\ s.at \in BeforeOut /\ s.at # "eof"
      /\ wants' = w /\ issued' = q /\ leaked' = leaked
  BY <1>1 DEF WriteReady, Step, Keep, BeforeOut
<1>4. s.connect = "none" /\ ("CLOSING" \in s.flags \/ s.fd)
  BY <1>2, <1>3 DEF ConnectStands, Has
<1>5. \/ s.fd /\ \E x \in uv__write(s) : t = Goto(x, "callbacks")
      \/ (~s.fd \/ "OUT" \notin s.events) /\ t = Goto(s, "loop")
  BY <1>1 DEF WriteReady
<1>6. CASE s.fd /\ \E x \in uv__write(s) : t = Goto(x, "callbacks")
  <2>1. PICK x \in uv__write(s) : t = Goto(x, "callbacks")
    BY <1>6
  <2>2. WriteDone(s, x, q)
    BY <1>2, WriteFacts
  <2>3. /\ x \in StreamRecords /\ BooksStand(x, q)
        /\ s.wq = <<>> => x = s
        /\ s.wq # <<>> => "OUT" \in x.pevents \/ x.fed
        /\ "IN" \in s.pevents <=> "IN" \in x.pevents
        /\ "IN" \in s.pevents /\ s.active => x.active
        /\ x.fd = s.fd /\ x.connect = s.connect /\ x.shutdown = s.shutdown /\ x.flags = s.flags
        /\ x.reqs = s.reqs
    BY <2>2 DEF WriteDone, SameControl
  <2>4. Moved(x, t, "callbacks")
    BY <2>1, <2>3, GotoFacts DEF StreamPlaces
  <2>5. /\ t \in StreamRecords /\ SameBooks(x, t) /\ t.at = "callbacks"
        /\ t.fd = x.fd /\ t.connect = x.connect /\ t.shutdown = x.shutdown /\ t.flags = x.flags
        /\ t.reqs = x.reqs /\ t.pevents = x.pevents /\ t.fed = x.fed /\ t.active = x.active
    BY <2>4 DEF Moved
  <2>6. BooksStand(t, q)
    BY <2>3, <2>5, BooksStay
  <2>7. Counted(t, q, leaked)
    BY <1>2, <2>3, <2>5 DEF Counted
  <2>8. "CLOSING" \notin s.flags
    BY <1>2, <1>6 DEF ClosingStands, Has
  <2>9. ClosingStands(t, w)
    BY <2>3, <2>5, <2>8 DEF ClosingStands, Has
  <2>10. t.wq = x.wq /\ t.cq = x.cq
    BY <2>5 DEF SameBooks
  <2>11. "CONNECTED" \notin s.flags => t.wq = <<>> /\ t.cq = <<>>
    <3>1. "CONNECTED" \notin s.flags => s.wq = <<>> /\ s.cq = <<>>
      BY <1>2, <1>3, <1>4, <2>8 DEF ConnectStands, Has
    <3> QED BY <3>1, <2>3, <2>10
  <2>12. ConnectStands(t)
    BY <1>4, <1>6, <2>3, <2>5, <2>11 DEF ConnectStands, Has
  <2>13. t.wq # <<>> => "OUT" \in t.pevents \/ t.fed
    BY <2>3, <2>5, <2>10
  <2>14. RequestsStand(t)
    BY <1>2, <1>3, <2>3, <2>5, <2>13 DEF RequestsStand, EventComes, Has
  <2>15. ReadingStands(t, w)
    BY <1>2, <1>3, <2>3, <2>5, <2>8 DEF ReadingStands, Has
  <2> QED BY <1>1, <1>2, <1>3, <2>5, <2>6, <2>7, <2>9, <2>12, <2>14, <2>15, StreamNextFacts
<1>7. CASE (~s.fd \/ "OUT" \notin s.events) /\ t = Goto(s, "loop")
  <2>1. Moved(s, t, "loop")
    BY <1>2, <1>7, GotoFacts DEF StreamPlaces
  <2>2. /\ t \in StreamRecords /\ SameBooks(s, t) /\ t.at = "loop"
        /\ t.fd = s.fd /\ t.connect = s.connect /\ t.shutdown = s.shutdown /\ t.flags = s.flags
        /\ t.reqs = s.reqs /\ t.pevents = s.pevents /\ t.fed = s.fed /\ t.active = s.active
    BY <2>1 DEF Moved
  <2>3. ClosingStands(t, w)
    BY <1>2, <2>2 DEF ClosingStands, Has
  <2>4. ConnectStands(t)
    BY <1>2, <1>3, <1>4, <2>2 DEF ConnectStands, Has, SameBooks
  <2>5. RequestsStand(t)
    BY <1>2, <1>3, <1>4, <1>7, <2>2 DEF RequestsStand, EventComes, Has, SameBooks
  <2>6. ReadingStands(t, w)
    BY <1>2, <1>3, <2>2 DEF ReadingStands, Has
  <2>7. s.reqs \in Int
    BY <1>2 DEF StreamRecords
  <2>8. t.reqs - s.reqs = (IF t.shutdown # "none" THEN 1 ELSE 0) + (IF t.connect # "none" THEN 1 ELSE 0)
                          - (IF s.shutdown # "none" THEN 1 ELSE 0) - (IF s.connect # "none" THEN 1 ELSE 0)
    BY <2>2, <2>7
  <2> QED BY <1>1, <1>2, <1>3, <2>2, <2>3, <2>4, <2>5, <2>6, <2>8, QuietStep
<1> QED BY <1>5, <1>6, <1>7

\* One turn of uv__write_callbacks takes the oldest write.
LEMMA PopFacts ==
    ASSUME NEW s \in StreamRecords, NEW q \in Seq(StreamReqs), Distinct(q), BooksStand(s, q),
           s.cq # <<>>
    PROVE  /\ PopCompleted(s) \in StreamRecords /\ BooksStand(PopCompleted(s), Tail(q))
           /\ q # <<>> /\ Head(q) = Head(s.cq)
           /\ PopCompleted(s).wq = s.wq /\ PopCompleted(s).reqs = s.reqs - 1
           /\ PopCompleted(s).fd = s.fd /\ PopCompleted(s).connect = s.connect
           /\ PopCompleted(s).shutdown = s.shutdown /\ PopCompleted(s).flags = s.flags
           /\ PopCompleted(s).pevents = s.pevents /\ PopCompleted(s).fed = s.fed
           /\ PopCompleted(s).active = s.active /\ PopCompleted(s).at = s.at
           /\ PopCompleted(s).events = s.events /\ PopCompleted(s).failed = s.failed
<1>1. PICK a, b, r, c, t : a = s.cq /\ b = s.wq /\ r = Head(a) /\ c = Tail(a) /\ t = PopCompleted(s)
  OBVIOUS
<1>2. /\ a \in Seq(StreamReqs) /\ b \in Seq(StreamReqs) /\ s.size \in Int /\ s.reqs \in Int
      /\ s.left \in [StreamReqs -> Nat] /\ s.bufs \in [StreamReqs -> BOOLEAN] /\ a # <<>>
  BY <1>1 DEF StreamRecords
<1>3. /\ a \o b = q /\ s.size = SumOver(Unwritten(s), q) /\ \A x \in ToSet(b) : s.bufs[x]
  BY <1>1 DEF BooksStand
<1>4. r \in StreamReqs /\ c \in Seq(StreamReqs)
  BY <1>1, <1>2, TailFacts
<1>5. q # <<>> /\ Head(q) = r /\ Tail(q) = c \o b
  <2>1. a \o b # <<>> /\ Head(a \o b) = Head(a) /\ Tail(a \o b) = Tail(a) \o b
    BY <1>2, ConcatHead
  <2> QED BY <2>1, <1>1, <1>3
<1>6. PICK p : p = Tail(q)
  OBVIOUS
<1>7. /\ p \in Seq(StreamReqs) /\ r \notin ToSet(p) /\ ToSet(p) \subseteq ToSet(q)
      /\ ToSet(q) \subseteq StreamReqs
  <2>1. p \in Seq(StreamReqs) /\ Head(q) \notin ToSet(p) /\ ToSet(p) \subseteq ToSet(q)
    BY <1>5, <1>6, TailFacts
  <2>2. ToSet(q) \subseteq StreamReqs
    BY BooksParts
  <2> QED BY <2>1, <2>2, <1>5
<1>8. PICK size, left, bufs :
         /\ size = IF s.bufs[r] THEN s.size - s.left[r] ELSE s.size
         /\ left = [s.left EXCEPT ![r] = 0] /\ bufs = [s.bufs EXCEPT ![r] = FALSE]
  OBVIOUS
<1>9. /\ size \in Int
      /\ left \in [StreamReqs -> Nat] /\ left[r] = 0 /\ \A x \in StreamReqs \ {r} : left[x] = s.left[x]
  BY <1>2, <1>4, <1>8
<1>10. bufs \in [StreamReqs -> BOOLEAN] /\ \A x \in StreamReqs \ {r} : bufs[x] = s.bufs[x]
  BY <1>2, <1>4, <1>8
<1>11. t = [s EXCEPT !.cq = c, !.reqs = s.reqs - 1, !.cb = TRUE, !.size = size, !.bufs = bufs, !.left = left]
  BY <1>1, <1>8 DEF PopCompleted, StreamRecords
<1>12. /\ t \in StreamRecords /\ t.cq = c /\ t.wq = b /\ t.size = size /\ t.bufs = bufs /\ t.left = left
       /\ t.reqs = s.reqs - 1 /\ t.fd = s.fd /\ t.connect = s.connect
       /\ t.shutdown = s.shutdown /\ t.flags = s.flags /\ t.pevents = s.pevents /\ t.fed = s.fed
       /\ t.active = s.active /\ t.at = s.at /\ t.events = s.events /\ t.failed = s.failed
  <2>1. s.reqs - 1 \in Int /\ TRUE \in BOOLEAN
    BY <1>2
  <2>2. t \in StreamRecords
    BY <2>1, <1>4, <1>9, <1>10, <1>11 DEF StreamRecords
  <2>3. /\ t.cq = c /\ t.wq = b /\ t.size = size /\ t.bufs = bufs /\ t.left = left
        /\ t.reqs = s.reqs - 1 /\ t.fd = s.fd /\ t.connect = s.connect
        /\ t.shutdown = s.shutdown /\ t.flags = s.flags /\ t.pevents = s.pevents /\ t.fed = s.fed
        /\ t.active = s.active /\ t.at = s.at /\ t.events = s.events /\ t.failed = s.failed
    BY <1>1, <1>11 DEF StreamRecords
  <2> QED BY <2>2, <2>3
<1>13. BooksStand(t, p)
  <2>1. PICK f, g : f = Unwritten(s) /\ g = Unwritten(t)
    OBVIOUS
  <2>2. f \in [StreamReqs -> Int] /\ g \in [StreamReqs -> Int]
    BY <2>1, <1>12, UnwrittenType
  <2>3. \A x \in StreamReqs : /\ f[x] = IF s.bufs[x] THEN s.left[x] ELSE 0
                              /\ g[x] = IF bufs[x] THEN left[x] ELSE 0
    BY <2>1, <1>12 DEF Unwritten, StreamReqs
  <2>4. \A y \in ToSet(p) : g[y] = f[y]
    BY <2>3, <1>7, <1>9, <1>10
  <2>5. SumOver(g, p) = SumOver(f, p)
    BY <2>2, <2>4, <1>7, SumSame
  <2>6. SumOver(f, q) = SumOver(f, p) + f[r]
    BY <2>2, <1>5, <1>6, SumTail
  <2>7. SumOver(f, p) \in Int
    BY <2>2, <1>4, <1>7, SumAppend
  <2>8. f[r] = IF s.bufs[r] THEN s.left[r] ELSE 0
    BY <2>3, <1>4
  <2>9. s.left[r] \in Int /\ s.bufs[r] \in BOOLEAN
    BY <1>2, <1>4
  <2>10. size = SumOver(f, p)
    <3>0. PICK m : m = SumOver(f, p)
      OBVIOUS
    <3>a. m \in Int /\ s.size = m + f[r]
      BY <3>0, <2>1, <2>6, <2>7, <1>3
    <3>1. CASE s.bufs[r]
      <4>1. f[r] = s.left[r] /\ size = s.size - s.left[r]
        BY <3>1, <2>8, <1>8
      <4>2. size = m
        BY <4>1, <3>a, <2>9
      <4> QED BY <4>2, <3>0
    <3>2. CASE ~s.bufs[r]
      <4>1. f[r] = 0 /\ size = s.size
        BY <3>2, <2>8, <1>8
      <4>2. size = m
        BY <4>1, <3>a
      <4> QED BY <4>2, <3>0
    <3> QED BY <3>1, <3>2
  <2>11. \A x \in ToSet(b) : bufs[x]
    <3>1. ToSet(b) \subseteq StreamReqs /\ r \notin ToSet(b)
      <4>1. ToSet(c \o b) = ToSet(c) \cup ToSet(b)
        BY <1>2, <1>4, ConcatFacts
      <4> QED BY <4>1, <1>5, <1>6, <1>7
    <3> QED BY <3>1, <1>3, <1>10
  <2> QED BY <2>1, <2>5, <2>10, <2>11, <1>5, <1>6, <1>12 DEF BooksStand
<1> QED BY <1>1, <1>5, <1>6, <1>12, <1>13

LEMMA WriteCallbacksStep == ASSUME StreamInv, uv__write_callbacks PROVE StreamInv'
<1>1. PICK s, t, w, q, p : s = stream /\ t = stream' /\ w = wants /\ q = issued /\ p = Tail(q)
  OBVIOUS
<1>2. /\ s \in StreamRecords /\ w \in BOOLEAN /\ leaked \in Nat /\ q \in Seq(Writes) /\ q \in Seq(StreamReqs)
      /\ Len(q) \in Nat /\ Distinct(q) /\ BooksStand(s, q) /\ Counted(s, q, leaked)
      /\ ClosingStands(s, w) /\ ConnectStands(s) /\ RequestsStand(s) /\ ReadingStands(s, w)
  BY <1>1, StreamFacts
<1>3. /\ s.at \in {"callbacks", "flushed", "destroy"} /\ s.cq # <<>> /\ t = PopCompleted(s)
      /\ issued' = Unlink(q, Head(s.cq)) /\ wants' = w /\ leaked' = leaked
  BY <1>1 DEF uv__write_callbacks, Keep
<1>4. /\ t \in StreamRecords /\ BooksStand(t, p) /\ q # <<>> /\ Head(q) = Head(s.cq)
      /\ t.wq = s.wq /\ t.reqs = s.reqs - 1 /\ t.fd = s.fd /\ t.connect = s.connect
      /\ t.shutdown = s.shutdown /\ t.flags = s.flags /\ t.pevents = s.pevents /\ t.fed = s.fed
      /\ t.active = s.active /\ t.at = s.at /\ t.events = s.events /\ t.failed = s.failed
  BY <1>1, <1>2, <1>3, PopFacts
<1>5. issued' = p
  BY <1>1, <1>2, <1>3, <1>4, UnlinkHead
<1>6. p \in Seq(Writes) /\ Distinct(p) /\ Len(p) = Len(q) - 1
  BY <1>1, <1>2, <1>4, TailFacts, HeadTailProperties
<1>7. Counted(t, p, leaked)
  <2>1. s.reqs \in Int
    BY <1>2 DEF StreamRecords
  <2> QED BY <2>1, <1>2, <1>4, <1>6 DEF Counted
<1>8. ClosingStands(t, w)
  BY <1>2, <1>3, <1>4 DEF ClosingStands, Has
<1>9. "CLOSING" \notin s.flags => s.fd /\ ("CONNECTED" \notin s.flags => s.at = "flushed")
  BY <1>2, <1>3 DEF ConnectStands, Has
<1>10. ConnectStands(t)
  BY <1>2, <1>3, <1>4, <1>9 DEF ConnectStands, Has
<1>11. RequestsStand(t)
  <2>1. "CLOSING" \notin s.flags => s.at \in {"callbacks", "flushed"}
    BY <1>2, <1>3 DEF ClosingStands, Has
  <2> QED BY <2>1, <1>2, <1>3, <1>4 DEF RequestsStand, EventComes, Has
<1>12. ReadingStands(t, w)
  BY <1>2, <1>4 DEF ReadingStands, Has
<1> QED BY <1>1, <1>2, <1>3, <1>4, <1>5, <1>6, <1>7, <1>8, <1>10, <1>11, <1>12, StreamNextFacts

LEMMA DrainStep == ASSUME StreamInv, uv__drain PROVE StreamInv'
<1>1. PICK s, t, w, ev, x : /\ s = stream /\ t = stream' /\ w = wants /\ ev = s.pevents \ {"OUT"}
                            /\ x = [s EXCEPT !.pevents = ev]
  OBVIOUS
<1>2. /\ s \in StreamRecords /\ w \in BOOLEAN
      /\ ClosingStands(s, w) /\ ConnectStands(s) /\ RequestsStand(s) /\ ReadingStands(s, w)
  BY <1>1, StreamFacts
<1>3. /\ s.at = "callbacks" /\ s.cq = <<>> /\ wants' = w /\ issued' = issued /\ leaked' = leaked
  BY <1>1 DEF uv__drain, Step, Keep
<1>4. PICK fl, y, z : /\ fl = s.flags \ {"SHUTTING"}
                      /\ y = [x EXCEPT !.flags = fl, !.shutdown = "none", !.reqs = s.reqs - 1]
                      /\ z = [x EXCEPT !.flags = fl \cup {"SHUT"}, !.shutdown = "none", !.reqs = s.reqs - 1]
  OBVIOUS
<1>5. /\ ev \in SUBSET {"IN", "OUT"} /\ ("IN" \in ev <=> "IN" \in s.pevents) /\ (s.pevents = {} => ev = {})
      /\ fl \in SUBSET StreamFlags /\ fl \cup {"SHUT"} \in SUBSET StreamFlags
      /\ s.reqs - 1 \in Int /\ s.reqs \in Int /\ "none" \in {"none", "pending", "early"}
  BY <1>1, <1>2, <1>4 DEF StreamRecords, StreamFlags
<1>6. /\ x \in StreamRecords /\ SameBooks(s, x) /\ x.reqs = s.reqs /\ x.fd = s.fd
      /\ x.connect = s.connect /\ x.shutdown = s.shutdown /\ x.flags = s.flags
      /\ x.pevents = ev /\ x.fed = s.fed /\ x.active = s.active
  BY <1>1, <1>2, <1>5, ZenonT(60) DEF StreamRecords, SameBooks
<1>7. \/ s.wq # <<>> /\ t = Goto(s, "loop")
      \/ s.wq = <<>> /\ "SHUTTING" \in s.flags /\ "CLOSING" \notin s.flags
         /\ (t = Call(y, "loop") \/ t = Call(z, "loop"))
      \/ s.wq = <<>> /\ ("SHUTTING" \notin s.flags \/ "CLOSING" \in s.flags) /\ t = Goto(x, "loop")
  <2>1. "SHUTTING" \in s.flags => "SHUT" \notin s.flags
    BY <1>2 DEF RequestsStand, Has
  <2>2. /\ x = io_stop(s, {"OUT"})
        /\ y = [Clear(x, "SHUTTING") EXCEPT !.shutdown = "none", !.reqs = @ - 1]
        /\ z = Set(y, "SHUT")
    <3>1. x = io_stop(s, {"OUT"})
      BY <1>1 DEF io_stop
    <3>2. y = [Clear(x, "SHUTTING") EXCEPT !.shutdown = "none", !.reqs = @ - 1]
      BY <1>4, <1>6 DEF Clear, StreamRecords
    <3>3. z = Set(y, "SHUT")
      BY <1>4, <1>6 DEF Set, StreamRecords
    <3> QED BY <3>1, <3>2, <3>3
  <2>3. LET s1 == x
            t1 == y
        IN  IF s.wq # <<>> THEN t = Goto(s, "loop")
            ELSE IF "SHUTTING" \in s1.flags /\ "CLOSING" \notin s1.flags /\ "SHUT" \notin s1.flags
            THEN t = Call(Set(t1, "SHUT"), "loop") \/ t = Call(t1, "loop")
            ELSE t = Goto(s1, "loop")
    BY <1>1, <2>2, Zenon DEF uv__drain, Has
  <2> QED BY <2>1, <2>2, <2>3, <1>6
<1>8. s.connect = "none" /\ ("CLOSING" \in s.flags \/ s.fd)
  BY <1>2, <1>3 DEF ConnectStands, Has
<1>9. \E u \in StreamRecords :
        /\ SameBooks(s, u) /\ u.fd = s.fd /\ u.connect = s.connect
        /\ u.fed = s.fed /\ u.active = s.active
        /\ \A f \in {"CLOSING", "READING", "CONNECTED"} : f \in u.flags <=> f \in s.flags
        /\ \/ s.wq # <<>> /\ u = s
           \/ s.wq = <<>> /\ u.pevents = ev
        /\ \/ u.shutdown = s.shutdown /\ u.reqs = s.reqs /\ u.flags = s.flags
              /\ (s.wq # <<>> \/ "SHUTTING" \notin s.flags \/ "CLOSING" \in s.flags)
           \/ u.shutdown = "none" /\ u.reqs = s.reqs - 1 /\ "SHUTTING" \notin u.flags
              /\ "SHUTTING" \in s.flags
        /\ Moved(u, t, "loop")
  <2>1. CASE s.wq # <<>> /\ t = Goto(s, "loop")
    <3>1. Moved(s, t, "loop")
      BY <1>2, <2>1, GotoFacts DEF StreamPlaces
    <3> QED BY <3>1, <2>1, <1>2 DEF SameBooks
  <2>2. ASSUME s.wq = <<>>, "SHUTTING" \in s.flags, NEW u, NEW g \in SUBSET StreamFlags,
               g = fl \/ g = fl \cup {"SHUT"},
               u = [x EXCEPT !.flags = g, !.shutdown = "none", !.reqs = s.reqs - 1], t = Call(u, "loop")
        PROVE  /\ u \in StreamRecords /\ SameBooks(s, u) /\ u.fd = s.fd /\ u.connect = s.connect
               /\ u.fed = s.fed /\ u.active = s.active
               /\ \A f \in {"CLOSING", "READING", "CONNECTED"} : f \in u.flags <=> f \in s.flags
               /\ u.pevents = ev
               /\ u.shutdown = "none" /\ u.reqs = s.reqs - 1 /\ "SHUTTING" \notin u.flags
               /\ Moved(u, t, "loop")
    <3>1. /\ u \in StreamRecords /\ SameBooks(x, u) /\ u.fd = x.fd /\ u.connect = x.connect
          /\ u.fed = x.fed /\ u.active = x.active /\ u.flags = g /\ u.pevents = x.pevents
          /\ u.shutdown = "none" /\ u.reqs = s.reqs - 1
      BY <2>2, <1>5, <1>6 DEF StreamRecords, SameBooks
    <3>2. Moved(u, t, "loop")
      BY <2>2, <3>1, GotoFacts DEF StreamPlaces
    <3>3. /\ \A f \in {"CLOSING", "READING", "CONNECTED"} : f \in u.flags <=> f \in s.flags
          /\ "SHUTTING" \notin u.flags
      BY <2>2, <3>1, <1>4
    <3>4. SameBooks(s, u)
      BY <3>1, <1>6 DEF SameBooks
    <3> QED BY <3>1, <3>2, <3>3, <3>4, <1>6
  <2>3. CASE s.wq = <<>> /\ "SHUTTING" \in s.flags /\ (t = Call(y, "loop") \/ t = Call(z, "loop"))
    <3>1. CASE t = Call(y, "loop")
      BY <3>1, <2>3, <2>2, <1>4, <1>5
    <3>2. CASE t = Call(z, "loop")
      BY <3>2, <2>3, <2>2, <1>4, <1>5
    <3> QED BY <2>3, <3>1, <3>2
  <2>4. CASE s.wq = <<>> /\ ("SHUTTING" \notin s.flags \/ "CLOSING" \in s.flags) /\ t = Goto(x, "loop")
    <3>1. Moved(x, t, "loop")
      BY <1>6, <2>4, GotoFacts DEF StreamPlaces
    <3> QED BY <3>1, <2>4, <1>6
  <2> QED BY <1>7, <2>1, <2>3, <2>4
<1>10. PICK u \in StreamRecords :
        /\ SameBooks(s, u) /\ u.fd = s.fd /\ u.connect = s.connect
        /\ u.fed = s.fed /\ u.active = s.active
        /\ \A f \in {"CLOSING", "READING", "CONNECTED"} : f \in u.flags <=> f \in s.flags
        /\ \/ s.wq # <<>> /\ u = s
           \/ s.wq = <<>> /\ u.pevents = ev
        /\ \/ u.shutdown = s.shutdown /\ u.reqs = s.reqs /\ u.flags = s.flags
              /\ (s.wq # <<>> \/ "SHUTTING" \notin s.flags \/ "CLOSING" \in s.flags)
           \/ u.shutdown = "none" /\ u.reqs = s.reqs - 1 /\ "SHUTTING" \notin u.flags
              /\ "SHUTTING" \in s.flags
        /\ Moved(u, t, "loop")
  BY <1>9
<1>11. /\ t \in StreamRecords /\ SameBooks(u, t) /\ t.at = "loop"
       /\ t.fd = u.fd /\ t.connect = u.connect /\ t.shutdown = u.shutdown /\ t.flags = u.flags
       /\ t.reqs = u.reqs /\ t.pevents = u.pevents /\ t.fed = u.fed /\ t.active = u.active
  BY <1>10 DEF Moved
<1>12. SameBooks(s, t)
  BY <1>10, <1>11 DEF SameBooks
<1>13. t.wq = s.wq /\ t.cq = s.cq
  BY <1>12 DEF SameBooks
<1>14. ("IN" \in t.pevents <=> "IN" \in s.pevents) /\ (s.pevents = {} => t.pevents = {})
  BY <1>5, <1>10, <1>11
<1>15. ClosingStands(t, w)
  BY <1>2, <1>10, <1>11, <1>14 DEF ClosingStands, Has
<1>16. ConnectStands(t)
  BY <1>2, <1>3, <1>8, <1>10, <1>11, <1>13 DEF ConnectStands, Has
<1>17. RequestsStand(t)
  BY <1>2, <1>3, <1>10, <1>11, <1>13 DEF RequestsStand, EventComes, Has, BeforeOut
<1>18. ReadingStands(t, w)
  BY <1>2, <1>3, <1>10, <1>11, <1>14 DEF ReadingStands, Has
<1>19. "SHUTTING" \in s.flags => s.shutdown # "none"
  BY <1>2, <1>3 DEF RequestsStand, Has
<1>20. t.reqs - s.reqs = (IF t.shutdown # "none" THEN 1 ELSE 0) + (IF t.connect # "none" THEN 1 ELSE 0)
                         - (IF s.shutdown # "none" THEN 1 ELSE 0) - (IF s.connect # "none" THEN 1 ELSE 0)
  BY <1>5, <1>8, <1>10, <1>11, <1>19
<1> QED BY <1>1, <1>2, <1>3, <1>11, <1>12, <1>15, <1>16, <1>17, <1>18, <1>20, QuietStep

\* uv__stream_flush_write_queue: what was queued is completed, in its order.
LEMMA FlushFacts ==
    ASSUME NEW s \in StreamRecords, NEW q \in Seq(StreamReqs), BooksStand(s, q),
           NEW t, t = uv__stream_flush_write_queue(s)
    PROVE  /\ t \in StreamRecords /\ BooksStand(t, q) /\ SameControl(s, t) /\ t.wq = <<>>
           /\ t.pevents = s.pevents /\ t.fed = s.fed /\ t.active = s.active
<1>1. PICK a, b, e : a = s.cq /\ b = s.wq /\ e = <<>>
  OBVIOUS
<1>2. a \in Seq(StreamReqs) /\ b \in Seq(StreamReqs) /\ e \in Seq(StreamReqs) /\ a \o b = q
  BY <1>1, EmptySeq DEF StreamRecords, BooksStand
<1>3. t = [s EXCEPT !.cq = q, !.wq = e]
  BY <1>1, <1>2 DEF uv__stream_flush_write_queue
<1>4. /\ t \in StreamRecords /\ SameControl(s, t) /\ t.wq = e /\ t.cq = q /\ t.size = s.size
      /\ t.left = s.left /\ t.bufs = s.bufs
      /\ t.pevents = s.pevents /\ t.fed = s.fed /\ t.active = s.active
  BY <1>2, <1>3, ZenonT(60) DEF StreamRecords, SameControl
<1>5. Unwritten(t) = Unwritten(s)
  BY <1>4 DEF Unwritten
<1>6. q \o <<>> = q
  BY ConcatEmptySeq
<1>7. ToSet(<<>>) = {}
  BY EmptySeq DEF ToSet
<1>8. BooksStand(t, q)
  BY <1>1, <1>4, <1>5, <1>6, <1>7 DEF BooksStand
<1> QED BY <1>1, <1>4, <1>8

LEMMA ConnectedStep == ASSUME StreamInv, Connected PROVE StreamInv'
<1>1. PICK s, t, w, q : s = stream /\ t = stream' /\ w = wants /\ q = issued
  OBVIOUS
<1>2. /\ s \in StreamRecords /\ w \in BOOLEAN /\ leaked \in Nat /\ q \in Seq(Writes) /\ q \in Seq(StreamReqs)
      /\ Len(q) \in Nat /\ Distinct(q) /\ BooksStand(s, q) /\ Counted(s, q, leaked)
      /\ ClosingStands(s, w) /\ ConnectStands(s) /\ RequestsStand(s) /\ ReadingStands(s, w)
  BY <1>1, StreamFacts
<1>3. s.at = "connected" /\ wants' = w /\ issued' = q /\ leaked' = leaked
  BY <1>1 DEF Connected, Step, Keep
<1>4. \/ s.fd /\ s.failed /\ t = Goto(uv__stream_flush_write_queue(s), "flushed")
      \/ (~s.fd \/ ~s.failed) /\ t = Goto(s, "loop")
  BY <1>1 DEF Connected
<1>5. CASE s.fd /\ s.failed /\ t = Goto(uv__stream_flush_write_queue(s), "flushed")
  <2>1. PICK x : x = uv__stream_flush_write_queue(s)
    OBVIOUS
  <2>2. /\ x \in StreamRecords /\ BooksStand(x, q) /\ SameControl(s, x) /\ x.wq = <<>>
        /\ x.pevents = s.pevents /\ x.fed = s.fed /\ x.active = s.active
    BY <2>1, <1>2, FlushFacts
  <2>3. Moved(x, t, "flushed")
    BY <2>1, <2>2, <1>5, GotoFacts DEF StreamPlaces
  <2>4. /\ t \in StreamRecords /\ SameBooks(x, t) /\ t.at = "flushed"
        /\ t.fd = x.fd /\ t.connect = x.connect /\ t.shutdown = x.shutdown /\ t.flags = x.flags
        /\ t.reqs = x.reqs /\ t.pevents = x.pevents /\ t.fed = x.fed /\ t.active = x.active
    BY <2>3 DEF Moved
  <2>5. /\ t.fd = s.fd /\ t.connect = s.connect /\ t.shutdown = s.shutdown /\ t.flags = s.flags
        /\ t.reqs = s.reqs /\ t.pevents = s.pevents /\ t.fed = s.fed /\ t.active = s.active
        /\ t.wq = <<>>
    BY <2>2, <2>4 DEF SameControl, SameBooks
  <2>6. BooksStand(t, q)
    BY <2>2, <2>4, BooksStay
  <2>7. Counted(t, q, leaked)
    BY <1>2, <2>5 DEF Counted
  <2>8. ClosingStands(t, w)
    BY <1>2, <2>4, <2>5 DEF ClosingStands, Has
  <2>9. ConnectStands(t)
    BY <1>2, <1>5, <2>4, <2>5 DEF ConnectStands, Has, BeforeOut
  <2>10. RequestsStand(t)
    BY <1>2, <1>3, <2>4, <2>5 DEF RequestsStand, EventComes, Has, BeforeOut
  <2>11. ReadingStands(t, w)
    BY <1>2, <1>3, <2>4, <2>5 DEF ReadingStands, Has
  <2> QED BY <1>1, <1>2, <1>3, <2>4, <2>6, <2>7, <2>8, <2>9, <2>10, <2>11, StreamNextFacts
<1>6. CASE (~s.fd \/ ~s.failed) /\ t = Goto(s, "loop")
  <2>1. Moved(s, t, "loop")
    BY <1>2, <1>6, GotoFacts DEF StreamPlaces
  <2>2. /\ t \in StreamRecords /\ SameBooks(s, t) /\ t.at = "loop"
        /\ t.fd = s.fd /\ t.connect = s.connect /\ t.shutdown = s.shutdown /\ t.flags = s.flags
        /\ t.reqs = s.reqs /\ t.pevents = s.pevents /\ t.fed = s.fed /\ t.active = s.active
    BY <2>1 DEF Moved
  <2>3. ClosingStands(t, w)
    BY <1>2, <2>2 DEF ClosingStands, Has
  <2>4. t.wq = s.wq /\ t.cq = s.cq
    BY <2>2 DEF SameBooks
  <2>5. \/ "CLOSING" \in s.flags
        \/ ~s.fd /\ s.wq = <<>> /\ s.cq = <<>> /\ s.shutdown = "none"
        \/ ~s.failed /\ "CONNECTED" \in s.flags
    BY <1>2, <1>3, <1>6 DEF ConnectStands, Has
  <2>6. ConnectStands(t)
    BY <1>2, <1>3, <2>2, <2>4, <2>5 DEF ConnectStands, Has, BeforeOut
  <2>7. RequestsStand(t)
    BY <1>2, <1>3, <2>2, <2>4, <2>5 DEF RequestsStand, EventComes, Has, BeforeOut
  <2>8. ReadingStands(t, w)
    BY <1>2, <1>3, <2>2 DEF ReadingStands, Has
  <2>9. s.reqs \in Int
    BY <1>2 DEF StreamRecords
  <2>10. t.reqs - s.reqs = (IF t.shutdown # "none" THEN 1 ELSE 0) + (IF t.connect # "none" THEN 1 ELSE 0)
                           - (IF s.shutdown # "none" THEN 1 ELSE 0) - (IF s.connect # "none" THEN 1 ELSE 0)
    BY <2>2, <2>9
  <2> QED BY <1>1, <1>2, <1>3, <2>2, <2>3, <2>6, <2>7, <2>8, <2>10, QuietStep
<1> QED BY <1>4, <1>5, <1>6

LEMMA FlushedStep == ASSUME StreamInv, Flushed PROVE StreamInv'
<1>1. PICK s, t, w : s = stream /\ t = stream' /\ w = wants
  OBVIOUS
<1>2. /\ s \in StreamRecords /\ w \in BOOLEAN
      /\ ClosingStands(s, w) /\ ConnectStands(s) /\ RequestsStand(s) /\ ReadingStands(s, w)
  BY <1>1, StreamFacts
<1>3. /\ s.at = "flushed" /\ s.cq = <<>> /\ t = Goto(s, "loop")
      /\ wants' = w /\ issued' = issued /\ leaked' = leaked
  BY <1>1 DEF Flushed, Step, Keep
<1>4. Moved(s, t, "loop")
  BY <1>2, <1>3, GotoFacts DEF StreamPlaces
<1>5. /\ t \in StreamRecords /\ SameBooks(s, t) /\ t.at = "loop"
      /\ t.fd = s.fd /\ t.connect = s.connect /\ t.shutdown = s.shutdown /\ t.flags = s.flags
      /\ t.reqs = s.reqs /\ t.pevents = s.pevents /\ t.fed = s.fed /\ t.active = s.active
      /\ s.reqs \in Int
  BY <1>2, <1>4 DEF Moved, StreamRecords
<1>6. t.wq = s.wq /\ t.cq = s.cq
  BY <1>5 DEF SameBooks
<1>7. ClosingStands(t, w)
  BY <1>2, <1>5 DEF ClosingStands, Has
<1>8. ConnectStands(t)
  BY <1>2, <1>3, <1>5, <1>6 DEF ConnectStands, Has, BeforeOut
<1>9. RequestsStand(t)
  BY <1>2, <1>3, <1>5, <1>6 DEF RequestsStand, EventComes, Has, BeforeOut
<1>10. ReadingStands(t, w)
  BY <1>2, <1>3, <1>5 DEF ReadingStands, Has
<1>11. t.reqs - s.reqs = (IF t.shutdown # "none" THEN 1 ELSE 0) + (IF t.connect # "none" THEN 1 ELSE 0)
                         - (IF s.shutdown # "none" THEN 1 ELSE 0) - (IF s.connect # "none" THEN 1 ELSE 0)
  BY <1>5
<1> QED BY <1>1, <1>2, <1>3, <1>5, <1>7, <1>8, <1>9, <1>10, <1>11, QuietStep

LEMMA DestroyStep == ASSUME StreamInv, uv__stream_destroy PROVE StreamInv'
<1>1. PICK s, t, w, q, fl, x, y, z :
         /\ s = stream /\ t = stream' /\ w = wants /\ q = issued /\ fl = s.flags \cup {"CLOSED"}
         /\ x = [s EXCEPT !.flags = fl] /\ y = uv__stream_flush_write_queue(x)
         /\ z = IF y.connect = "none" THEN y ELSE [y EXCEPT !.connect = "none", !.reqs = y.reqs - 1]
  OBVIOUS
<1>2. /\ s \in StreamRecords /\ w \in BOOLEAN /\ leaked \in Nat /\ q \in Seq(Writes) /\ q \in Seq(StreamReqs)
      /\ Len(q) \in Nat /\ Distinct(q) /\ BooksStand(s, q) /\ Counted(s, q, leaked)
      /\ ClosingStands(s, w) /\ ConnectStands(s) /\ RequestsStand(s)
  BY <1>1, StreamFacts
<1>3. /\ s.at = "loop" /\ "CLOSING" \in s.flags /\ wants' = w /\ issued' = q /\ leaked' = leaked
      /\ t = Goto(z, "destroy") \/ t = Call(z, "destroy")
  BY <1>1 DEF uv__stream_destroy, Step, IsClosing, Has, Keep, Set
<1>4. fl \in SUBSET StreamFlags
  BY <1>1, <1>2 DEF StreamRecords, StreamFlags
<1>5. /\ x \in StreamRecords /\ SameBooks(s, x) /\ x.fd = s.fd /\ x.connect = s.connect
      /\ x.shutdown = s.shutdown /\ x.flags = fl /\ x.reqs = s.reqs /\ x.pevents = s.pevents /\ x.fed = s.fed
  BY <1>1, <1>2, <1>4, ZenonT(60) DEF StreamRecords, SameBooks
<1>6. BooksStand(x, q)
  BY <1>2, <1>5, BooksStay
<1>7. /\ y \in StreamRecords /\ BooksStand(y, q) /\ SameControl(x, y) /\ y.wq = <<>>
      /\ y.pevents = x.pevents /\ y.fed = x.fed
  <2>1. y = uv__stream_flush_write_queue(x)
    BY <1>1
  <2>2. x \in StreamRecords /\ q \in Seq(StreamReqs)
    BY <1>2, <1>5
  <2> QED BY <2>1, <2>2, <1>6, FlushFacts
<1>8. /\ y.fd = x.fd /\ y.connect = x.connect /\ y.shutdown = x.shutdown /\ y.flags = x.flags
      /\ y.reqs = x.reqs
  BY <1>7 DEF SameControl
<1>9. /\ z \in StreamRecords /\ SameBooks(y, z) /\ z.fd = y.fd /\ z.connect = "none"
      /\ z.shutdown = y.shutdown /\ z.flags = y.flags /\ z.pevents = y.pevents /\ z.fed = y.fed
      /\ z.reqs = y.reqs - (IF y.connect # "none" THEN 1 ELSE 0)
  <2>1. y.reqs \in Int /\ y.reqs - 1 \in Int /\ "none" \in {"none", "pending", "refused"}
    BY <1>7 DEF StreamRecords
  <2>2. CASE y.connect = "none"
    BY <2>1, <2>2, <1>1, <1>7 DEF SameBooks
  <2>3. CASE y.connect # "none"
    <3>1. z = [y EXCEPT !.connect = "none", !.reqs = y.reqs - 1]
      BY <2>3, <1>1
    <3> QED BY <3>1, <2>1, <2>3, <1>7 DEF StreamRecords, SameBooks
  <2> QED BY <2>2, <2>3
<1>10. Moved(z, t, "destroy")
  BY <1>3, <1>9, GotoFacts DEF StreamPlaces
<1>11. /\ t \in StreamRecords /\ SameBooks(z, t) /\ t.at = "destroy"
       /\ t.fd = z.fd /\ t.connect = z.connect /\ t.shutdown = z.shutdown /\ t.flags = z.flags
       /\ t.reqs = z.reqs /\ t.pevents = z.pevents /\ t.fed = z.fed
  BY <1>10 DEF Moved
<1>12. BooksStand(t, q)
  <2>1. BooksStand(z, q)
    BY <1>7, <1>9, BooksStay
  <2> QED BY <2>1, <1>11, BooksStay
<1>13. /\ t.fd = s.fd /\ t.connect = "none" /\ t.shutdown = s.shutdown /\ t.flags = fl
       /\ t.pevents = s.pevents /\ t.fed = s.fed
       /\ t.reqs = s.reqs - (IF s.connect # "none" THEN 1 ELSE 0)
  BY <1>5, <1>8, <1>9, <1>7, <1>11
<1>14. t.wq = <<>>
  BY <1>7, <1>9, <1>11 DEF SameBooks
<1>15. \A f \in {"CLOSING", "READING", "SHUTTING", "SHUT", "CONNECTED"} : f \in t.flags <=> f \in s.flags
  BY <1>1, <1>13
<1>16. Counted(t, q, leaked)
  <2>1. s.reqs \in Int
    BY <1>2 DEF StreamRecords
  <2> QED BY <2>1, <1>2, <1>13 DEF Counted
<1>17. ClosingStands(t, w)
  BY <1>2, <1>3, <1>11, <1>13, <1>14, <1>15 DEF ClosingStands, Has
<1>18. ConnectStands(t)
  BY <1>3, <1>11, <1>13, <1>15 DEF ConnectStands, Has, BeforeOut
<1>19. RequestsStand(t)
  BY <1>2, <1>3, <1>11, <1>13, <1>15 DEF RequestsStand, Has
<1>20. ReadingStands(t, w)
  BY <1>3, <1>15 DEF ReadingStands, Has
<1> QED BY <1>1, <1>2, <1>3, <1>11, <1>12, <1>16, <1>17, <1>18, <1>19, <1>20, StreamNextFacts

LEMMA DestroyShutdownStep == ASSUME StreamInv, DestroyShutdown PROVE StreamInv'
<1>1. PICK s, t, w, x : /\ s = stream /\ t = stream' /\ w = wants
                        /\ x = IF s.shutdown # "none" THEN [s EXCEPT !.shutdown = "none", !.reqs = s.reqs - 1]
                               ELSE s
  OBVIOUS
<1>2. /\ s \in StreamRecords /\ w \in BOOLEAN
      /\ ClosingStands(s, w) /\ ConnectStands(s) /\ RequestsStand(s)
  BY <1>1, StreamFacts
<1>3. /\ s.at = "destroy" /\ s.cq = <<>> /\ wants' = w /\ issued' = issued /\ leaked' = leaked
      /\ t = Goto(x, "closed") \/ t = Call(x, "closed")
  BY <1>1 DEF DestroyShutdown, Step, Keep
<1>4. s.reqs \in Int /\ s.reqs - 1 \in Int /\ "none" \in {"none", "pending", "early"}
  BY <1>2 DEF StreamRecords
<1>5. /\ x \in StreamRecords /\ SameBooks(s, x) /\ x.fd = s.fd /\ x.connect = s.connect
      /\ x.shutdown = "none" /\ x.flags = s.flags /\ x.pevents = s.pevents /\ x.fed = s.fed
      /\ x.reqs = s.reqs - (IF s.shutdown # "none" THEN 1 ELSE 0)
  <2>1. CASE s.shutdown = "none"
    BY <2>1, <1>1, <1>2, <1>4 DEF SameBooks
  <2>2. CASE s.shutdown # "none"
    <3>1. x = [s EXCEPT !.shutdown = "none", !.reqs = s.reqs - 1]
      BY <2>2, <1>1
    <3> QED BY <3>1, <2>2, <1>2, <1>4 DEF StreamRecords, SameBooks
  <2> QED BY <2>1, <2>2
<1>6. Moved(x, t, "closed")
  BY <1>3, <1>5, GotoFacts DEF StreamPlaces
<1>7. /\ t \in StreamRecords /\ SameBooks(x, t) /\ t.at = "closed"
      /\ t.fd = x.fd /\ t.connect = x.connect /\ t.shutdown = x.shutdown /\ t.flags = x.flags
      /\ t.reqs = x.reqs /\ t.pevents = x.pevents /\ t.fed = x.fed
  BY <1>6 DEF Moved
<1>8. SameBooks(s, t)
  BY <1>5, <1>7 DEF SameBooks
<1>9. t.wq = s.wq /\ t.cq = s.cq
  BY <1>8 DEF SameBooks
<1>10. "CLOSING" \in s.flags /\ s.wq = <<>> /\ s.connect = "none"
  BY <1>2, <1>3 DEF ClosingStands, Has
<1>11. ClosingStands(t, w)
  BY <1>2, <1>3, <1>5, <1>7, <1>9, <1>10 DEF ClosingStands, Has
<1>12. ConnectStands(t)
  BY <1>5, <1>7, <1>10 DEF ConnectStands, Has, BeforeOut
<1>13. RequestsStand(t)
  BY <1>2, <1>5, <1>7, <1>10 DEF RequestsStand, Has
<1>14. ReadingStands(t, w)
  BY <1>5, <1>7, <1>10 DEF ReadingStands, Has
<1>15. t.reqs - s.reqs = (IF t.shutdown # "none" THEN 1 ELSE 0) + (IF t.connect # "none" THEN 1 ELSE 0)
                         - (IF s.shutdown # "none" THEN 1 ELSE 0) - (IF s.connect # "none" THEN 1 ELSE 0)
  BY <1>4, <1>5, <1>7, <1>10
<1> QED BY <1>1, <1>2, <1>3, <1>7, <1>8, <1>11, <1>12, <1>13, <1>14, <1>15, QuietStep

\* A stream as uv__stream_init leaves it, with n requests counted.
LEMMA FreshStream ==
    ASSUME NEW n \in Int, NEW t,
           t = [uv__stream_init EXCEPT !.reqs = n] \/ (t = uv__stream_init /\ n = 0)
    PROVE  /\ t \in StreamRecords /\ BooksStand(t, <<>>) /\ t.reqs = n
           /\ t.connect = "none" /\ t.shutdown = "none"
           /\ ClosingStands(t, FALSE) /\ ConnectStands(t) /\ RequestsStand(t) /\ ReadingStands(t, FALSE)
<1>1. PICK left, bufs, e : /\ left = [r \in StreamReqs |-> 0] /\ bufs = [r \in StreamReqs |-> FALSE]
                           /\ e = <<>>
  OBVIOUS
<1>2. left \in [StreamReqs -> Nat] /\ bufs \in [StreamReqs -> BOOLEAN] /\ e \in Seq(StreamReqs)
  BY <1>1, EmptySeq
<1>3. t = [fd |-> FALSE, connect |-> "none", shutdown |-> "none", flags |-> {},
           wq |-> e, cq |-> e, size |-> 0, left |-> left, bufs |-> bufs,
           pevents |-> {}, fed |-> FALSE, active |-> FALSE, reqs |-> n,
           at |-> "loop", cb |-> FALSE, events |-> {}, count |-> 0, failed |-> FALSE]
  BY <1>1 DEF uv__stream_init, StreamReqs
<1>4. /\ t.fd = FALSE /\ t.connect = "none" /\ t.shutdown = "none" /\ t.flags = {} /\ t.wq = e /\ t.cq = e
      /\ t.size = 0 /\ t.left = left /\ t.bufs = bufs /\ t.pevents = {} /\ t.fed = FALSE
      /\ t.active = FALSE /\ t.reqs = n /\ t.at = "loop" /\ t.failed = FALSE
  BY <1>3
<1>5. t \in StreamRecords
  <2>1. PICK none : none = {}
    OBVIOUS
  <2>2. none \in SUBSET StreamFlags /\ none \in SUBSET {"IN", "OUT"} /\ none \in SUBSET {"OUT", "HUP"}
    BY <2>1
  <2>3. PICK u :
           u = [fd |-> FALSE, connect |-> "none", shutdown |-> "none", flags |-> none,
                wq |-> e, cq |-> e, size |-> 0, left |-> left, bufs |-> bufs,
                pevents |-> none, fed |-> FALSE, active |-> FALSE, reqs |-> n,
                at |-> "loop", cb |-> FALSE, events |-> none, count |-> 0, failed |-> FALSE]
    OBVIOUS
  <2>4. u \in StreamRecords
    BY <2>2, <2>3, <1>2 DEF StreamRecords
  <2> QED BY <2>1, <2>3, <2>4, <1>3
<1>6. BooksStand(t, <<>>)
  <2>1. Unwritten(t) \in [StreamReqs -> Int]
    BY <1>5, UnwrittenType
  <2>2. SumOver(Unwritten(t), <<>>) = 0
    BY <2>1, SumEmpty
  <2>3. <<>> \o <<>> = <<>>
    BY ConcatEmptySeq, EmptySeq
  <2>4. ToSet(<<>>) = {}
    BY EmptySeq DEF ToSet
  <2> QED BY <2>2, <2>3, <2>4, <1>1, <1>4 DEF BooksStand
<1>7. ClosingStands(t, FALSE) /\ ConnectStands(t)
  BY <1>1, <1>4 DEF ClosingStands, ConnectStands, Has, BeforeOut
<1>8. RequestsStand(t) /\ ReadingStands(t, FALSE)
  BY <1>1, <1>4 DEF RequestsStand, ReadingStands, Has
<1> QED BY <1>4, <1>5, <1>6, <1>7, <1>8

LEMMA ReinitStep == ASSUME StreamInv, Reinit PROVE StreamInv'
<1>1. PICK s, t, w, q, m : s = stream /\ t = stream' /\ w = wants /\ q = issued /\ m = s.reqs
  OBVIOUS
<1>2. /\ s \in StreamRecords /\ w \in BOOLEAN /\ leaked \in Nat /\ q \in Seq(Writes)
      /\ Distinct(q) /\ BooksStand(s, q) /\ Counted(s, q, leaked) /\ ClosingStands(s, w)
  BY <1>1, StreamFacts
<1>3. /\ s.at = "closed" /\ t = [uv__stream_init EXCEPT !.reqs = m]
      /\ wants' = w /\ issued' = q /\ leaked' = leaked
  BY <1>1 DEF Reinit, Step, Keep
<1>4. s.wq = <<>> /\ s.cq = <<>> /\ s.connect = "none" /\ s.shutdown = "none" /\ w = FALSE
  BY <1>2, <1>3 DEF ClosingStands
<1>5. q = <<>>
  <2>1. <<>> \o <<>> = <<>>
    BY ConcatEmptySeq, EmptySeq
  <2> QED BY <2>1, <1>2, <1>4 DEF BooksStand
<1>6. m \in Int
  BY <1>1, <1>2 DEF StreamRecords
<1>7. /\ t \in StreamRecords /\ BooksStand(t, <<>>) /\ t.reqs = m
      /\ t.connect = "none" /\ t.shutdown = "none"
      /\ ClosingStands(t, FALSE) /\ ConnectStands(t) /\ RequestsStand(t) /\ ReadingStands(t, FALSE)
  BY <1>3, <1>6, FreshStream
<1>8. Counted(t, q, leaked)
  BY <1>1, <1>2, <1>4, <1>7 DEF Counted
<1> QED BY <1>1, <1>2, <1>3, <1>4, <1>5, <1>7, <1>8, StreamNextFacts

\* uv__stream_io, first the outcome of a connection.
LEMMA ConnectIoStep ==
    ASSUME StreamInv, NEW e \in Reported(stream), stream.at = "loop", stream.connect # "none",
           NEW x \in StreamRecords, SameBooks(stream, x), x.fd = stream.fd, x.connect = stream.connect,
           x.shutdown = stream.shutdown, x.flags = stream.flags, x.reqs = stream.reqs,
           x.pevents = stream.pevents, x.active = stream.active, x.fed => e # {"OUT"},
           stream' \in uv__stream_connect(x),
           wants' = wants, issued' = issued, leaked' = leaked
    PROVE  StreamInv'
<1>1. PICK s, t, w : s = stream /\ t = stream' /\ w = wants
  OBVIOUS
<1>2. /\ s \in StreamRecords /\ w \in BOOLEAN
      /\ ClosingStands(s, w) /\ ConnectStands(s) /\ RequestsStand(s) /\ ReadingStands(s, w)
  BY <1>1, StreamFacts
<1>3. s.at = "loop" /\ s.connect \in {"pending", "refused"} /\ s.reqs \in Int
  BY <1>1, <1>2 DEF StreamRecords
<1>4. "CLOSING" \notin s.flags /\ (~s.fd => e = {"OUT"} /\ s.pevents = {})
  <2>1. e \in Reported(s)
    BY <1>1
  <2>2. s.fed \/ (s.pevents # {} /\ s.fd)
    BY <2>1 DEF Reported
  <2>3. ~s.fd => e = {"OUT"}
    BY <2>1, <2>2 DEF Reported
  <2>4. "CLOSING" \notin s.flags
    BY <2>2, <1>2 DEF ClosingStands, Has
  <2> QED BY <2>3, <2>4, <1>2 DEF ConnectStands, Has
<1>7. /\ SameBooks(s, x) /\ x.fd = s.fd /\ x.connect = s.connect
      /\ x.shutdown = s.shutdown /\ x.flags = s.flags /\ x.reqs = s.reqs /\ x.pevents = s.pevents
      /\ x.active = s.active
  BY <1>1
<1>8. /\ "CONNECTED" \notin s.flags /\ s.cq = <<>> /\ s.shutdown # "pending"
      /\ s.connect = "pending" => "OUT" \in s.pevents
      /\ ~s.fd => s.wq = <<>> /\ s.shutdown = "none"
  <2>1. "CONNECTED" \notin s.flags
    BY <1>2, <1>3 DEF ConnectStands, Has
  <2>2. s.cq = <<>>
    BY <2>1, <1>2, <1>3, <1>4 DEF ConnectStands, Has
  <2>3. s.shutdown # "pending"
    BY <2>1, <1>2 DEF RequestsStand, Has
  <2> QED BY <2>1, <2>2, <2>3, <1>2, <1>4 DEF ConnectStands, Has
<1>9. \/ \E bad \in BOOLEAN :
           t = Call([(IF bad \/ x.wq = <<>> THEN io_stop(x, {"OUT"}) ELSE x)
                       EXCEPT !.connect = "none", !.reqs = @ - 1, !.failed = bad,
                              !.flags = IF bad THEN @ ELSE @ \cup {"CONNECTED"}], "connected")
           /\ (x.connect = "refused" => bad)
      \/ x.connect = "pending" /\ t = Goto(x, "loop")
  BY <1>1 DEF uv__stream_connect
<1>10. ASSUME NEW bad \in BOOLEAN, x.connect = "refused" => bad,
              t = Call([(IF bad \/ x.wq = <<>> THEN io_stop(x, {"OUT"}) ELSE x)
                       EXCEPT !.connect = "none", !.reqs = @ - 1, !.failed = bad,
                              !.flags = IF bad THEN @ ELSE @ \cup {"CONNECTED"}], "connected")
       PROVE  StreamInv'
  <2>1. PICK v, fl, pe :
           /\ v = IF bad \/ x.wq = <<>> THEN io_stop(x, {"OUT"}) ELSE x
           /\ fl = IF bad THEN s.flags ELSE s.flags \cup {"CONNECTED"}
           /\ pe = IF bad \/ x.wq = <<>> THEN s.pevents \ {"OUT"} ELSE s.pevents
    OBVIOUS
  <2>2. /\ pe \in SUBSET {"IN", "OUT"} /\ ("IN" \in pe <=> "IN" \in s.pevents)
        /\ s.pevents = {} => pe = {}
        /\ fl \in SUBSET StreamFlags /\ s.reqs - 1 \in Int /\ "none" \in {"none", "pending", "refused"}
    <3>1. s.pevents \in SUBSET {"IN", "OUT"} /\ s.flags \in SUBSET StreamFlags
      BY <1>2 DEF StreamRecords
    <3>2. pe \in SUBSET {"IN", "OUT"} /\ ("IN" \in pe <=> "IN" \in s.pevents) /\ (s.pevents = {} => pe = {})
      <4>1. pe = s.pevents \ {"OUT"} \/ pe = s.pevents
        BY <2>1
      <4> QED BY <4>1, <3>1
    <3>3. fl \in SUBSET StreamFlags
      <4>1. fl = s.flags \cup {"CONNECTED"} \/ fl = s.flags
        BY <2>1
      <4> QED BY <4>1, <3>1 DEF StreamFlags
    <3> QED BY <3>2, <3>3, <1>3
  <2>3. /\ v \in StreamRecords /\ SameBooks(x, v) /\ v.fd = x.fd
        /\ v.shutdown = x.shutdown /\ v.flags = x.flags /\ v.reqs = x.reqs /\ v.pevents = pe
        /\ v.fed = x.fed /\ v.active = x.active
    <3>1. CASE bad \/ x.wq = <<>>
      <4>1. v = [x EXCEPT !.pevents = pe]
        BY <3>1, <2>1, <1>7 DEF io_stop
      <4> QED BY <4>1, <2>2 DEF StreamRecords, SameBooks
    <3>2. CASE ~(bad \/ x.wq = <<>>)
      <4>1. v = x /\ pe = x.pevents
        BY <3>2, <2>1, <1>7
      <4> QED BY <4>1 DEF SameBooks
    <3> QED BY <3>1, <3>2
  <2>18. PICK y : y = [v EXCEPT !.connect = "none", !.reqs = s.reqs - 1, !.failed = bad, !.flags = fl]
    OBVIOUS
  <2>19. t = Call(y, "connected")
    <3>1. t = Call([v EXCEPT !.connect = "none", !.reqs = v.reqs - 1, !.failed = bad,
                             !.flags = IF bad THEN v.flags ELSE v.flags \cup {"CONNECTED"}], "connected")
      BY <2>1, <1>10, Zenon
    <3>2. v.reqs - 1 = s.reqs - 1 /\ fl = IF bad THEN v.flags ELSE v.flags \cup {"CONNECTED"}
      BY <2>1, <2>3, <1>7
    <3> QED BY <3>1, <3>2, <2>18
  <2>4. /\ y \in StreamRecords /\ SameBooks(v, y) /\ y.fd = v.fd /\ y.connect = "none"
        /\ y.shutdown = v.shutdown /\ y.flags = fl /\ y.reqs = s.reqs - 1 /\ y.pevents = pe
        /\ y.fed = v.fed /\ y.active = v.active /\ y.failed = bad
    BY <2>18, <2>2, <2>3, ZenonT(60) DEF StreamRecords, SameBooks
  <2>5. Moved(y, t, "connected")
    BY <2>19, <2>4, GotoFacts DEF StreamPlaces
  <2>6. /\ t \in StreamRecords /\ SameBooks(y, t) /\ t.at = "connected"
        /\ t.fd = y.fd /\ t.connect = y.connect /\ t.shutdown = y.shutdown /\ t.flags = y.flags
        /\ t.reqs = y.reqs /\ t.pevents = y.pevents /\ t.fed = y.fed /\ t.active = y.active
        /\ t.failed = y.failed
    BY <2>5 DEF Moved
  <2>7. SameBooks(s, t)
    BY <2>3, <2>4, <2>6, <1>7 DEF SameBooks
  <2>8. /\ t.fd = s.fd /\ t.connect = "none" /\ t.shutdown = s.shutdown /\ t.flags = fl
        /\ t.reqs = s.reqs - 1 /\ t.pevents = pe /\ t.fed = x.fed /\ t.active = s.active
        /\ t.failed = bad
    BY <2>3, <2>4, <2>6, <1>7
  <2>9. t.wq = s.wq /\ t.cq = s.cq /\ x.wq = s.wq
    BY <2>7, <1>7 DEF SameBooks
  <2>10. /\ \A f \in {"CLOSING", "READING", "SHUTTING", "SHUT"} : f \in t.flags <=> f \in s.flags
         /\ bad \/ "CONNECTED" \in t.flags
    BY <2>1, <2>8
  <2>11. ClosingStands(t, w)
    BY <1>4, <2>6, <2>8, <2>10 DEF ClosingStands, Has
  <2>12. ~s.fd => ~x.fed
    BY <1>4
  <2>13. ConnectStands(t)
    BY <1>4, <1>8, <2>2, <2>6, <2>8, <2>9, <2>10, <2>12 DEF ConnectStands, Has, BeforeOut
  <2>14. t.wq # <<>> => bad \/ "OUT" \in t.pevents
    <3>1. ~bad => s.connect = "pending"
      BY <1>3, <1>7, <1>10
    <3> QED BY <3>1, <2>1, <2>8, <2>9, <1>8
  <2>15. RequestsStand(t)
    BY <1>2, <1>3, <1>4, <1>8, <2>6, <2>8, <2>9, <2>10, <2>14 DEF RequestsStand, EventComes, Has
  <2>16. ReadingStands(t, w)
    BY <1>2, <1>3, <2>2, <2>6, <2>8, <2>10 DEF ReadingStands, Has
  <2>17. t.reqs - s.reqs = (IF t.shutdown # "none" THEN 1 ELSE 0) + (IF t.connect # "none" THEN 1 ELSE 0)
                           - (IF s.shutdown # "none" THEN 1 ELSE 0) - (IF s.connect # "none" THEN 1 ELSE 0)
    BY <1>3, <2>8
  <2> QED BY <1>1, <1>2, <2>6, <2>7, <2>11, <2>13, <2>15, <2>16, <2>17, QuietStep
<1>11. CASE x.connect = "pending" /\ t = Goto(x, "loop")
  <2>1. Moved(x, t, "loop")
    BY <1>7, <1>11, GotoFacts DEF StreamPlaces
  <2>2. /\ t \in StreamRecords /\ SameBooks(x, t) /\ t.at = "loop"
        /\ t.fd = x.fd /\ t.connect = x.connect /\ t.shutdown = x.shutdown /\ t.flags = x.flags
        /\ t.reqs = x.reqs /\ t.pevents = x.pevents /\ t.fed = x.fed /\ t.active = x.active
    BY <2>1 DEF Moved
  <2>3. SameBooks(s, t)
    BY <2>2, <1>7 DEF SameBooks
  <2>4. /\ t.fd = s.fd /\ t.connect = "pending" /\ s.connect = "pending" /\ t.shutdown = s.shutdown
        /\ t.flags = s.flags /\ t.reqs = s.reqs /\ t.pevents = s.pevents /\ t.active = s.active
        /\ "OUT" \in s.pevents /\ s.fd
    BY <1>4, <1>7, <1>8, <1>11, <2>2
  <2>5. t.wq = s.wq /\ t.cq = s.cq
    BY <2>3 DEF SameBooks
  <2>6. ClosingStands(t, w)
    BY <1>4, <2>2, <2>4 DEF ClosingStands, Has
  <2>7. ConnectStands(t)
    BY <1>2, <1>3, <1>8, <2>2, <2>4, <2>5 DEF ConnectStands, Has, BeforeOut
  <2>8. RequestsStand(t)
    BY <1>2, <1>3, <2>2, <2>4, <2>5 DEF RequestsStand, EventComes, Has
  <2>9. ReadingStands(t, w)
    BY <1>2, <1>3, <2>2, <2>4 DEF ReadingStands, Has
  <2>10. t.reqs - s.reqs = (IF t.shutdown # "none" THEN 1 ELSE 0) + (IF t.connect # "none" THEN 1 ELSE 0)
                           - (IF s.shutdown # "none" THEN 1 ELSE 0) - (IF s.connect # "none" THEN 1 ELSE 0)
    BY <1>3, <2>4
  <2> QED BY <1>1, <1>2, <2>2, <2>3, <2>6, <2>7, <2>8, <2>9, <2>10, QuietStep
<1> QED BY <1>9, <1>10, <1>11

LEMMA StreamIoStep == ASSUME StreamInv, uv__stream_io PROVE StreamInv'
<1>1. PICK s, t, w : s = stream /\ t = stream' /\ w = wants
  OBVIOUS
<1>2. /\ s \in StreamRecords /\ w \in BOOLEAN
      /\ ClosingStands(s, w) /\ ConnectStands(s) /\ RequestsStand(s) /\ ReadingStands(s, w)
  BY <1>1, StreamFacts
<1> DEFINE Noted(e) == [s EXCEPT !.events = Later(e), !.fed = (e # {"OUT"} /\ s.fed)]
<1>8. PICK e \in Reported(s) :
         IF Noted(e).connect # "none" THEN t \in uv__stream_connect(Noted(e))
         ELSE IF e \cap {"IN", "ERR", "HUP"} # {}
         THEN t = Goto([Clear(Noted(e), "PARTIAL") EXCEPT !.count = MaxReads], "read")
         ELSE t = Goto(Noted(e), "hup")
  <2>1. \E e \in Reported(stream) :
          LET n == [stream EXCEPT !.events = Later(e), !.fed = (e # {"OUT"} /\ @)] IN
          IF n.connect # "none" THEN stream' \in uv__stream_connect(n)
          ELSE IF e \cap {"IN", "ERR", "HUP"} # {}
          THEN stream' = Goto([Clear(n, "PARTIAL") EXCEPT !.count = MaxReads], "read")
          ELSE stream' = Goto(n, "hup")
    BY Zenon DEF uv__stream_io
  <2> QED BY <2>1, <1>1, Zenon
<1>3. PICK fed, x :
         /\ fed = (e # {"OUT"} /\ s.fed)
         /\ x = [s EXCEPT !.events = Later(e), !.fed = fed]
         /\ IF x.connect # "none" THEN t \in uv__stream_connect(x)
            ELSE IF e \cap {"IN", "ERR", "HUP"} # {}
            THEN t = Goto([Clear(x, "PARTIAL") EXCEPT !.count = MaxReads], "read")
            ELSE t = Goto(x, "hup")
  <2>1. PICK f, y : f = (e # {"OUT"} /\ s.fed) /\ y = [s EXCEPT !.events = Later(e), !.fed = f]
    OBVIOUS
  <2>2. y = Noted(e)
    BY <2>1
  <2> HIDE DEF Noted
  <2> QED BY <2>1, <2>2, <1>8
<1> HIDE DEF Noted
<1>4. /\ x \in StreamRecords /\ SameBooks(s, x) /\ x.fd = s.fd /\ x.connect = s.connect
      /\ x.shutdown = s.shutdown /\ x.flags = s.flags /\ x.reqs = s.reqs /\ x.pevents = s.pevents
      /\ x.fed = fed /\ x.active = s.active /\ x.events = Later(e) /\ x.at = s.at
  <2>1. fed \in BOOLEAN /\ x = [s EXCEPT !.events = Later(e), !.fed = fed]
    <3>1. fed = (e # {"OUT"} /\ s.fed) /\ x = [s EXCEPT !.events = Later(e), !.fed = fed]
      BY <1>3
    <3> QED BY <3>1
  <2>2. PICK ev : ev = Later(e)
    OBVIOUS
  <2>3. ev \in SUBSET {"OUT", "HUP"}
    BY <2>2 DEF Later
  <2>4. PICK y : y = [s EXCEPT !.events = ev, !.fed = fed]
    OBVIOUS
  <2>5. y \in StreamRecords
    BY <1>2, <2>1, <2>3, <2>4 DEF StreamRecords
  <2>6. /\ SameBooks(s, y) /\ y.fd = s.fd /\ y.connect = s.connect
        /\ y.shutdown = s.shutdown /\ y.flags = s.flags /\ y.reqs = s.reqs /\ y.pevents = s.pevents
        /\ y.fed = fed /\ y.active = s.active /\ y.events = ev /\ y.at = s.at
    BY <1>2, <2>4 DEF StreamRecords, SameBooks
  <2>7. x = y
    BY <2>1, <2>2, <2>4
  <2> QED BY <2>2, <2>5, <2>6, <2>7
<1>5. s.at = "loop" /\ wants' = w /\ issued' = issued /\ leaked' = leaked
  BY <1>1 DEF uv__stream_io, Step, Keep
<1>6. CASE s.connect # "none"
  <2>1. t \in uv__stream_connect(x)
    BY <1>3, <1>4, <1>6
  <2>2. x.fed => e # {"OUT"}
    BY <1>3, <1>4
  <2> QED BY <1>1, <1>4, <1>5, <1>6, <1>8, <2>1, <2>2, ConnectIoStep
<1>7. CASE s.connect = "none"
  <2>1. s.fed \/ (s.pevents # {} /\ s.fd)
    BY <1>8 DEF Reported
  <2>2. "CLOSING" \notin s.flags /\ s.fd
    <3>1. "CLOSING" \notin s.flags
      BY <2>1, <1>2 DEF ClosingStands, Has
    <3> QED BY <3>1, <2>1, <1>2, <1>7 DEF ConnectStands, Has
  <2>19. PICK where \in {"read", "hup"} :
         \E y :
           /\ t = Goto(y, where)
           /\ \/ /\ y = [x EXCEPT !.flags = x.flags \ {"PARTIAL"}, !.count = MaxReads] /\ where = "read"
                 /\ e \cap {"IN", "ERR", "HUP"} # {}
              \/ y = x /\ where = "hup" /\ e \cap {"IN", "ERR", "HUP"} = {}
    <3>1. CASE e \cap {"IN", "ERR", "HUP"} # {}
      BY <3>1, <1>3, <1>4, <1>7 DEF Clear
    <3>2. CASE e \cap {"IN", "ERR", "HUP"} = {}
      BY <3>2, <1>3, <1>4, <1>7
    <3> QED BY <3>1, <3>2
  <2>3. PICK y :
           /\ t = Goto(y, where)
           /\ \/ /\ y = [x EXCEPT !.flags = x.flags \ {"PARTIAL"}, !.count = MaxReads] /\ where = "read"
                 /\ e \cap {"IN", "ERR", "HUP"} # {}
              \/ y = x /\ where = "hup" /\ e \cap {"IN", "ERR", "HUP"} = {}
    BY <2>19
  <2>4. /\ y \in StreamRecords /\ SameBooks(x, y) /\ y.fd = x.fd /\ y.connect = x.connect
        /\ y.shutdown = x.shutdown /\ y.reqs = x.reqs /\ y.pevents = x.pevents /\ y.fed = x.fed
        /\ y.active = x.active /\ y.events = x.events
        /\ \A f \in {"CLOSING", "SHUTTING", "SHUT", "CONNECTED", "READING"} : f \in y.flags <=> f \in x.flags
    <3>1. CASE y = x
      BY <3>1, <1>4 DEF SameBooks
    <3>2. CASE y = [x EXCEPT !.flags = x.flags \ {"PARTIAL"}, !.count = MaxReads]
      <4>1. PICK fl : fl = x.flags \ {"PARTIAL"}
        OBVIOUS
      <4>2. fl \in SUBSET StreamFlags /\ MaxReads \in Int
        BY <4>1, <1>4, StreamAssumption DEF StreamRecords
      <4>3. /\ y \in StreamRecords /\ SameBooks(x, y) /\ y.fd = x.fd /\ y.connect = x.connect
            /\ y.shutdown = x.shutdown /\ y.reqs = x.reqs /\ y.pevents = x.pevents /\ y.fed = x.fed
            /\ y.active = x.active /\ y.events = x.events /\ y.flags = fl
        BY <4>1, <4>2, <3>2, <1>4 DEF StreamRecords, SameBooks
      <4> QED BY <4>1, <4>3
    <3> QED BY <2>3, <3>1, <3>2
  <2>5. Moved(y, t, where)
    BY <2>3, <2>4, GotoFacts DEF StreamPlaces
  <2>6. /\ t \in StreamRecords /\ SameBooks(y, t) /\ t.at \in {"read", "hup"}
        /\ t.fd = y.fd /\ t.connect = y.connect /\ t.shutdown = y.shutdown /\ t.flags = y.flags
        /\ t.reqs = y.reqs /\ t.pevents = y.pevents /\ t.fed = y.fed /\ t.active = y.active
        /\ t.events = y.events
    BY <2>5 DEF Moved
  <2>7. SameBooks(s, t)
    BY <2>4, <2>6, <1>4 DEF SameBooks
  <2>8. /\ t.fd = s.fd /\ t.connect = "none" /\ t.shutdown = s.shutdown
        /\ t.reqs = s.reqs /\ t.pevents = s.pevents /\ t.fed = fed /\ t.active = s.active
        /\ t.events = Later(e)
    BY <2>4, <2>6, <1>4, <1>7
  <2>9. \A f \in {"CLOSING", "SHUTTING", "SHUT", "CONNECTED", "READING"} : f \in t.flags <=> f \in s.flags
    BY <2>4, <2>6, <1>4
  <2>10. t.wq = s.wq /\ t.cq = s.cq
    BY <2>7 DEF SameBooks
  <2>11. s.fed => fed \/ "OUT" \in t.events
    <3>1. CASE e = {"OUT"}
      BY <3>1, <2>8 DEF Later
    <3>2. CASE e # {"OUT"}
      BY <3>2, <1>3
    <3> QED BY <3>1, <3>2
  <2>12. ClosingStands(t, w)
    BY <2>2, <2>6, <2>9 DEF ClosingStands, Has
  <2>13. ConnectStands(t)
    BY <1>2, <1>5, <1>7, <2>2, <2>6, <2>8, <2>9, <2>10 DEF ConnectStands, Has
  <2>14. EventComes(s) => EventComes(t)
    BY <1>5, <2>6, <2>8, <2>11 DEF EventComes, BeforeOut
  <2>15. RequestsStand(t)
    BY <1>2, <1>5, <2>2, <2>6, <2>8, <2>9, <2>10, <2>14 DEF RequestsStand, Has
  <2>16. ReadingStands(t, w)
    BY <1>2, <1>5, <2>6, <2>8, <2>9 DEF ReadingStands, Has
  <2>17. s.reqs \in Int
    BY <1>2 DEF StreamRecords
  <2>18. t.reqs - s.reqs = (IF t.shutdown # "none" THEN 1 ELSE 0) + (IF t.connect # "none" THEN 1 ELSE 0)
                           - (IF s.shutdown # "none" THEN 1 ELSE 0) - (IF s.connect # "none" THEN 1 ELSE 0)
    BY <1>7, <2>8, <2>17
  <2> QED BY <1>1, <1>2, <1>5, <2>6, <2>7, <2>12, <2>13, <2>15, <2>16, <2>18, QuietStep
<1> QED BY <1>6, <1>7

----------------------------------------------------------------------------
(* The theorems about streams.                                             *)

LEMMA StreamStarts == StreamInit => StreamInv
<1> SUFFICES ASSUME StreamInit PROVE StreamInv
  OBVIOUS
<1>1. PICK s, q, w, n : s = stream /\ q = issued /\ w = wants /\ n = leaked
  OBVIOUS
<1>2. s = uv__stream_init /\ q = <<>> /\ w = FALSE /\ n = 0
  BY <1>1 DEF StreamInit
<1>4. /\ s \in StreamRecords /\ BooksStand(s, <<>>) /\ s.reqs = 0
      /\ s.connect = "none" /\ s.shutdown = "none"
      /\ ClosingStands(s, FALSE) /\ ConnectStands(s) /\ RequestsStand(s) /\ ReadingStands(s, FALSE)
  <2>1. PICK m \in Int : m = 0
    OBVIOUS
  <2>2. s = uv__stream_init /\ m = 0
    BY <2>1, <1>2
  <2>3. /\ s \in StreamRecords /\ BooksStand(s, <<>>) /\ s.reqs = m
        /\ s.connect = "none" /\ s.shutdown = "none"
        /\ ClosingStands(s, FALSE) /\ ConnectStands(s) /\ RequestsStand(s) /\ ReadingStands(s, FALSE)
    BY <2>2, FreshStream
  <2> QED BY <2>1, <2>3
<1>5. q \in Seq(Writes) /\ Distinct(q) /\ Len(q) = 0
  BY <1>2, EmptySeq DEF Distinct
<1>6. Counted(s, q, n)
  BY <1>2, <1>4, <1>5 DEF Counted
<1>7. StreamTypes
  <2>1. w \in BOOLEAN /\ n \in Nat
    BY <1>2
  <2> QED BY <2>1, <1>1, <1>4, <1>5 DEF StreamTypes
<1>8. StreamStands(s, w) /\ BooksStand(s, q)
  BY <1>2, <1>4 DEF StreamStands
<1> QED BY <1>1, <1>5, <1>6, <1>7, <1>8 DEF StreamInv

\* The inductive invariant of a stream: the queues hold the writes that are
\* still owed a callback, in their order and with their bytes, and every one
\* of them, a connection and a shutdown have an event coming.
THEOREM StreamInductive == StreamSpec => []StreamInv
<1>1. StreamInit => StreamInv
  BY StreamStarts
<1>2. StreamInv /\ [StreamNext]_streamVars => StreamInv'
  <2> SUFFICES ASSUME StreamInv, [StreamNext]_streamVars PROVE StreamInv'
    OBVIOUS
  <2>1. CASE StreamUser
    BY <2>1, OpenStep, TcpConnectStep, PipeConnectStep, WriteStep, TryWriteStep, ShutdownStep,
       ReadStartStep, ReadStopStep, CloseStep DEF StreamUser
  <2>2. CASE StreamLoop
    BY <2>2, StreamIoStep, ReadStep, ReadErrorStep, ReadPartialStep, StreamEofStep, HangUpStep,
       WriteReadyStep, WriteCallbacksStep, DrainStep, ConnectedStep, FlushedStep, CallbackStep,
       DestroyStep, DestroyShutdownStep, ReinitStep DEF StreamLoop
  <2>3. CASE UNCHANGED streamVars
    <3>1. stream' = stream /\ issued' = issued /\ wants' = wants /\ leaked' = leaked
      BY <2>3 DEF streamVars
    <3>2. /\ stream \in StreamRecords /\ wants \in BOOLEAN /\ leaked \in Nat
          /\ issued \in Seq(Writes)
          /\ Distinct(issued) /\ BooksStand(stream, issued) /\ Counted(stream, issued, leaked)
          /\ ClosingStands(stream, wants) /\ ConnectStands(stream) /\ RequestsStand(stream)
          /\ ReadingStands(stream, wants)
      BY StreamFacts
    <3> QED BY <3>1, <3>2, StreamNextFacts
  <2> QED BY <2>1, <2>2, <2>3 DEF StreamNext
<1> QED BY <1>1, <1>2, PTL DEF StreamSpec

\* Whatever is written, connected, shut down, read and closed in whatever
\* order, the writes are called back in their order, write_queue_size and the
\* request count are right, and the assertions on closing hold.
THEOREM StreamCorrect == StreamSpec => []StreamRight
<1>1. StreamInv => StreamRight
  <2> SUFFICES ASSUME StreamInv PROVE StreamRight
    OBVIOUS
  <2>1. PICK s, q, n, w : s = stream /\ q = issued /\ n = leaked /\ w = wants
    OBVIOUS
  <2>2. /\ s \in StreamRecords /\ Distinct(q) /\ BooksStand(s, q) /\ Counted(s, q, n)
        /\ ClosingStands(s, w) /\ ConnectStands(s)
    BY <2>1, StreamFacts
  <2>3. WritesInOrder
    BY <2>1, <2>2 DEF WritesInOrder, BooksStand
  <2>4. WritesCounted
    BY <2>1, <2>2 DEF WritesCounted, BooksStand, Counted
  <2>5. s.at = "closed" => q = <<>> /\ s.size = 0 /\ s.shutdown = "none"
    <3> SUFFICES ASSUME s.at = "closed" PROVE q = <<>> /\ s.size = 0 /\ s.shutdown = "none"
      OBVIOUS
    <3>1. s.wq = <<>> /\ s.cq = <<>> /\ s.shutdown = "none"
      BY <2>2 DEF ClosingStands
    <3>2. <<>> \o <<>> = <<>>
      BY ConcatEmptySeq, EmptySeq
    <3>3. q = <<>> /\ s.size = SumOver(Unwritten(s), <<>>)
      BY <2>2, <3>1, <3>2 DEF BooksStand
    <3>4. SumOver(Unwritten(s), <<>>) = 0
      <4>1. Unwritten(s) \in [StreamReqs -> Int]
        BY <2>2, UnwrittenType
      <4> QED BY <4>1, SumEmpty
    <3> QED BY <3>1, <3>3, <3>4
  <2>6. StreamAsserts
    BY <2>1, <2>2, <2>5 DEF StreamAsserts, IsClosing, Has, ClosingStands, ConnectStands, BeforeOut
  <2> QED BY <2>3, <2>4, <2>6 DEF StreamRight
<1> QED BY <1>1, StreamInductive, PTL

\* Where no EOF callback starts to read again, nothing the user has asked for
\* is forgotten between two events: a connection, a write and a shutdown have
\* an event coming, and the stream reads exactly when it was last asked to.
THEOREM StreamServes == ASSUME ~RestartsAtEof PROVE StreamSpec => []StreamServed
<1>1. StreamInv => StreamServed
  <2> SUFFICES ASSUME StreamInv PROVE StreamServed
    OBVIOUS
  <2>1. PICK s, w : s = stream /\ w = wants
    OBVIOUS
  <2>2. /\ s \in StreamRecords /\ w \in BOOLEAN
        /\ ClosingStands(s, w) /\ ConnectStands(s) /\ RequestsStand(s) /\ ReadingStands(s, w)
    BY <2>1, StreamFacts
  <2>3. ASSUME s.at = "loop", "CLOSING" \notin s.flags
        PROVE  /\ s.connect # "none" \/ s.wq # <<>> \/ s.cq # <<>> \/ s.shutdown = "pending"
                    => "OUT" \in s.pevents \/ s.fed
               /\ "READING" \in s.flags => "IN" \in s.pevents /\ s.active
               /\ "READING" \in s.flags <=> w
    <3>1. s.connect # "none" => "OUT" \in s.pevents \/ s.fed
      <4>1. s.connect \in {"none", "pending", "refused"}
        BY <2>2 DEF StreamRecords
      <4> QED BY <4>1, <2>2, <2>3 DEF ConnectStands, Has
    <3>2. s.wq # <<>> \/ s.cq # <<>> \/ s.shutdown = "pending" => "OUT" \in s.pevents \/ s.fed
      BY <2>2, <2>3 DEF RequestsStand, EventComes, BeforeOut, Has
    <3>3. /\ "READING" \in s.flags => "IN" \in s.pevents /\ s.active
          /\ "READING" \in s.flags <=> w
      BY <2>2, <2>3 DEF ReadingStands, Has
    <3> QED BY <3>1, <3>2, <3>3
  <2> QED BY <2>1, <2>3 DEF StreamServed, NothingStranded, ReadingIsDesired, Armed, IsClosing, Has
<1> QED BY <1>1, StreamInductive, PTL
=============================================================================
