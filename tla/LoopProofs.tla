----------------------------- MODULE LoopProofs -----------------------------
(***************************************************************************)
(* uv_run and the handles it serves, for any set of handles: the count     *)
(* that keeps the loop going, the watcher lists and the stack of closing   *)
(* handles stay right whatever callbacks do, and uv_run(UV_RUN_DEFAULT)    *)
(* returns only when nothing is left.  Then the life of a loop: what       *)
(* uv_loop_init and uv_loop_close acquire and give back, and uv_walk.      *)
(***************************************************************************)
EXTENDS Loop, LoopLife, QueueLemmas, FiniteSetTheorems

\* The bound on fed watchers counts the ones being run.
FeedsFit == pending_queue + pq <= MaxFeed

\* The inductive invariant of the loop.
LoopInv == TypeOK /\ FeedsFit /\ LoopConsistent

----------------------------------------------------------------------------
(* Counting.                                                               *)

LEMMA CountOne ==
    ASSUME NEW S \in SUBSET Handles, NEW h \in Handles
    PROVE  /\ Cardinality(S) \in Nat
           /\ Cardinality(S \cup {h}) = Cardinality(S) + IF h \in S THEN 0 ELSE 1
           /\ Cardinality(S \ {h}) = Cardinality(S) - IF h \in S THEN 1 ELSE 0
           /\ Cardinality(S \ {h}) \in Nat
<1>1. IsFiniteSet(S)
  BY LoopAssumption, FS_Subset
<1>2. IsFiniteSet(S \ {h})
  BY <1>1, FS_Subset
<1>3. Cardinality(S) \in Nat /\ Cardinality(S \ {h}) \in Nat
  BY <1>1, <1>2, FS_CardinalityType
<1>4. Cardinality(S \cup {h}) = IF h \in S THEN Cardinality(S) ELSE Cardinality(S) + 1
  BY <1>1, FS_AddElement
<1>5. Cardinality(S \ {h}) = IF h \in S THEN Cardinality(S) - 1 ELSE Cardinality(S)
  BY <1>1, FS_RemoveElement
<1> QED BY <1>3, <1>4, <1>5

LEMMA CountStart ==
    ASSUME TypeOK, ActiveCount, NEW h \in Handles, HandleStart(h), ref' = ref
    PROVE  ActiveCount' /\ active_handles' \in Nat
<1> DEFINE S == active \cap ref
<1>1. S \in SUBSET Handles
  BY DEF TypeOK
<1>2. active' \cap ref' = IF h \in ref THEN S \cup {h} ELSE S
  BY DEF HandleStart
<1>3. active_handles = Cardinality(S)
  BY DEF ActiveCount
<1>m. h \in S <=> h \in active /\ h \in ref
  OBVIOUS
<1> HIDE DEF S
<1>4. /\ Cardinality(S) \in Nat
      /\ Cardinality(S \cup {h}) = Cardinality(S) + IF h \in S THEN 0 ELSE 1
      /\ Cardinality(S \ {h}) = Cardinality(S) - IF h \in S THEN 1 ELSE 0
      /\ Cardinality(S \ {h}) \in Nat
  BY <1>1, CountOne
<1>5. ActiveCount' <=> active_handles' = Cardinality(active' \cap ref')
  BY DEF ActiveCount
<1>6. CASE h \in ref
  <2>1. active' \cap ref' = S \cup {h}
    BY <1>2, <1>6
  <2>2. active_handles' = active_handles + IF h \in S THEN 0 ELSE 1
    BY <1>6, <1>m DEF HandleStart
  <2>3. active_handles' = Cardinality(S \cup {h})
    BY <2>2, <1>3, <1>4
  <2>4. active_handles' \in Nat
    BY <2>2, <1>3, <1>4
  <2>5. ActiveCount'
    BY <2>1, <2>3, <1>5
  <2> QED BY <2>4, <2>5
<1>7. CASE ~(h \in ref)
  <2>1. active' \cap ref' = S
    BY <1>2, <1>7
  <2> QED BY <2>1, <1>3, <1>4, <1>5, <1>7, <1>m DEF HandleStart
<1> QED BY <1>6, <1>7

LEMMA CountStop ==
    ASSUME TypeOK, ActiveCount, NEW h \in Handles, HandleStop(h), ref' = ref
    PROVE  ActiveCount' /\ active_handles' \in Nat
<1> DEFINE S == active \cap ref
<1>1. S \in SUBSET Handles
  BY DEF TypeOK
<1>2. active' \cap ref' = S \ {h}
  BY DEF HandleStop
<1>3. active_handles = Cardinality(S)
  BY DEF ActiveCount
<1>m. h \in S <=> h \in active /\ h \in ref
  OBVIOUS
<1> HIDE DEF S
<1>4. /\ Cardinality(S) \in Nat
      /\ Cardinality(S \cup {h}) = Cardinality(S) + IF h \in S THEN 0 ELSE 1
      /\ Cardinality(S \ {h}) = Cardinality(S) - IF h \in S THEN 1 ELSE 0
      /\ Cardinality(S \ {h}) \in Nat
  BY <1>1, CountOne
<1>5. ActiveCount' <=> active_handles' = Cardinality(active' \cap ref')
  BY DEF ActiveCount
<1> QED BY <1>2, <1>3, <1>4, <1>5, <1>m DEF HandleStop

LEMMA CountUnref ==
    ASSUME TypeOK, ActiveCount, NEW h \in Handles, Unreference(h), active' = active
    PROVE  ActiveCount' /\ active_handles' \in Nat
<1> DEFINE S == active \cap ref
<1>1. S \in SUBSET Handles
  BY DEF TypeOK
<1>2. active' \cap ref' = S \ {h}
  BY DEF Unreference
<1>3. active_handles = Cardinality(S)
  BY DEF ActiveCount
<1>m. h \in S <=> h \in active /\ h \in ref
  OBVIOUS
<1> HIDE DEF S
<1>4. /\ Cardinality(S) \in Nat
      /\ Cardinality(S \cup {h}) = Cardinality(S) + IF h \in S THEN 0 ELSE 1
      /\ Cardinality(S \ {h}) = Cardinality(S) - IF h \in S THEN 1 ELSE 0
      /\ Cardinality(S \ {h}) \in Nat
  BY <1>1, CountOne
<1>5. ActiveCount' <=> active_handles' = Cardinality(active' \cap ref')
  BY DEF ActiveCount
<1> QED BY <1>2, <1>3, <1>4, <1>5, <1>m DEF Unreference

LEMMA CountRef ==
    ASSUME TypeOK, ActiveCount, NEW h \in Handles, h \notin ref, ref' = ref \cup {h}, active' = active,
           active_handles' = active_handles + IF h \in active THEN 1 ELSE 0
    PROVE  ActiveCount' /\ active_handles' \in Nat
<1> DEFINE S == active \cap ref
<1>1. S \in SUBSET Handles
  BY DEF TypeOK
<1>2. active' \cap ref' = IF h \in active THEN S \cup {h} ELSE S
  OBVIOUS
<1>3. active_handles = Cardinality(S)
  BY DEF ActiveCount
<1>m. h \in S <=> h \in active /\ h \in ref
  OBVIOUS
<1> HIDE DEF S
<1>4. /\ Cardinality(S) \in Nat
      /\ Cardinality(S \cup {h}) = Cardinality(S) + IF h \in S THEN 0 ELSE 1
      /\ Cardinality(S \ {h}) = Cardinality(S) - IF h \in S THEN 1 ELSE 0
      /\ Cardinality(S \ {h}) \in Nat
  BY <1>1, CountOne
<1>5. ActiveCount' <=> active_handles' = Cardinality(active' \cap ref')
  BY DEF ActiveCount
<1>6. CASE h \in active
  <2>1. active' \cap ref' = S \cup {h}
    BY <1>2, <1>6
  <2>2. active_handles' = active_handles + IF h \in S THEN 0 ELSE 1
    BY <1>6, <1>m
  <2>3. active_handles' = Cardinality(S \cup {h})
    BY <2>2, <1>3, <1>4
  <2>4. active_handles' \in Nat
    BY <2>2, <1>3, <1>4
  <2>5. ActiveCount'
    BY <2>1, <2>3, <1>5
  <2> QED BY <2>4, <2>5
<1>7. CASE ~(h \in active)
  <2>1. active' \cap ref' = S
    BY <1>2, <1>7
  <2>2. active_handles' = active_handles
    BY <1>7, <1>3, <1>4
  <2> QED BY <2>1, <2>2, <1>3, <1>4, <1>5
<1> QED BY <1>6, <1>7

\* What is counted by nobody: the flags of a handle that is not active.
LEMMA CountStays ==
    ASSUME ActiveCount, active' = active, active_handles' = active_handles,
           active \cap ref' = active \cap ref
    PROVE  ActiveCount'
BY DEF ActiveCount

----------------------------------------------------------------------------
(* The lists.                                                              *)

\* The watchers a phase still has to call, and the handles still to finish.
Walked(k) == IF pc = k THEN queue ELSE <<>>

LEMMA Empty == ToSet(<<>>) = {} /\ Distinct(<<>>) /\ \A S : <<>> \in Seq(S)
<1>1. Len(<<>>) = 0 /\ DOMAIN <<>> = {}
  BY EmptySeq
<1> QED BY <1>1, EmptySeq DEF ToSet, Distinct

LEMMA EmptyBack ==
    ASSUME NEW S, NEW q \in Seq(S), ToSet(q) = {}
    PROVE  q = <<>>
BY TailFacts

\* Leaving the list a handle is in, if any.
LEMMA Inactivated ==
    ASSUME TypeOK, WatchersListed, NEW h \in Handles, Inactivate(h), pc' = pc
    PROVE  /\ list' \in [Watchers -> Seq(Handles)]
           /\ queue' \in Seq(Handles)
           /\ WatchersListed'
           /\ pc = "closing" => queue' = queue
<1>1. list \in [Watchers -> Seq(Handles)] /\ queue \in Seq(Handles)
  BY DEF TypeOK
<1>2. list' = [k \in Watchers |-> Unlink(list[k], h)] /\ active' = active \ {h}
  BY DEF Inactivate, HandleStop
<1>3. queue' = IF pc \in Watchers THEN Unlink(queue, h) ELSE queue
  BY DEF Inactivate
<1>4. list' \in [Watchers -> Seq(Handles)]
  <2> SUFFICES ASSUME NEW k \in Watchers PROVE Unlink(list[k], h) \in Seq(Handles)
    BY <1>2
  <2> QED BY <1>1, UnlinkFacts
<1>5. queue' \in Seq(Handles)
  BY <1>1, <1>3, UnlinkFacts
<1>6. ASSUME NEW k \in Watchers
      PROVE  LET q == IF pc' = k THEN queue' ELSE <<>> IN
             /\ Distinct(list'[k])
             /\ Distinct(q)
             /\ ToSet(list'[k]) \cap ToSet(q) = {}
             /\ ToSet(list'[k]) \cup ToSet(q) = {g \in active' : KindOf[g] = k}
  <2> DEFINE p == IF pc = k THEN queue ELSE <<>>
             q == IF pc' = k THEN queue' ELSE <<>>
  <2>1. /\ Distinct(list[k]) /\ Distinct(p)
        /\ ToSet(list[k]) \cap ToSet(p) = {}
        /\ ToSet(list[k]) \cup ToSet(p) = {g \in active : KindOf[g] = k}
    BY DEF WatchersListed
  <2>2. list[k] \in Seq(Handles) /\ list'[k] = Unlink(list[k], h)
    BY <1>1, <1>2
  <2>3. /\ ToSet(list'[k]) = ToSet(list[k]) \ {h} /\ Distinct(list'[k])
    BY <2>1, <2>2, UnlinkFacts
  <2>4. ToSet(q) = ToSet(p) \ {h} /\ Distinct(q)
    <3>1. CASE pc = k
      <4>1. p = queue /\ q = Unlink(queue, h)
        BY <3>1, <1>3
      <4> QED BY <4>1, <2>1, <1>1, UnlinkFacts
    <3>2. CASE pc # k
      BY <3>2, Empty
    <3> QED BY <3>1, <3>2
  <2> HIDE DEF p, q
  <2>5. ToSet(list'[k]) \cup ToSet(q) = {g \in active' : KindOf[g] = k}
    BY <2>1, <2>3, <2>4, <1>2
  <2>6. Distinct(list'[k]) /\ Distinct(q) /\ ToSet(list'[k]) \cap ToSet(q) = {}
    BY <2>1, <2>3, <2>4
  <2> QED BY <2>5, <2>6 DEF q
<1>7. WatchersListed'
  BY <1>6 DEF WatchersListed
<1>8. pc = "closing" => queue' = queue
  BY <1>3 DEF Watchers
<1> QED BY <1>4, <1>5, <1>7, <1>8

\* A phase takes the whole list of its kind.
LEMMA Entered ==
    ASSUME TypeOK, WatchersListed, NEW k \in Watchers, Enter(k), active' = active,
           pc \in Watchers => queue = <<>>
    PROVE  /\ list' \in [Watchers -> Seq(Handles)]
           /\ queue' \in Seq(Handles)
           /\ WatchersListed'
<1>1. list \in [Watchers -> Seq(Handles)] /\ queue \in Seq(Handles)
  BY DEF TypeOK
<1>2. pc' = k /\ queue' = list[k] /\ list' = [list EXCEPT ![k] = <<>>]
  BY DEF Enter
<1>3. list' \in [Watchers -> Seq(Handles)] /\ queue' \in Seq(Handles)
  BY <1>1, <1>2, Empty
<1>4. ASSUME NEW j \in Watchers
      PROVE  LET q == IF pc' = j THEN queue' ELSE <<>> IN
             /\ Distinct(list'[j])
             /\ Distinct(q)
             /\ ToSet(list'[j]) \cap ToSet(q) = {}
             /\ ToSet(list'[j]) \cup ToSet(q) = {g \in active' : KindOf[g] = j}
  <2> DEFINE p == IF pc = j THEN queue ELSE <<>>
  <2>1. /\ Distinct(list[j]) /\ Distinct(p)
        /\ ToSet(list[j]) \cup ToSet(p) = {g \in active : KindOf[g] = j}
    BY DEF WatchersListed
  <2>2. p = <<>>
    OBVIOUS
  <2>3. ToSet(list[j]) = {g \in active : KindOf[g] = j}
    BY <2>1, <2>2, Empty
  <2>4. CASE j = k
    <3>1. list'[j] = <<>> /\ queue' = list[j] /\ pc' = j
      BY <2>4, <1>1, <1>2
    <3> QED BY <3>1, <2>1, <2>3, Empty
  <2>5. CASE j # k
    <3>1. list'[j] = list[j] /\ pc' # j
      BY <2>5, <1>1, <1>2
    <3> QED BY <3>1, <2>1, <2>3, Empty
  <2> QED BY <2>4, <2>5
<1>5. WatchersListed'
  BY <1>4 DEF WatchersListed
<1> QED BY <1>3, <1>5

\* QUEUE_INSERT_HEAD, and the push on the stack of closing handles.
LEMMA Pushed ==
    ASSUME NEW q \in Seq(Handles), NEW h \in Handles
    PROVE  /\ <<h>> \o q \in Seq(Handles)
           /\ ToSet(<<h>> \o q) = {h} \cup ToSet(q)
           /\ Distinct(q) /\ h \notin ToSet(q) => Distinct(<<h>> \o q)
<1> DEFINE a == <<h>>
<1>1. a \in Seq(Handles) /\ ToSet(a) = {h} /\ Distinct(a)
  BY DEF ToSet, Distinct
<1> HIDE DEF a
<1>2. /\ a \o q \in Seq(Handles)
      /\ ToSet(a \o q) = ToSet(a) \cup ToSet(q)
      /\ Distinct(a \o q) <=> Distinct(a) /\ Distinct(q) /\ ToSet(a) \cap ToSet(q) = {}
  BY <1>1, ConcatFacts
<1>3. h \notin ToSet(q) => ToSet(a) \cap ToSet(q) = {}
  BY <1>1
<1> QED BY <1>1, <1>2, <1>3 DEF a

Phases == Watchers \cup {"closing"}

\* Between phases no list is being walked.
LEMMA ListsStay ==
    ASSUME WatchersListed, ClosingListed, UNCHANGED <<hstate, active, list, queue, closing_handles>>,
           \/ pc' = pc
           \/ pc' \notin Phases /\ (pc \in Phases => queue = <<>>)
    PROVE  WatchersListed' /\ ClosingListed'
<1>1. \A k \in Phases : Walked(k)' = Walked(k)
  BY DEF Walked
<1>2. WatchersListed'
  <2>1. \A k \in Watchers : Walked(k)' = Walked(k)
    BY <1>1 DEF Phases
  <2> QED BY <2>1 DEF WatchersListed, Walked
<1>3. ClosingListed'
  <2>1. Walked("closing")' = Walked("closing")
    BY <1>1 DEF Phases
  <2> QED BY <2>1 DEF ClosingListed, Walked, Closing
<1> QED BY <1>2, <1>3

----------------------------------------------------------------------------
(* The calls of user code.                                                 *)

LEMMA LoopBegins == Init => LoopInv
<1> SUFFICES ASSUME Init PROVE LoopInv
  OBVIOUS
<1>1. TypeOK
  <2>1. list \in [Watchers -> Seq(Handles)]
    BY Empty DEF Init
  <2>2. queue \in Seq(Handles) /\ closing_handles \in Seq(Handles)
    BY Empty DEF Init
  <2>3. pending_queue \in 0..MaxFeed /\ pq \in 0..MaxFeed /\ active_reqs \in 0..MaxReqs
    BY LoopAssumption DEF Init
  <2> QED BY <2>1, <2>2, <2>3 DEF Init, TypeOK
<1>2. FeedsFit
  BY LoopAssumption DEF Init, FeedsFit
<1>3. ActiveCount
  BY FS_EmptySet DEF Init, ActiveCount
<1>4. WatchersListed
  BY Empty DEF Init, WatchersListed, Watchers
<1>5. ClosingListed
  BY Empty DEF Init, ClosingListed, Closing
<1> QED BY <1>1, <1>2, <1>3, <1>4, <1>5 DEF LoopInv, LoopConsistent

LEMMA HandleInitStep ==
    ASSUME LoopInv, NEW h \in Handles, HandleInit(h)
    PROVE  LoopInv'
<1> USE DEF listVars, timerVars, feedVars, pollVars, runVars
<1>1. TypeOK /\ FeedsFit /\ ActiveCount /\ WatchersListed /\ ClosingListed
  BY DEF LoopInv, LoopConsistent
<1>2. TypeOK'
  BY <1>1, ZenonT(60) DEF TypeOK, HandleInit
<1>3. FeedsFit'
  BY <1>1 DEF FeedsFit, HandleInit
<1>4. h \notin active
  BY <1>1 DEF TypeOK, HandleInit
<1>5. ActiveCount'
  BY <1>1, <1>4, CountStays DEF HandleInit
<1>6. Closing' = Closing
  BY <1>1 DEF TypeOK, HandleInit, Closing
<1>7. WatchersListed' /\ ClosingListed'
  BY <1>1, <1>6 DEF HandleInit, WatchersListed, ClosingListed
<1> QED BY <1>2, <1>3, <1>5, <1>7 DEF LoopInv, LoopConsistent

LEMMA WatcherStartStep ==
    ASSUME LoopInv, NEW h \in Handles, WatcherStart(h)
    PROVE  LoopInv'
<1> USE DEF listVars, timerVars, feedVars, pollVars, runVars
<1> DEFINE K == KindOf[h]
<1>1. TypeOK /\ FeedsFit /\ ActiveCount /\ WatchersListed /\ ClosingListed
  BY DEF LoopInv, LoopConsistent
<1>2. ActiveCount' /\ active_handles' \in Nat
  BY <1>1, CountStart DEF WatcherStart
<1>3. list \in [Watchers -> Seq(Handles)] /\ active \subseteq Handles /\ queue \in Seq(Handles)
  BY <1>1 DEF TypeOK
<1>4. /\ list' = [list EXCEPT ![K] = <<h>> \o @] /\ K \in Watchers /\ h \notin active
      /\ active' = active \cup {h} /\ UNCHANGED <<queue, pc, hstate, closing_handles>>
  BY DEF WatcherStart, HandleStart
<1>6. list' \in [Watchers -> Seq(Handles)]
  BY <1>3, <1>4, Pushed
<1>7. TypeOK'
  BY <1>1, <1>2, <1>6, ZenonT(60) DEF TypeOK, WatcherStart, HandleStart
<1>8. WatchersListed'
  <2> SUFFICES ASSUME NEW k \in Watchers
      PROVE  /\ Distinct(list'[k])
             /\ Distinct(Walked(k)')
             /\ ToSet(list'[k]) \cap ToSet(Walked(k)') = {}
             /\ ToSet(list'[k]) \cup ToSet(Walked(k)') = {g \in active' : KindOf[g] = k}
    BY DEF WatchersListed, Walked
  <2>1. Walked(k)' = Walked(k)
    BY <1>4 DEF Walked
  <2>2. /\ Distinct(list[k]) /\ Distinct(Walked(k))
        /\ ToSet(list[k]) \cap ToSet(Walked(k)) = {}
        /\ ToSet(list[k]) \cup ToSet(Walked(k)) = {g \in active : KindOf[g] = k}
    BY <1>1 DEF WatchersListed, Walked
  <2>3. CASE k = K
    <3>1. list'[k] = <<h>> \o list[k]
      BY <2>3, <1>3, <1>4
    <3>2. h \notin ToSet(list[k]) /\ h \notin ToSet(Walked(k))
      BY <2>2, <1>4
    <3>3. ToSet(list'[k]) = {h} \cup ToSet(list[k]) /\ Distinct(list'[k])
      BY <3>1, <3>2, <2>2, <1>3, Pushed
    <3> QED BY <3>2, <3>3, <2>1, <2>2, <2>3, <1>4
  <2>4. CASE k # K
    <3>1. list'[k] = list[k]
      BY <2>4, <1>3, <1>4
    <3> QED BY <3>1, <2>1, <2>2, <2>4, <1>4
  <2> QED BY <2>3, <2>4
<1>9. ClosingListed'
  BY <1>1, <1>4 DEF ClosingListed, Closing
<1>10. FeedsFit'
  BY <1>1 DEF FeedsFit, WatcherStart
<1> QED BY <1>2, <1>7, <1>8, <1>9, <1>10 DEF LoopInv, LoopConsistent

LEMMA TimerStartStep ==
    ASSUME LoopInv, NEW h \in Handles, NEW due \in BOOLEAN, NEW rep \in BOOLEAN, TimerStart(h, due, rep)
    PROVE  LoopInv'
<1> USE DEF listVars, timerVars, feedVars, pollVars, runVars
<1>1. TypeOK /\ FeedsFit /\ ActiveCount /\ WatchersListed /\ ClosingListed
  BY DEF LoopInv, LoopConsistent
<1>2. ActiveCount' /\ active_handles' \in Nat
  BY <1>1, CountStart DEF TimerStart
<1>3. TypeOK'
  <2>1. active' = active \cup {h} /\ hstate[h] = "open" /\ KindOf[h] = "timer"
    BY DEF TimerStart, HandleStart
  <2>2. UNCHANGED <<hstate, ref, listVars, closing_handles, feedVars, active_reqs, stop_flag,
                    pollVars, runVars>>
    BY DEF TimerStart
  <2>3. expired' \subseteq expired \cup {h} /\ repeating' \subseteq repeating \cup {h}
    BY DEF TimerStart
  <2>4. expired' \subseteq {g \in active' : KindOf[g] = "timer"}
    BY <2>1, <2>3, <1>1 DEF TypeOK
  <2>5. active' \subseteq {g \in Handles : hstate'[g] = "open"} /\ repeating' \subseteq Handles
    BY <2>1, <2>2, <2>3, <1>1 DEF TypeOK
  <2> QED BY <2>2, <2>4, <2>5, <1>1, <1>2, ZenonT(60) DEF TypeOK
<1>4. FeedsFit'
  BY <1>1 DEF FeedsFit, TimerStart
<1>5. \A k \in Watchers : {g \in active' : KindOf[g] = k} = {g \in active : KindOf[g] = k}
  BY DEF TimerStart, HandleStart, Watchers
<1>6. WatchersListed' /\ ClosingListed'
  BY <1>1, <1>5 DEF TimerStart, WatchersListed, ClosingListed, Closing
<1> QED BY <1>2, <1>3, <1>4, <1>6 DEF LoopInv, LoopConsistent

LEMMA StopStep ==
    ASSUME LoopInv, NEW h \in Handles, Stop(h)
    PROVE  LoopInv'
<1> USE DEF listVars, timerVars, feedVars, pollVars, runVars
<1>1. TypeOK /\ FeedsFit /\ ActiveCount /\ WatchersListed /\ ClosingListed
  BY DEF LoopInv, LoopConsistent
<1>2. ActiveCount' /\ active_handles' \in Nat
  BY <1>1, CountStop DEF Stop, Inactivate
<1>3. /\ list' \in [Watchers -> Seq(Handles)] /\ queue' \in Seq(Handles) /\ WatchersListed'
      /\ pc = "closing" => queue' = queue
  BY <1>1, Inactivated DEF Stop
<1>4. TypeOK'
  <2>1. active' = active \ {h} /\ expired' = expired \ {h}
    BY DEF Stop, Inactivate, HandleStop
  <2>2. UNCHANGED <<hstate, ref, repeating, closing_handles, feedVars, active_reqs, stop_flag,
                    pollVars, runVars>>
    BY DEF Stop
  <2>3. expired' \subseteq {g \in active' : KindOf[g] = "timer"}
    BY <2>1, <1>1 DEF TypeOK
  <2> QED BY <2>1, <2>2, <2>3, <1>1, <1>2, <1>3, ZenonT(60) DEF TypeOK
<1>5. FeedsFit'
  BY <1>1 DEF FeedsFit, Stop
<1>6. ClosingListed'
  BY <1>1, <1>3 DEF Stop, ClosingListed, Closing
<1> QED BY <1>2, <1>3, <1>4, <1>5, <1>6 DEF LoopInv, LoopConsistent

LEMMA RefStep ==
    ASSUME LoopInv, NEW h \in Handles, Ref(h) \/ Unref(h)
    PROVE  LoopInv'
<1> USE DEF listVars, timerVars, feedVars, pollVars, runVars
<1>1. TypeOK /\ FeedsFit /\ ActiveCount /\ WatchersListed /\ ClosingListed
  BY DEF LoopInv, LoopConsistent
<1>2. ActiveCount' /\ active_handles' \in Nat
  <2>1. CASE Ref(h)
    BY <2>1, <1>1, CountRef DEF Ref
  <2>2. CASE Unref(h)
    BY <2>2, <1>1, CountUnref DEF Unref
  <2> QED BY <2>1, <2>2
<1>3. TypeOK'
  <2>1. ref' \subseteq {g \in Handles : hstate[g] # "none"}
    BY <1>1 DEF TypeOK, Ref, Unref, Unreference
  <2>2. UNCHANGED <<hstate, active, listVars, timerVars, closing_handles, feedVars, active_reqs,
                    stop_flag, pollVars, runVars>>
    BY DEF Ref, Unref
  <2> QED BY <2>1, <2>2, <1>1, <1>2, ZenonT(60) DEF TypeOK
<1>4. FeedsFit'
  BY <1>1 DEF FeedsFit, Ref, Unref
<1>5. WatchersListed' /\ ClosingListed'
  BY <1>1, ListsStay DEF Ref, Unref
<1> QED BY <1>2, <1>3, <1>4, <1>5 DEF LoopInv, LoopConsistent

LEMMA CloseStep ==
    ASSUME LoopInv, NEW h \in Handles, Close(h)
    PROVE  LoopInv'
<1> USE DEF listVars, timerVars, feedVars, pollVars, runVars
<1>1. TypeOK /\ FeedsFit /\ ActiveCount /\ WatchersListed /\ ClosingListed
  BY DEF LoopInv, LoopConsistent
<1>2. ActiveCount' /\ active_handles' \in Nat
  BY <1>1, CountStop DEF Close, Inactivate
<1>3. /\ list' \in [Watchers -> Seq(Handles)] /\ queue' \in Seq(Handles) /\ WatchersListed'
      /\ pc = "closing" => queue' = queue
  BY <1>1, Inactivated DEF Close
<1>4. closing_handles \in Seq(Handles) /\ hstate \in [Handles -> {"none", "open", "closing"}]
  BY <1>1 DEF TypeOK
<1>5. /\ closing_handles' = <<h>> \o closing_handles /\ hstate[h] = "open"
      /\ hstate' = [hstate EXCEPT ![h] = "closing"] /\ pc' = pc
  BY DEF Close
<1>7. closing_handles' \in Seq(Handles)
  BY <1>4, <1>5, Pushed
<1>8. TypeOK'
  BY <1>1, <1>2, <1>3, <1>7, ZenonT(60) DEF TypeOK, Close, Inactivate, HandleStop
<1>9. FeedsFit'
  BY <1>1 DEF FeedsFit, Close
<1>10. ClosingListed'
  <2>1. Walked("closing")' = Walked("closing")
    BY <1>3, <1>5 DEF Walked
  <2>2. /\ Distinct(closing_handles) /\ Distinct(Walked("closing"))
        /\ ToSet(closing_handles) \cap ToSet(Walked("closing")) = {}
        /\ ToSet(closing_handles) \cup ToSet(Walked("closing")) = Closing
    BY <1>1 DEF ClosingListed, Walked
  <2>3. Closing' = Closing \cup {h} /\ h \notin Closing
    BY <1>4, <1>5 DEF Closing
  <2>4. ToSet(closing_handles') = {h} \cup ToSet(closing_handles) /\ Distinct(closing_handles')
    <3>1. h \notin ToSet(closing_handles)
      BY <2>2, <2>3
    <3> QED BY <3>1, <2>2, <1>4, <1>5, Pushed
  <2>5. /\ Distinct(closing_handles') /\ Distinct(Walked("closing")')
        /\ ToSet(closing_handles') \cap ToSet(Walked("closing")') = {}
        /\ ToSet(closing_handles') \cup ToSet(Walked("closing")') = Closing'
    BY <2>1, <2>2, <2>3, <2>4
  <2> QED BY <2>5 DEF ClosingListed, Walked
<1> QED BY <1>2, <1>3, <1>8, <1>9, <1>10 DEF LoopInv, LoopConsistent

----------------------------------------------------------------------------
(* The steps of uv_run.                                                    *)

\* Steps that touch no handle.
Quiet == UNCHANGED <<hstate, active, ref, active_handles, list, queue, repeating, closing_handles>>

LEMMA QuietStep ==
    ASSUME LoopInv, Quiet, TypeOK', FeedsFit',
           \/ pc' = pc
           \/ pc' \notin Phases /\ (pc \in Phases => queue = <<>>)
    PROVE  LoopInv'
<1>1. WatchersListed' /\ ClosingListed'
  BY ListsStay DEF LoopInv, LoopConsistent, Quiet
<1>2. ActiveCount'
  BY CountStays DEF LoopInv, LoopConsistent, Quiet
<1> QED BY <1>1, <1>2 DEF LoopInv, LoopConsistent

LEMMA UserQuietStep ==
    ASSUME LoopInv, StopLoop \/ Feed \/ Request \/ CallbackReturn \/ RunPending \/ PollEvent
    PROVE  LoopInv'
<1> USE DEF flagVars, listVars, timerVars, feedVars, pollVars, runVars
<1>1. TypeOK /\ FeedsFit
  BY DEF LoopInv
<1>2. Quiet /\ pc' = pc
  BY DEF Quiet, StopLoop, Feed, Request, CallbackReturn, RunPending, PollEvent
<1>f. pending_queue \in 0..MaxFeed /\ pq \in 0..MaxFeed /\ pending_queue + pq <= MaxFeed
  BY <1>1 DEF TypeOK, FeedsFit
<1>g. \/ UNCHANGED <<pending_queue, pq>>
      \/ pending_queue + pq < MaxFeed /\ pending_queue' = pending_queue + 1 /\ pq' = pq
      \/ pq > 0 /\ pq' = pq - 1 /\ pending_queue' = pending_queue
  BY DEF StopLoop, Feed, Request, CallbackReturn, RunPending, PollEvent
<1>3. FeedsFit'
  BY <1>f, <1>g, LoopAssumption DEF FeedsFit
<1>4. pending_queue' \in 0..MaxFeed /\ pq' \in 0..MaxFeed
  BY <1>f, <1>g, LoopAssumption
<1>5. active_reqs' \in 0..MaxReqs
  <2>1. active_reqs \in 0..MaxReqs
    BY <1>1 DEF TypeOK
  <2>2. \/ active_reqs' = active_reqs
        \/ active_reqs < MaxReqs /\ active_reqs' = active_reqs + 1
        \/ active_reqs' = active_reqs - 1 /\ active_reqs' \in Nat
    BY DEF StopLoop, Feed, Request, CallbackReturn, RunPending, PollEvent
  <2> QED BY <2>1, <2>2, LoopAssumption
<1>6. /\ stop_flag' \in BOOLEAN /\ user' \in BOOLEAN /\ polled' \in BOOLEAN
      /\ UNCHANGED <<expired, mode, ran_pending, block>>
  BY <1>1 DEF TypeOK, StopLoop, Feed, Request, CallbackReturn, RunPending, PollEvent
<1>7. TypeOK'
  BY <1>1, <1>2, <1>4, <1>5, <1>6 DEF TypeOK, Quiet
<1> QED BY <1>2, <1>3, <1>7, QuietStep

LEMMA MoveStep ==
    ASSUME LoopInv,
           \/ \E m \in {"DEFAULT", "ONCE", "NOWAIT"} : RunBegin(m)
           \/ TimersDone \/ PrepareDone \/ ClosingDone \/ TimersAgainDone \/ RunEnd
    PROVE  LoopInv'
<1> USE DEF flagVars, listVars, timerVars, feedVars, pollVars, runVars
<1>1. TypeOK /\ FeedsFit
  BY DEF LoopInv
<1>2. Quiet
  BY DEF Quiet, RunBegin, TimersDone, PrepareDone, ClosingDone, TimersAgainDone, RunEnd
<1>3. pc' = pc \/ (pc' \notin Phases /\ (pc \in Phases => queue = <<>>))
  BY DEF Phases, Watchers, RunBegin, TimersDone, PrepareDone, ClosingDone, TimersAgainDone, RunEnd
<1>4. FeedsFit' /\ pending_queue' \in 0..MaxFeed /\ pq' \in 0..MaxFeed
  <2>1. \/ UNCHANGED <<pending_queue, pq>>
        \/ pending_queue' = 0 /\ pq' = pending_queue
    BY DEF RunBegin, TimersDone, PrepareDone, ClosingDone, TimersAgainDone, RunEnd
  <2>2. pending_queue \in 0..MaxFeed /\ pq \in 0..MaxFeed /\ pending_queue + pq <= MaxFeed
    BY <1>1 DEF TypeOK, FeedsFit
  <2> QED BY <2>1, <2>2, LoopAssumption DEF FeedsFit
<1>5. expired' \subseteq {g \in active : KindOf[g] = "timer"}
  <2>1. Update => expired' \subseteq {g \in active : KindOf[g] = "timer"}
    BY <1>1 DEF Update, TypeOK
  <2>2. Update \/ expired' = expired
    BY DEF RunBegin, TimersDone, PrepareDone, ClosingDone, TimersAgainDone, RunEnd
  <2> QED BY <2>1, <2>2, <1>1 DEF TypeOK
<1>6. /\ pc' \in {"out", "timers", "pending", "idle", "prepare", "poll", "check", "closing",
                  "timers again", "end"}
      /\ mode' \in {"DEFAULT", "ONCE", "NOWAIT"}
  BY <1>1 DEF TypeOK, RunBegin, TimersDone, PrepareDone, ClosingDone, TimersAgainDone, RunEnd
<1>7. stop_flag' \in BOOLEAN /\ user' \in BOOLEAN /\ polled' \in BOOLEAN
  BY <1>1 DEF TypeOK, RunBegin, TimersDone, PrepareDone, ClosingDone, TimersAgainDone, RunEnd
<1>8. ran_pending' \in BOOLEAN
  <2>1. ran_pending' = ran_pending \/ ran_pending' = FALSE \/ ran_pending' = (pending_queue > 0)
    BY Zenon DEF RunBegin, TimersDone, PrepareDone, ClosingDone, TimersAgainDone, RunEnd
  <2>2. (pending_queue > 0) \in BOOLEAN /\ FALSE \in BOOLEAN
    OBVIOUS
  <2>3. ran_pending \in BOOLEAN
    BY <1>1 DEF TypeOK
  <2> QED BY <2>1, <2>2, <2>3, Zenon
<1>9. block' \in {"no", "timer", "forever"} /\ active_reqs' = active_reqs
  <2>1. backend_timeout \in {"no", "timer", "forever"}
    BY DEF backend_timeout, WaitUnless
  <2> QED BY <2>1, <1>1
          DEF TypeOK, RunBegin, TimersDone, PrepareDone, ClosingDone, TimersAgainDone, RunEnd
<1>10. TypeOK'
  BY <1>1, <1>2, <1>4, <1>5, <1>6, <1>7, <1>8, <1>9 DEF TypeOK, Quiet
<1> QED BY <1>2, <1>3, <1>4, <1>10, QuietStep

\* A one-shot timer stops, a repeating one stays active, before the callback.
LEMMA RunTimerStep ==
    ASSUME LoopInv, NEW h \in Handles, RunTimer(h)
    PROVE  LoopInv'
<1> USE DEF listVars, timerVars, feedVars, pollVars, runVars
<1>1. TypeOK /\ FeedsFit /\ ActiveCount /\ WatchersListed /\ ClosingListed
  BY DEF LoopInv, LoopConsistent
<1>2. ActiveCount' /\ active_handles' \in Nat
  <2>1. CASE HandleStop(h)
    BY <2>1, <1>1, CountStop DEF RunTimer
  <2>2. CASE UNCHANGED <<active, active_handles>>
    BY <2>2, <1>1, CountStays DEF RunTimer, TypeOK
  <2> QED BY <2>1, <2>2 DEF RunTimer
<1>3. /\ active' \subseteq active /\ active \subseteq active' \cup {h}
      /\ h \in expired /\ expired' = expired \ {h}
  BY DEF RunTimer, HandleStop
<1>4. UNCHANGED <<hstate, ref, listVars, repeating, closing_handles, feedVars, active_reqs,
                  stop_flag, pollVars, mode, pc>> /\ user' = TRUE
  BY DEF RunTimer
<1>5. KindOf[h] = "timer"
  BY <1>1, <1>3 DEF TypeOK
<1>6. expired' \subseteq {g \in active' : KindOf[g] = "timer"}
  BY <1>1, <1>3 DEF TypeOK
<1>7. active' \subseteq {g \in Handles : hstate'[g] = "open"}
  BY <1>1, <1>3, <1>4 DEF TypeOK
<1>8. TypeOK'
  BY <1>1, <1>2, <1>4, <1>6, <1>7, ZenonT(60) DEF TypeOK
<1>9. FeedsFit'
  BY <1>1, <1>4 DEF FeedsFit
<1>10. \A k \in Watchers : {g \in active' : KindOf[g] = k} = {g \in active : KindOf[g] = k}
  BY <1>3, <1>5 DEF Watchers
<1>11. WatchersListed' /\ ClosingListed'
  BY <1>1, <1>4, <1>10 DEF WatchersListed, ClosingListed, Closing
<1> QED BY <1>2, <1>8, <1>9, <1>11 DEF LoopInv, LoopConsistent

LEMMA EnterStep ==
    ASSUME LoopInv, PendingDone \/ IdleDone \/ PollReturn
    PROVE  LoopInv'
<1> USE DEF flagVars, timerVars, feedVars, pollVars, runVars
<1>1. TypeOK /\ FeedsFit /\ ActiveCount /\ WatchersListed /\ ClosingListed
  BY DEF LoopInv, LoopConsistent
<1>2. PICK k \in Watchers : Enter(k)
  BY DEF PendingDone, IdleDone, PollReturn, Watchers
<1>3. /\ UNCHANGED <<hstate, active, ref, active_handles, expired, repeating, closing_handles,
                     pending_queue, pq, active_reqs, stop_flag, ran_pending, mode, user>>
      /\ pc \in {"pending", "idle", "poll"}
      /\ pc = "idle" => queue = <<>>
  BY DEF PendingDone, IdleDone, PollReturn
<1>4. block' \in {"no", "timer", "forever"} /\ polled' \in BOOLEAN
  BY <1>1 DEF PendingDone, IdleDone, PollReturn, TypeOK
<1>5. pc \in Watchers => queue = <<>>
  BY <1>3 DEF Watchers
<1>6. list' \in [Watchers -> Seq(Handles)] /\ queue' \in Seq(Handles) /\ WatchersListed'
  BY <1>1, <1>2, <1>3, <1>5, Entered
<1>7. pc' \in {"idle", "prepare", "check"}
  BY <1>2 DEF Enter, Watchers
<1>8. TypeOK'
  BY <1>1, <1>3, <1>4, <1>6, <1>7 DEF TypeOK
<1>9. FeedsFit' /\ ActiveCount'
  BY <1>1, <1>3 DEF FeedsFit, ActiveCount
<1>10. ClosingListed'
  <2>1. pc # "closing" /\ pc' # "closing"
    BY <1>3, <1>7
  <2> QED BY <2>1, <1>1, <1>3 DEF ClosingListed, Closing
<1> QED BY <1>6, <1>8, <1>9, <1>10 DEF LoopInv, LoopConsistent

\* The round of a watcher goes to the end of its list before its callback.
LEMMA RunWatcherStep ==
    ASSUME LoopInv, NEW k \in Watchers, RunWatcher(k)
    PROVE  LoopInv'
<1> USE DEF flagVars, timerVars, feedVars, pollVars, runVars
<1>1. TypeOK /\ FeedsFit /\ ActiveCount /\ WatchersListed /\ ClosingListed
  BY DEF LoopInv, LoopConsistent
<1>2. /\ UNCHANGED <<hstate, active, ref, active_handles, expired, repeating, closing_handles,
                     pending_queue, pq, active_reqs, stop_flag, ran_pending, block, polled, mode, pc>>
      /\ user' = TRUE /\ pc = k /\ queue # <<>> /\ queue' = Tail(queue)
      /\ list' = [list EXCEPT ![k] = Append(@, Head(queue))]
  BY DEF RunWatcher
<1>3. list \in [Watchers -> Seq(Handles)] /\ queue \in Seq(Handles)
  BY <1>1 DEF TypeOK
<1>4. PICK h : h = Head(queue)
  OBVIOUS
<1>5. /\ h \in Handles /\ queue' \in Seq(Handles)
      /\ ToSet(queue) = ToSet(queue') \cup {h}
      /\ Distinct(queue) => Distinct(queue') /\ h \notin ToSet(queue')
  BY <1>2, <1>3, <1>4, TailFacts
<1>6. list' \in [Watchers -> Seq(Handles)]
  BY <1>2, <1>3, <1>4, <1>5, AppendFacts
<1>7. TypeOK'
  BY <1>1, <1>2, <1>5, <1>6, ZenonT(60) DEF TypeOK
<1>8. FeedsFit' /\ ActiveCount'
  BY <1>1, <1>2 DEF FeedsFit, ActiveCount
<1>9. WatchersListed'
  <2> SUFFICES ASSUME NEW j \in Watchers
      PROVE  /\ Distinct(list'[j])
             /\ Distinct(Walked(j)')
             /\ ToSet(list'[j]) \cap ToSet(Walked(j)') = {}
             /\ ToSet(list'[j]) \cup ToSet(Walked(j)') = {g \in active' : KindOf[g] = j}
    BY DEF WatchersListed, Walked
  <2>1. /\ Distinct(list[j]) /\ Distinct(Walked(j))
        /\ ToSet(list[j]) \cap ToSet(Walked(j)) = {}
        /\ ToSet(list[j]) \cup ToSet(Walked(j)) = {g \in active : KindOf[g] = j}
    BY <1>1 DEF WatchersListed, Walked
  <2>2. CASE j = k
    <3>1. Walked(j) = queue /\ Walked(j)' = queue' /\ list'[j] = Append(list[j], h)
      BY <2>2, <1>2, <1>3, <1>4 DEF Walked
    <3>2. h \notin ToSet(list[j])
      BY <3>1, <2>1, <1>5
    <3>3. ToSet(list'[j]) = ToSet(list[j]) \cup {h} /\ Distinct(list'[j])
      BY <3>1, <3>2, <2>1, <1>3, <1>5, AppendFacts
    <3> QED BY <3>1, <3>3, <2>1, <1>2, <1>5
  <2>3. CASE j # k
    <3>1. Walked(j) = <<>> /\ Walked(j)' = <<>> /\ list'[j] = list[j]
      BY <2>3, <1>2, <1>3 DEF Walked
    <3> QED BY <3>1, <2>1, <1>2
  <2> QED BY <2>2, <2>3
<1>10. ClosingListed'
  <2>1. pc # "closing"
    BY <1>2 DEF Watchers
  <2> QED BY <2>1, <1>1, <1>2 DEF ClosingListed, Closing
<1> QED BY <1>7, <1>8, <1>9, <1>10 DEF LoopInv, LoopConsistent

LEMMA CheckDoneStep ==
    ASSUME LoopInv, CheckDone
    PROVE  LoopInv'
<1> USE DEF flagVars, timerVars, feedVars, pollVars, runVars
<1>1. TypeOK /\ FeedsFit /\ ActiveCount /\ WatchersListed /\ ClosingListed
  BY DEF LoopInv, LoopConsistent
<1>2. /\ UNCHANGED <<hstate, active, ref, active_handles, list, expired, repeating, pending_queue, pq,
                     active_reqs, stop_flag, ran_pending, block, polled, mode, user>>
      /\ pc = "check" /\ queue = <<>> /\ pc' = "closing"
      /\ queue' = closing_handles /\ closing_handles' = <<>>
  BY DEF CheckDone
<1>3. TypeOK'
  BY <1>1, <1>2, Empty DEF TypeOK
<1>4. FeedsFit' /\ ActiveCount'
  BY <1>1, <1>2 DEF FeedsFit, ActiveCount
<1>5. WatchersListed'
  <2>1. \A k \in Watchers : Walked(k)' = Walked(k)
    BY <1>2 DEF Walked, Watchers
  <2> QED BY <2>1, <1>1, <1>2 DEF WatchersListed, Walked
<1>6. ClosingListed'
  BY <1>1, <1>2, Empty DEF ClosingListed, Closing
<1> QED BY <1>3, <1>4, <1>5, <1>6 DEF LoopInv, LoopConsistent

\* uv__finish_close: the handle is not active, so only its flags change.
LEMMA FinishCloseStep ==
    ASSUME LoopInv, FinishClose
    PROVE  LoopInv'
<1> USE DEF timerVars, feedVars, pollVars, runVars
<1>1. TypeOK /\ FeedsFit /\ ActiveCount /\ WatchersListed /\ ClosingListed
  BY DEF LoopInv, LoopConsistent
<1>2. PICK h : h = Head(queue)
  OBVIOUS
<1>3. /\ UNCHANGED <<active, list, expired, repeating, closing_handles, pending_queue, pq,
                     active_reqs, stop_flag, ran_pending, block, polled, mode, pc>>
      /\ user' = TRUE /\ pc = "closing" /\ queue # <<>> /\ queue' = Tail(queue)
      /\ hstate' = [hstate EXCEPT ![h] = "none"] /\ Unreference(h)
  BY <1>2 DEF FinishClose
<1>4. queue \in Seq(Handles) /\ hstate \in [Handles -> {"none", "open", "closing"}]
  BY <1>1 DEF TypeOK
<1>5. /\ h \in Handles /\ queue' \in Seq(Handles)
      /\ ToSet(queue) = ToSet(queue') \cup {h}
      /\ Distinct(queue) => Distinct(queue') /\ h \notin ToSet(queue')
  BY <1>2, <1>3, <1>4, TailFacts
<1>6. /\ Distinct(closing_handles) /\ Distinct(queue)
      /\ ToSet(closing_handles) \cap ToSet(queue) = {}
      /\ ToSet(closing_handles) \cup ToSet(queue) = Closing
  BY <1>1, <1>3 DEF ClosingListed
<1>7. hstate[h] = "closing"
  BY <1>5, <1>6 DEF Closing
<1>8. ActiveCount' /\ active_handles' \in Nat
  BY <1>1, <1>3, <1>5, CountUnref
<1>9. /\ active' \subseteq {g \in Handles : hstate'[g] = "open"}
      /\ ref' \subseteq {g \in Handles : hstate'[g] # "none"}
  BY <1>1, <1>3, <1>4, <1>5, <1>7 DEF TypeOK, Unreference
<1>10. TypeOK'
  BY <1>1, <1>3, <1>4, <1>5, <1>8, <1>9 DEF TypeOK
<1>11. FeedsFit'
  BY <1>1, <1>3 DEF FeedsFit
<1>12. WatchersListed'
  <2>1. \A k \in Watchers : Walked(k)' = Walked(k)
    BY <1>3 DEF Walked, Watchers
  <2> QED BY <2>1, <1>1, <1>3 DEF WatchersListed, Walked
<1>13. Closing' = Closing \ {h}
  BY <1>3, <1>4, <1>5 DEF Closing
<1>14. ClosingListed'
  <2>1. h \notin ToSet(closing_handles)
    BY <1>5, <1>6
  <2>2. /\ Distinct(closing_handles') /\ Distinct(queue')
        /\ ToSet(closing_handles') \cap ToSet(queue') = {}
        /\ ToSet(closing_handles') \cup ToSet(queue') = Closing'
    BY <2>1, <1>3, <1>5, <1>6, <1>13
  <2> QED BY <2>2, <1>3 DEF ClosingListed
<1> QED BY <1>8, <1>10, <1>11, <1>12, <1>14 DEF LoopInv, LoopConsistent

----------------------------------------------------------------------------
(* The theorems.                                                           *)

LEMMA LoopSteps == LoopInv /\ [Next]_vars => LoopInv'
<1> SUFFICES ASSUME LoopInv, [Next]_vars PROVE LoopInv'
  OBVIOUS
<1>1. CASE LoopStep
  BY <1>1, UserQuietStep, MoveStep, RunTimerStep, EnterStep, RunWatcherStep, CheckDoneStep,
     FinishCloseStep DEF LoopStep
<1>2. CASE PollEvent
  BY <1>2, UserQuietStep
<1>3. CASE UserCall
  <2>1. CASE StopLoop \/ Feed \/ Request
    BY <2>1, UserQuietStep
  <2>2. CASE \E m \in {"DEFAULT", "ONCE", "NOWAIT"} : RunBegin(m)
    BY <2>2, MoveStep
  <2>3. ASSUME NEW h \in Handles,
               HandleInit(h) \/ WatcherStart(h) \/ Stop(h) \/ Ref(h) \/ Unref(h) \/ Close(h)
        PROVE  LoopInv'
    BY <2>3, HandleInitStep, WatcherStartStep, StopStep, RefStep, CloseStep
  <2>4. ASSUME NEW h \in Handles, NEW due \in BOOLEAN, NEW rep \in BOOLEAN, TimerStart(h, due, rep)
        PROVE  LoopInv'
    BY <2>4, TimerStartStep
  <2> QED BY <1>3, <2>1, <2>2, <2>3, <2>4 DEF UserCall
<1>4. CASE UNCHANGED vars
  <2> USE <1>4 DEF vars, flagVars, listVars, timerVars, feedVars, pollVars, runVars
  <2>1. TypeOK' /\ FeedsFit' /\ Quiet
    BY ZenonT(60) DEF LoopInv, TypeOK, FeedsFit, Quiet
  <2> QED BY <2>1, QuietStep
<1> QED BY <1>1, <1>2, <1>3, <1>4 DEF Next

\* Types, counters and lists of the loop, in every behaviour of uv_run and
\* of callbacks that call anything at any time.
THEOREM LoopInductive == Spec => []LoopInv
<1>1. Init => LoopInv
  BY LoopBegins
<1>2. LoopInv /\ [Next]_vars => LoopInv'
  BY LoopSteps
<1> QED BY <1>1, <1>2, PTL DEF Spec

\* active_handles is the number of handles both active and referenced, an
\* active watcher is linked exactly once, and a closing handle has exactly
\* one close callback to come (uv__handle_start, uv__run_idle,
\* uv__run_closing_handles).
THEOREM LoopStaysConsistent == Spec => []LoopConsistent
<1>1. LoopInv => LoopConsistent
  BY DEF LoopInv
<1> QED BY <1>1, LoopInductive, PTL

\* uv_run(UV_RUN_DEFAULT), unless stopped, returns only when no handle is
\* active and referenced, no request is active and no handle is closing.
THEOREM DefaultRunReturnsWhenDone == Spec => ReturnsWhenDone
<1> DEFINE A == pc = "end" /\ pc' = "out" /\ mode = "DEFAULT" /\ ~stop_flag =>
                   active \cap ref = {} /\ active_reqs = 0 /\ Closing = {}
<1>1. LoopInv /\ [Next]_vars => [A]_vars
  <2> SUFFICES ASSUME LoopInv, Next, pc = "end", pc' = "out", mode = "DEFAULT", ~stop_flag
               PROVE  active \cap ref = {} /\ active_reqs = 0 /\ Closing = {}
    OBVIOUS
  <2>1. RunEnd
    BY DEF Next, LoopStep, UserCall, CallbackReturn, RunTimer, TimersDone, RunPending, PendingDone,
           RunWatcher, Watchers, IdleDone, PrepareDone, PollReturn, CheckDone, FinishClose, ClosingDone,
           TimersAgainDone, PollEvent, HandleInit, WatcherStart, Stop, Ref, Unref, Close, TimerStart,
           StopLoop, Feed, Request, RunBegin, runVars
  <2>2. ~Alive
    BY <2>1 DEF RunEnd, Again
  <2>3. TypeOK /\ ActiveCount /\ ClosingListed
    BY DEF LoopInv, LoopConsistent
  <2>4. active_handles = 0 /\ active_reqs = 0 /\ closing_handles = <<>>
    BY <2>2, <2>3 DEF Alive, TypeOK
  <2>5. IsFiniteSet(active \cap ref)
    <3>1. active \cap ref \subseteq Handles
      BY <2>3 DEF TypeOK
    <3> QED BY <3>1, LoopAssumption, FS_Subset
  <2>6. active \cap ref = {}
    BY <2>3, <2>4, <2>5, FS_EmptySet DEF ActiveCount
  <2>7. Closing = {}
    BY <2>3, <2>4, Empty DEF ClosingListed
  <2> QED BY <2>4, <2>6, <2>7
<1>2. Spec => [][A]_vars
  BY <1>1, LoopInductive, PTL DEF Spec
<1> QED BY <1>2 DEF ReturnsWhenDone

----------------------------------------------------------------------------
(* The life of a loop.                                                     *)

LoopFields ==
    {"epoll", "signal_pipe", "watchers", "cloexec_lock", "wq_mutex", "async", "async_wfd",
     "inotify_fd", "emfile_fd"}

LifeHandles == Internal \cup UserHandles

LoopRecords ==
    [at : {"none", "open"}, fields : SUBSET LoopFields, handles : Seq(LifeHandles), active : Nat]

WalkRecords ==
    [loop : UvLoops \cup {"none"}, queue : Seq(LifeHandles), due : Seq(LifeHandles),
     seen : Seq(LifeHandles)]

LifeTypes ==
    /\ uvloop \in [UvLoops -> LoopRecords]
    /\ held \in [UvLoops -> SUBSET LoopFields]
    /\ defaultPtr \in BOOLEAN
    /\ walk \in WalkRecords

\* The walk w has passed the first n of the handles it found.
Passed(w, n) ==
    /\ Len(w.queue) = Len(w.due) - n
    /\ \A i \in 1..Len(w.queue) : w.queue[i] = w.due[n + i]
    /\ ToSet(w.seen) = {w.due[i] : i \in 1..n} \ Internal

\* What a walk over the loop record r has done, and that it leaves the
\* internal handles in one queue or the other.
WalkStands(w, r) ==
    /\ \E n \in 0..Len(w.due) : Passed(w, n)
    /\ \A i, j \in 1..Len(w.seen) : i < j => Before(w.due, w.seen[i], w.seen[j])
    /\ Distinct(w.due)
    /\ Distinct(w.queue \o r.handles)
    /\ Internal \subseteq ToSet(w.queue) \cup ToSet(r.handles)

\* What holds of the record r of a loop, of what is held for it, and of
\* whether it is being walked.
LoopStands(r, h, walked) ==
    /\ r.at = "open" => r.fields \subseteq h /\ h \ r.fields \subseteq {"epoll", "watchers"}
    /\ r.at = "none" => r = NoLoop /\ h \subseteq {"epoll", "watchers"} /\ ~walked
    /\ Distinct(r.handles)
    /\ r.at = "open" /\ ~walked => Internal \subseteq ToSet(r.handles)

\* The inductive invariant of the life of a loop.
LifeInv ==
    /\ LifeTypes
    /\ \A l \in UvLoops : LoopStands(uvloop[l], held[l], Walking(l))
    /\ walk.loop # "none" => WalkStands(walk, uvloop[walk.loop])
    /\ defaultPtr <=> Opened("default")

\* The walk w, past its next handle h.
Onward(w, h) ==
    [w EXCEPT !.queue = Tail(@), !.seen = IF h \in Internal THEN @ ELSE Append(@, h)]

\* The loop record r, with h back at the end of its queue.
Relinked(r, h) == [r EXCEPT !.handles = Append(@, h)]

\* The pieces uv_loop_init acquires and gives back.
LEMMA InitPieces ==
    ASSUME NEW async \in AsyncFds
    PROVE  /\ Acquired(6, async) \subseteq LoopFields
           /\ \A k \in 1..5 : Acquired(k, async) \subseteq LoopFields
                              /\ Acquired(k, async) \ Undone(k) \subseteq {"epoll", "watchers"}
<1> DEFINE I == InitSteps(async)
<1>1. /\ I[1] = {"epoll"} /\ I[2] = {"signal_pipe", "watchers"} /\ I[3] = {"cloexec_lock"}
      /\ I[4] = {"wq_mutex"} /\ I[5] = async
  BY DEF InitSteps
<1>2. async \subseteq {"async", "async_wfd"}
  BY DEF AsyncFds
<1> HIDE DEF I
<1>3. \A k \in 1..6 : Acquired(k, async) = UNION {I[i] : i \in 1..(k - 1)}
  BY DEF Acquired, I
<1>4. \A i \in 1..5 : I[i] \subseteq LoopFields
  <2>1. \A i \in 1..5 : i = 1 \/ i = 2 \/ i = 3 \/ i = 4 \/ i = 5
    OBVIOUS
  <2> QED BY <2>1, <1>1, <1>2 DEF LoopFields
<1>5. \A k \in 1..6 : Acquired(k, async) \subseteq LoopFields
  <2> SUFFICES ASSUME NEW k \in 1..6, NEW x \in Acquired(k, async) PROVE x \in LoopFields
    OBVIOUS
  <2>1. PICK i \in 1..(k - 1) : x \in I[i]
    BY <1>3
  <2>2. i \in 1..5
    OBVIOUS
  <2> QED BY <2>1, <2>2, <1>4
<1>6. ASSUME NEW k \in 1..5, NEW x \in Acquired(k, async) \ Undone(k)
      PROVE  x \in {"epoll", "watchers"}
  <2>1. PICK i \in 1..(k - 1) : x \in I[i]
    BY <1>3, <1>6
  <2>2. i = 1 \/ (i = 2 /\ k > 2) \/ (i = 3 /\ k > 3) \/ (i = 4 /\ k > 4)
    OBVIOUS
  <2>3. x \notin Undone(k)
    BY <1>6
  <2> QED BY <2>1, <2>2, <2>3, <1>1 DEF Undone
<1> QED BY <1>5, <1>6

\* A step that changes one loop and not the walk.
LEMMA OneLoopStep ==
    ASSUME LifeInv, NEW l \in UvLoops,
           uvloop' \in [UvLoops -> LoopRecords], held' \in [UvLoops -> SUBSET LoopFields],
           walk' = walk, defaultPtr' \in BOOLEAN,
           \A m \in UvLoops \ {l} : uvloop'[m] = uvloop[m] /\ held'[m] = held[m],
           LoopStands(uvloop'[l], held'[l], Walking(l)),
           Walking(l) => WalkStands(walk, uvloop'[l]),
           l = "default" => (defaultPtr' <=> uvloop'[l].at = "open"),
           l # "default" => defaultPtr' = defaultPtr
    PROVE  LifeInv'
<1>1. LifeTypes'
  BY DEF LifeInv, LifeTypes
<1>2. ASSUME NEW m \in UvLoops PROVE LoopStands(uvloop'[m], held'[m], Walking(m)')
  <2>1. Walking(m)' = Walking(m)
    BY DEF Walking
  <2>2. CASE m = l
    BY <2>1, <2>2
  <2>3. CASE m # l
    <3>1. uvloop'[m] = uvloop[m] /\ held'[m] = held[m]
      BY <2>3
    <3>2. LoopStands(uvloop[m], held[m], Walking(m))
      BY DEF LifeInv
    <3> QED BY <3>1, <3>2, <2>1
  <2> QED BY <2>2, <2>3
<1>3. walk.loop # "none" => WalkStands(walk, uvloop'[walk.loop])
  <2>1. walk.loop \in UvLoops \cup {"none"}
    BY DEF LifeInv, LifeTypes, WalkRecords
  <2>2. CASE walk.loop = l
    BY <2>2 DEF Walking
  <2>3. CASE walk.loop # l /\ walk.loop # "none"
    <3>1. walk.loop \in UvLoops \ {l}
      BY <2>1, <2>3
    <3>2. uvloop'[walk.loop] = uvloop[walk.loop]
      BY <3>1
    <3>3. WalkStands(walk, uvloop[walk.loop])
      BY <2>3 DEF LifeInv
    <3> QED BY <3>2, <3>3
  <2> QED BY <2>2, <2>3
<1>4. defaultPtr' <=> Opened("default")'
  <2>1. CASE l = "default"
    BY <2>1 DEF Opened
  <2>2. CASE l # "default"
    <3>1. uvloop'["default"] = uvloop["default"]
      BY <2>2 DEF UvLoops
    <3> QED BY <3>1, <2>2 DEF Opened, LifeInv
  <2> QED BY <2>1, <2>2
<1>5. (walk.loop # "none" => WalkStands(walk, uvloop[walk.loop]))'
  <2>1. ASSUME walk'.loop # "none" PROVE WalkStands(walk, uvloop[walk.loop])'
    <3>1. PICK w, r : w = walk' /\ r = uvloop'[walk'.loop]
      OBVIOUS
    <3>2. WalkStands(w, r)
      BY <3>1, <2>1, <1>3
    <3> QED BY <3>1, <3>2
  <2> QED BY <2>1
<1>6. (\A m \in UvLoops : LoopStands(uvloop[m], held[m], Walking(m)))'
  BY <1>2 DEF LoopStands
<1> QED BY <1>1, <1>4, <1>5, <1>6 DEF LifeInv

\* What LifeInv says of one loop.
LEMMA LoopFacts ==
    ASSUME LifeInv, NEW l \in UvLoops
    PROVE  /\ uvloop \in [UvLoops -> LoopRecords] /\ held \in [UvLoops -> SUBSET LoopFields]
           /\ uvloop[l] \in LoopRecords /\ held[l] \in SUBSET LoopFields
           /\ LoopStands(uvloop[l], held[l], Walking(l))
           /\ Walking(l) => WalkStands(walk, uvloop[l])
           /\ l = "default" => (defaultPtr <=> uvloop[l].at = "open")
           /\ defaultPtr \in BOOLEAN
<1>1. uvloop \in [UvLoops -> LoopRecords] /\ held \in [UvLoops -> SUBSET LoopFields]
      /\ defaultPtr \in BOOLEAN
  BY DEF LifeInv, LifeTypes
<1>2. LoopStands(uvloop[l], held[l], Walking(l))
  BY DEF LifeInv
<1>3. Walking(l) => WalkStands(walk, uvloop[l])
  BY DEF LifeInv, Walking, UvLoops
<1>4. l = "default" => (defaultPtr <=> uvloop[l].at = "open")
  BY DEF LifeInv, Opened
<1> QED BY <1>1, <1>2, <1>3, <1>4

\* A loop that is not open.
LEMMA NoLoopStands ==
    ASSUME NEW h, h \subseteq {"epoll", "watchers"}
    PROVE  LoopStands(NoLoop, h, FALSE) /\ NoLoop \in LoopRecords
<1>1. NoLoop \in LoopRecords /\ NoLoop.at = "none" /\ NoLoop.handles = <<>>
  BY DEF NoLoop, LoopRecords
<1>2. Distinct(<<>>)
  BY DEF Distinct
<1> QED BY <1>1, <1>2 DEF LoopStands

\* Two handles, the first of a new loop.
LEMMA NewLoopStands ==
    ASSUME NEW fields \in SUBSET LoopFields, NEW h, NEW r, fields \subseteq h,
           h \ fields \subseteq {"epoll", "watchers"},
           r = [at |-> "open", fields |-> fields, handles |-> <<"child_watcher", "wq_async">>, active |-> 0]
    PROVE  LoopStands(r, h, FALSE) /\ r \in LoopRecords
<1>1. PICK q : q = <<"child_watcher", "wq_async">>
  OBVIOUS
<1>2. q \in Seq(LifeHandles) /\ Len(q) = 2 /\ q[1] = "child_watcher" /\ q[2] = "wq_async"
  BY <1>1 DEF LifeHandles, Internal
<1>3. Distinct(q)
  BY <1>2 DEF Distinct
<1>4. DOMAIN q = 1..2 /\ Internal \subseteq ToSet(q)
  BY <1>1, <1>2 DEF Internal, ToSet
<1>5. r \in LoopRecords /\ r.at = "open" /\ r.handles = q /\ r.fields = fields
  BY <1>1, <1>2 DEF LoopRecords
<1> QED BY <1>3, <1>4, <1>5 DEF LoopStands

\* uv_loop_init, whether it succeeds or fails at any of its steps.
LEMMA LoopInitStep ==
    ASSUME LifeInv, NEW l \in UvLoops, NEW ok \in BOOLEAN, uvloop[l].at = "none", uv_loop_init(l, ok),
           IF l = "default" THEN defaultPtr' = ok ELSE defaultPtr' = defaultPtr
    PROVE  LifeInv'
<1>1. /\ uvloop \in [UvLoops -> LoopRecords] /\ held \in [UvLoops -> SUBSET LoopFields]
      /\ LoopStands(uvloop[l], held[l], Walking(l)) /\ defaultPtr \in BOOLEAN
  BY LoopFacts
<1>2. held[l] \subseteq {"epoll", "watchers"} /\ ~Walking(l)
  BY <1>1 DEF LoopStands
<1>3. walk' = walk
  BY DEF uv_loop_init
<1>4. PICK async \in AsyncFds :
         \/ /\ ok
            /\ uvloop' = [uvloop EXCEPT ![l] =
                  [at |-> "open", fields |-> Acquired(6, async),
                   handles |-> <<"child_watcher", "wq_async">>, active |-> 0]]
            /\ held' = [held EXCEPT ![l] = @ \cup Acquired(6, async)]
         \/ /\ ~ok
            /\ \E k \in 1..5 :
                 held' = [held EXCEPT ![l] = @ \cup (Acquired(k, async) \ Undone(k))]
            /\ uvloop' = [uvloop EXCEPT ![l] = NoLoop]
  BY DEF uv_loop_init
<1>5. CASE ok
  <2>1. PICK fields, r : /\ fields = Acquired(6, async)
                         /\ r = [at |-> "open", fields |-> fields,
                                 handles |-> <<"child_watcher", "wq_async">>, active |-> 0]
    OBVIOUS
  <2>2. uvloop' = [uvloop EXCEPT ![l] = r] /\ held' = [held EXCEPT ![l] = @ \cup fields]
    BY <2>1, <1>4, <1>5
  <2>3. fields \in SUBSET LoopFields
    BY <2>1, InitPieces
  <2>4. held'[l] = held[l] \cup fields /\ held' \in [UvLoops -> SUBSET LoopFields]
        /\ uvloop'[l] = r
        /\ \A m \in UvLoops \ {l} : uvloop'[m] = uvloop[m] /\ held'[m] = held[m]
    BY <2>2, <2>3, <1>1
  <2>5. fields \subseteq held'[l] /\ held'[l] \ fields \subseteq {"epoll", "watchers"}
    BY <2>4, <1>2
  <2>6. LoopStands(r, held'[l], FALSE) /\ r \in LoopRecords /\ r.at = "open"
    BY <2>1, <2>3, <2>5, NewLoopStands
  <2>7. uvloop' \in [UvLoops -> LoopRecords]
    BY <2>2, <2>6, <1>1
  <2>8. LoopStands(uvloop'[l], held'[l], Walking(l))
    BY <2>4, <2>6, <1>2 DEF LoopStands
  <2> QED BY <2>4, <2>6, <2>7, <2>8, <1>1, <1>2, <1>3, <1>5, OneLoopStep
<1>6. CASE ~ok
  <2>1. PICK k \in 1..5 : held' = [held EXCEPT ![l] = @ \cup (Acquired(k, async) \ Undone(k))]
    BY <1>4, <1>6
  <2>2. Acquired(k, async) \ Undone(k) \subseteq {"epoll", "watchers"}
    BY InitPieces
  <2>3. uvloop' = [uvloop EXCEPT ![l] = NoLoop]
    BY <1>4, <1>6
  <2>4. held'[l] \subseteq {"epoll", "watchers"} /\ held' \in [UvLoops -> SUBSET LoopFields]
        /\ uvloop'[l] = NoLoop
        /\ \A m \in UvLoops \ {l} : uvloop'[m] = uvloop[m] /\ held'[m] = held[m]
    BY <2>1, <2>2, <2>3, <1>1, <1>2 DEF LoopFields
  <2>5. LoopStands(NoLoop, held'[l], FALSE) /\ NoLoop \in LoopRecords /\ NoLoop.at # "open"
    BY <2>4, NoLoopStands DEF NoLoop
  <2>6. uvloop' \in [UvLoops -> LoopRecords]
    BY <2>3, <2>5, <1>1
  <2>7. LoopStands(uvloop'[l], held'[l], Walking(l))
    BY <2>4, <2>5, <1>2 DEF LoopStands
  <2> QED BY <2>4, <2>5, <2>6, <2>7, <1>1, <1>2, <1>3, <1>6, OneLoopStep
<1> QED BY <1>5, <1>6

\* The two names of the set of elements of a queue.
LEMMA RangeIsToSet == ASSUME NEW q PROVE Range(q) = ToSet(q)
BY DEF Range, ToSet

\* A handle is linked behind the others, and perhaps a field is set.
LEMMA HandleAddedStep ==
    ASSUME LifeInv, NEW l \in UvLoops, NEW h \in UserHandles, uv__handle_init(l, h)
    PROVE  LifeInv'
<1>1. /\ uvloop \in [UvLoops -> LoopRecords] /\ held \in [UvLoops -> SUBSET LoopFields]
      /\ uvloop[l] \in LoopRecords /\ held[l] \in SUBSET LoopFields
      /\ LoopStands(uvloop[l], held[l], Walking(l))
      /\ Walking(l) => WalkStands(walk, uvloop[l])
      /\ l = "default" => (defaultPtr <=> uvloop[l].at = "open")
      /\ defaultPtr \in BOOLEAN
  BY LoopFacts
<1>2. PICK extra \in {{}, {"emfile_fd"}} :
         /\ uvloop' = [uvloop EXCEPT ![l].handles = Append(@, h), ![l].fields = @ \cup extra]
         /\ held' = [held EXCEPT ![l] = @ \cup extra]
  BY DEF uv__handle_init
<1>3. /\ walk' = walk /\ defaultPtr' = defaultPtr /\ uvloop[l].at = "open"
      /\ h \notin ToSet(uvloop[l].handles) /\ h \notin ToSet(walk.queue)
  BY RangeIsToSet DEF uv__handle_init, Opened, Used
<1>4. PICK r : r = uvloop[l]
  OBVIOUS
<1>5. PICK s : s = [r EXCEPT !.handles = Append(@, h), !.fields = @ \cup extra]
  OBVIOUS
<1>6. uvloop'[l] = s /\ \A m \in UvLoops \ {l} : uvloop'[m] = uvloop[m]
  BY <1>1, <1>2, <1>4, <1>5
<1>7. r \in LoopRecords /\ h \in LifeHandles /\ r.handles \in Seq(LifeHandles) /\ extra \subseteq LoopFields
  BY <1>1, <1>4 DEF LoopRecords, LifeHandles, LoopFields
<1>8. /\ Append(r.handles, h) \in Seq(LifeHandles)
      /\ ToSet(Append(r.handles, h)) = ToSet(r.handles) \cup {h}
      /\ Distinct(r.handles) => Distinct(Append(r.handles, h))
  BY <1>3, <1>4, <1>7, AppendFacts
<1>9. s \in LoopRecords /\ s.at = "open" /\ s.handles = Append(r.handles, h) /\ s.fields = r.fields \cup extra
  BY <1>3, <1>4, <1>5, <1>7, <1>8 DEF LoopRecords
<1>10. uvloop' \in [UvLoops -> LoopRecords]
  BY <1>1, <1>2, <1>6, <1>9
<1>11. held' \in [UvLoops -> SUBSET LoopFields] /\ held'[l] = held[l] \cup extra
       /\ \A m \in UvLoops \ {l} : held'[m] = held[m]
  BY <1>1, <1>2, <1>7
<1>12. LoopStands(s, held'[l], Walking(l))
  BY <1>1, <1>3, <1>4, <1>8, <1>9, <1>11 DEF LoopStands
<1>13. Walking(l) => WalkStands(walk, s)
  <2> SUFFICES ASSUME Walking(l) PROVE WalkStands(walk, s)
    OBVIOUS
  <2>1. WalkStands(walk, r)
    BY <1>1, <1>4
  <2>2. walk.queue \in Seq(LifeHandles)
    BY DEF LifeInv, LifeTypes, WalkRecords
  <2>3. Distinct(walk.queue) /\ Distinct(r.handles) /\ ToSet(walk.queue) \cap ToSet(r.handles) = {}
    BY <2>1, <2>2, <1>7, ConcatFacts DEF WalkStands
  <2>4. Distinct(walk.queue \o s.handles)
    <3>1. s.handles \in Seq(LifeHandles) /\ Distinct(s.handles)
      BY <2>3, <1>8, <1>9
    <3>2. ToSet(walk.queue) \cap ToSet(s.handles) = {}
      BY <2>3, <1>3, <1>8, <1>9
    <3> QED BY <3>1, <3>2, <2>2, <2>3, ConcatFacts
  <2> QED BY <2>1, <2>4, <1>8, <1>9 DEF WalkStands
<1> QED BY <1>1, <1>3, <1>6, <1>9, <1>10, <1>11, <1>12, <1>13, OneLoopStep

\* The steps that change the fields or the requests of a loop.
LEMMA UseStep ==
    ASSUME LifeInv, NEW l \in UvLoops, init_inotify(l) \/ RequestBegins(l) \/ RequestEnds(l)
    PROVE  LifeInv'
<1>1. /\ uvloop \in [UvLoops -> LoopRecords] /\ held \in [UvLoops -> SUBSET LoopFields]
      /\ uvloop[l] \in LoopRecords /\ held[l] \in SUBSET LoopFields
      /\ LoopStands(uvloop[l], held[l], Walking(l))
      /\ Walking(l) => WalkStands(walk, uvloop[l])
      /\ l = "default" => (defaultPtr <=> uvloop[l].at = "open")
      /\ defaultPtr \in BOOLEAN
  BY LoopFacts
<1>2. PICK r : r = uvloop[l]
  OBVIOUS
<1>3. PICK s, extra :
        /\ uvloop' = [uvloop EXCEPT ![l] = s] /\ held' = [held EXCEPT ![l] = @ \cup extra]
        /\ s \in LoopRecords /\ s.at = "open" /\ r.at = "open" /\ s.handles = r.handles
        /\ s.fields = r.fields \cup extra /\ extra \subseteq LoopFields
  <2>1. r \in LoopRecords /\ r.active \in Nat
    BY <1>1, <1>2 DEF LoopRecords
  <2>2. CASE init_inotify(l)
    <3>1. PICK s : s = [r EXCEPT !.fields = @ \cup {"inotify_fd"}]
      OBVIOUS
    <3>2. uvloop' = [uvloop EXCEPT ![l] = s]
          /\ held' = [held EXCEPT ![l] = @ \cup {"inotify_fd"}] /\ r.at = "open"
      BY <3>1, <2>2, <1>1, <1>2 DEF init_inotify, Opened
    <3>3. {"inotify_fd"} \subseteq LoopFields
      BY DEF LoopFields
    <3>4. s \in LoopRecords /\ s.at = r.at /\ s.handles = r.handles /\ s.fields = r.fields \cup {"inotify_fd"}
      BY <3>1, <3>3, <2>1 DEF LoopRecords
    <3> QED BY <3>2, <3>3, <3>4
  <2>3. ASSUME NEW n \in Nat, uvloop' = [uvloop EXCEPT ![l] = [r EXCEPT !.active = n]],
               held' = held, r.at = "open"
        PROVE  \E s, extra :
                  /\ uvloop' = [uvloop EXCEPT ![l] = s] /\ held' = [held EXCEPT ![l] = @ \cup extra]
                  /\ s \in LoopRecords /\ s.at = "open" /\ r.at = "open" /\ s.handles = r.handles
                  /\ s.fields = r.fields \cup extra /\ extra \subseteq LoopFields
    <3>1. PICK s, x : s = [r EXCEPT !.active = n] /\ x = {}
      OBVIOUS
    <3>2. s \in LoopRecords /\ s.at = r.at /\ s.handles = r.handles /\ s.fields = r.fields \cup x
      BY <3>1, <2>1 DEF LoopRecords
    <3>3. held' = [held EXCEPT ![l] = @ \cup x]
      BY <3>1, <2>3, <1>1
    <3>4. uvloop' = [uvloop EXCEPT ![l] = s] /\ x \subseteq LoopFields
      BY <3>1, <2>3
    <3> QED BY <3>2, <3>3, <3>4, <2>3
  <2>4. CASE RequestBegins(l)
    <3>1. uvloop' = [uvloop EXCEPT ![l] = [r EXCEPT !.active = r.active + 1]] /\ held' = held /\ r.at = "open"
      BY <2>4, <1>1, <1>2 DEF RequestBegins, Opened
    <3>2. r.active + 1 \in Nat
      BY <2>1
    <3> QED BY <3>1, <3>2, <2>3
  <2>5. CASE RequestEnds(l)
    <3>1. uvloop' = [uvloop EXCEPT ![l] = [r EXCEPT !.active = r.active - 1]] /\ held' = held /\ r.active > 0
      BY <2>5, <1>1, <1>2 DEF RequestEnds
    <3>2. r.active - 1 \in Nat
      BY <3>1, <2>1
    <3>3. r.at = "open"
      <4>1. r.at \in {"none", "open"} /\ NoLoop.active = 0
        BY <2>1 DEF LoopRecords, NoLoop
      <4>2. r.at = "none" => r = NoLoop
        BY <1>1, <1>2 DEF LoopStands
      <4> QED BY <4>1, <4>2, <3>1
    <3> QED BY <3>1, <3>2, <3>3, <2>3
  <2> QED BY <2>2, <2>4, <2>5
<1>4. walk' = walk /\ defaultPtr' = defaultPtr
  BY DEF init_inotify, RequestBegins, RequestEnds
<1>6. uvloop'[l] = s /\ \A m \in UvLoops \ {l} : uvloop'[m] = uvloop[m]
  BY <1>1, <1>3
<1>8. uvloop' \in [UvLoops -> LoopRecords]
  BY <1>1, <1>3
<1>9. held' \in [UvLoops -> SUBSET LoopFields] /\ held'[l] = held[l] \cup extra
      /\ \A m \in UvLoops \ {l} : held'[m] = held[m]
  BY <1>1, <1>3
<1>10. LoopStands(s, held'[l], Walking(l))
  BY <1>1, <1>2, <1>3, <1>9 DEF LoopStands
<1>11. Walking(l) => WalkStands(walk, s)
  BY <1>1, <1>2, <1>3 DEF WalkStands
<1> QED BY <1>1, <1>2, <1>3, <1>4, <1>6, <1>8, <1>9, <1>10, <1>11, OneLoopStep

\* A closed handle leaves the queue of its loop.
LEMMA HandleClosedStep ==
    ASSUME LifeInv, NEW l \in UvLoops, NEW h \in UserHandles, HandleClosed(l, h)
    PROVE  LifeInv'
<1>1. /\ uvloop \in [UvLoops -> LoopRecords] /\ held \in [UvLoops -> SUBSET LoopFields]
      /\ uvloop[l] \in LoopRecords /\ held[l] \in SUBSET LoopFields
      /\ LoopStands(uvloop[l], held[l], Walking(l))
      /\ l = "default" => (defaultPtr <=> uvloop[l].at = "open")
      /\ defaultPtr \in BOOLEAN
  BY LoopFacts
<1>2. PICK r : r = uvloop[l]
  OBVIOUS
<1>3. /\ walk' = walk /\ defaultPtr' = defaultPtr /\ held' = held /\ ~Walking(l)
      /\ h \in ToSet(r.handles) /\ h \notin Internal
      /\ uvloop' = [uvloop EXCEPT ![l] = [r EXCEPT !.handles = Unlink(@, h)]]
  BY <1>1, <1>2, RangeIsToSet DEF HandleClosed, Used
<1>4. PICK q : q = Unlink(r.handles, h)
  OBVIOUS
<1>5. r.handles \in Seq(LifeHandles) /\ r \in LoopRecords
  BY <1>1, <1>2 DEF LoopRecords
<1>6. /\ q \in Seq(LifeHandles) /\ ToSet(r.handles) \subseteq ToSet(q) \cup {h}
      /\ Distinct(r.handles) => Distinct(q)
  BY <1>4, <1>5, UnlinkFacts
<1>7. PICK s : s = [r EXCEPT !.handles = q]
  OBVIOUS
<1>8. uvloop'[l] = s /\ \A m \in UvLoops \ {l} : uvloop'[m] = uvloop[m]
  BY <1>1, <1>3, <1>4, <1>7
<1>9. s \in LoopRecords /\ s.at = r.at /\ s.handles = q /\ s.fields = r.fields
  BY <1>5, <1>6, <1>7 DEF LoopRecords
<1>10. uvloop' \in [UvLoops -> LoopRecords]
  BY <1>1, <1>3, <1>8, <1>9
<1>11. r.at = "open"
  <2>1. r.at \in {"none", "open"} /\ NoLoop.handles = <<>> /\ ToSet(<<>>) = {}
    BY <1>5 DEF LoopRecords, NoLoop, ToSet
  <2>2. r.at = "none" => r = NoLoop
    BY <1>1, <1>2 DEF LoopStands
  <2> QED BY <2>1, <2>2, <1>3
<1>12. LoopStands(s, held'[l], Walking(l))
  BY <1>1, <1>2, <1>3, <1>6, <1>9, <1>11 DEF LoopStands
<1> QED BY <1>1, <1>2, <1>3, <1>8, <1>9, <1>10, <1>11, <1>12, OneLoopStep

\* uv_loop_close gives back every field a loop can have.
LEMMA LoopCloseStep ==
    ASSUME LifeInv, NEW l \in UvLoops, uv_loop_close(l)
    PROVE  LifeInv'
<1>1. /\ uvloop \in [UvLoops -> LoopRecords] /\ held \in [UvLoops -> SUBSET LoopFields]
      /\ uvloop[l] \in LoopRecords /\ held[l] \in SUBSET LoopFields
      /\ LoopStands(uvloop[l], held[l], Walking(l))
      /\ defaultPtr \in BOOLEAN
  BY LoopFacts
<1>2. /\ uvloop[l].at = "open" /\ ~Walking(l) /\ walk' = walk
      /\ held' = [held EXCEPT ![l] = @ \ uv__loop_close(uvloop[l].fields)]
      /\ uvloop' = [uvloop EXCEPT ![l] = NoLoop]
      /\ defaultPtr' = (defaultPtr /\ l # "default")
  BY DEF uv_loop_close, Opened
<1>3. uvloop[l].fields \subseteq LoopFields /\ held[l] \ uvloop[l].fields \subseteq {"epoll", "watchers"}
  BY <1>1, <1>2 DEF LoopRecords, LoopStands
<1>4. held[l] \ uv__loop_close(uvloop[l].fields) \subseteq {"epoll", "watchers"}
  BY <1>3 DEF uv__loop_close, LoopFields
<1>5. LoopStands(NoLoop, held[l] \ uv__loop_close(uvloop[l].fields), FALSE) /\ NoLoop \in LoopRecords
      /\ NoLoop.at # "open"
  BY <1>4, NoLoopStands DEF NoLoop
<1>6. uvloop'[l] = NoLoop /\ \A m \in UvLoops \ {l} : uvloop'[m] = uvloop[m]
  BY <1>1, <1>2
<1>7. uvloop' \in [UvLoops -> LoopRecords]
  BY <1>1, <1>2, <1>5
<1>8. held' \in [UvLoops -> SUBSET LoopFields]
      /\ held'[l] = held[l] \ uv__loop_close(uvloop[l].fields)
      /\ \A m \in UvLoops \ {l} : held'[m] = held[m]
  BY <1>1, <1>2
<1>9. LoopStands(uvloop'[l], held'[l], Walking(l))
  BY <1>2, <1>5, <1>6, <1>8 DEF LoopStands
<1> QED BY <1>1, <1>2, <1>5, <1>6, <1>7, <1>8, <1>9, OneLoopStep

\* The walk takes over the queue of its loop.
LEMMA WalkBeginsStep ==
    ASSUME LifeInv, NEW l \in UvLoops, WalkBegins(l)
    PROVE  LifeInv'
<1>1. /\ uvloop \in [UvLoops -> LoopRecords] /\ held \in [UvLoops -> SUBSET LoopFields]
      /\ uvloop[l] \in LoopRecords
      /\ LoopStands(uvloop[l], held[l], Walking(l))
      /\ defaultPtr \in BOOLEAN
  BY LoopFacts
<1>2. PICK r, q, w : r = uvloop[l] /\ q = r.handles /\ w = walk'
  OBVIOUS
<1>3. /\ r.at = "open" /\ walk = NoWalk /\ held' = held /\ defaultPtr' = defaultPtr
      /\ w = [loop |-> l, queue |-> q, seen |-> <<>>, due |-> q]
      /\ uvloop' = [uvloop EXCEPT ![l] = [r EXCEPT !.handles = <<>>]]
  BY <1>1, <1>2 DEF WalkBegins, Opened
<1>4. PICK s : s = [r EXCEPT !.handles = <<>>]
  OBVIOUS
<1>5. r \in LoopRecords /\ q \in Seq(LifeHandles) /\ <<>> \in Seq(LifeHandles)
  BY <1>1, <1>2 DEF LoopRecords
<1>6. s \in LoopRecords /\ s.at = "open" /\ s.handles = <<>> /\ s.fields = r.fields
  BY <1>3, <1>4, <1>5 DEF LoopRecords
<1>7. uvloop'[l] = s /\ (\A m \in UvLoops \ {l} : uvloop'[m] = uvloop[m])
      /\ uvloop' \in [UvLoops -> LoopRecords]
  BY <1>1, <1>3, <1>4, <1>6
<1>8. w.loop = l /\ w.queue = q /\ w.seen = <<>> /\ w.due = q /\ l # "none"
  BY <1>3 DEF UvLoops
<1>9. \A m \in UvLoops : ~Walking(m) /\ (Walking(m)' <=> m = l)
  BY <1>2, <1>3, <1>8 DEF Walking, NoWalk, UvLoops
<1>10. Distinct(q) /\ Internal \subseteq ToSet(q)
  BY <1>1, <1>2, <1>3, <1>9 DEF LoopStands
<1>11. LifeTypes'
  <2>1. w \in WalkRecords
    BY <1>3, <1>5 DEF WalkRecords
  <2> QED BY <2>1, <1>1, <1>2, <1>3, <1>7 DEF LifeTypes
<1>12. WalkStands(w, s)
  <2>1. Passed(w, 0)
    <3>1. Len(q) \in Nat /\ Len(q) = Len(q) - 0 /\ \A i \in 1..Len(q) : q[i] = q[0 + i]
      BY <1>5, LenProperties
    <3>2. ToSet(<<>>) = {} /\ {w.due[i] : i \in 1..0} = {}
      BY DEF ToSet
    <3> QED BY <3>1, <3>2, <1>8 DEF Passed
  <2>2. 0 \in 0..Len(w.due) /\ Len(w.seen) = 0
    BY <1>5, <1>8, LenProperties
  <2>3. q \o <<>> = q
    BY <1>5, ConcatEmptySeq
  <2>4. \E n \in 0..Len(w.due) : Passed(w, n)
    BY <2>1, <2>2
  <2>5. \A i, j \in 1..Len(w.seen) : i < j => Before(w.due, w.seen[i], w.seen[j])
    BY <2>2
  <2>6. Distinct(w.due) /\ Distinct(w.queue \o s.handles) /\ Internal \subseteq ToSet(w.queue) \cup ToSet(s.handles)
    BY <2>3, <1>6, <1>8, <1>10
  <2> QED BY <2>4, <2>5, <2>6 DEF WalkStands
<1>13. ASSUME NEW m \in UvLoops PROVE LoopStands(uvloop'[m], held'[m], Walking(m)')
  <2>1. CASE m = l
    <3>1. Distinct(<<>>)
      BY DEF Distinct
    <3>2. LoopStands(s, held[l], TRUE)
      BY <3>1, <1>1, <1>2, <1>3, <1>6 DEF LoopStands
    <3> QED BY <3>2, <2>1, <1>3, <1>7, <1>9
  <2>2. CASE m # l
    <3>1. LoopStands(uvloop[m], held[m], Walking(m))
      BY LoopFacts
    <3>2. ~Walking(m) /\ ~Walking(m)'
      BY <2>2, <1>9
    <3>3. LoopStands(uvloop[m], held[m], FALSE)
      BY <3>1, <3>2 DEF LoopStands
    <3>4. LoopStands(uvloop'[m], held'[m], FALSE)
      BY <3>3, <2>2, <1>3, <1>7
    <3> QED BY <3>2, <3>4 DEF LoopStands
  <2> QED BY <2>1, <2>2
<1>14. (walk.loop # "none" => WalkStands(walk, uvloop[walk.loop]))'
  BY <1>2, <1>7, <1>8, <1>12 DEF WalkStands, Passed
<1>15. (\A m \in UvLoops : LoopStands(uvloop[m], held[m], Walking(m)))'
  BY <1>13 DEF LoopStands
<1>16. defaultPtr' <=> Opened("default")'
  <2>1. uvloop'["default"].at = uvloop["default"].at
    BY <1>2, <1>3, <1>6, <1>7 DEF UvLoops
  <2> QED BY <2>1, <1>3 DEF Opened, LifeInv
<1> QED BY <1>11, <1>14, <1>15, <1>16 DEF LifeInv

\* The walk is over: every handle is back in the queue of the loop.
LEMMA WalkEndsStep ==
    ASSUME LifeInv, uv_walk, walk.queue = <<>>
    PROVE  LifeInv'
<1>1. walk.loop # "none" /\ walk' = NoWalk /\ uvloop' = uvloop /\ held' = held /\ defaultPtr' = defaultPtr
  BY DEF uv_walk
<1>2. walk.loop \in UvLoops
  BY <1>1 DEF LifeInv, LifeTypes, WalkRecords
<1>3. LifeTypes'
  <2>1. NoWalk \in WalkRecords
    BY DEF NoWalk, WalkRecords
  <2> QED BY <2>1, <1>1 DEF LifeInv, LifeTypes
<1>4. ASSUME NEW m \in UvLoops PROVE LoopStands(uvloop'[m], held'[m], Walking(m)')
  <2>1. LoopStands(uvloop[m], held[m], Walking(m)) /\ (Walking(m) => WalkStands(walk, uvloop[m]))
    BY LoopFacts
  <2>2. ~Walking(m)'
    BY <1>1 DEF Walking, NoWalk, UvLoops
  <2>3. Walking(m) => Internal \subseteq ToSet(uvloop[m].handles)
    <3>1. ToSet(<<>>) = {}
      BY DEF ToSet
    <3> QED BY <3>1, <2>1 DEF WalkStands
  <2>4. LoopStands(uvloop[m], held[m], FALSE)
    BY <2>1, <2>3 DEF LoopStands
  <2> QED BY <2>2, <2>4, <1>1 DEF LoopStands
<1>5. walk'.loop = "none"
  BY <1>1 DEF NoWalk
<1>6. (\A m \in UvLoops : LoopStands(uvloop[m], held[m], Walking(m)))'
  BY <1>4 DEF LoopStands
<1>7. defaultPtr' <=> Opened("default")'
  BY <1>1 DEF LifeInv, Opened
<1> QED BY <1>3, <1>5, <1>6, <1>7 DEF LifeInv

\* One handle further: it comes after all that have been called back.
LEMMA WalkOn ==
    ASSUME NEW r \in LoopRecords, NEW w \in WalkRecords, WalkStands(w, r), w.queue # <<>>
    PROVE  /\ Onward(w, Head(w.queue)) \in WalkRecords
           /\ Onward(w, Head(w.queue)).loop = w.loop
           /\ WalkStands(Onward(w, Head(w.queue)), Relinked(r, Head(w.queue)))
           /\ Head(w.queue) \in LifeHandles /\ Distinct(Relinked(r, Head(w.queue)).handles)
<1>0. PICK h, s, v : h = Head(w.queue) /\ s = Relinked(r, h) /\ v = Onward(w, h)
  OBVIOUS
<1> DEFINE q == w.queue
           hs == r.handles
<1>1. q \in Seq(LifeHandles) /\ w.due \in Seq(LifeHandles) /\ w.seen \in Seq(LifeHandles)
      /\ hs \in Seq(LifeHandles)
  BY DEF LoopRecords, WalkRecords
<1>2. /\ (\E n \in 0..Len(w.due) : Passed(w, n)) /\ Distinct(w.due)
      /\ (\A i, j \in 1..Len(w.seen) : i < j => Before(w.due, w.seen[i], w.seen[j]))
      /\ Distinct(q \o hs)
      /\ Internal \subseteq ToSet(q) \cup ToSet(hs)
  BY DEF WalkStands
<1> HIDE DEF q, hs
<1>3. PICK n \in 0..Len(w.due) : Passed(w, n)
  BY <1>2
<1>4. Len(q) = Len(w.due) - n /\ (\A i \in 1..Len(q) : q[i] = w.due[n + i])
      /\ ToSet(w.seen) = {w.due[i] : i \in 1..n} \ Internal
  BY <1>3 DEF Passed, q
<1>5. /\ q # <<>> /\ h = Head(q) /\ h \in LifeHandles /\ Tail(q) \in Seq(LifeHandles)
      /\ Len(Tail(q)) = Len(q) - 1 /\ ToSet(q) = ToSet(Tail(q)) \cup {h}
      /\ Distinct(q) => Distinct(Tail(q)) /\ h \notin ToSet(Tail(q))
  <2>1. q # <<>> /\ h = Head(q)
    BY <1>0 DEF q
  <2> QED BY <2>1, <1>1, TailFacts
<1>6. /\ Len(q) \in Nat \ {0} /\ Len(w.due) \in Nat /\ DOMAIN w.due = 1..Len(w.due)
      /\ h = q[1] /\ \A i \in 1..Len(Tail(q)) : Tail(q)[i] = q[i + 1]
  BY <1>1, <1>5, LenProperties, EmptySeq, HeadTailProperties
<1>7. n + 1 \in 0..Len(w.due) /\ n + 1 \in 1..Len(w.due) /\ h = w.due[n + 1]
  <2>1. n \in Nat /\ n < Len(w.due) /\ 1 \in 1..Len(q)
    BY <1>4, <1>6
  <2>2. q[1] = w.due[n + 1]
    BY <2>1, <1>4
  <2>3. n + 1 \in 0..Len(w.due) /\ n + 1 \in 1..Len(w.due)
    BY <2>1, <1>6
  <2> QED BY <2>2, <2>3, <1>6
<1>8. /\ v.queue = Tail(q) /\ v.loop = w.loop /\ v.due = w.due
      /\ v.seen = IF h \in Internal THEN w.seen ELSE Append(w.seen, h)
  BY <1>0 DEF q, Onward, WalkRecords
<1>9. /\ Append(w.seen, h) \in Seq(LifeHandles) /\ ToSet(Append(w.seen, h)) = ToSet(w.seen) \cup {h}
      /\ Len(Append(w.seen, h)) = Len(w.seen) + 1
      /\ \A i \in 1..Len(w.seen) : Append(w.seen, h)[i] = w.seen[i]
      /\ Append(w.seen, h)[Len(w.seen) + 1] = h
      /\ Len(w.seen) \in Nat
  BY <1>1, <1>5, AppendFacts, AppendProperties, LenProperties
<1>10. v.seen \in Seq(LifeHandles)
  BY <1>1, <1>8, <1>9
<1>11. v \in WalkRecords
  BY <1>0, <1>5, <1>8, <1>10 DEF Onward, WalkRecords
<1>12. Passed(v, n + 1)
  <2>1. Len(Tail(q)) = Len(w.due) - (n + 1)
    BY <1>4, <1>5, <1>6
  <2>2. \A i \in 1..Len(Tail(q)) : Tail(q)[i] = w.due[(n + 1) + i]
    <3> SUFFICES ASSUME NEW i \in 1..Len(Tail(q)) PROVE Tail(q)[i] = w.due[(n + 1) + i]
      OBVIOUS
    <3>1. i + 1 \in 1..Len(q) /\ n + (i + 1) = (n + 1) + i
      BY <1>5, <1>6
    <3>2. q[i + 1] = w.due[n + (i + 1)]
      BY <3>1, <1>4
    <3> QED BY <3>1, <3>2, <1>6
  <2>3. {w.due[i] : i \in 1..(n + 1)} = {w.due[i] : i \in 1..n} \cup {h}
    <3>1. \A i \in 1..(n + 1) : i \in 1..n \/ i = n + 1
      OBVIOUS
    <3>2. \A i \in 1..n : i \in 1..(n + 1)
      OBVIOUS
    <3>3. n + 1 \in 1..(n + 1)
      OBVIOUS
    <3> QED BY <3>1, <3>2, <3>3, <1>7
  <2>4. ToSet(v.seen) = {w.due[i] : i \in 1..(n + 1)} \ Internal
    BY <2>3, <1>4, <1>8, <1>9
  <2> QED BY <2>1, <2>2, <2>4, <1>8 DEF Passed
<1>13. \A i, j \in 1..Len(v.seen) : i < j => Before(v.due, v.seen[i], v.seen[j])
  <2>1. CASE h \in Internal
    BY <2>1, <1>2, <1>8
  <2>2. CASE h \notin Internal
    <3> SUFFICES ASSUME NEW i \in 1..(Len(w.seen) + 1), NEW j \in 1..(Len(w.seen) + 1), i < j
                 PROVE  Before(w.due, v.seen[i], v.seen[j])
      BY <2>2, <1>8, <1>9
    <3>1. i \in 1..Len(w.seen) /\ v.seen[i] = w.seen[i] /\ (j \in 1..Len(w.seen) \/ j = Len(w.seen) + 1)
      BY <2>2, <1>8, <1>9
    <3>2. CASE j \in 1..Len(w.seen)
      BY <3>1, <3>2, <2>2, <1>2, <1>8, <1>9
    <3>3. CASE j = Len(w.seen) + 1
      <4>1. v.seen[j] = h
        BY <3>3, <2>2, <1>8, <1>9
      <4>2. w.seen[i] \in ToSet(w.seen)
        BY <3>1, <1>1, LenProperties DEF ToSet
      <4>3. PICK p \in 1..n : w.seen[i] = w.due[p]
        BY <4>2, <1>4
      <4>4. p \in DOMAIN w.due /\ n + 1 \in DOMAIN w.due /\ p < n + 1
        BY <1>6, <1>7
      <4> QED BY <4>1, <4>3, <4>4, <3>1, <1>7 DEF Before
    <3> QED BY <3>1, <3>2, <3>3
  <2> QED BY <2>1, <2>2
<1>14. /\ Distinct(q) /\ Distinct(hs) /\ ToSet(q) \cap ToSet(hs) = {}
  BY <1>1, <1>2, ConcatFacts
<1>15. /\ s.handles \in Seq(LifeHandles) /\ ToSet(s.handles) = ToSet(hs) \cup {h} /\ Distinct(s.handles)
  <2>1. h \notin ToSet(hs)
    BY <1>5, <1>14
  <2>2. s.handles = Append(hs, h)
    BY <1>0 DEF hs, Relinked, LoopRecords
  <2>3. /\ Append(hs, h) \in Seq(LifeHandles) /\ ToSet(Append(hs, h)) = ToSet(hs) \cup {h}
        /\ Distinct(Append(hs, h))
    BY <2>1, <1>1, <1>5, <1>14, AppendFacts
  <2> QED BY <2>2, <2>3
<1>16. Distinct(Tail(q) \o s.handles)
  <2>1. Distinct(Tail(q)) /\ ToSet(Tail(q)) \cap ToSet(s.handles) = {}
    BY <1>5, <1>14, <1>15
  <2> QED BY <2>1, <1>5, <1>15, ConcatFacts
<1>17. Internal \subseteq ToSet(v.queue) \cup ToSet(s.handles)
  BY <1>2, <1>5, <1>8, <1>15
<1>18. WalkStands(v, s)
  <2>1. \E k \in 0..Len(v.due) : Passed(v, k)
    BY <1>7, <1>8, <1>12
  <2> QED BY <2>1, <1>2, <1>8, <1>13, <1>16, <1>17 DEF WalkStands
<1> QED BY <1>0, <1>5, <1>8, <1>11, <1>15, <1>18

\* A walk that has a handle left goes on to it.
LEMMA WalkOnStep ==
    ASSUME LifeInv, uv_walk, walk.queue # <<>>
    PROVE  LifeInv'
<1>1. PICK l, h, r, v : l = walk.loop /\ h = Head(walk.queue) /\ r = uvloop[l] /\ v = walk'
  OBVIOUS
<1>2. l # "none" /\ l \in UvLoops
  BY <1>1 DEF uv_walk, LifeInv, LifeTypes, WalkRecords
<1>3. /\ uvloop' = [uvloop EXCEPT ![l].handles = Append(@, h)]
      /\ v = Onward(walk, h)
      /\ held' = held /\ defaultPtr' = defaultPtr
  BY <1>1 DEF uv_walk, Onward
<1>4. /\ uvloop \in [UvLoops -> LoopRecords] /\ held \in [UvLoops -> SUBSET LoopFields]
      /\ r \in LoopRecords
      /\ LoopStands(r, held[l], TRUE)
      /\ WalkStands(walk, r)
      /\ defaultPtr \in BOOLEAN
  <2>1. Walking(l)
    BY <1>1 DEF Walking
  <2>2. /\ uvloop \in [UvLoops -> LoopRecords] /\ held \in [UvLoops -> SUBSET LoopFields]
        /\ uvloop[l] \in LoopRecords
        /\ LoopStands(uvloop[l], held[l], Walking(l))
        /\ Walking(l) => WalkStands(walk, uvloop[l])
        /\ defaultPtr \in BOOLEAN
    BY <1>2, LoopFacts
  <2>3. LoopStands(r, held[l], TRUE)
    BY <2>1, <2>2, <1>1 DEF LoopStands
  <2> QED BY <2>1, <2>2, <2>3, <1>1
<1>5. walk \in WalkRecords /\ walk.queue # <<>>
  BY DEF LifeInv, LifeTypes
<1>6. PICK s : s = Relinked(r, h)
  OBVIOUS
<1>7. uvloop'[l] = s /\ \A m \in UvLoops \ {l} : uvloop'[m] = uvloop[m]
  BY <1>1, <1>2, <1>3, <1>4, <1>6 DEF Relinked
<1>8. s.handles = Append(r.handles, h) /\ s.at = r.at /\ s.fields = r.fields
  BY <1>4, <1>6 DEF LoopRecords, Relinked
<1>9. /\ v \in WalkRecords
      /\ v.loop = walk.loop
      /\ WalkStands(v, s)
      /\ h \in LifeHandles /\ Distinct(s.handles)
  <2>1. r \in LoopRecords /\ walk \in WalkRecords /\ WalkStands(walk, r) /\ walk.queue # <<>>
    BY <1>4, <1>5
  <2>2. /\ Onward(walk, Head(walk.queue)) \in WalkRecords
        /\ Onward(walk, Head(walk.queue)).loop = walk.loop
        /\ WalkStands(Onward(walk, Head(walk.queue)), Relinked(r, Head(walk.queue)))
        /\ Head(walk.queue) \in LifeHandles /\ Distinct(Relinked(r, Head(walk.queue)).handles)
    BY <2>1, WalkOn
  <2> QED BY <2>2, <1>1, <1>3, <1>6
<1>10. s \in LoopRecords
  <2>1. r.handles \in Seq(LifeHandles)
    BY <1>4 DEF LoopRecords
  <2>2. Append(r.handles, h) \in Seq(LifeHandles)
    BY <2>1, <1>9, AppendFacts
  <2> QED BY <2>2, <1>4, <1>6 DEF LoopRecords, Relinked
<1>11. uvloop' \in [UvLoops -> LoopRecords]
  BY <1>3, <1>4, <1>7, <1>10
<1>12. LifeTypes'
  BY <1>1, <1>3, <1>4, <1>9, <1>11 DEF LifeTypes
<1>13. ASSUME NEW m \in UvLoops PROVE LoopStands(uvloop'[m], held'[m], Walking(m)')
  <2>1. Walking(m)' <=> Walking(m)
    BY <1>1, <1>9 DEF Walking
  <2>2. CASE m = l
    <3>1. Walking(m)
      BY <2>2, <1>1 DEF Walking
    <3>2. r.at = "open" /\ s.at = "open"
      BY <1>4, <1>8 DEF LoopStands, LoopRecords
    <3>3. LoopStands(s, held[l], TRUE)
      BY <3>2, <1>4, <1>8, <1>9 DEF LoopStands
    <3> QED BY <3>1, <3>3, <2>1, <2>2, <1>3, <1>7 DEF LoopStands
  <2>3. CASE m # l
    <3>1. LoopStands(uvloop[m], held[m], Walking(m))
      BY LoopFacts
    <3> QED BY <3>1, <2>1, <2>3, <1>3, <1>7 DEF LoopStands
  <2> QED BY <2>2, <2>3
<1>14. (walk.loop # "none" => WalkStands(walk, uvloop[walk.loop]))'
  BY <1>1, <1>7, <1>9 DEF WalkStands, Passed
<1>15. (\A m \in UvLoops : LoopStands(uvloop[m], held[m], Walking(m)))'
  BY <1>13 DEF LoopStands
<1>16. defaultPtr' <=> Opened("default")'
  <2>1. uvloop'["default"].at = uvloop["default"].at
    BY <1>1, <1>7, <1>8 DEF UvLoops
  <2> QED BY <2>1, <1>3 DEF Opened, LifeInv
<1> QED BY <1>12, <1>14, <1>15, <1>16 DEF LifeInv

\* uv_loop_init, uv_loop_close, uv_walk and what the user does in between
\* keep LifeInv.
THEOREM LifeInductive == LoopLifeSpec => []LifeInv
<1>1. LoopLifeInit => LifeInv
  <2> SUFFICES ASSUME LoopLifeInit PROVE LifeInv
    OBVIOUS
  <2>1. /\ uvloop = [l \in UvLoops |-> NoLoop] /\ held = [l \in UvLoops |-> {}]
        /\ defaultPtr = FALSE /\ walk = NoWalk
    BY DEF LoopLifeInit
  <2>2. LoopStands(NoLoop, {}, FALSE) /\ NoLoop \in LoopRecords /\ NoLoop.at # "open"
    BY NoLoopStands DEF NoLoop
  <2>3. walk.loop = "none" /\ \A l \in UvLoops : ~Walking(l)
    BY <2>1 DEF NoWalk, Walking, UvLoops
  <2>4. LifeTypes
    <3>1. NoWalk \in WalkRecords
      BY DEF NoWalk, WalkRecords
    <3> QED BY <3>1, <2>1, <2>2 DEF LifeTypes
  <2>5. \A l \in UvLoops : LoopStands(uvloop[l], held[l], Walking(l))
    BY <2>1, <2>2, <2>3 DEF LoopStands
  <2>6. ~Opened("default")
    BY <2>1, <2>2 DEF Opened, UvLoops
  <2> QED BY <2>1, <2>3, <2>4, <2>5, <2>6 DEF LifeInv
<1>2. LifeInv /\ [LoopLifeNext]_loopLifeVars => LifeInv'
  <2> SUFFICES ASSUME LifeInv, [LoopLifeNext]_loopLifeVars PROVE LifeInv'
    OBVIOUS
  <2>1. CASE uv_default_loop
    <3>1. PICK ok \in BOOLEAN : uv_loop_init("default", ok) /\ defaultPtr' = ok
      BY <2>1 DEF uv_default_loop
    <3>2. uvloop["default"].at = "none" /\ "default" \in UvLoops
      BY <2>1 DEF uv_default_loop, UvLoops
    <3> QED BY <3>1, <3>2, LoopInitStep
  <2>2. CASE uv_loop_new
    <3>1. PICK ok \in BOOLEAN : uv_loop_init("heap", ok)
      BY <2>2 DEF uv_loop_new
    <3>2. uvloop["heap"].at = "none" /\ "heap" \in UvLoops /\ defaultPtr' = defaultPtr /\ "heap" # "default"
      BY <2>2 DEF uv_loop_new, UvLoops
    <3> QED BY <3>1, <3>2, LoopInitStep
  <2>3. CASE uv_walk
    BY <2>3, WalkEndsStep, WalkOnStep
  <2>4. ASSUME NEW l \in UvLoops, init_inotify(l) \/ RequestBegins(l) \/ RequestEnds(l) PROVE LifeInv'
    BY <2>4, UseStep
  <2>5. ASSUME NEW l \in UvLoops, WalkBegins(l) \/ uv_loop_close(l) PROVE LifeInv'
    BY <2>5, WalkBeginsStep, LoopCloseStep
  <2>6. ASSUME NEW l \in UvLoops, NEW h \in UserHandles, uv__handle_init(l, h) \/ HandleClosed(l, h)
        PROVE  LifeInv'
    BY <2>6, HandleAddedStep, HandleClosedStep
  <2>7. CASE UNCHANGED loopLifeVars
    <3>1. uvloop' = uvloop /\ held' = held /\ defaultPtr' = defaultPtr /\ walk' = walk
      BY <2>7 DEF loopLifeVars
    <3>2. LifeTypes'
      BY <3>1 DEF LifeInv, LifeTypes
    <3>3. (\A l \in UvLoops : LoopStands(uvloop[l], held[l], Walking(l)))'
      BY <3>1 DEF LifeInv, LoopStands, Walking
    <3>4. (walk.loop # "none" => WalkStands(walk, uvloop[walk.loop]))'
      BY <3>1, ZenonT(60) DEF LifeInv, WalkStands, Passed
    <3>5. (defaultPtr <=> Opened("default"))'
      BY <3>1 DEF LifeInv, Opened
    <3> QED BY <3>2, <3>3, <3>4, <3>5 DEF LifeInv
  <2> QED BY <2>1, <2>2, <2>3, <2>4, <2>5, <2>6, <2>7 DEF LoopLifeNext
<1> QED BY <1>1, <1>2, PTL DEF LoopLifeSpec

\* For any handles and any order of calls: a loop that is closed or could not
\* be initialized holds nothing but what a failed uv_loop_init forgets, an
\* open one what its fields say, and uv_walk calls back once, in order, for
\* each handle that was there when it began.
THEOREM LoopLifeCorrect == LoopLifeSpec => []LoopLifeRight
<1>1. LifeInv => LoopLifeRight
  <2> SUFFICES ASSUME LifeInv PROVE LoopLifeRight
    OBVIOUS
  <2>1. LoopReleased
    <3>1. ASSUME NEW l \in UvLoops
          PROVE  IF Opened(l) THEN uvloop[l].fields \subseteq held[l]
                                   /\ held[l] \ uvloop[l].fields \subseteq {"epoll", "watchers"}
                 ELSE held[l] \subseteq {"epoll", "watchers"}
      <4>1. uvloop[l] \in LoopRecords /\ LoopStands(uvloop[l], held[l], Walking(l))
        BY LoopFacts
      <4>2. uvloop[l].at \in {"none", "open"}
        BY <4>1 DEF LoopRecords
      <4> QED BY <4>1, <4>2 DEF LoopStands, Opened
    <3> QED BY <3>1 DEF LoopReleased, LifeInv
  <2>2. \A l \in UvLoops : /\ Distinct(uvloop[l].handles)
                           /\ Opened(l) /\ ~Walking(l) => Internal \subseteq Used(l)
    <3> SUFFICES ASSUME NEW l \in UvLoops
                 PROVE  /\ Distinct(uvloop[l].handles)
                        /\ Opened(l) /\ ~Walking(l) => Internal \subseteq Used(l)
      OBVIOUS
    <3>1. LoopStands(uvloop[l], held[l], Walking(l))
      BY LoopFacts
    <3> QED BY <3>1, RangeIsToSet DEF LoopStands, Opened, Used
  <2>3. ASSUME walk.loop # "none"
        PROVE  /\ Range(walk.seen) = Range(walk.due) \ (Internal \cup Range(walk.queue))
               /\ \A i, j \in DOMAIN walk.seen : i < j => Before(walk.due, walk.seen[i], walk.seen[j])
               /\ Distinct(walk.due)
               /\ Distinct(walk.queue \o uvloop[walk.loop].handles)
    <3>1. WalkStands(walk, uvloop[walk.loop])
      BY <2>3 DEF LifeInv
    <3>2. walk.queue \in Seq(LifeHandles) /\ walk.due \in Seq(LifeHandles) /\ walk.seen \in Seq(LifeHandles)
      BY DEF LifeInv, LifeTypes, WalkRecords
    <3>3. PICK q, due, seen : q = walk.queue /\ due = walk.due /\ seen = walk.seen
      OBVIOUS
    <3>4. /\ DOMAIN q = 1..Len(q) /\ Len(q) \in Nat /\ DOMAIN due = 1..Len(due) /\ Len(due) \in Nat
          /\ DOMAIN seen = 1..Len(seen)
      BY <3>2, <3>3, LenProperties
    <3>5. PICK n \in 0..Len(due) :
            /\ Len(q) = Len(due) - n
            /\ \A i \in 1..Len(q) : q[i] = due[n + i]
            /\ ToSet(seen) = {due[i] : i \in 1..n} \ Internal
      BY <3>1, <3>3 DEF WalkStands, Passed
    <3>6. Distinct(due)
      BY <3>1, <3>3 DEF WalkStands
    <3>7. {due[i] : i \in 1..n} = ToSet(due) \ ToSet(q)
      <4>1. ASSUME NEW i \in 1..n PROVE due[i] \in ToSet(due) \ ToSet(q)
        <5>1. i \in 1..Len(due)
          BY <3>4
        <5>2. ASSUME NEW j \in 1..Len(q), q[j] = due[i] PROVE FALSE
          <6>1. n + j \in 1..Len(due) /\ n + j # i
            BY <3>4, <3>5
          <6>2. due[n + j] = due[i]
            BY <5>2, <3>5
          <6> QED BY <6>1, <6>2, <5>1, <3>6 DEF Distinct
        <5> QED BY <5>1, <5>2, <3>4 DEF ToSet
      <4>2. ASSUME NEW x \in ToSet(due) \ ToSet(q) PROVE x \in {due[i] : i \in 1..n}
        <5>1. PICK i \in 1..Len(due) : x = due[i]
          BY <4>2, <3>4 DEF ToSet
        <5>2. ASSUME i > n PROVE FALSE
          <6>1. i - n \in 1..Len(q) /\ n + (i - n) = i
            BY <5>2, <3>4, <3>5
          <6>2. q[i - n] = due[i]
            BY <6>1, <3>5
          <6> QED BY <6>1, <6>2, <5>1, <4>2, <3>4 DEF ToSet
        <5>3. i \in 1..n
          BY <5>2, <3>4
        <5> QED BY <5>1, <5>3
      <4> QED BY <4>1, <4>2
    <3>8. ToSet(seen) = ToSet(due) \ (Internal \cup ToSet(q))
      BY <3>5, <3>7
    <3>9. Range(walk.seen) = Range(walk.due) \ (Internal \cup Range(walk.queue))
      BY <3>3, <3>8, RangeIsToSet
    <3> QED BY <3>1, <3>3, <3>4, <3>9 DEF WalkStands
  <2> QED BY <2>1, <2>2, <2>3 DEF LoopLifeRight, WalkExact
<1> QED BY <1>1, LifeInductive, PTL
=============================================================================
