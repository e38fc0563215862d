-------------------------- MODULE ThreadpoolProofs --------------------------
(***************************************************************************)
(* The inductive invariant of Threadpool and what follows from it for any  *)
(* number of workers, loops and requests.                                  *)
(***************************************************************************)
EXTENDS Threadpool, QueueLemmas, FiniteSetTheorems

\* Who owns which mutex, read off the program counters.
LockOwners ==
    /\ \A w \in Workers : mutex = w <=> wpc[w] = "locked"
    /\ \A l \in Loops : mutex = l <=> lpc[l] \in {"posting", "cancelling", "trying"}
    /\ \A l \in Loops, w \in Workers :
         wq_mutex[l] = w <=> wpc[w] = "finish" /\ LoopOf[cur[w]] = l
    /\ \A l, k \in Loops :
         wq_mutex[l] = k <=> k = l /\ lpc[l] \in {"trying", "reinserting", "moving"}

\* uv_once: no worker exists before the first submission, all of them after.
PoolStarted ==
    \A w \in Workers : wpc[w] = "unborn" <=> ~initialized

\* The global queue links each node once, and only requests that wait.
GlobalQueue ==
    /\ Distinct(wq)
    /\ \A r \in ToSet(wq) : phase[r] = "queued" /\ ~empty[r] /\ work[r] = "work"

\* The two queues of a loop hold its own finished and cancelled requests.
OwnQueues(l) ==
    /\ Distinct(loop_wq[l])
    /\ Distinct(local_wq[l])
    /\ ToSet(loop_wq[l]) \cap ToSet(local_wq[l]) = {}
    /\ \A r \in ToSet(loop_wq[l]) \cup ToSet(local_wq[l]) :
         /\ LoopOf[r] = l
         /\ ~empty[r]
         /\ \/ phase[r] = "executed" /\ work[r] = "NULL"
            \/ phase[r] = "cancelled" /\ work[r] = "cancelled"

LoopQueues == \A l \in Loops : OwnQueues(l)

\* What a worker holds: its request is unlinked and carries its work function.
WorkerHolds ==
    /\ \A w \in Workers :
         IF wpc[w] \in {"run", "ran", "finish"}
         THEN /\ cur[w] \in Reqs
              /\ empty[cur[w]]
              /\ work[cur[w]] = "work"
              /\ phase[cur[w]] = IF wpc[w] = "run" THEN "executing" ELSE "executed"
         ELSE cur[w] = None
    /\ \A v, w \in Workers : cur[v] = cur[w] /\ cur[v] # None => v = w

\* What a loop thread in uv_queue_work or uv_cancel holds.
Hands(l) ==
    /\ lpc[l] \notin {"user", "done", "moving"} =>
         lreq[l] \in Reqs /\ LoopOf[lreq[l]] = l
    /\ lpc[l] \in {"post", "posting"} =>
         /\ phase[lreq[l]] = "queued"
         /\ work[lreq[l]] = "work"
         /\ lreq[l] \notin ToSet(wq)
    /\ lpc[l] \in {"cancel", "cancelling", "trying"} => phase[lreq[l]] # "free"
    /\ lpc[l] \in {"mark", "reinsert", "reinserting"} =>
         /\ phase[lreq[l]] = "cancelled"
         /\ ~empty[lreq[l]]
         /\ lreq[l] \notin ToSet(loop_wq[l]) \cup ToSet(local_wq[l])
    /\ lpc[l] \in {"reinsert", "reinserting"} => work[lreq[l]] = "cancelled"
    /\ lpc[l] \in {"done", "moving"} => draining[l] /\ local_wq[l] = <<>>
    /\ ~draining[l] => local_wq[l] = <<>>

CallerHolds == \A l \in Loops : Hands(l)

Calling(r, pcs) == lpc[LoopOf[r]] \in pcs /\ lreq[LoopOf[r]] = r
Holding(r, pcs) == \E w \in Workers : wpc[w] \in pcs /\ cur[w] = r
Reported(r) == r \in ToSet(loop_wq[LoopOf[r]]) \cup ToSet(local_wq[LoopOf[r]])

\* A request that is not free is somewhere.
Found(r) ==
    /\ phase[r] = "queued" => r \in ToSet(wq) \/ Calling(r, {"post", "posting"})
    /\ phase[r] = "executing" => Holding(r, {"run"})
    /\ phase[r] = "executed" => Holding(r, {"ran", "finish"}) \/ Reported(r)
    /\ phase[r] = "cancelled" =>
         Calling(r, {"mark", "reinsert", "reinserting"}) \/ Reported(r)

NotLost == \A r \in Reqs : Found(r)

\* The inductive invariant: typing, locks, and where every request is.
IInv ==
    /\ TypeOK
    /\ LockOwners
    /\ PoolStarted
    /\ GlobalQueue
    /\ LoopQueues
    /\ WorkerHolds
    /\ CallerHolds
    /\ NotLost
    /\ WorkConserving

\* Taking the global mutex disturbs only who owns it.
LEMMA WorkerLockStep ==
    ASSUME IInv, NEW w \in Workers, WorkerLock(w)
    PROVE  IInv'
<1> USE DEF WorkerLock, workerVars, loopVars, reqVars, queueVars, lockVars
<1> USE ThreadAssumption DEF IInv
<1>1. TypeOK'
  BY DEF TypeOK, WorkerPCs, LoopPCs
<1>2. LockOwners'
  BY DEF TypeOK, LockOwners
<1>3. PoolStarted'
  BY DEF TypeOK, PoolStarted
<1>4. GlobalQueue'
  BY DEF TypeOK, GlobalQueue
<1>5. LoopQueues'
  BY DEF TypeOK, LoopQueues, OwnQueues
<1>6. WorkerHolds'
  BY DEF TypeOK, WorkerHolds
<1>7. CallerHolds'
  BY DEF TypeOK, CallerHolds, Hands
<1>8. NotLost'
  <2> SUFFICES ASSUME NEW s \in Reqs PROVE Found(s)'
    BY DEF NotLost
  <2>1. Found(s)
    BY DEF NotLost
  <2>2. LoopOf[s] \in Loops
    OBVIOUS
  <2>3. phase'[s] = "queued" => s \in ToSet(wq') \/ Calling(s, {"post", "posting"})'
    BY <2>1, <2>2 DEF TypeOK, Found, Calling
  <2>4. phase'[s] = "executing" => Holding(s, {"run"})'
    BY <2>1, <2>2 DEF TypeOK, Found, Holding
  <2>5. phase'[s] = "executed" => Holding(s, {"ran", "finish"})' \/ Reported(s)'
    BY <2>1, <2>2 DEF TypeOK, Found, Holding, Reported
  <2>6. phase'[s] = "cancelled" => Calling(s, {"mark", "reinsert", "reinserting"})' \/ Reported(s)'
    BY <2>1, <2>2 DEF TypeOK, Found, Calling, Reported
  <2> QED BY <2>3, <2>4, <2>5, <2>6 DEF Found
<1>9. WorkConserving'
  <2>1. Counted' = Counted /\ Looking' = Looking /\ Idle' = Idle
    BY DEF Counted, Looking, Idle, TypeOK
  <2> QED BY <2>1 DEF WorkConserving, TypeOK
<1> QED BY <1>1, <1>2, <1>3, <1>4, <1>5, <1>6, <1>7, <1>8, <1>9 DEF IInv

\* A worker goes to sleep only with wq empty, so nothing waits beside it, and
\* it adds itself to idle_threads as it leaves the set of looking workers.
LEMMA WorkerWaitStep ==
    ASSUME IInv, NEW w \in Workers, WorkerWait(w)
    PROVE  IInv'
<1> USE DEF WorkerWait, workerVars, loopVars, reqVars, queueVars, lockVars
<1> USE ThreadAssumption DEF IInv
<1>1. TypeOK'
  BY DEF TypeOK, WorkerPCs, LoopPCs
<1>2. LockOwners'
  BY DEF TypeOK, LockOwners
<1>3. PoolStarted'
  BY DEF TypeOK, PoolStarted
<1>4. GlobalQueue'
  BY DEF TypeOK, GlobalQueue
<1>5. LoopQueues'
  BY DEF TypeOK, LoopQueues, OwnQueues
<1>6. WorkerHolds'
  BY DEF TypeOK, WorkerHolds
<1>7. CallerHolds'
  BY DEF TypeOK, CallerHolds, Hands
<1>8. NotLost'
  <2> SUFFICES ASSUME NEW s \in Reqs PROVE Found(s)'
    BY DEF NotLost
  <2>1. Found(s)
    BY DEF NotLost
  <2>2. LoopOf[s] \in Loops
    OBVIOUS
  <2>3. phase'[s] = "queued" => s \in ToSet(wq') \/ Calling(s, {"post", "posting"})'
    BY <2>1, <2>2 DEF TypeOK, Found, Calling
  <2>4. phase'[s] = "executing" => Holding(s, {"run"})'
    BY <2>1, <2>2 DEF TypeOK, Found, Holding
  <2>5. phase'[s] = "executed" => Holding(s, {"ran", "finish"})' \/ Reported(s)'
    BY <2>1, <2>2 DEF TypeOK, Found, Holding, Reported
  <2>6. phase'[s] = "cancelled" => Calling(s, {"mark", "reinsert", "reinserting"})' \/ Reported(s)'
    BY <2>1, <2>2 DEF TypeOK, Found, Calling, Reported
  <2> QED BY <2>3, <2>4, <2>5, <2>6 DEF Found
<1>9. WorkConserving'
  <2>1. Counted' = Counted \cup {w} /\ w \notin Counted /\ Looking' = Looking \ {w}
    BY DEF Counted, Looking, TypeOK
  <2>2. IsFiniteSet(Counted) /\ IsFiniteSet(Looking)
    BY PoolAssumption, FS_Subset DEF Counted, Looking
  <2>3. Cardinality(Counted) \in Nat /\ Cardinality(Looking) \in Nat /\ Len(wq) \in Nat
    BY <2>2, FS_CardinalityType, LenProperties DEF TypeOK
  <2>4. Cardinality(Counted') = Cardinality(Counted) + 1
    BY <2>1, <2>2, FS_AddElement
  <2>5. Cardinality(Looking') \in Nat
    BY <2>1, <2>2, FS_RemoveElement, FS_CardinalityType
  <2>6. Len(wq') = 0
    BY EmptySeq
  <2> QED BY <2>3, <2>4, <2>5, <2>6 DEF WorkConserving
<1> QED BY <1>1, <1>2, <1>3, <1>4, <1>5, <1>6, <1>7, <1>8, <1>9 DEF IInv

\* A spurious wakeup adds a looking worker and leaves the counter alone.
LEMMA SpuriousWakeupStep ==
    ASSUME IInv, NEW w \in Workers, SpuriousWakeup(w)
    PROVE  IInv'
<1> USE DEF SpuriousWakeup, workerVars, loopVars, reqVars, queueVars, lockVars
<1> USE ThreadAssumption DEF IInv
<1>1. TypeOK'
  BY DEF TypeOK, WorkerPCs, LoopPCs
<1>2. LockOwners'
  BY DEF TypeOK, LockOwners
<1>3. PoolStarted'
  BY DEF TypeOK, PoolStarted
<1>4. GlobalQueue'
  BY DEF TypeOK, GlobalQueue
<1>5. LoopQueues'
  BY DEF TypeOK, LoopQueues, OwnQueues
<1>6. WorkerHolds'
  BY DEF TypeOK, WorkerHolds
<1>7. CallerHolds'
  BY DEF TypeOK, CallerHolds, Hands
<1>8. NotLost'
  <2> SUFFICES ASSUME NEW s \in Reqs PROVE Found(s)'
    BY DEF NotLost
  <2>1. Found(s)
    BY DEF NotLost
  <2>2. LoopOf[s] \in Loops
    OBVIOUS
  <2>3. phase'[s] = "queued" => s \in ToSet(wq') \/ Calling(s, {"post", "posting"})'
    BY <2>1, <2>2 DEF TypeOK, Found, Calling
  <2>4. phase'[s] = "executing" => Holding(s, {"run"})'
    BY <2>1, <2>2 DEF TypeOK, Found, Holding
  <2>5. phase'[s] = "executed" => Holding(s, {"ran", "finish"})' \/ Reported(s)'
    BY <2>1, <2>2 DEF TypeOK, Found, Holding, Reported
  <2>6. phase'[s] = "cancelled" => Calling(s, {"mark", "reinsert", "reinserting"})' \/ Reported(s)'
    BY <2>1, <2>2 DEF TypeOK, Found, Calling, Reported
  <2> QED BY <2>3, <2>4, <2>5, <2>6 DEF Found
<1>9. WorkConserving'
  <2>1. Counted' = Counted /\ Looking' = Looking \cup {w} /\ w \notin Looking /\ w \in Idle
    BY DEF Counted, Looking, Idle, TypeOK
  <2>2. IsFiniteSet(Counted) /\ IsFiniteSet(Looking)
    BY PoolAssumption, FS_Subset DEF Counted, Looking
  <2>3. Cardinality(Counted) \in Nat /\ Cardinality(Looking) \in Nat /\ Len(wq) \in Nat
    BY <2>2, FS_CardinalityType, LenProperties DEF TypeOK
  <2>4. Cardinality(Looking') = Cardinality(Looking) + 1
    BY <2>1, <2>2, FS_AddElement
  <2> QED BY <2>1, <2>3, <2>4 DEF WorkConserving
<1> QED BY <1>1, <1>2, <1>3, <1>4, <1>5, <1>6, <1>7, <1>8, <1>9 DEF IInv

\* A woken worker removes itself from idle_threads, which counted it.
LEMMA WorkerRelockStep ==
    ASSUME IInv, NEW w \in Workers, WorkerRelock(w)
    PROVE  IInv'
<1> USE DEF WorkerRelock, workerVars, loopVars, reqVars, queueVars, lockVars
<1> USE ThreadAssumption DEF IInv
<1>1. TypeOK'
  <2>1. w \in Counted
    BY DEF Counted
  <2>2. IsFiniteSet(Counted)
    BY PoolAssumption, FS_Subset DEF Counted
  <2>3. Cardinality(Counted) \in Nat /\ Cardinality(Counted) # 0
    BY <2>1, <2>2, FS_CardinalityType, FS_EmptySet
  <2>4. idle_threads - 1 \in Nat
    BY <2>3 DEF WorkConserving
  <2> QED BY <2>4 DEF TypeOK, WorkerPCs
<1>2. LockOwners'
  BY DEF TypeOK, LockOwners
<1>3. PoolStarted'
  BY DEF TypeOK, PoolStarted
<1>4. GlobalQueue'
  BY DEF TypeOK, GlobalQueue
<1>5. LoopQueues'
  BY DEF TypeOK, LoopQueues, OwnQueues
<1>6. WorkerHolds'
  BY DEF TypeOK, WorkerHolds
<1>7. CallerHolds'
  BY DEF TypeOK, CallerHolds, Hands
<1>8. NotLost'
  <2> SUFFICES ASSUME NEW s \in Reqs PROVE Found(s)'
    BY DEF NotLost
  <2>1. Found(s)
    BY DEF NotLost
  <2>2. LoopOf[s] \in Loops
    OBVIOUS
  <2>3. phase'[s] = "queued" => s \in ToSet(wq') \/ Calling(s, {"post", "posting"})'
    BY <2>1, <2>2 DEF TypeOK, Found, Calling
  <2>4. phase'[s] = "executing" => Holding(s, {"run"})'
    BY <2>1, <2>2 DEF TypeOK, Found, Holding
  <2>5. phase'[s] = "executed" => Holding(s, {"ran", "finish"})' \/ Reported(s)'
    BY <2>1, <2>2 DEF TypeOK, Found, Holding, Reported
  <2>6. phase'[s] = "cancelled" => Calling(s, {"mark", "reinsert", "reinserting"})' \/ Reported(s)'
    BY <2>1, <2>2 DEF TypeOK, Found, Calling, Reported
  <2> QED BY <2>3, <2>4, <2>5, <2>6 DEF Found
<1>9. WorkConserving'
  <2>1. Counted' = Counted \ {w} /\ w \in Counted /\ Looking' = Looking /\ Idle' = Idle
    BY DEF Counted, Looking, Idle, TypeOK
  <2>2. IsFiniteSet(Counted) /\ IsFiniteSet(Looking)
    BY PoolAssumption, FS_Subset DEF Counted, Looking
  <2>3. Cardinality(Counted) \in Nat /\ Cardinality(Looking) \in Nat /\ Len(wq) \in Nat
    BY <2>2, FS_CardinalityType, LenProperties DEF TypeOK
  <2>4. Cardinality(Counted') = Cardinality(Counted) - 1
    BY <2>1, <2>2, FS_RemoveElement
  <2> QED BY <2>1, <2>3, <2>4 DEF WorkConserving, TypeOK
<1> QED BY <1>1, <1>2, <1>3, <1>4, <1>5, <1>6, <1>7, <1>8, <1>9 DEF IInv

\* The head of wq passes from the queue to the worker: its node becomes empty
\* in the same critical section, and one fewer request needs a looking worker.
LEMMA WorkerTakeStep ==
    ASSUME IInv, NEW w \in Workers, WorkerTake(w)
    PROVE  IInv'
<1> USE DEF WorkerTake, workerVars, loopVars, reqVars, queueVars, lockVars
<1> USE ThreadAssumption DEF IInv
<1> DEFINE r == Head(wq)
<1>a. /\ r \in Reqs /\ r \in ToSet(wq) /\ Tail(wq) \in Seq(Reqs)
      /\ ToSet(Tail(wq)) \subseteq ToSet(wq)
      /\ Distinct(Tail(wq)) /\ r \notin ToSet(Tail(wq))
      /\ ToSet(wq) = ToSet(Tail(wq)) \cup {r}
  BY TailFacts DEF TypeOK, GlobalQueue
<1>b. phase[r] = "queued" /\ ~empty[r] /\ work[r] = "work"
  BY <1>a DEF GlobalQueue
<1>1. TypeOK'
  BY <1>a, <1>b DEF TypeOK, WorkerPCs, LoopPCs
<1>2. LockOwners'
  BY <1>a, <1>b DEF TypeOK, LockOwners
<1>3. PoolStarted'
  BY <1>a, <1>b DEF TypeOK, PoolStarted
<1>4. GlobalQueue'
  BY <1>a, <1>b DEF TypeOK, GlobalQueue, LoopQueues, OwnQueues, WorkerHolds, CallerHolds, Hands
<1>5. LoopQueues'
  BY <1>a, <1>b DEF TypeOK, GlobalQueue, LoopQueues, OwnQueues, WorkerHolds, CallerHolds, Hands
<1>6. WorkerHolds'
  BY <1>a, <1>b DEF TypeOK, GlobalQueue, LoopQueues, OwnQueues, WorkerHolds, CallerHolds, Hands
<1>7. CallerHolds'
  BY <1>a, <1>b DEF TypeOK, GlobalQueue, LoopQueues, OwnQueues, WorkerHolds, CallerHolds, Hands
<1>8. NotLost'
  <2> SUFFICES ASSUME NEW s \in Reqs PROVE Found(s)'
    BY DEF NotLost
  <2>1. Found(s)
    BY DEF NotLost
  <2>2. LoopOf[s] \in Loops
    OBVIOUS
  <2>3. phase'[s] = "queued" => s \in ToSet(wq') \/ Calling(s, {"post", "posting"})'
    BY <2>1, <2>2, <1>a, <1>b DEF TypeOK, Found, Calling
  <2>4. phase'[s] = "executing" => Holding(s, {"run"})'
    BY <2>1, <2>2, <1>a, <1>b DEF TypeOK, Found, Holding
  <2>5. phase'[s] = "executed" => Holding(s, {"ran", "finish"})' \/ Reported(s)'
    BY <2>1, <2>2, <1>a, <1>b DEF TypeOK, Found, Holding, Reported
  <2>6. phase'[s] = "cancelled" => Calling(s, {"mark", "reinsert", "reinserting"})' \/ Reported(s)'
    BY <2>1, <2>2, <1>a, <1>b DEF TypeOK, Found, Calling, Reported
  <2> QED BY <2>3, <2>4, <2>5, <2>6 DEF Found
<1>9. WorkConserving'
  <2>1. Counted' = Counted /\ Looking' = Looking \ {w} /\ w \in Looking /\ Idle' = Idle
    BY DEF Counted, Looking, Idle, TypeOK
  <2>2. IsFiniteSet(Counted) /\ IsFiniteSet(Looking)
    BY PoolAssumption, FS_Subset DEF Counted, Looking
  <2>3. Cardinality(Counted) \in Nat /\ Cardinality(Looking) \in Nat /\ Len(wq) \in Nat
    BY <2>2, FS_CardinalityType, LenProperties DEF TypeOK
  <2>4. Cardinality(Looking') = Cardinality(Looking) - 1
    BY <2>1, <2>2, FS_RemoveElement
  <2>5. Len(wq') = Len(wq) - 1
    BY TailFacts DEF TypeOK
  <2> QED BY <2>1, <2>3, <2>4, <2>5 DEF WorkConserving
<1> QED BY <1>1, <1>2, <1>3, <1>4, <1>5, <1>6, <1>7, <1>8, <1>9 DEF IInv

\* The work function returns: the request stays in the hands of its worker.
LEMMA WorkerRunStep ==
    ASSUME IInv, NEW w \in Workers, WorkerRun(w)
    PROVE  IInv'
<1> USE DEF WorkerRun, workerVars, loopVars, reqVars, queueVars, lockVars
<1> USE ThreadAssumption DEF IInv
<1>a. cur[w] \in Reqs /\ empty[cur[w]] /\ phase[cur[w]] = "executing"
  BY DEF TypeOK, WorkerHolds
<1>1. TypeOK'
  BY <1>a DEF TypeOK, WorkerPCs, LoopPCs
<1>2. LockOwners'
  BY <1>a DEF TypeOK, LockOwners
<1>3. PoolStarted'
  BY <1>a DEF TypeOK, PoolStarted
<1>4. GlobalQueue'
  BY <1>a DEF TypeOK, GlobalQueue, LoopQueues, OwnQueues, WorkerHolds, CallerHolds, Hands
<1>5. LoopQueues'
  BY <1>a DEF TypeOK, GlobalQueue, LoopQueues, OwnQueues, WorkerHolds, CallerHolds, Hands
<1>6. WorkerHolds'
  BY <1>a DEF TypeOK, GlobalQueue, LoopQueues, OwnQueues, WorkerHolds, CallerHolds, Hands
<1>7. CallerHolds'
  BY <1>a DEF TypeOK, GlobalQueue, LoopQueues, OwnQueues, WorkerHolds, CallerHolds, Hands
<1>8. NotLost'
  <2> SUFFICES ASSUME NEW s \in Reqs PROVE Found(s)'
    BY DEF NotLost
  <2>1. Found(s)
    BY DEF NotLost
  <2>2. LoopOf[s] \in Loops
    OBVIOUS
  <2>3. phase'[s] = "queued" => s \in ToSet(wq') \/ Calling(s, {"post", "posting"})'
    BY <2>1, <2>2, <1>a DEF TypeOK, Found, Calling
  <2>4. phase'[s] = "executing" => Holding(s, {"run"})'
    BY <2>1, <2>2, <1>a DEF TypeOK, Found, Holding
  <2>5. phase'[s] = "executed" => Holding(s, {"ran", "finish"})' \/ Reported(s)'
    BY <2>1, <2>2, <1>a DEF TypeOK, Found, Holding, Reported
  <2>6. phase'[s] = "cancelled" => Calling(s, {"mark", "reinsert", "reinserting"})' \/ Reported(s)'
    BY <2>1, <2>2, <1>a DEF TypeOK, Found, Calling, Reported
  <2> QED BY <2>3, <2>4, <2>5, <2>6 DEF Found
<1>9. WorkConserving'
  <2>1. Counted' = Counted /\ Looking' = Looking /\ Idle' = Idle
    BY DEF Counted, Looking, Idle, TypeOK
  <2> QED BY <2>1 DEF WorkConserving, TypeOK
<1> QED BY <1>1, <1>2, <1>3, <1>4, <1>5, <1>6, <1>7, <1>8, <1>9 DEF IInv

\* Taking the wq_mutex of the loop of the request the worker holds.
LEMMA WorkerLoopLockStep ==
    ASSUME IInv, NEW w \in Workers, WorkerLoopLock(w)
    PROVE  IInv'
<1> USE DEF WorkerLoopLock, workerVars, loopVars, reqVars, queueVars, lockVars
<1> USE ThreadAssumption DEF IInv
<1>1. TypeOK'
  BY DEF TypeOK, WorkerPCs, LoopPCs
<1>2. LockOwners'
  BY DEF TypeOK, LockOwners
<1>3. PoolStarted'
  BY DEF TypeOK, PoolStarted
<1>4. GlobalQueue'
  BY DEF TypeOK, GlobalQueue
<1>5. LoopQueues'
  BY DEF TypeOK, LoopQueues, OwnQueues
<1>6. WorkerHolds'
  BY DEF TypeOK, WorkerHolds
<1>7. CallerHolds'
  BY DEF TypeOK, CallerHolds, Hands
<1>8. NotLost'
  <2> SUFFICES ASSUME NEW s \in Reqs PROVE Found(s)'
    BY DEF NotLost
  <2>1. Found(s)
    BY DEF NotLost
  <2>2. LoopOf[s] \in Loops
    OBVIOUS
  <2>3. phase'[s] = "queued" => s \in ToSet(wq') \/ Calling(s, {"post", "posting"})'
    BY <2>1, <2>2 DEF TypeOK, Found, Calling
  <2>4. phase'[s] = "executing" => Holding(s, {"run"})'
    BY <2>1, <2>2 DEF TypeOK, Found, Holding
  <2>5. phase'[s] = "executed" => Holding(s, {"ran", "finish"})' \/ Reported(s)'
    BY <2>1, <2>2 DEF TypeOK, Found, Holding, Reported
  <2>6. phase'[s] = "cancelled" => Calling(s, {"mark", "reinsert", "reinserting"})' \/ Reported(s)'
    BY <2>1, <2>2 DEF TypeOK, Found, Calling, Reported
  <2> QED BY <2>3, <2>4, <2>5, <2>6 DEF Found
<1>9. WorkConserving'
  <2>1. Counted' = Counted /\ Looking' = Looking /\ Idle' = Idle
    BY DEF Counted, Looking, Idle, TypeOK
  <2> QED BY <2>1 DEF WorkConserving, TypeOK
<1> QED BY <1>1, <1>2, <1>3, <1>4, <1>5, <1>6, <1>7, <1>8, <1>9 DEF IInv

\* The executed request passes from the worker to the queue of its own loop,
\* where no other node of it can be.
LEMMA WorkerFinishStep ==
    ASSUME IInv, NEW w \in Workers, WorkerFinish(w)
    PROVE  IInv'
<1> USE DEF WorkerFinish, workerVars, loopVars, reqVars, queueVars, lockVars
<1> USE ThreadAssumption DEF IInv
<1> DEFINE r == cur[w]
           k == LoopOf[r]
           q == Append(loop_wq[k], r)
<1>a. r \in Reqs /\ k \in Loops /\ empty[r] /\ work[r] = "work" /\ phase[r] = "executed"
  BY DEF TypeOK, WorkerHolds
<1>b. r \notin ToSet(wq) /\ r \notin ToSet(loop_wq[k]) /\ r \notin ToSet(local_wq[k])
  BY <1>a DEF GlobalQueue, LoopQueues, OwnQueues
<1>c. q \in Seq(Reqs) /\ ToSet(q) = ToSet(loop_wq[k]) \cup {r} /\ Distinct(q)
  BY <1>a, <1>b, AppendFacts DEF TypeOK, LoopQueues, OwnQueues
<1>d. loop_wq' = [loop_wq EXCEPT ![k] = q]
  OBVIOUS
<1> HIDE DEF q
<1>e. /\ Distinct(loop_wq'[k]) /\ ToSet(loop_wq'[k]) = ToSet(loop_wq[k]) \cup {r}
      /\ \A j \in Loops : j # k => loop_wq'[j] = loop_wq[j]
  <2>1. loop_wq'[k] = q
    BY <1>a, <1>d DEF TypeOK
  <2>2. \A j \in Loops : j # k => loop_wq'[j] = loop_wq[j]
    BY <1>a, <1>d DEF TypeOK
  <2> QED BY <2>1, <2>2, <1>c
<1>f. /\ ~empty'[r] /\ work'[r] = "NULL"
      /\ \A s \in Reqs : s # r => empty'[s] = empty[s] /\ work'[s] = work[s]
  BY <1>a DEF TypeOK
<1>1. TypeOK'
  <2>1. loop_wq' \in [Loops -> Seq(Reqs)]
    BY <1>a, <1>c, <1>d DEF TypeOK
  <2>2. empty' \in [Reqs -> BOOLEAN] /\ pending' \in [Loops -> BOOLEAN]
    BY <1>a DEF TypeOK
  <2> QED BY <2>1, <2>2, <1>a DEF TypeOK, WorkerPCs
<1>2. LockOwners'
  <2>1. /\ wq_mutex[k] = w
        /\ \A j \in Loops : wq_mutex'[j] = IF j = k THEN None ELSE wq_mutex[j]
        /\ \A v \in Workers : wpc'[v] = IF v = w THEN "lock" ELSE wpc[v]
        /\ \A v \in Workers : cur'[v] = IF v = w THEN None ELSE cur[v]
    BY <1>a DEF LockOwners, TypeOK
  <2>2. \A v \in Workers : mutex' = v <=> wpc'[v] = "locked"
    BY <2>1 DEF LockOwners
  <2>3. \A j \in Loops, v \in Workers :
          wq_mutex'[j] = v <=> wpc'[v] = "finish" /\ LoopOf[cur'[v]] = j
    BY <2>1 DEF LockOwners
  <2>4. \A i, j \in Loops :
          wq_mutex'[i] = j <=> j = i /\ lpc'[i] \in {"trying", "reinserting", "moving"}
    BY <2>1 DEF LockOwners
  <2> QED BY <2>2, <2>3, <2>4 DEF LockOwners
<1>3. PoolStarted'
  BY <1>a, <1>b, <1>c, <1>d DEF TypeOK, PoolStarted
<1>4. GlobalQueue'
  BY <1>a, <1>b, <1>c, <1>d DEF TypeOK, GlobalQueue, LoopQueues, OwnQueues, WorkerHolds, CallerHolds, Hands
<1>5. LoopQueues'
  <2> SUFFICES ASSUME NEW j \in Loops PROVE OwnQueues(j)'
    BY DEF LoopQueues
  <2>0. OwnQueues(j)
    BY DEF LoopQueues
  <2>1. \A s \in ToSet(loop_wq[j]) \cup ToSet(local_wq[j]) :
          s \in Reqs /\ s # r /\ empty'[s] = empty[s] /\ work'[s] = work[s]
    <3>1. \A s \in ToSet(loop_wq[j]) \cup ToSet(local_wq[j]) : s \in Reqs
      BY DEF TypeOK, ToSet
    <3>2. \A s \in ToSet(loop_wq[j]) \cup ToSet(local_wq[j]) : ~empty[s]
      BY <2>0 DEF OwnQueues
    <3> QED BY <3>1, <3>2, <1>a, <1>f
  <2>2. CASE j = k
    BY <2>0, <2>1, <2>2, <1>a, <1>b, <1>e, <1>f DEF OwnQueues
  <2>3. CASE j # k
    BY <2>0, <2>1, <2>3, <1>e DEF OwnQueues
  <2> QED BY <2>2, <2>3
<1>6. WorkerHolds'
  BY <1>a, <1>b, <1>c, <1>d DEF TypeOK, GlobalQueue, LoopQueues, OwnQueues, WorkerHolds, CallerHolds, Hands
<1>7. CallerHolds'
  <2>1. \A j \in Loops : lpc[j] \in {"mark", "reinsert", "reinserting", "post", "posting"} => lreq[j] # r
    BY <1>a DEF CallerHolds, Hands
  <2>2. \A j \in Loops : lreq[j] # r /\ lreq[j] \notin ToSet(loop_wq[j]) => lreq[j] \notin ToSet(loop_wq'[j])
    BY <1>e
  <2> QED BY <2>1, <2>2, <1>f DEF CallerHolds, Hands
<1>8. NotLost'
  <2> SUFFICES ASSUME NEW s \in Reqs PROVE Found(s)'
    BY DEF NotLost
  <2>1. Found(s)
    BY DEF NotLost
  <2>2. LoopOf[s] \in Loops
    OBVIOUS
  <2>3. phase'[s] = "queued" => s \in ToSet(wq') \/ Calling(s, {"post", "posting"})'
    BY <2>1, <2>2, <1>a, <1>b, <1>c, <1>d DEF TypeOK, Found, Calling
  <2>4. phase'[s] = "executing" => Holding(s, {"run"})'
    BY <2>1, <2>2, <1>a, <1>b, <1>c, <1>d DEF TypeOK, Found, Holding
  <2>5. phase'[s] = "executed" => Holding(s, {"ran", "finish"})' \/ Reported(s)'
    <3>1. CASE s = r
      BY <3>1, <1>a, <1>c, <1>e DEF Reported
    <3>2. CASE s # r
      <4>1. Reported(s) => Reported(s)'
        BY <1>c, <1>e, <2>2 DEF Reported
      <4>2. Holding(s, {"ran", "finish"}) => Holding(s, {"ran", "finish"})'
        BY <3>2 DEF Holding, TypeOK
      <4> QED BY <4>1, <4>2, <2>1 DEF Found
    <3> QED BY <3>1, <3>2
  <2>6. phase'[s] = "cancelled" => Calling(s, {"mark", "reinsert", "reinserting"})' \/ Reported(s)'
    <3>1. Reported(s) => Reported(s)'
      BY <1>c, <1>e, <2>2 DEF Reported
    <3> QED BY <3>1, <2>1 DEF Found, Calling
  <2> QED BY <2>3, <2>4, <2>5, <2>6 DEF Found
<1>9. WorkConserving'
  <2>1. Counted' = Counted /\ Looking' = Looking \cup {w} /\ w \notin Looking /\ Idle' = Idle
    BY DEF Counted, Looking, Idle, TypeOK
  <2>2. IsFiniteSet(Counted) /\ IsFiniteSet(Looking)
    BY PoolAssumption, FS_Subset DEF Counted, Looking
  <2>3. Cardinality(Counted) \in Nat /\ Cardinality(Looking) \in Nat /\ Len(wq) \in Nat
    BY <2>2, FS_CardinalityType, LenProperties DEF TypeOK
  <2>4. Cardinality(Looking') = Cardinality(Looking) + 1
    BY <2>1, <2>2, FS_AddElement
  <2> QED BY <2>1, <2>3, <2>4 DEF WorkConserving
<1> QED BY <1>1, <1>2, <1>3, <1>4, <1>5, <1>6, <1>7, <1>8, <1>9 DEF IInv

\* A free request is nowhere, so a submission puts it in one place; the first
\* submission starts the workers.
LEMMA QueueWorkStep ==
    ASSUME IInv, NEW l \in Loops, NEW r \in Reqs, QueueWork(l, r)
    PROVE  IInv'
<1> USE DEF QueueWork, Submit, InitOnce, workerVars, loopVars, reqVars, queueVars, lockVars
<1> USE ThreadAssumption DEF IInv
<1>a. /\ r \notin ToSet(wq)
      /\ r \notin ToSet(loop_wq[l]) \cup ToSet(local_wq[l])
      /\ \A w \in Workers : cur[w] # r
  BY DEF GlobalQueue, LoopQueues, OwnQueues, WorkerHolds
<1>b. wpc' = wpc \/ (/\ \A w \in Workers : wpc[w] = "unborn" /\ cur[w] = None
                    /\ wpc' = [w \in Workers |-> "lock"])
  BY DEF PoolStarted, WorkerHolds
<1>1. TypeOK'
  BY DEF TypeOK, WorkerPCs, LoopPCs
<1>2. LockOwners'
  <2>1. CASE wpc' = wpc
    BY <2>1 DEF LockOwners, TypeOK
  <2>2. CASE wpc' # wpc
    BY <2>2, <1>b DEF LockOwners, TypeOK
  <2> QED BY <2>1, <2>2
<1>3. PoolStarted'
  BY DEF TypeOK, PoolStarted
<1>4. GlobalQueue'
  BY DEF TypeOK, GlobalQueue
<1>5. LoopQueues'
  BY DEF TypeOK, LoopQueues, OwnQueues
<1>6. WorkerHolds'
  <2>1. CASE wpc' = wpc
    BY <2>1, <1>a DEF WorkerHolds, TypeOK
  <2>2. CASE wpc' # wpc
    BY <2>2, <1>b DEF WorkerHolds, TypeOK
  <2> QED BY <2>1, <2>2
<1>7. CallerHolds'
  BY <1>a DEF CallerHolds, Hands, TypeOK
<1>8. NotLost'
  <2> SUFFICES ASSUME NEW s \in Reqs PROVE Found(s)'
    BY DEF NotLost
  <2>1. Found(s)
    BY DEF NotLost
  <2>2. LoopOf[s] \in Loops
    OBVIOUS
  <2>3. phase'[s] = "queued" => s \in ToSet(wq') \/ Calling(s, {"post", "posting"})'
    BY <2>1, <2>2 DEF TypeOK, Found, Calling
  <2>4. phase'[s] = "executing" => Holding(s, {"run"})'
    BY <2>1, <1>b DEF TypeOK, Found, Holding
  <2>5. phase'[s] = "executed" => Holding(s, {"ran", "finish"})' \/ Reported(s)'
    BY <2>1, <1>b DEF TypeOK, Found, Holding, Reported
  <2>6. phase'[s] = "cancelled" => Calling(s, {"mark", "reinsert", "reinserting"})' \/ Reported(s)'
    BY <2>1, <2>2 DEF TypeOK, Found, Calling, Reported
  <2> QED BY <2>3, <2>4, <2>5, <2>6 DEF Found
<1>9. WorkConserving'
  <2>1. Counted' = Counted /\ Idle' = Idle /\ (initialized => Looking' = Looking) /\ (~initialized => Idle' = {})
    BY DEF Counted, Looking, Idle, TypeOK, PoolStarted
  <2> QED BY <2>1 DEF WorkConserving, TypeOK
<1> QED BY <1>1, <1>2, <1>3, <1>4, <1>5, <1>6, <1>7, <1>8, <1>9 DEF IInv

\* uv_cancel starts on a request that is not free: nothing moves yet.
LEMMA CancelStep ==
    ASSUME IInv, NEW l \in Loops, NEW r \in Reqs, Cancel(l, r)
    PROVE  IInv'
<1> USE DEF Cancel, workerVars, loopVars, reqVars, queueVars, lockVars
<1> USE ThreadAssumption DEF IInv
<1>1. TypeOK'
  BY DEF TypeOK, WorkerPCs, LoopPCs
<1>2. LockOwners'
  BY DEF TypeOK, LockOwners
<1>3. PoolStarted'
  BY DEF TypeOK, PoolStarted
<1>4. GlobalQueue'
  BY DEF TypeOK, GlobalQueue
<1>5. LoopQueues'
  BY DEF TypeOK, LoopQueues, OwnQueues
<1>6. WorkerHolds'
  BY DEF TypeOK, WorkerHolds
<1>7. CallerHolds'
  BY DEF TypeOK, CallerHolds, Hands
<1>8. NotLost'
  <2> SUFFICES ASSUME NEW s \in Reqs PROVE Found(s)'
    BY DEF NotLost
  <2>1. Found(s)
    BY DEF NotLost
  <2>2. LoopOf[s] \in Loops
    OBVIOUS
  <2>3. phase'[s] = "queued" => s \in ToSet(wq') \/ Calling(s, {"post", "posting"})'
    BY <2>1, <2>2 DEF TypeOK, Found, Calling
  <2>4. phase'[s] = "executing" => Holding(s, {"run"})'
    BY <2>1, <2>2 DEF TypeOK, Found, Holding
  <2>5. phase'[s] = "executed" => Holding(s, {"ran", "finish"})' \/ Reported(s)'
    BY <2>1, <2>2 DEF TypeOK, Found, Holding, Reported
  <2>6. phase'[s] = "cancelled" => Calling(s, {"mark", "reinsert", "reinserting"})' \/ Reported(s)'
    BY <2>1, <2>2 DEF TypeOK, Found, Calling, Reported
  <2> QED BY <2>3, <2>4, <2>5, <2>6 DEF Found
<1>9. WorkConserving'
  <2>1. Counted' = Counted /\ Looking' = Looking /\ Idle' = Idle
    BY DEF Counted, Looking, Idle, TypeOK
  <2> QED BY <2>1 DEF WorkConserving, TypeOK
<1> QED BY <1>1, <1>2, <1>3, <1>4, <1>5, <1>6, <1>7, <1>8, <1>9 DEF IInv

\* Taking the global mutex in post().
LEMMA PostLockStep ==
    ASSUME IInv, NEW l \in Loops, PostLock(l)
    PROVE  IInv'
<1> USE DEF PostLock, workerVars, loopVars, reqVars, queueVars, lockVars
<1> USE ThreadAssumption DEF IInv
<1>1. TypeOK'
  BY DEF TypeOK, WorkerPCs, LoopPCs
<1>2. LockOwners'
  BY DEF TypeOK, LockOwners
<1>3. PoolStarted'
  BY DEF TypeOK, PoolStarted
<1>4. GlobalQueue'
  BY DEF TypeOK, GlobalQueue
<1>5. LoopQueues'
  BY DEF TypeOK, LoopQueues, OwnQueues
<1>6. WorkerHolds'
  BY DEF TypeOK, WorkerHolds
<1>7. CallerHolds'
  BY DEF TypeOK, CallerHolds, Hands
<1>8. NotLost'
  <2> SUFFICES ASSUME NEW s \in Reqs PROVE Found(s)'
    BY DEF NotLost
  <2>1. Found(s)
    BY DEF NotLost
  <2>2. LoopOf[s] \in Loops
    OBVIOUS
  <2>3. phase'[s] = "queued" => s \in ToSet(wq') \/ Calling(s, {"post", "posting"})'
    BY <2>1, <2>2 DEF TypeOK, Found, Calling
  <2>4. phase'[s] = "executing" => Holding(s, {"run"})'
    BY <2>1, <2>2 DEF TypeOK, Found, Holding
  <2>5. phase'[s] = "executed" => Holding(s, {"ran", "finish"})' \/ Reported(s)'
    BY <2>1, <2>2 DEF TypeOK, Found, Holding, Reported
  <2>6. phase'[s] = "cancelled" => Calling(s, {"mark", "reinsert", "reinserting"})' \/ Reported(s)'
    BY <2>1, <2>2 DEF TypeOK, Found, Calling, Reported
  <2> QED BY <2>3, <2>4, <2>5, <2>6 DEF Found
<1>9. WorkConserving'
  <2>1. Counted' = Counted /\ Looking' = Looking /\ Idle' = Idle
    BY DEF Counted, Looking, Idle, TypeOK
  <2> QED BY <2>1 DEF WorkConserving, TypeOK
<1> QED BY <1>1, <1>2, <1>3, <1>4, <1>5, <1>6, <1>7, <1>8, <1>9 DEF IInv

\* post() appends one request and, when a worker sleeps, wakes one: the queue
\* and the set of looking workers grow together.
LEMMA PostStep ==
    ASSUME IInv, NEW l \in Loops, Post(l)
    PROVE  IInv'
<1> USE DEF Post, workerVars, loopVars, reqVars, queueVars, lockVars
<1> USE ThreadAssumption DEF IInv
<1> DEFINE r == lreq[l]
           q == Append(wq, r)
<1>a. r \in Reqs /\ LoopOf[r] = l /\ r \notin ToSet(wq) /\ phase[r] = "queued" /\ work[r] = "work"
  BY DEF CallerHolds, Hands
<1>b. q \in Seq(Reqs) /\ ToSet(q) = ToSet(wq) \cup {r} /\ Distinct(q) /\ Len(q) = Len(wq) + 1
  BY <1>a, AppendFacts DEF TypeOK, GlobalQueue
<1>c. \/ wpc' = wpc /\ (idle_threads = 0 \/ Idle = {})
      \/ \E v \in Workers : wpc[v] = "wait" /\ wpc' = [wpc EXCEPT ![v] = "woken"]
  BY DEF Signal, Idle, TypeOK
<1>d. wq' = q
  OBVIOUS
<1> HIDE DEF q
<1>1. TypeOK'
  BY <1>a, <1>b, <1>c, <1>d DEF TypeOK, WorkerPCs, LoopPCs
<1>2. LockOwners'
  <2>1. \A v \in Workers : wpc'[v] = wpc[v] \/ (wpc[v] = "wait" /\ wpc'[v] = "woken")
    BY <1>c DEF TypeOK
  <2>2. \A v \in Workers : mutex' = v <=> wpc'[v] = "locked"
    BY <2>1 DEF LockOwners
  <2>3. \A j \in Loops : mutex' = j <=> lpc'[j] \in {"posting", "cancelling", "trying"}
    BY DEF LockOwners, TypeOK
  <2>4. \A j \in Loops, v \in Workers :
          wq_mutex'[j] = v <=> wpc'[v] = "finish" /\ LoopOf[cur'[v]] = j
    BY <2>1 DEF LockOwners
  <2>5. \A i, j \in Loops :
          wq_mutex'[i] = j <=> j = i /\ lpc'[i] \in {"trying", "reinserting", "moving"}
    BY DEF LockOwners, TypeOK
  <2> QED BY <2>2, <2>3, <2>4, <2>5 DEF LockOwners
<1>3. PoolStarted'
  BY <1>a, <1>b, <1>c, <1>d DEF TypeOK, PoolStarted
<1>4. GlobalQueue'
  BY <1>a, <1>b, <1>c, <1>d DEF TypeOK, GlobalQueue, LoopQueues, OwnQueues, WorkerHolds, CallerHolds, Hands
<1>5. LoopQueues'
  BY <1>a, <1>b, <1>c, <1>d, SMTT(40) DEF TypeOK, GlobalQueue, LoopQueues, OwnQueues, WorkerHolds, CallerHolds, Hands
<1>6. WorkerHolds'
  BY <1>a, <1>b, <1>c, <1>d, SMTT(40) DEF TypeOK, GlobalQueue, LoopQueues, OwnQueues, WorkerHolds, CallerHolds, Hands
<1>7. CallerHolds'
  <2>1. \A j \in Loops : lpc'[j] = (IF j = l THEN "user" ELSE lpc[j])
                       /\ lreq'[j] = (IF j = l THEN None ELSE lreq[j])
    BY DEF TypeOK
  <2>2. \A j \in Loops : j # l /\ lpc[j] \notin {"user", "done", "moving"} => lreq[j] # r
    BY <1>a DEF CallerHolds, Hands
  <2> QED BY <2>1, <2>2, <1>a, <1>b, <1>d, SMTT(40) DEF CallerHolds, Hands, TypeOK
<1>8. NotLost'
  <2> SUFFICES ASSUME NEW s \in Reqs PROVE Found(s)'
    BY DEF NotLost
  <2>1. Found(s)
    BY DEF NotLost
  <2>2. LoopOf[s] \in Loops
    OBVIOUS
  <2>3. phase'[s] = "queued" => s \in ToSet(wq') \/ Calling(s, {"post", "posting"})'
    BY <2>1, <2>2, <1>a, <1>b, <1>c, <1>d DEF TypeOK, Found, Calling
  <2>4. phase'[s] = "executing" => Holding(s, {"run"})'
    BY <2>1, <2>2, <1>a, <1>b, <1>c, <1>d DEF TypeOK, Found, Holding
  <2>5. phase'[s] = "executed" => Holding(s, {"ran", "finish"})' \/ Reported(s)'
    BY <2>1, <2>2, <1>a, <1>b, <1>c, <1>d DEF TypeOK, Found, Holding, Reported
  <2>6. phase'[s] = "cancelled" => Calling(s, {"mark", "reinsert", "reinserting"})' \/ Reported(s)'
    BY <2>1, <2>2, <1>a, <1>b, <1>c, <1>d DEF TypeOK, Found, Calling, Reported
  <2> QED BY <2>3, <2>4, <2>5, <2>6 DEF Found
<1>9. WorkConserving'
  <2>2. IsFiniteSet(Counted) /\ IsFiniteSet(Looking)
    BY PoolAssumption, FS_Subset DEF Counted, Looking
  <2>3. Cardinality(Counted) \in Nat /\ Cardinality(Looking) \in Nat /\ Len(wq) \in Nat
    BY <2>2, FS_CardinalityType, LenProperties DEF TypeOK
  <2>4. CASE Idle = {}
    <3>1. wpc' = wpc
      BY <1>c, <2>4 DEF Idle
    <3>2. Counted' = Counted /\ Idle' = {}
      BY <3>1, <2>4 DEF Counted, Idle
    <3> QED BY <3>2 DEF WorkConserving
  <2>5. CASE Idle # {}
    <3>1. Counted # {}
      BY <2>5 DEF Idle, Counted
    <3>2. idle_threads > 0
      BY <3>1, <2>2, <2>3, FS_EmptySet DEF WorkConserving, TypeOK
    <3>3. PICK v \in Workers : wpc[v] = "wait" /\ wpc' = [wpc EXCEPT ![v] = "woken"]
      BY <1>c, <2>5, <3>2
    <3>4. Counted' = Counted /\ Looking' = Looking \cup {v} /\ v \notin Looking
      BY <3>3 DEF Counted, Looking, TypeOK
    <3>5. Cardinality(Looking') = Cardinality(Looking) + 1
      BY <3>4, <2>2, FS_AddElement
    <3> QED BY <3>4, <3>5, <2>3, <2>5, <1>b, <1>d DEF WorkConserving
  <2> QED BY <2>4, <2>5
<1> QED BY <1>1, <1>2, <1>3, <1>4, <1>5, <1>6, <1>7, <1>8, <1>9 DEF IInv

\* Taking the global mutex in uv__work_cancel.
LEMMA CancelLockStep ==
    ASSUME IInv, NEW l \in Loops, CancelLock(l)
    PROVE  IInv'
<1> USE DEF CancelLock, workerVars, loopVars, reqVars, queueVars, lockVars
<1> USE ThreadAssumption DEF IInv
<1>1. TypeOK'
  BY DEF TypeOK, WorkerPCs, LoopPCs
<1>2. LockOwners'
  BY DEF TypeOK, LockOwners
<1>3. PoolStarted'
  BY DEF TypeOK, PoolStarted
<1>4. GlobalQueue'
  BY DEF TypeOK, GlobalQueue
<1>5. LoopQueues'
  BY DEF TypeOK, LoopQueues, OwnQueues
<1>6. WorkerHolds'
  BY DEF TypeOK, WorkerHolds
<1>7. CallerHolds'
  BY DEF TypeOK, CallerHolds, Hands
<1>8. NotLost'
  <2> SUFFICES ASSUME NEW s \in Reqs PROVE Found(s)'
    BY DEF NotLost
  <2>1. Found(s)
    BY DEF NotLost
  <2>2. LoopOf[s] \in Loops
    OBVIOUS
  <2>3. phase'[s] = "queued" => s \in ToSet(wq') \/ Calling(s, {"post", "posting"})'
    BY <2>1, <2>2 DEF TypeOK, Found, Calling
  <2>4. phase'[s] = "executing" => Holding(s, {"run"})'
    BY <2>1, <2>2 DEF TypeOK, Found, Holding
  <2>5. phase'[s] = "executed" => Holding(s, {"ran", "finish"})' \/ Reported(s)'
    BY <2>1, <2>2 DEF TypeOK, Found, Holding, Reported
  <2>6. phase'[s] = "cancelled" => Calling(s, {"mark", "reinsert", "reinserting"})' \/ Reported(s)'
    BY <2>1, <2>2 DEF TypeOK, Found, Calling, Reported
  <2> QED BY <2>3, <2>4, <2>5, <2>6 DEF Found
<1>9. WorkConserving'
  <2>1. Counted' = Counted /\ Looking' = Looking /\ Idle' = Idle
    BY DEF Counted, Looking, Idle, TypeOK
  <2> QED BY <2>1 DEF WorkConserving, TypeOK
<1> QED BY <1>1, <1>2, <1>3, <1>4, <1>5, <1>6, <1>7, <1>8, <1>9 DEF IInv

\* Taking the wq_mutex of the loop with the global mutex held.
LEMMA CancelLoopLockStep ==
    ASSUME IInv, NEW l \in Loops, CancelLoopLock(l)
    PROVE  IInv'
<1> USE DEF CancelLoopLock, workerVars, loopVars, reqVars, queueVars, lockVars
<1> USE ThreadAssumption DEF IInv
<1>1. TypeOK'
  BY DEF TypeOK, WorkerPCs, LoopPCs
<1>2. LockOwners'
  BY DEF TypeOK, LockOwners
<1>3. PoolStarted'
  BY DEF TypeOK, PoolStarted
<1>4. GlobalQueue'
  BY DEF TypeOK, GlobalQueue
<1>5. LoopQueues'
  BY DEF TypeOK, LoopQueues, OwnQueues
<1>6. WorkerHolds'
  BY DEF TypeOK, WorkerHolds
<1>7. CallerHolds'
  BY DEF TypeOK, CallerHolds, Hands
<1>8. NotLost'
  <2> SUFFICES ASSUME NEW s \in Reqs PROVE Found(s)'
    BY DEF NotLost
  <2>1. Found(s)
    BY DEF NotLost
  <2>2. LoopOf[s] \in Loops
    OBVIOUS
  <2>3. phase'[s] = "queued" => s \in ToSet(wq') \/ Calling(s, {"post", "posting"})'
    BY <2>1, <2>2 DEF TypeOK, Found, Calling
  <2>4. phase'[s] = "executing" => Holding(s, {"run"})'
    BY <2>1, <2>2 DEF TypeOK, Found, Holding
  <2>5. phase'[s] = "executed" => Holding(s, {"ran", "finish"})' \/ Reported(s)'
    BY <2>1, <2>2 DEF TypeOK, Found, Holding, Reported
  <2>6. phase'[s] = "cancelled" => Calling(s, {"mark", "reinsert", "reinserting"})' \/ Reported(s)'
    BY <2>1, <2>2 DEF TypeOK, Found, Calling, Reported
  <2> QED BY <2>3, <2>4, <2>5, <2>6 DEF Found
<1>9. WorkConserving'
  <2>1. Counted' = Counted /\ Looking' = Looking /\ Idle' = Idle
    BY DEF Counted, Looking, Idle, TypeOK
  <2> QED BY <2>1 DEF WorkConserving, TypeOK
<1> QED BY <1>1, <1>2, <1>3, <1>4, <1>5, <1>6, <1>7, <1>8, <1>9 DEF IInv

\* A cancellable request is linked and has a work function: it is unlinked from
\* the only queue it is in and passes into the hands of the caller, or nothing moves.
LEMMA CancelTryStep ==
    ASSUME IInv, NEW l \in Loops, CancelTry(l)
    PROVE  IInv'
<1> USE DEF CancelTry, workerVars, loopVars, reqVars, queueVars, lockVars
<1> USE ThreadAssumption DEF IInv
<1> DEFINE r == lreq[l]
<1>a. r \in Reqs /\ LoopOf[r] = l /\ phase[r] # "free"
  BY DEF CallerHolds, Hands
<1>b. /\ \A j \in Loops : j # l => lpc'[j] = lpc[j] /\ lreq'[j] = lreq[j] /\ wq_mutex'[j] = wq_mutex[j]
      /\ lpc'[l] \in {"mark", "user"} /\ wq_mutex'[l] = None
  BY DEF TypeOK
<1>c. /\ Counted' = Counted /\ Looking' = Looking /\ Idle' = Idle
      /\ Cardinality(Looking) \in Nat
  BY PoolAssumption, FS_Subset, FS_CardinalityType DEF Counted, Looking, Idle
<1>1. LockOwners'
  <2>1. \A w \in Workers : mutex' = w <=> wpc'[w] = "locked"
    BY DEF LockOwners
  <2>2. \A j \in Loops : mutex' = j <=> lpc'[j] \in {"posting", "cancelling", "trying"}
    <3>1. \A j \in Loops : j # l => lpc[j] \notin {"posting", "cancelling", "trying"}
      BY DEF LockOwners
    <3> QED BY <3>1, <1>b
  <2>3. \A j \in Loops, w \in Workers :
          wq_mutex'[j] = w <=> wpc'[w] = "finish" /\ LoopOf[cur'[w]] = j
    <3>1. wq_mutex[l] = l
      BY DEF LockOwners
    <3> QED BY <3>1, <1>b DEF LockOwners
  <2>4. \A i, j \in Loops :
          wq_mutex'[i] = j <=> j = i /\ lpc'[i] \in {"trying", "reinserting", "moving"}
    BY <1>b DEF LockOwners
  <2> QED BY <2>1, <2>2, <2>3, <2>4 DEF LockOwners
<1>2. PoolStarted'
  BY DEF PoolStarted
<1>3. CASE ~Cancellable(r)
  <2>0. lpc' = [lpc EXCEPT ![l] = "user"] /\ lreq' = [lreq EXCEPT ![l] = None]
        /\ wq' = wq /\ loop_wq' = loop_wq /\ local_wq' = local_wq /\ phase' = phase
    BY <1>3
  <2>1. TypeOK'
    BY <2>0 DEF TypeOK, LoopPCs
  <2>2. GlobalQueue' /\ LoopQueues'
    BY <2>0 DEF GlobalQueue, LoopQueues, OwnQueues
  <2>3. WorkerHolds'
    BY <2>0 DEF WorkerHolds
  <2>4. CallerHolds'
    BY <2>0 DEF CallerHolds, Hands, TypeOK
  <2>5. NotLost'
    <3> SUFFICES ASSUME NEW s \in Reqs PROVE Found(s)'
      BY DEF NotLost
    <3>1. Found(s) /\ LoopOf[s] \in Loops
      BY DEF NotLost
    <3> QED BY <2>0, <3>1 DEF Found, Calling, Holding, Reported, TypeOK
  <2>6. WorkConserving'
    BY <1>c, <2>0 DEF WorkConserving
  <2> QED BY <1>1, <1>2, <2>1, <2>2, <2>3, <2>4, <2>5, <2>6
<1>4. CASE Cancellable(r)
  <2>0. /\ lpc' = [lpc EXCEPT ![l] = "mark"] /\ lreq' = lreq
        /\ wq' = Unlink(wq, r)
        /\ loop_wq' = [loop_wq EXCEPT ![l] = Unlink(loop_wq[l], r)]
        /\ local_wq' = [local_wq EXCEPT ![l] = Unlink(local_wq[l], r)]
        /\ phase' = [phase EXCEPT ![r] = "cancelled"]
        /\ ~empty[r] /\ work[r] # "NULL"
    BY <1>4 DEF Cancellable
  <2>q. ASSUME NEW q \in Seq(Reqs)
        PROVE  /\ Unlink(q, r) \in Seq(Reqs)
               /\ Len(Unlink(q, r)) <= Len(q)
               /\ ToSet(Unlink(q, r)) \subseteq ToSet(q)
               /\ ToSet(q) \subseteq ToSet(Unlink(q, r)) \cup {r}
               /\ Distinct(q) => Distinct(Unlink(q, r)) /\ r \notin ToSet(Unlink(q, r))
    BY UnlinkFacts
  <2>g. /\ wq' \in Seq(Reqs) /\ Len(wq') <= Len(wq)
        /\ ToSet(wq') \subseteq ToSet(wq) /\ ToSet(wq) \subseteq ToSet(wq') \cup {r}
        /\ Distinct(wq') /\ r \notin ToSet(wq')
    BY <2>0, <2>q DEF TypeOK, GlobalQueue
  <2>h. /\ loop_wq'[l] \in Seq(Reqs)
        /\ ToSet(loop_wq'[l]) \subseteq ToSet(loop_wq[l]) /\ ToSet(loop_wq[l]) \subseteq ToSet(loop_wq'[l]) \cup {r}
        /\ Distinct(loop_wq'[l]) /\ r \notin ToSet(loop_wq'[l])
        /\ \A j \in Loops : j # l => loop_wq'[j] = loop_wq[j]
    <3>1. loop_wq'[l] = Unlink(loop_wq[l], r) /\ \A j \in Loops : j # l => loop_wq'[j] = loop_wq[j]
      BY <2>0 DEF TypeOK
    <3> QED BY <3>1, <2>q DEF TypeOK, LoopQueues, OwnQueues
  <2>i. /\ local_wq'[l] \in Seq(Reqs)
        /\ ToSet(local_wq'[l]) \subseteq ToSet(local_wq[l]) /\ ToSet(local_wq[l]) \subseteq ToSet(local_wq'[l]) \cup {r}
        /\ Distinct(local_wq'[l]) /\ r \notin ToSet(local_wq'[l])
        /\ \A j \in Loops : j # l => local_wq'[j] = local_wq[j]
        /\ local_wq[l] = <<>> => local_wq'[l] = <<>>
    <3>1. local_wq'[l] = Unlink(local_wq[l], r) /\ \A j \in Loops : j # l => local_wq'[j] = local_wq[j]
      BY <2>0 DEF TypeOK
    <3>2. Unlink(<<>>, r) = <<>>
      BY DEF Unlink
    <3> QED BY <3>1, <3>2, <2>q DEF TypeOK, LoopQueues, OwnQueues
  <2>j. /\ phase'[r] = "cancelled" /\ \A s \in Reqs : s # r => phase'[s] = phase[s]
        /\ lpc'[l] = "mark"
    BY <1>a, <2>0 DEF TypeOK
  <2>1. TypeOK'
    <3>1. loop_wq' \in [Loops -> Seq(Reqs)] /\ local_wq' \in [Loops -> Seq(Reqs)]
      BY <2>0, <2>h, <2>i DEF TypeOK
    <3>2. phase' \in [Reqs -> {"free", "queued", "executing", "executed", "cancelled"}]
      BY <2>0, <1>a DEF TypeOK
    <3> QED BY <2>0, <2>g, <3>1, <3>2 DEF TypeOK, LoopPCs
  <2>2. GlobalQueue'
    <3>1. \A s \in ToSet(wq) : s \in Reqs
      BY DEF TypeOK, ToSet
    <3> QED BY <2>g, <2>j, <3>1 DEF GlobalQueue
  <2>3. LoopQueues'
    <3> SUFFICES ASSUME NEW j \in Loops PROVE OwnQueues(j)'
      BY DEF LoopQueues
    <3>1. OwnQueues(j)
      BY DEF LoopQueues
    <3>2. \A s \in ToSet(loop_wq[j]) \cup ToSet(local_wq[j]) : s \in Reqs
      BY DEF TypeOK, ToSet
    <3>3. CASE j = l
      BY <3>1, <3>2, <3>3, <2>h, <2>i, <2>j DEF OwnQueues
    <3>4. CASE j # l
      BY <3>1, <3>2, <3>4, <2>h, <2>i, <2>j, <1>a DEF OwnQueues
    <3> QED BY <3>3, <3>4
  <2>4. WorkerHolds'
    <3>1. \A w \in Workers : cur[w] # r
      BY <2>0, <1>a DEF WorkerHolds, TypeOK
    <3> QED BY <3>1, <2>j DEF WorkerHolds
  <2>5. CallerHolds'
    <3>1. \A j \in Loops : j # l /\ lpc[j] \notin {"user", "done", "moving"} => lreq[j] # r
      BY <1>a DEF CallerHolds, Hands
    <3> SUFFICES ASSUME NEW j \in Loops PROVE Hands(j)'
      BY DEF CallerHolds, Hands
    <3>2. CASE j = l
      BY <3>2, <2>0, <2>h, <2>i, <2>j, <1>a DEF CallerHolds, Hands
    <3>3. CASE j # l
      BY <3>1, <3>3, <2>0, <2>g, <2>h, <2>i, <2>j, <1>b DEF CallerHolds, Hands
    <3> QED BY <3>2, <3>3
  <2>6. NotLost'
    <3> SUFFICES ASSUME NEW s \in Reqs PROVE Found(s)'
      BY DEF NotLost
    <3>1. Found(s) /\ LoopOf[s] \in Loops
      BY DEF NotLost
    <3>2. CASE s = r
      BY <3>2, <2>0, <2>j, <1>a DEF Found, Calling
    <3>3. CASE s # r
      <4>1. phase'[s] = phase[s] /\ (s \in ToSet(wq) => s \in ToSet(wq'))
        BY <3>3, <2>g, <2>j
      <4>2. Reported(s) => Reported(s)'
        BY <3>1, <3>3, <2>h, <2>i DEF Reported
      <4>3. Calling(s, {"post", "posting"}) => Calling(s, {"post", "posting"})'
        BY <3>1, <3>3, <2>0, <1>b DEF Calling
      <4>4. /\ Calling(s, {"mark", "reinsert", "reinserting"})
            => Calling(s, {"mark", "reinsert", "reinserting"})'
        BY <3>1, <3>3, <2>0, <1>b DEF Calling
      <4> QED BY <3>1, <4>1, <4>2, <4>3, <4>4 DEF Found, Holding
    <3> QED BY <3>2, <3>3
  <2>7. WorkConserving'
    <3>1. Len(wq) \in Nat /\ Len(wq') \in Nat
      BY <2>g, LenProperties DEF TypeOK
    <3> QED BY <1>c, <2>g, <3>1 DEF WorkConserving
  <2> QED BY <1>1, <1>2, <2>1, <2>2, <2>3, <2>4, <2>5, <2>6, <2>7
<1> QED BY <1>3, <1>4

\* The cancelled request, in the hands of the caller, gets uv__cancelled as work.
LEMMA CancelMarkStep ==
    ASSUME IInv, NEW l \in Loops, CancelMark(l)
    PROVE  IInv'
<1> USE DEF CancelMark, workerVars, loopVars, reqVars, queueVars, lockVars
<1> USE ThreadAssumption DEF IInv
<1>a. /\ lreq[l] \in Reqs /\ phase[lreq[l]] = "cancelled" /\ ~empty[lreq[l]] /\ LoopOf[lreq[l]] = l
      /\ lreq[l] \notin ToSet(loop_wq[l]) /\ lreq[l] \notin ToSet(local_wq[l])
  BY DEF CallerHolds, Hands
<1>1. TypeOK'
  BY <1>a DEF TypeOK, WorkerPCs, LoopPCs
<1>2. LockOwners'
  BY <1>a DEF TypeOK, LockOwners
<1>3. PoolStarted'
  BY <1>a DEF TypeOK, PoolStarted
<1>4. GlobalQueue'
  BY <1>a DEF TypeOK, GlobalQueue, LoopQueues, OwnQueues, WorkerHolds, CallerHolds, Hands
<1>5. LoopQueues'
  BY <1>a DEF TypeOK, GlobalQueue, LoopQueues, OwnQueues, WorkerHolds, CallerHolds, Hands
<1>6. WorkerHolds'
  BY <1>a DEF TypeOK, GlobalQueue, LoopQueues, OwnQueues, WorkerHolds, CallerHolds, Hands
<1>7. CallerHolds'
  BY <1>a DEF TypeOK, GlobalQueue, LoopQueues, OwnQueues, WorkerHolds, CallerHolds, Hands
<1>8. NotLost'
  <2> SUFFICES ASSUME NEW s \in Reqs PROVE Found(s)'
    BY DEF NotLost
  <2>1. Found(s)
    BY DEF NotLost
  <2>2. LoopOf[s] \in Loops
    OBVIOUS
  <2>3. phase'[s] = "queued" => s \in ToSet(wq') \/ Calling(s, {"post", "posting"})'
    BY <2>1, <2>2, <1>a DEF TypeOK, Found, Calling
  <2>4. phase'[s] = "executing" => Holding(s, {"run"})'
    BY <2>1, <2>2, <1>a DEF TypeOK, Found, Holding
  <2>5. phase'[s] = "executed" => Holding(s, {"ran", "finish"})' \/ Reported(s)'
    BY <2>1, <2>2, <1>a DEF TypeOK, Found, Holding, Reported
  <2>6. phase'[s] = "cancelled" => Calling(s, {"mark", "reinsert", "reinserting"})' \/ Reported(s)'
    BY <2>1, <2>2, <1>a DEF TypeOK, Found, Calling, Reported
  <2> QED BY <2>3, <2>4, <2>5, <2>6 DEF Found
<1>9. WorkConserving'
  <2>1. Counted' = Counted /\ Looking' = Looking /\ Idle' = Idle
    BY DEF Counted, Looking, Idle, TypeOK
  <2> QED BY <2>1 DEF WorkConserving, TypeOK
<1> QED BY <1>1, <1>2, <1>3, <1>4, <1>5, <1>6, <1>7, <1>8, <1>9 DEF IInv

\* Taking the wq_mutex again to report the cancelled request.
LEMMA CancelReinsertLockStep ==
    ASSUME IInv, NEW l \in Loops, CancelReinsertLock(l)
    PROVE  IInv'
<1> USE DEF CancelReinsertLock, workerVars, loopVars, reqVars, queueVars, lockVars
<1> USE ThreadAssumption DEF IInv
<1>1. TypeOK'
  BY DEF TypeOK, WorkerPCs, LoopPCs
<1>2. LockOwners'
  BY DEF TypeOK, LockOwners
<1>3. PoolStarted'
  BY DEF TypeOK, PoolStarted
<1>4. GlobalQueue'
  BY DEF TypeOK, GlobalQueue
<1>5. LoopQueues'
  BY DEF TypeOK, LoopQueues, OwnQueues
<1>6. WorkerHolds'
  BY DEF TypeOK, WorkerHolds
<1>7. CallerHolds'
  BY DEF TypeOK, CallerHolds, Hands
<1>8. NotLost'
  <2> SUFFICES ASSUME NEW s \in Reqs PROVE Found(s)'
    BY DEF NotLost
  <2>1. Found(s)
    BY DEF NotLost
  <2>2. LoopOf[s] \in Loops
    OBVIOUS
  <2>3. phase'[s] = "queued" => s \in ToSet(wq') \/ Calling(s, {"post", "posting"})'
    BY <2>1, <2>2 DEF TypeOK, Found, Calling
  <2>4. phase'[s] = "executing" => Holding(s, {"run"})'
    BY <2>1, <2>2 DEF TypeOK, Found, Holding
  <2>5. phase'[s] = "executed" => Holding(s, {"ran", "finish"})' \/ Reported(s)'
    BY <2>1, <2>2 DEF TypeOK, Found, Holding, Reported
  <2>6. phase'[s] = "cancelled" => Calling(s, {"mark", "reinsert", "reinserting"})' \/ Reported(s)'
    BY <2>1, <2>2 DEF TypeOK, Found, Calling, Reported
  <2> QED BY <2>3, <2>4, <2>5, <2>6 DEF Found
<1>9. WorkConserving'
  <2>1. Counted' = Counted /\ Looking' = Looking /\ Idle' = Idle
    BY DEF Counted, Looking, Idle, TypeOK
  <2> QED BY <2>1 DEF WorkConserving, TypeOK
<1> QED BY <1>1, <1>2, <1>3, <1>4, <1>5, <1>6, <1>7, <1>8, <1>9 DEF IInv

\* The cancelled request passes from the caller to the queue of its loop.
LEMMA CancelReinsertStep ==
    ASSUME IInv, NEW l \in Loops, CancelReinsert(l)
    PROVE  IInv'
<1> USE DEF CancelReinsert, workerVars, loopVars, reqVars, queueVars, lockVars
<1> USE ThreadAssumption DEF IInv
<1> DEFINE r == lreq[l]
           q == Append(loop_wq[l], r)
<1>a. /\ r \in Reqs /\ LoopOf[r] = l /\ r \notin ToSet(loop_wq[l]) /\ r \notin ToSet(local_wq[l])
      /\ phase[r] = "cancelled" /\ work[r] = "cancelled" /\ ~empty[r]
  BY DEF CallerHolds, Hands
<1>b. q \in Seq(Reqs) /\ ToSet(q) = ToSet(loop_wq[l]) \cup {r} /\ Distinct(q)
  BY <1>a, AppendFacts DEF TypeOK, LoopQueues, OwnQueues
<1>c. loop_wq' = [loop_wq EXCEPT ![l] = q]
  OBVIOUS
<1> HIDE DEF q
<1>e. /\ Distinct(loop_wq'[l]) /\ ToSet(loop_wq'[l]) = ToSet(loop_wq[l]) \cup {r}
      /\ \A j \in Loops : j # l => loop_wq'[j] = loop_wq[j]
  <2>1. loop_wq'[l] = q /\ \A j \in Loops : j # l => loop_wq'[j] = loop_wq[j]
    BY <1>c DEF TypeOK
  <2> QED BY <2>1, <1>b
<1>1. TypeOK'
  BY <1>a, <1>b, <1>c DEF TypeOK, WorkerPCs, LoopPCs
<1>2. LockOwners'
  BY <1>a, <1>b, <1>c DEF TypeOK, LockOwners
<1>3. PoolStarted'
  BY <1>a, <1>b, <1>c DEF TypeOK, PoolStarted
<1>4. GlobalQueue'
  BY <1>a, <1>b, <1>c DEF TypeOK, GlobalQueue, LoopQueues, OwnQueues, WorkerHolds, CallerHolds, Hands
<1>5. LoopQueues'
  <2> SUFFICES ASSUME NEW j \in Loops PROVE OwnQueues(j)'
    BY DEF LoopQueues
  <2>0. OwnQueues(j)
    BY DEF LoopQueues
  <2>1. CASE j = l
    BY <2>0, <2>1, <1>a, <1>b, <1>e DEF OwnQueues
  <2>2. CASE j # l
    BY <2>0, <2>2, <1>e DEF OwnQueues
  <2> QED BY <2>1, <2>2
<1>6. WorkerHolds'
  BY <1>a, <1>b, <1>c DEF TypeOK, GlobalQueue, LoopQueues, OwnQueues, WorkerHolds, CallerHolds, Hands
<1>7. CallerHolds'
  BY <1>a, <1>b, <1>c DEF TypeOK, GlobalQueue, LoopQueues, OwnQueues, WorkerHolds, CallerHolds, Hands
<1>8. NotLost'
  <2> SUFFICES ASSUME NEW s \in Reqs PROVE Found(s)'
    BY DEF NotLost
  <2>1. Found(s)
    BY DEF NotLost
  <2>2. LoopOf[s] \in Loops
    OBVIOUS
  <2>3. phase'[s] = "queued" => s \in ToSet(wq') \/ Calling(s, {"post", "posting"})'
    BY <2>1, <2>2, <1>a, <1>b, <1>c DEF TypeOK, Found, Calling
  <2>4. phase'[s] = "executing" => Holding(s, {"run"})'
    BY <2>1, <2>2, <1>a, <1>b, <1>c DEF TypeOK, Found, Holding
  <2>5. phase'[s] = "executed" => Holding(s, {"ran", "finish"})' \/ Reported(s)'
    <3>1. Reported(s) => Reported(s)'
      BY <1>b, <1>e, <2>2 DEF Reported
    <3> QED BY <3>1, <2>1 DEF Found, Holding
  <2>6. phase'[s] = "cancelled" => Calling(s, {"mark", "reinsert", "reinserting"})' \/ Reported(s)'
    <3>1. CASE s = r
      BY <3>1, <1>a, <1>b, <1>e DEF Reported
    <3>2. CASE s # r
      <4>1. Reported(s) => Reported(s)'
        BY <1>b, <1>e, <2>2 DEF Reported
      <4>2. ~Calling(s, {"mark", "reinsert", "reinserting"}) \/ Calling(s, {"mark", "reinsert", "reinserting"})'
        BY <3>2 DEF Calling, TypeOK
      <4> QED BY <4>1, <4>2, <2>1 DEF Found
    <3> QED BY <3>1, <3>2
  <2> QED BY <2>3, <2>4, <2>5, <2>6 DEF Found
<1>9. WorkConserving'
  <2>1. Counted' = Counted /\ Looking' = Looking /\ Idle' = Idle
    BY DEF Counted, Looking, Idle, TypeOK
  <2> QED BY <2>1 DEF WorkConserving, TypeOK
<1> QED BY <1>1, <1>2, <1>3, <1>4, <1>5, <1>6, <1>7, <1>8, <1>9 DEF IInv

\* The callback of wq_async starts: the pending flag is cleared, nothing moves.
LEMMA WorkDoneStep ==
    ASSUME IInv, NEW l \in Loops, WorkDone(l)
    PROVE  IInv'
<1> USE DEF WorkDone, workerVars, loopVars, reqVars, queueVars, lockVars
<1> USE ThreadAssumption DEF IInv
<1>1. TypeOK'
  BY DEF TypeOK, WorkerPCs, LoopPCs
<1>2. LockOwners'
  BY DEF TypeOK, LockOwners
<1>3. PoolStarted'
  BY DEF TypeOK, PoolStarted
<1>4. GlobalQueue'
  BY DEF TypeOK, GlobalQueue
<1>5. LoopQueues'
  BY DEF TypeOK, LoopQueues, OwnQueues
<1>6. WorkerHolds'
  BY DEF TypeOK, WorkerHolds
<1>7. CallerHolds'
  BY DEF TypeOK, CallerHolds, Hands
<1>8. NotLost'
  <2> SUFFICES ASSUME NEW s \in Reqs PROVE Found(s)'
    BY DEF NotLost
  <2>1. Found(s)
    BY DEF NotLost
  <2>2. LoopOf[s] \in Loops
    OBVIOUS
  <2>3. phase'[s] = "queued" => s \in ToSet(wq') \/ Calling(s, {"post", "posting"})'
    BY <2>1, <2>2 DEF TypeOK, Found, Calling
  <2>4. phase'[s] = "executing" => Holding(s, {"run"})'
    BY <2>1, <2>2 DEF TypeOK, Found, Holding
  <2>5. phase'[s] = "executed" => Holding(s, {"ran", "finish"})' \/ Reported(s)'
    BY <2>1, <2>2 DEF TypeOK, Found, Holding, Reported
  <2>6. phase'[s] = "cancelled" => Calling(s, {"mark", "reinsert", "reinserting"})' \/ Reported(s)'
    BY <2>1, <2>2 DEF TypeOK, Found, Calling, Reported
  <2> QED BY <2>3, <2>4, <2>5, <2>6 DEF Found
<1>9. WorkConserving'
  <2>1. Counted' = Counted /\ Looking' = Looking /\ Idle' = Idle
    BY DEF Counted, Looking, Idle, TypeOK
  <2> QED BY <2>1 DEF WorkConserving, TypeOK
<1> QED BY <1>1, <1>2, <1>3, <1>4, <1>5, <1>6, <1>7, <1>8, <1>9 DEF IInv

\* Taking the wq_mutex in uv__work_done.
LEMMA WorkDoneLockStep ==
    ASSUME IInv, NEW l \in Loops, WorkDoneLock(l)
    PROVE  IInv'
<1> USE DEF WorkDoneLock, workerVars, loopVars, reqVars, queueVars, lockVars
<1> USE ThreadAssumption DEF IInv
<1>1. TypeOK'
  BY DEF TypeOK, WorkerPCs, LoopPCs
<1>2. LockOwners'
  BY DEF TypeOK, LockOwners
<1>3. PoolStarted'
  BY DEF TypeOK, PoolStarted
<1>4. GlobalQueue'
  BY DEF TypeOK, GlobalQueue
<1>5. LoopQueues'
  BY DEF TypeOK, LoopQueues, OwnQueues
<1>6. WorkerHolds'
  BY DEF TypeOK, WorkerHolds
<1>7. CallerHolds'
  BY DEF TypeOK, CallerHolds, Hands
<1>8. NotLost'
  <2> SUFFICES ASSUME NEW s \in Reqs PROVE Found(s)'
    BY DEF NotLost
  <2>1. Found(s)
    BY DEF NotLost
  <2>2. LoopOf[s] \in Loops
    OBVIOUS
  <2>3. phase'[s] = "queued" => s \in ToSet(wq') \/ Calling(s, {"post", "posting"})'
    BY <2>1, <2>2 DEF TypeOK, Found, Calling
  <2>4. phase'[s] = "executing" => Holding(s, {"run"})'
    BY <2>1, <2>2 DEF TypeOK, Found, Holding
  <2>5. phase'[s] = "executed" => Holding(s, {"ran", "finish"})' \/ Reported(s)'
    BY <2>1, <2>2 DEF TypeOK, Found, Holding, Reported
  <2>6. phase'[s] = "cancelled" => Calling(s, {"mark", "reinsert", "reinserting"})' \/ Reported(s)'
    BY <2>1, <2>2 DEF TypeOK, Found, Calling, Reported
  <2> QED BY <2>3, <2>4, <2>5, <2>6 DEF Found
<1>9. WorkConserving'
  <2>1. Counted' = Counted /\ Looking' = Looking /\ Idle' = Idle
    BY DEF Counted, Looking, Idle, TypeOK
  <2> QED BY <2>1 DEF WorkConserving, TypeOK
<1> QED BY <1>1, <1>2, <1>3, <1>4, <1>5, <1>6, <1>7, <1>8, <1>9 DEF IInv

\* QUEUE_MOVE: the queue on the stack was empty, so no node is lost.
LEMMA WorkDoneMoveStep ==
    ASSUME IInv, NEW l \in Loops, WorkDoneMove(l)
    PROVE  IInv'
<1> USE DEF WorkDoneMove, workerVars, loopVars, reqVars, queueVars, lockVars
<1> USE ThreadAssumption DEF IInv
<1>a. local_wq[l] = <<>>
  BY DEF CallerHolds, Hands
<1>b. /\ loop_wq'[l] = <<>> /\ local_wq'[l] = loop_wq[l]
      /\ \A j \in Loops : j # l => loop_wq'[j] = loop_wq[j] /\ local_wq'[j] = local_wq[j]
  BY DEF TypeOK
<1>c. ToSet(<<>>) = {} /\ Distinct(<<>>)
  BY DEF ToSet, Distinct
<1>1. TypeOK'
  BY DEF TypeOK, WorkerPCs, LoopPCs
<1>2. LockOwners'
  BY DEF TypeOK, LockOwners
<1>3. PoolStarted'
  BY DEF TypeOK, PoolStarted
<1>4. GlobalQueue'
  BY DEF TypeOK, GlobalQueue
<1>5. LoopQueues'
  <2> SUFFICES ASSUME NEW j \in Loops PROVE OwnQueues(j)'
    BY DEF LoopQueues
  <2>0. OwnQueues(j)
    BY DEF LoopQueues
  <2>1. CASE j = l
    BY <2>0, <2>1, <1>b, <1>c DEF OwnQueues
  <2>2. CASE j # l
    BY <2>0, <2>2, <1>b DEF OwnQueues
  <2> QED BY <2>1, <2>2
<1>6. WorkerHolds'
  BY DEF TypeOK, WorkerHolds
<1>7. CallerHolds'
  BY DEF TypeOK, CallerHolds, Hands
<1>8. NotLost'
  <2> SUFFICES ASSUME NEW s \in Reqs PROVE Found(s)'
    BY DEF NotLost
  <2>1. Found(s)
    BY DEF NotLost
  <2>2. LoopOf[s] \in Loops
    OBVIOUS
  <2>3. phase'[s] = "queued" => s \in ToSet(wq') \/ Calling(s, {"post", "posting"})'
    BY <2>1, <2>2 DEF TypeOK, Found, Calling
  <2>4. phase'[s] = "executing" => Holding(s, {"run"})'
    BY <2>1, <2>2 DEF TypeOK, Found, Holding
  <2>5. Reported(s) => Reported(s)'
    BY <1>a, <1>b, <1>c, <2>2 DEF Reported
  <2>6. phase'[s] = "executed" => Holding(s, {"ran", "finish"})' \/ Reported(s)'
    BY <2>1, <2>5 DEF Found, Holding
  <2>7. phase'[s] = "cancelled" => Calling(s, {"mark", "reinsert", "reinserting"})' \/ Reported(s)'
    BY <2>1, <2>2, <2>5 DEF Found, Calling, TypeOK
  <2> QED BY <2>3, <2>4, <2>6, <2>7 DEF Found
<1>9. WorkConserving'
  <2>1. Counted' = Counted /\ Looking' = Looking /\ Idle' = Idle
    BY DEF Counted, Looking, Idle, TypeOK
  <2> QED BY <2>1 DEF WorkConserving, TypeOK
<1> QED BY <1>1, <1>2, <1>3, <1>4, <1>5, <1>6, <1>7, <1>8, <1>9 DEF IInv

\* The head of the queue on the stack is executed or cancelled, with the work
\* field that says which; its done callback frees the request.
LEMMA WorkDoneNextStep ==
    ASSUME IInv, NEW l \in Loops, WorkDoneNext(l)
    PROVE  IInv'
<1> USE DEF WorkDoneNext, workerVars, loopVars, reqVars, queueVars, lockVars
<1> USE ThreadAssumption DEF IInv
<1> DEFINE r == Head(local_wq[l])
           q == Tail(local_wq[l])
<1>a. /\ r \in Reqs /\ r \in ToSet(local_wq[l]) /\ q \in Seq(Reqs)
      /\ ToSet(q) \subseteq ToSet(local_wq[l])
      /\ Distinct(q) /\ r \notin ToSet(q)
      /\ ToSet(local_wq[l]) = ToSet(q) \cup {r}
  BY TailFacts, SMTT(40) DEF TypeOK, LoopQueues, OwnQueues
<1>b. /\ LoopOf[r] = l /\ ~empty[r] /\ phase[r] \in {"executed", "cancelled"}
      /\ r \notin ToSet(loop_wq[l])
  BY <1>a, ZenonT(60) DEF LoopQueues, OwnQueues
<1>c. local_wq' = [local_wq EXCEPT ![l] = q]
  OBVIOUS
<1> HIDE DEF q
<1>d. /\ Distinct(local_wq'[l]) /\ r \notin ToSet(local_wq'[l])
      /\ ToSet(local_wq[l]) = ToSet(local_wq'[l]) \cup {r}
      /\ \A j \in Loops : j # l => local_wq'[j] = local_wq[j]
  <2>1. local_wq'[l] = q /\ \A j \in Loops : j # l => local_wq'[j] = local_wq[j]
    BY <1>c DEF TypeOK
  <2> QED BY <2>1, <1>a
<1>e. phase'[r] = "free" /\ \A s \in Reqs : s # r => phase'[s] = phase[s]
  BY <1>a DEF TypeOK
<1>1. TypeOK'
  <2>1. local_wq' \in [Loops -> Seq(Reqs)]
    BY <1>a, <1>c DEF TypeOK
  <2>2. phase' \in [Reqs -> {"free", "queued", "executing", "executed", "cancelled"}]
    BY <1>a DEF TypeOK
  <2>3. status' \in [Reqs -> {"none", "0", "ECANCELED"}]
    BY <1>a DEF TypeOK
  <2> QED BY <2>1, <2>2, <2>3 DEF TypeOK
<1>2. LockOwners'
  BY <1>a, <1>b, <1>c DEF TypeOK, LockOwners
<1>3. PoolStarted'
  BY <1>a, <1>b, <1>c DEF TypeOK, PoolStarted
<1>4. GlobalQueue'
  BY <1>a, <1>b, <1>c DEF TypeOK, GlobalQueue, LoopQueues, OwnQueues, WorkerHolds, CallerHolds, Hands
<1>5. LoopQueues'
  <2> SUFFICES ASSUME NEW j \in Loops PROVE OwnQueues(j)'
    BY DEF LoopQueues
  <2>0. OwnQueues(j)
    BY DEF LoopQueues
  <2>1. \A s \in ToSet(loop_wq[j]) \cup ToSet(local_wq[j]) : s \in Reqs
    BY DEF TypeOK, ToSet
  <2>2. CASE j = l
    BY <2>0, <2>1, <2>2, <1>a, <1>b, <1>d, <1>e DEF OwnQueues
  <2>3. CASE j # l
    BY <2>0, <2>1, <2>3, <1>b, <1>d, <1>e DEF OwnQueues
  <2> QED BY <2>2, <2>3
<1>6. WorkerHolds'
  BY <1>a, <1>b, <1>c DEF TypeOK, GlobalQueue, LoopQueues, OwnQueues, WorkerHolds, CallerHolds, Hands
<1>7. CallerHolds'
  <2>1. \A j \in Loops : lpc[j] \notin {"user", "done", "moving"} => lreq[j] # r
    BY <1>b DEF CallerHolds, Hands
  <2>2. \A j \in Loops : ToSet(local_wq'[j]) \subseteq ToSet(local_wq[j])
    BY <1>d
  <2>3. \A j \in Loops : lpc[j] \in {"done", "moving"} \/ ~draining[j] => local_wq'[j] = <<>>
    BY <1>d DEF CallerHolds, Hands
  <2> QED BY <2>1, <2>2, <2>3, <1>e DEF CallerHolds, Hands
<1>8. NotLost'
  <2> SUFFICES ASSUME NEW s \in Reqs PROVE Found(s)'
    BY DEF NotLost
  <2>1. Found(s)
    BY DEF NotLost
  <2>2. LoopOf[s] \in Loops
    OBVIOUS
  <2>3. phase'[s] = "queued" => s \in ToSet(wq') \/ Calling(s, {"post", "posting"})'
    BY <2>1, <2>2, <1>a, <1>b, <1>c DEF TypeOK, Found, Calling
  <2>4. phase'[s] = "executing" => Holding(s, {"run"})'
    BY <2>1, <2>2, <1>a, <1>b, <1>c DEF TypeOK, Found, Holding
  <2>5. s # r /\ Reported(s) => Reported(s)'
    BY <1>a, <1>d, <2>2 DEF Reported
  <2>6. phase'[s] = "executed" => Holding(s, {"ran", "finish"})' \/ Reported(s)'
    BY <2>1, <2>5, <1>e DEF Found, Holding
  <2>7. phase'[s] = "cancelled" => Calling(s, {"mark", "reinsert", "reinserting"})' \/ Reported(s)'
    BY <2>1, <2>5, <1>e DEF Found, Calling
  <2> QED BY <2>3, <2>4, <2>6, <2>7 DEF Found
<1>9. WorkConserving'
  <2>1. Counted' = Counted /\ Looking' = Looking /\ Idle' = Idle
    BY DEF Counted, Looking, Idle, TypeOK
  <2> QED BY <2>1 DEF WorkConserving, TypeOK
<1> QED BY <1>1, <1>2, <1>3, <1>4, <1>5, <1>6, <1>7, <1>8, <1>9 DEF IInv

\* uv__work_done returns with its queue empty.
LEMMA WorkDoneReturnStep ==
    ASSUME IInv, NEW l \in Loops, WorkDoneReturn(l)
    PROVE  IInv'
<1> USE DEF WorkDoneReturn, workerVars, loopVars, reqVars, queueVars, lockVars
<1> USE ThreadAssumption DEF IInv
<1>1. TypeOK'
  BY DEF TypeOK, WorkerPCs, LoopPCs
<1>2. LockOwners'
  BY DEF TypeOK, LockOwners
<1>3. PoolStarted'
  BY DEF TypeOK, PoolStarted
<1>4. GlobalQueue'
  BY DEF TypeOK, GlobalQueue
<1>5. LoopQueues'
  BY DEF TypeOK, LoopQueues, OwnQueues
<1>6. WorkerHolds'
  BY DEF TypeOK, WorkerHolds
<1>7. CallerHolds'
  BY DEF TypeOK, CallerHolds, Hands
<1>8. NotLost'
  <2> SUFFICES ASSUME NEW s \in Reqs PROVE Found(s)'
    BY DEF NotLost
  <2>1. Found(s)
    BY DEF NotLost
  <2>2. LoopOf[s] \in Loops
    OBVIOUS
  <2>3. phase'[s] = "queued" => s \in ToSet(wq') \/ Calling(s, {"post", "posting"})'
    BY <2>1, <2>2 DEF TypeOK, Found, Calling
  <2>4. phase'[s] = "executing" => Holding(s, {"run"})'
    BY <2>1, <2>2 DEF TypeOK, Found, Holding
  <2>5. phase'[s] = "executed" => Holding(s, {"ran", "finish"})' \/ Reported(s)'
    BY <2>1, <2>2 DEF TypeOK, Found, Holding, Reported
  <2>6. phase'[s] = "cancelled" => Calling(s, {"mark", "reinsert", "reinserting"})' \/ Reported(s)'
    BY <2>1, <2>2 DEF TypeOK, Found, Calling, Reported
  <2> QED BY <2>3, <2>4, <2>5, <2>6 DEF Found
<1>9. WorkConserving'
  <2>1. Counted' = Counted /\ Looking' = Looking /\ Idle' = Idle
    BY DEF Counted, Looking, Idle, TypeOK
  <2> QED BY <2>1 DEF WorkConserving, TypeOK
<1> QED BY <1>1, <1>2, <1>3, <1>4, <1>5, <1>6, <1>7, <1>8, <1>9 DEF IInv

\* The initial state: no workers, no requests, everything unlocked.
LEMMA InitIInv == Init => IInv
<1> SUFFICES ASSUME Init PROVE IInv
  OBVIOUS
<1> USE ThreadAssumption DEF Init
<1>0. ToSet(<<>>) = {} /\ Distinct(<<>>) /\ <<>> \in Seq(Reqs)
  BY EmptySeq DEF ToSet, Distinct
<1>1. TypeOK
  BY <1>0 DEF TypeOK, WorkerPCs, LoopPCs
<1>2. LockOwners /\ PoolStarted
  BY DEF LockOwners, PoolStarted
<1>3. GlobalQueue
  BY <1>0 DEF GlobalQueue
<1>4. LoopQueues
  BY <1>0 DEF LoopQueues, OwnQueues
<1>5. WorkerHolds /\ CallerHolds
  BY DEF WorkerHolds, CallerHolds, Hands
<1>6. NotLost
  BY DEF NotLost, Found
<1>7. WorkConserving
  <2>1. Counted = {} /\ Idle = {}
    BY DEF Counted, Idle
  <2> QED BY <2>1, FS_EmptySet DEF WorkConserving
<1> QED BY <1>1, <1>2, <1>3, <1>4, <1>5, <1>6, <1>7 DEF IInv

\* Every step of every thread keeps the invariant.
LEMMA NextIInv == IInv /\ [Next]_vars => IInv'
<1> SUFFICES ASSUME IInv, [Next]_vars PROVE IInv'
  OBVIOUS
<1>1. CASE UNCHANGED vars
  BY <1>1 DEF vars, workerVars, loopVars, reqVars, queueVars, lockVars, IInv, TypeOK, LockOwners,
     PoolStarted, GlobalQueue, LoopQueues, OwnQueues, WorkerHolds, CallerHolds, Hands, NotLost, Found,
     Calling, Holding, Reported, WorkConserving, Counted, Looking, Idle
<1>2. ASSUME NEW w \in Workers, WorkerStep(w) PROVE IInv'
  BY <1>2, WorkerLockStep, WorkerWaitStep, WorkerRelockStep, WorkerTakeStep, WorkerRunStep,
     WorkerLoopLockStep, WorkerFinishStep DEF WorkerStep
<1>3. ASSUME NEW w \in Workers, SpuriousWakeup(w) PROVE IInv'
  BY <1>3, SpuriousWakeupStep
<1>4. ASSUME NEW l \in Loops, LoopStep(l) PROVE IInv'
  BY <1>4, PostLockStep, PostStep, CancelLockStep, CancelLoopLockStep, CancelTryStep, CancelMarkStep,
     CancelReinsertLockStep, CancelReinsertStep, WorkDoneStep, WorkDoneLockStep, WorkDoneMoveStep,
     WorkDoneNextStep, WorkDoneReturnStep DEF LoopStep
<1>5. ASSUME NEW l \in Loops, NEW r \in Reqs, Call(l, r) PROVE IInv'
  BY <1>5, QueueWorkStep, CancelStep DEF Call
<1> QED BY <1>1, <1>2, <1>3, <1>4, <1>5 DEF Next

\* IInv is an invariant of the pool.
THEOREM Inductive == Spec => []IInv
  BY InitIInv, NextIInv, PTL DEF Spec

-----------------------------------------------------------------------------
\* init_once never creates an empty pool, nor one of more than 128 threads,
\* whatever the environment variable says and whether or not malloc fails.
THEOREM PoolSize == nthreads \in 1..MAX_THREADPOOL_SIZE /\ Workers # {}
<1>1. nthreads \in 1..MAX_THREADPOOL_SIZE
  BY PoolAssumption DEF nthreads, MAX_THREADPOOL_SIZE, DefaultThreads
<1>2. Cardinality({}) = 0
  BY FS_EmptySet
<1> QED BY <1>1, <1>2, PoolAssumption DEF MAX_THREADPOOL_SIZE

\* The variables keep their types; idle_threads, an unsigned int, never wraps.
THEOREM TypeCorrect == Spec => []TypeOK
  BY Inductive, PTL DEF IInv

\* No submitted request is left waiting beside a sleeping worker, for any
\* number of workers, requests and loops.
THEOREM Conserving == Spec => []WorkConserving
  BY Inductive, PTL DEF IInv

\* The pool never executes a request that uv_cancel has taken.
THEOREM NoAbort == Spec => []NeverAborts
<1>1. IInv => NeverAborts
  BY DEF IInv, WorkerHolds, NeverAborts
<1> QED BY <1>1, Inductive, PTL

\* Workers and loop threads respect the lock order that rules out deadlock.
THEOREM LocksOrdered == Spec => []LockOrder
<1>1. IInv => LockOrder
  <2> SUFFICES ASSUME IInv PROVE LockOrder
    OBVIOUS
  <2> USE ThreadAssumption DEF IInv, LockOwners
  <2>1. \A w \in Workers : ~(mutex = w /\ \E l \in Loops : wq_mutex[l] = w)
    OBVIOUS
  <2>2. \A l \in Loops : wq_mutex[l] \in Workers => wpc[wq_mutex[l]] = "finish"
    OBVIOUS
  <2>3. \A l \in Loops : wq_mutex[l] \in Loops =>
          wq_mutex[l] = l /\ lpc[l] \in {"trying", "reinserting", "moving"}
    OBVIOUS
  <2> QED BY <2>1, <2>2, <2>3 DEF LockOrder
<1> QED BY <1>1, Inductive, PTL

\* Work reported to a loop always has a wakeup of that loop to its name.
THEOREM CompletionsReported == Spec => []NoLostCompletion
<1>1. Init => NoLostCompletion
  BY DEF Init, NoLostCompletion
<1>2. IInv /\ NoLostCompletion /\ [Next]_vars => NoLostCompletion'
  <2> SUFFICES ASSUME IInv, NoLostCompletion, [Next]_vars, NEW j \in Loops, loop_wq'[j] # <<>>
               PROVE  pending'[j] \/ lpc'[j] \in {"done", "moving"}
    BY DEF NoLostCompletion
  <2>0. loop_wq[j] # <<>> => pending[j] \/ lpc[j] \in {"done", "moving"}
    BY DEF NoLostCompletion
  <2> USE <2>0 DEF IInv, TypeOK, workerVars, loopVars, reqVars, queueVars, lockVars
  <2>1. CASE UNCHANGED vars
    BY <2>1 DEF vars
  <2>2. ASSUME NEW w \in Workers, WorkerStep(w) \/ SpuriousWakeup(w)
        PROVE  pending'[j] \/ lpc'[j] \in {"done", "moving"}
    <3>1. CASE WorkerFinish(w)
      <4>1. cur[w] \in Reqs /\ LoopOf[cur[w]] \in Loops
        BY <3>1, ThreadAssumption DEF WorkerFinish, WorkerHolds
      <4> QED BY <3>1, <4>1 DEF WorkerFinish
    <3>2. CASE ~WorkerFinish(w)
      BY <2>2, <3>2 DEF WorkerStep, WorkerLock, WorkerWait, WorkerRelock, WorkerTake, WorkerRun,
         WorkerLoopLock, SpuriousWakeup
    <3> QED BY <3>1, <3>2
  <2>3. ASSUME NEW l \in Loops, LoopStep(l)
        PROVE  pending'[j] \/ lpc'[j] \in {"done", "moving"}
    <3>1. CASE CancelTry(l)
      <4>1. Unlink(<<>>, lreq[l]) = <<>>
        BY DEF Unlink
      <4> QED BY <3>1, <4>1 DEF CancelTry
    <3>2. CASE CancelReinsert(l) \/ WorkDone(l) \/ WorkDoneLock(l) \/ WorkDoneMove(l)
      BY <3>2, ZenonT(60) DEF CancelReinsert, WorkDone, WorkDoneLock, WorkDoneMove
    <3>3. CASE PostLock(l) \/ Post(l) \/ CancelLock(l) \/ CancelLoopLock(l) \/ CancelMark(l)
               \/ CancelReinsertLock(l)
      BY <3>3 DEF PostLock, Post, CancelLock, CancelLoopLock, CancelMark, CancelReinsertLock
    <3>4. CASE WorkDoneNext(l) \/ WorkDoneReturn(l)
      BY <3>4 DEF WorkDoneNext, WorkDoneReturn
    <3> QED BY <2>3, <3>1, <3>2, <3>3, <3>4 DEF LoopStep
  <2>4. ASSUME NEW l \in Loops, NEW r \in Reqs, Call(l, r)
        PROVE  pending'[j] \/ lpc'[j] \in {"done", "moving"}
    BY <2>4 DEF Call, QueueWork, Submit, InitOnce, Cancel
  <2> QED BY <2>1, <2>2, <2>3, <2>4 DEF Next
<1> QED BY <1>1, <1>2, Inductive, PTL DEF Spec

-----------------------------------------------------------------------------
\* The steps of the pool, seen as steps of the requests.
LEMMA StepRefines == IInv /\ [Next]_vars => [WR!Next]_(WR!vars)
<1> SUFFICES ASSUME IInv, [Next]_vars, ~UNCHANGED <<phase, status>> PROVE WR!Next
  BY DEF WR!vars
<1> USE DEF IInv, TypeOK, workerVars, loopVars, reqVars, queueVars, lockVars
<1>1. ASSUME NEW w \in Workers, WorkerStep(w) \/ SpuriousWakeup(w) PROVE WR!Next
  <2>1. CASE WorkerTake(w)
    <3>1. Head(wq) \in Reqs /\ phase[Head(wq)] = "queued"
      BY <2>1, TailFacts DEF WorkerTake, GlobalQueue
    <3>2. WR!Start(Head(wq))
      BY <2>1, <3>1 DEF WorkerTake, WR!Start, WR!Move
    <3> QED BY <3>1, <3>2 DEF WR!Next
  <2>2. CASE WorkerRun(w)
    <3>1. cur[w] \in Reqs /\ phase[cur[w]] = "executing"
      BY <2>2 DEF WorkerRun, WorkerHolds
    <3>2. WR!Finish(cur[w])
      BY <2>2, <3>1 DEF WorkerRun, WR!Finish, WR!Move
    <3> QED BY <3>1, <3>2 DEF WR!Next
  <2>3. CASE ~WorkerTake(w) /\ ~WorkerRun(w)
    BY <1>1, <2>3 DEF WorkerStep, WorkerLock, WorkerWait, WorkerRelock, WorkerLoopLock, WorkerFinish,
       SpuriousWakeup
  <2> QED BY <2>1, <2>2, <2>3
<1>2. ASSUME NEW l \in Loops, LoopStep(l) PROVE WR!Next
  <2>1. CASE CancelTry(l)
    <3> DEFINE r == lreq[l]
    <3>1. r \in Reqs /\ phase[r] # "free" /\ Found(r)
      BY <2>1 DEF CancelTry, CallerHolds, Hands, NotLost
    <3>2. Cancellable(r) /\ phase' = [phase EXCEPT ![r] = "cancelled"] /\ UNCHANGED status
      BY <2>1 DEF CancelTry
    <3>3. phase[r] # "executing"
      BY <3>1, <3>2 DEF Found, Holding, WorkerHolds, Cancellable
    <3>4. phase[r] # "executed"
      <4>1. ~Holding(r, {"ran", "finish"})
        BY <3>1, <3>2 DEF Holding, WorkerHolds, Cancellable
      <4>2. LoopOf[r] \in Loops /\ OwnQueues(LoopOf[r])
        BY <3>1, ThreadAssumption DEF LoopQueues
      <4>3. Reported(r) /\ phase[r] = "executed" => work[r] = "NULL"
        BY <4>2 DEF Reported, OwnQueues
      <4> QED BY <3>1, <3>2, <4>1, <4>3 DEF Found, Cancellable
    <3>5. phase[r] # "cancelled"
      <4> SUFFICES ASSUME phase[r] = "cancelled" PROVE phase' = phase
        BY <3>2
      <4> QED BY <3>1, <3>2
    <3>6. WR!Cancel(r)
      BY <3>1, <3>2, <3>3, <3>4, <3>5 DEF WR!Cancel, WR!Move
    <3> QED BY <3>1, <3>6 DEF WR!Next
  <2>2. CASE WorkDoneNext(l)
    <3> DEFINE r == Head(local_wq[l])
    <3>1. r \in Reqs /\ r \in ToSet(local_wq[l])
      BY <2>2, TailFacts DEF WorkDoneNext
    <3>2. \/ phase[r] = "executed" /\ work[r] = "NULL"
          \/ phase[r] = "cancelled" /\ work[r] = "cancelled"
      BY <3>1 DEF LoopQueues, OwnQueues
    <3>3. WR!Done(r)
      BY <2>2, <3>1, <3>2 DEF WorkDoneNext, WR!Done, WR!Move
    <3> QED BY <3>1, <3>3 DEF WR!Next
  <2>3. CASE ~CancelTry(l) /\ ~WorkDoneNext(l)
    BY <1>2, <2>3 DEF LoopStep, PostLock, Post, CancelLock, CancelLoopLock, CancelMark,
       CancelReinsertLock, CancelReinsert, WorkDone, WorkDoneLock, WorkDoneMove, WorkDoneReturn
  <2> QED BY <2>1, <2>2, <2>3
<1>3. ASSUME NEW l \in Loops, NEW r \in Reqs, Call(l, r) PROVE WR!Next
  <2>1. CASE QueueWork(l, r)
    <3>1. WR!Submit(r)
      BY <2>1 DEF QueueWork, Submit, InitOnce, WR!Submit, WR!Move
    <3> QED BY <3>1 DEF WR!Next
  <2>2. CASE Cancel(l, r)
    BY <2>2 DEF Cancel
  <2> QED BY <1>3, <2>1, <2>2 DEF Call
<1>4. ~UNCHANGED vars
  BY DEF vars
<1> QED BY <1>1, <1>2, <1>3, <1>4 DEF Next

\* The pool implements its promise to every request: executed or cancelled,
\* never both, and one done callback with the matching status.
THEOREM Refinement == Spec => ImplementsWorkRequest
<1>1. Init => WR!Init
  BY DEF Init, WR!Init
<1> QED BY <1>1, StepRefines, Inductive, PTL DEF Spec, WR!Spec, ImplementsWorkRequest
-----------------------------------------------------------------------------
\* A queue without duplicates holds a node at one position or at none.
LEMMA PositionsOf ==
    ASSUME NEW q \in Seq(Reqs), Distinct(q), NEW r
    PROVE  /\ r \in ToSet(q) => \E i : {j \in 1..Len(q) : q[j] = r} = {i}
           /\ r \notin ToSet(q) => {j \in 1..Len(q) : q[j] = r} = {}
<1>1. Len(q) \in Nat /\ DOMAIN q = 1..Len(q)
  BY LenProperties
<1>2. ASSUME r \in ToSet(q) PROVE \E i : {j \in 1..Len(q) : q[j] = r} = {i}
  <2>1. PICK i \in 1..Len(q) : q[i] = r
    BY <1>1, <1>2 DEF ToSet
  <2>2. {j \in 1..Len(q) : q[j] = r} = {i}
    BY <2>1 DEF Distinct
  <2> QED BY <2>2
<1>3. r \notin ToSet(q) => {j \in 1..Len(q) : q[j] = r} = {}
  BY <1>1 DEF ToSet
<1> QED BY <1>2, <1>3

Tag(t, S) == {<<t, i>> : i \in S}

\* Tagging the elements of a set keeps it empty or a singleton.
LEMMA Tagged ==
    ASSUME NEW t, NEW S
    PROVE  /\ S = {} => Tag(t, S) = {}
           /\ (\E x : S = {x}) => \E p : Tag(t, S) = {p}
<1>1. S = {} => Tag(t, S) = {}
  BY DEF Tag
<1>2. ASSUME NEW x, S = {x} PROVE Tag(t, S) = {<<t, x>>}
  BY <1>2 DEF Tag
<1> QED BY <1>1, <1>2

\* A request is in exactly one place until its done callback, then in none.
THEOREM PlacedOnce == Spec => []OnePlace
<1>1. IInv => OnePlace
  <2> SUFFICES ASSUME IInv, NEW r \in Reqs
               PROVE  Cardinality(Places(r)) = IF phase[r] = "free" THEN 0 ELSE 1
    BY DEF OnePlace
  <2> DEFINE l == LoopOf[r]
             P1 == {i \in 1..Len(wq) : wq[i] = r}
             P2 == {i \in 1..Len(loop_wq[l]) : loop_wq[l][i] = r}
             P3 == {i \in 1..Len(local_wq[l]) : local_wq[l][i] = r}
             P4 == {w \in Workers : cur[w] = r}
             P5 == {k \in Loops : /\ lreq[k] = r
                                  /\ lpc[k] \in {"post", "posting", "mark", "reinsert", "reinserting"}}
             InG == r \in ToSet(wq)
             InL == r \in ToSet(loop_wq[l])
             InD == r \in ToSet(local_wq[l])
             Has == \E w \in Workers : cur[w] = r
             Pst == Calling(r, {"post", "posting"})
             Cnc == Calling(r, {"mark", "reinsert", "reinserting"})
             T1 == Tag("wq", P1)
             T2 == Tag("loop", P2)
             T3 == Tag("local", P3)
             T4 == Tag("worker", P4)
             T5 == Tag("caller", P5)
  <2>1. /\ Places(r) = T1 \cup T2 \cup T3 \cup T4 \cup T5
        /\ (P1 = {} => T1 = {}) /\ ((\E i : P1 = {i}) => \E p : T1 = {p})
        /\ (P2 = {} => T2 = {}) /\ ((\E i : P2 = {i}) => \E p : T2 = {p})
        /\ (P3 = {} => T3 = {}) /\ ((\E i : P3 = {i}) => \E p : T3 = {p})
        /\ (P4 = {} => T4 = {}) /\ ((\E w : P4 = {w}) => \E p : T4 = {p})
        /\ (P5 = {} => T5 = {}) /\ ((\E k : P5 = {k}) => \E p : T5 = {p})
    <3>1. Places(r) = T1 \cup T2 \cup T3 \cup T4 \cup T5
      BY Zenon DEF Places, Tag
    <3> HIDE DEF P1, P2, P3, P4, P5
    <3>2. (P1 = {} => T1 = {}) /\ ((\E i : P1 = {i}) => \E p : T1 = {p})
      BY Tagged, Zenon
    <3>3. (P2 = {} => T2 = {}) /\ ((\E i : P2 = {i}) => \E p : T2 = {p})
      BY Tagged, Zenon
    <3>4. (P3 = {} => T3 = {}) /\ ((\E i : P3 = {i}) => \E p : T3 = {p})
      BY Tagged, Zenon
    <3>5. (P4 = {} => T4 = {}) /\ ((\E w : P4 = {w}) => \E p : T4 = {p})
      BY Tagged, Zenon
    <3>6. (P5 = {} => T5 = {}) /\ ((\E k : P5 = {k}) => \E p : T5 = {p})
      BY Tagged, Zenon
    <3> QED BY <3>1, <3>2, <3>3, <3>4, <3>5, <3>6
  <2>2. l \in Loops /\ Found(r) /\ OwnQueues(l) /\ Hands(l) /\ Distinct(wq)
        /\ wq \in Seq(Reqs) /\ loop_wq[l] \in Seq(Reqs) /\ local_wq[l] \in Seq(Reqs)
    BY ThreadAssumption DEF IInv, TypeOK, NotLost, LoopQueues, CallerHolds, GlobalQueue
  <2>3. /\ (InG => \E i : P1 = {i}) /\ (~InG => P1 = {})
        /\ (InL => \E i : P2 = {i}) /\ (~InL => P2 = {})
        /\ (InD => \E i : P3 = {i}) /\ (~InD => P3 = {})
    <3>1. Distinct(loop_wq[l]) /\ Distinct(local_wq[l])
      BY <2>2 DEF OwnQueues
    <3>2. (InG => \E i : P1 = {i}) /\ (~InG => P1 = {})
      BY <2>2, PositionsOf, Zenon
    <3>3. (InL => \E i : P2 = {i}) /\ (~InL => P2 = {})
      BY <2>2, <3>1, PositionsOf, Zenon
    <3>4. (InD => \E i : P3 = {i}) /\ (~InD => P3 = {})
      BY <2>2, <3>1, PositionsOf, Zenon
    <3> QED BY <3>2, <3>3, <3>4
  <2>4. (Has => \E w : P4 = {w}) /\ (~Has => P4 = {})
    <3>1. ASSUME NEW w \in Workers, cur[w] = r PROVE P4 = {w}
      BY <3>1, ThreadAssumption DEF IInv, WorkerHolds
    <3> QED BY <3>1
  <2>5. (Pst \/ Cnc => P5 = {l}) /\ (~Pst /\ ~Cnc => P5 = {})
    <3>1. \A k \in P5 : k = l
      BY DEF IInv, CallerHolds, Hands
    <3> QED BY <2>2, <3>1 DEF Calling
  <2>6. /\ InG => phase[r] = "queued"
        /\ InL \/ InD => phase[r] \in {"executed", "cancelled"} /\ ~empty[r]
        /\ ~(InL /\ InD)
        /\ Has => phase[r] \in {"executing", "executed"} /\ empty[r]
        /\ Pst => phase[r] = "queued" /\ ~InG /\ ~Cnc
        /\ Cnc => phase[r] = "cancelled" /\ ~InL /\ ~InD
    <3>1. InG => phase[r] = "queued"
      BY DEF IInv, GlobalQueue
    <3>2. (InL \/ InD => phase[r] \in {"executed", "cancelled"} /\ ~empty[r]) /\ ~(InL /\ InD)
      BY <2>2 DEF OwnQueues
    <3>3. Has => phase[r] \in {"executing", "executed"} /\ empty[r]
      BY ThreadAssumption DEF IInv, WorkerHolds
    <3>4. /\ Pst => phase[r] = "queued" /\ ~InG /\ ~Cnc
          /\ Cnc => phase[r] = "cancelled" /\ ~InL /\ ~InD
      BY <2>2 DEF Calling, Hands
    <3> QED BY <3>1, <3>2, <3>3, <3>4
  <2>7. phase[r] # "free" => InG \/ InL \/ InD \/ Has \/ Pst \/ Cnc
    BY <2>2 DEF Found, Holding, Reported, IInv, TypeOK
  <2> HIDE DEF T1, T2, T3, T4, T5, P1, P2, P3, P4, P5, InG, InL, InD, Has, Pst, Cnc
  <2>8. CASE phase[r] = "free"
    <3>1. P1 = {} /\ P2 = {} /\ P3 = {} /\ P4 = {} /\ P5 = {}
      BY <2>3, <2>4, <2>5, <2>6, <2>8
    <3>2. Places(r) = {}
      BY <2>1, <3>1
    <3> QED BY <2>8, <3>2, FS_EmptySet
  <2>9. CASE phase[r] # "free"
    <3>1. CASE InG
      <4>1. P2 = {} /\ P3 = {} /\ P4 = {} /\ P5 = {} /\ \E i : P1 = {i}
        BY <2>3, <2>4, <2>5, <2>6, <3>1
      <4>2. \E p : Places(r) = {p}
        BY <2>1, <4>1
      <4> QED BY <2>9, <4>2, FS_Singleton
    <3>2. CASE InL
      <4>1. P1 = {} /\ P3 = {} /\ P4 = {} /\ P5 = {} /\ \E i : P2 = {i}
        BY <2>3, <2>4, <2>5, <2>6, <3>2
      <4>2. \E p : Places(r) = {p}
        BY <2>1, <4>1
      <4> QED BY <2>9, <4>2, FS_Singleton
    <3>3. CASE InD
      <4>1. P1 = {} /\ P2 = {} /\ P4 = {} /\ P5 = {} /\ \E i : P3 = {i}
        BY <2>3, <2>4, <2>5, <2>6, <3>3
      <4>2. \E p : Places(r) = {p}
        BY <2>1, <4>1
      <4> QED BY <2>9, <4>2, FS_Singleton
    <3>4. CASE Has
      <4>1. P1 = {} /\ P2 = {} /\ P3 = {} /\ P5 = {} /\ \E w : P4 = {w}
        BY <2>3, <2>4, <2>5, <2>6, <3>4
      <4>2. \E p : Places(r) = {p}
        BY <2>1, <4>1
      <4> QED BY <2>9, <4>2, FS_Singleton
    <3>5. CASE Pst \/ Cnc
      <4>1. P1 = {} /\ P2 = {} /\ P3 = {} /\ P4 = {} /\ P5 = {l}
        BY <2>3, <2>4, <2>5, <2>6, <3>5
      <4>2. \E p : Places(r) = {p}
        BY <2>1, <4>1
      <4> QED BY <2>9, <4>2, FS_Singleton
    <3> QED BY <2>7, <2>9, <3>1, <3>2, <3>3, <3>4, <3>5
  <2> QED BY <2>8, <2>9
<1> QED BY <1>1, Inductive, PTL
=============================================================================
