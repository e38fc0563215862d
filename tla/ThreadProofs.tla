---------------------------- MODULE ThreadProofs ----------------------------
(***************************************************************************)
(* What threads do to each other: the barrier, for any number of threads   *)
(* and of rounds; signals, for any number of handles, loops and signals    *)
(* and for pipes of any size; and uv_async_send, for any number of handles *)
(* and senders.                                                            *)
(***************************************************************************)
EXTENDS Barrier, Signal, Async, QueueLemmas, FiniteSetTheorems

----------------------------------------------------------------------------
(* The barrier.                                                            *)

\* The threads that have arrived in the round that is not complete.
Arrived == {t \in Threads : tpc[t] # "out"} \ released

\* in is the number of arrivals, and every thread has entered once for each
\* complete round, and once more if it has arrived in the present one.
Rounds ==
    /\ in = Cardinality(Arrived)
    /\ \A t \in Threads : waits[t] = IF t \in Arrived THEN serial + 1 ELSE serial

\* The inductive invariant of the barrier.
BarrierInv == BarrierTypeOK /\ OutCounts /\ Rounds

\* The sets that the counters count are finite.
LEMMA BarrierSets ==
    ASSUME BarrierTypeOK
    PROVE  /\ threshold \in Nat \ {0}
           /\ IsFiniteSet(Arrived) /\ IsFiniteSet(released)
           /\ \A S \in SUBSET Threads : IsFiniteSet(S) /\ Cardinality(S) \in Nat
<1>1. threshold \in Nat \ {0}
  BY BarrierAssumption, FS_CardinalityType, FS_EmptySet DEF threshold
<1>2. ASSUME NEW S \in SUBSET Threads
      PROVE  IsFiniteSet(S) /\ Cardinality(S) \in Nat
  BY BarrierAssumption, FS_Subset, FS_CardinalityType
<1>3. Arrived \in SUBSET Threads /\ released \in SUBSET Threads
  BY DEF Arrived, BarrierTypeOK
<1> QED BY <1>1, <1>2, <1>3

LEMMA BarrierBegins == BarrierInit => BarrierInv
<1> SUFFICES ASSUME BarrierInit PROVE BarrierInv
  OBVIOUS
<1> USE DEF BarrierInit
<1>1. threshold \in Nat \ {0}
  BY BarrierAssumption, FS_CardinalityType, FS_EmptySet DEF threshold
<1>2. BarrierTypeOK
  BY <1>1, BarrierAssumption DEF BarrierTypeOK
<1>3. Arrived = {}
  BY DEF Arrived
<1>4. OutCounts /\ Rounds
  BY <1>3, FS_EmptySet DEF OutCounts, Rounds
<1> QED BY <1>2, <1>4 DEF BarrierInv

\* A signal turns a waiting thread into a woken one, and no thread goes in
\* or out.
LEMMA SignalledFacts ==
    ASSUME BarrierTypeOK, NEW p \in [Threads -> {"out", "wait", "woken"}], NEW q \in Signalled(p),
           \A w \in Waiting : p[w] # "out"
    PROVE  /\ q \in [Threads -> {"out", "wait", "woken"}]
           /\ \A u \in Threads : q[u] = "out" <=> p[u] = "out"
  BY DEF Signalled, Waiting, BarrierTypeOK

\* The last thread to arrive finds all others in the round, so nobody is
\* left over from the round before; any other is one more in the round.
LEMMA ArriveStep ==
    ASSUME BarrierInv, NEW t \in Threads, Arrive(t)
    PROVE  BarrierInv'
<1> USE DEF BarrierInv
<1>0. /\ threshold \in Nat \ {0}
      /\ IsFiniteSet(Arrived) /\ IsFiniteSet(released)
      /\ \A S \in SUBSET Threads : IsFiniteSet(S) /\ Cardinality(S) \in Nat
  BY BarrierSets
<1>1. t \notin Arrived /\ t \notin released /\ Arrived \subseteq Threads
  BY DEF Arrive, Arrived, BarrierTypeOK
<1>2. waits[t] = serial /\ serial \in Nat /\ serial < MaxWaits
  BY <1>1, BarrierAssumption DEF Rounds, BarrierTypeOK, Arrive
<1>3. Cardinality(Arrived \cup {t}) = in + 1
  BY <1>0, <1>1, FS_AddElement DEF Rounds
<1>4. CASE in + 1 = threshold
  <2>1. Arrived \cup {t} = Threads
    BY <1>1, <1>3, <1>4, FS_Subset, BarrierAssumption DEF threshold
  <2>2. released = {}
    BY <2>1, <1>1 DEF Arrived, BarrierTypeOK
  <2>3. tpc' \in Signalled(tpc) /\ in' = 0 /\ out' = threshold - 1 /\ serial' = serial + 1
        /\ waits' = [waits EXCEPT ![t] = @ + 1] /\ released' = {u \in Threads : tpc[u] # "out"}
    BY <1>4, <1>0 DEF Arrive, BarrierTypeOK
  <2>4. /\ tpc' \in [Threads -> {"out", "wait", "woken"}]
        /\ \A u \in Threads : tpc'[u] = "out" <=> tpc[u] = "out"
    BY <2>3, SignalledFacts DEF BarrierTypeOK, Waiting
  <2>5. Arrived' = {}
    BY <2>3, <2>4 DEF Arrived
  <2>6. released' = Arrived
    BY <2>2, <2>3 DEF Arrived
  <2>7. BarrierTypeOK'
    <3>1. in' \in 0..(threshold - 1) /\ out' \in 0..(threshold - 1)
      BY <2>3, <1>0
    <3>2. waits' \in [Threads -> 0..MaxWaits] /\ serial' \in 0..MaxWaits
      BY <2>3, <1>2, BarrierAssumption DEF BarrierTypeOK
    <3>3. released' \subseteq {u \in Threads : tpc'[u] # "out"}
      BY <2>3, <2>4
    <3> QED BY <3>1, <3>2, <3>3, <2>4 DEF BarrierTypeOK, threshold
  <2>8. OutCounts'
    <3>1. out' = in
      BY <2>3, <1>4, <1>0 DEF BarrierTypeOK
    <3> QED BY <3>1, <2>6 DEF OutCounts, Rounds
  <2>9. Rounds'
    BY <2>1, <2>3, <2>5, <1>2, FS_EmptySet DEF Rounds, BarrierTypeOK
  <2> QED BY <2>7, <2>8, <2>9
<1>5. CASE in + 1 # threshold
  <2>1. /\ in' = in + 1 /\ tpc' = [tpc EXCEPT ![t] = "wait"]
        /\ waits' = [waits EXCEPT ![t] = @ + 1] /\ UNCHANGED <<out, serial, released>>
    BY <1>5 DEF Arrive
  <2>2. Arrived' = Arrived \cup {t}
    BY <1>1, <2>1 DEF Arrived, BarrierTypeOK
  <2>3. in + 1 <= threshold - 1
    <3>1. Cardinality(Arrived \cup {t}) <= threshold
      BY <1>1, FS_Subset, BarrierAssumption DEF threshold
    <3> QED BY <3>1, <1>3, <1>5, <1>0 DEF BarrierTypeOK
  <2>4. BarrierTypeOK'
    BY <2>1, <2>3, <1>0, <1>2, BarrierAssumption DEF BarrierTypeOK, threshold
  <2>5. OutCounts'
    BY <2>1 DEF OutCounts
  <2>6. Rounds'
    BY <2>1, <2>2, <1>1, <1>2, <1>3 DEF Rounds, BarrierTypeOK
  <2> QED BY <2>4, <2>5, <2>6
<1> QED BY <1>4, <1>5

\* A spurious wakeup changes no count.
LEMMA SpuriousStep ==
    ASSUME BarrierInv, NEW t \in Threads, SpuriousWakeup(t)
    PROVE  BarrierInv'
<1> USE DEF BarrierInv, SpuriousWakeup
<1>1. Arrived' = Arrived
  BY DEF Arrived, BarrierTypeOK
<1>2. BarrierTypeOK'
  BY DEF BarrierTypeOK, threshold
<1>3. OutCounts' /\ Rounds'
  BY <1>1 DEF OutCounts, Rounds
<1> QED BY <1>2, <1>3

\* Only a thread of a complete round finds in = 0 and leaves.
LEMMA LeaveStep ==
    ASSUME BarrierInv, NEW t \in Threads, Leave(t)
    PROVE  BarrierInv'
<1> USE DEF BarrierInv
<1>0. /\ threshold \in Nat \ {0}
      /\ IsFiniteSet(Arrived) /\ IsFiniteSet(released)
      /\ \A S \in SUBSET Threads : IsFiniteSet(S) /\ Cardinality(S) \in Nat
  BY BarrierSets
<1>1. CASE in # 0
  <2>1. tpc[t] = "woken" /\ tpc' = [tpc EXCEPT ![t] = "wait"]
        /\ UNCHANGED <<in, out, waits, serial, released>>
    BY <1>1 DEF Leave
  <2>2. Arrived' = Arrived
    BY <2>1 DEF Arrived, BarrierTypeOK
  <2>3. BarrierTypeOK'
    BY <2>1 DEF BarrierTypeOK, threshold
  <2> QED BY <2>1, <2>2, <2>3 DEF OutCounts, Rounds
<1>2. CASE in = 0
  <2>1. /\ tpc[t] = "woken" /\ tpc' \in Signalled([tpc EXCEPT ![t] = "out"])
        /\ out' = out - 1 /\ released' = released \ {t} /\ UNCHANGED <<in, waits, serial>>
    BY <1>2 DEF Leave
  <2> DEFINE p == [tpc EXCEPT ![t] = "out"]
  <2>2. p \in [Threads -> {"out", "wait", "woken"}] /\ \A w \in Waiting : p[w] # "out"
    BY <2>1 DEF BarrierTypeOK, Waiting
  <2>3. /\ tpc' \in [Threads -> {"out", "wait", "woken"}]
        /\ \A u \in Threads : tpc'[u] = "out" <=> p[u] = "out"
    <3> HIDE DEF p
    <3>1. tpc' \in Signalled(p)
      BY <2>1 DEF p
    <3> QED BY <3>1, <2>2, SignalledFacts
  <2>4. Arrived = {}
    BY <1>2, <1>0, FS_EmptySet DEF Rounds
  <2>5. t \in released
    BY <2>1, <2>4 DEF Arrived
  <2>6. Arrived' = {}
    BY <2>1, <2>3, <2>4 DEF Arrived, BarrierTypeOK
  <2>7. Cardinality(released') = out - 1 /\ Cardinality(released') \in Nat
    <3>1. Cardinality(released \ {t}) = Cardinality(released) - 1
      BY <2>5, <1>0, FS_RemoveElement
    <3>2. released' \in SUBSET Threads
      BY <2>1 DEF BarrierTypeOK
    <3> QED BY <3>1, <3>2, <2>1, <1>0 DEF OutCounts
  <2>8. BarrierTypeOK'
    <3>1. out' \in 0..(threshold - 1)
      BY <2>1, <2>7, <1>0 DEF BarrierTypeOK
    <3> QED BY <3>1, <2>1, <2>3 DEF BarrierTypeOK, threshold
  <2>9. OutCounts' /\ Rounds'
    BY <2>1, <2>4, <2>6, <2>7, <1>2 DEF OutCounts, Rounds
  <2> QED BY <2>8, <2>9
<1> QED BY <1>1, <1>2

\* The counters of the barrier count what they are meant to, in every round.
THEOREM BarrierInductive == BarrierSpec => []BarrierInv
<1>1. BarrierInv /\ [BarrierNext]_barrierVars => BarrierInv'
  <2> SUFFICES ASSUME BarrierInv, [BarrierNext]_barrierVars PROVE BarrierInv'
    OBVIOUS
  <2>1. CASE UNCHANGED barrierVars
    BY <2>1 DEF BarrierInv, BarrierTypeOK, OutCounts, Rounds, Arrived, barrierVars, threshold
  <2> QED BY <2>1, ArriveStep, SpuriousStep, LeaveStep DEF BarrierNext
<1> QED BY <1>1, BarrierBegins, PTL DEF BarrierSpec

\* pthread_barrier_wait lets no thread out before all have arrived, and
\* pthread_barrier_destroy sees how many are still inside, for any number of
\* threads and of rounds, spurious wakeups included.
THEOREM BarrierCorrect == BarrierSpec => []BarrierRight
<1>1. BarrierInv => BarrierRight
  <2> SUFFICES ASSUME BarrierInv PROVE NobodyEarly
    BY DEF BarrierInv, BarrierRight
  <2>1. \A t \in Threads : tpc[t] = "out" => waits[t] = serial
    BY DEF BarrierInv, Rounds, Arrived
  <2>2. serial <= serial
    BY DEF BarrierInv, BarrierTypeOK
  <2> QED BY <2>1, <2>2 DEF NobodyEarly
<1> QED BY <1>1, BarrierInductive, PTL

----------------------------------------------------------------------------
(* Messages of one handle in a queue.                                      *)

\* A finite set of numbers keeps its size when it is shifted.
LEMMA ShiftedSet ==
    ASSUME NEW S, IsFiniteSet(S), S \subseteq Int, NEW k \in Int,
           NEW T, T = {i + k : i \in S}
    PROVE  IsFiniteSet(T) /\ Cardinality(T) = Cardinality(S)
<1> DEFINE f == [i \in S |-> i + k]
<1>1. f \in Bijection(S, T)
  <2>1. f \in [S -> T]
    OBVIOUS
  <2>2. \A a, b \in S : f[a] = f[b] => a = b
    OBVIOUS
  <2>3. \A t \in T : \E s \in S : f[s] = t
    OBVIOUS
  <2> HIDE DEF f
  <2> QED BY <2>1, <2>2, <2>3 DEF Bijection, Injection, Surjection, IsInjective
<1>2. ExistsBijection(S, T)
  BY <1>1 DEF ExistsBijection
<1> QED BY <1>2, FS_Bijection

LEMMA MessagesFinite ==
    ASSUME NEW S, NEW q \in Seq(S), NEW h
    PROVE  /\ IsFiniteSet({i \in 1..Len(q) : q[i][1] = h})
           /\ MessagesIn(q, h) \in Nat
<1>1. IsFiniteSet(1..Len(q))
  BY LenProperties, FS_Interval
<1>2. {i \in 1..Len(q) : q[i][1] = h} \in SUBSET (1..Len(q))
  OBVIOUS
<1>3. IsFiniteSet({i \in 1..Len(q) : q[i][1] = h})
  BY <1>1, <1>2, FS_Subset
<1> QED BY <1>3, FS_CardinalityType DEF MessagesIn

LEMMA MessagesEmpty ==
    ASSUME NEW h
    PROVE  MessagesIn(<<>>, h) = 0
<1>1. {i \in 1..Len(<<>>) : <<>>[i][1] = h} = {}
  BY EmptySeq
<1> QED BY <1>1, FS_EmptySet DEF MessagesIn

\* A message that is written adds one to its handle's.
LEMMA MessagesAppend ==
    ASSUME NEW S, NEW q \in Seq(S), NEW m \in S, NEW h
    PROVE  MessagesIn(Append(q, m), h) = MessagesIn(q, h) + (IF m[1] = h THEN 1 ELSE 0)
<1> DEFINE I == {i \in 1..Len(q) : q[i][1] = h}
           J == {i \in 1..Len(Append(q, m)) : Append(q, m)[i][1] = h}
<1>1. /\ Len(Append(q, m)) = Len(q) + 1 /\ Len(q) \in Nat
      /\ \A i \in 1..Len(q) : Append(q, m)[i] = q[i]
      /\ Append(q, m)[Len(q) + 1] = m
  BY AppendProperties, LenProperties
<1>2. IsFiniteSet(I) /\ Cardinality(I) \in Nat
  BY MessagesFinite DEF MessagesIn
<1>3. Len(q) + 1 \notin I
  BY <1>1
<1>4. CASE m[1] = h
  <2>1. J = I \cup {Len(q) + 1}
    BY <1>1, <1>4
  <2>2. Cardinality(I \cup {Len(q) + 1}) = Cardinality(I) + 1
    <3> HIDE DEF I
    <3> QED BY <1>2, <1>3, FS_AddElement
  <2> QED BY <2>1, <2>2, <1>4 DEF MessagesIn
<1>5. CASE m[1] # h
  <2>1. J = I
    BY <1>1, <1>5
  <2>2. Cardinality(J) = Cardinality(I) + 0
    <3> HIDE DEF I, J
    <3> QED BY <2>1, <1>2
  <2> QED BY <2>2, <1>5 DEF MessagesIn
<1> QED BY <1>4, <1>5

\* Reading the first n messages loses and doubles none.
LEMMA MessagesSplit ==
    ASSUME NEW S, NEW q \in Seq(S), NEW n \in 0..Len(q), NEW h
    PROVE  /\ SubSeq(q, 1, n) \in Seq(S) /\ SubSeq(q, n + 1, Len(q)) \in Seq(S)
           /\ Len(SubSeq(q, 1, n)) = n
           /\ \A i \in 1..n : SubSeq(q, 1, n)[i] = q[i]
           /\ MessagesIn(q, h) = MessagesIn(SubSeq(q, 1, n), h)
                                  + MessagesIn(SubSeq(q, n + 1, Len(q)), h)
<1> DEFINE a == SubSeq(q, 1, n)
           b == SubSeq(q, n + 1, Len(q))
<1>0. Len(q) \in Nat /\ n \in Nat /\ n <= Len(q) /\ \A i \in 1..Len(q) : q[i] \in S
  BY LenProperties, ElementOfSeq
<1>1. a \in Seq(S) /\ Len(a) = n /\ \A i \in 1..n : a[i] = q[i]
  <2>1. /\ a \in Seq(S)
        /\ Len(a) = IF 1 <= n THEN n - 1 + 1 ELSE 0
        /\ \A i \in 1..(n - 1 + 1) : a[i] = q[1 + i - 1]
    BY <1>0, SubSeqProperties
  <2> HIDE DEF a
  <2> QED BY <2>1, <1>0
<1>2. b \in Seq(S) /\ Len(b) = Len(q) - n /\ \A i \in 1..(Len(q) - n) : b[i] = q[n + i]
  <2>1. /\ b \in Seq(S)
        /\ Len(b) = IF n + 1 <= Len(q) THEN Len(q) - (n + 1) + 1 ELSE 0
        /\ \A i \in 1..(Len(q) - (n + 1) + 1) : b[i] = q[(n + 1) + i - 1]
    <3>1. n + 1 \in Int /\ Len(q) \in Int /\ \A i \in (n + 1)..Len(q) : q[i] \in S
      BY <1>0
    <3> QED BY <3>1, SubSeqProperties
  <2> HIDE DEF b
  <2>2. Len(b) = Len(q) - n
    BY <2>1, <1>0
  <2>3. ASSUME NEW i \in 1..(Len(q) - n) PROVE b[i] = q[n + i]
    <3>1. i \in 1..(Len(q) - (n + 1) + 1) /\ (n + 1) + i - 1 = n + i
      BY <1>0
    <3> QED BY <3>1, <2>1
  <2> QED BY <2>1, <2>2, <2>3
<1> HIDE DEF a, b
<1> DEFINE I == {i \in 1..Len(q) : q[i][1] = h}
           A == {i \in 1..Len(a) : a[i][1] = h}
           B == {i \in 1..Len(b) : b[i][1] = h}
           C == {i + n : i \in B}
<1>3. IsFiniteSet(A) /\ IsFiniteSet(B) /\ Cardinality(A) \in Nat /\ Cardinality(B) \in Nat
  <2>1. IsFiniteSet(A) /\ MessagesIn(a, h) \in Nat
    BY <1>1, MessagesFinite
  <2>2. IsFiniteSet(B) /\ MessagesIn(b, h) \in Nat
    BY <1>2, MessagesFinite
  <2> QED BY <2>1, <2>2 DEF MessagesIn
<1>4. IsFiniteSet(C) /\ Cardinality(C) = Cardinality(B)
  <2>1. B \subseteq Int
    OBVIOUS
  <2> HIDE DEF B
  <2>2. n \in Int
    BY <1>0
  <2>3. C = {i + n : i \in B}
    OBVIOUS
  <2> HIDE DEF C
  <2> QED BY <2>1, <2>2, <2>3, <1>3, ShiftedSet
<1>5. I = A \cup C /\ A \cap C = {}
  <2>1. A \cap C = {}
    BY <1>0, <1>1
  <2>2. A \cup C \subseteq I
    BY <1>0, <1>1, <1>2
  <2>3. ASSUME NEW i \in I PROVE i \in A \cup C
    <3>1. CASE i <= n
      BY <3>1, <1>0, <1>1
    <3>2. CASE i > n
      <4>1. i - n \in 1..(Len(q) - n) /\ (i - n) + n = i /\ n + (i - n) = i
        BY <3>2, <1>0
      <4>2. i - n \in B
        BY <4>1, <1>2
      <4> QED BY <4>1, <4>2
    <3> QED BY <3>1, <3>2, <1>0
  <2> QED BY <2>1, <2>2, <2>3
<1>6. Cardinality(I) = Cardinality(A) + Cardinality(B)
  <2> HIDE DEF I, A, B, C
  <2>1. Cardinality(A \cup C) = Cardinality(A) + Cardinality(C)
    <3>1. Cardinality(A \cap C) = 0
      BY <1>5, FS_EmptySet
    <3>2. Cardinality(A \cup C) = Cardinality(A) + Cardinality(C) - Cardinality(A \cap C)
      BY <1>3, <1>4, FS_Union
    <3> QED BY <3>1, <3>2, <1>3, <1>4
  <2> QED BY <2>1, <1>4, <1>5
<1> QED BY <1>1, <1>2, <1>6 DEF MessagesIn, a, b

\* What is read, and what is left, was in the pipe.
LEMMA PartOfSeq ==
    ASSUME NEW S, NEW q \in Seq(S), NEW n \in 0..Len(q)
    PROVE  /\ \A i \in 1..Len(SubSeq(q, 1, n)) : \E j \in 1..Len(q) : SubSeq(q, 1, n)[i] = q[j]
           /\ \A i \in 1..Len(SubSeq(q, n + 1, Len(q))) :
                 \E j \in 1..Len(q) : SubSeq(q, n + 1, Len(q))[i] = q[j]
<1> DEFINE k == Len(q)
<1>1. k \in Nat /\ n \in Nat /\ n <= k /\ n + 1 \in Int /\ k \in Int
      /\ \A i \in 1..k : q[i] \in S
  BY LenProperties, ElementOfSeq
<1>2. /\ Len(SubSeq(q, 1, n)) = IF 1 <= n THEN n - 1 + 1 ELSE 0
      /\ \A i \in 1..(n - 1 + 1) : SubSeq(q, 1, n)[i] = q[1 + i - 1]
  BY <1>1, SubSeqProperties
<1>3. /\ Len(SubSeq(q, n + 1, k)) = IF n + 1 <= k THEN k - (n + 1) + 1 ELSE 0
      /\ \A i \in 1..(k - (n + 1) + 1) : SubSeq(q, n + 1, k)[i] = q[(n + 1) + i - 1]
  <2>1. \A i \in (n + 1)..k : q[i] \in S
    BY <1>1
  <2> QED BY <1>1, <2>1, SubSeqProperties
<1>4. ASSUME NEW i \in 1..Len(SubSeq(q, 1, n)) PROVE \E j \in 1..k : SubSeq(q, 1, n)[i] = q[j]
  <2>1. i \in 1..(n - 1 + 1) /\ 1 + i - 1 \in 1..k
    BY <1>1, <1>2
  <2> QED BY <2>1, <1>2
<1>5. ASSUME NEW i \in 1..Len(SubSeq(q, n + 1, k))
      PROVE  \E j \in 1..k : SubSeq(q, n + 1, k)[i] = q[j]
  <2>1. i \in 1..(k - (n + 1) + 1) /\ (n + 1) + i - 1 \in 1..k
    BY <1>1, <1>3
  <2> QED BY <2>1, <1>3
<1> QED BY <1>4, <1>5

\* A message that is dispatched is one less of its handle's.
LEMMA MessagesTail ==
    ASSUME NEW S, NEW q \in Seq(S), q # <<>>, NEW h
    PROVE  /\ Head(q) \in S /\ Tail(q) \in Seq(S)
           /\ MessagesIn(q, h) = MessagesIn(Tail(q), h) + (IF Head(q)[1] = h THEN 1 ELSE 0)
<1> DEFINE I == {i \in 1..Len(q) : q[i][1] = h}
           B == {i \in 1..Len(Tail(q)) : Tail(q)[i][1] = h}
           C == {i + 1 : i \in B}
<1>1. /\ Head(q) \in S /\ Head(q) = q[1] /\ Tail(q) \in Seq(S)
      /\ Len(q) \in Nat \ {0} /\ Len(Tail(q)) = Len(q) - 1
      /\ \A i \in 1..Len(Tail(q)) : Tail(q)[i] = q[i + 1]
  BY HeadTailProperties, LenProperties, EmptySeq
<1>2. IsFiniteSet(B) /\ Cardinality(B) \in Nat
  BY <1>1, MessagesFinite DEF MessagesIn
<1>3. IsFiniteSet(C) /\ Cardinality(C) = Cardinality(B)
  <2>1. B \subseteq Int
    OBVIOUS
  <2> HIDE DEF B
  <2>2. C = {i + 1 : i \in B} /\ 1 \in Int
    OBVIOUS
  <2> HIDE DEF C
  <2> QED BY <2>1, <2>2, <1>2, ShiftedSet
<1>4. 1 \notin C
  BY <1>1
<1>5. C \subseteq I
  BY <1>1
<1>6. ASSUME NEW i \in I, i # 1 PROVE i \in C
  <2>1. i - 1 \in 1..Len(Tail(q)) /\ (i - 1) + 1 = i
    BY <1>1, <1>6
  <2>2. i - 1 \in B
    BY <2>1, <1>1
  <2> QED BY <2>1, <2>2
<1>7. CASE Head(q)[1] = h
  <2>1. I = C \cup {1}
    BY <1>1, <1>5, <1>6, <1>7
  <2>2. Cardinality(C \cup {1}) = Cardinality(C) + 1
    <3> HIDE DEF C
    <3> QED BY <1>3, <1>4, FS_AddElement
  <2> QED BY <2>1, <2>2, <1>1, <1>3, <1>7 DEF MessagesIn
<1>8. CASE Head(q)[1] # h
  <2>1. I = C
    BY <1>1, <1>5, <1>6, <1>8
  <2>2. Cardinality(I) = Cardinality(B) + 0
    <3> HIDE DEF I, B, C
    <3> QED BY <2>1, <1>2, <1>3
  <2> QED BY <2>2, <1>1, <1>8 DEF MessagesIn
<1> QED BY <1>7, <1>8

----------------------------------------------------------------------------
(* Signal handles.                                                         *)

SigTypes ==
    /\ signum \in [Signals -> Signums \cup {0}]
    /\ caught \in [Signals -> Nat] /\ dispatched \in [Signals -> Nat]
    /\ life \in [Signals -> {"open", "closing", "pending", "freed"}]
    /\ registered \subseteq Signums
    /\ pipe \in [Loops -> Seq(Signals \X Signums)]
    /\ buf \in [Loops -> Seq(Signals \X Signums)]
    /\ calling \subseteq Loops
    /\ handler \in [signum : Signums \cup {0}, rest : SUBSET Signals, wrote : SUBSET Signals]
    /\ raised \in Nat

\* A message is in the pipe, or the buffer, of its handle's loop.
OwnPipe ==
    \A l \in Loops :
        /\ \A i \in 1..Len(pipe[l]) : LoopOf[pipe[l][i][1]] = l
        /\ \A i \in 1..Len(buf[l]) : LoopOf[buf[l][i][1]] = l

\* The handler's watchers cannot leave the tree while it runs: it holds the
\* lock.  At most one of its messages is written and not counted.
HandlerHolds ==
    /\ Unlocked => handler.rest = {} /\ handler.wrote = {}
    /\ \A h \in handler.rest \cup handler.wrote : signum[h] = handler.signum
    /\ \A g, h \in handler.wrote : g = h
    /\ \A l \in calling : buf[l] # <<>>

\* The inductive invariant of the signal handles.
SigInv ==
    /\ SigTypes /\ OwnPipe /\ HandlerHolds
    /\ SignalsCounted /\ CloseWaitsForMessages /\ HandlerInstalled

LEMMA MessagesType ==
    ASSUME SigTypes, NEW h \in Signals
    PROVE  /\ LoopOf[h] \in Loops
           /\ pipe[LoopOf[h]] \in Seq(Signals \X Signums)
           /\ buf[LoopOf[h]] \in Seq(Signals \X Signums)
           /\ MessagesIn(pipe[LoopOf[h]], h) \in Nat
           /\ MessagesIn(buf[LoopOf[h]], h) \in Nat
           /\ Messages(h) \in Nat
<1>1. LoopOf[h] \in Loops
  BY DEF Loops
<1>2. /\ pipe[LoopOf[h]] \in Seq(Signals \X Signums)
      /\ buf[LoopOf[h]] \in Seq(Signals \X Signums)
  BY <1>1 DEF SigTypes
<1>3. /\ MessagesIn(pipe[LoopOf[h]], h) \in Nat
      /\ MessagesIn(buf[LoopOf[h]], h) \in Nat
  BY <1>2, MessagesFinite
<1> QED BY <1>1, <1>2, <1>3 DEF Messages

LEMMA SignalBegins == SignalInit => SigInv
<1> SUFFICES ASSUME SignalInit PROVE SigInv
  OBVIOUS
<1> USE DEF SignalInit
<1>1. <<>> \in Seq(Signals \X Signums) /\ Len(<<>>) = 0
  OBVIOUS
<1>2. SigTypes
  BY <1>1 DEF SigTypes
<1>3. OwnPipe /\ HandlerHolds
  BY <1>1 DEF OwnPipe, HandlerHolds, Unlocked
<1>4. \A h \in Signals : LoopOf[h] \in Loops
  BY DEF Loops
<1>5. \A h \in Signals : Messages(h) = 0
  <2> TAKE h \in Signals
  <2>1. pipe[LoopOf[h]] = <<>> /\ buf[LoopOf[h]] = <<>>
    BY <1>4
  <2> QED BY <2>1, MessagesEmpty DEF Messages
<1>6. SignalsCounted /\ CloseWaitsForMessages
  BY <1>5 DEF SignalsCounted, CloseWaitsForMessages
<1>7. HandlerInstalled
  <2>1. \A s \in Signums : s # 0
    BY SignalAssumption
  <2> QED BY <2>1 DEF HandlerInstalled, Watchers
<1> QED BY <1>2, <1>3, <1>6, <1>7 DEF SigInv

\* Steps that leave pipes and buffers alone leave the messages alone.
LEMMA SameMessages ==
    ASSUME UNCHANGED <<pipe, buf>>
    PROVE  (OwnPipe => OwnPipe') /\ \A h \in Signals : Messages(h)' = Messages(h)
BY DEF OwnPipe, Messages

LEMMA HandlerStartStep ==
    ASSUME SigInv, NEW s \in Signums, uv__signal_handler(s)
    PROVE  SigInv'
<1> USE DEF uv__signal_handler, treeVars, eventVars
<1>1. SigTypes'
  BY DEF SigInv, SigTypes, Watchers
<1>2. HandlerHolds'
  BY SignalAssumption DEF SigInv, SigTypes, HandlerHolds, Watchers, Unlocked
<1>3. UNCHANGED <<pipe, buf, caught, dispatched>> /\ handler.wrote = {} /\ handler'.wrote = {}
  BY DEF SigInv, HandlerHolds
<1>4. OwnPipe' /\ SignalsCounted'
  BY <1>3, SameMessages DEF SigInv, SignalsCounted
<1>5. ASSUME NEW h \in Signals, life[h] # "open" PROVE h \notin handler'.rest
  <2>1. signum[h] = 0
    BY <1>5 DEF SigInv, CloseWaitsForMessages
  <2>2. s # 0
    BY SignalAssumption
  <2> QED BY <2>1, <2>2 DEF Watchers
<1>6. CloseWaitsForMessages'
  BY <1>3, <1>5, SameMessages DEF SigInv, CloseWaitsForMessages
<1>7. HandlerInstalled'
  BY DEF SigInv, HandlerInstalled, Watchers
<1> QED BY <1>1, <1>2, <1>4, <1>6, <1>7 DEF SigInv

LEMMA HandlerReturnStep ==
    ASSUME SigInv, HandlerReturns
    PROVE  SigInv'
<1> USE DEF HandlerReturns, treeVars, eventVars
<1>1. SigTypes'
  BY DEF SigInv, SigTypes
<1>2. handler'.rest = {} /\ handler'.wrote = {} /\ UNCHANGED <<pipe, buf, caught, dispatched>>
  BY DEF SigInv, SigTypes
<1>3. HandlerHolds'
  BY <1>2 DEF SigInv, HandlerHolds, Unlocked
<1>4. OwnPipe' /\ SignalsCounted'
  BY <1>2, SameMessages DEF SigInv, SignalsCounted
<1>5. CloseWaitsForMessages'
  BY <1>2, SameMessages DEF SigInv, CloseWaitsForMessages
<1>6. HandlerInstalled'
  BY DEF SigInv, HandlerInstalled, Watchers
<1> QED BY <1>1, <1>3, <1>4, <1>5, <1>6 DEF SigInv

LEMMA HandlerCountsStep ==
    ASSUME SigInv, NEW h \in Signals, HandlerCounts(h)
    PROVE  SigInv'
<1> USE DEF HandlerCounts, treeVars, eventVars
<1>1. SigTypes'
  <2>1. caught' \in [Signals -> Nat]
    BY DEF SigInv, SigTypes
  <2>2. handler' \in [signum : Signums \cup {0}, rest : SUBSET Signals, wrote : SUBSET Signals]
    BY DEF SigInv, SigTypes
  <2> QED BY <2>1, <2>2 DEF SigInv, SigTypes
<1>2. handler'.rest = handler.rest /\ handler'.wrote = {} /\ handler'.signum = handler.signum
      /\ handler.wrote = {h} /\ UNCHANGED <<pipe, buf, dispatched, signum, life, calling>>
  BY DEF SigInv, SigTypes, HandlerHolds
<1>3. HandlerHolds'
  BY <1>2 DEF SigInv, HandlerHolds, Unlocked
<1>4. SignalsCounted'
  <2> SUFFICES ASSUME NEW g \in Signals
               PROVE  caught'[g] + 0 = dispatched[g] + Messages(g)
    BY <1>2, SameMessages DEF SignalsCounted
  <2>1. caught[g] + (IF g = h THEN 1 ELSE 0) = dispatched[g] + Messages(g)
    BY <1>2 DEF SigInv, SignalsCounted
  <2>2. caught[g] \in Nat /\ caught'[g] = caught[g] + (IF g = h THEN 1 ELSE 0)
    BY DEF SigInv, SigTypes
  <2> QED BY <2>1, <2>2
<1>5. CloseWaitsForMessages'
  BY <1>2, SameMessages DEF SigInv, CloseWaitsForMessages
<1>6. HandlerInstalled'
  BY DEF SigInv, HandlerInstalled, Watchers
<1> QED BY <1>1, <1>2, <1>3, <1>4, <1>5, <1>6, SameMessages DEF SigInv

LEMMA HandlerWritesStep ==
    ASSUME SigInv, NEW h \in Signals, HandlerWrites(h)
    PROVE  SigInv'
<1> USE DEF treeVars, eventVars
<1> DEFINE l == LoopOf[h]
           m == <<h, handler.signum>>
           fits == Len(pipe[l]) < PipeSize
<1>0. /\ handler.wrote = {} /\ h \in handler.rest
      /\ pipe' = IF fits THEN [pipe EXCEPT ![l] = Append(@, m)] ELSE pipe
      /\ handler' = [handler EXCEPT !.rest = @ \ {h}, !.wrote = IF fits THEN {h} ELSE {}]
      /\ UNCHANGED <<signum, registered, dispatched, life, buf, calling, caught, raised>>
  BY DEF HandlerWrites
<1>1. /\ handler'.rest = handler.rest \ {h} /\ handler'.signum = handler.signum
      /\ handler'.wrote = IF fits THEN {h} ELSE {}
      /\ handler' \in [signum : Signums \cup {0}, rest : SUBSET Signals, wrote : SUBSET Signals]
  BY <1>0 DEF SigInv, SigTypes
<1>2. ~Unlocked /\ signum[h] = handler.signum /\ handler.signum \in Signums /\ life[h] = "open"
  BY <1>0 DEF SigInv, SigTypes, HandlerHolds, CloseWaitsForMessages, Unlocked
<1>3. l \in Loops /\ pipe[l] \in Seq(Signals \X Signums) /\ m \in Signals \X Signums /\ m[1] = h
  BY <1>2, MessagesType DEF SigInv
<1>4. /\ Append(pipe[l], m) \in Seq(Signals \X Signums)
      /\ Len(pipe[l]) \in Nat /\ Len(Append(pipe[l], m)) = Len(pipe[l]) + 1
      /\ \A i \in 1..Len(pipe[l]) : Append(pipe[l], m)[i] = pipe[l][i]
      /\ Append(pipe[l], m)[Len(pipe[l]) + 1] = m
  <2> HIDE DEF m, l
  <2> QED BY <1>3, AppendProperties, LenProperties
<1> HIDE DEF m, l, fits
<1>5. pipe' \in [Loops -> Seq(Signals \X Signums)]
      /\ \A k \in Loops : pipe'[k] = IF fits /\ k = l THEN Append(pipe[l], m) ELSE pipe[k]
  BY <1>0, <1>3, <1>4 DEF SigInv, SigTypes
<1>6. SigTypes'
  BY <1>0, <1>1, <1>5 DEF SigInv, SigTypes
<1>7. HandlerHolds'
  BY <1>0, <1>1, <1>2 DEF SigInv, HandlerHolds, Unlocked
<1>8. OwnPipe'
  <2> SUFFICES ASSUME NEW k \in Loops, NEW i \in 1..Len(pipe'[k])
               PROVE  LoopOf[pipe'[k][i][1]] = k
    BY <1>0 DEF OwnPipe, SigInv
  <2>1. CASE ~(fits /\ k = l)
    BY <2>1, <1>5 DEF SigInv, OwnPipe
  <2>2. CASE fits /\ k = l
    <3>1. i \in 1..Len(pipe[l]) \/ i = Len(pipe[l]) + 1
      BY <2>2, <1>4, <1>5
    <3>2. CASE i \in 1..Len(pipe[l])
      <4>1. pipe'[k][i] = pipe[l][i]
        BY <3>2, <2>2, <1>4, <1>5
      <4>2. LoopOf[pipe[l][i][1]] = l
        BY <3>2, <1>3 DEF SigInv, OwnPipe
      <4> QED BY <4>1, <4>2, <2>2
    <3>3. CASE i = Len(pipe[l]) + 1
      BY <3>3, <2>2, <1>4, <1>5, <1>3 DEF l
    <3> QED BY <3>1, <3>2, <3>3
  <2> QED BY <2>1, <2>2
<1>9. ASSUME NEW g \in Signals
      PROVE  Messages(g)' = Messages(g) + (IF fits /\ g = h THEN 1 ELSE 0)
  <2>1. /\ LoopOf[g] \in Loops /\ MessagesIn(pipe[LoopOf[g]], g) \in Nat
        /\ MessagesIn(buf[LoopOf[g]], g) \in Nat
    BY MessagesType DEF SigInv
  <2>2. CASE ~(fits /\ LoopOf[g] = l)
    <3>1. ~(fits /\ g = h)
      BY <2>2 DEF l
    <3>2. pipe'[LoopOf[g]] = pipe[LoopOf[g]]
      BY <2>1, <2>2, <1>5
    <3> QED BY <3>1, <3>2, <2>1, <1>0 DEF Messages
  <2>3. CASE fits /\ LoopOf[g] = l
    <3>1. pipe'[l] = Append(pipe[l], m)
      BY <2>3, <1>3, <1>5
    <3>2. MessagesIn(Append(pipe[l], m), g) = MessagesIn(pipe[l], g) + (IF m[1] = g THEN 1 ELSE 0)
      BY <1>3, MessagesAppend
    <3>3. Messages(g) = MessagesIn(pipe[l], g) + MessagesIn(buf[l], g)
          /\ Messages(g)' = MessagesIn(Append(pipe[l], m), g) + MessagesIn(buf[l], g)
      BY <2>3, <3>1, <1>0 DEF Messages
    <3> QED BY <3>2, <3>3, <2>1, <2>3, <1>3
  <2> QED BY <2>2, <2>3
<1>10. SignalsCounted'
  <2> SUFFICES ASSUME NEW g \in Signals
               PROVE  caught[g] + (IF g \in handler'.wrote THEN 1 ELSE 0)
                        = dispatched[g] + Messages(g)'
    BY <1>0 DEF SignalsCounted
  <2>1. caught[g] + 0 = dispatched[g] + Messages(g)
    BY <1>0 DEF SigInv, SignalsCounted
  <2>2. caught[g] \in Nat /\ dispatched[g] \in Nat /\ Messages(g) \in Nat
    BY MessagesType DEF SigInv, SigTypes
  <2> QED BY <2>1, <2>2, <1>1, <1>9
<1>11. CloseWaitsForMessages'
  <2> SUFFICES ASSUME NEW g \in Signals, life[g] # "open"
               PROVE  /\ Messages(g)' = Messages(g)
                      /\ g \notin handler'.rest \cup handler'.wrote
    BY <1>0 DEF SigInv, CloseWaitsForMessages
  <2>1. g # h /\ g \notin handler.rest /\ Messages(g) \in Nat
    BY <1>2, MessagesType DEF SigInv, CloseWaitsForMessages
  <2> QED BY <2>1, <1>1, <1>9
<1>12. HandlerInstalled'
  BY <1>0 DEF SigInv, HandlerInstalled, Watchers
<1> QED BY <1>6, <1>7, <1>8, <1>10, <1>11, <1>12 DEF SigInv

----------------------------------------------------------------------------
(* The calls of the user.                                                  *)

LEMMA SignalStartStep ==
    ASSUME SigInv, NEW h \in Signals, NEW s \in Signums, uv_signal_start(h, s)
    PROVE  SigInv'
<1> USE DEF uv_signal_start, eventVars, handlerVars
<1>1. SigTypes'
  BY DEF SigInv, SigTypes
<1>2. handler.rest = {} /\ handler.wrote = {} /\ UNCHANGED <<pipe, buf, life>>
      /\ life[h] = "open" /\ signum[h] = 0 /\ s # 0
      /\ \A g \in Signals : signum'[g] = IF g = h THEN s ELSE signum[g]
  BY SignalAssumption DEF SigInv, HandlerHolds, SigTypes
<1>3. HandlerHolds'
  BY <1>2 DEF SigInv, HandlerHolds, Unlocked
<1>4. OwnPipe' /\ SignalsCounted'
  BY SameMessages DEF SigInv, SignalsCounted
<1>5. CloseWaitsForMessages'
  BY <1>2, SameMessages DEF SigInv, CloseWaitsForMessages
<1>6. HandlerInstalled'
  <2>1. ASSUME NEW r \in Signums
        PROVE  Watchers(r)' # {} <=> (r = s \/ Watchers(r) # {})
    <3>1. r # 0
      BY SignalAssumption
    <3> QED BY <1>2, <3>1 DEF Watchers
  <2>2. registered' = registered \cup {s}
    OBVIOUS
  <2> QED BY <2>1, <2>2 DEF SigInv, HandlerInstalled
<1> QED BY <1>1, <1>3, <1>4, <1>5, <1>6 DEF SigInv

\* Leaving the tree, for a stop and for a close.
LEMMA UnwatchStep ==
    ASSUME SigInv, NEW h \in Signals, Unwatch(h), UNCHANGED handler
    PROVE  /\ signum' \in [Signals -> Signums \cup {0}] /\ registered' \subseteq Signums
           /\ \A g \in Signals : signum'[g] = IF g = h THEN 0 ELSE signum[g]
           /\ h \notin handler.rest \cup handler.wrote
           /\ HandlerInstalled'
<1> USE DEF treeVars
<1>1. signum' \in [Signals -> Signums \cup {0}] /\ registered' \subseteq Signums
      /\ \A g \in Signals : signum'[g] = IF g = h THEN 0 ELSE signum[g]
  BY DEF Unwatch, SigInv, SigTypes
<1>2. h \notin handler.rest \cup handler.wrote
  BY DEF Unwatch, SigInv, HandlerHolds, Unlocked
<1>3. CASE signum[h] = 0
  <2>1. UNCHANGED <<signum, registered>>
    BY <1>3 DEF Unwatch
  <2>2. HandlerInstalled'
    BY <2>1 DEF SigInv, HandlerInstalled, Watchers
  <2> QED BY <2>2, <1>1, <1>2
<1>4. CASE signum[h] # 0
  <2>1. signum[h] \in Signums
    BY <1>4 DEF SigInv, SigTypes
  <2>2. ASSUME NEW r \in Signums
        PROVE  Watchers(r)' = Watchers(r) \ {h} /\ (h \in Watchers(r) <=> r = signum[h])
    <3>1. r # 0
      BY SignalAssumption
    <3> QED BY <1>1, <3>1 DEF Watchers
  <2>3. registered' = IF Watchers(signum[h]) = {h} THEN registered \ {signum[h]} ELSE registered
    BY <1>4 DEF Unwatch
  <2>4. registered = {s \in Signums : Watchers(s) # {}}
    BY DEF SigInv, HandlerInstalled
  <2>5. HandlerInstalled'
    BY <2>1, <2>2, <2>3, <2>4 DEF HandlerInstalled
  <2> QED BY <2>5, <1>1, <1>2
<1> QED BY <1>3, <1>4

LEMMA SignalStopStep ==
    ASSUME SigInv, NEW h \in Signals, uv__signal_stop(h)
    PROVE  SigInv'
<1>0. /\ Unwatch(h) /\ life[h] = "open"
      /\ UNCHANGED <<dispatched, life, buf, calling, caught, handler, raised, pipe>>
  BY DEF uv__signal_stop, eventVars, handlerVars
<1>1. /\ signum' \in [Signals -> Signums \cup {0}] /\ registered' \subseteq Signums
      /\ \A g \in Signals : signum'[g] = IF g = h THEN 0 ELSE signum[g]
      /\ h \notin handler.rest \cup handler.wrote
      /\ HandlerInstalled'
  <2>1. Unwatch(h) /\ UNCHANGED handler
    BY <1>0
  <2> QED BY <2>1, UnwatchStep
<1>2. SigTypes'
  BY <1>0, <1>1 DEF SigInv, SigTypes
<1>3. HandlerHolds'
  BY <1>0, <1>1 DEF SigInv, SigTypes, HandlerHolds, Unlocked
<1>4. OwnPipe' /\ SignalsCounted'
  BY <1>0, SameMessages DEF SigInv, SignalsCounted
<1>5. CloseWaitsForMessages'
  BY <1>0, <1>1, SameMessages DEF SigInv, CloseWaitsForMessages
<1> QED BY <1>1, <1>2, <1>3, <1>4, <1>5 DEF SigInv

LEMMA SignalCloseStep ==
    ASSUME SigInv, NEW h \in Signals, uv__signal_close(h)
    PROVE  SigInv'
<1>0. /\ Unwatch(h) /\ life[h] = "open"
      /\ UNCHANGED <<dispatched, buf, calling, caught, handler, raised, pipe>>
      /\ life' = [life EXCEPT ![h] = IF caught[h] = dispatched[h] THEN "pending" ELSE "closing"]
  BY DEF uv__signal_close, handlerVars
<1>1. /\ signum' \in [Signals -> Signums \cup {0}] /\ registered' \subseteq Signums
      /\ \A g \in Signals : signum'[g] = IF g = h THEN 0 ELSE signum[g]
      /\ h \notin handler.rest \cup handler.wrote
      /\ HandlerInstalled'
  <2>1. Unwatch(h) /\ UNCHANGED handler
    BY <1>0
  <2> QED BY <2>1, UnwatchStep
<1>2. SigTypes'
  BY <1>0, <1>1 DEF SigInv, SigTypes
<1>3. HandlerHolds'
  BY <1>0, <1>1 DEF SigInv, SigTypes, HandlerHolds, Unlocked
<1>4. OwnPipe' /\ SignalsCounted'
  BY <1>0, SameMessages DEF SigInv, SignalsCounted
<1>5. CloseWaitsForMessages'
  <2>1. caught[h] = dispatched[h] <=> Messages(h) = 0
    <3>1. caught[h] + 0 = dispatched[h] + Messages(h)
      BY <1>1 DEF SigInv, SignalsCounted
    <3>2. caught[h] \in Nat /\ dispatched[h] \in Nat /\ Messages(h) \in Nat
      BY MessagesType DEF SigInv, SigTypes
    <3> QED BY <3>1, <3>2
  <2>2. Messages(h) \in Nat
    BY MessagesType DEF SigInv
  <2>3. \A g \in Signals : life'[g] = IF g = h THEN IF Messages(h) = 0 THEN "pending" ELSE "closing"
                                               ELSE life[g]
    BY <1>0, <2>1 DEF SigInv, SigTypes
  <2>4. \A g \in Signals : Messages(g)' = Messages(g)
    BY <1>0, SameMessages
  <2> QED BY <2>2, <2>3, <2>4, <1>0, <1>1 DEF SigInv, CloseWaitsForMessages
<1> QED BY <1>1, <1>2, <1>3, <1>4, <1>5 DEF SigInv

LEMMA SignalFinishStep ==
    ASSUME SigInv, NEW h \in Signals, FinishSignal(h)
    PROVE  SigInv'
<1>0. /\ life[h] = "pending" /\ life' = [life EXCEPT ![h] = "freed"]
      /\ UNCHANGED <<dispatched, buf, calling, signum, registered, caught, handler, raised, pipe>>
  BY DEF FinishSignal, treeVars, handlerVars
<1>1. SigTypes'
  BY <1>0 DEF SigInv, SigTypes
<1>2. HandlerHolds' /\ HandlerInstalled'
  BY <1>0 DEF SigInv, HandlerHolds, Unlocked, HandlerInstalled, Watchers
<1>3. OwnPipe' /\ SignalsCounted'
  BY <1>0, SameMessages DEF SigInv, SignalsCounted
<1>4. CloseWaitsForMessages'
  <2>1. \A g \in Signals : life'[g] = IF g = h THEN "freed" ELSE life[g]
    BY <1>0 DEF SigInv, SigTypes
  <2> QED BY <1>0, <2>1, SameMessages DEF SigInv, CloseWaitsForMessages
<1> QED BY <1>1, <1>2, <1>3, <1>4 DEF SigInv

LEMMA SignalInitStep ==
    ASSUME SigInv, NEW h \in Signals, uv_signal_init(h)
    PROVE  SigInv'
<1>0. /\ life[h] = "freed" /\ life' = [life EXCEPT ![h] = "open"]
      /\ caught' = [caught EXCEPT ![h] = 0] /\ dispatched' = [dispatched EXCEPT ![h] = 0]
      /\ UNCHANGED <<signum, registered, buf, calling, handler, raised, pipe>>
  BY DEF uv_signal_init, treeVars
<1>1. SigTypes'
  BY <1>0 DEF SigInv, SigTypes
<1>2. HandlerHolds' /\ HandlerInstalled'
  BY <1>0 DEF SigInv, HandlerHolds, Unlocked, HandlerInstalled, Watchers
<1>3. Messages(h) = 0 /\ h \notin handler.wrote
  BY <1>0 DEF SigInv, CloseWaitsForMessages
<1>4. OwnPipe' /\ \A g \in Signals : Messages(g)' = Messages(g)
  BY <1>0, SameMessages DEF SigInv
<1>5. \A g \in Signals : /\ caught'[g] = IF g = h THEN 0 ELSE caught[g]
                         /\ dispatched'[g] = IF g = h THEN 0 ELSE dispatched[g]
                         /\ life'[g] = IF g = h THEN "open" ELSE life[g]
  BY <1>0 DEF SigInv, SigTypes
<1>6. SignalsCounted'
  BY <1>0, <1>3, <1>4, <1>5 DEF SigInv, SignalsCounted
<1>7. CloseWaitsForMessages'
  BY <1>0, <1>4, <1>5 DEF SigInv, CloseWaitsForMessages
<1> QED BY <1>1, <1>2, <1>4, <1>6, <1>7 DEF SigInv

----------------------------------------------------------------------------
(* uv__signal_event.                                                       *)

LEMMA ReadPipeStep ==
    ASSUME SigInv, NEW l \in Loops, ReadPipe(l)
    PROVE  SigInv'
<1> DEFINE q == pipe[l]
           n == IF Len(q) < BufSize THEN Len(q) ELSE BufSize
           a == SubSeq(q, 1, n)
           b == SubSeq(q, n + 1, Len(q))
<1>0. /\ buf[l] = <<>> /\ q # <<>>
      /\ buf' = [buf EXCEPT ![l] = a] /\ pipe' = [pipe EXCEPT ![l] = b]
      /\ UNCHANGED <<signum, registered, dispatched, life, calling, caught, handler, raised>>
  BY DEF ReadPipe, treeVars, handlerVars
<1>1. q \in Seq(Signals \X Signums)
  BY DEF SigInv, SigTypes
<1> HIDE DEF q
<1>2. n \in 0..Len(q)
  BY <1>1, LenProperties, SignalAssumption
<1> HIDE DEF n
<1>3. a \in Seq(Signals \X Signums) /\ b \in Seq(Signals \X Signums)
  BY <1>1, <1>2, MessagesSplit
<1>4. \A h : MessagesIn(q, h) = MessagesIn(a, h) + MessagesIn(b, h)
  BY <1>1, <1>2, MessagesSplit
<1>5. /\ \A i \in 1..Len(a) : \E j \in 1..Len(q) : a[i] = q[j]
      /\ \A i \in 1..Len(b) : \E j \in 1..Len(q) : b[i] = q[j]
  BY <1>1, <1>2, PartOfSeq
<1> HIDE DEF a, b
<1>6. /\ buf' \in [Loops -> Seq(Signals \X Signums)]
      /\ pipe' \in [Loops -> Seq(Signals \X Signums)]
      /\ \A k \in Loops : /\ buf'[k] = IF k = l THEN a ELSE buf[k]
                          /\ pipe'[k] = IF k = l THEN b ELSE pipe[k]
  BY <1>0, <1>3 DEF SigInv, SigTypes
<1>7. SigTypes'
  BY <1>0, <1>6 DEF SigInv, SigTypes
<1>8. HandlerHolds' /\ HandlerInstalled'
  <2>1. l \notin calling /\ calling \subseteq Loops
    BY <1>0 DEF SigInv, SigTypes, HandlerHolds
  <2> QED BY <2>1, <1>0, <1>6 DEF SigInv, HandlerHolds, Unlocked, HandlerInstalled, Watchers
<1>9. OwnPipe'
  <2>1. \A j \in 1..Len(q) : LoopOf[q[j][1]] = l
    BY DEF SigInv, OwnPipe, q
  <2>2. /\ \A i \in 1..Len(a) : LoopOf[a[i][1]] = l
        /\ \A i \in 1..Len(b) : LoopOf[b[i][1]] = l
    BY <2>1, <1>5, SMTT(30)
  <2> QED BY <2>2, <1>6, ZenonT(60) DEF SigInv, OwnPipe
<1>10. ASSUME NEW h \in Signals PROVE Messages(h)' = Messages(h)
  <2>1. LoopOf[h] \in Loops
    BY DEF Loops
  <2>2. CASE LoopOf[h] # l
    BY <2>1, <2>2, <1>6 DEF Messages
  <2>3. CASE LoopOf[h] = l
    <3>1. Messages(h) = MessagesIn(q, h) + MessagesIn(<<>>, h)
      BY <2>3, <1>0 DEF Messages, q
    <3>2. Messages(h)' = MessagesIn(b, h) + MessagesIn(a, h)
      BY <2>3, <1>6 DEF Messages
    <3>3. MessagesIn(a, h) \in Nat /\ MessagesIn(b, h) \in Nat
      BY <1>3, MessagesFinite
    <3>4. MessagesIn(<<>>, h) = 0
      BY MessagesEmpty
    <3> QED BY <3>1, <3>2, <3>3, <3>4, <1>4
  <2> QED BY <2>2, <2>3
<1>11. SignalsCounted' /\ CloseWaitsForMessages'
  BY <1>0, <1>10 DEF SigInv, SignalsCounted, CloseWaitsForMessages
<1> QED BY <1>7, <1>8, <1>9, <1>11 DEF SigInv

\* What the dispatch of the first message in the buffer of l does.
LEMMA DispatchStep ==
    ASSUME SigInv, NEW l \in Loops, buf[l] # <<>>, Dispatched(l),
           UNCHANGED <<signum, registered, caught, handler, raised, pipe>>,
           calling' = calling \ {l}
    PROVE  SigInv'
<1> DEFINE q == buf[l]
<1> PICK h : h = Head(buf[l])[1]
  OBVIOUS
<1>0. /\ dispatched' = [dispatched EXCEPT ![h] = @ + 1]
      /\ life' = IF life[h] = "closing" /\ caught[h] = dispatched[h] + 1
                 THEN [life EXCEPT ![h] = "pending"] ELSE life
      /\ buf' = [buf EXCEPT ![l] = Tail(q)]
  BY DEF Dispatched
<1>1. q \in Seq(Signals \X Signums) /\ q # <<>>
  BY DEF SigInv, SigTypes
<1>2. \A i \in 1..Len(q) : LoopOf[q[i][1]] = l
  BY DEF SigInv, OwnPipe
<1> HIDE DEF q
<1>3. /\ Head(q) \in Signals \X Signums /\ Head(q) = q[1] /\ Tail(q) \in Seq(Signals \X Signums)
      /\ Len(q) \in Nat \ {0} /\ Len(Tail(q)) = Len(q) - 1
      /\ \A i \in 1..Len(Tail(q)) : Tail(q)[i] = q[i + 1]
  BY <1>1, HeadTailProperties, LenProperties, EmptySeq
<1>4. h \in Signals /\ LoopOf[h] = l
  <2>1. 1 \in 1..Len(q)
    BY <1>3
  <2>2. h = Head(q)[1]
    BY DEF q
  <2> QED BY <2>1, <2>2, <1>2, <1>3
<1>5. \A g : MessagesIn(q, g) = MessagesIn(Tail(q), g) + (IF h = g THEN 1 ELSE 0)
  <2>1. h = Head(q)[1]
    BY DEF q
  <2> QED BY <2>1, <1>1, MessagesTail
<1>6. /\ dispatched' \in [Signals -> Nat] /\ buf' \in [Loops -> Seq(Signals \X Signums)]
      /\ life' \in [Signals -> {"open", "closing", "pending", "freed"}]
      /\ \A g \in Signals : dispatched'[g] = IF g = h THEN dispatched[h] + 1 ELSE dispatched[g]
      /\ \A g \in Signals : life'[g] = IF g = h /\ life[h] = "closing" /\ caught[h] = dispatched[h] + 1
                                       THEN "pending" ELSE life[g]
      /\ \A k \in Loops : buf'[k] = IF k = l THEN Tail(q) ELSE buf[k]
  <2>1. dispatched \in [Signals -> Nat] /\ buf \in [Loops -> Seq(Signals \X Signums)]
        /\ life \in [Signals -> {"open", "closing", "pending", "freed"}]
    BY DEF SigInv, SigTypes
  <2>2. /\ dispatched' \in [Signals -> Nat]
        /\ \A g \in Signals : dispatched'[g] = IF g = h THEN dispatched[h] + 1 ELSE dispatched[g]
    BY <2>1, <1>0, <1>4
  <2>3. /\ buf' \in [Loops -> Seq(Signals \X Signums)]
        /\ \A k \in Loops : buf'[k] = IF k = l THEN Tail(q) ELSE buf[k]
    BY <2>1, <1>0, <1>3
  <2>4. /\ life' \in [Signals -> {"open", "closing", "pending", "freed"}]
        /\ \A g \in Signals :
              life'[g] = IF g = h /\ life[h] = "closing" /\ caught[h] = dispatched[h] + 1
                         THEN "pending" ELSE life[g]
    BY <2>1, <1>0, <1>4
  <2> QED BY <2>2, <2>3, <2>4
<1>7. SigTypes'
  BY <1>6 DEF SigInv, SigTypes
<1>8. HandlerHolds' /\ HandlerInstalled'
  BY <1>6, SMTT(30) DEF SigInv, SigTypes, HandlerHolds, Unlocked, HandlerInstalled, Watchers
<1>9. OwnPipe'
  <2>1. \A i \in 1..Len(Tail(q)) : i + 1 \in 1..Len(q) /\ Tail(q)[i] = q[i + 1]
    BY <1>3
  <2>2. \A i \in 1..Len(Tail(q)) : LoopOf[Tail(q)[i][1]] = l
    BY <2>1, <1>2
  <2> QED BY <2>2, <1>6, ZenonT(60) DEF SigInv, OwnPipe
<1>10. ASSUME NEW g \in Signals
       PROVE  Messages(g) = Messages(g)' + (IF g = h THEN 1 ELSE 0) /\ Messages(g)' \in Nat
  <2>1. LoopOf[g] \in Loops /\ Messages(g) \in Nat /\ MessagesIn(pipe[LoopOf[g]], g) \in Nat
    BY MessagesType DEF SigInv
  <2>2. CASE LoopOf[g] # l
    <3>1. g # h
      BY <2>2, <1>4
    <3> QED BY <2>1, <2>2, <3>1, <1>6 DEF Messages
  <2>3. CASE LoopOf[g] = l
    <3>1. Messages(g) = MessagesIn(pipe[l], g) + MessagesIn(q, g)
      BY <2>3 DEF Messages, q
    <3>2. Messages(g)' = MessagesIn(pipe[l], g) + MessagesIn(Tail(q), g)
      BY <2>3, <1>6 DEF Messages
    <3>3. MessagesIn(Tail(q), g) \in Nat
      BY <1>3, MessagesFinite
    <3> QED BY <3>1, <3>2, <3>3, <2>1, <2>3, <1>5
  <2> QED BY <2>2, <2>3
<1>11. ASSUME NEW g \in Signals
       PROVE  /\ caught[g] \in Nat /\ dispatched[g] \in Nat
              /\ caught[g] + (IF g \in handler.wrote THEN 1 ELSE 0) = dispatched[g] + Messages(g)
  BY DEF SigInv, SigTypes, SignalsCounted
<1>12. SignalsCounted'
  <2> SUFFICES ASSUME NEW g \in Signals
               PROVE  caught[g] + (IF g \in handler.wrote THEN 1 ELSE 0)
                        = dispatched'[g] + Messages(g)'
    BY DEF SignalsCounted
  <2>1. /\ Messages(g) = Messages(g)' + (IF g = h THEN 1 ELSE 0) /\ Messages(g)' \in Nat
        /\ caught[g] \in Nat /\ dispatched[g] \in Nat
        /\ caught[g] + (IF g \in handler.wrote THEN 1 ELSE 0) = dispatched[g] + Messages(g)
    BY <1>10, <1>11
  <2>2. dispatched'[g] = dispatched[g] + (IF g = h THEN 1 ELSE 0)
    BY <1>6, <2>1
  <2> QED BY <2>1, <2>2
<1>13. CloseWaitsForMessages'
  <2>1. life[h] \in {"open", "closing"}
    <3>1. Messages(h) # 0
      BY <1>4, <1>10
    <3> QED BY <3>1, <1>4 DEF SigInv, SigTypes, CloseWaitsForMessages
  <2>2. life[h] = "closing" => h \notin handler.wrote
    BY <1>4 DEF SigInv, CloseWaitsForMessages
  <2>3. life[h] = "closing" => (caught[h] = dispatched[h] + 1 <=> Messages(h)' = 0)
    BY <2>2, <1>4, <1>10, <1>11
  <2>4. ASSUME NEW g \in Signals, g # h PROVE Messages(g)' = Messages(g) /\ life'[g] = life[g]
    BY <2>4, <1>6, <1>10
  <2>5. Messages(h)' \in Nat
    BY <1>4, <1>10
  <2>6. life'[h] = IF life[h] = "closing" /\ Messages(h)' = 0 THEN "pending" ELSE life[h]
    BY <2>3, <1>4, <1>6
  <2>7. ASSUME NEW g \in Signals
        PROVE  /\ life'[g] \in {"pending", "freed"} => Messages(g)' = 0
               /\ life'[g] = "closing" => Messages(g)' > 0
               /\ life'[g] # "open" => life[g] # "open"
    <3>1. CASE g = h
      BY <3>1, <2>1, <2>5, <2>6
    <3>2. CASE g # h
      BY <3>2, <2>4 DEF SigInv, CloseWaitsForMessages
    <3> QED BY <3>1, <3>2
  <2> QED BY <2>7 DEF SigInv, CloseWaitsForMessages
<1> QED BY <1>7, <1>8, <1>9, <1>12, <1>13 DEF SigInv

LEMMA SignalEventStep ==
    ASSUME SigInv, NEW l \in Loops, uv__signal_event(l) \/ SignalCbReturns(l)
    PROVE  SigInv'
<1> USE DEF treeVars, handlerVars
<1>1. CASE SignalCbReturns(l)
  BY <1>1, DispatchStep DEF SignalCbReturns, SigInv, HandlerHolds
<1>2. CASE uv__signal_event(l) /\ calling' = calling \cup {l} /\ UNCHANGED <<dispatched, life, buf>>
  <2>1. /\ UNCHANGED <<signum, registered, caught, handler, raised, pipe, dispatched, life, buf>>
        /\ buf[l] # <<>>
    BY <1>2 DEF uv__signal_event
  <2>2. SigTypes' /\ HandlerHolds' /\ HandlerInstalled'
    BY <1>2, <2>1 DEF SigInv, SigTypes, HandlerHolds, Unlocked, HandlerInstalled, Watchers
  <2>3. OwnPipe' /\ SignalsCounted' /\ CloseWaitsForMessages'
    BY <2>1, SameMessages DEF SigInv, SignalsCounted, CloseWaitsForMessages
  <2> QED BY <2>2, <2>3 DEF SigInv
<1>3. CASE uv__signal_event(l) /\ calling' = calling /\ Dispatched(l)
  <2>1. /\ buf[l] # <<>> /\ calling' = calling \ {l}
        /\ UNCHANGED <<signum, registered, caught, handler, raised, pipe>>
    BY <1>3 DEF uv__signal_event
  <2> QED BY <1>3, <2>1, DispatchStep
<1> QED BY <1>1, <1>2, <1>3 DEF uv__signal_event

\* No step of the handler, of a loop or of the user breaks the accounts of
\* the messages, for any number of handles, loops and signals and for pipes
\* and buffers of any size.
THEOREM SignalInductive == SignalSpec => []SigInv
<1>1. SigInv /\ [SignalNext]_signalVars => SigInv'
  <2> SUFFICES ASSUME SigInv, [SignalNext]_signalVars PROVE SigInv'
    OBVIOUS
  <2>1. CASE UNCHANGED signalVars
    <3>1. UNCHANGED <<signum, caught, dispatched, life, registered, pipe, buf, calling, handler, raised>>
      BY <2>1 DEF signalVars
    <3>2. SigTypes' /\ HandlerHolds' /\ HandlerInstalled'
      BY <3>1 DEF SigInv, SigTypes, HandlerHolds, Unlocked, HandlerInstalled, Watchers
    <3>3. OwnPipe' /\ SignalsCounted' /\ CloseWaitsForMessages'
      BY <3>1, SameMessages DEF SigInv, SignalsCounted, CloseWaitsForMessages
    <3> QED BY <3>2, <3>3 DEF SigInv
  <2>2. ASSUME NEW h \in Signals,
               HandlerWrites(h) \/ HandlerCounts(h) \/ uv__signal_stop(h)
                 \/ uv__signal_close(h) \/ FinishSignal(h) \/ uv_signal_init(h)
        PROVE  SigInv'
    BY <2>2, HandlerWritesStep, HandlerCountsStep, SignalStopStep, SignalCloseStep,
       SignalFinishStep, SignalInitStep
  <2>3. ASSUME NEW s \in Signums, uv__signal_handler(s) \/ \E h \in Signals : uv_signal_start(h, s)
        PROVE  SigInv'
    BY <2>3, HandlerStartStep, SignalStartStep
  <2> QED BY <2>1, <2>2, <2>3, ReadPipeStep, SignalEventStep, HandlerReturnStep DEF SignalNext
<1> QED BY <1>1, SignalBegins, PTL DEF SignalSpec

\* Every message of a signal is counted as caught and as dispatched once, no
\* message outlives its handle, a close that waits is woken up, and the
\* handler of a signal is installed exactly while it is watched.
THEOREM SignalsCorrect == SignalSpec => []SignalsRight
<1>1. SigInv => SignalsRight
  BY DEF SigInv, SignalsRight
<1> QED BY <1>1, SignalInductive, PTL

----------------------------------------------------------------------------
(* Async wakeup: no send is lost, whatever the interleaving.               *)


\* A thread in uv_async_send knows its handle.
SendersHold ==
    \A s \in Senders : spc[s] # "idle" => sh[s] \in Handles

\* The list on the stack is empty unless uv__async_event is running.
ScanHolds ==
    /\ lpc \in {"poll", "event"} => queue = <<>>
    /\ lpc \in {"call", "cb"} => ch \in Handles

\* The inductive invariant.
IInv ==
    /\ TypeOK
    /\ SendersHold
    /\ ScanHolds
    /\ ListedOnce
    /\ WakeupArmed
    /\ NoLostSend

\* What the empty list holds.
LEMMA EmptyFacts == ToSet(<<>>) = {} /\ Distinct(<<>>)
<1>1. ToSet(<<>>) = {}
  BY DEF ToSet
<1>2. Distinct(<<>>)
  BY DEF Distinct
<1> QED BY <1>1, <1>2

\* Nothing is open, listed, pending or unseen at the start.
LEMMA InitIInv == Init => IInv
<1> SUFFICES ASSUME Init PROVE IInv
  OBVIOUS
<1> USE DEF Init
<1>1. TypeOK
  BY AsyncAssumption DEF TypeOK
<1>2. SendersHold /\ ScanHolds
  BY DEF SendersHold, ScanHolds
<1>3. Open = {}
  BY DEF Open
<1>4. ListedOnce
  BY <1>3, EmptyFacts DEF ListedOnce
<1>5. WakeupArmed /\ NoLostSend
  BY <1>3 DEF WakeupArmed, NoLostSend
<1> QED BY <1>1, <1>2, <1>4, <1>5 DEF IInv

\* A new handle is not pending, so nothing has to wake the loop for it.
LEMMA AsyncInitStep ==
    ASSUME IInv, NEW h \in Handles, AsyncInit(h)
    PROVE  IInv'
<1> USE DEF IInv, AsyncInit, UserRuns, senderVars, loopVars
<1>1. Open' = Open \cup {h} /\ h \notin Open
  BY DEF Open, TypeOK
<1>2. /\ async_handles' \in Seq(Handles)
      /\ ToSet(async_handles') = ToSet(async_handles) \cup {h}
      /\ h \notin ToSet(async_handles) => Distinct(async_handles')
  BY AppendFacts DEF TypeOK, ListedOnce
<1>3. TypeOK'
  BY <1>1, <1>2 DEF TypeOK
<1>4. SendersHold' /\ ScanHolds'
  BY DEF SendersHold, ScanHolds
<1>5. ListedOnce'
  BY <1>1, <1>2 DEF ListedOnce
<1>6. WakeupArmed'
  BY <1>1 DEF WakeupArmed, TypeOK
<1>7. NoLostSend'
  BY <1>1 DEF NoLostSend, TypeOK
<1> QED BY <1>3, <1>4, <1>5, <1>6, <1>7

\* A send begins: the flag is set already, or its sender is about to set it.
LEMMA SendReadStep ==
    ASSUME IInv, NEW s \in Senders, NEW h \in Handles, SendRead(s, h)
    PROVE  IInv'
<1> USE DEF IInv, SendRead, listVars, senderVars, loopVars
<1>1. Open' = Open
  BY DEF Open
<1>2. TypeOK'
  BY <1>1 DEF TypeOK
<1>3. SendersHold' /\ ScanHolds'
  BY DEF SendersHold, ScanHolds, TypeOK
<1>4. ListedOnce'
  BY <1>1 DEF ListedOnce
<1>5. WakeupArmed'
  BY <1>1 DEF WakeupArmed, TypeOK
<1>6. NoLostSend'
  BY <1>1 DEF NoLostSend, TypeOK
<1> QED BY <1>2, <1>3, <1>4, <1>5, <1>6

\* Whoever sets the flag goes on to write.
LEMMA SendCasStep ==
    ASSUME IInv, NEW s \in Senders, SendCas(s)
    PROVE  IInv'
<1> USE DEF IInv, SendCas, listVars, loopVars
<1>1. Open' = Open /\ sh[s] \in Handles
  BY DEF Open, SendersHold
<1>2. TypeOK'
  BY <1>1 DEF TypeOK
<1>3. SendersHold' /\ ScanHolds'
  BY <1>1 DEF SendersHold, ScanHolds, TypeOK
<1>4. ListedOnce'
  BY <1>1 DEF ListedOnce
<1>5. WakeupArmed'
  <2> SUFFICES ASSUME NEW h \in Open, pending'[h] PROVE
        \/ fd > 0
        \/ lpc = "event"
        \/ h \in ToSet(queue)
        \/ \E t \in Senders : spc'[t] = "write" /\ sh'[t] = h
    BY <1>1 DEF WakeupArmed
  <2>1. CASE pending[h]
    BY <2>1 DEF WakeupArmed, TypeOK
  <2>2. CASE ~pending[h]
    <3>1. sh[s] = h
      BY <1>1, <2>2 DEF TypeOK
    <3> QED BY <2>2, <3>1 DEF TypeOK
  <2> QED BY <2>1, <2>2
<1>6. NoLostSend'
  <2> SUFFICES ASSUME NEW h \in unseen \ NullCb PROVE
        \/ pending'[h]
        \/ lpc = "call" /\ ch = h
        \/ \E t \in Senders : spc'[t] = "cas" /\ sh'[t] = h
    BY DEF NoLostSend
  <2>1. h \in Handles
    BY DEF TypeOK, Open
  <2>2. CASE sh[s] = h
    BY <1>1, <2>1, <2>2 DEF TypeOK
  <2>3. CASE sh[s] # h
    BY <1>1, <2>1, <2>3 DEF NoLostSend, TypeOK
  <2> QED BY <2>2, <2>3
<1> QED BY <1>2, <1>3, <1>4, <1>5, <1>6

\* After the write the descriptor is readable, even at its limit.
LEMMA SendWriteStep ==
    ASSUME IInv, NEW s \in Senders, SendWrite(s)
    PROVE  IInv'
<1> USE AsyncAssumption DEF IInv, SendWrite, listVars, loopVars
<1>1. Open' = Open
  BY DEF Open
<1>2. fd' \in 0..FdMax /\ fd' > 0
  BY DEF TypeOK
<1>3. TypeOK'
  BY <1>1, <1>2 DEF TypeOK
<1>4. SendersHold' /\ ScanHolds'
  BY DEF SendersHold, ScanHolds, TypeOK
<1>5. ListedOnce'
  BY <1>1 DEF ListedOnce
<1>6. WakeupArmed'
  BY <1>2 DEF WakeupArmed
<1>7. NoLostSend'
  BY DEF NoLostSend, TypeOK
<1> QED BY <1>3, <1>4, <1>5, <1>6, <1>7

\* The descriptor is empty again, but the scan is still to come.
LEMMA AsyncIoStep ==
    ASSUME IInv, AsyncIo
    PROVE  IInv'
<1> USE AsyncAssumption DEF IInv, AsyncIo, listVars, senderVars
<1>1. Open' = Open
  BY DEF Open
<1>2. TypeOK'
  BY <1>1 DEF TypeOK
<1>3. SendersHold' /\ ScanHolds'
  BY DEF SendersHold, ScanHolds
<1>4. ListedOnce'
  BY <1>1 DEF ListedOnce
<1>5. WakeupArmed'
  BY <1>1 DEF WakeupArmed
<1>6. NoLostSend'
  BY DEF NoLostSend
<1> QED BY <1>2, <1>3, <1>4, <1>5, <1>6

\* The scan will visit every open handle: the list on the stack was empty.
LEMMA EventMoveStep ==
    ASSUME IInv, EventMove
    PROVE  IInv'
<1> USE DEF IInv, EventMove, senderVars
<1>1. Open' = Open /\ queue = <<>>
  BY DEF Open, ScanHolds
<1>2. TypeOK'
  BY <1>1 DEF TypeOK
<1>3. SendersHold' /\ ScanHolds'
  BY DEF SendersHold, ScanHolds
<1>4. ListedOnce'
  BY <1>1, EmptyFacts DEF ListedOnce
<1>5. ToSet(queue') = Open
  BY <1>1, EmptyFacts DEF ListedOnce
<1>6. WakeupArmed'
  BY <1>1, <1>5 DEF WakeupArmed
<1>7. NoLostSend'
  BY DEF NoLostSend
<1> QED BY <1>2, <1>3, <1>4, <1>6, <1>7

\* A handle leaves the scan with its flag claimed; if it was set, its callback
\* is next.
LEMMA EventNextStep ==
    ASSUME IInv, EventNext
    PROVE  IInv'
<1> USE DEF IInv, EventNext, senderVars, loopVars
<1> DEFINE h == Head(queue)
<1>1. /\ h \in Handles /\ h \in ToSet(queue)
      /\ queue' \in Seq(Handles) /\ Distinct(queue')
      /\ ToSet(queue) = ToSet(queue') \cup {h} /\ h \notin ToSet(queue')
  BY TailFacts DEF TypeOK, ListedOnce
<1>2. /\ async_handles' \in Seq(Handles)
      /\ ToSet(async_handles') = ToSet(async_handles) \cup {h}
      /\ h \notin ToSet(async_handles) => Distinct(async_handles')
  BY <1>1, AppendFacts DEF TypeOK, ListedOnce
<1>3. Open' = Open /\ h \in Open
  BY <1>1 DEF Open, ListedOnce
<1>4. TypeOK'
  BY <1>1, <1>2, <1>3 DEF TypeOK
<1>5. SendersHold' /\ ScanHolds'
  BY <1>1 DEF SendersHold, ScanHolds
<1>6. ListedOnce'
  BY <1>1, <1>2, <1>3 DEF ListedOnce
<1>7. WakeupArmed'
  BY <1>1, <1>3 DEF WakeupArmed, TypeOK
<1>8. NoLostSend'
  BY <1>1 DEF NoLostSend, TypeOK
<1> QED BY <1>4, <1>5, <1>6, <1>7, <1>8

\* Once the callback has started, the sends before it are seen.
LEMMA CallbackStep ==
    ASSUME IInv, Callback
    PROVE  IInv'
<1> USE DEF IInv, Callback, listVars, senderVars
<1>1. Open' = Open
  BY DEF Open
<1>2. TypeOK'
  BY <1>1 DEF TypeOK
<1>3. SendersHold' /\ ScanHolds'
  BY DEF SendersHold, ScanHolds
<1>4. ListedOnce'
  BY <1>1 DEF ListedOnce
<1>5. WakeupArmed'
  BY <1>1 DEF WakeupArmed
<1>6. NoLostSend'
  BY DEF NoLostSend
<1> QED BY <1>2, <1>3, <1>4, <1>5, <1>6

\* Returning from a callback, and from uv__async_event with its list empty,
\* changes only the place of the loop thread.
LEMMA ReturnStep ==
    ASSUME IInv, CallbackReturn \/ EventReturn
    PROVE  IInv'
<1> USE DEF IInv, CallbackReturn, EventReturn, listVars, senderVars
<1>1. Open' = Open
  BY DEF Open
<1>2. TypeOK'
  BY <1>1 DEF TypeOK
<1>3. SendersHold' /\ ScanHolds'
  BY DEF SendersHold, ScanHolds
<1>4. ListedOnce'
  BY <1>1 DEF ListedOnce
<1>5. WakeupArmed'
  BY <1>1 DEF WakeupArmed
<1>6. NoLostSend'
  BY DEF NoLostSend
<1> QED BY <1>2, <1>3, <1>4, <1>5, <1>6

\* A closed handle leaves whichever list it is in; the others stay.
LEMMA CloseStep ==
    ASSUME IInv, NEW h \in Handles, Close(h)
    PROVE  IInv'
<1> USE DEF IInv, Close, UserRuns, senderVars, loopVars
<1>1. Open' = Open \ {h}
  BY DEF Open, TypeOK
<1>2. /\ queue' \in Seq(Handles) /\ Distinct(queue')
      /\ ToSet(queue') = ToSet(queue) \ {h}
      /\ queue = <<>> => queue' = <<>>
  <2>1. queue' \in Seq(Handles) /\ Distinct(queue') /\ ToSet(queue') = ToSet(queue) \ {h}
    BY UnlinkFacts DEF TypeOK, ListedOnce
  <2>2. queue = <<>> => queue' = <<>>
    BY DEF Unlink
  <2> QED BY <2>1, <2>2
<1>3. /\ async_handles' \in Seq(Handles) /\ Distinct(async_handles')
      /\ ToSet(async_handles') = ToSet(async_handles) \ {h}
  BY UnlinkFacts DEF TypeOK, ListedOnce
<1>4. TypeOK'
  BY <1>1, <1>2, <1>3 DEF TypeOK
<1>5. SendersHold' /\ ScanHolds'
  BY <1>2 DEF SendersHold, ScanHolds
<1>6. ListedOnce'
  BY <1>1, <1>2, <1>3 DEF ListedOnce
<1>7. WakeupArmed'
  BY <1>1, <1>2 DEF WakeupArmed
<1>8. NoLostSend'
  BY DEF NoLostSend
<1> QED BY <1>4, <1>5, <1>6, <1>7, <1>8

\* The end of a close concerns a handle that is in no list.
LEMMA FinishCloseStep ==
    ASSUME IInv, NEW h \in Handles, FinishClose(h)
    PROVE  IInv'
<1> USE DEF IInv, FinishClose, listVars, senderVars, loopVars
<1>1. Open' = Open
  BY DEF Open, TypeOK
<1>2. TypeOK'
  BY <1>1 DEF TypeOK
<1>3. SendersHold' /\ ScanHolds'
  BY DEF SendersHold, ScanHolds
<1>4. ListedOnce'
  BY <1>1 DEF ListedOnce
<1>5. WakeupArmed'
  BY <1>1 DEF WakeupArmed
<1>6. NoLostSend'
  BY DEF NoLostSend
<1> QED BY <1>2, <1>3, <1>4, <1>5, <1>6

\* Every step of every thread preserves the invariant.
LEMMA NextIInv == IInv /\ [Next]_vars => IInv'
<1> SUFFICES ASSUME IInv, [Next]_vars PROVE IInv'
  OBVIOUS
<1>1. CASE UNCHANGED vars
  BY <1>1 DEF vars, listVars, senderVars, loopVars, IInv, TypeOK, SendersHold, ScanHolds,
     ListedOnce, WakeupArmed, NoLostSend, Open
<1>2. CASE LoopStep
  BY <1>2, AsyncIoStep, EventMoveStep, EventNextStep, CallbackStep, ReturnStep DEF LoopStep
<1>3. ASSUME NEW s \in Senders, SenderStep(s) \/ \E h \in Handles : SendRead(s, h) PROVE IInv'
  BY <1>3, SendCasStep, SendWriteStep, SendReadStep DEF SenderStep
<1>4. ASSUME NEW h \in Handles, User(h) PROVE IInv'
  BY <1>4, AsyncInitStep, CloseStep, FinishCloseStep DEF User
<1> QED BY <1>1, <1>2, <1>3, <1>4 DEF Next

\* The invariant holds in every reachable state.
THEOREM Inductive == Spec => []IInv
  BY InitIInv, NextIInv, PTL DEF Spec

\* Every variable keeps its type; only open handles have unseen sends.
THEOREM TypeCorrect == Spec => []TypeOK
<1>1. IInv => TypeOK
  BY DEF IInv
<1> QED BY <1>1, Inductive, PTL

\* Every open handle is linked exactly once, and no closed one is, whatever
\* callbacks open and close during a scan.
THEOREM HandlesListed == Spec => []ListedOnce
<1>1. IInv => ListedOnce
  BY DEF IInv
<1> QED BY <1>1, Inductive, PTL

\* No lost wakeup: a set flag always has something that brings the loop to it.
THEOREM Armed == Spec => []WakeupArmed
<1>1. IInv => WakeupArmed
  BY DEF IInv
<1> QED BY <1>1, Inductive, PTL

\* No lost send: until a callback has started after it, a send is pending.
THEOREM SendsKept == Spec => []NoLostSend
<1>1. IInv => NoLostSend
  BY DEF IInv
<1> QED BY <1>1, Inductive, PTL
=============================================================================
