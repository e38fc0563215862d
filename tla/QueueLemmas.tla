---------------------------- MODULE QueueLemmas ----------------------------
(***************************************************************************)
(* What the queue operations do to the set of linked nodes.                *)
(***************************************************************************)
EXTENDS Queue, SequenceTheorems, WellFoundedInduction, TLAPS

\* QUEUE_INSERT_TAIL adds its node, and only it.
LEMMA AppendFacts ==
    ASSUME NEW S, NEW q \in Seq(S), NEW x \in S
    PROVE  /\ Append(q, x) \in Seq(S)
           /\ Len(Append(q, x)) = Len(q) + 1
           /\ Append(q, x) # <<>>
           /\ ToSet(Append(q, x)) = ToSet(q) \cup {x}
           /\ Distinct(q) /\ x \notin ToSet(q) => Distinct(Append(q, x))
<1>1. /\ Append(q, x) \in Seq(S)
      /\ Len(Append(q, x)) = Len(q) + 1
      /\ \A i \in 1..Len(q) : Append(q, x)[i] = q[i]
      /\ Append(q, x)[Len(q) + 1] = x
  BY AppendProperties
<1>2. Len(q) \in Nat /\ DOMAIN q = 1..Len(q) /\ DOMAIN Append(q, x) = 1..(Len(q) + 1)
  BY <1>1, LenProperties
<1>3. Append(q, x) # <<>>
  <2>1. Len(Append(q, x)) # 0
    BY <1>1, <1>2
  <2> QED BY <2>1, EmptySeq
<1>4. ToSet(Append(q, x)) = ToSet(q) \cup {x}
  BY <1>1, <1>2 DEF ToSet
<1>5. Distinct(q) /\ x \notin ToSet(q) => Distinct(Append(q, x))
  BY <1>1, <1>2 DEF ToSet, Distinct
<1> QED BY <1>1, <1>3, <1>4, <1>5

\* Taking the head of a queue leaves the other nodes.
LEMMA TailFacts ==
    ASSUME NEW S, NEW q \in Seq(S), q # <<>>
    PROVE  /\ Head(q) \in S
           /\ Head(q) \in ToSet(q)
           /\ Tail(q) \in Seq(S)
           /\ Len(Tail(q)) = Len(q) - 1
           /\ ToSet(Tail(q)) \subseteq ToSet(q)
           /\ ToSet(q) = ToSet(Tail(q)) \cup {Head(q)}
           /\ Distinct(q) => Distinct(Tail(q)) /\ Head(q) \notin ToSet(Tail(q))
<1>1. /\ Head(q) \in S
      /\ Tail(q) \in Seq(S)
      /\ Len(Tail(q)) = Len(q) - 1
      /\ \A i \in 1..Len(Tail(q)) : Tail(q)[i] = q[i + 1]
  BY HeadTailProperties
<1>2. /\ Len(q) \in Nat \ {0} /\ DOMAIN q = 1..Len(q)
      /\ DOMAIN Tail(q) = 1..(Len(q) - 1)
      /\ Head(q) = q[1]
  BY <1>1, LenProperties, EmptySeq
<1>3. Head(q) \in ToSet(q)
  BY <1>2 DEF ToSet
<1>4. ToSet(Tail(q)) \subseteq ToSet(q)
  BY <1>1, <1>2 DEF ToSet
<1>5. ToSet(q) \subseteq ToSet(Tail(q)) \cup {Head(q)}
  <2> SUFFICES ASSUME NEW i \in 1..Len(q), i # 1
               PROVE  q[i] \in ToSet(Tail(q))
    BY <1>2 DEF ToSet
  <2>1. i - 1 \in 1..Len(Tail(q)) /\ Tail(q)[i - 1] = q[i]
    BY <1>1, <1>2
  <2> QED BY <2>1, <1>1, <1>2 DEF ToSet
<1>6. Distinct(q) => Distinct(Tail(q)) /\ Head(q) \notin ToSet(Tail(q))
  BY <1>1, <1>2 DEF ToSet, Distinct
<1> QED BY <1>1, <1>3, <1>4, <1>5, <1>6

\* Where QUEUE_REMOVE finds its node, and what is left.
LEMMA UnlinkElements ==
    ASSUME NEW S, NEW q \in Seq(S), NEW x, \E i \in 1..Len(q) : q[i] = x
    PROVE  \E k \in 1..Len(q) :
              /\ q[k] = x
              /\ Unlink(q, x) \in Seq(S) /\ Len(Unlink(q, x)) = Len(q) - 1
              /\ \A i \in 1..(Len(q) - 1) : Unlink(q, x)[i] = IF i < k THEN q[i] ELSE q[i + 1]
<1>0. Len(q) \in Nat /\ DOMAIN q = 1..Len(q) /\ \A i \in 1..Len(q) : q[i] \in S
  BY LenProperties, ElementOfSeq
<1> DEFINE k == CHOOSE i \in 1..Len(q) : q[i] = x
           a == SubSeq(q, 1, k - 1)
           b == SubSeq(q, k + 1, Len(q))
           u == a \o b
<1>1. k \in 1..Len(q) /\ q[k] = x
  OBVIOUS
<1> HIDE DEF k
<1>2. Unlink(q, x) = u
  BY DEF Unlink, RemoveAt, k
<1>3. /\ a \in Seq(S) /\ Len(a) = k - 1
      /\ \A i \in 1..(k - 1) : a[i] = q[i]
  <2>1. k - 1 \in Int /\ \A i \in 1..(k - 1) : q[i] \in S
    BY <1>0, <1>1
  <2>2. /\ a \in Seq(S)
        /\ Len(a) = IF 1 <= k - 1 THEN (k - 1) - 1 + 1 ELSE 0
        /\ \A i \in 1..((k - 1) - 1 + 1) : a[i] = q[1 + i - 1]
    BY <2>1, SubSeqProperties
  <2> HIDE DEF a
  <2> QED BY <2>2, <1>1, <1>0
<1>4. /\ b \in Seq(S) /\ Len(b) = Len(q) - k
      /\ \A i \in 1..(Len(q) - k) : b[i] = q[k + i]
  <2>1. k + 1 \in Int /\ Len(q) \in Int /\ \A i \in (k + 1)..Len(q) : q[i] \in S
    BY <1>0, <1>1
  <2>2. /\ b \in Seq(S)
        /\ Len(b) = IF k + 1 <= Len(q) THEN Len(q) - (k + 1) + 1 ELSE 0
        /\ \A i \in 1..(Len(q) - (k + 1) + 1) : b[i] = q[(k + 1) + i - 1]
    BY <2>1, SubSeqProperties
  <2> HIDE DEF a, b
  <2>3. Len(b) = Len(q) - k
    <3>1. Len(b) = IF k + 1 <= Len(q) THEN Len(q) - (k + 1) + 1 ELSE 0
      BY <2>2
    <3>2. Len(q) \in Nat /\ k \in Nat /\ k <= Len(q)
      BY <1>1, <1>0
    <3>3. CASE k + 1 <= Len(q)
      BY <3>1, <3>2, <3>3
    <3>4. CASE k = Len(q)
      BY <3>1, <3>2, <3>4
    <3> QED BY <3>2, <3>3, <3>4
  <2>4. ASSUME NEW i \in 1..(Len(q) - k)
        PROVE  b[i] = q[k + i]
    <3>1. i \in 1..(Len(q) - (k + 1) + 1) /\ (k + 1) + i - 1 = k + i
      BY <1>1, <1>0
    <3> QED BY <3>1, <2>2
  <2> QED BY <2>2, <2>3, <2>4
<1> HIDE DEF a, b
<1>5. /\ u \in Seq(S) /\ Len(u) = Len(q) - 1
      /\ \A i \in 1..(Len(q) - 1) : u[i] = IF i < k THEN q[i] ELSE q[i + 1]
  <2>1. /\ u \in Seq(S) /\ Len(u) = Len(a) + Len(b)
        /\ \A i \in 1..(Len(a) + Len(b)) :
             u[i] = IF i <= Len(a) THEN a[i] ELSE b[i - Len(a)]
    BY <1>3, <1>4, ConcatProperties
  <2> HIDE DEF u
  <2>2. ASSUME NEW i \in 1..(Len(q) - 1)
        PROVE  u[i] = IF i < k THEN q[i] ELSE q[i + 1]
    <3>1. CASE i < k
      <4>1. i \in 1..(k - 1) /\ i \in 1..(Len(a) + Len(b)) /\ i <= Len(a)
        BY <3>1, <1>3, <1>4, <1>1, <1>0
      <4>2. u[i] = a[i]
        BY <4>1, <2>1
      <4> QED BY <4>1, <4>2, <3>1, <1>3
    <3>2. CASE i >= k
      <4>1. i - (k - 1) \in 1..(Len(q) - k) /\ k + (i - (k - 1)) = i + 1
        BY <3>2, <1>1, <1>0
      <4>2. u[i] = b[i - (k - 1)]
        <5>1. Len(a) = k - 1 /\ ~(i <= Len(a))
          BY <3>2, <1>3, <1>1, <1>0
        <5>2. Len(a) + Len(b) = Len(q) - 1
          BY <1>3, <1>4, <1>1, <1>0
        <5>3. u[i] = b[i - Len(a)]
          BY <5>1, <5>2, <2>1
        <5> QED BY <5>1, <5>3
      <4> QED BY <4>1, <4>2, <3>2, <1>4, <1>1, <1>0
    <3> QED BY <3>1, <3>2, <1>1, <1>0
  <2> QED BY <2>1, <2>2, <1>3, <1>4, <1>1, <1>0
<1> HIDE DEF u
<1> QED BY <1>1, <1>2, <1>5

\* QUEUE_REMOVE drops its node, and only it, from a queue that links it once.
LEMMA UnlinkFacts ==
    ASSUME NEW S, NEW q \in Seq(S), NEW x
    PROVE  /\ Unlink(q, x) \in Seq(S)
           /\ Len(Unlink(q, x)) <= Len(q)
           /\ ToSet(Unlink(q, x)) \subseteq ToSet(q)
           /\ ToSet(q) \subseteq ToSet(Unlink(q, x)) \cup {x}
           /\ Distinct(q) => Distinct(Unlink(q, x)) /\ x \notin ToSet(Unlink(q, x))
<1>0. Len(q) \in Nat /\ DOMAIN q = 1..Len(q) /\ \A i \in 1..Len(q) : q[i] \in S
  BY LenProperties, ElementOfSeq
<1>1. CASE ~\E i \in 1..Len(q) : q[i] = x
  BY <1>0, <1>1 DEF Unlink, ToSet
<1>2. CASE \E i \in 1..Len(q) : q[i] = x
  <2> DEFINE u == Unlink(q, x)
  <2>1. PICK k \in 1..Len(q) :
          /\ q[k] = x
          /\ u \in Seq(S) /\ Len(u) = Len(q) - 1
          /\ \A i \in 1..(Len(q) - 1) : u[i] = IF i < k THEN q[i] ELSE q[i + 1]
    BY <1>2, UnlinkElements, ZenonT(40)
  <2> HIDE DEF u
  <2>2. DOMAIN u = 1..(Len(q) - 1)
    BY <2>1, <1>0, LenProperties
  <2>3. ToSet(u) \subseteq ToSet(q)
    BY <2>2, <2>1, <1>0, SMTT(40) DEF ToSet
  <2>4. ToSet(q) \subseteq ToSet(u) \cup {x}
    <3> SUFFICES ASSUME NEW i \in 1..Len(q), i # k
                 PROVE  q[i] \in ToSet(u)
      BY <1>0, <2>1 DEF ToSet
    <3>1. CASE i < k
      BY <3>1, <2>2, <2>1, <1>0 DEF ToSet
    <3>2. CASE i > k
      <4>1. i - 1 \in 1..(Len(q) - 1) /\ ~(i - 1 < k) /\ (i - 1) + 1 = i
        BY <3>2, <2>1, <1>0
      <4>2. u[i - 1] = q[i]
        BY <4>1, <2>1
      <4> QED BY <4>1, <4>2, <2>2 DEF ToSet
    <3> QED BY <3>1, <3>2, <2>1, <1>0
  <2>5. Distinct(q) => Distinct(u) /\ x \notin ToSet(u)
    BY <2>2, <2>1, <1>0, SMTT(40) DEF ToSet, Distinct
  <2> QED BY <2>1, <2>3, <2>4, <2>5, <1>0 DEF u
<1> QED BY <1>1, <1>2

\* Removing another node leaves the head where it is; removing the head
\* leaves the tail.
LEMMA UnlinkHead ==
    ASSUME NEW S, NEW q \in Seq(S), q # <<>>, Distinct(q), NEW x
    PROVE  /\ x # Head(q) => Unlink(q, x) # <<>> /\ Head(Unlink(q, x)) = Head(q)
           /\ x = Head(q) => Unlink(q, x) = Tail(q)
<1>0. Len(q) \in Nat \ {0} /\ Head(q) = q[1] /\ 1 \in 1..Len(q)
  BY LenProperties, EmptySeq
<1>1. CASE ~\E i \in 1..Len(q) : q[i] = x
  BY <1>0, <1>1 DEF Unlink
<1>2. CASE \E i \in 1..Len(q) : q[i] = x
  <2> DEFINE u == Unlink(q, x)
  <2>1. PICK k \in 1..Len(q) :
          /\ q[k] = x
          /\ u \in Seq(S) /\ Len(u) = Len(q) - 1
          /\ \A i \in 1..(Len(q) - 1) : u[i] = IF i < k THEN q[i] ELSE q[i + 1]
    BY <1>2, UnlinkElements, ZenonT(40)
  <2> HIDE DEF u
  <2>2. CASE x = Head(q)
    <3>1. k = 1
      BY <2>1, <2>2, <1>0 DEF Distinct
    <3>2. /\ Tail(q) \in Seq(S) /\ Len(Tail(q)) = Len(q) - 1
          /\ \A i \in 1..Len(Tail(q)) : Tail(q)[i] = q[i + 1]
      BY HeadTailProperties
    <3>3. \A i \in 1..Len(u) : u[i] = Tail(q)[i]
      BY <3>1, <3>2, <2>1, <1>0
    <3>4. u = Tail(q)
      BY <3>2, <3>3, <2>1, SeqEqual
    <3> QED BY <3>4, <2>2 DEF u
  <2>3. CASE x # Head(q)
    <3>1. k # 1 /\ 1 \in 1..(Len(q) - 1) /\ 1 < k
      BY <2>1, <2>3, <1>0
    <3>2. u[1] = q[1] /\ Len(u) # 0
      BY <3>1, <2>1, <1>0
    <3>3. u # <<>> /\ Head(u) = u[1]
      BY <3>2, <2>1, EmptySeq
    <3> QED BY <3>2, <3>3, <2>3, <1>0 DEF u
  <2> QED BY <2>2, <2>3
<1> QED BY <1>1, <1>2

\* Two queues one after the other.
LEMMA ConcatFacts ==
    ASSUME NEW S, NEW a \in Seq(S), NEW b \in Seq(S)
    PROVE  /\ a \o b \in Seq(S)
           /\ ToSet(a \o b) = ToSet(a) \cup ToSet(b)
           /\ Distinct(a \o b) <=> Distinct(a) /\ Distinct(b) /\ ToSet(a) \cap ToSet(b) = {}
<1> DEFINE u == a \o b
           m == Len(a)
           n == Len(b)
<1>1. /\ u \in Seq(S) /\ Len(u) = m + n
      /\ \A i \in 1..(m + n) : u[i] = IF i <= m THEN a[i] ELSE b[i - m]
  BY ConcatProperties
<1>2. m \in Nat /\ n \in Nat /\ DOMAIN a = 1..m /\ DOMAIN b = 1..n /\ DOMAIN u = 1..(m + n)
  BY <1>1, LenProperties
<1>3. \A i \in 1..m : i \in 1..(m + n) /\ u[i] = a[i]
  <2> HIDE DEF u, m, n
  <2> QED BY <1>1, <1>2
<1>4. \A i \in 1..n : m + i \in 1..(m + n) /\ u[m + i] = b[i]
  <2> HIDE DEF u, m, n
  <2> SUFFICES ASSUME NEW i \in 1..n PROVE m + i \in 1..(m + n) /\ u[m + i] = b[i]
    OBVIOUS
  <2>1. m + i \in 1..(m + n) /\ ~(m + i <= m) /\ (m + i) - m = i
    BY <1>2
  <2> QED BY <2>1, <1>1
<1>5. \A i \in 1..(m + n) : i \in 1..m \/ (i - m \in 1..n /\ m + (i - m) = i)
  <2> HIDE DEF u, m, n
  <2> QED BY <1>2
<1>d. /\ Distinct(u) <=> \A i, j \in 1..(m + n) : u[i] = u[j] => i = j
      /\ Distinct(a) <=> \A i, j \in 1..m : a[i] = a[j] => i = j
      /\ Distinct(b) <=> \A i, j \in 1..n : b[i] = b[j] => i = j
      /\ ToSet(a) = {a[i] : i \in 1..m} /\ ToSet(b) = {b[i] : i \in 1..n}
      /\ ToSet(u) = {u[i] : i \in 1..(m + n)}
  BY <1>1, <1>2 DEF Distinct, ToSet
<1> HIDE DEF u, m, n
<1>6. ToSet(u) = ToSet(a) \cup ToSet(b)
  <2>1. ASSUME NEW i \in 1..(m + n) PROVE u[i] \in ToSet(a) \cup ToSet(b)
    <3>1. CASE i \in 1..m
      BY <3>1, <1>3, <1>d
    <3>2. CASE i - m \in 1..n /\ m + (i - m) = i
      BY <3>2, <1>4, <1>d
    <3> QED BY <3>1, <3>2, <1>5
  <2>2. ToSet(a) \subseteq ToSet(u)
    BY <1>3, <1>d
  <2>3. ToSet(b) \subseteq ToSet(u)
    BY <1>4, <1>d
  <2>4. ToSet(u) \subseteq ToSet(a) \cup ToSet(b)
    BY <2>1, <1>d
  <2> QED BY <2>2, <2>3, <2>4
<1>7. ASSUME Distinct(u) PROVE Distinct(a) /\ Distinct(b) /\ ToSet(a) \cap ToSet(b) = {}
  <2>1. Distinct(a)
    BY <1>7, <1>3, <1>d
  <2>2. Distinct(b)
    <3> SUFFICES ASSUME NEW i \in 1..n, NEW j \in 1..n, b[i] = b[j] PROVE i = j
      BY <1>d
    <3>1. m + i = m + j
      BY <1>7, <1>4, <1>d
    <3> QED BY <3>1, <1>2
  <2>3. ASSUME NEW i \in 1..m, NEW j \in 1..n, a[i] = b[j] PROVE FALSE
    <3>1. i = m + j
      BY <2>3, <1>7, <1>3, <1>4, <1>d
    <3> QED BY <3>1, <1>2
  <2> QED BY <2>1, <2>2, <2>3, <1>d
<1>8. ASSUME Distinct(a), Distinct(b), ToSet(a) \cap ToSet(b) = {} PROVE Distinct(u)
  <2> SUFFICES ASSUME NEW i \in 1..(m + n), NEW j \in 1..(m + n), u[i] = u[j] PROVE i = j
    BY <1>d
  <2>1. CASE i \in 1..m /\ j \in 1..m
    BY <2>1, <1>3, <1>8, <1>d
  <2>2. CASE i \in 1..m /\ j - m \in 1..n /\ m + (j - m) = j
    <3>1. u[i] = a[i] /\ u[j] = b[j - m]
      BY <2>2, <1>3, <1>4
    <3>2. a[i] \in ToSet(a) /\ b[j - m] \in ToSet(b)
      BY <2>2, <1>d
    <3> QED BY <3>1, <3>2, <1>8
  <2>3. CASE j \in 1..m /\ i - m \in 1..n /\ m + (i - m) = i
    <3>1. u[j] = a[j] /\ u[i] = b[i - m]
      BY <2>3, <1>3, <1>4
    <3>2. a[j] \in ToSet(a) /\ b[i - m] \in ToSet(b)
      BY <2>3, <1>d
    <3> QED BY <3>1, <3>2, <1>8
  <2>4. CASE i - m \in 1..n /\ m + (i - m) = i /\ j - m \in 1..n /\ m + (j - m) = j
    <3>1. b[i - m] = b[j - m]
      BY <2>4, <1>4
    <3>2. i - m = j - m
      BY <3>1, <2>4, <1>8, <1>d
    <3> QED BY <3>2, <2>4, <1>2
  <2> QED BY <2>1, <2>2, <2>3, <2>4, <1>5
<1> QED BY <1>1, <1>6, <1>7, <1>8 DEF u

\* The first of two queues gives the head.
LEMMA ConcatHead ==
    ASSUME NEW S, NEW a \in Seq(S), NEW b \in Seq(S), a # <<>>
    PROVE  /\ a \o b # <<>>
           /\ Head(a \o b) = Head(a)
           /\ Tail(a \o b) = Tail(a) \o b
           /\ Len(a \o b) = Len(a) + Len(b)
<1> DEFINE u == a \o b
           t == Tail(a)
           v == t \o b
<1>1. /\ u \in Seq(S) /\ Len(u) = Len(a) + Len(b)
      /\ \A i \in 1..(Len(a) + Len(b)) : u[i] = IF i <= Len(a) THEN a[i] ELSE b[i - Len(a)]
  BY ConcatProperties
<1>2. Len(a) \in Nat \ {0} /\ Len(b) \in Nat
  BY LenProperties, EmptySeq
<1>3. u # <<>> /\ Head(u) = u[1] /\ Head(a) = a[1]
  BY <1>1, <1>2, EmptySeq
<1>4. Head(u) = Head(a)
  BY <1>1, <1>2, <1>3
<1>5. /\ t \in Seq(S) /\ Len(t) = Len(a) - 1
      /\ \A i \in 1..Len(t) : t[i] = a[i + 1]
  BY HeadTailProperties
<1>6. /\ v \in Seq(S) /\ Len(v) = Len(t) + Len(b)
      /\ \A i \in 1..(Len(t) + Len(b)) : v[i] = IF i <= Len(t) THEN t[i] ELSE b[i - Len(t)]
  BY <1>5, ConcatProperties
<1> HIDE DEF t, u, v
<1>7. /\ Tail(u) \in Seq(S) /\ Len(Tail(u)) = Len(u) - 1
      /\ \A i \in 1..Len(Tail(u)) : Tail(u)[i] = u[i + 1]
  BY <1>1, <1>3, HeadTailProperties
<1>8. Len(Tail(u)) = Len(v)
  BY <1>1, <1>2, <1>5, <1>6, <1>7
<1>9. ASSUME NEW i \in 1..Len(v) PROVE Tail(u)[i] = v[i]
  <2>1. /\ i \in 1..Len(Tail(u)) /\ i + 1 \in 1..(Len(a) + Len(b)) /\ i \in 1..(Len(t) + Len(b))
        /\ i \in Int
    BY <1>1, <1>2, <1>5, <1>6, <1>8
  <2>2. Tail(u)[i] = IF i + 1 <= Len(a) THEN a[i + 1] ELSE b[i + 1 - Len(a)]
    BY <2>1, <1>1, <1>7
  <2>3. v[i] = IF i <= Len(t) THEN t[i] ELSE b[i - Len(t)]
    BY <2>1, <1>6
  <2>4. CASE i <= Len(t)
    <3>1. i \in 1..Len(t) /\ i + 1 <= Len(a)
      BY <2>1, <2>4, <1>2, <1>5
    <3> QED BY <3>1, <2>2, <2>3, <2>4, <1>5
  <2>5. CASE ~(i <= Len(t))
    <3>1. ~(i + 1 <= Len(a)) /\ i + 1 - Len(a) = i - Len(t)
      BY <2>1, <2>5, <1>2, <1>5
    <3> QED BY <3>1, <2>2, <2>3, <2>5
  <2> QED BY <2>4, <2>5
<1>10. Tail(u) = v
  BY <1>6, <1>7, <1>8, <1>9, SeqEqual
<1> QED BY <1>1, <1>3, <1>4, <1>10 DEF t, u, v

\* Moving the first n nodes of one queue to the end of another.
LEMMA MoveFacts ==
    ASSUME NEW S, NEW a \in Seq(S), NEW b \in Seq(S), NEW n \in 0..Len(b)
    PROVE  /\ SubSeq(b, 1, n) \in Seq(S) /\ SubSeq(b, n + 1, Len(b)) \in Seq(S)
           /\ Len(SubSeq(b, 1, n)) = n /\ Len(SubSeq(b, n + 1, Len(b))) = Len(b) - n
           /\ a \o SubSeq(b, 1, n) \in Seq(S)
           /\ (a \o SubSeq(b, 1, n)) \o SubSeq(b, n + 1, Len(b)) = a \o b
<1> DEFINE x == SubSeq(b, 1, n)
           y == SubSeq(b, n + 1, Len(b))
<1>0. Len(b) \in Nat /\ \A i \in 1..Len(b) : b[i] \in S
  BY LenProperties, ElementOfSeq
<1>1. n \in Int /\ n + 1 \in Int /\ Len(b) \in Int /\ 1 \in Int
  BY <1>0
<1>2. x \in Seq(S) /\ Len(x) = n
  <2>1. \A i \in 1..n : b[i] \in S
    BY <1>0, <1>1
  <2>2. SubSeq(b, 1, n) \in Seq(S) /\ Len(SubSeq(b, 1, n)) = IF 1 <= n THEN n - 1 + 1 ELSE 0
    BY <2>1, <1>1, SubSeqProperties
  <2>3. (IF 1 <= n THEN n - 1 + 1 ELSE 0) = n
    BY <1>1, <1>0
  <2> QED BY <2>2, <2>3
<1>3. y \in Seq(S) /\ Len(y) = Len(b) - n
  <2>1. \A i \in (n + 1)..Len(b) : b[i] \in S
    BY <1>0, <1>1
  <2>2. /\ SubSeq(b, n + 1, Len(b)) \in Seq(S)
        /\ Len(SubSeq(b, n + 1, Len(b))) = IF n + 1 <= Len(b) THEN Len(b) - (n + 1) + 1 ELSE 0
    BY <2>1, <1>1, SubSeqProperties
  <2>3. (IF n + 1 <= Len(b) THEN Len(b) - (n + 1) + 1 ELSE 0) = Len(b) - n
    BY <1>1, <1>0
  <2> QED BY <2>2, <2>3
<1>4. x \o y = b
  <2>1. 1 \in 1..(Len(b) + 1) /\ n \in (1 - 1)..Len(b) /\ Len(b) \in n..Len(b)
    BY <1>0
  <2>2. x \o y = SubSeq(b, 1, Len(b))
    BY <2>1, ConcatAdjacentSubSeq
  <2> QED BY <2>2, SubSeqFull
<1> HIDE DEF x, y
<1>5. a \o x \in Seq(S)
  BY <1>2, ConcatProperties
<1>6. (a \o x) \o y = a \o (x \o y)
  <2>1. x \in Seq(S) /\ y \in Seq(S)
    BY <1>2, <1>3
  <2> QED BY ONLY <2>1, a \in Seq(S), ConcatAssociative, SMTT(30)
<1> QED BY <1>2, <1>3, <1>4, <1>5, <1>6 DEF x, y

\* Adding to the second of two queues adds to their concatenation.
LEMMA ConcatAppend ==
    ASSUME NEW S, NEW a \in Seq(S), NEW b \in Seq(S), NEW x \in S
    PROVE  a \o Append(b, x) = Append(a \o b, x)
<1>1. a \o b \in Seq(S) /\ <<x>> \in Seq(S)
  BY ConcatProperties
<1>2. Append(b, x) = b \o <<x>> /\ Append(a \o b, x) = (a \o b) \o <<x>>
  BY <1>1, AppendIsConcat
<1>3. (a \o b) \o <<x>> = a \o (b \o <<x>>)
  BY <1>1, ConcatAssociative
<1> QED BY <1>2, <1>3

\* A set of natural numbers that is not empty has a least element.
LEMMA LeastNatural ==
    ASSUME NEW S, S \subseteq Nat, S # {}
    PROVE  \E x \in S : \A y \in S : x <= y
<1>1. PICK x \in S : \A y \in S : <<y, x>> \notin OpToRel(<, Nat)
  BY NatLessThanWellFounded, WFMin
<1>2. ASSUME NEW y \in S PROVE x <= y
  <2>1. x \in Nat /\ y \in Nat
    OBVIOUS
  <2>2. ~(y < x)
    BY <1>1, <2>1 DEF OpToRel
  <2> QED BY <2>1, <2>2
<1> QED BY <1>2

LEMMA MinFacts ==
    ASSUME NEW S, S \subseteq Nat, S # {}
    PROVE  Min(S) \in S /\ \A y \in S : Min(S) <= y
<1>1. \E x \in S : \A y \in S : x <= y
  BY LeastNatural
<1> QED BY <1>1 DEF Min
=============================================================================
