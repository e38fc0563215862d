----------------------------- MODULE HeapProofs -----------------------------
(***************************************************************************)
(* The timer heap, for any number of nodes and any keys: whatever is       *)
(* inserted and removed, its pointers form a complete tree of exactly the  *)
(* nodes that are in it, in which no node is less than its parent.         *)
(*                                                                         *)
(* The argument names the nodes of the tree by their places: at[1] is the  *)
(* root, at[2 * i] and at[2 * i + 1] are the children of at[i].  What the  *)
(* pointers say of such a tree is `Tree`; an exchange of a node with its   *)
(* parent, a node hung, cut or put in the place of another keep it.        *)
(***************************************************************************)
EXTENDS Heap, QueueLemmas, FiniteSetTheorems

\* What a pointer holds, and the heaps that pointers can make.
Pointers == Nodes \cup {Null}

Heaps ==
    [min : Pointers, nelts : Nat, left : [Nodes -> Pointers],
     right : [Nodes -> Pointers], parent : [Nodes -> Pointers]]

\* The node in place i of the m places of a tree.
NodeAt(at, m, i) == IF i \in 1..m THEN at[i] ELSE Null

\* The pointers of h say that its tree has the nodes at[1] to at[m] in the
\* places 1 to m, each once.
Tree(h, at, m) ==
    /\ h \in Heaps /\ m \in Nat /\ at \in [1..m -> Nodes]
    /\ \A i, j \in 1..m : at[i] = at[j] => i = j
    /\ h.min = NodeAt(at, m, 1)
    /\ \A i \in 1..m : /\ h.left[at[i]] = NodeAt(at, m, 2 * i)
                       /\ h.right[at[i]] = NodeAt(at, m, 2 * i + 1)
                       /\ h.parent[at[i]] = NodeAt(at, m, i \div 2)

\* No node is less than its parent, but perhaps those in the places E.
Ordered(k, at, m, E) ==
    \A i \in 2..m : i \notin E => k[at[i \div 2]] <= k[at[i]]

\* Nothing below place x is less than what is above it.
Spans(k, at, m, x) ==
    \A i \in 2..m : i \div 2 = x /\ x # 1 => k[at[x \div 2]] <= k[at[i]]

\* The children of place x.
Below(m, x) == {i \in 2..m : i \div 2 = x}

\* The node that walks is in place x: on its way up only it can be too small
\* for its place, on its way down its children can be too.
Rises(k, at, m, x) == Ordered(k, at, m, {x}) /\ Spans(k, at, m, x)
Sinks(k, at, m, x) == Ordered(k, at, m, {x} \cup Below(m, x)) /\ Spans(k, at, m, x)

\* What the two walks keep: the nodes of the tree.
Holds(at, m) == {at[i] : i \in 1..m}

\* The inductive invariant of the heap.
HeapInv ==
    /\ heap \in Heaps /\ key \in [Nodes -> Keys \cup {Out}]
    /\ \E at : /\ Tree(heap, at, heap.nelts)
               /\ Holds(at, heap.nelts) = Members
               /\ Ordered(key, at, heap.nelts, {})

\* A place below the root has a parent above it.
LEMMA HalfFacts ==
    ASSUME NEW i \in Nat, i >= 2
    PROVE  /\ i \div 2 \in Nat /\ i \div 2 >= 1 /\ i \div 2 < i
           /\ i = 2 * (i \div 2) \/ i = 2 * (i \div 2) + 1
  OBVIOUS

\* The parent of a child is the place itself, and the root has none.
LEMMA DoubleFacts ==
    ASSUME NEW i \in Nat
    PROVE  (2 * i) \div 2 = i /\ (2 * i + 1) \div 2 = i /\ 1 \div 2 = 0
  OBVIOUS

\* Places have one parent: the children of a place are the double and the next.
LEMMA HalfIs ==
    ASSUME NEW i \in Nat, NEW j \in Nat
    PROVE  i \div 2 = j <=> i = 2 * j \/ i = 2 * j + 1
  OBVIOUS

\* The places of the tree hold nodes, the others nothing.
LEMMA NodeAtFacts ==
    ASSUME NEW h, NEW at, NEW m, Tree(h, at, m), NEW i \in Nat
    PROVE  /\ NodeAt(at, m, i) \in Pointers
           /\ i \in 1..m <=> NodeAt(at, m, i) # Null
           /\ i \in 1..m => NodeAt(at, m, i) = at[i] /\ at[i] \in Nodes
  BY HeapAssumption DEF Tree, NodeAt, Pointers, Null

\* Different places hold different nodes.
LEMMA NodeAtApart ==
    ASSUME NEW h, NEW at, NEW m, Tree(h, at, m), NEW i \in Nat, NEW j \in 1..m
    PROVE  NodeAt(at, m, i) = at[j] <=> i = j
  BY HeapAssumption DEF Tree, NodeAt, Null

\* SetParent changes one parent pointer, or none.
LEMMA SetParentFacts ==
    ASSUME NEW h \in Heaps, NEW n \in Pointers, NEW p \in Pointers
    PROVE  \E s \in Heaps :
             /\ s = SetParent(h, n, p)
             /\ s.min = h.min /\ s.nelts = h.nelts /\ s.left = h.left /\ s.right = h.right
             /\ \A x \in Nodes : s.parent[x] = IF x = n THEN p ELSE h.parent[x]
<1> SUFFICES ASSUME NEW s, s = SetParent(h, n, p)
             PROVE  /\ s \in Heaps
                    /\ s.min = h.min /\ s.nelts = h.nelts /\ s.left = h.left /\ s.right = h.right
                    /\ \A x \in Nodes : s.parent[x] = IF x = n THEN p ELSE h.parent[x]
  OBVIOUS
<1>1. CASE n = Null
  BY <1>1, HeapAssumption DEF SetParent, Null
<1>2. CASE n # Null
  <2>1. n \in Nodes /\ s = [h EXCEPT !.parent = [h.parent EXCEPT ![n] = p]]
    BY <1>2 DEF SetParent, Pointers
  <2> QED BY <2>1 DEF Heaps
<1> QED BY <1>1, <1>2

\* Redirect changes the one pointer that leads to a node.
LEMMA RedirectFacts ==
    ASSUME NEW h \in Heaps, NEW p \in Pointers, NEW n \in Nodes, NEW q \in Pointers
    PROVE  \E s \in Heaps :
             /\ s = Redirect(h, p, n, q) /\ s.nelts = h.nelts /\ s.parent = h.parent
             /\ s.min = IF p = Null THEN q ELSE h.min
             /\ \A x \in Nodes :
                  /\ s.left[x] = IF x = p /\ h.left[p] = n THEN q ELSE h.left[x]
                  /\ s.right[x] = IF x = p /\ h.left[p] # n THEN q ELSE h.right[x]
<1> SUFFICES ASSUME NEW s, s = Redirect(h, p, n, q)
             PROVE  /\ s \in Heaps /\ s.nelts = h.nelts /\ s.parent = h.parent
                    /\ s.min = IF p = Null THEN q ELSE h.min
                    /\ \A x \in Nodes :
                         /\ s.left[x] = IF x = p /\ h.left[p] = n THEN q ELSE h.left[x]
                         /\ s.right[x] = IF x = p /\ h.left[p] # n THEN q ELSE h.right[x]
  OBVIOUS
<1>1. CASE p = Null
  <2>1. s = [h EXCEPT !.min = q] /\ p \notin Nodes
    <3>1. p \notin Nodes
      BY <1>1, HeapAssumption DEF Null
    <3>2. s = [h EXCEPT !.min = q]
      BY ONLY <1>1, s = Redirect(h, p, n, q) DEF Redirect
    <3> QED BY <3>1, <3>2
  <2> QED BY <2>1, <1>1 DEF Heaps
<1>2. CASE p # Null /\ h.left[p] = n
  <2>1. p \in Nodes /\ s = [h EXCEPT !.left = [h.left EXCEPT ![p] = q]]
    <3>1. p \in Nodes
      BY <1>2 DEF Pointers
    <3>2. s = [h EXCEPT !.left[p] = q]
      BY ONLY <1>2, s = Redirect(h, p, n, q) DEF Redirect
    <3> QED BY <3>1, <3>2
  <2> QED BY <2>1, <1>2 DEF Heaps
<1>3. CASE p # Null /\ h.left[p] # n
  <2>1. p \in Nodes /\ s = [h EXCEPT !.right = [h.right EXCEPT ![p] = q]]
    <3>1. p \in Nodes
      BY <1>3 DEF Pointers
    <3>2. s = [h EXCEPT !.right[p] = q]
      BY ONLY <1>3, s = Redirect(h, p, n, q) DEF Redirect
    <3> QED BY <3>1, <3>2
  <2> QED BY <2>1, <1>3 DEF Heaps
<1> QED BY <1>1, <1>2, <1>3

\* s is h after the exchange of p, which has parent top, with its child c.
Swapped(s, h, p, c, top, sibling) ==
    /\ s.min = IF top = Null THEN c ELSE h.min
    /\ \A x \in Nodes :
         /\ s.left[x] = IF x = p THEN h.left[c]
                        ELSE IF x = c THEN IF h.left[p] = c THEN p ELSE h.left[p]
                        ELSE IF x = top /\ h.left[top] = p THEN c ELSE h.left[x]
         /\ s.right[x] = IF x = p THEN h.right[c]
                         ELSE IF x = c THEN IF h.left[p] = c THEN h.right[p] ELSE p
                         ELSE IF x = top /\ h.left[top] # p THEN c ELSE h.right[x]
         /\ s.parent[x] = IF x = h.right[c] \/ x = h.left[c] THEN p
                          ELSE IF x = sibling THEN c
                          ELSE IF x = c THEN top
                          ELSE IF x = p THEN c ELSE h.parent[x]

\* What the exchange of a parent p with its child c does to each node.
LEMMA SwapFields ==
    ASSUME NEW h \in Heaps, NEW p \in Nodes, NEW c \in Nodes, p # c
    PROVE  \E s \in Heaps, top \in Pointers, sibling \in Pointers :
             /\ s = heap_node_swap(h, p, c)
             /\ top = h.parent[p]
             /\ sibling = IF h.left[p] = c THEN h.right[p] ELSE h.left[p]
             /\ s.nelts = h.nelts
             /\ top # p /\ top # c => Swapped(s, h, p, c, top, sibling)
<1> SUFFICES ASSUME NEW s, s = heap_node_swap(h, p, c),
                    NEW top, top = h.parent[p],
                    NEW sibling, sibling = IF h.left[p] = c THEN h.right[p] ELSE h.left[p]
             PROVE  /\ s \in Heaps /\ top \in Pointers /\ sibling \in Pointers
                    /\ s.nelts = h.nelts
                    /\ top # p /\ top # c => Swapped(s, h, p, c, top, sibling)
  OBVIOUS
<1>1. PICK l, r, a : l = h.left /\ r = h.right /\ a = h.parent
  OBVIOUS
<1>2. /\ l \in [Nodes -> Pointers] /\ r \in [Nodes -> Pointers] /\ a \in [Nodes -> Pointers]
      /\ p \in Pointers /\ c \in Pointers /\ top \in Pointers /\ sibling \in Pointers
      /\ l[c] \in Pointers /\ r[c] \in Pointers
  BY <1>1 DEF Heaps, Pointers
<1>3. PICK l1, r1, a1 :
        /\ l1 = [[l EXCEPT ![p] = l[c]] EXCEPT ![c] = IF l[p] = c THEN p ELSE l[p]]
        /\ r1 = [[r EXCEPT ![p] = r[c]] EXCEPT ![c] = IF l[p] = c THEN r[p] ELSE p]
        /\ a1 = [[a EXCEPT ![p] = c] EXCEPT ![c] = top]
  OBVIOUS
<1>4. /\ l1 \in [Nodes -> Pointers] /\ r1 \in [Nodes -> Pointers] /\ a1 \in [Nodes -> Pointers]
      /\ \A x \in Nodes :
           /\ l1[x] = IF x = c THEN IF l[p] = c THEN p ELSE l[p] ELSE IF x = p THEN l[c] ELSE l[x]
           /\ r1[x] = IF x = c THEN IF l[p] = c THEN r[p] ELSE p ELSE IF x = p THEN r[c] ELSE r[x]
           /\ a1[x] = IF x = c THEN top ELSE IF x = p THEN c ELSE a[x]
  BY <1>2, <1>3
<1>5. PICK e : e = [h EXCEPT !.left = l1, !.right = r1, !.parent = a1]
  OBVIOUS
<1>6. e.min = h.min /\ e.nelts = h.nelts /\ e.left = l1 /\ e.right = r1 /\ e.parent = a1
  BY <1>4, <1>5 DEF Heaps
<1>14. e \in Heaps
  BY <1>4, <1>5 DEF Heaps
<1>15. p \in Pointers /\ c \in Pointers /\ top \in Pointers /\ sibling \in Pointers
  BY <1>2
<1>7. PICK e1 \in Heaps :
        /\ e1 = SetParent(e, sibling, c)
        /\ e1.min = e.min /\ e1.nelts = e.nelts /\ e1.left = e.left /\ e1.right = e.right
        /\ \A x \in Nodes : e1.parent[x] = IF x = sibling THEN c ELSE e.parent[x]
  BY ONLY <1>14, <1>15, SetParentFacts
<1>8. PICK e2 \in Heaps :
        /\ e2 = SetParent(e1, l[c], p)
        /\ e2.min = e1.min /\ e2.nelts = e1.nelts /\ e2.left = e1.left /\ e2.right = e1.right
        /\ \A x \in Nodes : e2.parent[x] = IF x = l[c] THEN p ELSE e1.parent[x]
  BY <1>2, SetParentFacts
<1>9. PICK e3 \in Heaps :
        /\ e3 = SetParent(e2, r[c], p)
        /\ e3.min = e2.min /\ e3.nelts = e2.nelts /\ e3.left = e2.left /\ e3.right = e2.right
        /\ \A x \in Nodes : e3.parent[x] = IF x = r[c] THEN p ELSE e2.parent[x]
  BY <1>2, SetParentFacts
<1>10. PICK f \in Heaps :
         /\ f = Redirect(e3, top, p, c) /\ f.nelts = e3.nelts /\ f.parent = e3.parent
         /\ f.min = IF top = Null THEN c ELSE e3.min
         /\ \A x \in Nodes :
              /\ f.left[x] = IF x = top /\ e3.left[top] = p THEN c ELSE e3.left[x]
              /\ f.right[x] = IF x = top /\ e3.left[top] # p THEN c ELSE e3.right[x]
  <2>1. e3 \in Heaps /\ top \in Pointers /\ p \in Nodes /\ c \in Pointers
    BY <1>15
  <2> QED BY ONLY <2>1, RedirectFacts
<1>11. s = f
  <2>1. e = [h EXCEPT
            !.left[p] = h.left[c], !.right[p] = h.right[c], !.parent[p] = c,
            !.left[c] = IF h.left[p] = c THEN p ELSE h.left[p],
            !.right[c] = IF h.left[p] = c THEN h.right[p] ELSE p,
            !.parent[c] = top]
    BY <1>1, <1>2, <1>3, <1>5 DEF Heaps
  <2>2. f = Redirect(SetParent(SetParent(SetParent(e, sibling, c), h.left[c], p), h.right[c], p), top, p, c)
    <3>1. e1 = SetParent(e, sibling, c) /\ e2 = SetParent(e1, h.left[c], p)
      BY ONLY <1>1, <1>7, <1>8
    <3>2. e3 = SetParent(e2, h.right[c], p) /\ f = Redirect(e3, top, p, c)
      BY ONLY <1>1, <1>9, <1>10
    <3> QED BY ONLY <3>1, <3>2
  <2> QED BY <2>1, <2>2 DEF heap_node_swap
<1>12. s \in Heaps
  BY <1>11
<1>16. e3.min = h.min /\ e3.nelts = h.nelts /\ e3.left = l1 /\ e3.right = r1
  <2>1. e1.min = h.min /\ e1.nelts = h.nelts /\ e1.left = l1 /\ e1.right = r1
    BY ONLY <1>6, <1>7
  <2>2. e2.min = h.min /\ e2.nelts = h.nelts /\ e2.left = l1 /\ e2.right = r1
    BY ONLY <1>8, <2>1
  <2> QED BY ONLY <1>9, <2>2
<1>17. \A x \in Nodes : e3.parent[x] = IF x = r[c] THEN p ELSE IF x = l[c] THEN p
                                       ELSE IF x = sibling THEN c ELSE a1[x]
  <2> SUFFICES ASSUME NEW x \in Nodes
               PROVE  e3.parent[x] = IF x = r[c] THEN p ELSE IF x = l[c] THEN p
                                     ELSE IF x = sibling THEN c ELSE a1[x]
    OBVIOUS
  <2>1. e1.parent[x] = IF x = sibling THEN c ELSE a1[x]
    BY ONLY <1>6, <1>7, x \in Nodes
  <2>2. e2.parent[x] = IF x = l[c] THEN p ELSE e1.parent[x]
    BY ONLY <1>8, x \in Nodes
  <2>3. e3.parent[x] = IF x = r[c] THEN p ELSE e2.parent[x]
    BY ONLY <1>9, x \in Nodes
  <2> QED BY ONLY <2>1, <2>2, <2>3
<1>18. s.nelts = h.nelts
  BY <1>10, <1>11, <1>16
<1>13. ASSUME top # p, top # c
       PROVE  /\ s.min = IF top = Null THEN c ELSE h.min
              /\ \A x \in Nodes :
                   /\ s.left[x] = IF x = p THEN l[c]
                                  ELSE IF x = c THEN IF l[p] = c THEN p ELSE l[p]
                                  ELSE IF x = top /\ l[top] = p THEN c ELSE l[x]
                   /\ s.right[x] = IF x = p THEN r[c]
                                   ELSE IF x = c THEN IF l[p] = c THEN r[p] ELSE p
                                   ELSE IF x = top /\ l[top] # p THEN c ELSE r[x]
                   /\ s.parent[x] = IF x = r[c] \/ x = l[c] THEN p
                                    ELSE IF x = sibling THEN c
                                    ELSE IF x = c THEN top
                                    ELSE IF x = p THEN c ELSE a[x]
  <2>1. s.min = IF top = Null THEN c ELSE h.min
    BY <1>10, <1>11, <1>16
  <2>2. e3.left = l1 /\ e3.right = r1
    BY <1>16
  <2>3. ASSUME NEW x \in Nodes
        PROVE  /\ s.left[x] = IF x = p THEN l[c]
                              ELSE IF x = c THEN IF l[p] = c THEN p ELSE l[p]
                              ELSE IF x = top /\ l[top] = p THEN c ELSE l[x]
               /\ s.right[x] = IF x = p THEN r[c]
                               ELSE IF x = c THEN IF l[p] = c THEN r[p] ELSE p
                               ELSE IF x = top /\ l[top] # p THEN c ELSE r[x]
    <3>1. x = top => l1[top] = l[top]
      BY <1>4, <1>13
    <3> QED BY <3>1, <2>2, <1>4, <1>10, <1>11, <1>13
  <2>4. ASSUME NEW x \in Nodes
        PROVE  s.parent[x] = IF x = r[c] \/ x = l[c] THEN p
                             ELSE IF x = sibling THEN c
                             ELSE IF x = c THEN top
                             ELSE IF x = p THEN c ELSE a[x]
    <3>1. s.parent[x] = e3.parent[x]
      BY <1>10, <1>11
    <3>2. a1[x] = IF x = c THEN top ELSE IF x = p THEN c ELSE a[x]
      BY <1>4
    <3>3. e3.parent[x] = IF x = r[c] THEN p ELSE IF x = l[c] THEN p
                         ELSE IF x = sibling THEN c ELSE a1[x]
      BY <1>17
    <3> QED BY ONLY <3>1, <3>2, <3>3
  <2> QED BY <2>1, <2>3, <2>4
<1>19. top # p /\ top # c => Swapped(s, h, p, c, top, sibling)
  BY <1>1, <1>13 DEF Swapped
<1> QED BY <1>12, <1>15, <1>18, <1>19

\* g holds what N repetitions of T make of h.
Iterates(g, H, T, h, N) ==
    g \in [0..N -> H] /\ \A t \in 0..N : g[t] = IF t = 0 THEN h ELSE T[g[t - 1]]

\* A step that maps H to H can be repeated N times.
LEMMA IterateExists ==
    ASSUME NEW H, NEW T \in [H -> H], NEW h \in H, NEW N \in Nat
    PROVE  \E g : Iterates(g, H, T, h, N)
<1> DEFINE Good(n) == \E g \in [0..n -> H] : \A t \in 0..n : g[t] = IF t = 0 THEN h ELSE T[g[t - 1]]
           Bad == {n \in Nat : ~Good(n)}
<1>1. Good(0)
  <2> DEFINE g == [t \in 0..0 |-> h]
  <2>1. g \in [0..0 -> H] /\ \A t \in 0..0 : g[t] = IF t = 0 THEN h ELSE T[g[t - 1]]
    OBVIOUS
  <2> QED BY <2>1
<1>2. ASSUME NEW n \in Nat, Good(n)
      PROVE  Good(n + 1)
  <2>1. PICK g \in [0..n -> H] : \A t \in 0..n : g[t] = IF t = 0 THEN h ELSE T[g[t - 1]]
    BY <1>2
  <2> DEFINE f == [t \in 0..(n + 1) |-> IF t = n + 1 THEN T[g[n]] ELSE g[t]]
  <2>2. f \in [0..(n + 1) -> H]
    OBVIOUS
  <2>3. ASSUME NEW t \in 0..(n + 1)
        PROVE  f[t] = IF t = 0 THEN h ELSE T[f[t - 1]]
    BY <2>1
  <2> QED BY <2>2, <2>3
<1>3. Bad = {}
  <2> SUFFICES ASSUME Bad # {} PROVE FALSE
    OBVIOUS
  <2>1. PICK x \in Bad : \A y \in Bad : x <= y
    BY LeastNatural
  <2>2. x # 0
    BY <1>1
  <2> HIDE DEF Good
  <2>7. x \in Nat
    BY <2>1
  <2>8. x - 1 \in Nat /\ ~(x <= x - 1)
    BY ONLY <2>2, <2>7
  <2>3. x - 1 \in Nat /\ x - 1 \notin Bad
    BY ONLY <2>1, <2>8
  <2>4. Good(x - 1)
    BY ONLY <2>3
  <2>5. Good((x - 1) + 1)
    BY <1>2, <2>3, <2>4
  <2>6. (x - 1) + 1 = x
    BY <2>3
  <2> QED BY <2>5, <2>6
<1> QED BY <1>3 DEF Iterates

\* The number of nodes bounds the walks.
LEMMA SizeType == Cardinality(Nodes) \in Nat
  BY HeapAssumption, FS_CardinalityType

\* The loops change heaps into heaps.
LEMMA UpTurnType ==
    ASSUME NEW h \in Heaps, NEW k \in [Nodes -> Int], NEW n \in Nodes
    PROVE  UpTurn(h, k, n) \in Heaps
<1>1. CASE h.parent[n] # Null /\ less_than(k, n, h.parent[n])
  <2>1. h.parent[n] \in Nodes /\ h.parent[n] # n
    BY <1>1 DEF Heaps, Pointers, less_than
  <2>2. heap_node_swap(h, h.parent[n], n) \in Heaps
    BY <2>1, SwapFields
  <2> QED BY <1>1, <2>2 DEF UpTurn
<1>2. CASE ~(h.parent[n] # Null /\ less_than(k, n, h.parent[n]))
  BY <1>2 DEF UpTurn
<1> QED BY <1>1, <1>2

\* The same for the way down.
LEMMA DownTurnType ==
    ASSUME NEW h \in Heaps, NEW k \in [Nodes -> Int], NEW n \in Nodes
    PROVE  DownTurn(h, k, n) \in Heaps
<1>1. smallest(h, k, n) \in Nodes
  BY DEF smallest, Lesser, Heaps, Pointers
<1>2. CASE smallest(h, k, n) # n
  <2>1. heap_node_swap(h, n, smallest(h, k, n)) \in Heaps
    BY <1>1, <1>2, SwapFields
  <2> QED BY <1>2, <2>1 DEF DownTurn
<1> QED BY <1>2 DEF DownTurn

\* The loop of a walk ends: what it leaves is the last of the heaps it makes.
LEMMA WalkUpIs ==
    ASSUME NEW h \in Heaps, NEW k \in [Nodes -> Int], NEW n \in Nodes
    PROVE  \E w : /\ w[0] = h
                  /\ \A t \in 1..Cardinality(Nodes) : w[t] = UpTurn(w[t - 1], k, n)
                  /\ WalkUp(h, k, n) = w[Cardinality(Nodes)]
<1> DEFINE N == Cardinality(Nodes)
           Is(w) == w = [t \in 0..N |-> IF t = 0 THEN h ELSE UpTurn(w[t - 1], k, n)]
           w == CHOOSE w : Is(w)
<1>1. N \in Nat
  BY SizeType
<1>2. PICK T \in [Heaps -> Heaps] : \A x \in Heaps : T[x] = UpTurn(x, k, n)
  <2>1. [x \in Heaps |-> UpTurn(x, k, n)] \in [Heaps -> Heaps]
    BY UpTurnType
  <2> QED BY <2>1
<1>8. PICK g : Iterates(g, Heaps, T, h, N)
  <2> HIDE DEF N, Is, w
  <2> QED BY ONLY <1>1, h \in Heaps, T \in [Heaps -> Heaps], IterateExists
<1>3. g \in [0..N -> Heaps] /\ \A t \in 0..N : g[t] = IF t = 0 THEN h ELSE T[g[t - 1]]
  BY <1>8 DEF Iterates
<1>4. Is(g)
  <2>1. \A t \in 0..N : t # 0 => g[t - 1] \in Heaps
    <3> HIDE DEF N
    <3> SUFFICES ASSUME NEW t \in 0..N, t # 0 PROVE g[t - 1] \in Heaps
      OBVIOUS
    <3>1. t - 1 \in 0..N
      BY <1>1
    <3> QED BY <1>3, <3>1
  <2> QED BY <1>2, <1>3, <2>1
<1>5. Is(w)
  BY <1>4
<1>6. WalkUp(h, k, n) = w[N]
  BY DEF WalkUp
<1> HIDE DEF w
<1>7. w[0] = h /\ \A t \in 1..N : w[t] = UpTurn(w[t - 1], k, n)
  BY <1>1, <1>5
<1> QED BY <1>6, <1>7

\* The same for the way down.
LEMMA WalkDownIs ==
    ASSUME NEW h \in Heaps, NEW k \in [Nodes -> Int], NEW n \in Nodes
    PROVE  \E w : /\ w[0] = h
                  /\ \A t \in 1..Cardinality(Nodes) : w[t] = DownTurn(w[t - 1], k, n)
                  /\ WalkDown(h, k, n) = w[Cardinality(Nodes)]
<1> DEFINE N == Cardinality(Nodes)
           Is(w) == w = [t \in 0..N |-> IF t = 0 THEN h ELSE DownTurn(w[t - 1], k, n)]
           w == CHOOSE w : Is(w)
<1>1. N \in Nat
  BY SizeType
<1>2. PICK T \in [Heaps -> Heaps] : \A x \in Heaps : T[x] = DownTurn(x, k, n)
  <2>1. [x \in Heaps |-> DownTurn(x, k, n)] \in [Heaps -> Heaps]
    BY DownTurnType
  <2> QED BY <2>1
<1>8. PICK g : Iterates(g, Heaps, T, h, N)
  <2> HIDE DEF N, Is, w
  <2> QED BY ONLY <1>1, h \in Heaps, T \in [Heaps -> Heaps], IterateExists
<1>3. g \in [0..N -> Heaps] /\ \A t \in 0..N : g[t] = IF t = 0 THEN h ELSE T[g[t - 1]]
  BY <1>8 DEF Iterates
<1>4. Is(g)
  <2>1. \A t \in 0..N : t # 0 => g[t - 1] \in Heaps
    <3> HIDE DEF N
    <3> SUFFICES ASSUME NEW t \in 0..N, t # 0 PROVE g[t - 1] \in Heaps
      OBVIOUS
    <3>1. t - 1 \in 0..N
      BY <1>1
    <3> QED BY <1>3, <3>1
  <2> QED BY <1>2, <1>3, <2>1
<1>5. Is(w)
  BY <1>4
<1>6. WalkDown(h, k, n) = w[N]
  BY DEF WalkDown
<1> HIDE DEF w
<1>7. w[0] = h /\ \A t \in 1..N : w[t] = DownTurn(w[t - 1], k, n)
  BY <1>1, <1>5
<1> QED BY <1>6, <1>7

\* The tree after the exchange of the nodes in places x and y.
Exchanged(at, x, y) == [at EXCEPT ![x] = at[y], ![y] = at[x]]

\* An exchange keeps the nodes of the tree.
LEMMA ExchangedFacts ==
    ASSUME NEW h, NEW at, NEW m, Tree(h, at, m),
           NEW y \in 2..m, NEW x \in 1..m, x # y
    PROVE  \E b \in [1..m -> Nodes] :
             /\ b = Exchanged(at, x, y)
             /\ b[x] = at[y] /\ b[y] = at[x]
             /\ \A i \in 1..m : i # x /\ i # y => b[i] = at[i]
             /\ \A i, j \in 1..m : b[i] = b[j] => i = j
             /\ Holds(b, m) = Holds(at, m)
<1>1. /\ at \in [1..m -> Nodes] /\ m \in Nat
      /\ \A i, j \in 1..m : at[i] = at[j] => i = j
  BY DEF Tree
<1>2. PICK b : b = Exchanged(at, x, y)
  OBVIOUS
<1>3. /\ b \in [1..m -> Nodes] /\ b[x] = at[y] /\ b[y] = at[x]
      /\ \A i \in 1..m : i # x /\ i # y => b[i] = at[i]
  BY <1>1, <1>2 DEF Exchanged
<1>4. ASSUME NEW i \in 1..m, NEW j \in 1..m, b[i] = b[j]
      PROVE  i = j
  BY <1>1, <1>3, <1>4
<1>5. Holds(b, m) = Holds(at, m)
  <2>1. ASSUME NEW i \in 1..m PROVE at[i] \in Holds(b, m) /\ b[i] \in Holds(at, m)
    BY <1>3, <2>1 DEF Holds
  <2> QED BY <2>1 DEF Holds
<1> QED BY <1>2, <1>3, <1>4, <1>5

\* Exchanging a node with its parent gives the tree in which they have
\* changed places.
LEMMA SwapTree ==
    ASSUME NEW h, NEW at, NEW m, Tree(h, at, m), NEW y \in 2..m
    PROVE  \E s \in Heaps, b \in [1..m -> Nodes] :
             /\ s = heap_node_swap(h, at[y \div 2], at[y]) /\ s.nelts = h.nelts
             /\ b = Exchanged(at, y \div 2, y)
             /\ Tree(s, b, m)
<1>1. PICK x : x = y \div 2
  OBVIOUS
<1>2. x \in 1..m /\ x < y /\ (y = 2 * x \/ y = 2 * x + 1) /\ m \in Nat /\ x \in Nat /\ y \in Nat
  BY <1>1, HalfFacts DEF Tree
<1>3. PICK p \in Nodes, c \in Nodes : p = at[x] /\ c = at[y]
  <2>1. at \in [1..m -> Nodes]
    BY DEF Tree
  <2>2. y \in 1..m
    BY <1>2
  <2> QED BY <1>2, <2>1, <2>2
<1>4. PICK b \in [1..m -> Nodes] :
        /\ b = Exchanged(at, x, y)
        /\ b[x] = c /\ b[y] = p
        /\ \A i \in 1..m : i # x /\ i # y => b[i] = at[i]
        /\ \A i, j \in 1..m : b[i] = b[j] => i = j
  <2>1. x # y
    BY <1>2
  <2> QED BY <1>2, <1>3, <2>1, ExchangedFacts
<1>5. /\ h \in Heaps /\ m \in Nat /\ at \in [1..m -> Nodes] /\ p # c
      /\ \A i, j \in 1..m : at[i] = at[j] => i = j
      /\ h.min = NodeAt(at, m, 1)
      /\ \A i \in 1..m : /\ h.left[at[i]] = NodeAt(at, m, 2 * i)
                         /\ h.right[at[i]] = NodeAt(at, m, 2 * i + 1)
                         /\ h.parent[at[i]] = NodeAt(at, m, i \div 2)
  BY <1>2, <1>3 DEF Tree
<1>6. PICK top \in Pointers : top = NodeAt(at, m, x \div 2) /\ top = h.parent[p]
  BY <1>2, <1>3, <1>5 DEF Heaps
<1>7. x \div 2 \in Nat /\ x \div 2 < x /\ (x \div 2 = 0 <=> x = 1)
  BY <1>2
<1>8. /\ top = Null <=> x = 1
      /\ \A i \in 1..m : at[i] = top <=> i = x \div 2
  BY <1>2, <1>6, <1>7, NodeAtFacts, NodeAtApart
<1>9. top # p /\ top # c
  BY <1>2, <1>3, <1>7, <1>8
<1>10. \A i \in Nat : NodeAt(b, m, i) = IF i = x THEN c ELSE IF i = y THEN p ELSE NodeAt(at, m, i)
  BY <1>2, <1>3, <1>4 DEF NodeAt
<1>11. PICK l, r, a : l = h.left /\ r = h.right /\ a = h.parent
  OBVIOUS
<1>12. /\ l[p] = NodeAt(at, m, 2 * x) /\ r[p] = NodeAt(at, m, 2 * x + 1)
       /\ l[c] = NodeAt(at, m, 2 * y) /\ r[c] = NodeAt(at, m, 2 * y + 1)
       /\ y \in 1..m
  <2>1. x \in 1..m /\ y \in 1..m
    BY <1>2
  <2> QED BY <2>1, <1>3, <1>5, <1>11
<1>13. /\ y = 2 * x <=> l[p] = c
       /\ \A i \in 1..m : /\ at[i] = l[p] <=> i = 2 * x
                          /\ at[i] = r[p] <=> i = 2 * x + 1
                          /\ at[i] = l[c] <=> i = 2 * y
                          /\ at[i] = r[c] <=> i = 2 * y + 1
  <2>1. 2 * x \in Nat /\ 2 * x + 1 \in Nat /\ 2 * y \in Nat /\ 2 * y + 1 \in Nat
    BY <1>2
  <2>2. \A v \in Nat : \A i \in 1..m : NodeAt(at, m, v) = at[i] <=> v = i
    BY NodeAtApart
  <2>3. \A i \in 1..m : /\ at[i] = l[p] <=> i = 2 * x
                        /\ at[i] = r[p] <=> i = 2 * x + 1
                        /\ at[i] = l[c] <=> i = 2 * y
                        /\ at[i] = r[c] <=> i = 2 * y + 1
    BY ONLY <1>12, <2>1, <2>2
  <2> QED BY <1>3, <1>12, <2>3
<1>14. PICK z \in Nat : z = IF y = 2 * x THEN 2 * x + 1 ELSE 2 * x
  BY <1>2
<1>15. PICK s \in Heaps, t \in Pointers, sibling \in Pointers :
         /\ s = heap_node_swap(h, p, c)
         /\ t = h.parent[p]
         /\ sibling = IF h.left[p] = c THEN h.right[p] ELSE h.left[p]
         /\ s.nelts = h.nelts
         /\ t # p /\ t # c => Swapped(s, h, p, c, t, sibling)
  BY <1>5, SwapFields
<1>16. /\ z > x /\ z # y /\ z \div 2 = x
       /\ \A i \in 1..m : at[i] = sibling <=> i = z
  <2>1. z > x /\ z # y /\ z \div 2 = x
    BY <1>2, <1>14
  <2> QED BY <2>1, <1>11, <1>13, <1>14, <1>15
<1>17. Swapped(s, h, p, c, top, sibling)
  BY <1>6, <1>9, <1>15
<1>18. /\ s.min = IF top = Null THEN c ELSE h.min
       /\ \A n \in Nodes :
            /\ s.left[n] = IF n = p THEN l[c]
                           ELSE IF n = c THEN IF l[p] = c THEN p ELSE l[p]
                           ELSE IF n = top /\ l[top] = p THEN c ELSE l[n]
            /\ s.right[n] = IF n = p THEN r[c]
                            ELSE IF n = c THEN IF l[p] = c THEN r[p] ELSE p
                            ELSE IF n = top /\ l[top] # p THEN c ELSE r[n]
            /\ s.parent[n] = IF n = r[c] \/ n = l[c] THEN p
                             ELSE IF n = sibling THEN c
                             ELSE IF n = c THEN top
                             ELSE IF n = p THEN c ELSE a[n]
  BY <1>11, <1>17 DEF Swapped
<1>19. s.min = NodeAt(b, m, 1)
  BY <1>2, <1>5, <1>8, <1>10, <1>18
<1>20. \A i \in 1..m : /\ l[at[i]] = NodeAt(at, m, 2 * i)
                       /\ r[at[i]] = NodeAt(at, m, 2 * i + 1)
                       /\ a[at[i]] = NodeAt(at, m, i \div 2)
  BY <1>5, <1>11
<1>21. b[x] = c /\ b[y] = p /\ p # top /\ c # top
  BY <1>4, <1>9
<1>22. /\ s.left[b[x]] = NodeAt(b, m, 2 * x)
       /\ s.right[b[x]] = NodeAt(b, m, 2 * x + 1)
       /\ s.parent[b[x]] = NodeAt(b, m, x \div 2)
  <2>1. s.left[c] = (IF l[p] = c THEN p ELSE l[p]) /\ s.right[c] = IF l[p] = c THEN r[p] ELSE p
    BY <1>5, <1>18
  <2>2. s.parent[c] = top
    <3>1. c # r[c] /\ c # l[c] /\ c # sibling
      BY <1>2, <1>3, <1>12, <1>13, <1>16
    <3> QED BY <3>1, <1>18
  <2>3. NodeAt(b, m, 2 * x) = IF y = 2 * x THEN p ELSE NodeAt(at, m, 2 * x)
    BY <1>2, <1>10
  <2>4. NodeAt(b, m, 2 * x + 1) = IF y = 2 * x THEN NodeAt(at, m, 2 * x + 1) ELSE p
    BY <1>2, <1>10
  <2>5. NodeAt(b, m, x \div 2) = NodeAt(at, m, x \div 2)
    BY <1>2, <1>7, <1>10
  <2>6. y = 2 * x <=> l[p] = c
    BY <1>13
  <2> QED BY ONLY <1>6, <1>12, <1>21, <2>1, <2>2, <2>3, <2>4, <2>5, <2>6
<1>23. /\ s.left[b[y]] = NodeAt(b, m, 2 * y)
       /\ s.right[b[y]] = NodeAt(b, m, 2 * y + 1)
       /\ s.parent[b[y]] = NodeAt(b, m, y \div 2)
  <2>1. s.left[p] = l[c] /\ s.right[p] = r[c]
    BY <1>18
  <2>2. s.parent[p] = c
    <3>2. x # 2 * y /\ x # 2 * y + 1
      BY <1>2
    <3>3. (at[x] = l[c] <=> x = 2 * y) /\ (at[x] = r[c] <=> x = 2 * y + 1)
      BY <1>2, <1>13
    <3>1. p # r[c] /\ p # l[c] /\ p # c
      BY ONLY <3>2, <3>3, <1>3, <1>5
    <3> QED BY <3>1, <1>18
  <2>3. NodeAt(b, m, 2 * y) = NodeAt(at, m, 2 * y) /\ NodeAt(b, m, 2 * y + 1) = NodeAt(at, m, 2 * y + 1)
    BY <1>2, <1>10
  <2>4. NodeAt(b, m, y \div 2) = c
    BY <1>1, <1>2, <1>10
  <2> QED BY ONLY <1>12, <1>21, <2>1, <2>2, <2>3, <2>4
<1>24. ASSUME NEW i \in 1..m, i # x, i # y
       PROVE  /\ s.left[b[i]] = NodeAt(b, m, 2 * i)
              /\ s.right[b[i]] = NodeAt(b, m, 2 * i + 1)
              /\ s.parent[b[i]] = NodeAt(b, m, i \div 2)
  <2>1. PICK n \in Nodes : n = at[i] /\ n = b[i] /\ n # p /\ n # c
    <3>1. at[i] \in Nodes /\ b[i] = at[i]
      BY <1>4, <1>5, <1>24
    <3>2. at[i] # at[x] /\ at[i] # at[y]
      BY <1>2, <1>5, <1>12, <1>24
    <3> QED BY <1>3, <3>1, <3>2
  <2>2. /\ n = top <=> i = x \div 2
        /\ n = r[c] <=> i = 2 * y + 1
        /\ n = l[c] <=> i = 2 * y
        /\ n = sibling <=> i = z
    BY <1>8, <1>13, <1>16, <2>1
  <2>3. i \in Nat /\ i \div 2 \in Nat /\ (i \div 2 = y <=> i = 2 * y \/ i = 2 * y + 1)
        /\ (i \div 2 = x <=> i = z)
    BY <1>2, <1>14, <1>24, HalfIs
  <2>4. s.parent[n] = NodeAt(b, m, i \div 2)
    <3>1. s.parent[n] = IF i \div 2 = y THEN p ELSE IF i \div 2 = x THEN c ELSE NodeAt(at, m, i \div 2)
      <4>1. s.parent[n] = IF n = r[c] \/ n = l[c] THEN p ELSE IF n = sibling THEN c ELSE a[n]
        BY <1>18, <2>1
      <4>2. a[n] = NodeAt(at, m, i \div 2)
        BY <1>20, <2>1
      <4> QED BY ONLY <2>2, <2>3, <4>1, <4>2
    <3>2. NodeAt(b, m, i \div 2) = IF i \div 2 = x THEN c ELSE IF i \div 2 = y THEN p
                                   ELSE NodeAt(at, m, i \div 2)
      BY <1>10, <2>3
    <3> QED BY ONLY <3>1, <3>2, <1>2
  <2>5. /\ NodeAt(b, m, 2 * i) = IF x = 2 * i THEN c ELSE IF y = 2 * i THEN p ELSE NodeAt(at, m, 2 * i)
        /\ NodeAt(b, m, 2 * i + 1) = IF x = 2 * i + 1 THEN c ELSE IF y = 2 * i + 1 THEN p
                                     ELSE NodeAt(at, m, 2 * i + 1)
        /\ y # 2 * i /\ y # 2 * i + 1
    <3>1. 2 * i \in Nat /\ 2 * i + 1 \in Nat
      BY <2>3
    <3>2. y # 2 * i /\ y # 2 * i + 1
      BY <1>2, <1>24, <2>3
    <3> QED BY <1>10, <3>1, <3>2
  <2>6. s.left[n] = (IF n = top /\ l[top] = p THEN c ELSE NodeAt(at, m, 2 * i))
        /\ s.right[n] = (IF n = top /\ l[top] # p THEN c ELSE NodeAt(at, m, 2 * i + 1))
    <3>1. /\ s.left[n] = (IF n = top /\ l[top] = p THEN c ELSE l[n])
          /\ s.right[n] = (IF n = top /\ l[top] # p THEN c ELSE r[n])
      BY <1>18, <2>1
    <3>2. l[n] = NodeAt(at, m, 2 * i) /\ r[n] = NodeAt(at, m, 2 * i + 1)
      BY <1>20, <2>1
    <3> QED BY ONLY <3>1, <3>2
  <2>7. CASE n = top
    <3>1. i = x \div 2 /\ (x = 2 * i \/ x = 2 * i + 1)
      BY <1>2, <2>2, <2>3, <2>7, HalfIs
    <3>2. l[top] = NodeAt(at, m, 2 * i) /\ r[top] = NodeAt(at, m, 2 * i + 1)
      BY <1>20, <2>1, <2>7
    <3>3. l[top] = p <=> x = 2 * i
      BY <1>2, <1>3, <2>3, <3>2, NodeAtApart
    <3>4. 2 * i # 2 * i + 1
      BY <2>3
    <3> QED BY ONLY <2>1, <2>4, <2>5, <2>6, <2>7, <3>1, <3>3, <3>4
  <2>8. CASE n # top
    <3>1. i # x \div 2
      BY <2>2, <2>8
    <3>2. x # 2 * i /\ x # 2 * i + 1
      BY <1>2, <2>3, <3>1, HalfIs
    <3> QED BY ONLY <2>1, <2>4, <2>5, <2>6, <2>8, <3>2
  <2> QED BY <2>7, <2>8
<1>25. Tree(s, b, m)
  <2>1. ASSUME NEW i \in 1..m
        PROVE  /\ s.left[b[i]] = NodeAt(b, m, 2 * i)
               /\ s.right[b[i]] = NodeAt(b, m, 2 * i + 1)
               /\ s.parent[b[i]] = NodeAt(b, m, i \div 2)
    BY <1>22, <1>23, <1>24
  <2> QED BY <1>4, <1>5, <1>15, <1>19, <2>1 DEF Tree
<1> QED BY <1>1, <1>3, <1>4, <1>15, <1>25

\* A turn of the way up moves the node to the place above, or finds that the
\* tree is ordered.
LEMMA UpStep ==
    ASSUME NEW h, NEW at, NEW m, Tree(h, at, m), NEW k \in [Nodes -> Int],
           NEW x \in 1..m, Rises(k, at, m, x)
    PROVE  \E s, b : \E z \in 1..m :
             /\ s = UpTurn(h, k, at[x]) /\ Tree(s, b, m) /\ s.nelts = h.nelts
             /\ Rises(k, b, m, z) /\ b[z] = at[x] /\ Holds(b, m) = Holds(at, m)
             /\ Ordered(k, b, m, {}) \/ (z < x /\ ~Ordered(k, at, m, {}))
<1>1. PICK n \in Nodes : n = at[x]
  BY DEF Tree
<1>2. m \in Nat /\ x \in Nat /\ x >= 1 /\ x <= m
  BY DEF Tree
<1>3. h.parent[n] = NodeAt(at, m, x \div 2)
  BY <1>1 DEF Tree
<1>4. CASE x = 1
  <2>1. h.parent[n] = Null
    BY <1>3, <1>4 DEF NodeAt
  <2>2. UpTurn(h, k, n) = h
    BY <2>1 DEF UpTurn
  <2>3. Ordered(k, at, m, {})
    BY <1>4 DEF Rises, Ordered
  <2> QED BY <1>1, <2>2, <2>3
<1>5. ASSUME x # 1
      PROVE  \E w \in 1..m, p \in Nodes :
               /\ w = x \div 2 /\ w < x /\ x \in 2..m /\ p = at[w] /\ p = h.parent[n] /\ p # Null
  <2>1. x \in 2..m /\ x \div 2 \in 1..m /\ x \div 2 < x
    BY <1>2, <1>5, HalfFacts
  <2>2. at[x \div 2] \in Nodes /\ h.parent[n] = at[x \div 2]
    BY <1>3, <2>1 DEF Tree, NodeAt
  <2> QED BY <2>1, <2>2, HeapAssumption DEF Null
<1>6. CASE x # 1 /\ ~less_than(k, n, h.parent[n])
  <2>1. UpTurn(h, k, n) = h
    BY <1>6 DEF UpTurn
  <2>2. k[at[x \div 2]] <= k[at[x]]
    BY <1>1, <1>5, <1>6 DEF less_than
  <2>3. Ordered(k, at, m, {})
    BY <2>2 DEF Rises, Ordered
  <2> QED BY <1>1, <2>1, <2>3
<1>7. CASE x # 1 /\ less_than(k, n, h.parent[n])
  <2>1. PICK w \in 1..m, p \in Nodes :
               /\ w = x \div 2 /\ w < x /\ x \in 2..m /\ p = at[w] /\ p = h.parent[n] /\ p # Null
    BY <1>5, <1>7
  <2>2. PICK s \in Heaps, b \in [1..m -> Nodes] :
             /\ s = heap_node_swap(h, p, n) /\ s.nelts = h.nelts
             /\ b = Exchanged(at, w, x)
             /\ Tree(s, b, m)
    <3>1. PICK s \in Heaps, b \in [1..m -> Nodes] :
             /\ s = heap_node_swap(h, at[x \div 2], at[x]) /\ s.nelts = h.nelts
             /\ b = Exchanged(at, x \div 2, x)
             /\ Tree(s, b, m)
      <4>1. x \in 2..m
        BY <2>1
      <4> QED BY <4>1, SwapTree
    <3>2. at[x \div 2] = p /\ at[x] = n /\ x \div 2 = w
      BY <1>1, <2>1
    <3> QED BY <3>1, <3>2
  <2>3. s = UpTurn(h, k, n)
    BY <1>7, <2>1, <2>2 DEF UpTurn
  <2>4. /\ b[w] = n /\ b[x] = p /\ \A i \in 1..m : i # w /\ i # x => b[i] = at[i]
        /\ Holds(b, m) = Holds(at, m)
    <3>1. w # x /\ w \in 1..m /\ x \in 2..m
      BY <2>1, <1>2
    <3>2. PICK e \in [1..m -> Nodes] :
             /\ e = Exchanged(at, w, x)
             /\ e[w] = at[x] /\ e[x] = at[w]
             /\ \A i \in 1..m : i # w /\ i # x => e[i] = at[i]
             /\ Holds(e, m) = Holds(at, m)
      BY <3>1, ExchangedFacts
    <3> QED BY <1>1, <2>1, <2>2, <3>2
  <2>5. k[n] < k[p] /\ k[n] \in Int /\ k[p] \in Int
    BY <1>7, <2>1 DEF less_than
  <2>6. \A i \in 1..m : k[at[i]] \in Int
    BY DEF Tree
  <2>7. \A i \in 2..m : i # x => k[at[i \div 2]] <= k[at[i]]
    BY DEF Rises, Ordered
  <2>8. \A i \in 2..m : i \div 2 = x => k[p] <= k[at[i]]
    BY <1>7, <2>1 DEF Rises, Spans
  <2>9. ASSUME NEW i \in 2..m, i # w
        PROVE  k[b[i \div 2]] <= k[b[i]]
    <3>1. i \in Nat /\ i \div 2 \in 1..m /\ i \div 2 < i /\ i \in 1..m
      BY <1>2, HalfFacts
    <3>2. CASE i = x
      BY <2>1, <2>4, <2>5, <3>2
    <3>3. CASE i # x /\ i \div 2 = x
      <4>1. b[i] = at[i] /\ k[p] <= k[at[i]]
        BY <2>4, <2>8, <2>9, <3>1, <3>3
      <4> QED BY <2>4, <3>3, <4>1
    <3>4. CASE i # x /\ i \div 2 = w
      <4>1. b[i] = at[i] /\ k[p] <= k[at[i]] /\ k[at[i]] \in Int
        BY <2>1, <2>4, <2>6, <2>7, <2>9, <3>1, <3>4
      <4> QED BY <2>4, <2>5, <3>4, <4>1
    <3>5. CASE i # x /\ i \div 2 # w /\ i \div 2 # x
      BY <2>4, <2>7, <2>9, <3>1, <3>5
    <3> QED BY <3>2, <3>3, <3>4, <3>5
  <2>10. ASSUME NEW i \in 2..m, i \div 2 = w, w # 1
         PROVE  k[b[w \div 2]] <= k[b[i]]
    <3>1. i \in 1..m /\ i # w /\ w \div 2 \in 1..m /\ w \div 2 < w /\ w \in 2..m
      BY <1>2, <2>1, <2>10, HalfFacts
    <3>2. b[w \div 2] = at[w \div 2] /\ k[at[w \div 2]] <= k[p] /\ k[at[w \div 2]] \in Int
      <4>1. w \div 2 # w /\ w \div 2 # x /\ w # x
        BY <1>2, <2>1, <3>1
      <4>2. k[at[w \div 2]] <= k[at[w]]
        BY <2>7, <3>1, <4>1
      <4> QED BY <2>1, <2>4, <2>6, <3>1, <4>1, <4>2
    <3>3. k[p] <= k[b[i]] /\ k[b[i]] \in Int
      <4>1. CASE i = x
        BY <2>4, <2>5, <4>1
      <4>2. CASE i # x
        <5>1. k[at[i \div 2]] <= k[at[i]] /\ k[at[i]] \in Int /\ b[i] = at[i]
          BY <2>4, <2>6, <2>7, <3>1, <4>2
        <5> QED BY <2>1, <2>10, <5>1
      <4> QED BY <4>1, <4>2
    <3> QED BY ONLY <2>5, <3>2, <3>3
  <2>11. Rises(k, b, m, w)
    BY <2>9, <2>10 DEF Rises, Ordered, Spans
  <2>12. ~Ordered(k, at, m, {})
    <3>1. ~(k[at[x \div 2]] <= k[at[x]])
      BY ONLY <1>1, <2>1, <2>5
    <3> QED BY <2>1, <3>1 DEF Ordered
  <2> QED BY <1>1, <2>1, <2>2, <2>3, <2>4, <2>11, <2>12
<1> QED BY <1>4, <1>6, <1>7

\* The smallest of a node and its children.
LEMMA SmallestFacts ==
    ASSUME NEW h, NEW at, NEW m, Tree(h, at, m), NEW k \in [Nodes -> Int], NEW x \in 1..m
    PROVE  \E n \in Nodes :
             /\ n = smallest(h, k, at[x])
             /\ n = at[x] \/ \E y \in 2..m : y \div 2 = x /\ n = at[y] /\ k[n] < k[at[x]]
             /\ \A i \in 2..m : i \div 2 = x => k[n] <= k[at[i]]
<1>1. PICK p \in Nodes : p = at[x]
  BY DEF Tree
<1>2. x \in Nat /\ m \in Nat /\ x >= 1
  BY DEF Tree
<1>3. PICK l, r : l = h.left[p] /\ r = h.right[p]
  OBVIOUS
<1>4. l = NodeAt(at, m, 2 * x) /\ r = NodeAt(at, m, 2 * x + 1)
  BY <1>1, <1>3 DEF Tree
<1>5. /\ 2 * x \in Nat /\ 2 * x + 1 \in Nat /\ 2 * x >= 2
      /\ (2 * x) \div 2 = x /\ (2 * x + 1) \div 2 = x
      /\ \A i \in 2..m : i \div 2 = x => i = 2 * x \/ i = 2 * x + 1
  BY <1>2, DoubleFacts, HalfIs
<1>6. /\ l \in Pointers /\ r \in Pointers
      /\ 2 * x \in 1..m <=> l # Null
      /\ 2 * x + 1 \in 1..m <=> r # Null
      /\ 2 * x \in 1..m => l = at[2 * x]
      /\ 2 * x + 1 \in 1..m => r = at[2 * x + 1]
  BY <1>4, <1>5, NodeAtFacts
<1>7. ASSUME l # Null
      PROVE  l \in Nodes /\ 2 * x \in 2..m /\ l = at[2 * x]
  BY <1>5, <1>6, <1>7 DEF Pointers
<1>8. ASSUME r # Null
      PROVE  r \in Nodes /\ 2 * x + 1 \in 2..m /\ r = at[2 * x + 1]
  BY <1>5, <1>6, <1>8 DEF Pointers
<1>9. PICK s \in Nodes :
        /\ s = Lesser(k, l, p)
        /\ s = p \/ (l # Null /\ s = l /\ k[s] < k[p])
        /\ k[s] <= k[p] /\ (l # Null => k[s] <= k[l])
  BY <1>7 DEF Lesser, less_than
<1>10. PICK n \in Nodes :
        /\ n = Lesser(k, r, s)
        /\ n = s \/ (r # Null /\ n = r /\ k[n] < k[s])
        /\ k[n] <= k[s] /\ (r # Null => k[n] <= k[r])
  BY <1>8 DEF Lesser, less_than
<1>11. n = smallest(h, k, at[x])
  BY <1>1, <1>3, <1>9, <1>10 DEF smallest
<1>12. n = at[x] \/ \E y \in 2..m : y \div 2 = x /\ n = at[y] /\ k[n] < k[at[x]]
  <2>1. CASE n = p
    BY <1>1, <2>1
  <2>2. CASE n # p
    <3>1. (l # Null /\ n = l) \/ (r # Null /\ n = r)
      BY <1>9, <1>10, <2>2
    <3>2. k[n] < k[p]
      BY <1>9, <1>10, <2>2
    <3> QED BY <1>1, <1>5, <1>7, <1>8, <3>1, <3>2
  <2> QED BY <2>1, <2>2
<1>13. ASSUME NEW i \in 2..m, i \div 2 = x
       PROVE  k[n] <= k[at[i]]
  <2>1. CASE i = 2 * x
    <3>1. l = at[i] /\ l # Null /\ l \in Nodes
      <4>1. 2 * x \in 1..m
        BY <2>1, <1>2
      <4> QED BY <1>6, <1>7, <2>1, <4>1
    <3>2. k[n] <= k[s] /\ k[s] <= k[l] /\ k[n] \in Int /\ k[s] \in Int /\ k[l] \in Int
      BY <1>9, <1>10, <3>1
    <3> QED BY <3>1, <3>2
  <2>2. CASE i = 2 * x + 1
    <3>1. r = at[i] /\ r # Null
      <4>1. 2 * x + 1 \in 1..m
        BY <2>2, <1>2
      <4> QED BY <1>6, <2>2, <4>1
    <3> QED BY <1>10, <3>1
  <2> QED BY <1>5, <1>13, <2>1, <2>2
<1> QED BY <1>11, <1>12, <1>13

\* A turn of the way down moves the node to a place below, or finds that it
\* is not greater than its children.
LEMMA DownStep ==
    ASSUME NEW h, NEW at, NEW m, Tree(h, at, m), NEW k \in [Nodes -> Int],
           NEW x \in 1..m, Sinks(k, at, m, x)
    PROVE  \E s, b : \E z \in 1..m :
             /\ s = DownTurn(h, k, at[x]) /\ Tree(s, b, m) /\ s.nelts = h.nelts
             /\ Sinks(k, b, m, z) /\ b[z] = at[x] /\ Holds(b, m) = Holds(at, m)
             /\ Rises(k, b, m, z) \/ (z > x /\ ~Rises(k, at, m, x))
<1>1. PICK n \in Nodes : n = at[x]
  BY DEF Tree
<1>2. m \in Nat /\ x \in Nat /\ x >= 1 /\ x <= m
  BY DEF Tree
<1>3. PICK c \in Nodes :
        /\ c = smallest(h, k, at[x])
        /\ c = at[x] \/ \E y \in 2..m : y \div 2 = x /\ c = at[y] /\ k[c] < k[at[x]]
        /\ \A i \in 2..m : i \div 2 = x => k[c] <= k[at[i]]
  BY SmallestFacts
<1>4. \A i \in 2..m : i # x /\ i \div 2 # x => k[at[i \div 2]] <= k[at[i]]
  BY DEF Sinks, Ordered, Below
<1>5. CASE c = n
  <2>1. DownTurn(h, k, n) = h
    BY <1>1, <1>3, <1>5 DEF DownTurn
  <2>2. Rises(k, at, m, x)
    BY <1>1, <1>3, <1>4, <1>5 DEF Sinks, Rises, Ordered
  <2> QED BY <1>1, <2>1, <2>2
<1>6. CASE c # n
  <2>1. PICK y \in 2..m : y \div 2 = x /\ c = at[y] /\ k[c] < k[at[x]]
    BY <1>1, <1>3, <1>6
  <2>2. y \in 1..m /\ x # y /\ y > x /\ y \in Nat
    BY <1>2, <2>1, HalfFacts
  <2>3. PICK s \in Heaps, b \in [1..m -> Nodes] :
             /\ s = heap_node_swap(h, n, c) /\ s.nelts = h.nelts
             /\ b = Exchanged(at, x, y)
             /\ Tree(s, b, m)
    <3>1. PICK s \in Heaps, b \in [1..m -> Nodes] :
             /\ s = heap_node_swap(h, at[y \div 2], at[y]) /\ s.nelts = h.nelts
             /\ b = Exchanged(at, y \div 2, y)
             /\ Tree(s, b, m)
      BY SwapTree
    <3> QED BY <1>1, <2>1, <3>1
  <2>4. s = DownTurn(h, k, n)
    BY <1>1, <1>3, <1>6, <2>3 DEF DownTurn
  <2>5. /\ b[x] = c /\ b[y] = n /\ \A i \in 1..m : i # x /\ i # y => b[i] = at[i]
        /\ Holds(b, m) = Holds(at, m)
    <3>2. PICK e \in [1..m -> Nodes] :
             /\ e = Exchanged(at, x, y)
             /\ e[x] = at[y] /\ e[y] = at[x]
             /\ \A i \in 1..m : i # x /\ i # y => e[i] = at[i]
             /\ Holds(e, m) = Holds(at, m)
      BY <2>2, ExchangedFacts
    <3> QED BY <1>1, <2>1, <2>3, <3>2
  <2>6. ASSUME NEW i \in 2..m, i # y, i \div 2 # y
        PROVE  k[b[i \div 2]] <= k[b[i]]
    <3>1. i \in Nat /\ i \div 2 \in 1..m /\ i \div 2 < i /\ i \in 1..m
      BY <1>2, HalfFacts
    <3>2. CASE i = x
      <4>1. i \div 2 # x /\ i \div 2 # y /\ x # 1
        BY <1>2, <2>2, <3>1, <3>2
      <4>2. k[at[x \div 2]] <= k[at[y]]
        BY <2>1, <4>1 DEF Sinks, Spans
      <4> QED BY <2>1, <2>5, <3>1, <3>2, <4>1, <4>2
    <3>3. CASE i # x /\ i \div 2 = x
      <4>1. b[i] = at[i] /\ k[c] <= k[at[i]]
        BY <1>3, <2>5, <2>6, <3>1, <3>3
      <4> QED BY <2>5, <3>3, <4>1
    <3>4. CASE i # x /\ i \div 2 # x
      BY <1>4, <2>5, <2>6, <3>1, <3>4
    <3> QED BY <3>2, <3>3, <3>4
  <2>7. ASSUME NEW i \in 2..m, i \div 2 = y
        PROVE  k[b[y \div 2]] <= k[b[i]]
    <3>1. i \in 1..m /\ i # x /\ i # y /\ i \div 2 # x
      BY <1>2, <2>2, <2>7, HalfFacts
    <3>2. k[at[y]] <= k[at[i]]
      BY <1>4, <2>7, <3>1
    <3> QED BY <2>1, <2>5, <3>1, <3>2
  <2>8. Sinks(k, b, m, y)
    BY <2>6, <2>7 DEF Sinks, Ordered, Spans, Below
  <2>9. ~Rises(k, at, m, x)
    <3>1. k[at[x]] \in Int /\ k[at[y]] \in Int
      BY <1>1, <2>1
    <3>2. ~(k[at[y \div 2]] <= k[at[y]])
      BY <2>1, <3>1
    <3> QED BY <2>2, <3>2 DEF Rises, Ordered
  <2> QED BY <1>1, <2>2, <2>3, <2>4, <2>5, <2>8, <2>9
<1> QED BY <1>5, <1>6

\* Induction over the numbers, for a set of them.
LEMMA AllNaturals ==
    ASSUME NEW S, 0 \in S, \A t \in Nat : t \in S => t + 1 \in S
    PROVE  Nat \subseteq S
<1> SUFFICES ASSUME Nat \ S # {} PROVE FALSE
  OBVIOUS
<1>1. PICK x \in Nat \ S : \A y \in Nat \ S : x <= y
  BY LeastNatural
<1>2. x - 1 \in Nat /\ ~(x <= x - 1) /\ (x - 1) + 1 = x
  BY <1>1
<1> QED BY <1>1, <1>2

\* A tree has no more places than there are nodes.
LEMMA TreeFits ==
    ASSUME NEW h, NEW at, NEW m, Tree(h, at, m)
    PROVE  /\ m <= Cardinality(Nodes)
           /\ \A n \in Nodes : n \notin Holds(at, m) => m + 1 <= Cardinality(Nodes)
           /\ IsFiniteSet(Holds(at, m)) /\ Cardinality(Holds(at, m)) = m
           /\ Holds(at, m) \subseteq Nodes
<1>1. m \in Nat /\ at \in [1..m -> Nodes] /\ \A i, j \in 1..m : at[i] = at[j] => i = j
  BY DEF Tree
<1>2. Holds(at, m) \subseteq Nodes
  BY <1>1 DEF Holds
<1>3. at \in [1..m -> Holds(at, m)]
  BY <1>1 DEF Holds
<1>4. at \in Bijection(1..m, Holds(at, m))
  <2>1. at \in Injection(1..m, Holds(at, m))
    BY <1>1, <1>3 DEF Injection, IsInjective
  <2>2. at \in Surjection(1..m, Holds(at, m))
    BY <1>1, <1>3 DEF Surjection, Holds
  <2> QED BY <2>1, <2>2 DEF Bijection
<1>5. IsFiniteSet(1..m) /\ Cardinality(1..m) = m
  BY <1>1, FS_Interval
<1>6. IsFiniteSet(Holds(at, m)) /\ Cardinality(Holds(at, m)) = m
  BY <1>4, <1>5, FS_Bijection DEF ExistsBijection
<1>7. m <= Cardinality(Nodes)
  BY <1>2, <1>6, HeapAssumption, FS_Subset
<1>8. ASSUME NEW n \in Nodes, n \notin Holds(at, m)
      PROVE  m + 1 <= Cardinality(Nodes)
  <2>1. Cardinality(Holds(at, m) \cup {n}) = m + 1
    BY <1>6, <1>8, FS_AddElement
  <2>2. Holds(at, m) \cup {n} \in SUBSET Nodes
    BY <1>2, <1>8
  <2> QED BY <2>1, <2>2, HeapAssumption, FS_Subset
<1> QED BY <1>2, <1>6, <1>7, <1>8

\* From a node that may be too small for its place, the way up orders the tree.
LEMMA WalkUpTree ==
    ASSUME NEW h, NEW at, NEW m, Tree(h, at, m), NEW k \in [Nodes -> Int],
           NEW x \in 1..m, Rises(k, at, m, x)
    PROVE  \E s, b :
             /\ s = WalkUp(h, k, at[x]) /\ Tree(s, b, m) /\ s.nelts = h.nelts
             /\ Ordered(k, b, m, {}) /\ Holds(b, m) = Holds(at, m)
<1> DEFINE N == Cardinality(Nodes)
<1>1. PICK n \in Nodes : n = at[x]
  BY DEF Tree
<1>2. h \in Heaps /\ m \in Nat
  BY DEF Tree
<1>3. PICK w : /\ w[0] = h
               /\ \A t \in 1..N : w[t] = UpTurn(w[t - 1], k, n)
               /\ WalkUp(h, k, n) = w[N]
  BY <1>2, WalkUpIs
<1> DEFINE P(t, b, z) ==
             /\ Tree(w[t], b, m) /\ w[t].nelts = h.nelts
             /\ Rises(k, b, m, z) /\ b[z] = n /\ Holds(b, m) = Holds(at, m)
             /\ Ordered(k, b, m, {}) \/ z + t <= m
           S == {t \in Nat : t <= N => \E b : \E z \in 1..m : P(t, b, z)}
<1>4. 0 \in S
  <2>1. P(0, at, x)
    BY <1>1, <1>2, <1>3
  <2> QED BY <2>1
<1>5. ASSUME NEW t \in Nat, t \in S, t + 1 <= N
      PROVE  \E b : \E z \in 1..m : P(t + 1, b, z)
  <2>1. N \in Nat /\ t <= N /\ t + 1 \in 1..N /\ (t + 1) - 1 = t
    BY <1>5, SizeType
  <2>2. PICK b : \E z \in 1..m : P(t, b, z)
    BY <1>5, <2>1
  <2>3. PICK z \in 1..m : P(t, b, z)
    BY <2>2
  <2>4. PICK s, d : \E y \in 1..m :
             /\ s = UpTurn(w[t], k, b[z]) /\ Tree(s, d, m) /\ s.nelts = w[t].nelts
             /\ Rises(k, d, m, y) /\ d[y] = b[z] /\ Holds(d, m) = Holds(b, m)
             /\ Ordered(k, d, m, {}) \/ (y < z /\ ~Ordered(k, b, m, {}))
    BY <2>3, UpStep
  <2>5. PICK y \in 1..m :
             /\ s = UpTurn(w[t], k, b[z]) /\ Tree(s, d, m) /\ s.nelts = w[t].nelts
             /\ Rises(k, d, m, y) /\ d[y] = b[z] /\ Holds(d, m) = Holds(b, m)
             /\ Ordered(k, d, m, {}) \/ (y < z /\ ~Ordered(k, b, m, {}))
    BY <2>4
  <2>6. w[t + 1] = s
    BY <1>3, <2>1, <2>3, <2>5
  <2>7. ASSUME y < z, z + t <= m
        PROVE  y + (t + 1) <= m
    BY <1>2, <2>7
  <2>8. P(t + 1, d, y)
    BY <2>3, <2>5, <2>6, <2>7
  <2> QED BY <2>8
<1>6. Nat \subseteq S
  <2>1. ASSUME NEW t \in Nat, t \in S PROVE t + 1 \in S
    BY <1>5, <2>1
  <2> HIDE DEF S
  <2> QED BY <1>4, <2>1, AllNaturals
<1>7. N \in Nat /\ m <= N
  BY SizeType, TreeFits
<1>8. PICK b : \E z \in 1..m : P(N, b, z)
  BY <1>6, <1>7
<1>9. PICK z \in 1..m : P(N, b, z)
  BY <1>8
<1>10. ~(z + N <= m)
  BY <1>2, <1>7
<1> QED BY <1>1, <1>3, <1>9, <1>10

\* Where the way down of the node in place x ends.
GoesDown(h, at, m, k, x) ==
    \E s, b : \E z \in 1..m :
      /\ s = WalkDown(h, k, at[x]) /\ Tree(s, b, m) /\ s.nelts = h.nelts
      /\ Rises(k, b, m, z) /\ b[z] = at[x] /\ Holds(b, m) = Holds(at, m)

\* From a node that may be too great for its place, the way down leaves one
\* that may only be too small for the place it has reached.
LEMMA WalkDownTree ==
    ASSUME NEW h, NEW at, NEW m, Tree(h, at, m), NEW k \in [Nodes -> Int],
           NEW x \in 1..m, Sinks(k, at, m, x)
    PROVE  GoesDown(h, at, m, k, x)
<1> SUFFICES
      \E s, b : \E z \in 1..m :
        /\ s = WalkDown(h, k, at[x]) /\ Tree(s, b, m) /\ s.nelts = h.nelts
        /\ Rises(k, b, m, z) /\ b[z] = at[x] /\ Holds(b, m) = Holds(at, m)
  BY DEF GoesDown
<1> DEFINE N == Cardinality(Nodes)
<1>1. PICK n \in Nodes : n = at[x]
  BY DEF Tree
<1>2. h \in Heaps /\ m \in Nat /\ x >= 1 /\ x \in Nat
  BY DEF Tree
<1>3. PICK w : /\ w[0] = h
               /\ \A t \in 1..N : w[t] = DownTurn(w[t - 1], k, n)
               /\ WalkDown(h, k, n) = w[N]
  BY <1>2, WalkDownIs
<1> DEFINE P(t, b, z) ==
             /\ Tree(w[t], b, m) /\ w[t].nelts = h.nelts
             /\ Sinks(k, b, m, z) /\ b[z] = n /\ Holds(b, m) = Holds(at, m)
             /\ Rises(k, b, m, z) \/ z >= t + 1
           S == {t \in Nat : t <= N => \E b : \E z \in 1..m : P(t, b, z)}
<1>4. 0 \in S
  <2>1. P(0, at, x)
    BY <1>1, <1>2, <1>3
  <2> QED BY <2>1
<1>5. ASSUME NEW t \in Nat, t \in S, t + 1 <= N
      PROVE  \E b : \E z \in 1..m : P(t + 1, b, z)
  <2>1. N \in Nat /\ t <= N /\ t + 1 \in 1..N /\ (t + 1) - 1 = t
    BY <1>5, SizeType
  <2>2. PICK b : \E z \in 1..m : P(t, b, z)
    BY <1>5, <2>1
  <2>3. PICK z \in 1..m : P(t, b, z)
    BY <2>2
  <2>4. PICK s, d : \E y \in 1..m :
             /\ s = DownTurn(w[t], k, b[z]) /\ Tree(s, d, m) /\ s.nelts = w[t].nelts
             /\ Sinks(k, d, m, y) /\ d[y] = b[z] /\ Holds(d, m) = Holds(b, m)
             /\ Rises(k, d, m, y) \/ (y > z /\ ~Rises(k, b, m, z))
    BY <2>3, DownStep
  <2>5. PICK y \in 1..m :
             /\ s = DownTurn(w[t], k, b[z]) /\ Tree(s, d, m) /\ s.nelts = w[t].nelts
             /\ Sinks(k, d, m, y) /\ d[y] = b[z] /\ Holds(d, m) = Holds(b, m)
             /\ Rises(k, d, m, y) \/ (y > z /\ ~Rises(k, b, m, z))
    BY <2>4
  <2>6. w[t + 1] = s
    BY <1>3, <2>1, <2>3, <2>5
  <2>7. ASSUME y > z, z >= t + 1
        PROVE  y >= (t + 1) + 1
    BY <1>2, <2>7
  <2>8. P(t + 1, d, y)
    BY <2>3, <2>5, <2>6, <2>7
  <2> QED BY <2>8
<1>6. Nat \subseteq S
  <2>1. ASSUME NEW t \in Nat, t \in S PROVE t + 1 \in S
    BY <1>5, <2>1
  <2> HIDE DEF S
  <2> QED BY <1>4, <2>1, AllNaturals
<1>7. N \in Nat /\ m <= N
  BY SizeType, TreeFits
<1>8. PICK b : \E z \in 1..m : P(N, b, z)
  BY <1>6, <1>7
<1>9. PICK z \in 1..m : P(N, b, z)
  BY <1>8
<1>10. ~(z >= N + 1)
  BY <1>2, <1>7
<1> QED BY <1>1, <1>3, <1>9, <1>10

\* At finds the node in every place of the tree, and none below the tree.
LEMMA AtFacts ==
    ASSUME NEW h, NEW at, NEW m, Tree(h, at, m)
    PROVE  \A i \in 1..(Cardinality(Nodes) + 1) : At(h)[i] = NodeAt(at, m, i)
<1> DEFINE N == Cardinality(Nodes)
           D == 1..(N + 1)
           Is(g) == g = [i \in D |->
                            IF i = 1 THEN h.min
                            ELSE LET up == g[i \div 2] IN
                                 IF up = Null THEN Null
                                 ELSE IF i % 2 = 1 THEN h.right[up] ELSE h.left[up]]
           node == CHOOSE g : Is(g)
           place == [i \in D |-> NodeAt(at, m, i)]
<1>1. N \in Nat /\ m <= N /\ m \in Nat
  <2>1. m \in Nat
    BY DEF Tree
  <2> QED BY <2>1, SizeType, TreeFits
<1>2. \A i \in D : i # 1 => /\ i \div 2 \in D /\ i \div 2 < i
                            /\ i = IF i % 2 = 1 THEN 2 * (i \div 2) + 1 ELSE 2 * (i \div 2)
  BY <1>1
<1>3. ASSUME NEW i \in D, i # 1, NEW up, up = NodeAt(at, m, i \div 2)
      PROVE  NodeAt(at, m, i) = IF up = Null THEN Null
                                ELSE IF i % 2 = 1 THEN h.right[up] ELSE h.left[up]
  <2>1. i \in Nat /\ i \div 2 \in Nat /\ i \div 2 >= 1 /\ i \div 2 < i
    BY <1>1, <1>3, HalfFacts
  <2>2. CASE i \div 2 \in 1..m
    <3>1. up = at[i \div 2] /\ up # Null
      BY <1>3, <2>1, <2>2, NodeAtFacts
    <3>2. h.left[up] = NodeAt(at, m, 2 * (i \div 2)) /\ h.right[up] = NodeAt(at, m, 2 * (i \div 2) + 1)
      BY <2>2, <3>1 DEF Tree
    <3> QED BY <1>2, <1>3, <3>1, <3>2
  <2>3. CASE i \div 2 \notin 1..m
    <3>1. i \notin 1..m
      BY <1>1, <2>1, <2>3
    <3> QED BY <1>3, <2>3, <3>1 DEF NodeAt
  <2> QED BY <2>2, <2>3
<1>4. Is(place)
  <2>1. h.min = NodeAt(at, m, 1)
    BY DEF Tree
  <2> QED BY <1>2, <1>3, <2>1
<1>5. Is(node)
  BY <1>4
<1>6. At(h) = node
  BY DEF At
<1> HIDE DEF node
<1>7. node[1] = NodeAt(at, m, 1)
  BY <1>1, <1>5 DEF Tree
<1>8. ASSUME NEW i \in D, i # 1, node[i \div 2] = NodeAt(at, m, i \div 2)
      PROVE  node[i] = NodeAt(at, m, i)
  BY <1>3, <1>5, <1>8
<1>9. ASSUME NEW x \in D, node[x] # NodeAt(at, m, x)
      PROVE  FALSE
  <2> DEFINE W == {i \in D : node[i] # NodeAt(at, m, i)}
  <2>1. W \subseteq Nat /\ W # {}
    BY <1>1, <1>9
  <2>2. PICK i \in W : \A j \in W : i <= j
    <3> HIDE DEF W
    <3> QED BY <2>1, LeastNatural
  <2>3. i # 1
    BY <1>7, <2>2
  <2>4. i \div 2 \in D /\ ~(i <= i \div 2)
    BY <1>1, <1>2, <2>2, <2>3
  <2>5. i \div 2 \notin W
    BY <2>2, <2>4
  <2>6. node[i \div 2] = NodeAt(at, m, i \div 2)
    BY <2>4, <2>5
  <2> QED BY <1>8, <2>2, <2>3, <2>6
<1> QED BY <1>6, <1>9

\* A node that is hung in the first free place makes a tree of one more.
LEMMA HangTree ==
    ASSUME NEW h, NEW at, NEW m, Tree(h, at, m), NEW n \in Nodes, n \notin Holds(at, m),
           NEW up \in Pointers, up = NodeAt(at, m, (m + 1) \div 2)
    PROVE  \E s \in Heaps, b \in [1..(m + 1) -> Nodes] :
             /\ s = Linked(h, n, up, m + 1)
             /\ s.nelts = m + 1 /\ Tree(s, b, m + 1)
             /\ b[m + 1] = n /\ \A i \in 1..m : b[i] = at[i]
<1>1. /\ h \in Heaps /\ m \in Nat /\ at \in [1..m -> Nodes]
      /\ \A i, j \in 1..m : at[i] = at[j] => i = j
      /\ h.min = NodeAt(at, m, 1)
      /\ \A i \in 1..m : /\ h.left[at[i]] = NodeAt(at, m, 2 * i)
                         /\ h.right[at[i]] = NodeAt(at, m, 2 * i + 1)
                         /\ h.parent[at[i]] = NodeAt(at, m, i \div 2)
  BY DEF Tree
<1>2. \A i \in 1..m : at[i] \in Nodes /\ at[i] # n
  BY <1>1 DEF Holds
<1>3. PICK u \in Nat : u = (m + 1) \div 2
  BY <1>1
<1>4. /\ up = NodeAt(at, m, u) /\ u < m + 1 /\ (u = 0 <=> m = 0)
      /\ IF (m + 1) % 2 = 1 THEN m + 1 = 2 * u + 1 ELSE m + 1 = 2 * u
  BY <1>1, <1>3
<1>5. /\ up = Null <=> m = 0
      /\ \A i \in 1..m : at[i] = up <=> i = u
      /\ up # n
  <2>1. CASE m = 0
    BY <2>1, <1>4, HeapAssumption DEF NodeAt, Null
  <2>2. CASE m # 0
    <3>1. u \in 1..m
      BY <1>1, <1>4, <2>2
    <3> QED BY <1>1, <1>2, <1>4, <2>2, <3>1, HeapAssumption DEF NodeAt, Null
  <2> QED BY <2>1, <2>2
<1>6. PICK l, r, a, odd :
        /\ l = [h.left EXCEPT ![n] = Null] /\ r = [h.right EXCEPT ![n] = Null]
        /\ a = [h.parent EXCEPT ![n] = up] /\ odd = ((m + 1) % 2 = 1)
  OBVIOUS
<1>7. /\ l \in [Nodes -> Pointers] /\ r \in [Nodes -> Pointers] /\ a \in [Nodes -> Pointers]
      /\ \A x \in Nodes : /\ l[x] = IF x = n THEN Null ELSE h.left[x]
                          /\ r[x] = IF x = n THEN Null ELSE h.right[x]
                          /\ a[x] = IF x = n THEN up ELSE h.parent[x]
  BY <1>1, <1>6 DEF Heaps, Pointers
<1>20. PICK hung : hung = [h EXCEPT !.left = l, !.right = r, !.parent = a, !.nelts = m + 1]
  OBVIOUS
<1>8. /\ hung \in Heaps
      /\ hung = [h EXCEPT !.left = l, !.right = r, !.parent = a, !.nelts = m + 1]
      /\ hung.min = h.min /\ hung.nelts = m + 1
      /\ hung.left = l /\ hung.right = r /\ hung.parent = a
  <2>1. m + 1 \in Nat
    BY <1>1
  <2> QED BY <1>1, <1>7, <1>20, <2>1 DEF Heaps
<1>9. hung = [h EXCEPT !.left[n] = Null, !.right[n] = Null, !.parent[n] = up, !.nelts = m + 1]
  BY <1>1, <1>6, <1>8 DEF Heaps
<1>10. PICK s : s = IF up = Null THEN [hung EXCEPT !.min = n]
                    ELSE IF (m + 1) % 2 = 1 THEN [hung EXCEPT !.right[up] = n]
                    ELSE [hung EXCEPT !.left[up] = n]
  OBVIOUS
<1>11. /\ s \in Heaps /\ s.nelts = m + 1 /\ s.parent = a
       /\ s.min = IF up = Null THEN n ELSE h.min
       /\ \A x \in Nodes :
            /\ s.left[x] = IF x = up /\ (m + 1) % 2 # 1 THEN n ELSE l[x]
            /\ s.right[x] = IF x = up /\ (m + 1) % 2 = 1 THEN n ELSE r[x]
  <2>1. CASE up = Null
    <3>1. s = [hung EXCEPT !.min = n] /\ up \notin Nodes
      BY <1>10, <2>1, HeapAssumption DEF Null
    <3>2. /\ s.min = n /\ s.nelts = hung.nelts /\ s.left = hung.left /\ s.right = hung.right
          /\ s.parent = hung.parent /\ s \in Heaps
      BY <1>8, <3>1 DEF Heaps, Pointers
    <3> QED BY <1>8, <2>1, <3>1, <3>2
  <2>2. CASE up # Null /\ (m + 1) % 2 = 1
    <3>1. s = [hung EXCEPT !.right = [r EXCEPT ![up] = n]] /\ up \in Nodes
      BY <1>8, <1>10, <2>2 DEF Pointers
    <3>2. /\ s.min = hung.min /\ s.nelts = hung.nelts /\ s.left = hung.left
          /\ s.right = [r EXCEPT ![up] = n] /\ s.parent = hung.parent /\ s \in Heaps
      BY <1>7, <1>8, <3>1 DEF Heaps, Pointers
    <3> QED BY <1>7, <1>8, <2>2, <3>1, <3>2
  <2>3. CASE up # Null /\ (m + 1) % 2 # 1
    <3>1. s = [hung EXCEPT !.left = [l EXCEPT ![up] = n]] /\ up \in Nodes
      BY <1>8, <1>10, <2>3 DEF Pointers
    <3>2. /\ s.min = hung.min /\ s.nelts = hung.nelts /\ s.right = hung.right
          /\ s.left = [l EXCEPT ![up] = n] /\ s.parent = hung.parent /\ s \in Heaps
      BY <1>7, <1>8, <3>1 DEF Heaps, Pointers
    <3> QED BY <1>7, <1>8, <2>3, <3>1, <3>2
  <2> QED BY <2>1, <2>2, <2>3
<1>12. PICK b \in [1..(m + 1) -> Nodes] : b = [i \in 1..(m + 1) |-> IF i = m + 1 THEN n ELSE at[i]]
  <2>1. \A i \in 1..(m + 1) : i # m + 1 => i \in 1..m
    BY <1>1
  <2>2. [i \in 1..(m + 1) |-> IF i = m + 1 THEN n ELSE at[i]] \in [1..(m + 1) -> Nodes]
    BY <1>1, <2>1
  <2> QED BY <2>2
<1>13. /\ b[m + 1] = n /\ \A i \in 1..m : b[i] = at[i] /\ i \in 1..(m + 1) /\ i # m + 1
       /\ \A i \in 1..(m + 1) : i # m + 1 => i \in 1..m
  BY <1>1, <1>12
<1>14. \A i, j \in 1..(m + 1) : b[i] = b[j] => i = j
  BY <1>1, <1>2, <1>13
<1>15. \A i \in Nat : NodeAt(b, m + 1, i) = IF i = m + 1 THEN n ELSE NodeAt(at, m, i)
  BY <1>1, <1>13 DEF NodeAt
<1>16. s.min = NodeAt(b, m + 1, 1)
  BY <1>1, <1>5, <1>11, <1>15
<1>17. ASSUME NEW i \in 1..m
       PROVE  /\ s.left[b[i]] = NodeAt(b, m + 1, 2 * i)
              /\ s.right[b[i]] = NodeAt(b, m + 1, 2 * i + 1)
              /\ s.parent[b[i]] = NodeAt(b, m + 1, i \div 2)
  <2>1. PICK x \in Nodes : x = at[i] /\ x = b[i] /\ x # n
    BY <1>2, <1>13
  <2>2. i \in Nat /\ i \div 2 \in Nat /\ i \div 2 # m + 1
    BY <1>1
  <2>3. x = up <=> i = u
    BY <1>5, <2>1
  <2>4. s.left[x] = IF i = u /\ (m + 1) % 2 # 1 THEN n ELSE NodeAt(at, m, 2 * i)
    <3>1. s.left[x] = IF x = up /\ (m + 1) % 2 # 1 THEN n ELSE l[x]
      BY <1>11
    <3>2. l[x] = h.left[x]
      BY ONLY <1>7, <2>1
    <3>3. h.left[x] = NodeAt(at, m, 2 * i)
      BY ONLY <1>1, <2>1, i \in 1..m
    <3> QED BY ONLY <2>3, <3>1, <3>2, <3>3
  <2>5. s.right[x] = IF i = u /\ (m + 1) % 2 = 1 THEN n ELSE NodeAt(at, m, 2 * i + 1)
    <3>1. s.right[x] = IF x = up /\ (m + 1) % 2 = 1 THEN n ELSE r[x]
      BY <1>11
    <3>2. r[x] = h.right[x]
      BY ONLY <1>7, <2>1
    <3>3. h.right[x] = NodeAt(at, m, 2 * i + 1)
      BY ONLY <1>1, <2>1, i \in 1..m
    <3> QED BY ONLY <2>3, <3>1, <3>2, <3>3
  <2>6. s.parent[x] = NodeAt(at, m, i \div 2)
    BY <1>1, <1>7, <1>11, <2>1, ZenonT(60)
  <2>7. /\ i = u /\ (m + 1) % 2 # 1 <=> 2 * i = m + 1
        /\ i = u /\ (m + 1) % 2 = 1 <=> 2 * i + 1 = m + 1
    <3>1. m \in Nat /\ u \in Nat /\ i \in Nat
      BY <1>1, <2>2
    <3>2. CASE (m + 1) % 2 = 1
      <4>1. m + 1 = 2 * u + 1
        BY <1>4, <3>2
      <4>2. 2 * i # m + 1 /\ (i = u <=> 2 * i + 1 = m + 1)
        BY ONLY <3>1, <4>1
      <4> QED BY <3>2, <4>2
    <3>3. CASE (m + 1) % 2 # 1
      <4>1. m + 1 = 2 * u
        BY <1>4, <3>3
      <4>2. 2 * i + 1 # m + 1 /\ (i = u <=> 2 * i = m + 1)
        BY ONLY <3>1, <4>1
      <4> QED BY <3>3, <4>2
    <3> QED BY <3>2, <3>3
  <2>8. /\ NodeAt(b, m + 1, 2 * i) = IF 2 * i = m + 1 THEN n ELSE NodeAt(at, m, 2 * i)
        /\ NodeAt(b, m + 1, 2 * i + 1) = IF 2 * i + 1 = m + 1 THEN n ELSE NodeAt(at, m, 2 * i + 1)
        /\ NodeAt(b, m + 1, i \div 2) = NodeAt(at, m, i \div 2)
    BY <1>15, <2>2
  <2> QED BY ONLY <2>1, <2>4, <2>5, <2>6, <2>7, <2>8
<1>18. /\ s.left[b[m + 1]] = NodeAt(b, m + 1, 2 * (m + 1))
       /\ s.right[b[m + 1]] = NodeAt(b, m + 1, 2 * (m + 1) + 1)
       /\ s.parent[b[m + 1]] = NodeAt(b, m + 1, (m + 1) \div 2)
  <2>1. s.left[n] = Null /\ s.right[n] = Null /\ s.parent[n] = up
    BY <1>5, <1>7, <1>11
  <2>2. NodeAt(b, m + 1, 2 * (m + 1)) = Null /\ NodeAt(b, m + 1, 2 * (m + 1) + 1) = Null
    BY <1>1 DEF NodeAt
  <2>3. NodeAt(b, m + 1, (m + 1) \div 2) = up
    BY <1>1, <1>3, <1>4, <1>15
  <2> QED BY <1>13, <2>1, <2>2, <2>3
<1>19. Tree(s, b, m + 1)
  <2>1. m + 1 \in Nat
    BY <1>1
  <2> QED BY <1>11, <1>13, <1>14, <1>16, <1>17, <1>18, <2>1 DEF Tree
<1>21. s = Linked(h, n, up, m + 1)
  BY ONLY <1>9, <1>10, Zenon DEF Linked
<1> QED BY ONLY <1>11, <1>13, <1>19, <1>21, b \in [1..(m + 1) -> Nodes], Zenon

\* Without the node in its last place the tree has one place less.
LEMMA CutTree ==
    ASSUME NEW h, NEW at, NEW m, Tree(h, at, m), m # 0, h.nelts = m
    PROVE  \E s \in Heaps, b \in [1..(m - 1) -> Nodes] :
             /\ s = Cut(h, at[m])
             /\ s.nelts = m - 1 /\ Tree(s, b, m - 1)
             /\ \A i \in 1..(m - 1) : b[i] = at[i]
             /\ at[m] \notin Holds(b, m - 1)
<1>1. /\ h \in Heaps /\ m \in Nat /\ at \in [1..m -> Nodes] /\ m \in 1..m /\ m - 1 \in Nat
      /\ \A i, j \in 1..m : at[i] = at[j] => i = j
      /\ h.min = NodeAt(at, m, 1)
      /\ \A i \in 1..m : /\ h.left[at[i]] = NodeAt(at, m, 2 * i)
                         /\ h.right[at[i]] = NodeAt(at, m, 2 * i + 1)
                         /\ h.parent[at[i]] = NodeAt(at, m, i \div 2)
  BY DEF Tree
<1>2. PICK n \in Nodes : n = at[m]
  BY <1>1
<1>3. PICK u \in Nat : u = m \div 2 /\ u < m /\ (u = 0 <=> m = 1) /\ (m = 2 * u \/ m = 2 * u + 1)
  BY <1>1
<1>4. PICK up \in Pointers : up = h.parent[at[m]] /\ up = NodeAt(at, m, u)
  BY <1>1, <1>2, <1>3 DEF Heaps
<1>5. /\ up = Null <=> m = 1
      /\ \A i \in 1..m : at[i] = up <=> i = u
  <2>1. CASE m = 1
    <3>1. up = Null /\ u = 0
      BY <1>3, <1>4, <2>1 DEF NodeAt
    <3> QED BY <1>1, <2>1, <3>1, HeapAssumption DEF Null
  <2>2. CASE m # 1
    <3>1. u \in 1..m
      BY <1>1, <1>3, <2>2
    <3>2. up = at[u] /\ up # Null
      BY <1>1, <1>4, <3>1, HeapAssumption DEF NodeAt, Null
    <3> QED BY <1>1, <2>2, <3>1, <3>2
  <2> QED BY <2>1, <2>2
<1>6. PICK e \in Heaps :
        /\ e = Redirect(h, up, n, Null) /\ e.nelts = h.nelts /\ e.parent = h.parent
        /\ e.min = IF up = Null THEN Null ELSE h.min
        /\ \A x \in Nodes :
             /\ e.left[x] = IF x = up /\ h.left[up] = n THEN Null ELSE h.left[x]
             /\ e.right[x] = IF x = up /\ h.left[up] # n THEN Null ELSE h.right[x]
  <2>1. Null \in Pointers
    BY DEF Pointers
  <2>2. h \in Heaps /\ up \in Pointers /\ n \in Nodes
    BY <1>1
  <2> QED BY ONLY <2>1, <2>2, RedirectFacts
<1>7. PICK s : s = [e EXCEPT !.nelts = m - 1]
  OBVIOUS
<1>8. /\ s \in Heaps /\ s.nelts = m - 1 /\ s.min = e.min
      /\ s.left = e.left /\ s.right = e.right /\ s.parent = h.parent
  BY <1>1, <1>6, <1>7 DEF Heaps
<1>9. s = Cut(h, at[m])
  BY <1>2, <1>4, <1>6, <1>7 DEF Cut
<1>10. PICK b \in [1..(m - 1) -> Nodes] : b = [i \in 1..(m - 1) |-> at[i]]
  <2>1. \A i \in 1..(m - 1) : i \in 1..m
    BY <1>1
  <2>2. [i \in 1..(m - 1) |-> at[i]] \in [1..(m - 1) -> Nodes]
    BY <1>1, <2>1
  <2> QED BY <2>2
<1>11. \A i \in 1..(m - 1) : b[i] = at[i] /\ i \in 1..m /\ i # m
  BY <1>1, <1>10
<1>12. at[m] \notin Holds(b, m - 1)
  BY <1>1, <1>11 DEF Holds
<1>13. \A i, j \in 1..(m - 1) : b[i] = b[j] => i = j
  <2> SUFFICES ASSUME NEW i \in 1..(m - 1), NEW j \in 1..(m - 1), b[i] = b[j] PROVE i = j
    OBVIOUS
  <2>1. at[i] = at[j] /\ i \in 1..m /\ j \in 1..m
    BY <1>11
  <2>2. \A p, q \in 1..m : at[p] = at[q] => p = q
    BY <1>1
  <2> QED BY ONLY <2>1, <2>2
<1>14. \A i \in Nat : NodeAt(b, m - 1, i) = IF i = m THEN Null ELSE NodeAt(at, m, i)
  BY <1>1, <1>11 DEF NodeAt
<1>15. s.min = NodeAt(b, m - 1, 1)
  BY <1>1, <1>5, <1>6, <1>8, <1>14
<1>16. ASSUME NEW i \in 1..(m - 1)
       PROVE  /\ s.left[b[i]] = NodeAt(b, m - 1, 2 * i)
              /\ s.right[b[i]] = NodeAt(b, m - 1, 2 * i + 1)
              /\ s.parent[b[i]] = NodeAt(b, m - 1, i \div 2)
  <2>1. PICK x \in Nodes : x = at[i] /\ x = b[i]
    BY <1>1, <1>11
  <2>2. i \in Nat /\ i \div 2 \in Nat /\ i \div 2 # m /\ i \in 1..m /\ i # 0
    BY <1>1
  <2>3. x = up <=> i = u
    BY <1>5, <2>1, <2>2
  <2>4. /\ h.left[x] = NodeAt(at, m, 2 * i) /\ h.right[x] = NodeAt(at, m, 2 * i + 1)
        /\ h.parent[x] = NodeAt(at, m, i \div 2)
    BY <1>1, <2>1, <2>2
  <2>5. /\ NodeAt(b, m - 1, 2 * i) = IF 2 * i = m THEN Null ELSE NodeAt(at, m, 2 * i)
        /\ NodeAt(b, m - 1, 2 * i + 1) = IF 2 * i + 1 = m THEN Null ELSE NodeAt(at, m, 2 * i + 1)
        /\ NodeAt(b, m - 1, i \div 2) = NodeAt(at, m, i \div 2)
    BY <1>14, <2>2
  <2>6. CASE x = up
    <3>1. i = u /\ (m = 2 * i \/ m = 2 * i + 1)
      BY <1>3, <2>3, <2>6
    <3>2. h.left[up] = n <=> m = 2 * i
      <4>1. NodeAt(at, m, 2 * i) = at[m] <=> 2 * i = m
        <5>1. 2 * i \in Nat /\ m \in 1..m
          BY <1>1, <2>2
        <5> QED BY <5>1, NodeAtApart
      <4> QED BY <1>2, <2>4, <2>6, <4>1
    <3>3. /\ s.left[x] = IF m = 2 * i THEN Null ELSE NodeAt(at, m, 2 * i)
          /\ s.right[x] = IF m # 2 * i THEN Null ELSE NodeAt(at, m, 2 * i + 1)
      BY <1>6, <1>8, <2>4, <2>6, <3>2
    <3>4. m = 2 * i + 1 <=> m # 2 * i
      BY <1>1, <2>2, <3>1
    <3>5. s.parent[x] = NodeAt(at, m, i \div 2)
      BY <1>8, <2>4
    <3> QED BY ONLY <2>1, <2>5, <3>3, <3>4, <3>5
  <2>7. CASE x # up
    <3>1. m # 2 * i /\ m # 2 * i + 1
      <4>1. m \in Nat /\ u \in Nat /\ i \in Nat /\ i # u /\ (m = 2 * u \/ m = 2 * u + 1)
        BY <1>1, <1>3, <2>2, <2>3, <2>7
      <4> QED BY ONLY <4>1
    <3>2. s.left[x] = h.left[x] /\ s.right[x] = h.right[x] /\ s.parent[x] = h.parent[x]
      BY <1>6, <1>8, <2>7
    <3> QED BY ONLY <2>1, <2>4, <2>5, <3>1, <3>2
  <2> QED BY <2>6, <2>7
<1>17. Tree(s, b, m - 1)
  BY <1>1, <1>8, <1>13, <1>15, <1>16 DEF Tree
<1> QED BY <1>8, <1>9, <1>11, <1>12, <1>17

\* Clearing the pointers of a node that is not in the tree keeps the tree.
LEMMA ClearTree ==
    ASSUME NEW h, NEW at, NEW m, Tree(h, at, m), NEW n \in Nodes, n \notin Holds(at, m)
    PROVE  \E s \in Heaps : s = Cleared(h, n) /\ s.nelts = h.nelts /\ Tree(s, at, m)
<1>1. h \in Heaps /\ \A i \in 1..m : at[i] \in Nodes /\ at[i] # n
  BY DEF Tree, Holds
<1>2. PICK l, r, a :
        /\ l = [h.left EXCEPT ![n] = Null] /\ r = [h.right EXCEPT ![n] = Null]
        /\ a = [h.parent EXCEPT ![n] = Null]
  OBVIOUS
<1>3. /\ l \in [Nodes -> Pointers] /\ r \in [Nodes -> Pointers] /\ a \in [Nodes -> Pointers]
      /\ \A x \in Nodes : x # n => l[x] = h.left[x] /\ r[x] = h.right[x] /\ a[x] = h.parent[x]
  BY <1>1, <1>2 DEF Heaps, Pointers
<1>4. PICK s : s = [h EXCEPT !.left = l, !.right = r, !.parent = a]
  OBVIOUS
<1>5. /\ s \in Heaps /\ s.min = h.min /\ s.nelts = h.nelts
      /\ s.left = l /\ s.right = r /\ s.parent = a
  BY <1>1, <1>3, <1>4 DEF Heaps
<1>6. s = Cleared(h, n)
  BY <1>1, <1>2, <1>4 DEF Heaps, Cleared
<1>7. Tree(s, at, m)
  BY <1>1, <1>3, <1>5 DEF Tree
<1> QED BY <1>5, <1>6, <1>7

\* What heap_remove has done before the walks: max is where the node in place j was.
Replaces(h, at, m, j, max) ==
    \E s \in Heaps, b \in [1..m -> Nodes] :
      /\ s = Replaced(h, at[j], max)
      /\ s.nelts = h.nelts /\ Tree(s, b, m)
      /\ b[j] = max /\ \A i \in 1..m : i # j => b[i] = at[i]

\* A node from outside the tree takes the place of the one in place j.
LEMMA ReplaceTree ==
    ASSUME NEW h, NEW at, NEW m, Tree(h, at, m), NEW j \in 1..m,
           NEW max \in Nodes, max \notin Holds(at, m)
    PROVE  Replaces(h, at, m, j, max)
<1> SUFFICES
      \E s \in Heaps, b \in [1..m -> Nodes] :
        /\ s = Replaced(h, at[j], max)
        /\ s.nelts = h.nelts /\ Tree(s, b, m)
        /\ b[j] = max /\ \A i \in 1..m : i # j => b[i] = at[i]
  BY DEF Replaces
<1>1. /\ h \in Heaps /\ m \in Nat /\ at \in [1..m -> Nodes]
      /\ \A i, q \in 1..m : at[i] = at[q] => i = q
      /\ h.min = NodeAt(at, m, 1)
      /\ \A i \in 1..m : /\ h.left[at[i]] = NodeAt(at, m, 2 * i)
                         /\ h.right[at[i]] = NodeAt(at, m, 2 * i + 1)
                         /\ h.parent[at[i]] = NodeAt(at, m, i \div 2)
  BY DEF Tree
<1>2. PICK n \in Nodes : n = at[j]
  BY <1>1
<1>3. max # n /\ \A i \in 1..m : at[i] \in Nodes /\ at[i] # max
  BY <1>1, <1>2 DEF Holds
<1>4. j \in Nat /\ j >= 1 /\ 2 * j \in Nat /\ 2 * j + 1 \in Nat /\ j \div 2 \in Nat
      /\ j \div 2 # j /\ 2 * j # j /\ 2 * j + 1 # j
  BY <1>1
<1>5. PICK lc \in Pointers, rc \in Pointers, top \in Pointers :
        /\ lc = h.left[n] /\ rc = h.right[n] /\ top = h.parent[n]
        /\ lc = NodeAt(at, m, 2 * j) /\ rc = NodeAt(at, m, 2 * j + 1) /\ top = NodeAt(at, m, j \div 2)
  BY <1>1, <1>2 DEF Heaps
<1>6. \A i \in 1..m : /\ at[i] = lc <=> i = 2 * j
                      /\ at[i] = rc <=> i = 2 * j + 1
                      /\ at[i] = top <=> i = j \div 2
  BY <1>4, <1>5, NodeAtApart
<1>7. /\ n # lc /\ n # rc /\ n # top
      /\ lc # max /\ rc # max /\ top # max
      /\ top = Null <=> j = 1
  <2>1. n # lc /\ n # rc /\ n # top
    BY <1>2, <1>4, <1>6
  <2>2. ASSUME NEW i \in Nat PROVE NodeAt(at, m, i) # max
    BY <1>3, HeapAssumption DEF NodeAt, Null
  <2>3. lc # max /\ rc # max /\ top # max
    BY <1>4, <1>5, <2>2
  <2>4. top # Null <=> j \div 2 \in 1..m
    BY <1>4, <1>5, NodeAtFacts
  <2>5. j \div 2 \in 1..m <=> j # 1
    BY <1>1, <1>4
  <2> QED BY <2>1, <2>3, <2>4, <2>5
<1>8. PICK l, r, a :
        /\ l = [h.left EXCEPT ![max] = lc] /\ r = [h.right EXCEPT ![max] = rc]
        /\ a = [h.parent EXCEPT ![max] = top]
  OBVIOUS
<1>9. /\ l \in [Nodes -> Pointers] /\ r \in [Nodes -> Pointers] /\ a \in [Nodes -> Pointers]
      /\ \A x \in Nodes : /\ l[x] = IF x = max THEN lc ELSE h.left[x]
                          /\ r[x] = IF x = max THEN rc ELSE h.right[x]
                          /\ a[x] = IF x = max THEN top ELSE h.parent[x]
  BY <1>1, <1>5, <1>8 DEF Heaps
<1>10. PICK child : child = [h EXCEPT !.left = l, !.right = r, !.parent = a]
  OBVIOUS
<1>11. /\ child.min = h.min /\ child.nelts = h.nelts
       /\ child.left = l /\ child.right = r /\ child.parent = a
  BY <1>1, <1>9, <1>10 DEF Heaps
<1>12. child \in Heaps
  BY <1>1, <1>9, <1>10 DEF Heaps
<1>13. lc \in Pointers /\ rc \in Pointers /\ max \in Pointers
  BY DEF Pointers
<1>14. PICK t1 \in Heaps :
        /\ t1 = SetParent(child, lc, max)
        /\ t1.min = child.min /\ t1.nelts = child.nelts /\ t1.left = child.left /\ t1.right = child.right
        /\ \A x \in Nodes : t1.parent[x] = IF x = lc THEN max ELSE child.parent[x]
  BY ONLY <1>12, <1>13, SetParentFacts
<1>15. PICK t2 \in Heaps :
        /\ t2 = SetParent(t1, rc, max)
        /\ t2.min = t1.min /\ t2.nelts = t1.nelts /\ t2.left = t1.left /\ t2.right = t1.right
        /\ \A x \in Nodes : t2.parent[x] = IF x = rc THEN max ELSE t1.parent[x]
  BY <1>13, SetParentFacts
<1>16. /\ t2.min = h.min /\ t2.nelts = h.nelts /\ t2.left = l /\ t2.right = r
       /\ \A x \in Nodes : t2.parent[x] = IF x = rc THEN max ELSE IF x = lc THEN max ELSE a[x]
  BY <1>11, <1>14, <1>15
<1>17. t2.parent[n] = top
  BY <1>3, <1>5, <1>7, <1>9, <1>16
<1>18. PICK s \in Heaps :
         /\ s = Redirect(t2, top, n, max) /\ s.nelts = t2.nelts /\ s.parent = t2.parent
         /\ s.min = IF top = Null THEN max ELSE t2.min
         /\ \A x \in Nodes :
              /\ s.left[x] = IF x = top /\ t2.left[top] = n THEN max ELSE t2.left[x]
              /\ s.right[x] = IF x = top /\ t2.left[top] # n THEN max ELSE t2.right[x]
  <2>1. t2 \in Heaps /\ top \in Pointers /\ n \in Nodes /\ max \in Pointers
    BY <1>13
  <2> QED BY ONLY <2>1, RedirectFacts
<1>19. s = Replaced(h, at[j], max)
  <2>1. child = [h EXCEPT !.left[max] = h.left[n], !.right[max] = h.right[n], !.parent[max] = h.parent[n]]
    BY <1>1, <1>5, <1>8, <1>10 DEF Heaps
  <2>2. child.left[max] = lc /\ child.right[max] = rc
    BY <1>9, <1>11
  <2>3. t2 = SetParent(SetParent(child, child.left[max], max), child.right[max], max)
    BY <1>14, <1>15, <2>2
  <2>4. s = Redirect(t2, t2.parent[n], n, max)
    BY <1>17, <1>18
  <2> QED BY ONLY <1>2, <2>1, <2>3, <2>4, Zenon DEF Replaced
<1>20. PICK b \in [1..m -> Nodes] : b[j] = max /\ \A i \in 1..m : i # j => b[i] = at[i]
  <2>1. [at EXCEPT ![j] = max] \in [1..m -> Nodes]
    BY <1>1
  <2> QED BY <1>1, <2>1
<1>21. \A i, q \in 1..m : b[i] = b[q] => i = q
  <2> SUFFICES ASSUME NEW i \in 1..m, NEW q \in 1..m, b[i] = b[q] PROVE i = q
    OBVIOUS
  <2>1. \A e, f \in 1..m : at[e] = at[f] => e = f
    BY <1>1
  <2>2. \A e \in 1..m : b[e] = (IF e = j THEN max ELSE at[e]) /\ at[e] # max
    BY <1>3, <1>20
  <2>3. b[i] = b[q] /\ i \in 1..m /\ q \in 1..m
    OBVIOUS
  <2> QED BY ONLY <2>1, <2>2, <2>3
<1>22. \A i \in Nat : NodeAt(b, m, i) = IF i = j THEN max ELSE NodeAt(at, m, i)
  BY <1>20 DEF NodeAt
<1>23. s.min = NodeAt(b, m, 1)
  BY <1>1, <1>7, <1>16, <1>18, <1>22
<1>24. /\ s.left[b[j]] = NodeAt(b, m, 2 * j)
       /\ s.right[b[j]] = NodeAt(b, m, 2 * j + 1)
       /\ s.parent[b[j]] = NodeAt(b, m, j \div 2)
  <2>1. s.left[max] = lc /\ s.right[max] = rc /\ s.parent[max] = top
    BY <1>7, <1>9, <1>16, <1>18
  <2>2. NodeAt(b, m, 2 * j) = lc /\ NodeAt(b, m, 2 * j + 1) = rc /\ NodeAt(b, m, j \div 2) = top
    BY <1>4, <1>5, <1>22
  <2> QED BY <1>20, <2>1, <2>2
<1>25. ASSUME NEW i \in 1..m, i # j
       PROVE  /\ s.left[b[i]] = NodeAt(b, m, 2 * i)
              /\ s.right[b[i]] = NodeAt(b, m, 2 * i + 1)
              /\ s.parent[b[i]] = NodeAt(b, m, i \div 2)
  <2>1. PICK x \in Nodes : x = at[i] /\ x = b[i] /\ x # max /\ x # n
    <3>1. at[i] # at[j]
      BY <1>1, <1>25
    <3> QED BY <1>2, <1>3, <1>20, <1>25, <3>1
  <2>2. i \in Nat /\ i \div 2 \in Nat /\ i \in 1..m /\ 2 * i \in Nat /\ 2 * i + 1 \in Nat
    BY <1>1
  <2>3. /\ h.left[x] = NodeAt(at, m, 2 * i) /\ h.right[x] = NodeAt(at, m, 2 * i + 1)
        /\ h.parent[x] = NodeAt(at, m, i \div 2)
    BY <1>1, <2>1, <2>2
  <2>4. l[x] = h.left[x] /\ r[x] = h.right[x] /\ a[x] = h.parent[x]
    BY <1>9, <2>1
  <2>5. /\ NodeAt(b, m, 2 * i) = IF 2 * i = j THEN max ELSE NodeAt(at, m, 2 * i)
        /\ NodeAt(b, m, 2 * i + 1) = IF 2 * i + 1 = j THEN max ELSE NodeAt(at, m, 2 * i + 1)
        /\ NodeAt(b, m, i \div 2) = IF i \div 2 = j THEN max ELSE NodeAt(at, m, i \div 2)
    BY <1>22, <2>2
  <2>6. (x = lc <=> i = 2 * j) /\ (x = rc <=> i = 2 * j + 1) /\ (x = top <=> i = j \div 2)
    BY <1>6, <2>1, <2>2
  <2>7. s.parent[x] = NodeAt(b, m, i \div 2)
    <3>1. i \div 2 = j <=> i = 2 * j \/ i = 2 * j + 1
      BY <1>4, <2>2, HalfIs
    <3>2. s.parent[x] = IF x = rc THEN max ELSE IF x = lc THEN max ELSE a[x]
      BY <1>16, <1>18
    <3> QED BY ONLY <2>3, <2>4, <2>5, <2>6, <3>1, <3>2
  <2>8. /\ s.left[x] = IF x = top /\ l[top] = n THEN max ELSE l[x]
        /\ s.right[x] = IF x = top /\ l[top] # n THEN max ELSE r[x]
    BY <1>16, <1>18
  <2>9. CASE x = top
    <3>1. j = 2 * i \/ j = 2 * i + 1
      BY <1>4, <2>2, <2>6, <2>9, HalfIs
    <3>2. l[top] = n <=> j = 2 * i
      <4>1. NodeAt(at, m, 2 * i) = at[j] <=> 2 * i = j
        BY <2>2, NodeAtApart
      <4> QED BY <1>2, <2>3, <2>4, <2>9, <4>1
    <3>3. 2 * i # 2 * i + 1
      BY <2>2
    <3> QED BY ONLY <2>1, <2>3, <2>4, <2>5, <2>7, <2>8, <2>9, <3>1, <3>2, <3>3
  <2>10. CASE x # top
    <3>1. j # 2 * i /\ j # 2 * i + 1
      BY <1>4, <2>2, <2>6, <2>10, HalfIs
    <3> QED BY ONLY <2>1, <2>3, <2>4, <2>5, <2>7, <2>8, <2>10, <3>1
  <2> QED BY <2>9, <2>10
<1>26. Tree(s, b, m)
  <2>1. ASSUME NEW i \in 1..m
        PROVE  /\ s.left[b[i]] = NodeAt(b, m, 2 * i)
               /\ s.right[b[i]] = NodeAt(b, m, 2 * i + 1)
               /\ s.parent[b[i]] = NodeAt(b, m, i \div 2)
    BY <1>24, <1>25
  <2> QED BY <1>1, <1>21, <1>23, <2>1 DEF Tree
<1>27. s.nelts = h.nelts
  BY <1>16, <1>18
<1> QED BY ONLY s \in Heaps, b \in [1..m -> Nodes], <1>19, <1>20, <1>26, <1>27, Zenon

\* What heap_insert returns.
Inserts(h, at, m, k, n) ==
    \E s, b :
      /\ s = heap_insert(h, k, n) /\ Tree(s, b, m + 1) /\ s.nelts = m + 1
      /\ Ordered(k, b, m + 1, {}) /\ Holds(b, m + 1) = Holds(at, m) \cup {n}

\* heap_insert: a tree that is ordered and has the new node.
LEMMA InsertTree ==
    ASSUME NEW h, NEW at, NEW m, Tree(h, at, m), h.nelts = m, NEW k \in [Nodes -> Int],
           Ordered(k, at, m, {}), NEW n \in Nodes, n \notin Holds(at, m)
    PROVE  Inserts(h, at, m, k, n)
<1> SUFFICES
      \E s, b :
        /\ s = heap_insert(h, k, n) /\ Tree(s, b, m + 1) /\ s.nelts = m + 1
        /\ Ordered(k, b, m + 1, {}) /\ Holds(b, m + 1) = Holds(at, m) \cup {n}
  BY DEF Inserts
<1>1. m \in Nat /\ at \in [1..m -> Nodes]
  BY DEF Tree
<1>2. PICK up \in Pointers : up = NodeAt(at, m, (m + 1) \div 2)
  <2>1. (m + 1) \div 2 \in Nat
    BY <1>1
  <2> QED BY <2>1, NodeAtFacts
<1>3. up = IF m + 1 = 1 THEN Null ELSE At(h)[(m + 1) \div 2]
  <2>1. CASE m = 0
    BY <1>2, <2>1 DEF NodeAt
  <2>2. CASE m # 0
    <3>1. m <= Cardinality(Nodes) /\ Cardinality(Nodes) \in Nat
      BY SizeType, TreeFits
    <3>2. (m + 1) \div 2 \in 1..(Cardinality(Nodes) + 1) /\ m + 1 # 1
      BY <1>1, <2>2, <3>1
    <3>3. At(h)[(m + 1) \div 2] = NodeAt(at, m, (m + 1) \div 2)
      BY <3>2, AtFacts
    <3> QED BY <1>2, <3>2, <3>3
  <2> QED BY <2>1, <2>2
<1>4. PICK s \in Heaps, b \in [1..(m + 1) -> Nodes] :
        /\ s = Linked(h, n, up, m + 1)
        /\ s.nelts = m + 1 /\ Tree(s, b, m + 1)
        /\ b[m + 1] = n /\ \A i \in 1..m : b[i] = at[i]
  <2>1. \E s \in Heaps, b \in [1..(m + 1) -> Nodes] :
          /\ s = Linked(h, n, up, m + 1)
          /\ s.nelts = m + 1 /\ Tree(s, b, m + 1)
          /\ b[m + 1] = n /\ \A i \in 1..m : b[i] = at[i]
    BY ONLY <1>2, Tree(h, at, m), n \in Nodes, n \notin Holds(at, m), HangTree
  <2> QED BY <2>1
<1>5. heap_insert(h, k, n) = WalkUp(s, k, n)
  BY ONLY <1>3, <1>4, h.nelts = m, Zenon DEF heap_insert
<1>6. Rises(k, b, m + 1, m + 1)
  <2>1. ASSUME NEW i \in 2..(m + 1), i # m + 1
        PROVE  k[b[i \div 2]] <= k[b[i]]
    <3>1. i \in 2..m /\ i \in 1..m /\ i \div 2 \in 1..m
      BY <1>1, <2>1
    <3>2. k[at[i \div 2]] <= k[at[i]]
      BY <3>1 DEF Ordered
    <3> QED BY <1>4, <3>1, <3>2
  <2>2. \A i \in 2..(m + 1) : i \div 2 # m + 1
    BY <1>1
  <2> QED BY <2>1, <2>2 DEF Rises, Ordered, Spans
<1>7. PICK t, d :
        /\ t = WalkUp(s, k, b[m + 1]) /\ Tree(t, d, m + 1) /\ t.nelts = s.nelts
        /\ Ordered(k, d, m + 1, {}) /\ Holds(d, m + 1) = Holds(b, m + 1)
  <2>1. m + 1 \in 1..(m + 1)
    BY <1>1
  <2>2. Tree(s, b, m + 1)
    BY <1>4
  <2> QED BY <1>6, <2>1, <2>2, WalkUpTree
<1>8. Holds(b, m + 1) = Holds(at, m) \cup {n}
  <2>1. \A i \in 1..(m + 1) : i = m + 1 \/ i \in 1..m
    BY <1>1
  <2>2. m + 1 \in 1..(m + 1) /\ \A i \in 1..m : i \in 1..(m + 1)
    BY <1>1
  <2> QED BY <1>4, <2>1, <2>2 DEF Holds
<1> QED BY <1>4, <1>5, <1>7, <1>8

\* What heap_remove returns.
Removes(h, at, m, k, n) ==
    \E s, b :
      /\ s = heap_remove(h, k, n) /\ Tree(s, b, m - 1) /\ s.nelts = m - 1
      /\ Ordered(k, b, m - 1, {}) /\ Holds(b, m - 1) = Holds(at, m) \ {n}

\* heap_remove: a tree that is ordered and has lost only that node.
LEMMA RemoveTree ==
    ASSUME NEW h, NEW at, NEW m, Tree(h, at, m), h.nelts = m, NEW k \in [Nodes -> Int],
           Ordered(k, at, m, {}), NEW n \in Holds(at, m)
    PROVE  Removes(h, at, m, k, n)
<1> SUFFICES
      \E s, b :
        /\ s = heap_remove(h, k, n) /\ Tree(s, b, m - 1) /\ s.nelts = m - 1
        /\ Ordered(k, b, m - 1, {}) /\ Holds(b, m - 1) = Holds(at, m) \ {n}
  BY DEF Removes
<1>1. /\ m \in Nat /\ at \in [1..m -> Nodes] /\ h \in Heaps
      /\ \A i, q \in 1..m : at[i] = at[q] => i = q
  BY DEF Tree
<1>2. PICK j \in 1..m : n = at[j]
  BY DEF Holds
<1>3. m # 0 /\ m \in 1..m /\ n \in Nodes
  BY <1>1, <1>2
<1>11. PICK o \in Nat : o = m - 1
  BY <1>1, <1>3
<1>12. \A i : i \in 1..m <=> i = m \/ i \in 1..o
  BY <1>1, <1>3, <1>11
<1>13. m \notin 1..o
  BY <1>1, <1>11
<1>4. PICK max \in Nodes : max = at[m] /\ max = At(h)[m]
  <2>1. m <= Cardinality(Nodes) /\ Cardinality(Nodes) \in Nat
    BY SizeType, TreeFits
  <2>2. m \in 1..(Cardinality(Nodes) + 1)
    BY <1>3, <2>1
  <2>3. At(h)[m] = NodeAt(at, m, m)
    BY <2>2, AtFacts
  <2>4. NodeAt(at, m, m) = at[m]
    BY ONLY <1>3, Zenon DEF NodeAt
  <2>5. at[m] \in Nodes
    BY ONLY <1>1, <1>3
  <2> QED BY ONLY <2>3, <2>4, <2>5
<1>5. PICK c \in Heaps, b \in [1..o -> Nodes] :
        /\ c = Cut(h, at[m])
        /\ c.nelts = o /\ Tree(c, b, o)
        /\ \A i \in 1..o : b[i] = at[i]
        /\ at[m] \notin Holds(b, o)
  BY <1>3, <1>11, CutTree, ZenonT(60)
<1>6. c = Cut(h, max)
  BY ONLY <1>4, <1>5
<1>7. Holds(b, o) = Holds(at, m) \ {max}
  <2>1. \A i \in 1..o : i \in 1..m /\ b[i] = at[i] /\ at[i] # max
    <3> SUFFICES ASSUME NEW i \in 1..o
                 PROVE  i \in 1..m /\ b[i] = at[i] /\ at[i] # max
      OBVIOUS
    <3>1. i \in 1..m /\ i # m /\ b[i] = at[i]
      BY <1>5, <1>12, <1>13
    <3> QED BY <1>1, <1>3, <1>4, <3>1
  <2>2. \A i \in 1..m : i = m \/ i \in 1..o
    BY <1>12
  <2>3. max = at[m]
    BY <1>4
  <2> QED BY ONLY <2>1, <2>2, <2>3 DEF Holds
<1>8. \A i \in 2..o : /\ i \in 2..m /\ i \in 1..o /\ i \div 2 \in 1..o
                           /\ k[at[i \div 2]] <= k[at[i]]
                           /\ b[i] = at[i] /\ b[i \div 2] = at[i \div 2]
  <2> SUFFICES ASSUME NEW i \in 2..o
               PROVE  /\ i \in 2..m /\ i \in 1..o /\ i \div 2 \in 1..o
                      /\ k[at[i \div 2]] <= k[at[i]]
                      /\ b[i] = at[i] /\ b[i \div 2] = at[i \div 2]
    OBVIOUS
  <2>1. i \in 2..m /\ i \in 1..o /\ i \div 2 \in 1..o
    BY <1>1, <1>11
  <2> QED BY <1>5, <2>1 DEF Ordered
<1>9. ASSUME max = n
      PROVE  \E s, d :
               /\ s = heap_remove(h, k, n) /\ Tree(s, d, o) /\ s.nelts = o
               /\ Ordered(k, d, o, {}) /\ Holds(d, o) = Holds(at, m) \ {n}
  <2>1. n \notin Holds(b, o) /\ Tree(c, b, o)
    BY <1>4, <1>5, <1>9
  <2>2. PICK s \in Heaps : s = Cleared(c, n) /\ s.nelts = c.nelts /\ Tree(s, b, o)
    BY <1>3, <2>1, ClearTree
  <2>3. s = heap_remove(h, k, n)
    BY ONLY <1>3, <1>4, <1>6, <1>9, <2>2, h.nelts = m, Zenon DEF heap_remove
  <2>4. Ordered(k, b, o, {})
    BY <1>8 DEF Ordered
  <2> QED BY <1>5, <1>7, <1>9, <2>2, <2>3, <2>4
<1>10. ASSUME max # n
       PROVE  \E s, d :
                /\ s = heap_remove(h, k, n) /\ Tree(s, d, o) /\ s.nelts = o
                /\ Ordered(k, d, o, {}) /\ Holds(d, o) = Holds(at, m) \ {n}
  <2>1. j \in 1..o /\ b[j] = n
    BY <1>2, <1>4, <1>5, <1>10, <1>12
  <2>2. PICK p \in Heaps, d \in [1..o -> Nodes] :
             /\ p = Replaced(c, b[j], max)
             /\ p.nelts = c.nelts /\ Tree(p, d, o)
             /\ d[j] = max /\ \A i \in 1..o : i # j => d[i] = b[i]
    <3>1. Tree(c, b, o) /\ max \notin Holds(b, o) /\ max \in Nodes
      BY <1>4, <1>5
    <3>2. j \in 1..o
      BY <2>1
    <3>3. Replaces(c, b, o, j, max)
      BY ONLY <3>1, <3>2, ReplaceTree
    <3> QED BY <3>3 DEF Replaces
  <2>3. heap_remove(h, k, n) = Cleared(WalkUp(WalkDown(p, k, max), k, max), n)
    BY ONLY <1>3, <1>4, <1>6, <1>10, <2>1, <2>2, h.nelts = m, Zenon DEF heap_remove
  <2>4. Sinks(k, d, o, j)
    <3>1. ASSUME NEW i \in 2..o, i # j, i \div 2 # j
          PROVE  k[d[i \div 2]] <= k[d[i]]
      BY <1>8, <2>2, <3>1
    <3>2. ASSUME NEW i \in 2..o, i \div 2 = j, j # 1
          PROVE  k[d[j \div 2]] <= k[d[i]]
      <4>1. j \in 2..o /\ j # i /\ j \div 2 # j
        BY <1>11, <2>1, <3>2
      <4>2. k[at[j \div 2]] <= k[at[j]] /\ d[j \div 2] = at[j \div 2] /\ j \div 2 \in 1..m
        BY <1>8, <1>12, <2>2, <4>1
      <4>3. k[at[j]] <= k[at[i]] /\ d[i] = at[i]
        BY <1>8, <2>2, <3>2, <4>1
      <4>4. k[at[j \div 2]] \in Int /\ k[at[j]] \in Int /\ k[at[i]] \in Int
        BY <1>1, <1>8, <3>2, <4>1, <4>2
      <4> QED BY ONLY <4>2, <4>3, <4>4
    <3> QED BY <3>1, <3>2 DEF Sinks, Ordered, Spans, Below
  <2>5. PICK q, e : \E z \in 1..o :
          /\ q = WalkDown(p, k, d[j]) /\ Tree(q, e, o) /\ q.nelts = p.nelts
          /\ Rises(k, e, o, z) /\ e[z] = d[j] /\ Holds(e, o) = Holds(d, o)
    <3>1. Tree(p, d, o)
      BY <2>2
    <3>2. j \in 1..o /\ k \in [Nodes -> Int]
      BY <2>1
    <3>3. GoesDown(p, d, o, k, j)
      BY ONLY <2>4, <3>1, <3>2, WalkDownTree
    <3> QED BY <3>3 DEF GoesDown
  <2>6. PICK z \in 1..o :
          /\ q = WalkDown(p, k, d[j]) /\ Tree(q, e, o) /\ q.nelts = p.nelts
          /\ Rises(k, e, o, z) /\ e[z] = d[j] /\ Holds(e, o) = Holds(d, o)
    BY <2>5
  <2>7. PICK t, f :
          /\ t = WalkUp(q, k, e[z]) /\ Tree(t, f, o) /\ t.nelts = q.nelts
          /\ Ordered(k, f, o, {}) /\ Holds(f, o) = Holds(e, o)
    BY <2>6, WalkUpTree, SMTT(30)
  <2>8. Holds(d, o) = Holds(at, m) \ {n}
    <3>1. Holds(d, o) = (Holds(b, o) \ {n}) \cup {max}
      <4>1. \A i \in 1..o : d[i] = (IF i = j THEN max ELSE b[i]) /\ (b[i] = n => i = j)
        <5>1. \A i \in 1..o : i \in 1..m /\ b[i] = at[i]
          BY <1>5, <1>12
        <5> QED BY <1>1, <1>2, <2>2, <5>1
      <4> QED BY <2>1, <4>1 DEF Holds
    <3>2. max \in Holds(at, m)
      BY <1>3, <1>4 DEF Holds
    <3> QED BY <1>7, <1>10, <3>1, <3>2
  <2>9. Tree(t, f, o) /\ Holds(f, o) = Holds(at, m) \ {n}
    BY <2>6, <2>7, <2>8
  <2>10. PICK s \in Heaps : s = Cleared(t, n) /\ s.nelts = t.nelts /\ Tree(s, f, o)
    <3>1. n \notin Holds(f, o)
      BY <2>9
    <3> QED BY <1>3, <2>9, <3>1, ClearTree
  <2>11. s = heap_remove(h, k, n)
    BY ONLY <2>2, <2>3, <2>6, <2>7, <2>10, Zenon
  <2> QED BY <1>5, <2>2, <2>6, <2>7, <2>9, <2>10, <2>11
<1>14. \E s, d :
         /\ s = heap_remove(h, k, n) /\ Tree(s, d, o) /\ s.nelts = o
         /\ Ordered(k, d, o, {}) /\ Holds(d, o) = Holds(at, m) \ {n}
  BY <1>9, <1>10
<1> QED BY <1>11, <1>14

\* A key that is given to, or taken from, a node outside a tree is nothing
\* to the order of the tree.
LEMMA OrderedSame ==
    ASSUME NEW h, NEW at, NEW m, Tree(h, at, m), NEW k, NEW g, Ordered(k, at, m, {}),
           \A n \in Holds(at, m) : g[n] = k[n]
    PROVE  Ordered(g, at, m, {})
<1> SUFFICES ASSUME NEW i \in 2..m PROVE g[at[i \div 2]] <= g[at[i]]
  BY DEF Ordered
<1>1. i \in 1..m /\ i \div 2 \in 1..m
  BY DEF Tree
<1>2. at[i] \in Holds(at, m) /\ at[i \div 2] \in Holds(at, m)
  BY <1>1 DEF Holds
<1> QED BY <1>2 DEF Ordered

\* heap_init: a tree without places.
LEMMA HeapStart == HeapInit => HeapInv
<1> SUFFICES ASSUME HeapInit PROVE HeapInv
  OBVIOUS
<1>1. heap = heap_init /\ key = [n \in Nodes |-> Out]
  BY DEF HeapInit
<1>2. heap_init \in Heaps /\ heap_init.nelts = 0 /\ heap_init.min = Null
  BY DEF heap_init, Heaps, Pointers
<1>3. PICK at \in [1..0 -> Nodes] : TRUE
  <2>1. [i \in 1..0 |-> i] \in [1..0 -> Nodes]
    OBVIOUS
  <2> QED BY <2>1
<1>4. NodeAt(at, 0, 1) = Null
  BY DEF NodeAt
<1>5. Tree(heap, at, 0)
  BY <1>1, <1>2, <1>4 DEF Tree
<1>6. Holds(at, 0) = {} /\ Members = {}
  BY <1>1 DEF Holds, Members
<1>7. Ordered(key, at, 0, {})
  BY DEF Ordered
<1>8. key \in [Nodes -> Keys \cup {Out}]
  BY <1>1
<1> QED BY <1>1, <1>2, <1>5, <1>6, <1>7, <1>8 DEF HeapInv

\* Keys can be compared.
LEMMA KeysAreNumbers == \A g \in [Nodes -> Keys \cup {Out}] : g \in [Nodes -> Int]
<1>1. Keys \cup {Out} \subseteq Int
  BY HeapAssumption DEF Out
<1> QED BY <1>1

\* Starting a timer keeps the invariant.
LEMMA InsertKeeps ==
    ASSUME HeapInv, NEW n \in Nodes, InsertNode(n)
    PROVE  HeapInv'
<1>1. /\ heap \in Heaps /\ key \in [Nodes -> Keys \cup {Out}]
      /\ \E at : /\ Tree(heap, at, heap.nelts)
                 /\ Holds(at, heap.nelts) = Members
                 /\ Ordered(key, at, heap.nelts, {})
  BY DEF HeapInv
<1>2. PICK at : /\ Tree(heap, at, heap.nelts)
                /\ Holds(at, heap.nelts) = Members
                /\ Ordered(key, at, heap.nelts, {})
  BY <1>1
<1>3. PICK m : m = heap.nelts
  OBVIOUS
<1>4. PICK u \in Keys : key[n] = Out /\ key' = [key EXCEPT ![n] = u] /\ heap' = heap_insert(heap, key', n)
  BY DEF InsertNode
<1>5. PICK g : g = key'
  OBVIOUS
<1>6. g \in [Nodes -> Keys \cup {Out}] /\ g \in [Nodes -> Int]
  <2>1. g \in [Nodes -> Keys \cup {Out}]
    BY <1>1, <1>4, <1>5
  <2> QED BY <2>1, KeysAreNumbers
<1>7. n \notin Members /\ u # Out
  BY <1>4, HeapAssumption DEF Members, Out
<1>8. {x \in Nodes : g[x] # Out} = Members \cup {n}
  BY <1>1, <1>4, <1>5, <1>7 DEF Members
<1>9. Ordered(g, at, m, {})
  <2>1. \A x \in Holds(at, m) : g[x] = key[x]
    BY <1>1, <1>2, <1>3, <1>4, <1>5, <1>7 DEF Members
  <2>2. Tree(heap, at, m) /\ Ordered(key, at, m, {})
    BY <1>2, <1>3
  <2> QED BY <2>1, <2>2, OrderedSame
<1>10. PICK s, b :
         /\ s = heap_insert(heap, g, n) /\ Tree(s, b, m + 1) /\ s.nelts = m + 1
         /\ Ordered(g, b, m + 1, {}) /\ Holds(b, m + 1) = Holds(at, m) \cup {n}
  <2>1. Tree(heap, at, m) /\ heap.nelts = m /\ n \notin Holds(at, m)
    BY <1>2, <1>3, <1>7
  <2>2. Inserts(heap, at, m, g, n)
    BY <1>6, <1>9, <2>1, InsertTree
  <2> QED BY <2>2 DEF Inserts
<1>11. heap' = s
  BY <1>4, <1>5, <1>10
<1>12. Members' = Holds(b, m + 1)
  BY <1>2, <1>3, <1>5, <1>8, <1>10 DEF Members
<1>13. s \in Heaps
  BY <1>10 DEF Tree
<1> QED BY <1>5, <1>6, <1>10, <1>11, <1>12, <1>13 DEF HeapInv

\* Stopping a timer keeps the invariant.
LEMMA RemoveKeeps ==
    ASSUME HeapInv, NEW n \in Nodes, RemoveNode(n)
    PROVE  HeapInv'
<1>1. /\ heap \in Heaps /\ key \in [Nodes -> Keys \cup {Out}]
      /\ \E at : /\ Tree(heap, at, heap.nelts)
                 /\ Holds(at, heap.nelts) = Members
                 /\ Ordered(key, at, heap.nelts, {})
  BY DEF HeapInv
<1>2. PICK at : /\ Tree(heap, at, heap.nelts)
                /\ Holds(at, heap.nelts) = Members
                /\ Ordered(key, at, heap.nelts, {})
  BY <1>1
<1>3. PICK m : m = heap.nelts
  OBVIOUS
<1>4. key[n] # Out /\ heap' = heap_remove(heap, key, n) /\ key' = [key EXCEPT ![n] = Out]
  BY DEF RemoveNode
<1>5. PICK g : g = key'
  OBVIOUS
<1>6. g \in [Nodes -> Keys \cup {Out}]
  BY <1>1, <1>4, <1>5
<1>7. {x \in Nodes : g[x] # Out} = Members \ {n}
  BY <1>1, <1>4, <1>5 DEF Members
<1>8. PICK s, b :
        /\ s = heap_remove(heap, key, n) /\ Tree(s, b, m - 1) /\ s.nelts = m - 1
        /\ Ordered(key, b, m - 1, {}) /\ Holds(b, m - 1) = Holds(at, m) \ {n}
  <2>1. Tree(heap, at, m) /\ heap.nelts = m /\ Ordered(key, at, m, {}) /\ n \in Holds(at, m)
    BY <1>2, <1>3, <1>4 DEF Members
  <2>2. key \in [Nodes -> Int]
    BY <1>1, KeysAreNumbers
  <2>3. Removes(heap, at, m, key, n)
    BY <2>1, <2>2, RemoveTree
  <2> QED BY <2>3 DEF Removes
<1>9. heap' = s
  BY <1>4, <1>8
<1>10. Members' = Holds(b, m - 1)
  BY <1>2, <1>3, <1>5, <1>7, <1>8 DEF Members
<1>11. Ordered(g, b, m - 1, {})
  <2>1. \A x \in Holds(b, m - 1) : g[x] = key[x]
    BY <1>1, <1>2, <1>3, <1>4, <1>5, <1>8 DEF Members
  <2>2. Tree(s, b, m - 1) /\ Ordered(key, b, m - 1, {})
    BY <1>8
  <2> QED BY <2>1, <2>2, OrderedSame
<1>12. s \in Heaps
  BY <1>8 DEF Tree
<1> QED BY <1>5, <1>6, <1>8, <1>9, <1>10, <1>11, <1>12 DEF HeapInv

\* What the root of a tree is.
LEMMA RootIsNode ==
    ASSUME HeapInv, heap.nelts > 0
    PROVE  heap.min \in Nodes
<1>1. PICK at : Tree(heap, at, heap.nelts)
  BY DEF HeapInv
<1>2. heap.min = NodeAt(at, heap.nelts, 1) /\ heap.nelts \in Nat /\ at \in [1..heap.nelts -> Nodes]
  BY <1>1 DEF Tree
<1>3. 1 \in 1..heap.nelts
  BY <1>2
<1> QED BY <1>2, <1>3 DEF NodeAt

\* Every step keeps the invariant.
LEMMA HeapStep == HeapInv /\ [HeapNext]_heapVars => HeapInv'
<1> SUFFICES ASSUME HeapInv, [HeapNext]_heapVars PROVE HeapInv'
  OBVIOUS
<1>1. CASE heap_dequeue
  <2>1. heap.nelts > 0 /\ RemoveNode(heap.min)
    BY <1>1 DEF heap_dequeue
  <2> QED BY <2>1, RootIsNode, RemoveKeeps
<1>2. ASSUME NEW n \in Nodes, InsertNode(n) PROVE HeapInv'
  BY <1>2, InsertKeeps
<1>3. ASSUME NEW n \in Nodes, RemoveNode(n) PROVE HeapInv'
  BY <1>3, RemoveKeeps
<1>4. CASE UNCHANGED heapVars
  BY <1>4 DEF heapVars, HeapInv, Members
<1> QED BY <1>1, <1>2, <1>3, <1>4 DEF HeapNext

\* The pointers that heap-inl.h keeps are a complete ordered tree of the
\* inserted nodes, whatever is inserted and removed.
THEOREM HeapInductive == HeapSpec => []HeapInv
  BY HeapStart, HeapStep, PTL DEF HeapSpec

\* The nodes with a child on one side, and the children that places f[i] hold.
Parents(at, m, side) == {n \in Holds(at, m) : side[n] # Null}
Children(at, m, f) == {at[f[i]] : i \in {j \in 1..m : f[j] <= m}}

\* As many nodes have a child on one side as nodes are the child of another
\* on that side.
LEMMA SideSize ==
    ASSUME NEW h, NEW at, NEW m, Tree(h, at, m), NEW side \in [Nodes -> Pointers],
           NEW f \in [Nat -> Nat],
           \A i, j \in Nat : f[i] = f[j] => i = j,
           \A i \in 1..m : f[i] >= 1 /\ side[at[i]] = NodeAt(at, m, f[i])
    PROVE  /\ IsFiniteSet(Children(at, m, f))
           /\ Cardinality(Parents(at, m, side)) = Cardinality(Children(at, m, f))
<1> DEFINE L == {n \in Holds(at, m) : side[n] # Null}
           C == {at[f[i]] : i \in {j \in 1..m : f[j] <= m}}
           g == [n \in L |-> side[n]]
<1>1. /\ m \in Nat /\ at \in [1..m -> Nodes]
      /\ \A i, j \in 1..m : at[i] = at[j] => i = j
  BY DEF Tree
<1>2. ASSUME NEW n \in L
      PROVE  \E i \in 1..m : n = at[i] /\ f[i] \in 1..m /\ side[n] = at[f[i]]
  <2>1. PICK i \in 1..m : n = at[i] /\ side[n] # Null
    BY DEF Holds
  <2>2. i \in Nat /\ f[i] \in Nat /\ NodeAt(at, m, f[i]) # Null
    BY <1>1, <2>1
  <2>3. f[i] \in 1..m /\ NodeAt(at, m, f[i]) = at[f[i]]
    BY <2>2, NodeAtFacts
  <2> QED BY <2>1, <2>3
<1>3. ASSUME NEW i \in 1..m, f[i] <= m
      PROVE  at[i] \in L /\ side[at[i]] = at[f[i]] /\ f[i] \in 1..m
  <2>1. f[i] \in 1..m
    BY <1>1, <1>3
  <2>2. side[at[i]] = at[f[i]] /\ at[f[i]] # Null
    BY <2>1, NodeAtFacts
  <2> QED BY <2>1, <2>2 DEF Holds
<1>4. g \in Surjection(L, C)
  <2>1. \A n \in L : side[n] \in C
    BY <1>1, <1>2
  <2>2. g \in [L -> C]
    BY <2>1
  <2>3. \A c \in C : \E n \in L : g[n] = c
    BY <1>3
  <2> QED BY <2>2, <2>3 DEF Surjection
<1>5. g \in Injection(L, C)
  <2>1. ASSUME NEW n \in L, NEW p \in L, side[n] = side[p]
        PROVE  n = p
    <3>1. PICK i \in 1..m : n = at[i] /\ f[i] \in 1..m /\ side[n] = at[f[i]]
      BY <1>2
    <3>2. PICK j \in 1..m : p = at[j] /\ f[j] \in 1..m /\ side[p] = at[f[j]]
      BY <1>2
    <3>3. f[i] = f[j]
      BY <1>1, <2>1, <3>1, <3>2
    <3>4. i \in Nat /\ j \in Nat
      BY <1>1
    <3>5. i = j
      BY <3>3, <3>4
    <3> QED BY <3>1, <3>2, <3>5
  <2>2. g \in [L -> C] /\ DOMAIN g = L
    BY <1>4 DEF Surjection
  <2> QED BY <2>1, <2>2 DEF Injection, IsInjective
<1>6. IsFiniteSet(L)
  <2>1. IsFiniteSet(Holds(at, m)) /\ L \in SUBSET Holds(at, m)
    BY TreeFits
  <2> QED BY <2>1, FS_Subset
<1>7. g \in Bijection(L, C)
  BY <1>4, <1>5 DEF Bijection
<1>8. IsFiniteSet(C) /\ Cardinality(C) = Cardinality(L)
  <2> HIDE DEF L, C, g
  <2> QED BY <1>6, <1>7, FS_Bijection DEF ExistsBijection
<1> QED BY <1>8 DEF Parents, Children

\* Every node but the root is the child of one node.
LEMMA ChildCount ==
    ASSUME NEW h, NEW at, NEW m, Tree(h, at, m)
    PROVE  Cardinality({n \in Holds(at, m) : h.left[n] # Null})
             + Cardinality({n \in Holds(at, m) : h.right[n] # Null})
               = Cardinality(Holds(at, m) \ {h.min})
<1> DEFINE d == [i \in Nat |-> 2 * i]
           e == [i \in Nat |-> 2 * i + 1]
           L == Children(at, m, d)
           R == Children(at, m, e)
<1>1. /\ m \in Nat /\ at \in [1..m -> Nodes] /\ h \in Heaps
      /\ \A i, j \in 1..m : at[i] = at[j] => i = j
      /\ h.min = NodeAt(at, m, 1)
  BY DEF Tree
<1>2. /\ d \in [Nat -> Nat] /\ e \in [Nat -> Nat]
      /\ \A i \in Nat : d[i] = 2 * i /\ e[i] = 2 * i + 1
  OBVIOUS
<1>3. /\ IsFiniteSet(L)
      /\ Cardinality(Parents(at, m, h.left)) = Cardinality(L)
  <2> DEFINE side == h.left
  <2>1. side \in [Nodes -> Pointers] /\ \A i \in 1..m : d[i] >= 1 /\ side[at[i]] = NodeAt(at, m, d[i])
    <3>1. \A i \in 1..m : h.left[at[i]] = NodeAt(at, m, 2 * i) /\ i \in Nat /\ i >= 1
      BY <1>1 DEF Tree
    <3>2. h.left \in [Nodes -> Pointers]
      BY <1>1 DEF Heaps
    <3> QED BY <1>2, <3>1, <3>2
  <2>3. \A i, j \in Nat : d[i] = d[j] => i = j
    BY <1>2
  <2> HIDE DEF d, side
  <2> QED BY <1>2, <2>1, <2>3, SideSize DEF side
<1>4. /\ IsFiniteSet(R)
      /\ Cardinality(Parents(at, m, h.right)) = Cardinality(R)
  <2> DEFINE side == h.right
  <2>1. side \in [Nodes -> Pointers] /\ \A i \in 1..m : e[i] >= 1 /\ side[at[i]] = NodeAt(at, m, e[i])
    <3>1. \A i \in 1..m : h.right[at[i]] = NodeAt(at, m, 2 * i + 1) /\ i \in Nat /\ i >= 1
      BY <1>1 DEF Tree
    <3>2. h.right \in [Nodes -> Pointers]
      BY <1>1 DEF Heaps
    <3> QED BY <1>2, <3>1, <3>2
  <2>3. \A i, j \in Nat : e[i] = e[j] => i = j
    BY <1>2
  <2> HIDE DEF e, side
  <2> QED BY <1>2, <2>1, <2>3, SideSize DEF side
<1>5. ASSUME NEW n \in Holds(at, m) \ {h.min}
      PROVE  n \in L \cup R
  <2>1. PICK i \in 1..m : n = at[i]
    BY DEF Holds
  <2>2. i # 1
    BY <1>1, <1>5, <2>1 DEF NodeAt
  <2>3. PICK u \in Nat : u = i \div 2 /\ u >= 1 /\ u < i /\ (i = 2 * u \/ i = 2 * u + 1)
    BY <1>1, <2>2, HalfFacts
  <2>4. u \in 1..m /\ i <= m
    BY <1>1, <2>3
  <2>5. CASE i = 2 * u
    <3>1. d[u] = i
      BY <1>2, <2>5
    <3> QED BY <2>1, <2>4, <3>1 DEF Children
  <2>6. CASE i = 2 * u + 1
    <3>1. e[u] = i
      BY <1>2, <2>6
    <3> QED BY <2>1, <2>4, <3>1 DEF Children
  <2> QED BY <2>3, <2>5, <2>6
<1>6. ASSUME NEW n \in L
      PROVE  n \in Holds(at, m) \ {h.min} /\ n \notin R
  <2>1. PICK i \in 1..m : d[i] <= m /\ n = at[d[i]]
    BY DEF Children
  <2>2. i \in Nat /\ d[i] = 2 * i /\ 2 * i \in 1..m /\ 2 * i # 1 /\ 1 \in 1..m
    BY <1>1, <1>2, <2>1
  <2>3. n # h.min
    BY <1>1, <2>1, <2>2 DEF NodeAt
  <2>4. ASSUME NEW j \in 1..m, e[j] <= m, n = at[e[j]]
        PROVE  FALSE
    <3>1. j \in Nat /\ e[j] = 2 * j + 1 /\ 2 * j + 1 \in 1..m /\ 2 * j + 1 # 2 * i
      BY <1>1, <1>2, <2>2, <2>4
    <3> QED BY <1>1, <2>1, <2>2, <2>4, <3>1
  <2>5. n \notin R
    BY <2>4 DEF Children
  <2> QED BY <2>1, <2>2, <2>3, <2>5 DEF Holds
<1>7. ASSUME NEW n \in R
      PROVE  n \in Holds(at, m) \ {h.min}
  <2>1. PICK i \in 1..m : e[i] <= m /\ n = at[e[i]]
    BY DEF Children
  <2>2. i \in Nat /\ e[i] = 2 * i + 1 /\ 2 * i + 1 \in 1..m /\ 2 * i + 1 # 1 /\ 1 \in 1..m
    BY <1>1, <1>2, <2>1
  <2>3. n # h.min
    BY <1>1, <2>1, <2>2 DEF NodeAt
  <2> QED BY <2>1, <2>2, <2>3 DEF Holds
<1> HIDE DEF L, R
<1>8. L \cup R = Holds(at, m) \ {h.min} /\ L \cap R = {}
  BY <1>5, <1>6, <1>7
<1>9. Cardinality(L \cup R) = Cardinality(L) + Cardinality(R)
  <2>1. Cardinality(L \cup R) = Cardinality(L) + Cardinality(R) - Cardinality(L \cap R)
    BY <1>3, <1>4, FS_Union
  <2>2. Cardinality(L) \in Nat /\ Cardinality(R) \in Nat /\ Cardinality({}) = 0
    BY <1>3, <1>4, FS_CardinalityType, FS_EmptySet
  <2>3. Cardinality(L \cap R) = 0
    BY <1>8, <2>2
  <2> QED BY ONLY <2>1, <2>2, <2>3
<1> QED BY <1>3, <1>4, <1>8, <1>9 DEF Parents

\* The root of an ordered tree is least.
LEMMA RootLeast ==
    ASSUME NEW h, NEW at, NEW m, Tree(h, at, m), NEW k \in [Nodes -> Int], Ordered(k, at, m, {})
    PROVE  \A i \in 1..m : k[at[1]] <= k[at[i]]
<1> DEFINE W == {i \in 1..m : ~(k[at[1]] <= k[at[i]])}
<1>1. m \in Nat /\ at \in [1..m -> Nodes] /\ W \subseteq Nat
  BY DEF Tree
<1>2. \A i \in 1..m : 1 \in 1..m /\ k[at[i]] \in Int
  BY <1>1
<1> SUFFICES ASSUME W # {} PROVE FALSE
  OBVIOUS
<1>3. PICK i \in W : \A j \in W : i <= j
  <2> HIDE DEF W
  <2> QED BY <1>1, LeastNatural
<1>4. i \in 1..m /\ i # 1
  BY <1>2, <1>3
<1>5. i \in 2..m /\ i \div 2 \in 1..m /\ ~(i <= i \div 2)
  BY <1>1, <1>4
<1>6. k[at[1]] <= k[at[i \div 2]]
  BY <1>3, <1>5
<1>7. k[at[i \div 2]] <= k[at[i]]
  BY <1>5 DEF Ordered
<1>8. k[at[1]] <= k[at[i]]
  BY <1>2, <1>4, <1>5, <1>6, <1>7
<1> QED BY <1>3, <1>8

\* A tree of the members is complete.
LEMMA CompleteFollows == HeapInv => HeapComplete
<1> SUFFICES ASSUME HeapInv PROVE HeapComplete
  OBVIOUS
<1>1. PICK at : Tree(heap, at, heap.nelts) /\ Holds(at, heap.nelts) = Members
  BY DEF HeapInv
<1>2. PICK m : m = heap.nelts
  OBVIOUS
<1>3. /\ Tree(heap, at, m) /\ Holds(at, m) = Members /\ m \in Nat /\ at \in [1..m -> Nodes]
  BY <1>1, <1>2 DEF Tree
<1>4. m = Cardinality(Members) /\ m <= Cardinality(Nodes) /\ Cardinality(Nodes) \in Nat
  BY <1>3, TreeFits, SizeType
<1>5. \A i \in 1..m : At(heap)[i] = at[i]
  <2>1. \A i \in 1..(Cardinality(Nodes) + 1) : At(heap)[i] = NodeAt(at, m, i)
    BY <1>3, AtFacts
  <2>2. \A i \in 1..m : i \in 1..(Cardinality(Nodes) + 1)
    BY <1>3, <1>4
  <2> QED BY <2>1, <2>2 DEF NodeAt
<1>6. {At(heap)[i] : i \in 1..m} = Members
  BY <1>3, <1>5 DEF Holds
<1>7. ASSUME NEW n \in Members, NEW side \in {heap.left, heap.right}, side[n] # Null
      PROVE  heap.parent[side[n]] = n
  <2>1. PICK i \in 1..m : n = at[i]
    BY <1>3 DEF Holds
  <2>2. PICK j \in {2 * i, 2 * i + 1} : side[n] = NodeAt(at, m, j)
    BY <1>3, <2>1 DEF Tree
  <2>3. j \in Nat /\ j \div 2 = i
    BY <1>3, <2>2
  <2>4. j \in 1..m /\ side[n] = at[j]
    BY <1>3, <1>7, <2>2, <2>3, NodeAtFacts
  <2>5. heap.parent[at[j]] = NodeAt(at, m, j \div 2)
    BY <1>3, <2>4 DEF Tree
  <2> QED BY <2>1, <2>3, <2>4, <2>5 DEF NodeAt
<1>8. Cardinality({n \in Members : heap.left[n] # Null})
        + Cardinality({n \in Members : heap.right[n] # Null})
          = Cardinality(Members \ {heap.min})
  BY <1>3, ChildCount
<1> QED BY <1>2, <1>4, <1>6, <1>7, <1>8 DEF HeapComplete

\* An ordered tree has a least member at its root.
LEMMA OrderedFollows == HeapInv => HeapOrdered
<1> SUFFICES ASSUME HeapInv, NEW n \in Members
             PROVE  /\ heap.parent[n] = Null <=> n = heap.min
                    /\ n # heap.min => ~less_than(key, n, heap.parent[n])
                    /\ ~less_than(key, n, heap.min)
  BY DEF HeapOrdered
<1>1. PICK at : /\ Tree(heap, at, heap.nelts) /\ Holds(at, heap.nelts) = Members
                /\ Ordered(key, at, heap.nelts, {}) /\ key \in [Nodes -> Keys \cup {Out}]
  BY DEF HeapInv
<1>2. PICK m : m = heap.nelts
  OBVIOUS
<1>3. /\ Tree(heap, at, m) /\ Holds(at, m) = Members /\ Ordered(key, at, m, {})
      /\ m \in Nat /\ at \in [1..m -> Nodes] /\ key \in [Nodes -> Int]
  BY <1>1, <1>2, KeysAreNumbers DEF Tree
<1>4. PICK i \in 1..m : n = at[i]
  BY <1>3 DEF Holds
<1>5. 1 \in 1..m /\ heap.min = at[1]
  BY <1>3, <1>4 DEF Tree, NodeAt
<1>6. n = heap.min <=> i = 1
  BY <1>3, <1>4, <1>5 DEF Tree
<1>7. heap.parent[n] = NodeAt(at, m, i \div 2)
  BY <1>3, <1>4 DEF Tree
<1>8. i \div 2 \in Nat /\ (i \div 2 \in 1..m <=> i # 1)
  BY <1>3, <1>4
<1>9. heap.parent[n] = Null <=> i = 1
  BY <1>3, <1>7, <1>8, NodeAtFacts
<1>10. ASSUME i # 1
       PROVE  ~less_than(key, n, heap.parent[n])
  <2>1. i \in 2..m /\ heap.parent[n] = at[i \div 2]
    BY <1>3, <1>7, <1>8, <1>10 DEF NodeAt
  <2>2. key[at[i \div 2]] <= key[at[i]]
    BY <1>3, <2>1 DEF Ordered
  <2>3. key[at[i \div 2]] \in Int /\ key[at[i]] \in Int
    BY <1>3, <1>8, <1>10
  <2> QED BY <1>4, <2>1, <2>2, <2>3 DEF less_than
<1>11. ~less_than(key, n, heap.min)
  <2>1. key[at[1]] <= key[at[i]]
    BY <1>3, RootLeast
  <2>2. key[at[1]] \in Int /\ key[at[i]] \in Int
    BY <1>3, <1>5
  <2> QED BY <1>4, <1>5, <2>1, <2>2 DEF less_than
<1> QED BY <1>6, <1>9, <1>10, <1>11

\* heap_min is a least member of the heap, and the tree loses no timer.
THEOREM HeapCorrect == HeapSpec => []HeapRight
<1>1. HeapInv => HeapRight
  BY CompleteFollows, OrderedFollows DEF HeapRight
<1> QED BY <1>1, HeapInductive, PTL
=============================================================================
