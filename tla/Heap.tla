-------------------------------- MODULE Heap --------------------------------
(***************************************************************************)
(* The heap of src/src/heap-inl.h, in which a loop keeps its timers: a     *)
(* complete binary tree of nodes that point at each other, changed by      *)
(* insertion, by removal of the least node and by removal of any other.    *)
(* The operations are operators from heap to heap.                         *)
(***************************************************************************)
EXTENDS Integers, FiniteSets

CONSTANTS
    Nodes,     \* the nodes there are
    Keys       \* what less_than compares

ASSUME HeapAssumption ==
    /\ IsFiniteSet(Nodes) /\ "NULL" \notin Nodes
    /\ Keys \subseteq Nat

VARIABLES
    heap,      \* min, nelts and the three pointers of every node
    key        \* key[n]: the key of n while it is in the heap, else Out

heapVars == <<heap, key>>

Null == "NULL"
Out == -1
Members == {n \in Nodes : key[n] # Out}

heap_init ==
    [min |-> Null, nelts |-> 0, left |-> [n \in Nodes |-> Null],
     right |-> [n \in Nodes |-> Null], parent |-> [n \in Nodes |-> Null]]

SetParent(h, n, p) == IF n = Null THEN h ELSE [h EXCEPT !.parent[n] = p]

\* What pointed at node n, the root or a child pointer of p, points at m.
Redirect(h, p, n, m) ==
    IF p = Null THEN [h EXCEPT !.min = m]
    ELSE IF h.left[p] = n THEN [h EXCEPT !.left[p] = m]
    ELSE [h EXCEPT !.right[p] = m]

\* Child moves closer to the root, parent moves away: the two exchange their
\* pointers, and the neighbours of both learn of it.
heap_node_swap(h, p, c) ==
    LET sibling == IF h.left[p] = c THEN h.right[p] ELSE h.left[p]
        top == h.parent[p]
        exchanged == [h EXCEPT
            !.left[p] = h.left[c], !.right[p] = h.right[c], !.parent[p] = c,
            !.left[c] = IF h.left[p] = c THEN p ELSE h.left[p],
            !.right[c] = IF h.left[p] = c THEN h.right[p] ELSE p,
            !.parent[c] = top]
        told == SetParent(SetParent(SetParent(exchanged, sibling, c),
                                    h.left[c], p), h.right[c], p)
    IN  Redirect(told, top, p, c)

\* The node in place i of the tree, rows from the top and each from the
\* left: the binary digits of i below the first one are the turns from the
\* root, 1 for right.
At(h) ==
    LET node[i \in 1..(Cardinality(Nodes) + 1)] ==
            IF i = 1 THEN h.min
            ELSE LET up == node[i \div 2] IN
                 IF up = Null THEN Null
                 ELSE IF i % 2 = 1 THEN h.right[up] ELSE h.left[up]
    IN  node

less_than(k, m, n) == k[m] < k[n]

\* while (node->parent != NULL && less_than(node, node->parent)) swap: a turn
\* changes nothing once the loop has ended, which takes fewer than |Nodes|.
UpTurn(h, k, n) ==
    IF h.parent[n] # Null /\ less_than(k, n, h.parent[n])
    THEN heap_node_swap(h, h.parent[n], n) ELSE h

WalkUp(h, k, n) ==
    LET walk[t \in 0..Cardinality(Nodes)] ==
            IF t = 0 THEN h ELSE UpTurn(walk[t - 1], k, n)
    IN  walk[Cardinality(Nodes)]

\* The node changes places with its smallest child while that is smaller.
Lesser(k, m, s) == IF m # Null /\ less_than(k, m, s) THEN m ELSE s
smallest(h, k, n) == Lesser(k, h.right[n], Lesser(k, h.left[n], n))

DownTurn(h, k, n) ==
    IF smallest(h, k, n) = n THEN h ELSE heap_node_swap(h, n, smallest(h, k, n))

WalkDown(h, k, n) ==
    LET walk[t \in 0..Cardinality(Nodes)] ==
            IF t = 0 THEN h ELSE DownTurn(walk[t - 1], k, n)
    IN  walk[Cardinality(Nodes)]

\* The new node in its place, below up.
Linked(h, n, up, place) ==
    LET hung == [h EXCEPT !.left[n] = Null, !.right[n] = Null, !.parent[n] = up,
                          !.nelts = place]
    IN  IF up = Null THEN [hung EXCEPT !.min = n]
        ELSE IF place % 2 = 1 THEN [hung EXCEPT !.right[up] = n]
        ELSE [hung EXCEPT !.left[up] = n]

\* The new node goes to the first free place of the bottom row.
heap_insert(h, k, n) ==
    LET place == h.nelts + 1
        up == IF place = 1 THEN Null ELSE At(h)[place \div 2]
    IN  WalkUp(Linked(h, n, up, place), k, n)

\* Unlink the last node of the bottom row.
Cut(h, max) == [Redirect(h, h.parent[max], max, Null) EXCEPT !.nelts = @ - 1]

\* Node max takes the pointers of node n, and the neighbours of n learn of it.
Replaced(h, n, max) ==
    LET child == [h EXCEPT !.left[max] = h.left[n], !.right[max] = h.right[n],
                           !.parent[max] = h.parent[n]]
        told == SetParent(SetParent(child, child.left[max], max), child.right[max], max)
    IN  Redirect(told, told.parent[n], n, max)

\* The pointers of a removed node, which nothing reads before heap_insert sets
\* them, are cleared here.
Cleared(h, n) == [h EXCEPT !.left[n] = Null, !.right[n] = Null, !.parent[n] = Null]

\* Mutant: the node that takes the place of n only moves down.
heap_remove_down(h, k, n) ==
    LET max == At(h)[h.nelts]
        cut == Cut(h, max)
    IN  Cleared(IF h.nelts = 0 THEN h ELSE IF max = n THEN cut
                ELSE WalkDown(Replaced(cut, n, max), k, max), n)

\* The last node of the bottom row takes the place of node n, and moves down
\* or up from there.
heap_remove(h, k, n) ==
    LET max == At(h)[h.nelts]
        cut == Cut(h, max)
        settled == WalkUp(WalkDown(Replaced(cut, n, max), k, max), k, max)
    IN  Cleared(IF h.nelts = 0 THEN h ELSE IF max = n THEN cut ELSE settled, n)

----------------------------------------------------------------------------
(* A timer is started with some key, stopped, or is the next to fire.      *)

InsertNode(n) ==
    /\ key[n] = Out
    /\ \E k \in Keys :
         /\ key' = [key EXCEPT ![n] = k]
         /\ heap' = heap_insert(heap, key', n)

RemoveNode(n) ==
    /\ key[n] # Out
    /\ heap' = heap_remove(heap, key, n)
    /\ key' = [key EXCEPT ![n] = Out]

heap_dequeue == heap.nelts > 0 /\ RemoveNode(heap.min)

HeapInit == heap = heap_init /\ key = [n \in Nodes |-> Out]

HeapNext == heap_dequeue \/ \E n \in Nodes : InsertNode(n) \/ RemoveNode(n)

HeapSpec == HeapInit /\ [][HeapNext]_heapVars

----------------------------------------------------------------------------
(* Properties.                                                             *)

\* The places 1..nelts of the tree, and no others, hold the members, each
\* once: no operation loses a timer or leaves one in the tree.
HeapComplete ==
    LET at == At(heap) IN
    /\ heap.nelts = Cardinality(Members)
    /\ {at[i] : i \in 1..heap.nelts} = Members
    /\ \A n \in Members : \A side \in {heap.left, heap.right} :
           side[n] # Null => heap.parent[side[n]] = n
    /\ Cardinality({n \in Members : heap.left[n] # Null})
         + Cardinality({n \in Members : heap.right[n] # Null})
           = Cardinality(Members \ {heap.min})

\* No member is less than its parent, so heap_min is a least member: the
\* timer that uv__run_timers looks at is the next one due, also after a
\* removal from the middle has put the last node in another subtree.
HeapOrdered ==
    \A n \in Members :
        /\ heap.parent[n] = Null <=> n = heap.min
        /\ n # heap.min => ~less_than(key, n, heap.parent[n])
        /\ ~less_than(key, n, heap.min)

\* The pointers of heap-inl.h form a complete tree of the inserted nodes with
\* the next timer at its root.
HeapRight == HeapComplete /\ HeapOrdered
=============================================================================
