----------------------------- MODULE BinaryHeap -----------------------------
(***************************************************************************)
(* The two binary heaps of vector/binary_heap.c: a min-heap of the nodes   *)
(* still to visit and a bounded max-heap of the nearest ones found.  Both  *)
(* are sequences of [idx, dist]; position 1 is the code's position 0.  The *)
(* code is written twice, with the comparison reversed: here the sign s is *)
(* 1 for the min-heap and -1 for the max-heap.                             *)
(***************************************************************************)
EXTENDS Integers, Sequences

CONSTANT EF_CONSTRUCTION   \* length of the arrays of a heap

(***************************************************************************)
(* A loop of n turns that begins with x: turn k makes turn[k][y] of y.  A  *)
(* loop that the code leaves earlier goes on without changing anything.    *)
(***************************************************************************)
Loop(turn, n, x) ==
  LET After[k \in 0..n] == IF k = 0 THEN x ELSE turn[k][After[k-1]]
  IN  After[n]

Element == [idx : Nat, dist : Nat]
Sifting == [heap : Seq(Element), at : Nat]   \* an element of the heap on its way

Over(s, a, b) == s * a.dist < s * b.dist
Swap(h, i, j) == [h EXCEPT ![i] = h[j], ![j] = h[i]]

Rise(s, t) ==
  LET parent == t.at \div 2
  IN  IF t.at > 1 /\ Over(s, t.heap[t.at], t.heap[parent])
      THEN [heap |-> Swap(t.heap, t.at, parent), at |-> parent] ELSE t

\* The place is at least halved in each turn.
SiftUp(s, h, i) ==
  Loop([k \in 1..i |-> [t \in Sifting |-> Rise(s, t)]], i, [heap |-> h, at |-> i]).heap

\* Of a node and its children, the one that belongs on top.
LeftOrSelf(s, h, i) ==
  IF 2 * i <= Len(h) /\ Over(s, h[2 * i], h[i]) THEN 2 * i ELSE i

Topmost(s, h, i) ==
  LET m == LeftOrSelf(s, h, i)
  IN  IF 2 * i + 1 <= Len(h) /\ Over(s, h[2 * i + 1], h[m]) THEN 2 * i + 1 ELSE m

Sink(s, t) ==
  LET m == Topmost(s, t.heap, t.at)
  IN  IF m = t.at THEN t ELSE [heap |-> Swap(t.heap, t.at, m), at |-> m]

\* The place is at least doubled in each turn.
SiftDown(s, h, i) ==
  Loop([k \in 1..Len(h) |-> [t \in Sifting |-> Sink(s, t)]], Len(h),
       [heap |-> h, at |-> i]).heap

MinInsert(h, e) ==
  IF Len(h) >= EF_CONSTRUCTION THEN h ELSE SiftUp(1, Append(h, e), Len(h) + 1)

\* The rest of a nonempty heap, when its first element is taken.
MinPop(h) ==
  LET rest == SubSeq(h, 1, Len(h) - 1)
  IN  IF rest = <<>> THEN rest ELSE SiftDown(1, [rest EXCEPT ![1] = h[Len(h)]], 1)

MaxInsertAppending(h, capacity, e) ==
  IF Len(h) < capacity THEN Append(h, e)
  ELSE IF e.dist < h[1].dist THEN SiftDown(-1, [h EXCEPT ![1] = e], 1)
  ELSE h

MaxInsert(h, capacity, e) ==
  IF Len(h) < capacity THEN SiftUp(-1, Append(h, e), Len(h) + 1)
  ELSE IF e.dist < h[1].dist THEN SiftDown(-1, [h EXCEPT ![1] = e], 1)
  ELSE h
=============================================================================
