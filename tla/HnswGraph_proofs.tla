------------------------- MODULE HnswGraph_proofs --------------------------
(***************************************************************************)
(* Proofs about the HNSW graph of a segment, for any number of vectors,    *)
(* wherever they lie, any number of links, two levels or more, and any     *)
(* length of the heaps that holds two elements.                            *)
(***************************************************************************)
EXTENDS HnswGraph, TLAPS, FiniteSetTheorems, FunctionTheorems, SequenceTheorems,
        NaturalsInduction, WellFoundedInduction

(***************************************************************************)
(* Loops.                                                                  *)
(***************************************************************************)
LEMMA LeastNatural ==
  ASSUME NEW B \in SUBSET Nat, B # {}
  PROVE  \E n \in B : \A m \in B : n <= m
<1>1. PICK n \in B : \A m \in B : <<m, n>> \notin OpToRel(<, Nat)
  BY NatLessThanWellFounded, WFMin
<1>2. \A m \in B : n \in Nat /\ m \in Nat /\ ~(m < n)
  BY <1>1 DEF OpToRel
<1> QED
  BY <1>2

\* What holds at first and after each turn if it did before, holds at the end.
LEMMA TurnByTurn ==
  ASSUME NEW n \in Nat, NEW T, 0 \in T, \A k \in 1..n : k-1 \in T => k \in T
  PROVE  \A k \in 0..n : k \in T
<1> SUFFICES ASSUME NEW j \in 0..n, j \notin T PROVE FALSE
  OBVIOUS
<1>1. PICK B : B = {k \in 0..n : k \notin T}
  OBVIOUS
<1>2. B \in SUBSET Nat /\ B # {}
  BY <1>1
<1>3. PICK m \in B : \A k \in B : m <= k
  BY <1>2, LeastNatural
<1>4. m \in 1..n /\ m \notin T
  BY <1>1
<1>5. m - 1 \in 0..n /\ ~(m <= m - 1)
  BY <1>4
<1>6. m - 1 \notin B
  BY <1>3, <1>5
<1> QED
  BY <1>1, <1>4, <1>5, <1>6

Turned(turn, x, f, k) == IF k = 0 THEN x ELSE turn[k][f[k-1]]

\* The function that Loop chooses exists: what x is after each of the turns.
LEMMA LoopExists ==
  ASSUME NEW n \in Nat, NEW turn, NEW x
  PROVE  \E f : f = [k \in 0..n |-> Turned(turn, x, f, k)]
<1> DEFINE Has(m) == \E f : f = [k \in 0..m |-> Turned(turn, x, f, k)]
           T == {m \in 0..n : Has(m)}
<1>1. Has(0)
  <2>1. PICK f : f = [k \in 0..0 |-> x]
    OBVIOUS
  <2>2. \A k \in 0..0 : Turned(turn, x, f, k) = x
    BY DEF Turned
  <2>3. f = [k \in 0..0 |-> Turned(turn, x, f, k)]
    BY <2>1, <2>2
  <2> QED
    BY <2>3
<1>2. ASSUME NEW m \in 1..n, Has(m-1)
      PROVE  Has(m)
  <2>1. PICK f : f = [k \in 0..(m-1) |-> Turned(turn, x, f, k)]
    BY <1>2
  <2>2. PICK g : g = [k \in 0..m |-> IF k = m THEN turn[m][f[m-1]] ELSE f[k]]
    OBVIOUS
  <2>3. ASSUME NEW k \in 0..m
        PROVE  g[k] = Turned(turn, x, g, k)
    <3>1. CASE k = m
      <4>1. m-1 \in 0..m /\ m-1 # m
        OBVIOUS
      <4>2. g[m-1] = f[m-1]
        BY <2>2, <4>1
      <4> QED
        BY <2>2, <3>1, <4>2 DEF Turned
    <3>2. CASE k # m
      <4>1. k \in 0..(m-1)
        BY <3>2
      <4>2. g[k] = f[k] /\ f[k] = Turned(turn, x, f, k)
        BY <2>1, <2>2, <3>2, <4>1
      <4>3. k # 0 => k-1 \in 0..m /\ k-1 # m
        BY <4>1
      <4>4. k # 0 => g[k-1] = f[k-1]
        BY <2>2, <4>3
      <4> QED
        BY <4>2, <4>4 DEF Turned
    <3> QED
      BY <3>1, <3>2
  <2>4. g = [k \in 0..m |-> Turned(turn, x, g, k)]
    BY <2>2, <2>3
  <2> QED
    BY <2>4
<1>3. 0 \in T /\ \A m \in 1..n : m-1 \in T => m \in T
  <2>1. 0 \in T
    BY <1>1
  <2>2. ASSUME NEW m \in 1..n, m-1 \in T PROVE m \in T
    BY <1>2, <2>2
  <2> QED
    BY <2>1, <2>2
<1>4. n \in T
  <2> HIDE DEF T
  <2>1. \A m \in 0..n : m \in T
    BY <1>3, TurnByTurn
  <2> QED
    BY <2>1
<1> QED
  BY <1>4

\* G[k] is what may be after k turns.
LEMMA LoopEnds ==
  ASSUME NEW n \in Nat, NEW turn, NEW x, NEW G, x \in G[0],
         \A k \in 1..n : \A y \in G[k-1] : turn[k][y] \in G[k]
  PROVE  Loop(turn, n, x) \in G[n]
<1>1. PICK f : f = CHOOSE g : g = [k \in 0..n |-> Turned(turn, x, g, k)]
  OBVIOUS
<1>2. f = [k \in 0..n |-> Turned(turn, x, f, k)]
  BY <1>1, LoopExists
<1>3. Loop(turn, n, x) = f[n]
  BY <1>1 DEF Loop, Turned
<1>4. PICK T : T = {k \in 0..n : f[k] \in G[k]}
  OBVIOUS
<1>5. 0 \in T
  BY <1>2, <1>4 DEF Turned
<1>6. ASSUME NEW k \in 1..n, k-1 \in T
      PROVE  k \in T
  <2>1. f[k-1] \in G[k-1]
    BY <1>4, <1>6
  <2>2. f[k] = turn[k][f[k-1]]
    BY <1>2 DEF Turned
  <2> QED
    BY <1>4, <2>1, <2>2
<1>7. \A k \in 0..n : k \in T
  BY <1>5, <1>6, TurnByTurn
<1> QED
  BY <1>3, <1>4, <1>7

-----------------------------------------------------------------------------
(***************************************************************************)
(* Heaps.  Sifting changes the places of the elements and nothing else.    *)
(***************************************************************************)
Heap == Seq(Element)

Distinct(h) == \A i, j \in 1..Len(h) : h[i].idx = h[j].idx => i = j

Same(h, r) ==
  /\ r \in Heap /\ Len(r) = Len(h) /\ ToSet(r) = ToSet(h)
  /\ Distinct(h) => Distinct(r)

\* Two elements change places.
LEMMA SwapFacts ==
  ASSUME NEW h \in Heap, NEW i \in 1..Len(h), NEW j \in 1..Len(h), NEW r, r = Swap(h, i, j)
  PROVE  /\ Same(h, r)
         /\ \A k \in 1..Len(h) : r[k] = IF k = j THEN h[i] ELSE IF k = i THEN h[j] ELSE h[k]
<1>1. PICK n \in Nat : n = Len(h)
  BY LenProperties DEF Heap
<1>2. h \in [1..n -> Element] /\ i \in 1..n /\ j \in 1..n
  BY <1>1, LenProperties DEF Heap
<1>3. /\ r \in [1..n -> Element]
      /\ \A k \in 1..n : r[k] = IF k = j THEN h[i] ELSE IF k = i THEN h[j] ELSE h[k]
  BY <1>2 DEF Swap
<1>4. r \in Heap /\ Len(r) = n
  BY <1>3 DEF Heap
<1>5. ToSet(r) = ToSet(h)
  <2>1. \A k \in 1..n : \E m \in 1..n : r[k] = h[m]
    BY <1>2, <1>3
  <2>2. \A k \in 1..n : \E m \in 1..n : h[k] = r[m]
    BY <1>2, <1>3
  <2>3. DOMAIN h = 1..n /\ DOMAIN r = 1..n
    BY <1>2, <1>3
  <2> QED
    <3>1. \A e : (e \in ToSet(h) <=> \E m \in 1..n : e = h[m])
                /\ (e \in ToSet(r) <=> \E m \in 1..n : e = r[m])
      BY <2>3 DEF ToSet
    <3>2. \A e : e \in ToSet(r) <=> e \in ToSet(h)
      BY <2>1, <2>2, <3>1
    <3> QED
      BY <3>2
<1>6. ASSUME Distinct(h) PROVE Distinct(r)
  <2> SUFFICES ASSUME NEW k \in 1..n, NEW m \in 1..n, r[k].idx = r[m].idx PROVE k = m
    BY <1>4 DEF Distinct
  <2>1. \A a, b \in 1..n : h[a].idx = h[b].idx => a = b
    BY <1>1, <1>6 DEF Distinct
  <2> QED
    BY <1>2, <1>3, <2>1
<1> QED
  BY <1>1, <1>3, <1>4, <1>5, <1>6 DEF Same

\* What two changes of places leave is what the first one had.
LEMMA SameTwice ==
  ASSUME NEW h, NEW g, NEW r, Same(h, g), Same(g, r)
  PROVE  Same(h, r)
BY DEF Same

\* The element changes places with its parent, which it belongs over.
Rose(s, t, u) ==
  /\ u.at = t.at \div 2 /\ u.at \in 1..t.at-1 /\ u \in Sifting
  /\ Over(s, t.heap[t.at], t.heap[u.at]) /\ Same(t.heap, u.heap)
  /\ \A k \in 1..Len(t.heap) :
       u.heap[k] = IF k = u.at THEN t.heap[t.at]
                   ELSE IF k = t.at THEN t.heap[u.at] ELSE t.heap[k]

Stayed(s, t, u) == u = t /\ (t.at = 1 \/ ~Over(s, t.heap[t.at], t.heap[t.at \div 2]))

\* One turn on the way up.
LEMMA RiseFacts ==
  ASSUME NEW s, NEW t \in Sifting, t.at \in 1..Len(t.heap), NEW u, u = Rise(s, t)
  PROVE  Stayed(s, t, u) \/ Rose(s, t, u)
<1>1. PICK h \in Heap, a \in Nat : h = t.heap /\ a = t.at
  BY DEF Sifting, Heap
<1>2. PICK n \in Nat : n = Len(h)
  BY <1>1, LenProperties DEF Heap
<1>3. a \in 1..n
  BY <1>1, <1>2
<1>4. CASE a > 1 /\ Over(s, h[a], h[a \div 2])
  <2>1. PICK p : p = a \div 2
    OBVIOUS
  <2>2. p \in 1..a-1 /\ p \in 1..n /\ p \in Nat
    BY <1>3, <1>4, <2>1
  <2>3. u = [heap |-> Swap(h, a, p), at |-> p]
    BY <1>1, <1>4, <2>1 DEF Rise
  <2>4. u.heap = Swap(h, a, p) /\ u.at = p
    BY <2>3
  <2>5. /\ Same(h, u.heap)
        /\ \A k \in 1..Len(h) : u.heap[k] = IF k = p THEN h[a] ELSE IF k = a THEN h[p] ELSE h[k]
    BY <1>1, <1>2, <1>3, <2>2, <2>4, SwapFacts
  <2>6. u \in Sifting
    BY <2>2, <2>3, <2>4, <2>5 DEF Same, Sifting, Heap
  <2> QED
    BY <1>1, <1>4, <2>1, <2>2, <2>4, <2>5, <2>6 DEF Rose
<1>5. CASE ~(a > 1 /\ Over(s, h[a], h[a \div 2]))
  <2>1. u = t
    BY <1>1, <1>5 DEF Rise
  <2> QED
    BY <1>1, <1>3, <1>5, <2>1 DEF Stayed
<1> QED
  BY <1>4, <1>5

\* The root is on top of all others.
RootOnTop(h) == \A k \in 1..Len(h) : h[k].dist <= h[1].dist

\* What may be after k turns, of an element that began at place n.
Risen(h, n, k) ==
  {t \in Sifting :
     /\ Same(h, t.heap) /\ t.at \in 1..n
     /\ (\A m \in 1..n-1 : h[m].dist <= h[1].dist) =>
          IF t.at = 1 THEN RootOnTop(t.heap)
          ELSE /\ \A m \in 1..n : m # t.at => t.heap[m].dist <= t.heap[1].dist
               /\ t.at <= n - k \/ ~Over(-1, t.heap[t.at], t.heap[t.at \div 2])}

\* One turn: only the element on its way may be farther than the root.
LEMMA RiseKeeps ==
  ASSUME NEW h \in Heap, NEW n \in Nat, n = Len(h), NEW k \in 1..n,
         NEW t \in Risen(h, n, k-1), NEW u, u = Rise(-1, t)
  PROVE  u \in Risen(h, n, k)
<1>1. PICK g, a : g = t.heap /\ a = t.at
  OBVIOUS
<1>2. /\ t \in Sifting /\ Same(h, g) /\ a \in 1..n /\ Len(g) = n /\ g \in Heap
      /\ \A m \in 1..n : g[m].dist \in Nat
  <2>1. t \in Sifting /\ Same(h, g) /\ a \in 1..n
    BY <1>1 DEF Risen
  <2>2. Len(g) = n /\ g \in Heap
    BY <2>1 DEF Same
  <2>3. g \in [1..n -> Element]
    BY <2>2, LenProperties DEF Heap
  <2> QED
    BY <2>1, <2>2, <2>3 DEF Element
<1>3. CASE Stayed(-1, t, u)
  <2> SUFFICES ASSUME \A m \in 1..n-1 : h[m].dist <= h[1].dist
               PROVE  IF a = 1 THEN RootOnTop(g)
                      ELSE /\ \A m \in 1..n : m # a => g[m].dist <= g[1].dist
                           /\ a <= n - k \/ ~Over(-1, g[a], g[a \div 2])
    BY <1>1, <1>2, <1>3 DEF Risen, Stayed
  <2> QED
    BY <1>1, <1>3 DEF Risen, Stayed
<1>4. CASE Rose(-1, t, u)
  <2>1. PICK p, r : p = u.at /\ r = u.heap
    OBVIOUS
  <2>2. /\ Same(h, r) /\ p \in 1..n /\ p \in 1..a-1 /\ Len(r) = n
        /\ \A m \in 1..n : r[m] = IF m = p THEN g[a] ELSE IF m = a THEN g[p] ELSE g[m]
    BY <1>1, <1>2, <1>4, <2>1, SameTwice DEF Same, Rose
  <2>3. g[p].dist < g[a].dist
    <3>1. Over(-1, g[a], g[p])
      BY <1>1, <1>4, <2>1 DEF Rose
    <3>2. g[a].dist \in Nat /\ g[p].dist \in Nat
      BY <1>2, <2>2
    <3> QED
      BY <3>1, <3>2 DEF Over
  <2>4. ASSUME \A m \in 1..n-1 : h[m].dist <= h[1].dist
        PROVE  IF p = 1 THEN RootOnTop(r)
               ELSE /\ \A m \in 1..n : m # p => r[m].dist <= r[1].dist
                    /\ p <= n - k \/ ~Over(-1, r[p], r[p \div 2])
    <3>1. /\ \A m \in 1..n : m # a => g[m].dist <= g[1].dist
          /\ a <= n - (k-1) \/ ~Over(-1, g[a], g[a \div 2])
      BY <1>1, <1>2, <2>2, <2>4 DEF Risen
    <3>2. a <= n - (k-1)
      BY <1>1, <1>4, <2>1, <3>1 DEF Rose
    <3>3. CASE p = 1
      BY <1>2, <2>2, <2>3, <3>1, <3>3 DEF RootOnTop
    <3>4. CASE p # 1
      BY <1>2, <2>2, <2>3, <3>1, <3>2, <3>4
    <3> QED
      BY <3>3, <3>4
  <2> QED
    BY <1>4, <2>1, <2>2, <2>4 DEF Risen, Rose
<1>5. Stayed(-1, t, u) \/ Rose(-1, t, u)
  <2>1. t.at \in 1..Len(t.heap)
    BY <1>1, <1>2
  <2> QED
    BY <1>2, <2>1, RiseFacts
<1> QED
  BY <1>2, <1>3, <1>4, <1>5

\* min_heap_sift_up and max_heap_sift_up of the last element.
LEMMA SiftUpFacts ==
  ASSUME NEW s, NEW h \in Heap, NEW n \in Nat, n = Len(h), n # 0
  PROVE  Same(h, SiftUp(s, h, n))
<1>1. PICK turn : turn = [k \in 1..n |-> [t \in Sifting |-> Rise(s, t)]]
  OBVIOUS
<1>2. PICK S : S = {t \in Sifting : Same(h, t.heap) /\ t.at \in 1..n}
  OBVIOUS
<1>3. PICK G : G = [k \in 0..n |-> S]
  OBVIOUS
<1>4. PICK x : x = [heap |-> h, at |-> n]
  OBVIOUS
<1>5. x \in G[0]
  <2>1. x \in Sifting /\ x.heap = h /\ x.at = n /\ Same(h, h)
    BY <1>4 DEF Sifting, Same, Heap
  <2> QED
    BY <1>2, <1>3, <2>1
<1>6. ASSUME NEW k \in 1..n, NEW t \in G[k-1]
      PROVE  turn[k][t] \in G[k]
  <2>1. t \in Sifting /\ Same(h, t.heap) /\ t.at \in 1..n /\ Len(t.heap) = n
    BY <1>2, <1>3, <1>6 DEF Same
  <2>2. PICK u : u = Rise(s, t)
    OBVIOUS
  <2>3. turn[k][t] = u
    BY <1>1, <2>1, <2>2
  <2>4. u = t \/ (u \in Sifting /\ Same(t.heap, u.heap) /\ u.at \in 1..t.at-1)
    BY <2>1, <2>2, RiseFacts DEF Rose, Stayed
  <2>5. u \in S
    BY <1>2, <2>1, <2>4, SameTwice
  <2> QED
    BY <1>3, <2>3, <2>5
<1>7. Loop(turn, n, x) \in G[n]
  BY <1>5, <1>6, LoopEnds
<1> QED
  BY <1>1, <1>2, <1>3, <1>4, <1>7 DEF SiftUp

\* In the max-heap the farthest element comes to the root.
LEMMA SiftUpRoot ==
  ASSUME NEW h \in Heap, NEW n \in Nat, n = Len(h), n # 0,
         \A m \in 1..n-1 : h[m].dist <= h[1].dist
  PROVE  RootOnTop(SiftUp(-1, h, n))
<1>1. PICK turn : turn = [k \in 1..n |-> [t \in Sifting |-> Rise(-1, t)]]
  OBVIOUS
<1>3. PICK G : G = [k \in 0..n |-> Risen(h, n, k)]
  OBVIOUS
<1>4. PICK x : x = [heap |-> h, at |-> n]
  OBVIOUS
<1>5. x \in G[0]
  <2>1. x \in Sifting /\ x.heap = h /\ x.at = n /\ Same(h, h)
    BY <1>4 DEF Sifting, Same, Heap
  <2>2. IF n = 1 THEN RootOnTop(h) ELSE \A m \in 1..n : m # n => h[m].dist <= h[1].dist
    <3>1. h[1].dist \in Nat
      <4>1. h \in [1..n -> Element] /\ 1 \in 1..n
        BY LenProperties DEF Heap
      <4> QED
        BY <4>1 DEF Element
    <3> QED
      BY <3>1 DEF RootOnTop
  <2>3. n <= n - 0
    OBVIOUS
  <2> QED
    BY <1>3, <2>1, <2>2, <2>3 DEF Risen
<1>6. ASSUME NEW k \in 1..n, NEW t \in G[k-1]
      PROVE  turn[k][t] \in G[k]
  <2>1. t \in Risen(h, n, k-1) /\ t \in Sifting
    BY <1>3, <1>6 DEF Risen
  <2>2. turn[k][t] = Rise(-1, t)
    BY <1>1, <2>1
  <2>3. Rise(-1, t) \in Risen(h, n, k)
    BY <2>1, RiseKeeps
  <2> QED
    BY <1>3, <2>2, <2>3
<1>7. Loop(turn, n, x) \in Risen(h, n, n)
  <2>1. Loop(turn, n, x) \in G[n]
    BY <1>5, <1>6, LoopEnds
  <2> QED
    BY <1>3, <2>1
<1>8. PICK t : t = Loop(turn, n, x)
  OBVIOUS
<1>9. SiftUp(-1, h, n) = t.heap
  BY <1>1, <1>4, <1>8 DEF SiftUp
<1>10. RootOnTop(t.heap)
  <2>1. PICK g, a : g = t.heap /\ a = t.at
    OBVIOUS
  <2>2. /\ Same(h, g) /\ a \in 1..n
        /\ IF a = 1 THEN RootOnTop(g)
           ELSE /\ \A m \in 1..n : m # a => g[m].dist <= g[1].dist
                /\ a <= n - n \/ ~Over(-1, g[a], g[a \div 2])
    BY <1>7, <1>8, <2>1 DEF Risen
  <2>3. CASE a # 1
    <3>1. PICK p : p = a \div 2
      OBVIOUS
    <3>2. p \in 1..n /\ p # a
      BY <2>2, <2>3, <3>1
    <3>3. Len(g) = n /\ \A m \in 1..n : g[m].dist \in Nat
      <4>1. g \in [1..n -> Element] /\ Len(g) = n
        BY <2>2, LenProperties DEF Same, Heap
      <4> QED
        BY <4>1 DEF Element
    <3>4. ~Over(-1, g[a], g[p])
      BY <2>2, <2>3, <3>1
    <3>5. g[a].dist <= g[p].dist
      BY <2>2, <3>2, <3>3, <3>4 DEF Over
    <3>6. g[p].dist <= g[1].dist
      BY <2>2, <2>3, <3>2
    <3> QED
      BY <2>1, <2>2, <2>3, <3>2, <3>3, <3>5, <3>6 DEF RootOnTop
  <2> QED
    BY <2>1, <2>2, <2>3
<1> QED
  BY <1>9, <1>10

\* On the way down, the element changes places with one of its children.
LEMMA SinkFacts ==
  ASSUME NEW s, NEW t \in Sifting, t.at \in 1..Len(t.heap), NEW u, u = Sink(s, t)
  PROVE  u \in Sifting /\ u.at \in 1..Len(t.heap) /\ Same(t.heap, u.heap)
<1>1. PICK h \in Heap, a \in Nat : h = t.heap /\ a = t.at
  BY DEF Sifting, Heap
<1>2. PICK n \in Nat : n = Len(h)
  BY LenProperties DEF Heap
<1>3. PICK m : m = Topmost(s, h, a)
  OBVIOUS
<1>4. m \in 1..n
  <2>1. PICK b : b = LeftOrSelf(s, h, a)
    OBVIOUS
  <2>2. b \in 1..n
    BY <1>1, <1>2, <2>1 DEF LeftOrSelf
  <2>3. m = b \/ (m = 2 * a + 1 /\ 2 * a + 1 <= n)
    BY <1>2, <1>3, <2>1 DEF Topmost
  <2> QED
    BY <1>1, <1>2, <2>2, <2>3
<1>5. CASE m = a
  <2>1. u = t
    BY <1>1, <1>3, <1>5 DEF Sink
  <2> QED
    BY <1>1, <2>1 DEF Same
<1>6. CASE m # a
  <2>1. u = [heap |-> Swap(h, a, m), at |-> m]
    BY <1>1, <1>3, <1>6 DEF Sink
  <2>2. u.heap = Swap(h, a, m) /\ u.at = m
    BY <2>1
  <2>3. Same(h, u.heap)
    BY <1>1, <1>2, <1>4, <2>2, SwapFacts
  <2>4. u \in Sifting
    BY <1>4, <2>1, <2>2, <2>3 DEF Same, Sifting, Heap
  <2> QED
    BY <1>1, <1>2, <1>4, <2>2, <2>3, <2>4
<1> QED
  BY <1>5, <1>6

\* min_heap_sift_down from the root.
LEMMA SiftDownFacts ==
  ASSUME NEW s, NEW h \in Heap, NEW n \in Nat, n = Len(h), n # 0
  PROVE  Same(h, SiftDown(s, h, 1))
<1>1. PICK turn : turn = [k \in 1..n |-> [t \in Sifting |-> Sink(s, t)]]
  OBVIOUS
<1>2. PICK S : S = {t \in Sifting : Same(h, t.heap) /\ t.at \in 1..n}
  OBVIOUS
<1>3. PICK G : G = [k \in 0..n |-> S]
  OBVIOUS
<1>4. PICK x : x = [heap |-> h, at |-> 1]
  OBVIOUS
<1>5. x \in G[0]
  <2>1. x \in Sifting /\ x.heap = h /\ x.at = 1 /\ Same(h, h)
    BY <1>4 DEF Sifting, Same, Heap
  <2> QED
    BY <1>2, <1>3, <2>1
<1>6. ASSUME NEW k \in 1..n, NEW t \in G[k-1]
      PROVE  turn[k][t] \in G[k]
  <2>1. t \in Sifting /\ Same(h, t.heap) /\ t.at \in 1..n /\ Len(t.heap) = n
    BY <1>2, <1>3, <1>6 DEF Same
  <2>2. PICK u : u = Sink(s, t)
    OBVIOUS
  <2>3. turn[k][t] = u
    BY <1>1, <2>1, <2>2
  <2>4. u \in Sifting /\ Same(t.heap, u.heap) /\ u.at \in 1..n
    BY <2>1, <2>2, SinkFacts
  <2>5. u \in S
    BY <1>2, <2>1, <2>4, SameTwice
  <2> QED
    BY <1>3, <2>3, <2>5
<1>7. Loop(turn, n, x) \in G[n]
  BY <1>5, <1>6, LoopEnds
<1> QED
  BY <1>1, <1>2, <1>3, <1>4, <1>7 DEF SiftDown


\* The elements of a heap, one by one.
LEMMA ElementsOf ==
  ASSUME NEW h \in Heap
  PROVE  /\ Len(h) \in Nat /\ h \in [1..Len(h) -> Element] /\ DOMAIN h = 1..Len(h)
         /\ \A e : e \in ToSet(h) <=> \E k \in 1..Len(h) : e = h[k]
         /\ ToSet(h) \subseteq Element
<1>1. Len(h) \in Nat /\ h \in [1..Len(h) -> Element] /\ DOMAIN h = 1..Len(h)
  BY LenProperties DEF Heap
<1> QED
  BY <1>1 DEF ToSet

\* An element at the end of a heap, before it is sifted.
LEMMA AppendFacts ==
  ASSUME NEW h \in Heap, NEW e \in Element, NEW r, r = Append(h, e)
  PROVE  /\ r \in Heap /\ Len(r) = Len(h) + 1 /\ ToSet(r) = ToSet(h) \cup {e}
         /\ \A k \in 1..Len(h) : r[k] = h[k]
         /\ Distinct(h) /\ (\A x \in ToSet(h) : x.idx # e.idx) => Distinct(r)
<1>1. PICK n \in Nat : n = Len(h)
  BY ElementsOf
<1>2. /\ r \in Heap /\ Len(r) = n + 1 /\ r[n+1] = e
      /\ \A k \in 1..n : r[k] = h[k]
  BY <1>1, AppendProperties DEF Heap
<1>3. ToSet(r) = ToSet(h) \cup {e}
  <2>1. \A x : x \in ToSet(r) <=> \E k \in 1..n+1 : x = r[k]
    <3>1. \A x : x \in ToSet(r) <=> \E k \in 1..Len(r) : x = r[k]
      BY <1>2, ElementsOf
    <3> QED
      BY <1>2, <3>1
  <2>2. \A x : x \in ToSet(h) <=> \E k \in 1..n : x = h[k]
    BY <1>1, ElementsOf
  <2>3. \A x : (\E k \in 1..n+1 : x = r[k]) <=> ((\E k \in 1..n : x = r[k]) \/ x = r[n+1])
    <3>1. \A k \in 1..n+1 : k \in 1..n \/ k = n+1
      OBVIOUS
    <3>2. n+1 \in 1..n+1 /\ \A k \in 1..n : k \in 1..n+1
      OBVIOUS
    <3> QED
      BY <3>1, <3>2
  <2> QED
    BY <1>2, <2>1, <2>2, <2>3
<1>4. ASSUME Distinct(h), \A x \in ToSet(h) : x.idx # e.idx
      PROVE  Distinct(r)
  <2> SUFFICES ASSUME NEW i \in 1..n+1, NEW j \in 1..n+1, r[i].idx = r[j].idx PROVE i = j
    BY <1>2 DEF Distinct
  <2>1. \A k \in 1..n : h[k] \in ToSet(h)
    BY <1>1, ElementsOf
  <2>2. \A k \in 1..n : r[k].idx # e.idx
    BY <1>2, <1>4, <2>1
  <2>3. \A k, m \in 1..n : h[k].idx = h[m].idx => k = m
    BY <1>1, <1>4 DEF Distinct
  <2> QED
    BY <1>2, <2>2, <2>3
<1> QED
  BY <1>1, <1>2, <1>3, <1>4

\* insertMinHeap, as long as there is room.
LEMMA MinInsertFacts ==
  ASSUME NEW h \in Heap, NEW e \in Element, Len(h) < EF_CONSTRUCTION, NEW r, r = MinInsert(h, e),
         EF_CONSTRUCTION \in Nat
  PROVE  r \in Heap /\ Len(r) = Len(h) + 1 /\ ToSet(r) = ToSet(h) \cup {e}
<1>1. PICK g : g = Append(h, e)
  OBVIOUS
<1>2. PICK n \in Nat : n = Len(h)
  BY ElementsOf
<1>3. g \in Heap /\ Len(g) = n + 1 /\ ToSet(g) = ToSet(h) \cup {e}
  BY <1>1, <1>2, AppendFacts
<1>4. r = SiftUp(1, g, n + 1)
  BY <1>1, <1>2 DEF MinInsert
<1>5. Same(g, r)
  BY <1>3, <1>4, SiftUpFacts
<1> QED
  BY <1>2, <1>3, <1>5 DEF Same

\* insertMaxHeap, as long as there is room.
LEMMA MaxInsertFacts ==
  ASSUME NEW h \in Heap, NEW e \in Element, NEW c \in Nat, Len(h) < c, RootOnTop(h),
         NEW r, r = MaxInsert(h, c, e)
  PROVE  /\ r \in Heap /\ Len(r) = Len(h) + 1 /\ ToSet(r) = ToSet(h) \cup {e}
         /\ Distinct(h) /\ (\A x \in ToSet(h) : x.idx # e.idx) => Distinct(r)
         /\ RootOnTop(r)
<1>1. PICK g : g = Append(h, e)
  OBVIOUS
<1>2. PICK n \in Nat : n = Len(h)
  BY ElementsOf
<1>3. /\ g \in Heap /\ Len(g) = n + 1 /\ ToSet(g) = ToSet(h) \cup {e}
      /\ \A k \in 1..n : g[k] = h[k]
      /\ Distinct(h) /\ (\A x \in ToSet(h) : x.idx # e.idx) => Distinct(g)
  BY <1>1, <1>2, AppendFacts
<1>4. r = SiftUp(-1, g, n + 1)
  BY <1>1, <1>2 DEF MaxInsert
<1>5. Same(g, r)
  <2>1. PICK s : s = -1
    OBVIOUS
  <2>2. r = SiftUp(s, g, n + 1)
    BY <1>4, <2>1
  <2> QED
    BY <1>3, <2>2, SiftUpFacts
<1>6. RootOnTop(r)
  <2>1. \A m \in 1..n : h[m].dist <= h[1].dist
    BY <1>2 DEF RootOnTop
  <2>2. \A m \in 1..n : m \in 1..n /\ 1 \in 1..n
    OBVIOUS
  <2>3. \A m \in 1..n : g[m].dist <= g[1].dist
    BY <1>3, <2>1, <2>2
  <2>4. \A m \in 1..((n+1)-1) : g[m].dist <= g[1].dist
    BY <2>3
  <2>5. PICK N \in Nat : N = n + 1
    OBVIOUS
  <2>6. RootOnTop(SiftUp(-1, g, N))
    BY <1>3, <2>4, <2>5, SiftUpRoot
  <2> QED
    BY <1>4, <2>5, <2>6
<1> QED
  BY <1>2, <1>3, <1>5, <1>6 DEF Same

\* extractMin: the first element is taken, the others stay.
LEMMA MinPopFacts ==
  ASSUME NEW h \in Heap, h # <<>>, NEW r, r = MinPop(h)
  PROVE  /\ r \in Heap /\ Len(r) = Len(h) - 1
         /\ ToSet(r) \subseteq ToSet(h) /\ ToSet(h) \subseteq ToSet(r) \cup {h[1]}
         /\ h[1] \in ToSet(h) /\ Len(h) \in Nat \ {0}
<1>1. PICK n \in Nat : n = Len(h)
  BY ElementsOf
<1>2. n # 0 /\ 1 \in 1..n
  BY <1>1, EmptySeq DEF Heap
<1>3. h \in [1..n -> Element] /\ h[1] \in ToSet(h)
  BY <1>1, <1>2, ElementsOf
<1>4. PICK g : g = SubSeq(h, 1, n - 1)
  OBVIOUS
<1>5. /\ g \in Heap /\ Len(g) = n - 1
      /\ \A k \in 1..n-1 : g[k] = h[k]
  <2>1. g = [k \in 1..n-1 |-> h[k]]
    BY <1>1, <1>4 DEF Heap
  <2>2. g \in [1..n-1 -> Element]
    BY <1>3, <2>1
  <2> QED
    BY <1>2, <2>1, <2>2 DEF Heap
<1>6. CASE g = <<>>
  <2>1. n = 1 /\ r = <<>>
    BY <1>1, <1>2, <1>4, <1>5, <1>6 DEF MinPop
  <2>2. r \in Heap /\ Len(r) = 0 /\ ToSet(r) = {}
    BY <2>1 DEF Heap, ToSet
  <2>3. \A e : e \in ToSet(h) => e = h[1]
    <3>1. \A e : e \in ToSet(h) => \E k \in 1..n : e = h[k]
      BY <1>1, ElementsOf
    <3>2. \A k \in 1..n : k = 1
      BY <2>1
    <3> QED
      BY <3>1, <3>2
  <2> QED
    BY <1>1, <1>3, <2>1, <2>2, <2>3
<1>7. CASE g # <<>>
  <2>1. n - 1 \in Nat /\ n - 1 # 0
    BY <1>2, <1>5, <1>7, EmptySeq DEF Heap
  <2>2. PICK f : f = [g EXCEPT ![1] = h[n]]
    OBVIOUS
  <2>3. /\ f \in Heap /\ Len(f) = n - 1
        /\ \A k \in 1..n-1 : f[k] = IF k = 1 THEN h[n] ELSE h[k]
    <3>1. g \in [1..n-1 -> Element]
      BY <1>5, ElementsOf
    <3>2. h[n] \in Element
      BY <1>2, <1>3
    <3>3. f \in [1..n-1 -> Element] /\ \A k \in 1..n-1 : f[k] = IF k = 1 THEN h[n] ELSE h[k]
      BY <1>5, <2>2, <3>1, <3>2
    <3> QED
      BY <2>1, <3>3 DEF Heap
  <2>4. r = SiftDown(1, f, 1)
    BY <1>1, <1>4, <1>7, <2>2 DEF MinPop
  <2>5. Same(f, r)
    BY <2>1, <2>3, <2>4, SiftDownFacts
  <2>6. ToSet(f) \subseteq ToSet(h) /\ ToSet(h) \subseteq ToSet(f) \cup {h[1]}
    <3>1. \A e : (e \in ToSet(f) <=> \E k \in 1..n-1 : e = f[k])
                /\ (e \in ToSet(h) <=> \E k \in 1..n : e = h[k])
      BY <1>1, <2>3, ElementsOf
    <3>2. \A k \in 1..n-1 : \E m \in 1..n : f[k] = h[m]
      BY <1>2, <2>3
    <3>3. \A k \in 1..n : k = 1 \/ \E m \in 1..n-1 : h[k] = f[m]
      <4> SUFFICES ASSUME NEW k \in 1..n, k # 1 PROVE \E m \in 1..n-1 : h[k] = f[m]
        OBVIOUS
      <4>1. CASE k = n
        <5>1. 1 \in 1..n-1 /\ f[1] = h[n]
          BY <2>1, <2>3
        <5> QED
          BY <4>1, <5>1
      <4>2. CASE k # n
        <5>1. k \in 1..n-1
          BY <4>2
        <5> QED
          BY <2>3, <5>1
      <4> QED
        BY <4>1, <4>2
    <3> QED
      BY <3>1, <3>2, <3>3
  <2> QED
    BY <1>1, <1>2, <1>3, <2>3, <2>5, <2>6 DEF Same
<1> QED
  BY <1>6, <1>7

-----------------------------------------------------------------------------
(***************************************************************************)
(* Searches.  One looks for q at a level, where C is closed under links.   *)
(***************************************************************************)
Closed(lk, level, C) == C \subseteq Node /\ \A n \in C : ToSet(lk[n][level]) \subseteq C

SearchArgs(lk, q, level, ef, C) ==
  /\ q \in Int /\ position \in [Node -> Int]
  /\ lk \in Links /\ level \in GraphLevel /\ ef \in 2..EF_CONSTRUCTION
  /\ Closed(lk, level, C)

\* The elements of a heap are nodes of V, each with its distance from q.
Of(q, h, V) == \A e \in ToSet(h) : e.idx \in V /\ e = At(q, e.idx)

(***************************************************************************)
(* While a search goes on: what is visited lies in C and is what the       *)
(* results hold, the farthest first; the heap of the nodes to visit holds  *)
(* no more elements than that of the results.                              *)
(***************************************************************************)
SearchSound(q, ef, C, s) ==
  /\ s \in Searching /\ s.visited \subseteq C
  /\ Of(q, s.results, s.visited) /\ \A n \in s.visited : At(q, n) \in ToSet(s.results)
  /\ Distinct(s.results) /\ RootOnTop(s.results)
  /\ Len(s.results) <= ef /\ (s.breaking <=> Len(s.results) >= ef)
  /\ Of(q, s.to_visit, s.visited) /\ Len(s.to_visit) <= Len(s.results)

\* How many nodes have been expanded.
Gap(s) == Len(s.results) - Len(s.to_visit)

\* From s to u nothing is forgotten, and what is new is still to be expanded.
Grown(q, s, u) ==
  /\ s.visited \subseteq u.visited /\ ToSet(s.to_visit) \subseteq ToSet(u.to_visit)
  /\ s.breaking => u.breaking
  /\ \A n \in u.visited : n \in s.visited \/ At(q, n) \in ToSet(u.to_visit)
  /\ Gap(u) = Gap(s)

\* The state of a search, with its parts.
LEMMA SearchTypes ==
  ASSUME NEW s \in Searching
  PROVE  /\ s.to_visit \in Heap /\ s.results \in Heap /\ s.visited \in SUBSET Node
         /\ s.breaking \in BOOLEAN
         /\ Len(s.to_visit) \in Nat /\ Len(s.results) \in Nat
<1>1. /\ s.to_visit \in Heap /\ s.results \in Heap /\ s.visited \in SUBSET Node
      /\ s.breaking \in BOOLEAN
  BY DEF Searching, Heap
<1> QED
  BY <1>1, ElementsOf

\* A node with its distance from q is an element of a heap.
LEMMA AtFacts ==
  ASSUME NEW q \in Int, position \in [Node -> Int], NEW n \in Node
  PROVE  At(q, n) \in Element /\ At(q, n).idx = n
<1>1. n \in Nat /\ position[n] \in Int
  BY GraphAssumption DEF Node
<1>2. PICK p \in Int : p = position[n]
  BY <1>1
<1>3. Dist(q, p) \in Nat
  BY DEF Dist
<1> QED
  BY <1>1, <1>2, <1>3 DEF At, Element

\* What two steps of a search keep, they keep together.
LEMMA GrownTwice ==
  ASSUME NEW q, NEW s, NEW t, NEW u, Grown(q, s, t), Grown(q, t, u)
  PROVE  Grown(q, s, u)
BY DEF Grown

(***************************************************************************)
(* A neighbor that is met: as long as the search goes on there is room for *)
(* it in both heaps.                                                       *)
(***************************************************************************)
LEMMA MeetFacts ==
  ASSUME NEW lk, NEW q, NEW level, NEW ef, NEW C, SearchArgs(lk, q, level, ef, C),
         NEW s, SearchSound(q, ef, C, s), NEW n \in C, NEW u, u = Meet(q, ef, s, n)
  PROVE  SearchSound(q, ef, C, u) /\ Grown(q, s, u) /\ (u.breaking \/ n \in u.visited)
<1>1. PICK e : e = At(q, n)
  OBVIOUS
<1>2. /\ s \in Searching /\ s.to_visit \in Heap /\ s.results \in Heap
      /\ s.visited \in SUBSET Node /\ s.breaking \in BOOLEAN
      /\ Len(s.to_visit) \in Nat /\ Len(s.results) \in Nat
  BY SearchTypes DEF SearchSound
<1>3. n \in Node /\ ef \in Nat /\ ef <= EF_CONSTRUCTION /\ EF_CONSTRUCTION \in Nat
  BY GraphAssumption DEF SearchArgs, Closed
<1>4. e \in Element /\ e.idx = n
  BY <1>1, <1>3, AtFacts DEF SearchArgs
<1>5. CASE s.breaking \/ n \in s.visited
  <2>1. u = s
    BY <1>5 DEF Meet
  <2> QED
    BY <1>2, <1>5, <2>1 DEF Grown
<1>6. CASE ~(s.breaking \/ n \in s.visited)
  <2>1. Len(s.results) < ef /\ Len(s.to_visit) < EF_CONSTRUCTION
    BY <1>2, <1>3, <1>6 DEF SearchSound
  <2>2. PICK r, v : r = MaxInsert(s.results, ef + 1, e) /\ v = MinInsert(s.to_visit, e)
    OBVIOUS
  <2>3. u = [to_visit |-> v, results |-> r, visited |-> s.visited \cup {n},
             breaking |-> Len(r) >= ef]
    BY <1>1, <1>6, <2>1, <2>2 DEF Meet
  <2>4. v \in Heap /\ Len(v) = Len(s.to_visit) + 1 /\ ToSet(v) = ToSet(s.to_visit) \cup {e}
    BY <1>2, <1>3, <1>4, <2>1, <2>2, MinInsertFacts
  <2>5. \A x \in ToSet(s.results) : x.idx # e.idx
    BY <1>4, <1>6 DEF SearchSound, Of
  <2>6. ef + 1 \in Nat /\ Len(s.results) < ef + 1
    BY <1>2, <1>3, <2>1
  <2>7. /\ r \in Heap /\ Len(r) = Len(s.results) + 1 /\ ToSet(r) = ToSet(s.results) \cup {e}
        /\ Distinct(r) /\ RootOnTop(r)
    BY <1>2, <1>4, <2>2, <2>5, <2>6, MaxInsertFacts DEF SearchSound
  <2>8. /\ u.to_visit = v /\ u.results = r /\ u.visited = s.visited \cup {n}
        /\ u.breaking = (Len(r) >= ef)
    BY <2>3
  <2>9. u \in Searching
    BY <1>2, <1>3, <2>3, <2>4, <2>7 DEF Searching, Heap
  <2>10. Of(q, r, u.visited) /\ \A x \in u.visited : At(q, x) \in ToSet(r)
    BY <1>1, <1>4, <2>7, <2>8 DEF SearchSound, Of
  <2>11. Of(q, v, u.visited)
    BY <1>1, <1>4, <2>4, <2>8 DEF SearchSound, Of
  <2>12. Len(v) <= Len(r) /\ Len(r) <= ef /\ (u.breaking <=> Len(r) >= ef)
    <3>1. Len(s.to_visit) <= Len(s.results)
      BY DEF SearchSound
    <3>2. Len(v) <= Len(r) /\ Len(r) <= ef
      BY <1>2, <1>3, <2>1, <2>4, <2>7, <3>1
    <3>3. u.breaking <=> Len(r) >= ef
      BY <2>8, Zenon
    <3> QED
      BY <3>2, <3>3
  <2>13. SearchSound(q, ef, C, u)
    <3>1. u.visited \subseteq C
      BY <2>8 DEF SearchSound
    <3> QED
      BY <2>7, <2>8, <2>9, <2>10, <2>11, <2>12, <3>1 DEF SearchSound
  <2>14. Grown(q, s, u)
    <3>1. Gap(u) = Gap(s)
      BY <1>2, <2>4, <2>7, <2>8 DEF Gap
    <3> QED
      BY <1>1, <1>6, <2>4, <2>8, <3>1 DEF Grown
  <2> QED
    BY <2>8, <2>13, <2>14
<1> QED
  BY <1>5, <1>6

\* All the neighbors of a node are met, one after the other.
LEMMA MeetAllFacts ==
  ASSUME NEW lk, NEW q, NEW level, NEW ef, NEW C, SearchArgs(lk, q, level, ef, C),
         NEW s, SearchSound(q, ef, C, s), NEW neighbors \in Seq(Node), ToSet(neighbors) \subseteq C,
         NEW u, u = MeetAll(q, ef, s, neighbors)
  PROVE  /\ SearchSound(q, ef, C, u) /\ Grown(q, s, u)
         /\ u.breaking \/ ToSet(neighbors) \subseteq u.visited
<1>1. PICK n \in Nat : n = Len(neighbors)
  BY LenProperties
<1>2. DOMAIN neighbors = 1..n
  BY <1>1, LenProperties
<1>3. PICK turn : turn = [k \in DOMAIN neighbors |->
                            [t \in Searching |-> Meet(q, ef, t, neighbors[k])]]
  OBVIOUS
<1>4. PICK G : G = [k \in 0..n |->
                      {t \in Searching :
                         /\ SearchSound(q, ef, C, t) /\ Grown(q, s, t)
                         /\ t.breaking \/ \A j \in 1..k : neighbors[j] \in t.visited}]
  OBVIOUS
<1>5. s \in G[0]
  <2>1. 0 \in 0..n /\ \A j \in 1..0 : FALSE
    OBVIOUS
  <2>2. s \in Searching
    BY DEF SearchSound
  <2>3. Grown(q, s, s)
    BY DEF Grown
  <2> QED
    BY <1>4, <2>1, <2>2, <2>3
<1>6. ASSUME NEW k \in 1..n, NEW t \in G[k-1]
      PROVE  turn[k][t] \in G[k]
  <2>1. k \in 0..n /\ k-1 \in 0..n
    OBVIOUS
  <2>2. /\ t \in Searching /\ SearchSound(q, ef, C, t) /\ Grown(q, s, t)
        /\ t.breaking \/ \A j \in 1..k-1 : neighbors[j] \in t.visited
    BY <1>4, <2>1
  <2>3. PICK w : w = Meet(q, ef, t, neighbors[k])
    OBVIOUS
  <2>4. turn[k][t] = w
    BY <1>2, <1>3, <2>2, <2>3
  <2>5. neighbors[k] \in C
    BY <1>2 DEF ToSet
  <2>6. SearchSound(q, ef, C, w) /\ Grown(q, t, w) /\ (w.breaking \/ neighbors[k] \in w.visited)
    BY <2>2, <2>3, <2>5, MeetFacts
  <2>7. Grown(q, s, w)
    BY <2>2, <2>6, GrownTwice
  <2>8. w.breaking \/ \A j \in 1..k : neighbors[j] \in w.visited
    <3>1. \A j \in 1..k : j = k \/ j \in 1..k-1
      OBVIOUS
    <3>2. (t.breaking => w.breaking) /\ t.visited \subseteq w.visited
      BY <2>6 DEF Grown
    <3> QED
      BY <2>2, <2>6, <3>1, <3>2
  <2>9. w \in Searching
    BY <2>6 DEF SearchSound
  <2> QED
    BY <1>4, <2>1, <2>4, <2>6, <2>7, <2>8, <2>9
<1>7. Loop(turn, n, s) \in G[n]
  BY <1>5, <1>6, LoopEnds
<1>8. u \in G[n]
  BY <1>1, <1>3, <1>7 DEF MeetAll
<1>9. n \in 0..n
  OBVIOUS
<1>10. /\ SearchSound(q, ef, C, u) /\ Grown(q, s, u)
       /\ u.breaking \/ \A j \in 1..n : neighbors[j] \in u.visited
  BY <1>4, <1>8, <1>9
<1> QED
  BY <1>2, <1>10 DEF ToSet

\* A visited node is still to be expanded, or the search knows its neighbors.
Followed(lk, q, level, s) ==
  s.breaking \/ \A n \in s.visited :
                  At(q, n) \in ToSet(s.to_visit) \/ ToSet(lk[n][level]) \subseteq s.visited

Ended(s) == s.to_visit = <<>> \/ s.breaking

\* The farthest result never stops a search: the nearest node to visit is a result itself.
LEMMA NeverCut ==
  ASSUME NEW lk, NEW q, NEW level, NEW ef, NEW C, SearchArgs(lk, q, level, ef, C),
         NEW s, SearchSound(q, ef, C, s), NEW e \in ToSet(s.to_visit)
  PROVE  ~(s.results[1].dist < e.dist)
<1>1. s.results \in Heap /\ Len(s.results) \in Nat
  BY SearchTypes DEF SearchSound
<1>2. e.idx \in s.visited /\ e = At(q, e.idx)
  BY DEF SearchSound, Of
<1>3. e \in ToSet(s.results)
  BY <1>2 DEF SearchSound
<1>4. PICK k \in 1..Len(s.results) : s.results[k] = e
  BY <1>1, <1>3, ElementsOf
<1>5. e.dist <= s.results[1].dist
  BY <1>4 DEF SearchSound, RootOnTop
<1>6. e \in Element /\ s.results[1] \in Element
  <2>1. s.results \in [1..Len(s.results) -> Element] /\ ToSet(s.results) \subseteq Element
    BY <1>1, ElementsOf
  <2>2. 1 \in 1..Len(s.results)
    BY <1>1, <1>4
  <2> QED
    BY <1>3, <2>1, <2>2
<1> QED
  BY <1>5, <1>6 DEF Element

\* The expansion of the nearest node to visit.
LEMMA ExpandFacts ==
  ASSUME NEW lk, NEW q, NEW level, NEW ef, NEW C, SearchArgs(lk, q, level, ef, C),
         NEW s, SearchSound(q, ef, C, s), Followed(lk, q, level, s),
         NEW u, u = ExpandNearest(lk, q, level, ef, s)
  PROVE  /\ SearchSound(q, ef, C, u) /\ Followed(lk, q, level, u)
         /\ s.visited \subseteq u.visited
         /\ Ended(s) => u = s
         /\ ~Ended(s) => Gap(u) = Gap(s) + 1
<1>1. /\ s \in Searching /\ s.to_visit \in Heap /\ s.results \in Heap
      /\ s.visited \in SUBSET Node /\ s.breaking \in BOOLEAN
      /\ Len(s.to_visit) \in Nat /\ Len(s.results) \in Nat
  BY SearchTypes DEF SearchSound
<1>2. CASE Ended(s)
  <2>1. u = s
    BY <1>2 DEF Ended, ExpandNearest
  <2> QED
    BY <1>2, <2>1
<1>3. CASE ~Ended(s)
  <2>1. s.to_visit # <<>> /\ ~s.breaking
    BY <1>3 DEF Ended
  <2>2. PICK cur, v : cur = s.to_visit[1] /\ v = MinPop(s.to_visit)
    OBVIOUS
  <2>3. /\ v \in Heap /\ Len(v) = Len(s.to_visit) - 1 /\ Len(s.to_visit) \in Nat \ {0}
        /\ ToSet(v) \subseteq ToSet(s.to_visit) /\ ToSet(s.to_visit) \subseteq ToSet(v) \cup {cur}
        /\ cur \in ToSet(s.to_visit)
    BY <1>1, <2>1, <2>2, MinPopFacts
  <2>4. PICK t : t = [s EXCEPT !.to_visit = v]
    OBVIOUS
  <2>5. ~(s.results[1].dist < cur.dist)
    BY <2>3, NeverCut
  <2>6. u = MeetAll(q, ef, t, lk[cur.idx][level])
    BY <2>1, <2>2, <2>4, <2>5 DEF ExpandNearest
  <2>7. /\ t \in Searching /\ t.to_visit = v /\ t.results = s.results
        /\ t.visited = s.visited /\ t.breaking = s.breaking
    BY <1>1, <2>3, <2>4 DEF Searching, Heap
  <2>8. SearchSound(q, ef, C, t)
    <3>1. Of(q, v, s.visited)
      BY <2>3 DEF SearchSound, Of
    <3>2. Len(v) <= Len(s.results)
      BY <1>1, <2>3 DEF SearchSound
    <3> QED
      BY <2>7, <3>1, <3>2 DEF SearchSound
  <2>9. cur.idx \in s.visited /\ cur = At(q, cur.idx) /\ cur.idx \in C /\ cur.idx \in Node
    BY <1>1, <2>3 DEF SearchSound, Of
  <2>10. lk[cur.idx][level] \in Seq(Node) /\ ToSet(lk[cur.idx][level]) \subseteq C
    BY <2>9 DEF SearchArgs, Links, Closed
  <2>11. /\ SearchSound(q, ef, C, u) /\ Grown(q, t, u)
         /\ u.breaking \/ ToSet(lk[cur.idx][level]) \subseteq u.visited
    BY <2>6, <2>8, <2>10, MeetAllFacts
  <2>12. Gap(u) = Gap(s) + 1
    <3>1. Gap(u) = Gap(t)
      BY <2>11 DEF Grown
    <3>2. Gap(t) = Gap(s) + 1
      <4>1. Len(t.results) = Len(s.results) /\ Len(t.to_visit) = Len(s.to_visit) - 1
        BY <2>3, <2>7
      <4>2. PICK a \in Nat, b \in Nat : a = Len(s.results) /\ b = Len(s.to_visit)
        BY <1>1
      <4>3. Gap(t) = a - (b - 1) /\ Gap(s) = a - b
        BY <4>1, <4>2 DEF Gap
      <4> QED
        BY <4>3
    <3> QED
      BY <3>1, <3>2
  <2>13. Followed(lk, q, level, u)
    <3> SUFFICES ASSUME ~u.breaking, NEW n \in u.visited
                 PROVE  At(q, n) \in ToSet(u.to_visit) \/ ToSet(lk[n][level]) \subseteq u.visited
      BY DEF Followed
    <3>1. ~s.breaking
      BY <2>1
    <3>2. CASE n \notin s.visited
      BY <2>7, <2>11, <3>2 DEF Grown
    <3>3. CASE n \in s.visited
      <4>1. At(q, n) \in ToSet(s.to_visit) \/ ToSet(lk[n][level]) \subseteq s.visited
        BY <3>1, <3>3 DEF Followed
      <4>2. s.visited \subseteq u.visited /\ ToSet(v) \subseteq ToSet(u.to_visit)
        BY <2>7, <2>11 DEF Grown
      <4>3. CASE At(q, n) = cur
        <5>1. cur.idx = n
          BY <4>3 DEF At
        <5> QED
          BY <2>11, <5>1
      <4>4. CASE At(q, n) # cur
        BY <2>3, <4>1, <4>2, <4>4
      <4> QED
        BY <4>3, <4>4
    <3> QED
      BY <3>2, <3>3
  <2> QED
    BY <1>3, <2>7, <2>11, <2>12, <2>13 DEF Grown
<1> QED
  BY <1>2, <1>3

\* Different nodes: as many as the heap has elements.
LEMMA HeapCardinality ==
  ASSUME NEW h \in Heap, Distinct(h), NEW S, S = {e.idx : e \in ToSet(h)}
  PROVE  IsFiniteSet(S) /\ Cardinality(S) = Len(h)
<1>1. PICK n \in Nat : n = Len(h)
  BY ElementsOf
<1>2. PICK f : f = [k \in 1..n |-> h[k].idx]
  OBVIOUS
<1>3. \A e : e \in ToSet(h) <=> \E k \in 1..n : e = h[k]
  BY <1>1, ElementsOf
<1>4. \A i, j \in 1..n : f[i] = f[j] => i = j
  BY <1>1, <1>2 DEF Distinct
<1>5. f \in [1..n -> S]
  BY <1>2, <1>3
<1>6. \A x \in S : \E k \in 1..n : f[k] = x
  BY <1>2, <1>3
<1>7. ExistsBijection(1..n, S)
  <2>1. IsInjective(f)
    BY <1>4, <1>5 DEF IsInjective
  <2>2. f \in Bijection(1..n, S)
    BY <1>5, <1>6, <2>1 DEF Bijection, Injection, Surjection
  <2> QED
    BY <2>2 DEF ExistsBijection
<1>8. IsFiniteSet(1..n) /\ Cardinality(1..n) = n
  BY FS_Interval
<1> QED
  BY <1>1, <1>7, <1>8, FS_Bijection

\* A segment has Total nodes.
LEMMA NodesFinite ==
  IsFiniteSet(Node) /\ Cardinality(Node) = Total
<1>1. 0 \in Int /\ Total - 1 \in Int /\ Total \in Nat \ {0}
  BY GraphAssumption
<1> QED
  BY <1>1, FS_Interval DEF Node

Indices(h) == {e.idx : e \in ToSet(h)}

\* Where a search begins.
Beginning(q, from) ==
  [to_visit |-> <<At(q, from)>>, results |-> <<At(q, from)>>, visited |-> {from},
   breaking |-> FALSE]

\* The heap of the candidates that a search ends with.
Finds(lk, q, from, level, ef, C, r) ==
  /\ r \in Heap /\ Distinct(r) /\ Len(r) <= ef
  /\ from \in Indices(r) /\ Indices(r) \subseteq C
  /\ Len(r) = ef \/ \A n \in Indices(r) : ToSet(lk[n][level]) \subseteq Indices(r)

(***************************************************************************)
(* searchNeighborsEf: it ends with ef candidates, or with all that links   *)
(* lead to.  Each turn expands one more node, so that none is left after   *)
(* as many turns as there are nodes.                                       *)
(***************************************************************************)
LEMMA SearchEnds ==
  ASSUME NEW lk, NEW q, NEW level, NEW ef, NEW C, SearchArgs(lk, q, level, ef, C),
         NEW from \in C
  PROVE  Finds(lk, q, from, level, ef, C, Expand(lk, q, level, ef, Beginning(q, from)))
<1>1. PICK x : x = Beginning(q, from)
  OBVIOUS
<1>2. PICK turn : turn = [k \in 1..Total |->
                            [t \in Searching |-> ExpandNearest(lk, q, level, ef, t)]]
  OBVIOUS
<1>3. PICK G : G = [k \in 0..Total |->
                      {s \in Searching :
                         /\ SearchSound(q, ef, C, s) /\ Followed(lk, q, level, s)
                         /\ from \in s.visited
                         /\ Ended(s) \/ Gap(s) >= k}]
  OBVIOUS
<1>4. Total \in Nat /\ ef \in Nat /\ ef > 1 /\ C \subseteq Node /\ from \in Node
  BY GraphAssumption DEF SearchArgs, Closed
<1>5. x \in G[0]
  <2>1. PICK e : e = At(q, from)
    OBVIOUS
  <2>2. e \in Element /\ e.idx = from
    BY <1>4, <2>1, AtFacts DEF SearchArgs
  <2>3. PICK h : h = <<e>>
    OBVIOUS
  <2>4. h \in Heap /\ Len(h) = 1 /\ h[1] = e
    BY <2>2, <2>3 DEF Heap
  <2>5. ToSet(h) = {e}
    <3>1. \A k \in 1..Len(h) : k = 1
      BY <2>4
    <3>2. 1 \in 1..Len(h)
      BY <2>4
    <3>3. \A y : y \in ToSet(h) <=> y = e
      BY <2>4, <3>1, <3>2, ElementsOf
    <3> QED
      BY <3>3
  <2>6. Distinct(h) /\ RootOnTop(h)
    <3>1. \A k \in 1..Len(h) : k = 1
      BY <2>4
    <3>2. h[1].dist <= h[1].dist
      BY <2>2, <2>4 DEF Element
    <3> QED
      BY <3>1, <3>2 DEF Distinct, RootOnTop
  <2>7. /\ x.to_visit = h /\ x.results = h /\ x.visited = {from} /\ x.breaking = FALSE
        /\ x = [to_visit |-> h, results |-> h, visited |-> {from}, breaking |-> FALSE]
    BY <1>1, <2>1, <2>3 DEF Beginning
  <2>8. x \in Searching
    BY <1>4, <2>4, <2>7 DEF Searching, Heap
  <2>9. Of(q, h, {from}) /\ At(q, from) \in ToSet(h)
    BY <2>1, <2>2, <2>5 DEF Of
  <2>10. Len(h) <= ef /\ (x.breaking <=> Len(h) >= ef) /\ Len(h) <= Len(h)
    BY <1>4, <2>4, <2>7
  <2>11. SearchSound(q, ef, C, x)
    BY <2>6, <2>7, <2>8, <2>9, <2>10 DEF SearchSound
  <2>12. Followed(lk, q, level, x)
    BY <2>7, <2>9 DEF Followed
  <2>13. Gap(x) >= 0 /\ 0 \in 0..Total
    BY <1>4, <2>4, <2>7 DEF Gap
  <2> QED
    BY <1>3, <2>7, <2>8, <2>11, <2>12, <2>13
<1>6. ASSUME NEW k \in 1..Total, NEW s \in G[k-1]
      PROVE  turn[k][s] \in G[k]
  <2>1. k \in 0..Total /\ k-1 \in 0..Total
    BY <1>4
  <2>2. /\ s \in Searching /\ SearchSound(q, ef, C, s) /\ Followed(lk, q, level, s)
        /\ from \in s.visited /\ (Ended(s) \/ Gap(s) >= k-1)
    BY <1>3, <2>1
  <2>3. PICK u : u = ExpandNearest(lk, q, level, ef, s)
    OBVIOUS
  <2>4. turn[k][s] = u
    BY <1>2, <2>2, <2>3
  <2>5. /\ SearchSound(q, ef, C, u) /\ Followed(lk, q, level, u) /\ s.visited \subseteq u.visited
        /\ (Ended(s) => u = s) /\ (~Ended(s) => Gap(u) = Gap(s) + 1)
    BY <2>2, <2>3, ExpandFacts
  <2>6. Ended(u) \/ Gap(u) >= k
    <3>1. CASE Ended(s)
      BY <2>5, <3>1
    <3>2. CASE ~Ended(s)
      <4>1. Gap(s) \in Int
        <5>1. Len(s.to_visit) \in Nat /\ Len(s.results) \in Nat
          BY <2>2, SearchTypes
        <5> QED
          BY <5>1 DEF Gap
      <4>2. Gap(s) >= k-1 /\ Gap(u) = Gap(s) + 1
        BY <2>2, <2>5, <3>2
      <4> QED
        BY <4>1, <4>2
    <3> QED
      BY <3>1, <3>2
  <2>7. u \in Searching
    BY <2>5 DEF SearchSound
  <2> QED
    BY <1>3, <2>1, <2>2, <2>4, <2>5, <2>6, <2>7
<1>7. PICK s : s = Loop(turn, Total, x)
  OBVIOUS
<1>8. s \in G[Total]
  BY <1>4, <1>5, <1>6, <1>7, LoopEnds
<1>9. /\ s \in Searching /\ SearchSound(q, ef, C, s) /\ Followed(lk, q, level, s)
      /\ from \in s.visited /\ (Ended(s) \/ Gap(s) >= Total)
  <2>1. Total \in 0..Total
    BY <1>4
  <2> QED
    BY <1>3, <1>8, <2>1
<1>10. /\ s.to_visit \in Heap /\ s.results \in Heap /\ s.visited \in SUBSET Node
       /\ Len(s.to_visit) \in Nat /\ Len(s.results) \in Nat
  BY <1>9, SearchTypes
<1>11. Indices(s.results) = s.visited
  <2>1. \A e \in ToSet(s.results) : e.idx \in s.visited
    BY <1>9 DEF SearchSound, Of
  <2>2. \A n \in s.visited : \E e \in ToSet(s.results) : e.idx = n
    <3> SUFFICES ASSUME NEW n \in s.visited PROVE At(q, n) \in ToSet(s.results) /\ At(q, n).idx = n
      OBVIOUS
    <3> QED
      BY <1>9 DEF SearchSound, At
  <2> QED
    BY <2>1, <2>2 DEF Indices
<1>12. Ended(s)
  <2> SUFFICES ASSUME ~Ended(s) PROVE FALSE
    OBVIOUS
  <2>1. Len(s.to_visit) # 0
    <3>1. s.to_visit # <<>>
      BY DEF Ended
    <3> QED
      BY <1>10, <3>1, EmptySeq DEF Heap
  <2>2. Len(s.results) > Total
    BY <1>4, <1>9, <1>10, <2>1 DEF Gap
  <2>3. Cardinality(s.visited) = Len(s.results)
    BY <1>9, <1>10, <1>11, HeapCardinality DEF Indices, SearchSound
  <2>4. Cardinality(s.visited) <= Total
    BY <1>10, NodesFinite, FS_Subset
  <2> QED
    BY <1>4, <1>10, <2>2, <2>3, <2>4
<1>13. Len(s.results) = ef \/ \A n \in s.visited : ToSet(lk[n][level]) \subseteq s.visited
  <2>1. CASE s.breaking
    BY <1>4, <1>9, <1>10, <2>1 DEF SearchSound
  <2>2. CASE ~s.breaking
    <3>1. s.to_visit = <<>>
      BY <1>12, <2>2 DEF Ended
    <3>2. ToSet(s.to_visit) = {}
      BY <3>1 DEF ToSet
    <3> QED
      BY <1>9, <2>2, <3>2 DEF Followed
  <2> QED
    BY <2>1, <2>2
<1>14. Expand(lk, q, level, ef, Beginning(q, from)) = s.results
  BY <1>1, <1>2, <1>7 DEF Expand
<1>15. Finds(lk, q, from, level, ef, C, s.results)
  BY <1>9, <1>10, <1>11, <1>13 DEF Finds, SearchSound
<1> QED
  BY <1>14, <1>15

\* The candidates in the order of the array, from its end.
LEMMA SearchFinds ==
  ASSUME NEW lk, NEW q, NEW level, NEW ef, NEW C, SearchArgs(lk, q, level, ef, C),
         NEW from \in C, NEW r, r = SearchNeighborsEf(lk, q, from, level, ef)
  PROVE  Finds(lk, q, from, level, ef, C, r)
<1>1. PICK h : h = Expand(lk, q, level, ef, Beginning(q, from))
  OBVIOUS
<1>2. Finds(lk, q, from, level, ef, C, h)
  BY <1>1, SearchEnds
<1>3. h \in Heap /\ Distinct(h)
  BY <1>2 DEF Finds
<1>4. PICK n \in Nat : n = Len(h)
  BY <1>3, ElementsOf
<1>5. r = Reverse(h)
  BY <1>1 DEF SearchNeighborsEf, Beginning
<1>6. /\ r \in Heap /\ Len(r) = n
      /\ \A k \in 1..n : r[k] = h[n - k + 1]
  <2>1. r = [k \in 1..n |-> h[n - k + 1]]
    BY <1>4, <1>5 DEF Reverse
  <2>2. h \in [1..n -> Element]
    BY <1>3, <1>4, ElementsOf
  <2>3. \A k \in 1..n : n - k + 1 \in 1..n
    OBVIOUS
  <2>4. r \in [1..n -> Element]
    BY <2>1, <2>2, <2>3
  <2> QED
    BY <1>4, <2>1, <2>4 DEF Heap
<1>7. ToSet(r) = ToSet(h)
  <2>1. \A e : (e \in ToSet(h) <=> \E k \in 1..n : e = h[k])
    BY <1>3, <1>4, ElementsOf
  <2>2. \A e : (e \in ToSet(r) <=> \E k \in 1..n : e = r[k])
    <3>1. \A e : (e \in ToSet(r) <=> \E k \in 1..Len(r) : e = r[k])
      BY <1>6, ElementsOf
    <3> QED
      BY <1>6, <3>1
  <2>3. \A k \in 1..n : n - k + 1 \in 1..n /\ n - (n - k + 1) + 1 = k
    OBVIOUS
  <2>4. \A k \in 1..n : \E m \in 1..n : r[k] = h[m]
    BY <1>6, <2>3
  <2>5. \A k \in 1..n : \E m \in 1..n : h[k] = r[m]
    <3> SUFFICES ASSUME NEW k \in 1..n PROVE \E m \in 1..n : h[k] = r[m]
      OBVIOUS
    <3>1. r[n - k + 1] = h[n - (n - k + 1) + 1]
      BY <1>6, <2>3
    <3> QED
      BY <2>3, <3>1
  <2> QED
    BY <2>1, <2>2, <2>4, <2>5
<1>8. Distinct(r)
  <2> SUFFICES ASSUME NEW i \in 1..n, NEW j \in 1..n, r[i].idx = r[j].idx PROVE i = j
    BY <1>6 DEF Distinct
  <2>1. n - i + 1 \in 1..n /\ n - j + 1 \in 1..n /\ h[n - i + 1].idx = h[n - j + 1].idx
    BY <1>6
  <2>2. n - i + 1 = n - j + 1
    BY <1>3, <1>4, <2>1 DEF Distinct
  <2> QED
    BY <2>2
<1>9. Indices(r) = Indices(h)
  BY <1>7 DEF Indices
<1> QED
  BY <1>2, <1>4, <1>6, <1>8, <1>9 DEF Finds

-----------------------------------------------------------------------------
(***************************************************************************)
(* Links.                                                                  *)
(***************************************************************************)
LEMMA NodesOf ==
  ASSUME NEW u \in Seq(Node)
  PROVE  /\ Len(u) \in Nat /\ u \in [1..Len(u) -> Node] /\ DOMAIN u = 1..Len(u)
         /\ \A c : c \in ToSet(u) <=> \E k \in 1..Len(u) : c = u[k]
         /\ ToSet(u) \subseteq Node
<1>1. Len(u) \in Nat /\ u \in [1..Len(u) -> Node] /\ DOMAIN u = 1..Len(u)
  BY LenProperties
<1> QED
  BY <1>1 DEF ToSet

\* A list of different nodes, and another one at its end.
LEMMA AppendNode ==
  ASSUME NEW u \in Seq(Node), IsInjective(u), NEW c \in Node, c \notin ToSet(u),
         NEW r, r = Append(u, c)
  PROVE  /\ r \in Seq(Node) /\ IsInjective(r)
         /\ Len(r) = Len(u) + 1 /\ ToSet(r) = ToSet(u) \cup {c}
<1>1. PICK n \in Nat : n = Len(u)
  BY NodesOf
<1>2. /\ r \in Seq(Node) /\ Len(r) = n + 1 /\ r[n+1] = c
      /\ \A k \in 1..n : r[k] = u[k]
  BY <1>1, AppendProperties
<1>3. \A x : x \in ToSet(u) <=> \E k \in 1..n : x = u[k]
  BY <1>1, NodesOf
<1>4. \A k \in 1..n+1 : k \in 1..n \/ k = n+1
  OBVIOUS
<1>5. ToSet(r) = ToSet(u) \cup {c}
  <2>1. \A x : x \in ToSet(r) <=> \E k \in 1..n+1 : x = r[k]
    <3>1. \A x : x \in ToSet(r) <=> \E k \in 1..Len(r) : x = r[k]
      BY <1>2, NodesOf
    <3> QED
      BY <1>2, <3>1
  <2>2. \A x : (\E k \in 1..n+1 : x = r[k]) <=> ((\E k \in 1..n : x = r[k]) \/ x = r[n+1])
    <3>1. n+1 \in 1..n+1 /\ \A k \in 1..n : k \in 1..n+1
      OBVIOUS
    <3> QED
      BY <1>4, <3>1
  <2> QED
    BY <1>2, <1>3, <2>1, <2>2
<1>6. IsInjective(r)
  <2>1. \A a, b \in 1..n : u[a] = u[b] => a = b
    <3>1. DOMAIN u = 1..n
      BY <1>1, NodesOf
    <3> QED
      BY <3>1 DEF IsInjective
  <2>2. \A k \in 1..n : r[k] # c
    BY <1>2, <1>3
  <2>3. \A a, b \in 1..n+1 : r[a] = r[b] => a = b
    BY <1>2, <1>4, <2>1, <2>2
  <2>4. DOMAIN r = 1..n+1
    BY <1>2, NodesOf
  <2> QED
    BY <2>3, <2>4 DEF IsInjective
<1> QED
  BY <1>1, <1>2, <1>5, <1>6

\* A node takes the place of another one in a list of different nodes.
LEMMA ReplaceNode ==
  ASSUME NEW u \in Seq(Node), IsInjective(u), NEW c \in Node, c \notin ToSet(u),
         NEW k \in 1..Len(u), NEW r, r = [u EXCEPT ![k] = c]
  PROVE  /\ r \in Seq(Node) /\ IsInjective(r) /\ Len(r) = Len(u)
         /\ ToSet(r) \subseteq ToSet(u) \cup {c} /\ c \in ToSet(r)
<1>1. PICK n \in Nat : n = Len(u)
  BY NodesOf
<1>2. /\ u \in [1..n -> Node]
      /\ \A x : x \in ToSet(u) <=> \E m \in 1..n : x = u[m]
  BY <1>1, NodesOf
<1>3. /\ r \in [1..n -> Node]
      /\ \A m \in 1..n : r[m] = IF m = k THEN c ELSE u[m]
  BY <1>1, <1>2
<1>4. r \in Seq(Node) /\ Len(r) = n /\ DOMAIN r = 1..n
  BY <1>3
<1>5. \A x : x \in ToSet(r) <=> \E m \in 1..n : x = r[m]
  BY <1>4 DEF ToSet
<1>6. \A a, b \in 1..n : u[a] = u[b] => a = b
  BY <1>2 DEF IsInjective
<1>7. \A a, b \in 1..n : r[a] = r[b] => a = b
  BY <1>2, <1>3, <1>6
<1>8. IsInjective(r)
  BY <1>4, <1>7 DEF IsInjective
<1>9. ToSet(r) \subseteq ToSet(u) \cup {c} /\ c \in ToSet(r)
  BY <1>1, <1>2, <1>3, <1>5
<1> QED
  BY <1>1, <1>4, <1>8, <1>9

(***************************************************************************)
(* The links of a new node: of its candidates, without itself, no more     *)
(* than M_PARAM; some, if there are candidates and it is not one of them.  *)
(***************************************************************************)
LEMMA LinksToFacts ==
  ASSUME NEW i \in Node, NEW h \in Heap, Indices(h) \subseteq Node,
         NEW u, u = LinksTo(i, h)
  PROVE  /\ u \in Seq(Node) /\ IsInjective(u) /\ Len(u) <= M_PARAM
         /\ ToSet(u) \subseteq Indices(h) \ {i}
         /\ h # <<>> /\ i \notin Indices(h) => ToSet(u) # {}
<1>1. PICK m : m = IF Len(h) < M_PARAM THEN Len(h) ELSE M_PARAM
  OBVIOUS
<1>2. m \in Nat /\ m <= M_PARAM /\ m <= Len(h) /\ Len(h) \in Nat /\ M_PARAM \in Nat \ {0}
  BY <1>1, ElementsOf, GraphAssumption
<1>3. PICK turn : turn = [k \in 1..m |-> [v \in Seq(Node) |-> Unique(i, h[k].idx, v)]]
  OBVIOUS
<1>4. PICK G : G = [k \in 0..m |->
                      {v \in Seq(Node) :
                         /\ IsInjective(v) /\ Len(v) <= k /\ ToSet(v) \subseteq Indices(h) \ {i}
                         /\ k # 0 /\ i \notin Indices(h) => ToSet(v) # {}}]
  OBVIOUS
<1>5. PICK x : x = <<>>
  OBVIOUS
<1>6. x \in G[0]
  <2>1. x \in Seq(Node) /\ Len(x) = 0 /\ ToSet(x) = {} /\ IsInjective(x)
    BY <1>5 DEF ToSet, IsInjective
  <2>2. 0 \in 0..m
    BY <1>2
  <2> QED
    BY <1>4, <2>1, <2>2
<1>7. ASSUME NEW k \in 1..m, NEW v \in G[k-1]
      PROVE  turn[k][v] \in G[k]
  <2>1. k \in 0..m /\ k-1 \in 0..m /\ k \in 1..Len(h)
    BY <1>2
  <2>2. v \in Seq(Node) /\ IsInjective(v) /\ Len(v) <= k-1 /\ ToSet(v) \subseteq Indices(h) \ {i}
    BY <1>4, <2>1
  <2>3. PICK c : c = h[k].idx
    OBVIOUS
  <2>4. c \in Indices(h) /\ c \in Node
    <3>1. h[k] \in ToSet(h)
      BY <2>1, ElementsOf
    <3> QED
      BY <2>3, <3>1 DEF Indices
  <2>5. turn[k][v] = Unique(i, c, v)
    BY <1>3, <2>2, <2>3
  <2>6. Len(v) \in Nat
    BY <2>2, NodesOf
  <2>7. CASE c = i \/ c \in ToSet(v)
    <3>1. turn[k][v] = v
      BY <2>5, <2>7 DEF Unique
    <3>2. Len(v) <= k
      BY <2>2, <2>6
    <3>3. i \notin Indices(h) => ToSet(v) # {}
      BY <2>4, <2>7
    <3> QED
      BY <1>4, <2>1, <2>2, <3>1, <3>2, <3>3
  <2>8. CASE ~(c = i \/ c \in ToSet(v))
    <3>1. PICK r : r = Append(v, c)
      OBVIOUS
    <3>2. turn[k][v] = r
      BY <2>5, <2>8, <3>1 DEF Unique
    <3>3. /\ r \in Seq(Node) /\ IsInjective(r)
          /\ Len(r) = Len(v) + 1 /\ ToSet(r) = ToSet(v) \cup {c}
      BY <2>2, <2>4, <2>8, <3>1, AppendNode
    <3>4. Len(r) <= k
      BY <2>2, <2>6, <3>3
    <3>5. ToSet(r) \subseteq Indices(h) \ {i} /\ ToSet(r) # {}
      BY <2>2, <2>4, <2>8, <3>3
    <3> QED
      BY <1>4, <2>1, <3>2, <3>3, <3>4, <3>5
  <2> QED
    BY <2>7, <2>8
<1>8. Loop(turn, m, x) \in G[m]
  BY <1>2, <1>6, <1>7, LoopEnds
<1>9. u \in G[m]
  BY <1>1, <1>3, <1>5, <1>8 DEF LinksTo
<1>10. m \in 0..m
  BY <1>2
<1>11. /\ u \in Seq(Node) /\ IsInjective(u) /\ Len(u) <= m /\ ToSet(u) \subseteq Indices(h) \ {i}
       /\ m # 0 /\ i \notin Indices(h) => ToSet(u) # {}
  BY <1>4, <1>9, <1>10
<1>12. h # <<>> => m # 0
  BY <1>1, <1>2, EmptySeq DEF Heap
<1>13. Len(u) <= M_PARAM
  <2>1. Len(u) \in Nat
    BY <1>11, NodesOf
  <2> QED
    BY <1>2, <1>11, <2>1
<1> QED
  BY <1>11, <1>12, <1>13

\* The first of the greatest of some distances.
LEMMA FirstGreatest ==
  ASSUME NEW n \in Nat \ {0}, NEW d, \A k \in 1..n : d[k] \in Int
  PROVE  \E k \in 1..n : (\A j \in 1..n : d[j] <= d[k]) /\ (\A j \in 1..k-1 : d[j] < d[k])
<1>1. PICK T : T = {m \in 0..n-1 : \E k \in 1..m+1 : \A j \in 1..m+1 : d[j] <= d[k]}
  OBVIOUS
<1>2. 0 \in T
  <2>1. 1 \in 1..n /\ 1 \in 1..0+1 /\ \A j \in 1..0+1 : j = 1
    OBVIOUS
  <2>2. d[1] <= d[1]
    BY <2>1
  <2>3. \A j \in 1..0+1 : d[j] <= d[1]
    BY <2>1, <2>2
  <2>4. 0 \in 0..n-1
    OBVIOUS
  <2> QED
    BY <1>1, <2>1, <2>3, <2>4
<1>3. ASSUME NEW m \in 1..n-1, m-1 \in T
      PROVE  m \in T
  <2>1. PICK k \in 1..(m-1)+1 : \A j \in 1..(m-1)+1 : d[j] <= d[k]
    BY <1>1, <1>3
  <2>2. k \in 1..m /\ k \in 1..n /\ m+1 \in 1..n /\ \A j \in 1..m : j \in 1..(m-1)+1 /\ j \in 1..n
    OBVIOUS
  <2>3. \A j \in 1..m : d[j] <= d[k]
    BY <2>1, <2>2
  <2>4. \A j \in 1..m+1 : j \in 1..m \/ j = m+1
    OBVIOUS
  <2>5. d[k] \in Int /\ d[m+1] \in Int /\ \A j \in 1..m : d[j] \in Int
    BY <2>2
  <2>6. CASE d[m+1] <= d[k]
    <3>1. \A j \in 1..m+1 : d[j] <= d[k]
      BY <2>3, <2>4, <2>6
    <3>2. k \in 1..m+1 /\ m \in 0..n-1
      BY <2>2
    <3> QED
      BY <1>1, <3>1, <3>2
  <2>7. CASE ~(d[m+1] <= d[k])
    <3>1. \A j \in 1..m+1 : d[j] <= d[m+1]
      BY <2>3, <2>4, <2>5, <2>7
    <3>2. m+1 \in 1..m+1 /\ m \in 0..n-1
      OBVIOUS
    <3> QED
      BY <1>1, <3>1, <3>2
  <2> QED
    BY <2>6, <2>7
<1>4. n-1 \in T
  <2>1. n-1 \in Nat
    OBVIOUS
  <2>2. \A m \in 0..n-1 : m \in T
    BY <1>2, <1>3, <2>1, TurnByTurn
  <2> QED
    BY <2>1, <2>2
<1>5. PICK B : B = {k \in 1..n : \A j \in 1..n : d[j] <= d[k]}
  OBVIOUS
<1>6. B # {} /\ B \in SUBSET Nat
  <2>1. (n-1)+1 = n
    OBVIOUS
  <2>2. \E k \in 1..n : \A j \in 1..n : d[j] <= d[k]
    BY <1>1, <1>4, <2>1
  <2> QED
    BY <1>5, <2>2
<1>7. PICK k \in B : \A m \in B : k <= m
  BY <1>6, LeastNatural
<1>8. k \in 1..n /\ \A j \in 1..n : d[j] <= d[k]
  BY <1>5
<1>9. ASSUME NEW j \in 1..k-1
      PROVE  d[j] < d[k]
  <2>1. j \in 1..n /\ ~(k <= j)
    BY <1>8
  <2>2. PICK m \in 1..n : ~(d[m] <= d[j])
    BY <1>5, <1>7, <2>1
  <2>3. d[m] \in Int /\ d[j] \in Int /\ d[k] \in Int /\ d[m] <= d[k]
    BY <1>8, <2>1
  <2> QED
    BY <2>2, <2>3
<1> QED
  BY <1>8, <1>9

\* No distance that is written is below the garbage, if that is not above 0.
LEMMA FarthestFacts ==
  ASSUME position \in [Node -> Int], NEW c \in Node, NEW u \in Seq(Node), Len(u) = M_PARAM,
         NEW garbage \in Int, NEW k, k = Farthest(c, u, garbage)
  PROVE  k \in 1..M_PARAM+1 /\ (garbage <= 0 => k \in 1..M_PARAM)
<1>1. PICK n \in Nat \ {0} : n = M_PARAM
  BY GraphAssumption
<1>2. u \in [1..n -> Node]
  BY <1>1, NodesOf
<1>3. PICK w : w = [j \in 1..n |-> NodeDist(c, u[j])]
  OBVIOUS
<1>4. w \in [1..n -> Nat]
  <2>1. ASSUME NEW j \in 1..n PROVE NodeDist(c, u[j]) \in Nat
    <3>1. PICK a \in Int, b \in Int : a = position[c] /\ b = position[u[j]]
      BY <1>2
    <3>2. Dist(a, b) \in Nat
      BY DEF Dist
    <3> QED
      BY <3>1, <3>2 DEF NodeDist
  <2> QED
    BY <1>3, <2>1
<1>5. PICK d : d = Append(w, garbage)
  OBVIOUS
<1>6. /\ d[n+1] = garbage
      /\ \A j \in 1..n : d[j] = w[j]
  <2>1. w \in Seq(Nat) /\ w \in Seq(Int) /\ Len(w) = n
    BY <1>4
  <2> QED
    BY <1>5, <2>1, AppendProperties
<1>7. \A j \in 1..n+1 : j \in 1..n \/ j = n+1
  OBVIOUS
<1>8. \A j \in 1..n+1 : d[j] \in Int
  BY <1>4, <1>6, <1>7
<1>9. n+1 \in Nat \ {0}
  OBVIOUS
<1>10. \E m \in 1..n+1 : (\A j \in 1..n+1 : d[j] <= d[m]) /\ (\A j \in 1..m-1 : d[j] < d[m])
  BY <1>8, <1>9, FirstGreatest
<1>11. k = CHOOSE m \in 1..n+1 : (\A j \in 1..n+1 : d[j] <= d[m]) /\ (\A j \in 1..m-1 : d[j] < d[m])
  BY <1>1, <1>3, <1>5 DEF Farthest
<1>12. k \in 1..n+1 /\ (\A j \in 1..k-1 : d[j] < d[k])
  BY <1>10, <1>11
<1>13. ASSUME garbage <= 0, k = n+1 PROVE FALSE
  <2>1. 1 \in 1..k-1 /\ 1 \in 1..n
    BY <1>13
  <2>2. d[1] < garbage /\ d[1] \in Nat
    BY <1>4, <1>6, <1>12, <1>13, <2>1
  <2> QED
    BY <1>13, <2>2
<1> QED
  BY <1>1, <1>12, <1>13

\* What LinksSound says of one list of links, and of all.
ListSound(n, l, out) ==
  /\ Len(out) <= M_PARAM
  /\ IsInjective(out)
  /\ \A c \in ToSet(out) : c # n /\ c \in Node /\ MaxLevelOf(c) >= l
  /\ out # <<>> => MaxLevelOf(n) >= l

AllSound(lk) == \A n \in Node, l \in GraphLevel : ListSound(n, l, lk[n][l])

\* Only the list of node c at one level may have changed, by getting i.
LinkedBack(lk, c, i, level, garbage, r) ==
  /\ r \in Links /\ AllSound(r)
  /\ \A n \in Node, l \in GraphLevel : n # c \/ l # level => r[n][l] = lk[n][l]
  /\ ToSet(r[c][level]) \subseteq ToSet(lk[c][level]) \cup {i}
  /\ garbage <= 0 => i \in ToSet(r[c][level])

Put(lk, c, level, u) == [lk EXCEPT ![c][level] = u]

\* The list of links of one node at one level is put in the place of the old one.
LEMMA PutList ==
  ASSUME NEW lk \in Links, NEW c \in Node, NEW level \in GraphLevel, NEW u \in Seq(Node),
         NEW r, r = Put(lk, c, level, u)
  PROVE  /\ r \in Links /\ r[c][level] = u
         /\ \A n \in Node, l \in GraphLevel : n # c \/ l # level => r[n][l] = lk[n][l]
         /\ AllSound(lk) /\ ListSound(c, level, u) => AllSound(r)
<1>1. lk \in [Node -> [GraphLevel -> Seq(Node)]]
  BY DEF Links
<1>2. PICK f : f = [lk[c] EXCEPT ![level] = u]
  OBVIOUS
<1>3. /\ f \in [GraphLevel -> Seq(Node)]
      /\ \A l \in GraphLevel : f[l] = IF l = level THEN u ELSE lk[c][l]
  BY <1>1, <1>2
<1>4. r = [lk EXCEPT ![c] = f]
  BY <1>2 DEF Put
<1>5. /\ r \in [Node -> [GraphLevel -> Seq(Node)]]
      /\ \A n \in Node : r[n] = IF n = c THEN f ELSE lk[n]
  BY <1>1, <1>3, <1>4
<1>6. r[c][level] = u /\ \A n \in Node, l \in GraphLevel : n # c \/ l # level => r[n][l] = lk[n][l]
  BY <1>3, <1>5
<1>7. AllSound(lk) /\ ListSound(c, level, u) => AllSound(r)
  BY <1>6 DEF AllSound
<1> QED
  BY <1>5, <1>6, <1>7 DEF Links

(***************************************************************************)
(* A link back: to node i, on the level that both are on.  It takes the    *)
(* place of another one if the list is full.                               *)
(***************************************************************************)
LEMMA LinkBackFacts ==
  ASSUME position \in [Node -> Int], NEW lk \in Links, AllSound(lk),
         NEW c \in Node, NEW i \in Node, c # i, NEW level \in GraphLevel,
         MaxLevelOf(c) >= level, MaxLevelOf(i) >= level, NEW garbage \in Int,
         NEW r, r = LinkBack(lk, c, i, level, garbage)
  PROVE  LinkedBack(lk, c, i, level, garbage, r)
<1>1. PICK u : u = lk[c][level]
  OBVIOUS
<1>2. u \in Seq(Node) /\ ListSound(c, level, u)
  BY <1>1 DEF Links, AllSound
<1>3. Len(u) \in Nat /\ M_PARAM \in Nat /\ Len(u) <= M_PARAM /\ IsInjective(u)
  BY <1>2, NodesOf, GraphAssumption DEF ListSound
<1>4. CASE i \in ToSet(u)
  <2>1. r = lk
    BY <1>1, <1>4 DEF LinkBack
  <2> QED
    BY <1>1, <1>4, <2>1 DEF LinkedBack
<1>5. ASSUME i \notin ToSet(u), NEW v \in Seq(Node), IsInjective(v), Len(v) <= M_PARAM,
             ToSet(v) \subseteq ToSet(u) \cup {i}, i \in ToSet(v),
             r = Put(lk, c, level, v)
      PROVE  LinkedBack(lk, c, i, level, garbage, r)
  <2>1. ListSound(c, level, v)
    BY <1>2, <1>5 DEF ListSound
  <2>2. /\ r \in Links /\ r[c][level] = v /\ AllSound(r)
        /\ \A n \in Node, l \in GraphLevel : n # c \/ l # level => r[n][l] = lk[n][l]
    BY <1>5, <2>1, PutList
  <2> QED
    BY <1>1, <1>5, <2>2 DEF LinkedBack
<1>6. CASE i \notin ToSet(u) /\ Len(u) < M_PARAM
  <2>1. PICK v : v = Append(u, i)
    OBVIOUS
  <2>2. /\ v \in Seq(Node) /\ IsInjective(v)
        /\ Len(v) = Len(u) + 1 /\ ToSet(v) = ToSet(u) \cup {i}
    BY <1>2, <1>3, <1>6, <2>1, AppendNode
  <2>3. Len(v) <= M_PARAM
    BY <1>3, <1>6, <2>2
  <2>4. r = Put(lk, c, level, v)
    <3>1. [lk EXCEPT ![c][level] = Append(@, i)] = Put(lk, c, level, v)
      BY <1>1, <2>1 DEF Put
    <3> QED
      BY <1>1, <1>6, <3>1 DEF LinkBack
  <2> QED
    BY <1>5, <1>6, <2>2, <2>3, <2>4
<1>7. CASE i \notin ToSet(u) /\ ~(Len(u) < M_PARAM)
  <2>1. Len(u) = M_PARAM
    BY <1>3, <1>7
  <2>2. PICK k : k = Farthest(c, u, garbage)
    OBVIOUS
  <2>3. k \in 1..M_PARAM+1 /\ (garbage <= 0 => k \in 1..M_PARAM)
    BY <1>2, <2>1, <2>2, FarthestFacts
  <2>4. CASE k <= M_PARAM
    <3>1. PICK v : v = [u EXCEPT ![k] = i]
      OBVIOUS
    <3>2. k \in 1..Len(u)
      BY <1>3, <2>1, <2>3, <2>4
    <3>3. /\ v \in Seq(Node) /\ IsInjective(v) /\ Len(v) = Len(u)
          /\ ToSet(v) \subseteq ToSet(u) \cup {i} /\ i \in ToSet(v)
      BY <1>2, <1>3, <1>7, <3>1, <3>2, ReplaceNode
    <3>4. r = Put(lk, c, level, v)
      <4>1. [lk EXCEPT ![c][level][k] = i] = Put(lk, c, level, v)
        BY <1>1, <3>1 DEF Put
      <4> QED
        BY <1>1, <1>7, <2>2, <2>4, <4>1 DEF LinkBack
    <3> QED
      BY <1>3, <1>5, <1>7, <3>3, <3>4
  <2>5. CASE ~(k <= M_PARAM)
    <3>1. r = lk
      BY <1>1, <1>7, <2>2, <2>5 DEF LinkBack
    <3>2. ~(garbage <= 0)
      BY <1>3, <2>3, <2>5
    <3> QED
      BY <1>1, <3>1, <3>2 DEF LinkedBack
  <2> QED
    BY <2>4, <2>5
<1> QED
  BY <1>4, <1>6, <1>7

\* What one level of the graph is when k of the new node's neighbors have linked back to it.
Connected(lk, i, u, level, garbage, k, g) ==
  /\ g \in Links /\ AllSound(g) /\ g[i][level] = u
  /\ \A n \in Node, l \in GraphLevel : l # level => g[n][l] = lk[n][l]
  /\ \A n \in Node : n # i /\ n \notin ToSet(u) => g[n][level] = lk[n][level]
  /\ \A n \in Node : n # i => ToSet(g[n][level]) \subseteq ToSet(lk[n][level]) \cup {i}
  /\ garbage <= 0 => \A j \in 1..k : i \in ToSet(g[u[j]][level])

\* The links u are chosen from the candidates h, and some are, if there is a choice.
Chosen(lk, i, h, level, garbage, u, g) ==
  /\ Connected(lk, i, u, level, garbage, Len(u), g)
  /\ ToSet(u) \subseteq Indices(h) \ {i}
  /\ h # <<>> /\ i \notin Indices(h) => ToSet(u) # {}

\* connectNeighbors, for candidates that are on this level as the node is.
LEMMA ConnectFacts ==
  ASSUME position \in [Node -> Int], NEW lk \in Links, AllSound(lk),
         NEW i \in Node, NEW h \in Heap, Indices(h) \subseteq Node, NEW level \in GraphLevel,
         \A c \in Indices(h) : MaxLevelOf(c) >= level, MaxLevelOf(i) >= level,
         NEW garbage \in Int, NEW g, g = ConnectNeighbors(lk, i, h, level, garbage)
  PROVE  \E u \in Seq(Node) : Chosen(lk, i, h, level, garbage, u, g)
<1>1. PICK u : u = LinksTo(i, h)
  OBVIOUS
<1>2. /\ u \in Seq(Node) /\ IsInjective(u) /\ Len(u) <= M_PARAM
      /\ ToSet(u) \subseteq Indices(h) \ {i}
      /\ h # <<>> /\ i \notin Indices(h) => ToSet(u) # {}
  BY <1>1, LinksToFacts
<1>3. PICK n \in Nat : n = Len(u)
  BY <1>2, NodesOf
<1>4. DOMAIN u = 1..n /\ u \in [1..n -> Node] /\ \A k \in 1..n : u[k] \in ToSet(u)
  BY <1>2, <1>3, NodesOf
<1>5. PICK x : x = Put(lk, i, level, u)
  OBVIOUS
<1>6. PICK turn : turn = [k \in DOMAIN u |-> [y \in Links |-> LinkBack(y, u[k], i, level, garbage)]]
  OBVIOUS
<1>7. PICK G : G = [k \in 0..n |-> {y \in Links : Connected(lk, i, u, level, garbage, k, y)}]
  OBVIOUS
<1>8. x \in G[0]
  <2>1. ListSound(i, level, u)
    BY <1>2 DEF ListSound
  <2>2. /\ x \in Links /\ x[i][level] = u /\ AllSound(x)
        /\ \A m \in Node, l \in GraphLevel : m # i \/ l # level => x[m][l] = lk[m][l]
    BY <1>2, <1>5, <2>1, PutList
  <2>3. 0 \in 0..n /\ \A j \in 1..0 : FALSE
    OBVIOUS
  <2> QED
    BY <1>7, <2>2, <2>3 DEF Connected
<1>9. ASSUME NEW k \in 1..n, NEW y \in G[k-1]
      PROVE  turn[k][y] \in G[k]
  <2>1. k \in 0..n /\ k-1 \in 0..n /\ k \in DOMAIN u
    BY <1>4
  <2>2. y \in Links /\ Connected(lk, i, u, level, garbage, k-1, y)
    BY <1>7, <2>1
  <2>3. PICK c, r : c = u[k] /\ r = LinkBack(y, c, i, level, garbage)
    OBVIOUS
  <2>4. turn[k][y] = r
    BY <1>6, <2>1, <2>2, <2>3
  <2>5. c \in Node /\ c # i /\ MaxLevelOf(c) >= level /\ c \in ToSet(u)
    BY <1>2, <1>4, <2>3
  <2>6. LinkedBack(y, c, i, level, garbage, r)
    BY <2>2, <2>3, <2>5, LinkBackFacts DEF Connected
  <2>7. /\ r \in Links /\ AllSound(r) /\ r[i][level] = u
        /\ \A m \in Node, l \in GraphLevel : l # level => r[m][l] = lk[m][l]
        /\ \A m \in Node : m # i /\ m \notin ToSet(u) => r[m][level] = lk[m][level]
    BY <2>2, <2>5, <2>6 DEF Connected, LinkedBack
  <2>8. ASSUME NEW m \in Node, m # i
        PROVE  ToSet(r[m][level]) \subseteq ToSet(lk[m][level]) \cup {i}
    <3>1. ToSet(y[m][level]) \subseteq ToSet(lk[m][level]) \cup {i}
      BY <2>2, <2>8 DEF Connected
    <3>2. CASE m = c
      BY <2>6, <3>1, <3>2 DEF LinkedBack
    <3>3. CASE m # c
      BY <2>6, <3>1, <3>3 DEF LinkedBack
    <3> QED
      BY <3>2, <3>3
  <2>9. ASSUME garbage <= 0, NEW j \in 1..k
        PROVE  i \in ToSet(r[u[j]][level])
    <3>1. CASE j = k
      BY <2>3, <2>6, <2>9, <3>1 DEF LinkedBack
    <3>2. CASE j # k
      <4>1. j \in 1..k-1 /\ j \in 1..n
        BY <3>2
      <4>2. u[j] # c /\ u[j] \in Node
        BY <1>2, <1>4, <2>1, <2>3, <3>2, <4>1 DEF IsInjective
      <4>3. i \in ToSet(y[u[j]][level])
        BY <2>2, <2>9, <4>1 DEF Connected
      <4> QED
        BY <2>6, <4>2, <4>3 DEF LinkedBack
    <3> QED
      BY <3>1, <3>2
  <2>10. Connected(lk, i, u, level, garbage, k, r)
    BY <2>7, <2>8, <2>9 DEF Connected
  <2> QED
    BY <1>7, <2>1, <2>4, <2>7, <2>10
<1>10. Loop(turn, n, x) \in G[n]
  BY <1>8, <1>9, LoopEnds
<1>11. g \in G[n]
  BY <1>1, <1>3, <1>5, <1>6, <1>10 DEF ConnectNeighbors, Put
<1>12. Connected(lk, i, u, level, garbage, n, g)
  <2>1. n \in 0..n
    OBVIOUS
  <2> QED
    BY <1>7, <1>11, <2>1
<1> QED
  BY <1>2, <1>3, <1>12 DEF Chosen

-----------------------------------------------------------------------------
(***************************************************************************)
(* What can be reached from the entry point: all that is reached is found  *)
(* in as many turns as there are nodes, each of which finds one more.      *)
(***************************************************************************)
OneFarther(lk, R) == R \cup UNION {ToSet(lk[n][0]) : n \in R}

\* One turn adds nodes, unless all that links lead to are there already.
LEMMA StepNodes ==
  ASSUME NEW lk \in Links, NEW R \in SUBSET Node
  PROVE  /\ OneFarther(lk, R) \in SUBSET Node /\ R \subseteq OneFarther(lk, R)
         /\ OneFarther(lk, R) = R <=> Closed(lk, 0, R)
<1>1. 0 \in GraphLevel
  BY GraphAssumption DEF GraphLevel
<1>2. \A n \in R : ToSet(lk[n][0]) \subseteq Node
  <2> SUFFICES ASSUME NEW n \in R PROVE ToSet(lk[n][0]) \subseteq Node
    OBVIOUS
  <2>1. lk[n][0] \in Seq(Node)
    BY <1>1 DEF Links
  <2> QED
    BY <2>1, NodesOf
<1> QED
  BY <1>2 DEF OneFarther, Closed

\* The least set of nodes that has the entry point and is closed under links of level 0.
LEMMA ReachedFacts ==
  ASSUME NEW lk \in Links, EntryPoint \in Node
  PROVE  /\ Closed(lk, 0, Reached(lk)) /\ EntryPoint \in Reached(lk)
         /\ \A X : Closed(lk, 0, X) /\ EntryPoint \in X => Reached(lk) \subseteq X
<1>1. Total \in Nat /\ Total \in 0..Total
  BY GraphAssumption
<1>2. PICK turn : turn = [k \in 1..Total |-> [R \in SUBSET Node |-> OneFarther(lk, R)]]
  OBVIOUS
<1>3. PICK x : x = {EntryPoint}
  OBVIOUS
<1>4. Reached(lk) = Loop(turn, Total, x)
  BY <1>2, <1>3 DEF Reached, OneFarther
<1>5. Closed(lk, 0, Reached(lk)) /\ EntryPoint \in Reached(lk)
  <2>1. PICK G : G = [k \in 0..Total |->
                        {R \in SUBSET Node :
                           EntryPoint \in R /\ (Closed(lk, 0, R) \/ Cardinality(R) >= k + 1)}]
    OBVIOUS
  <2>2. x \in G[0]
    <3>1. Cardinality(x) = 1 /\ 0 \in 0..Total
      BY <1>1, <1>3, FS_Singleton
    <3> QED
      BY <1>3, <2>1, <3>1
  <2>3. ASSUME NEW k \in 1..Total, NEW R \in G[k-1]
        PROVE  turn[k][R] \in G[k]
    <3>1. k \in 0..Total /\ k-1 \in 0..Total
      BY <1>1
    <3>2. R \in SUBSET Node /\ EntryPoint \in R /\ (Closed(lk, 0, R) \/ Cardinality(R) >= (k-1) + 1)
      BY <2>1, <3>1
    <3>3. PICK S : S = OneFarther(lk, R)
      OBVIOUS
    <3>4. turn[k][R] = S
      BY <1>2, <3>2, <3>3
    <3>5. S \in SUBSET Node /\ R \subseteq S /\ (S = R <=> Closed(lk, 0, R))
      BY <3>2, <3>3, StepNodes
    <3>6. CASE Closed(lk, 0, R)
      BY <2>1, <3>1, <3>2, <3>4, <3>5, <3>6
    <3>7. CASE ~Closed(lk, 0, R)
      <4>1. IsFiniteSet(S) /\ IsFiniteSet(R)
        BY <3>2, <3>5, NodesFinite, FS_Subset
      <4>2. Cardinality(S) \in Nat /\ Cardinality(R) \in Nat
        BY <4>1, FS_CardinalityType
      <4>3. Cardinality(R) <= Cardinality(S) /\ Cardinality(R) # Cardinality(S)
        BY <3>5, <3>7, <4>1, FS_Subset
      <4>4. Cardinality(S) >= k + 1
        BY <3>2, <3>7, <4>2, <4>3
      <4> QED
        BY <2>1, <3>1, <3>2, <3>4, <3>5, <4>4
    <3> QED
      BY <3>6, <3>7
  <2>4. Loop(turn, Total, x) \in G[Total]
    BY <1>1, <2>2, <2>3, LoopEnds
  <2>5. PICK R : R = Reached(lk)
    OBVIOUS
  <2>6. R \in SUBSET Node /\ EntryPoint \in R /\ (Closed(lk, 0, R) \/ Cardinality(R) >= Total + 1)
    BY <1>1, <1>4, <2>1, <2>4, <2>5
  <2>7. IsFiniteSet(R) /\ Cardinality(R) <= Total
    BY <2>6, NodesFinite, FS_Subset
  <2>8. ~(Cardinality(R) >= Total + 1)
    <3>1. Cardinality(R) \in Nat
      BY <2>7, FS_CardinalityType
    <3> QED
      BY <1>1, <2>7, <3>1
  <2> QED
    BY <2>5, <2>6, <2>8
<1>6. ASSUME NEW X, Closed(lk, 0, X), EntryPoint \in X
      PROVE  Reached(lk) \subseteq X
  <2>1. PICK G : G = [k \in 0..Total |-> SUBSET X]
    OBVIOUS
  <2>2. x \in G[0]
    BY <1>1, <1>3, <1>6, <2>1
  <2>3. ASSUME NEW k \in 1..Total, NEW R \in G[k-1]
        PROVE  turn[k][R] \in G[k]
    <3>1. k \in 0..Total /\ k-1 \in 0..Total
      BY <1>1
    <3>2. R \subseteq X /\ R \in SUBSET Node
      BY <1>6, <2>1, <3>1 DEF Closed
    <3>3. turn[k][R] = OneFarther(lk, R)
      BY <1>2, <3>2
    <3>4. OneFarther(lk, R) \subseteq X
      BY <1>6, <3>2 DEF OneFarther, Closed
    <3> QED
      BY <2>1, <3>1, <3>3, <3>4
  <2>4. Loop(turn, Total, x) \in G[Total]
    BY <1>1, <2>2, <2>3, LoopEnds
  <2> QED
    BY <1>1, <1>4, <2>1, <2>4
<1> QED
  BY <1>5, <1>6

-----------------------------------------------------------------------------
(***************************************************************************)
(* The entry point is the only node of the highest level, so that the      *)
(* greedy search stays at it.                                              *)
(***************************************************************************)
LEMMA LevelFacts ==
  /\ EntryPoint \in Node /\ MaxLevel \in GraphLevel /\ MaxLevelOf(EntryPoint) = MaxLevel
  /\ \A n \in Node : MaxLevelOf(n) \in GraphLevel /\ MaxLevelOf(n) <= MaxLevel
  /\ \A n \in Node : MaxLevelOf(n) >= MaxLevel => n = EntryPoint
  /\ \A n \in Node : n \in Nat /\ n < Total
<1>1. Total \in Nat \ {0} /\ MAX_LEVELS \in Nat /\ MAX_LEVELS > 1
  BY GraphAssumption
<1>2. EntryPoint \in Node /\ MaxLevel \in GraphLevel /\ MaxLevelOf(EntryPoint) = MaxLevel
  BY <1>1 DEF EntryPoint, MaxLevel, MaxLevelOf, Node, GraphLevel
<1>3. ASSUME NEW n \in Node
      PROVE  /\ MaxLevelOf(n) \in GraphLevel /\ MaxLevelOf(n) <= MaxLevel
             /\ MaxLevelOf(n) >= MaxLevel => n = EntryPoint
             /\ n \in Nat /\ n < Total
  <2>1. n \in Nat /\ n < Total
    BY <1>1 DEF Node
  <2>2. CASE n < MAX_LEVELS
    BY <1>1, <2>1, <2>2 DEF EntryPoint, MaxLevel, MaxLevelOf, GraphLevel
  <2>3. CASE ~(n < MAX_LEVELS)
    BY <1>1, <2>1, <2>3 DEF EntryPoint, MaxLevel, MaxLevelOf, GraphLevel
  <2> QED
    BY <2>1, <2>2, <2>3
<1> QED
  BY <1>2, <1>3

\* greedySearchLevel begins at the entry point, and finds no link to follow there.
LEMMA GreedyStays ==
  ASSUME links \in Links, AllSound(links), NEW q
  PROVE  GreedySearchLevel(q, EntryPoint, MaxLevel) = EntryPoint
<1>1. PICK u : u = links[EntryPoint][MaxLevel]
  OBVIOUS
<1>2. u \in Seq(Node) /\ ListSound(EntryPoint, MaxLevel, u)
  BY <1>1, LevelFacts DEF Links, AllSound
<1>3. DOMAIN u = {}
  <2> SUFFICES ASSUME NEW k \in DOMAIN u PROVE FALSE
    OBVIOUS
  <2>1. u[k] \in ToSet(u)
    BY DEF ToSet
  <2>2. u[k] # EntryPoint /\ u[k] \in Node /\ MaxLevelOf(u[k]) >= MaxLevel
    BY <1>2, <2>1 DEF ListSound
  <2> QED
    BY <2>2, LevelFacts
<1>4. FirstNearer(q, EntryPoint, MaxLevel) = EntryPoint
  BY <1>1, <1>3 DEF FirstNearer
<1>5. PICK turn : turn = [k \in 1..Total |-> [n \in Node |-> FirstNearer(q, n, MaxLevel)]]
  OBVIOUS
<1>6. PICK G : G = [k \in 0..Total |-> {EntryPoint}]
  OBVIOUS
<1>7. Total \in Nat /\ 0 \in 0..Total /\ Total \in 0..Total
  BY GraphAssumption
<1>8. EntryPoint \in G[0]
  BY <1>6, <1>7
<1>9. ASSUME NEW k \in 1..Total, NEW n \in G[k-1]
      PROVE  turn[k][n] \in G[k]
  <2>1. k \in 0..Total /\ k-1 \in 0..Total
    BY <1>7
  <2>2. n = EntryPoint /\ n \in Node
    BY <1>6, <2>1, LevelFacts
  <2> QED
    BY <1>4, <1>5, <1>6, <2>1, <2>2
<1>10. Loop(turn, Total, EntryPoint) \in G[Total]
  BY <1>7, <1>8, <1>9, LoopEnds
<1> QED
  BY <1>5, <1>6, <1>7, <1>10 DEF GreedySearchLevel

-----------------------------------------------------------------------------
(***************************************************************************)
(* The build.  Links lead to nodes that are linked, or to the entry point, *)
(* from which every search begins.                                         *)
(***************************************************************************)
LinkedOnly(lk, i) ==
  \A n \in Node, l \in GraphLevel : \A c \in ToSet(lk[n][l]) : c < i \/ c = EntryPoint

GraphInv ==
  /\ position \in [Node -> Position] /\ links \in Links /\ nextNode \in 0..Total
  /\ AllSound(links)
  /\ LinkedOnly(links, nextNode)

\* The comparison with a distance that was never written does no harm.
Harmless(garbage) == \A l \in GraphLevel : garbage[l] <= 0

\* The links while node i is linked: the levels from low on are done.
LevelsLinked(i, garbage, low, lk) ==
  /\ lk \in Links /\ AllSound(lk) /\ LinkedOnly(lk, i + 1)
  /\ \A n \in Node, l \in GraphLevel : l < low \/ l > MaxLevelOf(i) => lk[n][l] = links[n][l]
  /\ Harmless(garbage) =>
       \A l \in GraphLevel : l >= low /\ l <= MaxLevelOf(i) =>
         \A c \in ToSet(lk[i][l]) : i \in ToSet(lk[c][l])
  /\ Harmless(garbage) /\ low = 0 => i \in Reached(lk)

(***************************************************************************)
(* One level.  At level 0 the new node comes to be reached: if none of its *)
(* neighbors were reached now, what is reached now would have been closed  *)
(* before, and the search, that begins at the entry point, would have      *)
(* found its candidates there.                                             *)
(***************************************************************************)
LEMMA LevelLinked ==
  ASSUME GraphInv, NEW i \in Node, i = nextNode, NEW garbage \in [GraphLevel -> Uninit],
         NEW level \in GraphLevel, level <= MaxLevelOf(i),
         NEW lk, LevelsLinked(i, garbage, level + 1, lk),
         NEW h, h = SearchNeighborsEf(lk, position[i], EntryPoint, level, EF_CONSTRUCTION),
         NEW r, r = ConnectNeighbors(lk, i, h, level, garbage[level])
  PROVE  LevelsLinked(i, garbage, level, r)
<1>1. /\ lk \in Links /\ AllSound(lk) /\ links \in Links
      /\ level \in Nat /\ \A l \in GraphLevel : l \in Nat
      /\ EntryPoint \in Node /\ \A n \in Node : n \in Nat
  BY LevelFacts, GraphAssumption DEF LevelsLinked, GraphLevel, GraphInv
<1>2. position \in [Node -> Int] /\ garbage[level] \in Int
  BY GraphAssumption DEF GraphInv
<1>3. PICK q : q = position[i]
  OBVIOUS
<1>4. \A n \in Node : lk[n][level] = links[n][level]
  <2>1. level < level + 1
    BY <1>1
  <2> QED
    BY <2>1 DEF LevelsLinked
<1>5. ASSUME NEW C, Closed(lk, level, C), EntryPoint \in C
      PROVE  Finds(lk, q, EntryPoint, level, EF_CONSTRUCTION, C, h)
  <2>1. q \in Int /\ EF_CONSTRUCTION \in 2..EF_CONSTRUCTION
    BY <1>2, <1>3, GraphAssumption
  <2>2. SearchArgs(lk, q, level, EF_CONSTRUCTION, C)
    BY <1>1, <1>2, <1>5, <2>1 DEF SearchArgs
  <2> QED
    BY <1>3, <1>5, <2>2, SearchFinds
<1>6. PICK C1 : C1 = {n \in Node : MaxLevelOf(n) >= level}
  OBVIOUS
<1>7. Closed(lk, level, C1) /\ EntryPoint \in C1
  <2>1. Closed(lk, level, C1)
    BY <1>1, <1>6 DEF Closed, AllSound, ListSound
  <2>2. MaxLevelOf(EntryPoint) >= level
    <3>1. MaxLevelOf(i) <= MaxLevel /\ MaxLevelOf(EntryPoint) = MaxLevel
      BY LevelFacts
    <3>2. MaxLevelOf(i) \in Nat /\ MaxLevel \in Nat
      BY <1>1, LevelFacts
    <3> QED
      BY <1>1, <3>1, <3>2
  <2> QED
    BY <1>1, <1>6, <2>1, <2>2
<1>8. PICK C2 : C2 = {n \in Node : n < i \/ n = EntryPoint}
  OBVIOUS
<1>9. Closed(lk, level, C2) /\ EntryPoint \in C2
  <2>1. \A n \in Node : \A c \in ToSet(lk[n][level]) : c < i \/ c = EntryPoint
    BY <1>4 DEF GraphInv, LinkedOnly
  <2>2. \A n \in Node : ToSet(lk[n][level]) \subseteq Node
    BY <1>1 DEF AllSound, ListSound
  <2> QED
    BY <1>1, <1>8, <2>1, <2>2 DEF Closed
<1>10. Finds(lk, q, EntryPoint, level, EF_CONSTRUCTION, C1, h)
  BY <1>5, <1>7
<1>11. Finds(lk, q, EntryPoint, level, EF_CONSTRUCTION, C2, h)
  BY <1>5, <1>9
<1>12. /\ h \in Heap /\ EntryPoint \in Indices(h)
       /\ Indices(h) \subseteq C1 /\ Indices(h) \subseteq C2 /\ Indices(h) \subseteq Node
  BY <1>6, <1>10, <1>11 DEF Finds
<1>13. PICK u \in Seq(Node) :
         /\ Connected(lk, i, u, level, garbage[level], Len(u), r)
         /\ ToSet(u) \subseteq Indices(h) \ {i}
         /\ h # <<>> /\ i \notin Indices(h) => ToSet(u) # {}
  <2>1. PICK g \in Int : g = garbage[level]
    BY <1>2
  <2>2. (\A c \in Indices(h) : MaxLevelOf(c) >= level) /\ MaxLevelOf(i) >= level
    <3>1. MaxLevelOf(i) \in Nat
      BY <1>1, LevelFacts
    <3> QED
      BY <1>1, <1>6, <1>12, <3>1
  <2>3. r = ConnectNeighbors(lk, i, h, level, g)
    BY <2>1
  <2>4. \E u \in Seq(Node) : Chosen(lk, i, h, level, g, u, r)
    BY <1>1, <1>2, <1>12, <2>2, <2>3, ConnectFacts
  <2> QED
    BY <2>1, <2>4 DEF Chosen
<1>14. /\ r \in Links /\ AllSound(r) /\ r[i][level] = u
       /\ \A n \in Node, l \in GraphLevel : l # level => r[n][l] = lk[n][l]
       /\ \A n \in Node : n # i /\ n \notin ToSet(u) => r[n][level] = lk[n][level]
       /\ \A n \in Node : n # i => ToSet(r[n][level]) \subseteq ToSet(lk[n][level]) \cup {i}
  BY <1>13 DEF Connected
<1>15. \A j \in 1..Len(u) : Harmless(garbage) => i \in ToSet(r[u[j]][level])
  BY <1>13 DEF Connected, Harmless
<1>16. \A c \in ToSet(u) : Harmless(garbage) => i \in ToSet(r[c][level])
  <2>1. \A c \in ToSet(u) : \E j \in 1..Len(u) : c = u[j]
    BY <1>13, NodesOf
  <2> QED
    BY <1>15, <2>1
<1>17. LinkedOnly(r, i + 1)
  <2> SUFFICES ASSUME NEW n \in Node, NEW l \in GraphLevel, NEW c \in ToSet(r[n][l])
               PROVE  c < i + 1 \/ c = EntryPoint
    BY DEF LinkedOnly
  <2>1. CASE l # level
    BY <1>14, <2>1 DEF LevelsLinked, LinkedOnly
  <2>2. CASE l = level /\ n = i
    <3>1. c \in C2
      BY <1>12, <1>13, <1>14, <2>2
    <3> QED
      BY <1>1, <1>8, <3>1
  <2>3. CASE l = level /\ n # i
    <3>1. c = i \/ c \in ToSet(lk[n][level])
      BY <1>14, <2>3
    <3>2. i < i + 1
      BY <1>1
    <3> QED
      BY <3>1, <3>2 DEF LevelsLinked, LinkedOnly
  <2> QED
    BY <2>1, <2>2, <2>3
<1>18. ASSUME NEW n \in Node, NEW l \in GraphLevel, l < level \/ l > MaxLevelOf(i)
       PROVE  r[n][l] = links[n][l]
  <2>1. MaxLevelOf(i) \in Nat
    BY <1>1, LevelFacts
  <2>2. l # level /\ (l < level + 1 \/ l > MaxLevelOf(i))
    BY <1>1, <1>18, <2>1
  <2> QED
    BY <1>14, <2>2 DEF LevelsLinked
<1>19. ASSUME Harmless(garbage), NEW l \in GraphLevel, l >= level, l <= MaxLevelOf(i),
              NEW c \in ToSet(r[i][l])
       PROVE  i \in ToSet(r[c][l])
  <2>1. CASE l = level
    BY <1>14, <1>16, <1>19, <2>1
  <2>2. CASE l # level
    <3>1. l >= level + 1
      BY <1>1, <1>19, <2>2
    <3>2. c \in ToSet(lk[i][l]) /\ c \in Node
      BY <1>1, <1>14, <1>19, <2>2 DEF AllSound, ListSound
    <3>3. i \in ToSet(lk[c][l])
      BY <1>19, <3>1, <3>2 DEF LevelsLinked
    <3> QED
      BY <1>14, <2>2, <3>2, <3>3
  <2> QED
    BY <2>1, <2>2
<1>20. ASSUME Harmless(garbage), level = 0
       PROVE  i \in Reached(r)
  <2> SUFFICES ASSUME i \notin Reached(r) PROVE FALSE
    OBVIOUS
  <2>1. PICK R : R = Reached(r)
    OBVIOUS
  <2>2. Closed(r, 0, R) /\ EntryPoint \in R /\ i \notin R
    BY <1>1, <1>14, <2>1, ReachedFacts
  <2>3. ToSet(u) \cap R = {}
    BY <1>16, <1>20, <2>2 DEF Closed
  <2>4. Closed(lk, level, R)
    BY <1>14, <1>20, <2>2, <2>3 DEF Closed
  <2>5. Indices(h) \subseteq R
    BY <1>5, <2>2, <2>4 DEF Finds
  <2>6. i \notin Indices(h)
    BY <2>2, <2>5
  <2>7. h # <<>>
    BY <1>12 DEF Indices, ToSet
  <2> QED
    BY <1>13, <2>3, <2>5, <2>6, <2>7
<1> QED
  BY <1>14, <1>17, <1>18, <1>19, <1>20 DEF LevelsLinked

\* All the levels of a node, from its highest to level 0.
LEMMA NodeLinked ==
  ASSUME GraphInv, NEW garbage \in [GraphLevel -> Uninit], LinkNode(garbage)
  PROVE  /\ LevelsLinked(nextNode, garbage, 0, links')
         /\ nextNode \in Node /\ nextNode' = nextNode + 1 /\ position' = position
<1>1. PICK i : i = nextNode
  OBVIOUS
<1>2. /\ i \in Node /\ i \in Nat /\ Total \in Nat /\ i < Total
      /\ nextNode' = i + 1 /\ position' = position
  BY <1>1, GraphAssumption DEF LinkNode, GraphInv, Node
<1>3. PICK n : n = MaxLevelOf(i) + 1
  OBVIOUS
<1>4. n \in Nat \ {0} /\ MaxLevelOf(i) \in Nat /\ \A k \in 1..n : n - k \in GraphLevel
  BY <1>2, <1>3, LevelFacts, GraphAssumption DEF GraphLevel
<1>5. PICK from : from = GreedySearchLevel(position[i], EntryPoint, MaxLevel)
  OBVIOUS
<1>6. from = EntryPoint
  BY <1>5, GreedyStays DEF GraphInv
<1>7. PICK turn : turn = [k \in 1..n |->
         [lk \in Links |->
            ConnectNeighbors(lk, i,
              SearchNeighborsEf(lk, position[i], from, n - k, EF_CONSTRUCTION),
              n - k, garbage[n - k])]]
  OBVIOUS
<1>8. links' = Loop(turn, n, links)
  BY <1>1, <1>3, <1>5, <1>7 DEF LinkNode
<1>9. PICK G : G = [k \in 0..n |-> {lk \in Links : LevelsLinked(i, garbage, n - k, lk)}]
  OBVIOUS
<1>10. links \in G[0]
  <2>1. links \in Links /\ AllSound(links)
    BY DEF GraphInv
  <2>2. LinkedOnly(links, i + 1)
    <3> SUFFICES ASSUME NEW m \in Node, NEW l \in GraphLevel, NEW c \in ToSet(links[m][l])
                 PROVE  c < i + 1 \/ c = EntryPoint
      BY DEF LinkedOnly
    <3>1. c \in Nat
      BY <2>1, LevelFacts DEF AllSound, ListSound
    <3>2. c < i \/ c = EntryPoint
      BY <1>1 DEF GraphInv, LinkedOnly
    <3> QED
      BY <1>2, <3>1, <3>2
  <2>3. n - 0 = n /\ 0 \in 0..n /\ n # 0
    BY <1>4
  <2>4. ASSUME NEW l \in GraphLevel, l >= n, l <= MaxLevelOf(i) PROVE FALSE
    BY <1>3, <1>4, <2>4, GraphAssumption DEF GraphLevel
  <2>5. LevelsLinked(i, garbage, n, links)
    BY <2>1, <2>2, <2>3, <2>4 DEF LevelsLinked
  <2> QED
    BY <1>9, <2>1, <2>3, <2>5
<1>11. ASSUME NEW k \in 1..n, NEW lk \in G[k-1]
       PROVE  turn[k][lk] \in G[k]
  <2>1. k \in 0..n /\ k-1 \in 0..n
    BY <1>4
  <2>2. PICK level : level = n - k
    OBVIOUS
  <2>3. level \in GraphLevel /\ level <= MaxLevelOf(i) /\ n - (k-1) = level + 1
    BY <1>3, <1>4, <2>2
  <2>4. lk \in Links /\ LevelsLinked(i, garbage, level + 1, lk)
    BY <1>9, <2>1, <2>3
  <2>5. PICK h : h = SearchNeighborsEf(lk, position[i], EntryPoint, level, EF_CONSTRUCTION)
    OBVIOUS
  <2>6. PICK r : r = ConnectNeighbors(lk, i, h, level, garbage[level])
    OBVIOUS
  <2>7. turn[k][lk] = r
    BY <1>6, <1>7, <2>2, <2>4, <2>5, <2>6
  <2>8. LevelsLinked(i, garbage, level, r)
    BY <1>1, <1>2, <2>3, <2>4, <2>5, <2>6, LevelLinked
  <2>9. r \in Links
    BY <2>8 DEF LevelsLinked
  <2> QED
    BY <1>9, <2>1, <2>2, <2>7, <2>8, <2>9
<1>12. links' \in G[n]
  <2>1. n \in Nat
    BY <1>4
  <2>2. Loop(turn, n, links) \in G[n]
    BY <1>10, <1>11, <2>1, LoopEnds
  <2> QED
    BY <1>8, <2>2
<1>13. LevelsLinked(i, garbage, 0, links')
  <2>1. n \in 0..n /\ n - n = 0
    BY <1>4
  <2> QED
    BY <1>9, <1>12, <2>1
<1> QED
  BY <1>1, <1>2, <1>13

(***************************************************************************)
(* LinksSound is not inductive: that a neighbor is on the level needs the  *)
(* search to begin on it, at the entry point, and that no node is reached  *)
(* before it is linked needs LinkedOnly.                                   *)
(***************************************************************************)
LEMMA GraphInductive ==
  GraphSpec => []GraphInv
<1>1. GraphInit => GraphInv
  <2> SUFFICES ASSUME GraphInit PROVE GraphInv
    OBVIOUS
  <2>1. \A n \in Node, l \in GraphLevel : links[n][l] = <<>>
    BY DEF GraphInit
  <2>2. links \in Links
    <3>1. <<>> \in Seq(Node)
      OBVIOUS
    <3> QED
      BY <3>1 DEF GraphInit, Links
  <2>3. PICK e : e = <<>>
    OBVIOUS
  <2>4. Len(e) = 0 /\ IsInjective(e) /\ ToSet(e) = {}
    BY <2>3 DEF IsInjective, ToSet
  <2>5. AllSound(links)
    <3> SUFFICES ASSUME NEW n \in Node, NEW l \in GraphLevel PROVE ListSound(n, l, e)
      BY <2>1, <2>3 DEF AllSound
    <3> QED
      BY <2>3, <2>4, GraphAssumption DEF ListSound
  <2>6. LinkedOnly(links, nextNode)
    BY <2>1, <2>3, <2>4 DEF LinkedOnly
  <2>7. position \in [Node -> Position] /\ nextNode \in 0..Total
    BY GraphAssumption DEF GraphInit
  <2> QED
    BY <2>2, <2>5, <2>6, <2>7 DEF GraphInv
<1>2. GraphInv /\ [GraphNext]_graphVars => GraphInv'
  <2> SUFFICES ASSUME GraphInv, [GraphNext]_graphVars PROVE GraphInv'
    OBVIOUS
  <2>1. CASE GraphNext
    <3>1. PICK garbage \in [GraphLevel -> Uninit] : LinkNode(garbage)
      BY <2>1 DEF GraphNext
    <3>2. /\ LevelsLinked(nextNode, garbage, 0, links')
          /\ nextNode \in Node /\ nextNode' = nextNode + 1 /\ position' = position
      BY <3>1, NodeLinked
    <3>3. links' \in Links /\ AllSound(links') /\ LinkedOnly(links', nextNode')
      BY <3>2 DEF LevelsLinked
    <3>4. nextNode' \in 0..Total
      BY <3>2, GraphAssumption DEF Node
    <3>5. AllSound(links)' /\ LinkedOnly(links, nextNode)'
      BY <3>3 DEF AllSound, ListSound, LinkedOnly
    <3> QED
      BY <3>2, <3>3, <3>4, <3>5 DEF GraphInv
  <2>2. CASE UNCHANGED graphVars
    BY <2>2 DEF graphVars, GraphInv, AllSound, ListSound, LinkedOnly
  <2> QED
    BY <2>1, <2>2
<1> QED
  BY <1>1, <1>2, PTL DEF GraphSpec

-----------------------------------------------------------------------------
(***************************************************************************)
(* Links are sound at every level, whatever the uninitialized distances    *)
(* hold.                                                                   *)
(***************************************************************************)
THEOREM GraphLinksSound == GraphSpec => []LinksSound
<1>1. GraphInv => LinksSound
  BY DEF GraphInv, AllSound, ListSound, LinksSound
<1> QED
  BY <1>1, GraphInductive, PTL

(***************************************************************************)
(* A search finds as many of the nodes that can be reached as it is asked  *)
(* for, each once.                                                         *)
(***************************************************************************)
THEOREM SearchesFillUp == GraphSpec => []SearchFillsUp
<1>1. GraphInv => SearchFillsUp
  <2> SUFFICES ASSUME GraphInv, NEW q \in Position, NEW topK \in 1..EF_CONSTRUCTION \div 2
               PROVE  LET found == SearchOndemandHnsw(q, topK)
                          nodes == {e.idx : e \in ToSet(found)}
                          reachable == Cardinality(Reached(links))
                      IN  /\ nodes \subseteq Reached(links)
                          /\ Cardinality(nodes) = Len(found)
                          /\ Len(found) = IF reachable < 2 * topK THEN reachable ELSE 2 * topK
    BY DEF SearchFillsUp
  <2>1. PICK ef : ef = 2 * topK
    OBVIOUS
  <2>2. ef \in 2..EF_CONSTRUCTION
    BY <2>1, GraphAssumption
  <2>3. PICK R : R = Reached(links)
    OBVIOUS
  <2>4. /\ Closed(links, 0, R) /\ EntryPoint \in R
        /\ \A X : Closed(links, 0, X) /\ EntryPoint \in X => R \subseteq X
    BY <2>3, LevelFacts, ReachedFacts DEF GraphInv
  <2>5. SearchArgs(links, q, 0, ef, R)
    <3>1. q \in Int /\ position \in [Node -> Int] /\ 0 \in GraphLevel
      <4>1. Position \subseteq Int /\ MAX_LEVELS \in Nat /\ MAX_LEVELS > 1
        BY GraphAssumption
      <4>2. position \in [Node -> Position]
        BY DEF GraphInv
      <4> QED
        <5>1. q \in Int
          BY <4>1
        <5>2. position \in [Node -> Int]
          BY <4>1, <4>2
        <5>3. 0 \in GraphLevel
          BY <4>1 DEF GraphLevel
        <5> QED
          BY <5>1, <5>2, <5>3
    <3> QED
      BY <2>2, <2>4, <3>1 DEF SearchArgs, GraphInv
  <2>6. PICK h : h = SearchOndemandHnsw(q, topK)
    OBVIOUS
  <2>7. h = SearchNeighborsEf(links, q, EntryPoint, 0, ef)
    BY <2>1, <2>6, GreedyStays DEF SearchOndemandHnsw, GraphInv
  <2>8. Finds(links, q, EntryPoint, 0, ef, R, h)
    BY <2>4, <2>5, <2>7, SearchFinds
  <2>9. PICK S : S = Indices(h)
    OBVIOUS
  <2>10. /\ h \in Heap /\ Distinct(h) /\ Len(h) <= ef /\ EntryPoint \in S /\ S \subseteq R
         /\ Len(h) = ef \/ \A n \in S : ToSet(links[n][0]) \subseteq S
    BY <2>8, <2>9 DEF Finds
  <2>11. IsFiniteSet(S) /\ Cardinality(S) = Len(h) /\ Len(h) \in Nat
    BY <2>9, <2>10, HeapCardinality, ElementsOf DEF Indices
  <2>12. IsFiniteSet(R) /\ Cardinality(R) \in Nat /\ Cardinality(S) <= Cardinality(R)
    <3>1. R \in SUBSET Node
      BY <2>4 DEF Closed
    <3>2. IsFiniteSet(R)
      BY <3>1, NodesFinite, FS_Subset
    <3> QED
      BY <2>10, <3>2, FS_Subset, FS_CardinalityType
  <2>13. Len(h) = IF Cardinality(R) < ef THEN Cardinality(R) ELSE ef
    <3>1. CASE Len(h) = ef
      BY <2>2, <2>11, <2>12, <3>1
    <3>2. CASE Len(h) # ef
      <4>1. Closed(links, 0, S)
        BY <2>4, <2>10, <3>2 DEF Closed
      <4>2. S = R
        BY <2>4, <2>10, <4>1
      <4>3. Len(h) = Cardinality(R)
        BY <2>11, <4>2
      <4> QED
        BY <2>2, <2>10, <2>11, <3>2, <4>3
    <3> QED
      BY <3>1, <3>2
  <2> QED
    BY <2>1, <2>3, <2>6, <2>9, <2>10, <2>11, <2>13 DEF Indices
<1> QED
  BY <1>1, GraphInductive, PTL

\* What the two properties of a step need of the uninitialized distances.
UninitHarmless == \A g \in Uninit : g <= 0

\* A node is linked: its links back at each level, and its way from the entry point.
LEMMA HarmlessStep ==
  ASSUME UninitHarmless, GraphInv, [GraphNext]_graphVars, nextNode' = nextNode + 1
  PROVE  /\ nextNode \in Node /\ links' \in Links /\ AllSound(links')
         /\ \A l \in GraphLevel : l <= MaxLevelOf(nextNode) =>
              \A c \in ToSet(links'[nextNode][l]) : nextNode \in ToSet(links'[c][l])
         /\ nextNode \in Reached(links')
<1>1. nextNode \in Nat
  BY GraphAssumption DEF GraphInv
<1>2. GraphNext
  BY <1>1 DEF graphVars
<1>3. PICK garbage \in [GraphLevel -> Uninit] : LinkNode(garbage)
  BY <1>2 DEF GraphNext
<1>4. Harmless(garbage)
  BY <1>3 DEF UninitHarmless, Harmless
<1>5. LevelsLinked(nextNode, garbage, 0, links') /\ nextNode \in Node
  BY <1>3, NodeLinked
<1>6. \A l \in GraphLevel : l >= 0
  BY GraphAssumption DEF GraphLevel
<1> QED
  BY <1>4, <1>5, <1>6 DEF LevelsLinked

(***************************************************************************)
(* A node is linked back by each of its neighbors, at each of its levels,  *)
(* as long as no garbage is taken for the farthest neighbor.               *)
(***************************************************************************)
THEOREM GraphBackLinks ==
  ASSUME UninitHarmless
  PROVE  GraphSpec => BackLinks
<1>1. GraphInv /\ [GraphNext]_graphVars =>
        [nextNode' = nextNode + 1 =>
           \A l \in GraphLevel : \A c \in ToSet(links'[nextNode][l]) :
             nextNode \in ToSet(links'[c][l])]_graphVars
  <2> SUFFICES ASSUME GraphInv, [GraphNext]_graphVars, nextNode' = nextNode + 1,
                      NEW l \in GraphLevel, NEW c \in ToSet(links'[nextNode][l])
               PROVE  nextNode \in ToSet(links'[c][l])
    OBVIOUS
  <2>1. /\ nextNode \in Node /\ links' \in Links /\ AllSound(links')
        /\ l <= MaxLevelOf(nextNode) => nextNode \in ToSet(links'[c][l])
    BY HarmlessStep
  <2>2. l <= MaxLevelOf(nextNode)
    <3>1. PICK u : u = links'[nextNode][l]
      OBVIOUS
    <3>2. ListSound(nextNode, l, u)
      BY <2>1, <3>1 DEF AllSound
    <3>3. u # <<>>
      BY <3>1 DEF ToSet
    <3>4. MaxLevelOf(nextNode) \in Nat /\ l \in Nat
      BY <2>1, LevelFacts, GraphAssumption DEF GraphLevel
    <3> QED
      BY <3>2, <3>3, <3>4 DEF ListSound
  <2> QED
    BY <2>1, <2>2
<1> QED
  BY <1>1, GraphInductive, PTL DEF GraphSpec, BackLinks

(***************************************************************************)
(* A node can be found from the entry point once it is linked, as long as  *)
(* no garbage is taken for the farthest neighbor.                          *)
(***************************************************************************)
THEOREM GraphReachable ==
  ASSUME UninitHarmless
  PROVE  GraphSpec => NewNodeReachable
<1>1. GraphInv /\ [GraphNext]_graphVars =>
        [nextNode' = nextNode + 1 => nextNode \in Reached(links')]_graphVars
  BY HarmlessStep
<1> QED
  BY <1>1, GraphInductive, PTL DEF GraphSpec, NewNodeReachable
=============================================================================
