------------------------ MODULE SegmentPages_proofs ------------------------
(***************************************************************************)
(* Proofs about the flash pages of sealed segments, and about the slots    *)
(* that sealing and compaction write, for every geometry, level 3 and its  *)
(* overflow included, alone and during an index build; in the second part, *)
(* about their order by age and the store that they implement; and, in the *)
(* third part, about a build during which the host writes nothing, for any *)
(* number of segments and vectors, and any pauses and searches.            *)
(***************************************************************************)
EXTENDS IndexBuilder_proofs, IndexHistory

(***************************************************************************)
(* Slots that a listed segment is in, and the pages of the segment.        *)
(***************************************************************************)
LiveSlot == {p \in Level \X Nat :
               \E j \in Visited(p[1]) : p[2] = RingAdd(p[1], head[p[1]], j)}

SlotPages(p) == PagesOf(slots[p[1]][p[2]])

PagesKept ==
  /\ \A p \in LiveSlot : /\ SlotPages(p) # {}
                         /\ SlotPages(p) \subseteq mapped
                         /\ \A x \in SlotPages(p) : x >= reverse_lpn
  /\ \A p, q \in LiveSlot : p # q => SlotPages(p) \cap SlotPages(q) = {}

\* Nothing leaves level 3: until its ring is full, its tail is its count.
LastRing ==
  /\ head[3] = 0
  /\ level_count[3] < MaxSealed[3] => tail[3] = level_count[3]

PagesInv == IInv /\ LastRing /\ PagesKept

(***************************************************************************)
(* Pages.                                                                  *)
(***************************************************************************)
LEMMA PagesForType ==
  ASSUME NEW n \in Nat, NEW m \in Nat \ {0}
  PROVE  PagesFor(n, m) \in Nat /\ (n # 0 => PagesFor(n, m) # 0)
BY DEF PagesFor

\* A segment with entries takes at least a page.
LEMMA TablePagesPositive ==
  ASSUME NEW e \in Entries, KeysOf(e) # {}
  PROVE  TablePages(e) \in Nat \ {0}
<1>1. IsFiniteSet(KeysOf(e)) /\ Cardinality(KeysOf(e)) \in Nat
  BY KeysFinite
<1>2. Cardinality(KeysOf(e)) # 0
  BY <1>1, FS_EmptySet
<1> DEFINE n == Cardinality(KeysOf(e))
<1>3. n \in Nat \ {0}
  BY <1>1, <1>2
<1>4. TablePages(e) = PagesFor(n, IndexNodesPerPage) + PagesFor(n, DataNodesPerPage)
  BY DEF TablePages
<1> HIDE DEF n
<1>5. /\ PagesFor(n, IndexNodesPerPage) \in Nat \ {0}
      /\ PagesFor(n, DataNodesPerPage) \in Nat \ {0}
  BY <1>3, PagesForType, ConstantsAssumption
<1> QED
  BY <1>4, <1>5

LEMMA SealedPages ==
  ASSUME NEW e
  PROVE  PagesOf(Sealed(e, reverse_lpn - TablePages(e))) = NewPages(e)
BY DEF PagesOf, Sealed, NewPages

(***************************************************************************)
(* New pages, below all others, go to one slot, and what is invalidated    *)
(* belonged to slots that are not live any more.                           *)
(***************************************************************************)
LEMMA PagesAppend ==
  ASSUME PagesKept, reverse_lpn \in Int,
         NEW e, TablePages(e) \in Nat \ {0},
         NEW gone \in SUBSET LiveSlot, NEW new, NEW inv,
         LiveSlot' \subseteq (LiveSlot \ gone) \cup {new},
         \A p \in LiveSlot' : p # new => SlotPages(p)' = SlotPages(p),
         SlotPages(new)' = NewPages(e),
         reverse_lpn' = reverse_lpn - TablePages(e),
         mapped' = (mapped \cup NewPages(e)) \ inv,
         \A x \in inv : \E p \in gone : x \in SlotPages(p)
  PROVE  PagesKept'
<1> DEFINE n == TablePages(e)
<1>0. n \in Nat \ {0} /\ NewPages(e) = (reverse_lpn - n) .. (reverse_lpn - 1)
      /\ reverse_lpn' = reverse_lpn - n
  BY DEF NewPages
<1> HIDE DEF n
<1>1. /\ NewPages(e) # {}
      /\ \A x \in NewPages(e) : /\ x \in Int /\ x >= reverse_lpn'
                                /\ ~(x >= reverse_lpn)
  <2>1. reverse_lpn - 1 \in NewPages(e)
    BY <1>0
  <2> QED
    BY <1>0, <2>1
<1>2. \A p \in LiveSlot' : p = new \/ (p \in LiveSlot /\ p \notin gone)
  OBVIOUS
<1>3. ASSUME NEW p \in LiveSlot'
      PROVE  /\ SlotPages(p)' # {} /\ SlotPages(p)' \subseteq mapped'
             /\ \A x \in SlotPages(p)' : x >= reverse_lpn'
  <2>1. CASE p = new
    <3>1. \A x \in inv : x \notin NewPages(e)
      BY <1>1 DEF PagesKept
    <3> QED
      BY <1>1, <2>1, <3>1
  <2>2. CASE p # new
    <3>1. p \in LiveSlot /\ p \notin gone /\ SlotPages(p)' = SlotPages(p)
      BY <1>2, <2>2
    <3>2. \A x \in inv : x \notin SlotPages(p)
      BY <3>1 DEF PagesKept
    <3>3. /\ SlotPages(p) # {} /\ SlotPages(p) \subseteq mapped
          /\ \A x \in SlotPages(p) : x >= reverse_lpn
      BY <3>1 DEF PagesKept
    <3>4. \A x \in SlotPages(p) : x \in Int
      BY DEF SlotPages, PagesOf
    <3>5. \A x \in SlotPages(p) : x >= reverse_lpn'
      BY <1>0, <3>3, <3>4
    <3> QED
      BY <3>1, <3>2, <3>3, <3>5
  <2> QED
    BY <2>1, <2>2
<1>4. ASSUME NEW p \in LiveSlot', NEW q \in LiveSlot', p # q
      PROVE  SlotPages(p)' \cap SlotPages(q)' = {}
  <2>1. CASE p # new /\ q # new
    BY <1>2, <1>4, <2>1 DEF PagesKept
  <2>2. ASSUME NEW r \in LiveSlot', r # new PROVE SlotPages(r)' \cap NewPages(e) = {}
    BY <1>1, <1>2, <2>2 DEF PagesKept
  <2> QED
    BY <1>4, <2>1, <2>2
<1> QED
  BY <1>3, <1>4 DEF PagesKept

(***************************************************************************)
(* Rings.                                                                  *)
(***************************************************************************)
LEMMA PlaceInRing ==
  ASSUME TypeOK, NEW l \in Level, NEW i \in Visited(l)
  PROVE  RingAdd(l, head[l], i) \in 0..MaxSealed[l]-1
<1>0. MaxSealed[l] \in Nat
  BY Sizes
<1>1. head[l] \in 0..MaxSealed[l]-1
  BY DEF TypeOK
<1>2. i \in 0..MaxSealed[l]
  BY <1>0 DEF Visited
<1> QED
  BY <1>1, <1>2, RingAddType

LEMMA LiveType ==
  ASSUME TypeOK, NEW p \in LiveSlot
  PROVE  /\ p = <<p[1], p[2]>> /\ p[1] \in Level /\ p[2] \in 0..MaxSealed[p[1]]-1
<1>1. p[1] \in Level /\ p = <<p[1], p[2]>>
  BY DEF LiveSlot
<1>2. PICK j \in Visited(p[1]) : p[2] = RingAdd(p[1], head[p[1]], j)
  BY DEF LiveSlot
<1>3. head[p[1]] \in 0..MaxSealed[p[1]]-1 /\ j \in 0..MaxSealed[p[1]]-1
  BY <1>1 DEF TypeOK, Visited
<1> QED
  BY <1>1, <1>2, <1>3, RingAddType, Sizes

\* The ring of a level with room does not reach its tail.
LEMMA TailNotLive ==
  ASSUME IInv, NEW l \in 0..2, NEW j \in Visited(l)
  PROVE  RingAdd(l, head[l], j) # tail[l]
<1>1. /\ l \in Level /\ MaxSealed[l] \in Nat /\ level_count[l] \in Nat
      /\ level_count[l] < MaxSealed[l]
      /\ head[l] \in 0..MaxSealed[l]-1
      /\ tail[l] = RingAdd(l, head[l], level_count[l])
  <2>1. l \in Level /\ Threshold(l) \in Nat /\ Threshold(l) < MaxSealed[l]
    BY Sizes
  <2>2. MaxSealed[l] \in Nat /\ level_count[l] \in Nat /\ head[l] \in 0..MaxSealed[l]-1
    BY <2>1, Sizes DEF IInv, TypeOK
  <2>3. level_count[l] <= Threshold(l) /\ tail[l] = RingAdd(l, head[l], level_count[l])
    BY DEF IInv, RingInv
  <2> QED
    BY <2>1, <2>2, <2>3
<1>2. j \in 0..MaxSealed[l]-1 /\ j # level_count[l]
  BY <1>1 DEF Visited
<1> QED
  BY <1>1, <1>2, RingAddInjective

\* Appending to a level makes only the tail's slot live.
LEMMA AppendLive ==
  ASSUME IInv, LastRing, NEW l \in Level,
         l \in 0..2 => level_count[l] < Threshold(l),
         head'[l] = head[l], level_count'[l] = level_count[l] + 1,
         NEW j \in Visited(l)'
  PROVE  j \in Visited(l) \/ RingAdd(l, head[l], j) = tail[l]
<1>1. /\ j \in 0..MaxSealed[l]-1 /\ j < level_count[l] + 1
      /\ level_count[l] \in Nat
  BY DEF Visited, IInv, TypeOK
<1>2. CASE j = level_count[l]
  <2>1. CASE l \in 0..2
    BY <1>2, <2>1 DEF IInv, RingInv
  <2>2. CASE l = 3
    <3>1. tail[3] = level_count[3] /\ head[3] = 0
      BY <1>1, <1>2, <2>2, Sizes DEF LastRing
    <3>2. RingAdd(3, 0, j) = j
      BY <1>1, <2>2, Sizes DEF RingAdd
    <3> QED
      BY <1>2, <2>2, <3>1, <3>2
  <2> QED
    BY <2>1, <2>2 DEF Level
<1>3. CASE j # level_count[l]
  BY <1>1, <1>3 DEF Visited
<1> QED
  BY <1>2, <1>3
(***************************************************************************)
(* What a sealing does to the slots.                                       *)
(***************************************************************************)
LEMMA SealSlots ==
  ASSUME IInv, LastRing, NEW k \in Key, KvPut(k), PutAfterSeal(k)
  PROVE  /\ LiveSlot' \subseteq LiveSlot \cup {<<0, tail[0]>>}
         /\ \A l \in Level : \A i \in 0..MaxSealed[l]-1 :
              <<l, i>> # <<0, tail[0]>> => slots'[l][i] = slots[l][i]
         /\ slots'[0][tail[0]] = Sealed(growing, reverse_lpn - TablePages(growing))
         /\ reverse_lpn' = reverse_lpn - TablePages(growing)
         /\ mapped' = mapped \cup NewPages(growing)
         /\ growing \in Entries /\ KeysOf(growing) # {}
         /\ LastRing'
<1>1. /\ AppendSegment(0, growing, slots)
      /\ level_count' = [level_count EXCEPT ![0] = @ + 1]
      /\ mapped' = mapped \cup NewPages(growing)
      /\ head' = head
  BY DEF PutAfterSeal, CompactGrowingSegment, KvPut, Put
<1>2. /\ TypeOK /\ 0 \in Level /\ SlotsType(slots) /\ growing \in Entries
      /\ level_count \in [Level -> Nat] /\ tail \in [Level -> Nat]
  BY DEF IInv, TypeOK, SlotsType, Level
<1>3. /\ reverse_lpn' = reverse_lpn - TablePages(growing)
      /\ slots'[0][tail[0]] = Sealed(growing, reverse_lpn')
      /\ \A i \in 0..MaxSealed[0]-1 : i # tail[0] => slots'[0][i] = slots[0][i]
      /\ \A m \in Level \ {0} : slots'[m] = slots[m]
      /\ tail' = [tail EXCEPT ![0] = RingAdd(0, tail[0], 1)]
  <2>1. reverse_lpn' = reverse_lpn - TablePages(growing)
    BY <1>1 DEF AppendSegment
  <2> QED
    BY <1>1, <1>2, <2>1, AppendStep
<1>4. KeysOf(growing) # {}
  BY FS_EmptySet, ConstantsAssumption DEF PutAfterSeal, Full
<1>5. \A m \in Level \ {0} : level_count'[m] = level_count[m] /\ tail'[m] = tail[m]
  BY <1>1, <1>2, <1>3
<1>6. level_count'[0] = level_count[0] + 1
  BY <1>1, <1>2
<1>7. LastRing'
  <2>1. 3 \in Level \ {0}
    BY DEF Level
  <2> QED
    BY <1>1, <1>5, <2>1 DEF LastRing
<1>8. ASSUME NEW p \in LiveSlot' PROVE p \in LiveSlot \/ p = <<0, tail[0]>>
  <2>1. p \in Level \X Nat
    BY DEF LiveSlot
  <2>2. PICK j \in Visited(p[1])' : p[2] = RingAdd(p[1], head[p[1]], j)
    BY <1>1 DEF LiveSlot, RingAdd
  <2>3. CASE p[1] = 0
    <3>1. level_count[0] < Threshold(0)
      BY DEF IInv, RingInv, KvPut
    <3>2. j \in Visited(0) \/ RingAdd(0, head[0], j) = tail[0]
      BY <1>1, <1>2, <1>6, <2>2, <2>3, <3>1, AppendLive
    <3> QED
      BY <2>1, <2>2, <2>3, <3>2 DEF LiveSlot
  <2>4. CASE p[1] # 0
    <3>1. j \in Visited(p[1])
      BY <1>5, <2>1, <2>2, <2>4 DEF Visited
    <3> QED
      BY <2>1, <2>2, <3>1 DEF LiveSlot
  <2> QED
    BY <2>3, <2>4
<1>9. ASSUME NEW l \in Level, NEW i \in 0..MaxSealed[l]-1, <<l, i>> # <<0, tail[0]>>
      PROVE  slots'[l][i] = slots[l][i]
  BY <1>3, <1>9
<1> QED
  BY <1>1, <1>2, <1>3, <1>4, <1>7, <1>8, <1>9

(***************************************************************************)
(* What a compaction does to the slots.                                    *)
(***************************************************************************)
Gone(l) == {<<l, RingAdd(l, head[l], j)>> : j \in 0..NumVictimsOf(l)-1}

LEMMA CompactSlots ==
  ASSUME IInv, LastRing, NEW l \in 0..2, DoCompaction(l)
  PROVE  /\ Gone(l) \subseteq LiveSlot
         /\ LiveSlot' \subseteq (LiveSlot \ Gone(l)) \cup {<<l + 1, tail[l + 1]>>}
         /\ \A m \in Level : \A i \in 0..MaxSealed[m]-1 :
              <<m, i>> # <<l + 1, tail[l + 1]>> /\ <<m, i>> \notin Gone(l) =>
                slots'[m][i] = slots[m][i]
         /\ slots'[l + 1][tail[l + 1]] = Sealed(Merge(l), reverse_lpn')
         /\ reverse_lpn' = reverse_lpn - TablePages(Merge(l))
         /\ Merge(l) \in Entries /\ KeysOf(Merge(l)) # {}
         /\ LastRing'
<1> DEFINE n == NumVictimsOf(l)
           e == Merge(l)
<1>1. /\ IsVictimLevel(l)
      /\ AppendSegment(l + 1, e, ClearVictims(l))
      /\ level_count' = [level_count EXCEPT ![l] = @ - n, ![l + 1] = @ + 1]
      /\ head' = [head EXCEPT ![l] = RingAdd(l, @, n)]
  BY DEF DoCompaction
<1>2. /\ TypeOK /\ n <= level_count[l]
      /\ l < 2 => level_count[l + 1] < Threshold(l + 1)
  BY <1>1, VictimLevel DEF IInv
<1>3. /\ l \in Level /\ l + 1 \in Level /\ n \in Nat /\ n >= 2 /\ l # l + 1
      /\ MaxSealed[l] \in Nat /\ level_count[l] \in Nat
      /\ level_count[l] < MaxSealed[l] /\ head[l] \in 0..MaxSealed[l]-1
  <2>1. /\ l \in Level /\ l + 1 \in Level /\ n \in 2..Threshold(l)
        /\ Threshold(l) \in Nat /\ Threshold(l) < MaxSealed[l]
        /\ MaxSealed[l] \in Nat
    BY Sizes
  <2>2. level_count[l] \in Nat /\ head[l] \in 0..MaxSealed[l]-1
    BY <1>2, <2>1 DEF TypeOK
  <2>3. level_count[l] <= Threshold(l)
    BY DEF IInv, RingInv
  <2> HIDE DEF n
  <2> QED
    BY <2>1, <2>2, <2>3
<1> HIDE DEF n
<1>4. \A j \in 0..n-1 : j \in Visited(l)
  BY <1>2, <1>3 DEF Visited
<1>5. e \in Entries /\ KeysOf(e) # {}
  <2>1. 0 \in 0..n-1
    BY <1>3
  <2>2. KeysOf(At(l, 0).entries) # {}
    BY <1>4, <2>1 DEF IInv, SlotsLive, IsLive
  <2> QED
    BY <1>2, <2>1, <2>2, MergeType, MergeKeepsKeys DEF n
<1>6. /\ SlotsType(ClearVictims(l))
      /\ \A m \in Level \ {l} : ClearVictims(l)[m] = slots[m]
  BY <1>2, ClearVictimsType
<1> HIDE DEF e
<1>7. /\ reverse_lpn' = reverse_lpn - TablePages(e)
      /\ slots'[l + 1][tail[l + 1]] = Sealed(e, reverse_lpn')
      /\ \A i \in 0..MaxSealed[l + 1]-1 :
           i # tail[l + 1] => slots'[l + 1][i] = slots[l + 1][i]
      /\ \A m \in Level \ {l + 1} : slots'[m] = ClearVictims(l)[m]
      /\ tail' = [tail EXCEPT ![l + 1] = RingAdd(l + 1, tail[l + 1], 1)]
  <2>1. reverse_lpn' = reverse_lpn - TablePages(e)
    BY <1>1 DEF AppendSegment
  <2>2. /\ slots'[l + 1][tail[l + 1]] = Sealed(e, reverse_lpn')
        /\ \A i \in 0..MaxSealed[l + 1]-1 :
             i # tail[l + 1] => slots'[l + 1][i] = ClearVictims(l)[l + 1][i]
        /\ \A m \in Level \ {l + 1} : slots'[m] = ClearVictims(l)[m]
        /\ tail' = [tail EXCEPT ![l + 1] = RingAdd(l + 1, tail[l + 1], 1)]
    BY <1>1, <1>2, <1>3, <1>5, <1>6, AppendStep
  <2>3. ClearVictims(l)[l + 1] = slots[l + 1]
    BY <1>3, <1>6
  <2> QED
    BY <2>1, <2>2, <2>3
<1>8. /\ level_count \in [Level -> Nat] /\ head \in [Level -> Nat]
      /\ tail \in [Level -> Nat]
  BY <1>2 DEF TypeOK
<1>9. /\ level_count'[l] = level_count[l] - n
      /\ level_count'[l + 1] = level_count[l + 1] + 1
      /\ head'[l] = RingAdd(l, head[l], n)
      /\ \A m \in Level \ {l} : head'[m] = head[m]
      /\ \A m \in Level \ {l, l + 1} : level_count'[m] = level_count[m]
      /\ \A m \in Level \ {l + 1} : tail'[m] = tail[m]
      /\ tail'[l + 1] = RingAdd(l + 1, tail[l + 1], 1)
  BY <1>1, <1>3, <1>7, <1>8
<1>10. Gone(l) \subseteq LiveSlot
  <2> SUFFICES ASSUME NEW j \in 0..n-1
               PROVE  <<l, RingAdd(l, head[l], j)>> \in LiveSlot
    BY DEF Gone, n
  <2>1. j \in 0..MaxSealed[l]-1 /\ j \in Visited(l)
    BY <1>4 DEF Visited
  <2>2. RingAdd(l, head[l], j) \in Nat
    BY <1>3, <2>1 DEF RingAdd
  <2> QED
    BY <1>3, <2>1, <2>2 DEF LiveSlot
<1>11. ASSUME NEW p \in LiveSlot'
       PROVE  (p \in LiveSlot /\ p \notin Gone(l)) \/ p = <<l + 1, tail[l + 1]>>
  <2>1. p \in Level \X Nat
    BY DEF LiveSlot
  <2>2. PICK j \in Visited(p[1])' : p[2] = RingAdd(p[1], head'[p[1]], j)
    BY DEF LiveSlot, RingAdd
  <2>3. CASE p[1] = l
    <3>1. j \in Nat /\ j + n < level_count[l] /\ n + j \in 0..MaxSealed[l]-1
      BY <1>3, <1>9, <2>2, <2>3 DEF Visited
    <3>2. p[2] = RingAdd(l, head[l], n + j)
      BY <1>3, <1>9, <2>2, <2>3, <3>1, RingAddAdd
    <3>3. n + j \in Visited(l)
      BY <1>3, <3>1 DEF Visited
    <3>4. p \in LiveSlot
      BY <2>1, <2>3, <3>2, <3>3 DEF LiveSlot
    <3>5. ASSUME NEW i \in 0..n-1 PROVE RingAdd(l, head[l], i) # p[2]
      BY <1>2, <1>3, <3>1, <3>2, RingAddInjective
    <3> QED
      BY <2>3, <3>4, <3>5 DEF Gone, n
  <2>4. CASE p[1] = l + 1
    <3>1. l + 1 \in 0..2 => level_count[l + 1] < Threshold(l + 1)
      BY <1>2
    <3>2. j \in Visited(l + 1) \/ RingAdd(l + 1, head[l + 1], j) = tail[l + 1]
      BY <1>3, <1>9, <2>2, <2>4, <3>1, AppendLive
    <3>3. p[2] = RingAdd(l + 1, head[l + 1], j)
      BY <1>3, <1>9, <2>2, <2>4
    <3>4. p \notin Gone(l)
      BY <1>3, <2>4 DEF Gone
    <3> QED
      BY <2>1, <2>4, <3>2, <3>3, <3>4 DEF LiveSlot
  <2>5. CASE p[1] # l /\ p[1] # l + 1
    <3>1. j \in Visited(p[1]) /\ p[2] = RingAdd(p[1], head[p[1]], j)
      BY <1>9, <2>1, <2>2, <2>5 DEF Visited
    <3> QED
      BY <2>1, <2>5, <3>1 DEF LiveSlot, Gone
  <2> QED
    BY <2>3, <2>4, <2>5
<1>12. ASSUME NEW m \in Level, NEW i \in 0..MaxSealed[m]-1,
              <<m, i>> # <<l + 1, tail[l + 1]>>, <<m, i>> \notin Gone(l)
       PROVE  slots'[m][i] = slots[m][i]
  <2>1. CASE m = l + 1
    BY <1>7, <1>12, <2>1
  <2>2. CASE m = l
    <3>1. slots'[l] = ClearVictims(l)[l]
      BY <1>3, <1>7
    <3>2. slots[l] \in [0..MaxSealed[l]-1 -> Segment] /\ DOMAIN slots = Level
      BY <1>2, <1>3 DEF TypeOK
    <3>3. i \notin {RingAdd(l, head[l], j) : j \in 0..NumVictimsOf(l)-1}
      BY <1>12, <2>2 DEF Gone
    <3>4. ClearVictims(l)[l][i] = slots[l][i]
      BY <1>3, <2>2, <3>2, <3>3 DEF ClearVictims
    <3> QED
      BY <2>2, <3>1, <3>4
  <2>3. CASE m # l /\ m # l + 1
    BY <1>6, <1>7, <2>3
  <2> QED
    BY <2>1, <2>2, <2>3
<1>13. LastRing'
  <2>1. head'[3] = 0
    BY <1>9, Sizes DEF LastRing, Level
  <2>2. CASE l = 2
    <3>1. level_count[3] \in Nat /\ MaxSealed[3] \in Nat
      BY <1>8, Sizes DEF Level
    <3>2. ASSUME level_count[3] + 1 < MaxSealed[3]
          PROVE  tail'[3] = level_count[3] + 1
      BY <1>9, <2>2, <3>1, <3>2 DEF LastRing, RingAdd
    <3> QED
      BY <1>9, <2>1, <2>2, <3>2 DEF LastRing
  <2>3. CASE l # 2
    <3>1. 3 \in Level \ {l, l + 1} /\ 3 \in Level \ {l + 1}
      BY <2>3 DEF Level
    <3> QED
      BY <1>9, <2>1, <3>1 DEF LastRing
  <2> QED
    BY <2>2, <2>3
<1> QED
  BY <1>5, <1>7, <1>10, <1>11, <1>12, <1>13 DEF e
(***************************************************************************)
(* The pages survive both.                                                 *)
(***************************************************************************)
LEMMA PutPages ==
  ASSUME PagesInv, NEW k \in Key, KvPut(k)
  PROVE  LastRing' /\ PagesKept'
<1>0. IInv /\ LastRing /\ PagesKept /\ TypeOK
  BY DEF PagesInv, IInv
<1>1. CASE PutWithoutSeal(k)
  <2>1. UNCHANGED <<slots, level_count, head, tail, reverse_lpn, mapped>>
    BY <1>1 DEF PutWithoutSeal, KvPut, Put
  <2>2. LastRing'
    BY <1>0, <2>1 DEF LastRing
  <2>3. LiveSlot' = LiveSlot /\ \A p : SlotPages(p)' = SlotPages(p)
    BY <2>1 DEF LiveSlot, Visited, RingAdd, SlotPages, PagesOf
  <2>4. PagesKept'
    BY <1>0, <2>1, <2>3 DEF PagesKept
  <2> QED
    BY <2>2, <2>4
<1>2. CASE PutAfterSeal(k)
  <2>0. PICK new : new = <<0, tail[0]>>
    OBVIOUS
  <2>1. /\ LiveSlot' \subseteq LiveSlot \cup {new}
        /\ \A l \in Level : \A i \in 0..MaxSealed[l]-1 :
             <<l, i>> # new => slots'[l][i] = slots[l][i]
        /\ slots'[0][tail[0]] = Sealed(growing, reverse_lpn - TablePages(growing))
        /\ reverse_lpn' = reverse_lpn - TablePages(growing)
        /\ mapped' = mapped \cup NewPages(growing)
        /\ growing \in Entries /\ KeysOf(growing) # {}
        /\ LastRing'
    BY <1>0, <1>2, <2>0, SealSlots
  <2>2. TypeOK'
    BY <1>0, KvPutStep DEF IInv
  <2>3. \A p \in LiveSlot' : p # new => SlotPages(p)' = SlotPages(p)
    <3> SUFFICES ASSUME NEW p \in LiveSlot', p # new
                 PROVE  SlotPages(p)' = SlotPages(p)
      OBVIOUS
    <3>1. p \in LiveSlot
      BY <2>1
    <3>2. p = <<p[1], p[2]>> /\ p[1] \in Level /\ p[2] \in 0..MaxSealed[p[1]]-1
      BY <1>0, <3>1, LiveType
    <3> QED
      BY <2>1, <3>2 DEF SlotPages, PagesOf
  <2>4. SlotPages(new)' = NewPages(growing)
    <3>1. SlotPages(new)' = PagesOf(slots'[0][tail[0]])
      BY <2>0 DEF SlotPages, PagesOf
    <3> QED
      BY <2>1, <3>1, SealedPages
  <2>5. TablePages(growing) \in Nat \ {0} /\ reverse_lpn \in Int
    BY <1>0, <2>1, TablePagesPositive DEF TypeOK
  <2>6. PagesKept'
    <3>1. PICK none : none = {}
      OBVIOUS
    <3>2. /\ none \in SUBSET LiveSlot
          /\ mapped' = (mapped \cup NewPages(growing)) \ none
          /\ LiveSlot' \subseteq (LiveSlot \ none) \cup {new}
          /\ \A x \in none : \E p \in none : x \in SlotPages(p)
      BY <2>1, <3>1
    <3>3. PICK e : e = growing
      OBVIOUS
    <3>4. /\ SlotPages(new)' = NewPages(e) /\ TablePages(e) \in Nat \ {0}
          /\ reverse_lpn' = reverse_lpn - TablePages(e)
          /\ mapped' = (mapped \cup NewPages(e)) \ none
      BY <2>1, <2>4, <2>5, <3>2, <3>3
    <3> QED
      BY <1>0, <2>3, <2>5, <3>2, <3>4, PagesAppend
  <2> QED
    BY <2>1, <2>6
<1> QED
  BY <1>1, <1>2 DEF KvPut

LEMMA CompactPages ==
  ASSUME PagesInv, NEW l \in 0..2, DoCompaction(l)
  PROVE  LastRing' /\ PagesKept'
<1>0. IInv /\ LastRing /\ PagesKept /\ TypeOK
  BY DEF PagesInv, IInv
<1>1. PICK new : new = <<l + 1, tail[l + 1]>>
  OBVIOUS
<1> DEFINE e == Merge(l)
           inv == UNION {Invalidated(v) : v \in Victims(l)}
<1>2. /\ Gone(l) \subseteq LiveSlot
      /\ LiveSlot' \subseteq (LiveSlot \ Gone(l)) \cup {new}
      /\ \A m \in Level : \A i \in 0..MaxSealed[m]-1 :
           <<m, i>> # new /\ <<m, i>> \notin Gone(l) => slots'[m][i] = slots[m][i]
      /\ slots'[l + 1][tail[l + 1]] = Sealed(e, reverse_lpn')
      /\ reverse_lpn' = reverse_lpn - TablePages(e)
      /\ e \in Entries /\ KeysOf(e) # {}
      /\ LastRing'
  BY <1>0, <1>1, CompactSlots
<1>3. mapped' = (mapped \cup NewPages(e)) \ inv
  BY DEF DoCompaction
<1>4. \A x \in inv : \E p \in Gone(l) : x \in SlotPages(p)
  <2> SUFFICES ASSUME NEW j \in 0..NumVictimsOf(l)-1, NEW x \in Invalidated(At(l, j))
               PROVE  \E p \in Gone(l) : x \in SlotPages(p)
    BY DEF Victims
  <2>1. <<l, RingAdd(l, head[l], j)>> \in Gone(l)
    BY DEF Gone
  <2>2. SlotPages(<<l, RingAdd(l, head[l], j)>>) = PagesOf(At(l, j))
    BY DEF SlotPages, At
  <2>3. At(l, j).tail_lpn \in Int
    <3>1. NumVictimsOf(l) <= level_count[l] /\ level_count[l] \in Nat
      BY <1>0, VictimLevel, Sizes DEF DoCompaction, IInv, TypeOK
    <3>2. /\ NumVictimsOf(l) \in 2..Threshold(l) /\ Threshold(l) \in Nat
          /\ Threshold(l) < MaxSealed[l] /\ MaxSealed[l] \in Nat /\ l \in Level
      BY Sizes
    <3>3. j \in Visited(l) /\ j \in 0..MaxSealed[l]-1
      BY <3>1, <3>2 DEF Visited
    <3>4. IsLive(At(l, j)) /\ At(l, j) \in Segment
      BY <1>0, <3>2, <3>3, AtType DEF IInv, SlotsLive
    <3> QED
      BY <3>4 DEF IsLive, Segment, Lpn
  <2>4. x \in PagesOf(At(l, j))
    BY <2>3 DEF Invalidated, PagesOf
  <2> QED
    BY <2>1, <2>2, <2>4
<1> HIDE DEF e, inv
<1>5. \A p \in LiveSlot' : p # new => SlotPages(p)' = SlotPages(p)
  <2> SUFFICES ASSUME NEW p \in LiveSlot', p # new
               PROVE  SlotPages(p)' = SlotPages(p)
    OBVIOUS
  <2>1. p \in LiveSlot /\ p \notin Gone(l)
    BY <1>2
  <2>2. p = <<p[1], p[2]>> /\ p[1] \in Level /\ p[2] \in 0..MaxSealed[p[1]]-1
    BY <1>0, <2>1, LiveType
  <2> QED
    BY <1>2, <2>1, <2>2 DEF SlotPages, PagesOf
<1>6. SlotPages(new)' = NewPages(e)
  <2>1. SlotPages(new)' = PagesOf(slots'[l + 1][tail[l + 1]])
    BY <1>1 DEF SlotPages, PagesOf
  <2> QED
    BY <1>2, <2>1, SealedPages
<1>7. TablePages(e) \in Nat \ {0} /\ reverse_lpn \in Int
  BY <1>0, <1>2, TablePagesPositive DEF TypeOK
<1>8. PagesKept'
  BY <1>0, <1>2, <1>3, <1>4, <1>5, <1>6, <1>7, PagesAppend
<1> QED
  BY <1>2, <1>8

LEMMA PagesFrame ==
  ASSUME PagesInv, UNCHANGED <<slots, level_count, head, tail, reverse_lpn, mapped>>
  PROVE  LastRing' /\ PagesKept'
<1>1. LastRing'
  BY DEF PagesInv, LastRing
<1>2. LiveSlot' = LiveSlot /\ \A p : SlotPages(p)' = SlotPages(p)
  BY DEF LiveSlot, Visited, RingAdd, SlotPages, PagesOf
<1>3. PagesKept'
  BY <1>2 DEF PagesInv, PagesKept
<1> QED
  BY <1>1, <1>3

LEMMA InitPages == Init => PagesInv
<1> SUFFICES ASSUME Init PROVE LastRing /\ PagesKept
  BY InitIInv DEF PagesInv
<1>1. LiveSlot = {}
  BY Sizes DEF Init, LiveSlot, Visited
<1>2. LastRing
  BY Sizes DEF Init, LastRing, Level
<1> QED
  BY <1>1, <1>2 DEF PagesKept

LEMMA PagesInvariance == Spec => []PagesInv
<1>1. Init => PagesInv
  BY InitPages
<1>2. PagesInv /\ [Next]_segVars => PagesInv'
  <2> SUFFICES ASSUME PagesInv, [Next]_segVars PROVE PagesInv'
    OBVIOUS
  <2>0. IInv
    BY DEF PagesInv
  <2>1. ASSUME NEW k \in Key, KvPut(k) PROVE PagesInv'
    BY <2>0, <2>1, KvPutStep, PutPages DEF PagesInv
  <2>2. ASSUME NEW l \in 0..2, DoCompaction(l) PROVE PagesInv'
    BY <2>0, <2>2, DoCompactionStep, CompactPages DEF PagesInv
  <2>3. CASE CompactionDone
    <3>1. UNCHANGED <<slots, level_count, head, tail, reverse_lpn, mapped>>
      BY <2>3 DEF CompactionDone
    <3> QED
      BY <2>0, <2>3, <3>1, CompactionDoneStep, PagesFrame DEF PagesInv
  <2>4. CASE UNCHANGED segVars
    <3>1. UNCHANGED <<slots, level_count, head, tail, reverse_lpn, mapped>>
      BY <2>4 DEF segVars
    <3> QED
      BY <2>0, <2>4, <3>1, SegmentFrame, PagesFrame DEF PagesInv
  <2> QED
    BY <2>1, <2>2, <2>3, <2>4 DEF Next, CompactionLoop, OtherCommand
<1> QED
  BY <1>1, <1>2, PTL DEF Spec

LEMMA PagesInvMapped == PagesInv => LivePagesMapped
<1> SUFFICES ASSUME PagesInv, NEW l \in Level, NEW m \in Level,
                    NEW i \in Visited(l), NEW j \in Visited(m)
             PROVE  /\ PagesOf(At(l, i)) # {}
                    /\ PagesOf(At(l, i)) \subseteq mapped
                    /\ \A p \in PagesOf(At(l, i)) : p >= reverse_lpn
                    /\ <<l, i>> # <<m, j>> =>
                         PagesOf(At(l, i)) \cap PagesOf(At(m, j)) = {}
  BY DEF LivePagesMapped
<1>1. PagesKept /\ \A n \in Level : head[n] \in 0..MaxSealed[n]-1
  BY DEF PagesInv, IInv, TypeOK
<1> DEFINE p == <<l, RingAdd(l, head[l], i)>>
           q == <<m, RingAdd(m, head[m], j)>>
<1>2. i \in 0..MaxSealed[l]-1 /\ j \in 0..MaxSealed[m]-1
  BY DEF Visited
<1>3. RingAdd(l, head[l], i) \in Nat /\ RingAdd(m, head[m], j) \in Nat
  BY <1>1, <1>2, RingAddType, Sizes
<1>4. p \in LiveSlot /\ q \in LiveSlot
  BY <1>3 DEF LiveSlot
<1>5. SlotPages(p) = PagesOf(At(l, i)) /\ SlotPages(q) = PagesOf(At(m, j))
  BY DEF SlotPages, At
<1>6. <<l, i>> # <<m, j>> => p # q
  BY <1>1, <1>2, RingAddInjective
<1> HIDE DEF p, q
<1> QED
  BY <1>1, <1>4, <1>5, <1>6 DEF PagesKept

(***************************************************************************)
(* The pages of every listed segment, of level 3 too, stay mapped and its  *)
(* own: what DoCompaction invalidates (nvme_io_cmd.c) belonged to segments *)
(* that have left their ring.                                              *)
(***************************************************************************)
THEOREM PagesStayMapped == Spec => []LivePagesMapped
BY PagesInvMapped, PagesInvariance, PTL

(***************************************************************************)
(* No sealing and no compaction writes over the entries of a segment of    *)
(* levels 0..2 that is listed before and after it.                         *)
(***************************************************************************)
THEOREM NothingOverwritten == Spec => NoOverwrite
<1>1. PagesInv /\ [Next]_segVars =>
        [\A l \in 0..2 : \A i \in LivePositions(l) \cap LivePositions(l)' :
           slots[l][i].entries = slots'[l][i].entries]_segVars
  <2> SUFFICES ASSUME PagesInv, Next, NEW l \in 0..2,
                      NEW i \in LivePositions(l), i \in LivePositions(l)'
               PROVE  slots'[l][i] = slots[l][i]
    OBVIOUS
  <2>0. IInv /\ LastRing /\ TypeOK /\ l \in Level
    BY Sizes DEF PagesInv, IInv
  <2>1. i \in 0..MaxSealed[l]-1
    <3>1. PICK j \in Visited(l) : i = RingAdd(l, head[l], j)
      BY DEF LivePositions
    <3>2. j \in 0..MaxSealed[l]-1 /\ head[l] \in 0..MaxSealed[l]-1
      BY <2>0 DEF Visited, TypeOK
    <3> QED
      BY <2>0, <3>1, <3>2, RingAddType, Sizes
  <2>2. i # tail[l]
    BY <2>0, TailNotLive DEF LivePositions
  <2>3. <<l, i>> \in LiveSlot'
    <3>1. PICK j \in Visited(l)' : i = RingAdd(l, head[l], j)'
      BY DEF LivePositions
    <3>2. i \in Nat
      BY <2>0, <2>1, Sizes
    <3> QED
      BY <2>0, <3>1, <3>2 DEF LiveSlot
  <2>4. ASSUME NEW k \in Key, KvPut(k) PROVE slots'[l][i] = slots[l][i]
    <3>1. CASE PutWithoutSeal(k)
      BY <3>1 DEF PutWithoutSeal
    <3>2. CASE PutAfterSeal(k)
      <4>1. <<l, i>> # <<0, tail[0]>>
        BY <2>2
      <4> QED
        BY <2>0, <2>1, <2>4, <3>2, <4>1, SealSlots
    <3> QED
      BY <2>4, <3>1, <3>2 DEF KvPut
  <2>5. ASSUME NEW m \in 0..2, DoCompaction(m) PROVE slots'[l][i] = slots[l][i]
    <3>1. <<l, i>> # <<m + 1, tail[m + 1]>>
      BY <2>2
    <3>2. <<l, i>> \notin Gone(m)
      BY <2>0, <2>3, <2>5, <3>1, CompactSlots
    <3> QED
      BY <2>0, <2>1, <2>5, <3>1, <3>2, CompactSlots
  <2>6. CASE CompactionDone
    BY <2>6 DEF CompactionDone
  <2>7. CASE OtherCommand
    BY <2>7 DEF OtherCommand, segVars
  <2> QED
    BY <2>4, <2>5, <2>6, <2>7 DEF Next, CompactionLoop
<1> QED
  BY <1>1, PagesInvariance, PTL DEF Spec, NoOverwrite
(***************************************************************************)
(* An index step takes pages below all others and changes no segment's.    *)
(***************************************************************************)
LEMMA IndexPagesStep ==
  ASSUME PagesInv, TargetType, BuildIncrement
  PROVE  LastRing' /\ PagesKept'
<1>0. IInv /\ LastRing /\ PagesKept /\ TypeOK
  BY DEF PagesInv, IInv
<1>1. /\ target[1] \in Level /\ target[2] \in 0..MaxSealed[target[1]]-1
  BY DEF BuildIncrement, TargetType, IndexedLevel, Level
<1>2. UNCHANGED <<level_count, head, tail>>
  BY DEF BuildIncrement
<1>3. LiveSlot' = LiveSlot
  BY <1>2 DEF LiveSlot, Visited, RingAdd
<1>4. slots' = slots \/ slots' = [slots EXCEPT
        ![target[1]][target[2]].vector_index_start_lpn = reverse_lpn']
  BY DEF BuildIncrement
<1>5. \A m \in Level : \A i \in 0..MaxSealed[m]-1 :
        /\ slots'[m][i].head_lpn = slots[m][i].head_lpn
        /\ slots'[m][i].tail_lpn = slots[m][i].tail_lpn
  <2> DEFINE a == target[1]
             b == target[2]
             s2 == [slots[a][b] EXCEPT !.vector_index_start_lpn = reverse_lpn']
  <2>1. /\ DOMAIN slots = Level
        /\ \A m \in Level : slots[m] \in [0..MaxSealed[m]-1 -> Segment]
    BY <1>0 DEF TypeOK
  <2>2. a \in Level /\ b \in 0..MaxSealed[a]-1 /\ slots[a][b] \in Segment
    BY <1>1, <2>1
  <2>3. s2.head_lpn = slots[a][b].head_lpn /\ s2.tail_lpn = slots[a][b].tail_lpn
    BY <2>2 DEF Segment
  <2>4. slots' = slots \/ slots' = [slots EXCEPT ![a][b] = s2]
    BY <1>4
  <2> HIDE DEF a, b, s2
  <2>5. CASE slots' = [slots EXCEPT ![a][b] = s2]
    <3>1. /\ \A m \in Level : m # a => slots'[m] = slots[m]
          /\ slots'[a] = [slots[a] EXCEPT ![b] = s2]
      BY <2>1, <2>2, <2>5
    <3>2. /\ slots'[a][b] = s2
          /\ \A i \in 0..MaxSealed[a]-1 : i # b => slots'[a][i] = slots[a][i]
      BY <2>1, <2>2, <3>1
    <3> QED
      BY <2>3, <3>1, <3>2
  <2> QED
    BY <2>4, <2>5
<1>6. \A p \in LiveSlot : SlotPages(p)' = SlotPages(p)
  BY <1>0, <1>5, LiveType DEF SlotPages, PagesOf
<1>7. IndexPages \in Nat
  <2>1. TotalEntry(Target) \in Nat
    BY <1>0, <1>1, KeysFinite DEF TotalEntry, Target, TypeOK, Segment
  <2>2. PagesFor(TotalEntry(Target), NodesPerPage) \in Nat
    BY <2>1, PagesForType, BuilderAssumption
  <2>3. NodePages \in Nat /\ HeaderPages \in Nat
    BY <2>2 DEF NodePages, HeaderPages
  <2> QED
    BY <2>3 DEF IndexPages
<1>8. reverse_lpn' <= reverse_lpn /\ reverse_lpn' \in Int /\ reverse_lpn \in Int
  <2>1. reverse_lpn \in Int /\ reverse_lpn' = reverse_lpn - IndexPages
    BY <1>0 DEF BuildIncrement, TypeOK
  <2> QED
    BY <1>7, <2>1
<1>9. mapped \subseteq mapped'
  BY DEF BuildIncrement
<1>10. \A p \in LiveSlot : \A x \in SlotPages(p) : x >= reverse_lpn'
  <2>1. \A p \in LiveSlot : \A x \in SlotPages(p) : x >= reverse_lpn /\ x \in Int
    BY <1>0 DEF PagesKept, SlotPages, PagesOf
  <2> QED
    BY <1>8, <2>1
<1>11. PagesKept'
  BY <1>0, <1>3, <1>6, <1>9, <1>10 DEF PagesKept
<1>12. LastRing'
  BY <1>0, <1>2 DEF LastRing
<1> QED
  BY <1>11, <1>12

(***************************************************************************)
(* The same while an index build runs, is paused, or is preempted by       *)
(* searches: the pages of an index never take those of a segment.          *)
(***************************************************************************)
THEOREM PagesStayMappedDuringBuild == BuilderSpec => []LivePagesMapped
<1> DEFINE Inv == PagesInv /\ BuilderIInv
<1>1. BuilderInit => Inv
  <2> SUFFICES ASSUME BuilderInit PROVE Inv
    OBVIOUS
  <2>1. Init /\ target = NoTarget
    BY DEF BuilderInit
  <2>2. PagesInv /\ IInv
    BY <2>1, InitPages DEF PagesInv
  <2> QED
    BY <2>1, <2>2 DEF BuilderIInv, TargetType
<1>2. Inv /\ [BuilderNext]_vars => Inv'
  <2> SUFFICES ASSUME PagesInv, BuilderIInv, [BuilderNext]_vars PROVE PagesInv'
    BY BuilderStepInv
  <2>1. IInv' /\ IInv /\ TargetType
    BY BuilderStepInv DEF BuilderIInv
  <2> SUFFICES LastRing' /\ PagesKept'
    BY <2>1 DEF PagesInv
  <2>2. ASSUME NEW k \in Key, BuilderPut(k) PROVE LastRing' /\ PagesKept'
    BY <2>2, PutPages DEF BuilderPut
  <2>3. CASE BuilderCompaction
    <3>1. CASE CompactionDone
      BY <3>1, PagesFrame DEF CompactionDone
    <3> QED
      BY <2>3, <3>1, CompactPages DEF BuilderCompaction, CompactionLoop
  <2>4. CASE BuildIncrement
    BY <2>1, <2>4, IndexPagesStep
  <2>5. CASE \/ VectorBuild \/ PauseBuild \/ ResumeBuild \/ VectorSearch
             \/ NoCommand \/ NoIndexStep \/ AssignNextSsToIndex
             \/ (\E r \in 0..GarbageBound : Garbage(r))
             \/ UNCHANGED vars
    <3>1. UNCHANGED segVars
      BY <2>5 DEF VectorBuild, PauseBuild, ResumeBuild, VectorSearch, NoCommand,
                  NoIndexStep, AssignNextSsToIndex, Garbage, vars
    <3> QED
      BY <3>1, PagesFrame DEF segVars
  <2> QED
    BY <2>1, <2>2, <2>3, <2>4, <2>5
       DEF PagesInv, BuilderNext, Command, IndexTurn
<1>3. Inv => LivePagesMapped
  BY PagesInvMapped
<1> QED
  BY <1>1, <1>2, <1>3, PTL DEF BuilderSpec

-----------------------------------------------------------------------------
(***************************************************************************)
(* The sealed segments are ordered by age and implement the abstract       *)
(* store, for every set of keys, every geometry of levels 0..2 and of      *)
(* pages, and the one slot that super.h:13 gives level 3.  With more slots *)
(* there neither holds once level 3 has wrapped: its head never moves, so  *)
(* that the newest of its segments is found where the oldest was.          *)
(***************************************************************************)

(***************************************************************************)
(* A segment's place: its level and its age there.                         *)
(***************************************************************************)
EntriesAt(p) == At(p[1], p[2]).entries
NewerPlace(p, q) == Newer(p[1], p[2], q[1], q[2])

\* RunOrder over places.
Ordered ==
  /\ \A k \in Key : \A p \in ListedAt :
       growing[k] # NoLba => EntriesAt(p)[k] < growing[k]
  /\ \A k \in Key : \A p, q \in ListedAt :
       NewerPlace(p, q) /\ EntriesAt(p)[k] # NoLba =>
         EntriesAt(q)[k] < EntriesAt(p)[k]

\* The next value is written above all others.
Fresh ==
  \A k \in Key : /\ growing[k] < write_pointer_lba
                 /\ \A p \in ListedAt : EntriesAt(p)[k] < write_pointer_lba

StoreInv == IInv /\ Ordered /\ Fresh

\* All that the store has for a key; the newest is the largest.
Values(k) == {growing[k]} \cup {EntriesAt(p)[k] : p \in ListedAt}

LookupIsNewest ==
  \A k \in Key : /\ Lookup[k] \in Values(k)
                 /\ \A v \in Values(k) : v <= Lookup[k]

LEMMA PlaceType ==
  ASSUME TypeOK, NEW p \in ListedAt
  PROVE  /\ p = <<p[1], p[2]>> /\ p[1] \in Level
         /\ p[2] \in Visited(p[1]) /\ p[2] \in 0..MaxSealed[p[1]]-1
         /\ EntriesAt(p) \in Entries
<1>1. p = <<p[1], p[2]>> /\ p[1] \in Level /\ p[2] \in Visited(p[1])
  BY DEF ListedAt
<1>2. p[2] \in 0..MaxSealed[p[1]]-1
  BY <1>1 DEF Visited
<1>3. At(p[1], p[2]) \in Segment
  BY <1>1, <1>2, AtType
<1> QED
  BY <1>1, <1>2, <1>3 DEF EntriesAt, Segment

LEMMA ValueType ==
  ASSUME TypeOK, NEW k \in Key
  PROVE  /\ growing[k] \in Nat \cup {NoLba}
         /\ \A p \in ListedAt : EntriesAt(p)[k] \in Nat \cup {NoLba}
         /\ Values(k) \subseteq Nat \cup {NoLba}
<1>1. growing[k] \in Nat \cup {NoLba}
  BY DEF TypeOK, Entries
<1>2. \A p \in ListedAt : EntriesAt(p)[k] \in Nat \cup {NoLba}
  BY PlaceType DEF Entries
<1> QED
  BY <1>1, <1>2 DEF Values

LEMMA OrderedIsRunOrder == Ordered => RunOrder
<1> SUFFICES ASSUME Ordered PROVE RunOrder
  OBVIOUS
<1>1. \A l \in Level : \A i \in Visited(l) :
        <<l, i>> \in ListedAt /\ EntriesAt(<<l, i>>) = At(l, i).entries
  BY DEF ListedAt, EntriesAt
<1>2. ASSUME NEW k \in Key, NEW l \in Level, NEW i \in Visited(l)
      PROVE  growing[k] # NoLba => At(l, i).entries[k] < growing[k]
  BY <1>1 DEF Ordered
<1>3. ASSUME NEW k \in Key, NEW l \in Level, NEW m \in Level,
             NEW i \in Visited(l), NEW j \in Visited(m),
             Newer(l, i, m, j), At(l, i).entries[k] # NoLba
      PROVE  At(m, j).entries[k] < At(l, i).entries[k]
  <2>1. NewerPlace(<<l, i>>, <<m, j>>)
    BY <1>3 DEF NewerPlace
  <2> QED
    BY <1>1, <1>3, <2>1 DEF Ordered
<1> QED
  BY <1>2, <1>3 DEF RunOrder

(***************************************************************************)
(* What Lookup finds is the newest value there is.                         *)
(***************************************************************************)
LEMMA YoungestHolder ==
  ASSUME TypeOK, NEW k \in Key, Holders(k) # {}
  PROVE  \E p \in Holders(k) : \A q \in Holders(k) : p = q \/ NewerPlace(p, q)
<1> DEFINE Ls == {p[1] : p \in Holders(k)}
<1>0. \A p \in Holders(k) :
        /\ p = <<p[1], p[2]>> /\ p[1] \in Nat
        /\ p[2] \in 0..MaxSealed[p[1]]-1 /\ p[1] \in Level
  BY PlaceType DEF Holders, Level
<1>1. Ls \in SUBSET Nat /\ Ls # {}
  BY <1>0
<1>2. PICK m \in Ls : \A x \in Ls : m <= x
  <2> HIDE DEF Ls
  <2> QED BY <1>1, SmallestExists
<1> DEFINE Js == {p[2] : p \in {q \in Holders(k) : q[1] = m}}
<1>3. Js \in SUBSET (0..MaxSealed[m]-1) /\ Js # {} /\ m \in Level
  BY <1>0
<1>4. MaxSealed[m] - 1 \in Nat
  BY <1>3, Sizes
<1>5. PICK j \in Js : \A i \in Js : i <= j
  <2> HIDE DEF Js
  <2> QED BY <1>3, <1>4, LargestExists
<1>6. PICK p \in Holders(k) : p[1] = m /\ p[2] = j
  BY <1>5
<1>7. ASSUME NEW q \in Holders(k) PROVE p = q \/ NewerPlace(p, q)
  <2>1. /\ m <= q[1] /\ q[1] \in Nat /\ m \in Nat
        /\ q[1] = m => q[2] <= j
        /\ q[2] \in Nat /\ j \in Nat
    BY <1>0, <1>2, <1>5, <1>6, Sizes
  <2>2. CASE q[1] = m
    <3>1. CASE q[2] = j
      BY <1>0, <1>6, <2>2, <3>1
    <3>2. CASE q[2] # j
      BY <1>6, <2>1, <2>2, <3>2 DEF NewerPlace, Newer
    <3> QED BY <3>1, <3>2
  <2>3. CASE q[1] # m
    BY <1>6, <2>1, <2>3 DEF NewerPlace, Newer
  <2> QED BY <2>2, <2>3
<1> QED
  BY <1>7

LEMMA LookupNewest == TypeOK /\ Ordered => LookupIsNewest
<1> SUFFICES ASSUME TypeOK, Ordered, NEW k \in Key
             PROVE  /\ Lookup[k] \in Values(k)
                    /\ \A v \in Values(k) : v <= Lookup[k]
  BY DEF LookupIsNewest
<1>0. /\ growing[k] \in Nat \cup {NoLba} /\ growing[k] \in Values(k)
      /\ \A p \in ListedAt : EntriesAt(p)[k] \in Nat \cup {NoLba}
      /\ \A p \in ListedAt : EntriesAt(p)[k] \in Values(k)
      /\ \A v \in Values(k) : v = growing[k] \/ \E p \in ListedAt : v = EntriesAt(p)[k]
  BY ValueType DEF Values
<1>1. CASE growing[k] # NoLba
  <2>1. Lookup[k] = growing[k]
    BY <1>1 DEF Lookup
  <2>2. \A p \in ListedAt : EntriesAt(p)[k] < growing[k]
    BY <1>1 DEF Ordered
  <2>3. growing[k] <= growing[k]
    BY <1>0 DEF NoLba
  <2>4. \A p \in ListedAt : EntriesAt(p)[k] <= growing[k]
    BY <1>0, <2>2 DEF NoLba
  <2> QED
    BY <1>0, <2>1, <2>3, <2>4
<1>2. CASE growing[k] = NoLba /\ Holders(k) = {}
  <2>1. Lookup[k] = NoLba
    BY <1>2 DEF Lookup
  <2>2. \A p \in ListedAt : EntriesAt(p)[k] = NoLba
    BY <1>2 DEF Holders, EntriesAt
  <2>3. NoLba <= NoLba
    BY DEF NoLba
  <2> QED
    BY <1>0, <1>2, <2>1, <2>2, <2>3
<1>3. CASE growing[k] = NoLba /\ Holders(k) # {}
  <2> DEFINE y == CHOOSE p \in Holders(k) : \A q \in Holders(k) :
                    p = q \/ Newer(p[1], p[2], q[1], q[2])
  <2>1. y \in Holders(k) /\ \A q \in Holders(k) : y = q \/ NewerPlace(y, q)
    BY <1>3, YoungestHolder DEF NewerPlace
  <2>2. Lookup[k] = EntriesAt(y)[k]
    BY <1>3 DEF Lookup, EntriesAt
  <2> HIDE DEF y
  <2>3. y \in ListedAt /\ EntriesAt(y)[k] # NoLba
    BY <2>1 DEF Holders, EntriesAt
  <2>4. EntriesAt(y)[k] \in Nat
    BY <1>0, <2>3
  <2>5. ASSUME NEW p \in ListedAt PROVE EntriesAt(p)[k] <= EntriesAt(y)[k]
    <3>1. EntriesAt(p)[k] \in Nat \cup {NoLba}
      BY <1>0
    <3>2. CASE p \in Holders(k)
      <4>1. p = y \/ EntriesAt(p)[k] < EntriesAt(y)[k]
        BY <2>1, <2>3, <3>2 DEF Ordered
      <4> QED
        BY <2>4, <3>1, <4>1 DEF NoLba
    <3>3. CASE p \notin Holders(k)
      <4>1. EntriesAt(p)[k] = NoLba
        BY <3>3 DEF Holders, EntriesAt
      <4> QED
        BY <2>4, <4>1 DEF NoLba
    <3> QED BY <3>2, <3>3
  <2>6. NoLba <= EntriesAt(y)[k]
    BY <2>4 DEF NoLba
  <2> QED
    BY <1>0, <1>3, <2>2, <2>3, <2>5, <2>6
<1> QED
  BY <1>1, <1>2, <1>3

(***************************************************************************)
(* Where the segments are after a sealing.                                 *)
(***************************************************************************)
LEMMA OneSlotRing ==
  ASSUME MaxSealed[3] = 1, TypeOK
  PROVE  LastRing /\ head[3] = 0 /\ tail[3] = 0 /\ Visited(3) \subseteq {0}
BY DEF TypeOK, LastRing, Level, Visited

\* A segment appended to a level of 0..2 is its youngest.
LEMMA AppendPlaces ==
  ASSUME IInv, NEW l \in 0..2, level_count[l] < Threshold(l),
         head'[l] = head[l], level_count'[l] = level_count[l] + 1,
         \A i \in 0..MaxSealed[l]-1 : i # tail[l] => slots'[l][i] = slots[l][i]
  PROVE  /\ Visited(l)' = Visited(l) \cup {level_count[l]}
         /\ \A i \in Visited(l)' :
              At(l, i)' = IF i = level_count[l] THEN slots'[l][tail[l]] ELSE At(l, i)
<1>1. /\ l \in Level /\ MaxSealed[l] \in Nat /\ level_count[l] \in Nat
      /\ level_count[l] + 1 < MaxSealed[l] /\ head[l] \in 0..MaxSealed[l]-1
  <2>1. l \in Level /\ MaxSealed[l] \in Nat
    BY Sizes
  <2>2. level_count[l] \in Nat /\ head[l] \in 0..MaxSealed[l]-1
    BY <2>1 DEF IInv, TypeOK
  <2> QED
    BY <2>1, <2>2 DEF Threshold
<1>2. tail[l] = RingAdd(l, head[l], level_count[l])
  BY DEF IInv, RingInv
<1>3. Visited(l)' = Visited(l) \cup {level_count[l]}
  BY <1>1 DEF Visited
<1>4. ASSUME NEW i \in Visited(l)', i # level_count[l] PROVE At(l, i)' = At(l, i)
  <2>1. i \in Visited(l) /\ i \in 0..MaxSealed[l]-1
    BY <1>3, <1>4 DEF Visited
  <2>2. RingAdd(l, head[l], i) # tail[l]
    BY <2>1, TailNotLive
  <2>3. RingAdd(l, head[l], i) \in 0..MaxSealed[l]-1
    BY <1>1, <2>1, RingAddType
  <2> QED
    BY <2>2, <2>3 DEF At, RingAdd
<1>5. \A i : At(l, i)' = slots'[l][RingAdd(l, head[l], i)]
  BY DEF At, RingAdd
<1> QED
  BY <1>2, <1>3, <1>4, <1>5

LEMMA SealPlaces ==
  ASSUME MaxSealed[3] = 1, IInv, NEW k \in Key, KvPut(k), PutAfterSeal(k)
  PROVE  \E new :
           /\ ListedAt' = ListedAt \cup {new}
           /\ EntriesAt(new)' = growing
           /\ \A p \in ListedAt : EntriesAt(p)' = EntriesAt(p)
           /\ \A p \in ListedAt' : ~NewerPlace(p, new)
<1>0. /\ TypeOK /\ 0 \in 0..2 /\ 0 \in Level
      /\ level_count \in [Level -> Nat] /\ level_count[0] < Threshold(0)
      /\ tail[0] \in 0..MaxSealed[0]-1
  BY DEF IInv, TypeOK, Level, KvPut, RingInv
<1>1. /\ level_count' = [level_count EXCEPT ![0] = @ + 1]
      /\ head' = head
  BY DEF PutAfterSeal, CompactGrowingSegment, KvPut, Put
<1>2. /\ \A l \in Level : \A i \in 0..MaxSealed[l]-1 :
           <<l, i>> # <<0, tail[0]>> => slots'[l][i] = slots[l][i]
      /\ slots'[0][tail[0]].entries = growing
  BY <1>0, SealSlots, OneSlotRing DEF Sealed
<1>3. PICK c : c = level_count[0]
  OBVIOUS
<1>4. /\ Visited(0)' = Visited(0) \cup {c}
      /\ \A i \in Visited(0)' :
           At(0, i)' = IF i = c THEN slots'[0][tail[0]] ELSE At(0, i)
  <2>1. \A i \in 0..MaxSealed[0]-1 : i # tail[0] => slots'[0][i] = slots[0][i]
    BY <1>0, <1>2
  <2> QED
    BY <1>0, <1>1, <1>3, <2>1, AppendPlaces
<1>5. ASSUME NEW m \in Level, m # 0
      PROVE  Visited(m)' = Visited(m) /\ \A i \in Visited(m) : At(m, i)' = At(m, i)
  <2>1. level_count'[m] = level_count[m]
    BY <1>0, <1>1, <1>5
  <2>2. Visited(m)' = Visited(m)
    BY <2>1 DEF Visited
  <2>3. ASSUME NEW i \in Visited(m) PROVE At(m, i)' = At(m, i)
    <3>1. RingAdd(m, head[m], i) \in 0..MaxSealed[m]-1
      BY <1>0, PlaceInRing
    <3>2. <<m, RingAdd(m, head[m], i)>> # <<0, tail[0]>>
      BY <1>5
    <3> QED
      BY <1>1, <1>2, <3>1, <3>2 DEF At, RingAdd
  <2> QED
    BY <2>2, <2>3
<1>6. PICK new : new = <<0, c>>
  OBVIOUS
<1>7. c \in Nat /\ c \notin Visited(0) /\ \A i \in Visited(0) : i \in Nat /\ i < c
  BY <1>0, <1>3, Sizes DEF Visited
<1>8. ListedAt' = ListedAt \cup {new}
  BY <1>0, <1>4, <1>5, <1>6 DEF ListedAt
<1>9. EntriesAt(new)' = growing
  BY <1>2, <1>4, <1>6 DEF EntriesAt
<1>10. ASSUME NEW p \in ListedAt PROVE EntriesAt(p)' = EntriesAt(p)
  <2>1. p = <<p[1], p[2]>> /\ p[1] \in Level /\ p[2] \in Visited(p[1])
    BY <1>0, PlaceType
  <2> QED
    BY <2>1, <1>4, <1>5, <1>7 DEF EntriesAt
<1>11. ASSUME NEW p \in ListedAt' PROVE ~NewerPlace(p, new)
  <2>1. CASE p = new
    BY <1>6, <1>7, <2>1 DEF NewerPlace, Newer
  <2>2. CASE p \in ListedAt
    <3>1. p[1] \in Level /\ p[2] \in Visited(p[1])
      BY <1>0, <2>2, PlaceType
    <3> QED
      BY <1>6, <1>7, <3>1 DEF NewerPlace, Newer, Level
  <2> QED BY <1>8, <2>1, <2>2
<1> QED
  BY <1>8, <1>9, <1>10, <1>11

(***************************************************************************)
(* Where the segments are after a compaction: the victims have left, what  *)
(* was above them has moved up by their number, and the merged segment is  *)
(* the youngest of the next level, or the only one of level 3.             *)
(***************************************************************************)
VictimPlaces(l) == {<<l, j>> : j \in 0..NumVictimsOf(l)-1}

OldPlace(l, p) == IF p[1] = l THEN <<l, p[2] + NumVictimsOf(l)>> ELSE p

LEMMA CompactCounts ==
  ASSUME IInv, NEW l \in 0..2, DoCompaction(l)
  PROVE  /\ l \in Level /\ l + 1 \in Level
         /\ NumVictimsOf(l) \in Nat /\ NumVictimsOf(l) >= 2
         /\ NumVictimsOf(l) <= level_count[l]
         /\ level_count[l] < MaxSealed[l] /\ MaxSealed[l] \in Nat
         /\ \A m \in Level : level_count[m] \in Nat /\ head[m] \in 0..MaxSealed[m]-1
         /\ level_count'[l] = level_count[l] - NumVictimsOf(l)
         /\ level_count'[l + 1] = level_count[l + 1] + 1
         /\ \A m \in Level \ {l, l + 1} : level_count'[m] = level_count[m]
         /\ head'[l] = RingAdd(l, head[l], NumVictimsOf(l))
         /\ \A m \in Level \ {l} : head'[m] = head[m]
         /\ l < 2 => level_count[l + 1] < Threshold(l + 1)
<1>1. /\ level_count' = [level_count EXCEPT ![l] = @ - NumVictimsOf(l), ![l + 1] = @ + 1]
      /\ head' = [head EXCEPT ![l] = RingAdd(l, @, NumVictimsOf(l))]
      /\ IsVictimLevel(l)
  BY DEF DoCompaction
<1>2. /\ level_count \in [Level -> Nat] /\ head \in [Level -> Nat]
      /\ \A m \in Level : head[m] \in 0..MaxSealed[m]-1
  BY DEF IInv, TypeOK
<1>3. /\ NumVictimsOf(l) <= level_count[l]
      /\ l < 2 => level_count[l + 1] < Threshold(l + 1)
  BY <1>1, VictimLevel DEF IInv
<1>4. /\ l \in Level /\ l + 1 \in Level /\ l + 1 # l
      /\ NumVictimsOf(l) \in 2..Threshold(l) /\ Threshold(l) \in Nat
      /\ Threshold(l) < MaxSealed[l] /\ MaxSealed[l] \in Nat
  BY Sizes
<1>5. level_count[l] <= Threshold(l)
  BY DEF IInv, RingInv
<1>6. /\ level_count'[l] = level_count[l] - NumVictimsOf(l)
      /\ level_count'[l + 1] = level_count[l + 1] + 1
      /\ \A m \in Level \ {l, l + 1} : level_count'[m] = level_count[m]
  BY <1>1, <1>2, <1>4
<1>7. /\ head'[l] = RingAdd(l, head[l], NumVictimsOf(l))
      /\ \A m \in Level \ {l} : head'[m] = head[m]
  BY <1>1, <1>2, <1>4
<1>8. level_count[l] < MaxSealed[l] /\ NumVictimsOf(l) \in Nat /\ NumVictimsOf(l) >= 2
  BY <1>2, <1>4, <1>5
<1> QED
  BY <1>2, <1>3, <1>4, <1>6, <1>7, <1>8

LEMMA CompactVictimLevel ==
  ASSUME MaxSealed[3] = 1, IInv, NEW l \in 0..2, DoCompaction(l), NEW i
  PROVE  /\ i \in Visited(l)' => /\ i \in Nat
                                 /\ i + NumVictimsOf(l) \in Visited(l)
                                 /\ At(l, i)' = At(l, i + NumVictimsOf(l))
         /\ i \in Visited(l) /\ i >= NumVictimsOf(l) =>
              i - NumVictimsOf(l) \in Visited(l)'
<1>1. PICK n : n = NumVictimsOf(l)
  OBVIOUS
<1>2. /\ l \in Level /\ n \in Nat /\ n >= 2 /\ n <= level_count[l]
      /\ level_count[l] < MaxSealed[l] /\ MaxSealed[l] \in Nat
      /\ level_count[l] \in Nat /\ head[l] \in 0..MaxSealed[l]-1
      /\ level_count'[l] = level_count[l] - n
      /\ head'[l] = RingAdd(l, head[l], n)
  BY <1>1, CompactCounts
<1>3. ASSUME i \in Visited(l)'
      PROVE  i \in Nat /\ i + n \in Visited(l) /\ At(l, i)' = At(l, i + n)
  <2>1. i \in Nat /\ i + n \in Visited(l) /\ i + n \in 0..MaxSealed[l]-1
    BY <1>2, <1>3 DEF Visited
  <2>2. At(l, i)' = slots'[l][RingAdd(l, head'[l], i)]
    BY DEF At, RingAdd
  <2>3. RingAdd(l, head'[l], i) = RingAdd(l, head[l], n + i)
    BY <1>2, <2>1, RingAddAdd
  <2>4. RingAdd(l, head[l], i + n) \in 0..MaxSealed[l]-1
    BY <1>2, <2>1, RingAddType
  <2>5. <<l, RingAdd(l, head[l], i + n)>> \notin Gone(l)
    <3>1. \A j \in 0..n-1 : RingAdd(l, head[l], j) # RingAdd(l, head[l], i + n)
      BY <1>2, <2>1, RingAddInjective
    <3> QED
      BY <1>1, <3>1 DEF Gone
  <2>6. slots'[l][RingAdd(l, head[l], i + n)] = slots[l][RingAdd(l, head[l], i + n)]
    <3>1. <<l, RingAdd(l, head[l], i + n)>> # <<l + 1, tail[l + 1]>>
      OBVIOUS
    <3> QED
      BY <1>2, <2>4, <2>5, <3>1, CompactSlots, OneSlotRing DEF IInv
  <2>7. n + i = i + n
    BY <1>2, <2>1
  <2> QED
    BY <2>1, <2>2, <2>3, <2>6, <2>7 DEF At
<1>4. ASSUME i \in Visited(l), i >= n PROVE i - n \in Visited(l)'
  BY <1>2, <1>4 DEF Visited
<1> QED
  BY <1>1, <1>3, <1>4

LEMMA CompactNextLevel ==
  ASSUME MaxSealed[3] = 1, IInv, NEW l \in 0..2, DoCompaction(l)
  PROVE  \E c \in Nat :
           /\ c \in Visited(l + 1)' /\ At(l + 1, c)'.entries = Merge(l)
           /\ Visited(l + 1)' \subseteq Visited(l + 1) \cup {c}
           /\ \A i \in Visited(l + 1)' : i \in Nat /\ i <= c
           /\ \A i \in Visited(l + 1)' : i # c => At(l + 1, i)' = At(l + 1, i)
           /\ \A i \in Visited(l + 1) : (i # c /\ i \in Visited(l + 1)') \/ l = 2
<1>1. PICK m : m = l + 1
  OBVIOUS
<1>2. /\ m \in Level /\ m # l /\ level_count'[m] = level_count[m] + 1
      /\ head'[m] = head[m] /\ level_count[m] \in Nat
      /\ head[m] \in 0..MaxSealed[m]-1
      /\ l < 2 => level_count[m] < Threshold(m)
  BY <1>1, CompactCounts
<1>3. /\ \A i \in 0..MaxSealed[m]-1 : i # tail[m] => slots'[m][i] = slots[m][i]
      /\ slots'[m][tail[m]].entries = Merge(l)
  <2>1. \A i : <<m, i>> \notin Gone(l)
    BY <1>2 DEF Gone
  <2>2. /\ \A i \in 0..MaxSealed[m]-1 :
             <<m, i>> # <<m, tail[m]>> /\ <<m, i>> \notin Gone(l) =>
               slots'[m][i] = slots[m][i]
        /\ slots'[m][tail[m]] = Sealed(Merge(l), reverse_lpn')
    BY <1>1, <1>2, CompactSlots, OneSlotRing DEF IInv
  <2>3. ASSUME NEW i \in 0..MaxSealed[m]-1, i # tail[m]
        PROVE  slots'[m][i] = slots[m][i]
    <3>1. <<m, i>> # <<m, tail[m]>>
      BY <2>3
    <3> QED
      BY <2>1, <2>2, <3>1
  <2>4. slots'[m][tail[m]].entries = Merge(l)
    BY <2>2 DEF Sealed
  <2> QED
    BY <2>3, <2>4
<1>4. CASE l < 2
  <2>1. PICK c : c = level_count[m]
    OBVIOUS
  <2>2. m \in 0..2
    BY <1>1, <1>4
  <2>3. /\ Visited(m)' = Visited(m) \cup {c}
        /\ \A i \in Visited(m)' :
             At(m, i)' = IF i = c THEN slots'[m][tail[m]] ELSE At(m, i)
    BY <1>2, <1>3, <1>4, <2>1, <2>2, AppendPlaces
  <2>4. c \in Nat /\ \A i \in Visited(m) : i \in Nat /\ i < c
    BY <1>2, <2>1, Sizes DEF Visited
  <2> QED
    BY <1>1, <1>3, <2>3, <2>4
<1>5. CASE l = 2
  <2>1. m = 3 /\ head[3] = 0 /\ tail[3] = 0
    BY <1>1, <1>5, OneSlotRing DEF IInv
  <2>2. Visited(m)' = {0}
    BY <1>2, <2>1 DEF Visited
  <2>3. At(m, 0)' = slots'[m][tail[m]]
    BY <1>2, <2>1 DEF At, RingAdd
  <2> QED
    BY <1>1, <1>3, <1>5, <2>2, <2>3
<1> QED
  BY <1>4, <1>5

LEMMA CompactOtherLevels ==
  ASSUME MaxSealed[3] = 1, IInv, NEW l \in 0..2, DoCompaction(l),
         NEW m \in Level, m # l, m # l + 1
  PROVE  Visited(m)' = Visited(m) /\ \A i \in Visited(m) : At(m, i)' = At(m, i)
<1>1. level_count'[m] = level_count[m] /\ head'[m] = head[m]
  BY CompactCounts
<1>2. Visited(m)' = Visited(m)
  BY <1>1 DEF Visited
<1>3. ASSUME NEW i \in Visited(m) PROVE At(m, i)' = At(m, i)
  <2>1. RingAdd(m, head[m], i) \in 0..MaxSealed[m]-1
    BY PlaceInRing DEF IInv
  <2>2. /\ <<m, RingAdd(m, head[m], i)>> \notin Gone(l)
        /\ <<m, RingAdd(m, head[m], i)>> # <<l + 1, tail[l + 1]>>
    BY DEF Gone
  <2>3. slots'[m][RingAdd(m, head[m], i)] = slots[m][RingAdd(m, head[m], i)]
    BY <2>1, <2>2, CompactSlots, OneSlotRing DEF IInv
  <2> QED
    BY <1>1, <2>3 DEF At, RingAdd
<1> QED
  BY <1>2, <1>3

LEMMA CompactPlaces ==
  ASSUME MaxSealed[3] = 1, IInv, NEW l \in 0..2, DoCompaction(l)
  PROVE  \E new \in ListedAt' :
           /\ EntriesAt(new)' = Merge(l)
           /\ l = 2 => new = <<3, 0>>
           /\ \A p \in ListedAt' \ {new} :
                /\ OldPlace(l, p) \in ListedAt
                /\ EntriesAt(p)' = EntriesAt(OldPlace(l, p))
           /\ \A q \in ListedAt \ VictimPlaces(l) :
                \/ \E p \in ListedAt' : EntriesAt(p)' = EntriesAt(q)
                \/ l = 2 /\ q = <<3, 0>>
           /\ \A p \in ListedAt' \ {new}, v \in VictimPlaces(l) :
                /\ NewerPlace(p, new) => NewerPlace(OldPlace(l, p), v)
                /\ NewerPlace(new, p) => NewerPlace(v, OldPlace(l, p))
           /\ \A p, q \in ListedAt' \ {new} :
                NewerPlace(p, q) => NewerPlace(OldPlace(l, p), OldPlace(l, q))
<1>1. PICK n : n = NumVictimsOf(l)
  OBVIOUS
<1>2. /\ TypeOK /\ l \in Level /\ l + 1 \in Level /\ n \in Nat
      /\ \A m \in Level : m \in Nat
      /\ \A p \in ListedAt' : /\ p = <<p[1], p[2]>> /\ p[1] \in Level
                              /\ p[2] \in Visited(p[1])'
      /\ \A m \in Level : \A i \in Visited(m)' : <<m, i>> \in ListedAt'
      /\ \A m \in Level : \A i \in Visited(m) : <<m, i>> \in ListedAt
      /\ \A m \in Level : \A i \in Visited(m) \cup Visited(m)' : i \in Nat
  BY <1>1, CompactCounts DEF IInv, Level, ListedAt, Visited
<1>3. PICK c \in Nat :
        /\ c \in Visited(l + 1)' /\ At(l + 1, c)'.entries = Merge(l)
        /\ Visited(l + 1)' \subseteq Visited(l + 1) \cup {c}
        /\ \A i \in Visited(l + 1)' : i \in Nat /\ i <= c
        /\ \A i \in Visited(l + 1)' : i # c => At(l + 1, i)' = At(l + 1, i)
        /\ \A i \in Visited(l + 1) : (i # c /\ i \in Visited(l + 1)') \/ l = 2
  BY CompactNextLevel
<1>4. PICK new : new = <<l + 1, c>>
  OBVIOUS
<1>5. new \in ListedAt' /\ EntriesAt(new)' = Merge(l)
  BY <1>2, <1>3, <1>4 DEF EntriesAt
<1>6. l = 2 => new = <<3, 0>>
  <2> SUFFICES ASSUME l = 2 PROVE c = 0
    BY <1>4
  <2>1. \A i \in Visited(3)' : i = 0
    BY DEF Visited
  <2> QED
    BY <1>3, <2>1
<1>7. ASSUME NEW p \in ListedAt', p # new
      PROVE  /\ OldPlace(l, p) \in ListedAt
             /\ EntriesAt(p)' = EntriesAt(OldPlace(l, p))
  <2>1. p = <<p[1], p[2]>> /\ p[1] \in Level /\ p[2] \in Visited(p[1])'
    BY <1>2
  <2>2. CASE p[1] = l
    <3>1. /\ p[2] + n \in Visited(l) /\ At(l, p[2])' = At(l, p[2] + n)
          /\ OldPlace(l, p) = <<l, p[2] + n>>
      BY <1>1, <2>1, <2>2, CompactVictimLevel DEF OldPlace
    <3> QED
      BY <1>2, <2>2, <3>1 DEF EntriesAt
  <2>3. CASE p[1] = l + 1
    <3>1. p[2] # c
      BY <1>4, <1>7, <2>1, <2>3
    <3>2. p[2] \in Visited(l + 1) /\ At(l + 1, p[2])' = At(l + 1, p[2])
      BY <1>3, <2>1, <2>3, <3>1
    <3>3. OldPlace(l, p) = p
      BY <1>2, <2>3 DEF OldPlace
    <3> QED
      BY <1>2, <2>1, <2>3, <3>2, <3>3 DEF EntriesAt
  <2>4. CASE p[1] # l /\ p[1] # l + 1
    <3>1. p[2] \in Visited(p[1]) /\ At(p[1], p[2])' = At(p[1], p[2])
      BY <2>1, <2>4, CompactOtherLevels
    <3>2. OldPlace(l, p) = p
      BY <2>4 DEF OldPlace
    <3> QED
      BY <1>2, <2>1, <3>1, <3>2 DEF EntriesAt
  <2> QED BY <2>2, <2>3, <2>4
<1>8. ASSUME NEW q \in ListedAt, q \notin VictimPlaces(l)
      PROVE  \/ \E p \in ListedAt' : EntriesAt(p)' = EntriesAt(q)
             \/ l = 2 /\ q = <<3, 0>>
  <2>1. q = <<q[1], q[2]>> /\ q[1] \in Level /\ q[2] \in Visited(q[1]) /\ q[2] \in Nat
    BY <1>2, PlaceType
  <2>2. CASE q[1] = l
    <3>1. q[2] >= n
      <4> SUFFICES ASSUME q[2] < n PROVE FALSE
        BY <1>2, <2>1
      <4>1. q[2] \in 0..n-1
        BY <1>2, <2>1
      <4> QED
        BY <1>1, <1>8, <2>1, <2>2, <4>1 DEF VictimPlaces
    <3>2. PICK i : i = q[2] - n
      OBVIOUS
    <3>3. i \in Visited(l)' /\ i + n = q[2]
      BY <1>1, <1>2, <2>1, <2>2, <3>1, <3>2, CompactVictimLevel
    <3>4. At(l, i)' = At(l, q[2])
      BY <1>1, <3>3, CompactVictimLevel
    <3>5. <<l, i>> \in ListedAt' /\ EntriesAt(<<l, i>>)' = EntriesAt(q)
      BY <1>2, <2>2, <3>3, <3>4 DEF EntriesAt
    <3> QED BY <3>5
  <2>3. CASE q[1] = l + 1
    <3>1. CASE l = 2
      <4>1. q[2] = 0
        BY <1>2, <2>1, <2>3, <3>1, OneSlotRing
      <4> QED
        BY <2>1, <2>3, <3>1, <4>1
    <3>2. CASE l # 2
      <4>1. q[2] \in Visited(l + 1)' /\ At(l + 1, q[2])' = At(l + 1, q[2])
        BY <1>3, <2>1, <2>3, <3>2
      <4>2. <<l + 1, q[2]>> \in ListedAt' /\ EntriesAt(<<l + 1, q[2]>>)' = EntriesAt(q)
        BY <1>2, <2>3, <4>1 DEF EntriesAt
      <4> QED BY <4>2
    <3> QED BY <3>1, <3>2
  <2>4. CASE q[1] # l /\ q[1] # l + 1
    <3>1. /\ Visited(q[1])' = Visited(q[1])
          /\ At(q[1], q[2])' = At(q[1], q[2])
      BY <2>1, <2>4, CompactOtherLevels
    <3>2. q \in ListedAt' /\ EntriesAt(q)' = EntriesAt(q)
      BY <1>2, <2>1, <3>1 DEF EntriesAt
    <3> QED BY <3>2
  <2> QED BY <2>2, <2>3, <2>4
<1>9. ASSUME NEW p \in ListedAt', p # new, NEW v \in VictimPlaces(l)
      PROVE  /\ NewerPlace(p, new) => NewerPlace(OldPlace(l, p), v)
             /\ NewerPlace(new, p) => NewerPlace(v, OldPlace(l, p))
  <2>1. /\ p = <<p[1], p[2]>> /\ p[1] \in Level /\ p[1] \in Nat
        /\ p[2] \in Visited(p[1])' /\ p[2] \in Nat /\ l \in Nat
    BY <1>2
  <2>2. PICK j \in 0..n-1 : v = <<l, j>>
    BY <1>1 DEF VictimPlaces
  <2>3. p[1] = l + 1 => p[2] <= c /\ p[2] # c
    BY <1>3, <1>4, <1>9, <2>1
  <2>4. j \in Nat /\ j < n
    BY <1>2, <2>2
  <2>5. CASE p[1] = l
    <3>1. OldPlace(l, p) = <<l, p[2] + n>> /\ p[2] + n > j
      BY <1>1, <1>2, <2>1, <2>4, <2>5 DEF OldPlace
    <3> QED
      BY <1>4, <2>1, <2>2, <2>5, <3>1 DEF NewerPlace, Newer
  <2>6. CASE p[1] # l
    <3>1. OldPlace(l, p) = p
      BY <2>6 DEF OldPlace
    <3>2. new[1] = l + 1 /\ new[2] = c /\ v[1] = l /\ v[2] = j
      BY <1>4, <2>2
    <3> QED
      BY <1>3, <2>1, <2>3, <2>6, <3>1, <3>2 DEF NewerPlace, Newer
  <2> QED BY <2>5, <2>6
<1>10. ASSUME NEW p \in ListedAt', NEW q \in ListedAt', NewerPlace(p, q)
       PROVE  NewerPlace(OldPlace(l, p), OldPlace(l, q))
  <2>1. /\ p[1] \in Nat /\ p[2] \in Nat /\ q[1] \in Nat /\ q[2] \in Nat
    BY <1>2
  <2> QED
    BY <1>1, <1>2, <1>10, <2>1 DEF NewerPlace, Newer, OldPlace
<1> QED
  BY <1>5, <1>6, <1>7, <1>8, <1>9, <1>10

(***************************************************************************)
(* The merge keeps, of each key, the newest value of a victim.             *)
(***************************************************************************)
LEMMA MergeNewest ==
  ASSUME IInv, Ordered, NEW l \in 0..2, DoCompaction(l), NEW k \in Key
  PROVE  /\ VictimPlaces(l) \subseteq ListedAt
         /\ Merge(l)[k] \in Nat \cup {NoLba}
         /\ \A v \in VictimPlaces(l) : EntriesAt(v)[k] <= Merge(l)[k]
         /\ Merge(l)[k] # NoLba =>
              \E v \in VictimPlaces(l) : Merge(l)[k] = EntriesAt(v)[k]
<1>0. TypeOK
  BY DEF IInv
<1>1. /\ l \in Level /\ NumVictimsOf(l) \in Nat /\ NumVictimsOf(l) <= level_count[l]
      /\ level_count[l] < MaxSealed[l] /\ MaxSealed[l] \in Nat /\ level_count[l] \in Nat
  BY CompactCounts
<1>2. VictimPlaces(l) \subseteq ListedAt
  <2>1. \A j \in 0..NumVictimsOf(l)-1 : j \in Visited(l)
    BY <1>1 DEF Visited
  <2> QED
    BY <1>1, <2>1 DEF VictimPlaces, ListedAt
<1>3. \A v \in VictimPlaces(l) : EntriesAt(v)[k] \in Nat \cup {NoLba}
  BY <1>0, <1>2, ValueType
<1>4. \A j \in 0..NumVictimsOf(l)-1 :
        <<l, j>> \in VictimPlaces(l) /\ EntriesAt(<<l, j>>) = At(l, j).entries
  BY DEF VictimPlaces, EntriesAt
<1>5. CASE HoldersIn(l, k) = {}
  <2>1. Merge(l)[k] = NoLba
    BY <1>0, <1>5, MergeOf
  <2>2. \A v \in VictimPlaces(l) : EntriesAt(v)[k] = NoLba
    BY <1>5 DEF VictimPlaces, EntriesAt, HoldersIn
  <2> QED
    BY <1>2, <2>1, <2>2 DEF NoLba
<1>6. CASE HoldersIn(l, k) # {}
  <2>1. PICK j \in HoldersIn(l, k) : /\ \A i \in HoldersIn(l, k) : i <= j
                                     /\ Merge(l)[k] = At(l, j).entries[k]
    BY <1>0, <1>6, MergeOf
  <2>2. j \in 0..NumVictimsOf(l)-1 /\ At(l, j).entries[k] # NoLba
    BY DEF HoldersIn
  <2>3. Merge(l)[k] = EntriesAt(<<l, j>>)[k] /\ Merge(l)[k] \in Nat
    BY <1>3, <1>4, <2>1, <2>2
  <2>4. ASSUME NEW v \in VictimPlaces(l) PROVE EntriesAt(v)[k] <= Merge(l)[k]
    <3>1. PICK i \in 0..NumVictimsOf(l)-1 : v = <<l, i>>
      BY DEF VictimPlaces
    <3>2. CASE At(l, i).entries[k] = NoLba
      BY <1>4, <2>3, <3>1, <3>2 DEF NoLba
    <3>3. CASE At(l, i).entries[k] # NoLba
      <4>1. i <= j
        BY <2>1, <3>3 DEF HoldersIn
      <4>2. CASE i = j
        BY <2>3, <3>1, <4>2
      <4>3. CASE i # j
        <5>1. NewerPlace(<<l, j>>, v)
          BY <1>1, <2>2, <3>1, <4>1, <4>3 DEF NewerPlace, Newer
        <5>2. EntriesAt(v)[k] < EntriesAt(<<l, j>>)[k]
          BY <1>2, <1>4, <2>2, <5>1 DEF Ordered
        <5> QED
          BY <1>3, <2>3, <5>2 DEF NoLba
      <4> QED BY <4>2, <4>3
    <3> QED BY <3>2, <3>3
  <2> QED
    BY <1>2, <1>4, <2>2, <2>3, <2>4
<1> QED
  BY <1>5, <1>6

(***************************************************************************)
(* One lemma per action: the order of age.                                 *)
(***************************************************************************)
LEMMA PutOrder ==
  ASSUME MaxSealed[3] = 1, StoreInv, NEW k \in Key, KvPut(k)
  PROVE  Ordered' /\ Fresh'
<1>0. /\ IInv /\ TypeOK /\ Ordered /\ Fresh
      /\ write_pointer_lba \in Nat /\ write_pointer_lba' = write_pointer_lba + 1
      /\ growing \in Entries
  <2>1. IInv /\ TypeOK /\ Ordered /\ Fresh
    BY DEF StoreInv, IInv
  <2>2. write_pointer_lba \in Nat /\ growing \in Entries
    BY <2>1 DEF TypeOK
  <2>3. write_pointer_lba' = write_pointer_lba + 1
    BY DEF KvPut, Put
  <2> QED
    BY <2>1, <2>2, <2>3
<1>1. \A j \in Key : /\ growing[j] \in Nat \cup {NoLba}
                     /\ \A p \in ListedAt : EntriesAt(p)[j] \in Nat \cup {NoLba}
  BY <1>0, ValueType
<1>2. CASE PutWithoutSeal(k)
  <2>1. growing' = [growing EXCEPT ![k] = write_pointer_lba]
    BY <1>2 DEF PutWithoutSeal
  <2>2. ListedAt' = ListedAt /\ \A p : EntriesAt(p)' = EntriesAt(p)
    BY <1>2 DEF PutWithoutSeal, KvPut, Put, ListedAt, Visited, EntriesAt, At, RingAdd
  <2>3. \A j \in Key : growing'[j] = IF j = k THEN write_pointer_lba ELSE growing[j]
    BY <1>0, <2>1 DEF Entries
  <2>4. Ordered'
    BY <1>0, <2>2, <2>3 DEF Ordered, Fresh
  <2>5. Fresh'
    BY <1>0, <1>1, <2>2, <2>3 DEF Fresh, NoLba
  <2> QED BY <2>4, <2>5
<1>3. CASE PutAfterSeal(k)
  <2>1. growing' = [NoEntries EXCEPT ![k] = write_pointer_lba]
    BY <1>3 DEF PutAfterSeal
  <2>2. PICK new : /\ ListedAt' = ListedAt \cup {new}
                   /\ EntriesAt(new)' = growing
                   /\ \A p \in ListedAt : EntriesAt(p)' = EntriesAt(p)
                   /\ \A p \in ListedAt' : ~NewerPlace(p, new)
    BY <1>0, <1>3, SealPlaces
  <2>3. \A j \in Key : growing'[j] = IF j = k THEN write_pointer_lba ELSE NoLba
    BY <2>1 DEF NoEntries
  <2>4. \A j \in Key : \A p \in ListedAt' : EntriesAt(p)'[j] < write_pointer_lba
    BY <1>0, <2>2 DEF Fresh
  <2>5. ASSUME NEW j \in Key, NEW p \in ListedAt', NEW q \in ListedAt',
               NewerPlace(p, q), EntriesAt(p)'[j] # NoLba
        PROVE  EntriesAt(q)'[j] < EntriesAt(p)'[j]
    <3>1. q # new
      BY <2>2, <2>5
    <3>2. CASE p = new
      BY <1>0, <2>2, <2>5, <3>1, <3>2 DEF Ordered
    <3>3. CASE p # new
      BY <1>0, <2>2, <2>5, <3>1, <3>3 DEF Ordered
    <3> QED BY <3>2, <3>3
  <2>6. Ordered'
    BY <2>3, <2>4, <2>5 DEF Ordered
  <2>7. Fresh'
    <3>1. \A j \in Key : \A p \in ListedAt' : EntriesAt(p)'[j] \in Nat \cup {NoLba}
      BY <1>1, <2>2
    <3>2. \A j \in Key : \A p \in ListedAt' : EntriesAt(p)'[j] < write_pointer_lba'
      BY <1>0, <2>4, <3>1 DEF NoLba
    <3>3. \A j \in Key : growing'[j] < write_pointer_lba'
      BY <1>0, <2>3 DEF NoLba
    <3> QED
      BY <3>2, <3>3 DEF Fresh
  <2> QED BY <2>6, <2>7
<1> QED
  BY <1>2, <1>3 DEF KvPut

LEMMA CompactOrder ==
  ASSUME MaxSealed[3] = 1, StoreInv, NEW l \in 0..2, DoCompaction(l)
  PROVE  Ordered' /\ Fresh'
<1>0. /\ IInv /\ TypeOK /\ Ordered /\ Fresh
      /\ write_pointer_lba \in Nat
      /\ UNCHANGED <<growing, write_pointer_lba>>
  BY ConstantsAssumption DEF StoreInv, IInv, TypeOK, DoCompaction
<1>1. PICK new \in ListedAt' :
        /\ EntriesAt(new)' = Merge(l)
        /\ \A p \in ListedAt' \ {new} :
             /\ OldPlace(l, p) \in ListedAt
             /\ EntriesAt(p)' = EntriesAt(OldPlace(l, p))
        /\ \A p \in ListedAt' \ {new}, v \in VictimPlaces(l) :
             /\ NewerPlace(p, new) => NewerPlace(OldPlace(l, p), v)
             /\ NewerPlace(new, p) => NewerPlace(v, OldPlace(l, p))
        /\ \A p, q \in ListedAt' \ {new} :
             NewerPlace(p, q) => NewerPlace(OldPlace(l, p), OldPlace(l, q))
  BY <1>0, CompactPlaces
<1>2. ASSUME NEW k \in Key
      PROVE  /\ growing[k] \in Nat \cup {NoLba}
             /\ \A p \in ListedAt : EntriesAt(p)[k] \in Nat \cup {NoLba}
             /\ VictimPlaces(l) \subseteq ListedAt
             /\ Merge(l)[k] # NoLba =>
                  \E v \in VictimPlaces(l) : Merge(l)[k] = EntriesAt(v)[k]
  BY <1>0, ValueType, MergeNewest
<1>3. ASSUME NEW k \in Key, NEW p \in ListedAt'
      PROVE  EntriesAt(p)'[k] = NoLba \/ \E q \in ListedAt : EntriesAt(p)'[k] = EntriesAt(q)[k]
  BY <1>1, <1>2
<1>4. ASSUME NEW k \in Key, NEW p \in ListedAt', growing'[k] # NoLba
      PROVE  EntriesAt(p)'[k] < growing'[k]
  <2>1. growing'[k] \in Nat /\ \A q \in ListedAt : EntriesAt(q)[k] < growing'[k]
    BY <1>0, <1>2, <1>4 DEF Ordered
  <2>2. NoLba < growing'[k]
    BY <2>1 DEF NoLba
  <2> QED
    BY <1>3, <2>1, <2>2
<1>5. ASSUME NEW k \in Key, NEW p \in ListedAt', NEW q \in ListedAt',
             NewerPlace(p, q), EntriesAt(p)'[k] # NoLba
      PROVE  EntriesAt(q)'[k] < EntriesAt(p)'[k]
  <2>1. CASE p # new /\ q # new
    BY <1>0, <1>1, <1>5, <2>1 DEF Ordered
  <2>2. CASE p = new /\ q # new
    <3>1. PICK v \in VictimPlaces(l) : Merge(l)[k] = EntriesAt(v)[k]
      BY <1>1, <1>2, <1>5, <2>2
    <3>2. NewerPlace(v, OldPlace(l, q)) /\ EntriesAt(v)[k] # NoLba
      BY <1>1, <1>5, <2>2, <3>1
    <3> QED
      BY <1>0, <1>1, <1>2, <2>2, <3>1, <3>2 DEF Ordered
  <2>3. CASE p # new /\ q = new
    <3>1. EntriesAt(p)'[k] = EntriesAt(OldPlace(l, p))[k] /\ OldPlace(l, p) \in ListedAt
      BY <1>1, <2>3
    <3>2. CASE Merge(l)[k] = NoLba
      <4>1. EntriesAt(p)'[k] \in Nat
        BY <1>2, <1>5, <3>1
      <4> QED
        BY <1>1, <2>3, <3>2, <4>1 DEF NoLba
    <3>3. CASE Merge(l)[k] # NoLba
      <4>1. PICK v \in VictimPlaces(l) : Merge(l)[k] = EntriesAt(v)[k]
        BY <1>2, <3>3
      <4>2. NewerPlace(OldPlace(l, p), v)
        BY <1>1, <1>5, <2>3
      <4> QED
        BY <1>0, <1>1, <1>2, <1>5, <2>3, <3>1, <4>1, <4>2 DEF Ordered
    <3> QED BY <3>2, <3>3
  <2>4. CASE p = new /\ q = new
    <3>1. new[1] \in Nat /\ new[2] \in Nat
      BY DEF ListedAt, Level, Visited
    <3> QED
      BY <1>5, <2>4, <3>1 DEF NewerPlace, Newer
  <2> QED BY <2>1, <2>2, <2>3, <2>4
<1>6. Ordered'
  BY <1>4, <1>5 DEF Ordered
<1>7. Fresh'
  <2>1. ASSUME NEW k \in Key, NEW p \in ListedAt'
        PROVE  EntriesAt(p)'[k] < write_pointer_lba
    <3>1. \A q \in ListedAt : EntriesAt(q)[k] < write_pointer_lba
      BY <1>0 DEF Fresh
    <3>2. NoLba < write_pointer_lba
      BY <1>0 DEF NoLba
    <3> QED
      BY <1>3, <3>1, <3>2
  <2> QED
    BY <1>0, <2>1 DEF Fresh
<1> QED
  BY <1>6, <1>7

LEMMA OrderFrame ==
  ASSUME Ordered, Fresh,
         UNCHANGED <<growing, write_pointer_lba, slots, level_count, head>>
  PROVE  /\ Ordered' /\ Fresh' /\ ListedAt' = ListedAt
         /\ \A p : EntriesAt(p)' = EntriesAt(p)
<1>1. ListedAt' = ListedAt /\ \A p : EntriesAt(p)' = EntriesAt(p)
  BY DEF ListedAt, Visited, EntriesAt, At, RingAdd
<1> QED
  BY <1>1 DEF Ordered, Fresh

LEMMA InitStore == Init => StoreInv
<1> SUFFICES ASSUME Init PROVE Ordered /\ Fresh
  BY InitIInv DEF StoreInv
<1>1. ListedAt = {}
  BY Sizes DEF Init, ListedAt, Visited
<1>2. \A k \in Key : growing[k] = NoLba /\ write_pointer_lba = 0
  BY DEF Init, NoEntries
<1> QED
  BY <1>1, <1>2 DEF Ordered, Fresh, NoLba

LEMMA StoreInvariance ==
  ASSUME MaxSealed[3] = 1
  PROVE  Spec => []StoreInv
<1>1. StoreInv /\ [Next]_segVars => StoreInv'
  <2> SUFFICES ASSUME StoreInv, [Next]_segVars PROVE StoreInv'
    OBVIOUS
  <2>0. IInv /\ Ordered /\ Fresh
    BY DEF StoreInv
  <2>1. ASSUME NEW k \in Key, KvPut(k) PROVE StoreInv'
    BY <2>0, <2>1, KvPutStep, PutOrder DEF StoreInv
  <2>2. ASSUME NEW l \in 0..2, DoCompaction(l) PROVE StoreInv'
    BY <2>0, <2>2, DoCompactionStep, CompactOrder DEF StoreInv
  <2>3. CASE CompactionDone
    <3>1. UNCHANGED <<growing, write_pointer_lba, slots, level_count, head>>
      BY <2>3 DEF CompactionDone
    <3> QED
      BY <2>0, <2>3, <3>1, CompactionDoneStep, OrderFrame DEF StoreInv
  <2>4. CASE UNCHANGED segVars
    <3>1. UNCHANGED <<growing, write_pointer_lba, slots, level_count, head>>
      BY <2>4 DEF segVars
    <3> QED
      BY <2>0, <2>4, <3>1, SegmentFrame, OrderFrame DEF StoreInv
  <2> QED
    BY <2>1, <2>2, <2>3, <2>4 DEF Next, CompactionLoop, OtherCommand
<1> QED
  BY <1>1, InitStore, PTL DEF Spec

(***************************************************************************)
(* With one slot in level 3 (super.h:13), of two segments that hold a key, *)
(* the one nearer the growing segment always has the newer value, and the  *)
(* growing segment the newest: keeping the youngest victim's entry         *)
(* (DoCompactionImpl, nvme_io_cmd.c) never brings an old vector back.      *)
(***************************************************************************)
THEOREM NewerIsNearer ==
  ASSUME MaxSealed[3] = 1
  PROVE  Spec => []RunOrder
<1>1. StoreInv => RunOrder
  BY OrderedIsRunOrder DEF StoreInv
<1> QED
  BY <1>1, StoreInvariance, PTL

(***************************************************************************)
(* What each action does to the abstract store.                            *)
(***************************************************************************)
NewestInv == StoreInv /\ LookupIsNewest

LEMMA LookupType ==
  ASSUME TypeOK, LookupIsNewest, NEW k \in Key
  PROVE  Lookup[k] \in Nat \cup {NoLba} /\ NoLba <= Lookup[k]
BY ValueType DEF LookupIsNewest, NoLba

\* The same values have the same newest.
LEMMA SameNewest ==
  ASSUME TypeOK, LookupIsNewest, LookupIsNewest', NEW k \in Key,
         \A v \in Values(k) : \E w \in Values(k)' : w \in Int /\ v <= w,
         \A v \in Values(k)' : v \in Values(k) \/ v = NoLba
  PROVE  Lookup'[k] = Lookup[k]
<1>1. Lookup[k] \in Nat \cup {NoLba} /\ NoLba <= Lookup[k]
  BY LookupType
<1>2. Lookup[k] \in Values(k) /\ \A v \in Values(k) : v <= Lookup[k]
  BY DEF LookupIsNewest
<1>3. Lookup'[k] \in Values(k)' /\ \A v \in Values(k)' : v <= Lookup'[k]
  BY DEF LookupIsNewest
<1>4. Lookup'[k] <= Lookup[k] /\ Lookup'[k] \in Nat \cup {NoLba}
  BY <1>1, <1>2, <1>3, ValueType
<1>5. PICK w \in Values(k)' : w \in Int /\ Lookup[k] <= w
  BY <1>2
<1>6. w <= Lookup'[k]
  BY <1>3
<1> QED
  BY <1>1, <1>4, <1>5, <1>6 DEF NoLba

LEMMA PutLookup ==
  ASSUME MaxSealed[3] = 1, NewestInv, NewestInv', NEW k \in Key, KvPut(k)
  PROVE  \A j \in Key : Lookup'[j] = IF j = k THEN write_pointer_lba ELSE Lookup[j]
<1>0. /\ IInv /\ TypeOK /\ LookupIsNewest /\ LookupIsNewest'
      /\ growing \in Entries
  BY DEF NewestInv, StoreInv, IInv, TypeOK
<1>1. write_pointer_lba \in Nat
  BY <1>0 DEF TypeOK
<1>2. growing'[k] = write_pointer_lba
  BY <1>0 DEF KvPut, PutWithoutSeal, PutAfterSeal, NoEntries, Entries
<1>3. Lookup'[k] = write_pointer_lba
  <2>1. growing'[k] # NoLba
    BY <1>1, <1>2 DEF NoLba
  <2> QED
    BY <1>2, <2>1 DEF Lookup
<1>4. ASSUME NEW j \in Key, j # k PROVE Lookup'[j] = Lookup[j]
  <2>0. \A v \in Values(j) : v \in Int
    BY <1>0, ValueType DEF NoLba
  <2>1. CASE PutWithoutSeal(k)
    <3>1. growing'[j] = growing[j]
      BY <1>0, <1>4, <2>1 DEF PutWithoutSeal, Entries
    <3>2. ListedAt' = ListedAt /\ \A p : EntriesAt(p)' = EntriesAt(p)
      BY <2>1 DEF PutWithoutSeal, KvPut, Put, ListedAt, Visited, EntriesAt, At, RingAdd
    <3>3. Values(j)' = Values(j)
      BY <3>1, <3>2 DEF Values
    <3> QED
      BY <1>0, <2>0, <3>3, SameNewest
  <2>2. CASE PutAfterSeal(k)
    <3>1. growing'[j] = NoLba
      BY <1>4, <2>2 DEF PutAfterSeal, NoEntries
    <3>2. PICK new : /\ ListedAt' = ListedAt \cup {new}
                     /\ EntriesAt(new)' = growing
                     /\ \A p \in ListedAt : EntriesAt(p)' = EntriesAt(p)
      BY <1>0, <2>2, SealPlaces
    <3>3. \A v \in Values(j)' : v \in Values(j) \/ v = NoLba
      BY <3>1, <3>2 DEF Values
    <3>4. \A v \in Values(j) : v \in Values(j)'
      BY <3>2 DEF Values
    <3> QED
      BY <1>0, <2>0, <3>3, <3>4, SameNewest
  <2> QED BY <2>1, <2>2 DEF KvPut
<1> QED
  BY <1>3, <1>4

\* A compaction changes nothing, but one into a full level 3 may lose keys.
LEMMA CompactLookup ==
  ASSUME MaxSealed[3] = 1, NewestInv, NewestInv', NEW l \in 0..2, DoCompaction(l),
         NEW k \in Key
  PROVE  \/ Lookup'[k] = Lookup[k]
         \/ l = 2 /\ <<3, 0>> \in ListedAt /\ Lookup'[k] = NoLba
<1>0. /\ IInv /\ TypeOK /\ Ordered /\ LookupIsNewest /\ LookupIsNewest'
      /\ growing' = growing
  BY DEF NewestInv, StoreInv, IInv, DoCompaction
<1>1. PICK new \in ListedAt' :
        /\ EntriesAt(new)' = Merge(l)
        /\ l = 2 => new = <<3, 0>>
        /\ \A p \in ListedAt' \ {new} :
             /\ OldPlace(l, p) \in ListedAt
             /\ EntriesAt(p)' = EntriesAt(OldPlace(l, p))
        /\ \A q \in ListedAt \ VictimPlaces(l) :
             \/ \E p \in ListedAt' : EntriesAt(p)' = EntriesAt(q)
             \/ l = 2 /\ q = <<3, 0>>
  BY <1>0, CompactPlaces
<1>2. /\ VictimPlaces(l) \subseteq ListedAt
      /\ Merge(l)[k] \in Nat \cup {NoLba}
      /\ \A v \in VictimPlaces(l) : EntriesAt(v)[k] <= Merge(l)[k]
      /\ Merge(l)[k] # NoLba =>
           \E v \in VictimPlaces(l) : Merge(l)[k] = EntriesAt(v)[k]
  BY <1>0, MergeNewest
<1>3. ASSUME NEW v \in Values(k)' PROVE v \in Values(k) \/ v = NoLba
  <2>1. CASE v = growing'[k]
    BY <1>0, <2>1 DEF Values
  <2>2. CASE \E p \in ListedAt' : v = EntriesAt(p)'[k]
    BY <1>1, <1>2, <2>2 DEF Values
  <2> QED
    BY <2>1, <2>2 DEF Values
<1>4. \A v \in Values(k) : v \in Int
  BY <1>0, ValueType DEF NoLba
<1>5. CASE l = 2 /\ <<3, 0>> \in ListedAt
  <2> SUFFICES ASSUME Lookup'[k] # NoLba PROVE Lookup'[k] = Lookup[k]
    BY <1>5
  <2>1. Lookup'[k] \in Values(k)' /\ Lookup'[k] \in Values(k) /\ Lookup'[k] \in Nat
    <3>1. Lookup'[k] \in Values(k)' /\ Lookup'[k] \in Values(k)
      BY <1>0, <1>3 DEF LookupIsNewest
    <3> QED
      BY <1>0, <3>1, ValueType
  <2>2. EntriesAt(<<3, 0>>)[k] < Lookup'[k]
    <3>1. CASE Lookup'[k] = growing'[k]
      BY <1>0, <1>5, <3>1 DEF Ordered
    <3>2. ASSUME NEW p \in ListedAt', p # new, Lookup'[k] = EntriesAt(p)'[k]
          PROVE  EntriesAt(<<3, 0>>)[k] < Lookup'[k]
      <4>1. /\ OldPlace(l, p) \in ListedAt
            /\ Lookup'[k] = EntriesAt(OldPlace(l, p))[k]
        BY <1>1, <3>2
      <4>2. p[1] \in 0..2
        <5>1. p = <<p[1], p[2]>> /\ p[1] \in Level /\ p[2] \in Visited(p[1])'
          BY DEF ListedAt
        <5>2. p[1] = 3 => p[2] = 0
          BY <5>1 DEF Visited
        <5> QED
          BY <1>1, <1>5, <3>2, <5>1, <5>2 DEF Level
      <4>3. NewerPlace(OldPlace(l, p), <<3, 0>>)
        BY <1>5, <4>2 DEF OldPlace, NewerPlace, Newer
      <4> QED
        BY <1>0, <1>5, <4>1, <4>3 DEF Ordered
    <3>3. CASE Lookup'[k] = EntriesAt(new)'[k]
      <4>1. PICK v \in VictimPlaces(l) : Lookup'[k] = EntriesAt(v)[k]
        BY <1>1, <1>2, <3>3
      <4>2. NewerPlace(v, <<3, 0>>)
        BY <1>5 DEF VictimPlaces, NewerPlace, Newer
      <4> QED
        BY <1>0, <1>2, <1>5, <4>1, <4>2 DEF Ordered
    <3> QED
      BY <2>1, <3>1, <3>2, <3>3 DEF Values
  <2>3. ASSUME NEW v \in Values(k)
        PROVE  \E w \in Values(k)' : w \in Int /\ v <= w
    <3>1. Lookup'[k] \in Values(k)' /\ Lookup'[k] \in Int
      BY <2>1
    <3>2. CASE v = growing[k]
      BY <1>0, <1>4, <3>2 DEF Values
    <3>3. ASSUME NEW q \in VictimPlaces(l), v = EntriesAt(q)[k]
          PROVE  \E w \in Values(k)' : w \in Int /\ v <= w
      <4>1. Merge(l)[k] \in Values(k)' /\ Merge(l)[k] \in Int /\ v <= Merge(l)[k]
        BY <1>1, <1>2, <3>3 DEF Values, NoLba
      <4> QED BY <4>1
    <3>4. ASSUME NEW q \in ListedAt \ VictimPlaces(l), v = EntriesAt(q)[k]
          PROVE  \E w \in Values(k)' : w \in Int /\ v <= w
      <4>1. CASE q = <<3, 0>>
        BY <1>4, <2>1, <2>2, <3>1, <3>4, <4>1
      <4>2. CASE \E p \in ListedAt' : EntriesAt(p)' = EntriesAt(q)
        <5>1. v \in Values(k)'
          BY <3>4, <4>2 DEF Values
        <5> QED BY <1>4, <5>1
      <4> QED BY <1>1, <4>1, <4>2
    <3> QED
      BY <3>2, <3>3, <3>4 DEF Values
  <2> QED
    BY <1>0, <1>3, <2>3, SameNewest
<1>6. CASE ~(l = 2 /\ <<3, 0>> \in ListedAt)
  <2>1. ASSUME NEW v \in Values(k)
        PROVE  \E w \in Values(k)' : w \in Int /\ v <= w
    <3>1. CASE v = growing[k]
      BY <1>0, <1>4, <3>1 DEF Values
    <3>2. ASSUME NEW q \in VictimPlaces(l), v = EntriesAt(q)[k]
          PROVE  \E w \in Values(k)' : w \in Int /\ v <= w
      <4>1. Merge(l)[k] \in Values(k)' /\ Merge(l)[k] \in Int /\ v <= Merge(l)[k]
        BY <1>1, <1>2, <3>2 DEF Values, NoLba
      <4> QED BY <4>1
    <3>3. ASSUME NEW q \in ListedAt \ VictimPlaces(l), v = EntriesAt(q)[k]
          PROVE  \E w \in Values(k)' : w \in Int /\ v <= w
      <4>1. \E p \in ListedAt' : EntriesAt(p)' = EntriesAt(q)
        BY <1>1, <1>6, <3>3
      <4>2. v \in Values(k)'
        BY <3>3, <4>1 DEF Values
      <4> QED BY <1>4, <4>2
    <3> QED
      BY <3>1, <3>2, <3>3 DEF Values
  <2> QED
    BY <1>0, <1>3, <2>1, SameNewest
<1> QED
  BY <1>5, <1>6

LEMMA FrameLookup ==
  ASSUME NewestInv, NewestInv', NEW k \in Key,
         UNCHANGED <<growing, write_pointer_lba, slots, level_count, head>>
  PROVE  Lookup'[k] = Lookup[k]
<1>1. TypeOK /\ LookupIsNewest /\ LookupIsNewest' /\ Ordered /\ Fresh
  BY DEF NewestInv, StoreInv, IInv
<1>2. ListedAt' = ListedAt /\ \A p : EntriesAt(p)' = EntriesAt(p)
  BY <1>1, OrderFrame
<1>3. Values(k)' = Values(k)
  BY <1>2 DEF Values
<1>4. \A v \in Values(k) : v \in Int
  BY <1>1, ValueType DEF NoLba
<1> QED
  BY <1>1, <1>3, <1>4, SameNewest

LEMMA LookupIsFunction ==
  /\ Lookup = [k \in Key |-> Lookup[k]]
  /\ Lookup' = [k \in Key |-> Lookup'[k]]
BY DEF Lookup

LEMMA SameLookup ==
  ASSUME \A k \in Key : Lookup'[k] = Lookup[k]
  PROVE  Lookup' = Lookup
BY LookupIsFunction

(***************************************************************************)
(* With one slot in level 3 (super.h:13), the segments implement the store *)
(* of VectorStore for every number of keys, puts and slots of the levels   *)
(* above: sealing and compaction change no vector that a reader would find *)
(* (CompactGrowingSegment, DoCompaction, nvme_io_cmd.c), but for those     *)
(* that a full level 3 loses.                                              *)
(***************************************************************************)
THEOREM SegmentsImplementStore ==
  ASSUME MaxSealed[3] = 1
  PROVE  Spec => Implements
<1>1. Init => Store!Init
  <2> SUFFICES ASSUME Init PROVE Store!Init
    OBVIOUS
  <2>1. Lookup = [k \in Key |-> NoLba]
    <3>1. \A k \in Key : growing[k] = NoLba /\ Holders(k) = {}
      BY Sizes DEF Init, NoEntries, Holders, ListedAt, Visited
    <3>2. \A k \in Key : Lookup[k] = NoLba
      BY <3>1 DEF Lookup
    <3> QED
      BY <3>2, LookupIsFunction
  <2>2. ~(level_count[3] >= MaxSealed[3])
    BY DEF Init, Level
  <2> QED
    BY <2>1, <2>2 DEF Init, Store!Init, NoLba, Store!NoLba
<1>2. StoreInv => NewestInv
  BY LookupNewest DEF NewestInv, StoreInv, IInv
<1>3. NewestInv /\ NewestInv' /\ [Next]_segVars => [Store!Next]_(Store!vars)
  <2> SUFFICES ASSUME NewestInv, NewestInv', [Next]_segVars
               PROVE  [Store!Next]_(Store!vars)
    OBVIOUS
  <2>0. /\ IInv /\ TypeOK /\ level_count \in [Level -> Nat] /\ 3 \in Level
        /\ 0 \in Level
    <3>1. IInv /\ TypeOK
      BY DEF NewestInv, StoreInv, IInv
    <3> QED
      BY <3>1 DEF TypeOK, Level
  <2>1. ASSUME NEW k \in Key, KvPut(k) PROVE Store!Put(k)
    <3>1. Lookup' = [Lookup EXCEPT ![k] = write_pointer_lba]
      BY <2>1, PutLookup, LookupIsFunction
    <3>2. level_count'[3] = level_count[3]
      BY <2>0, <2>1
         DEF KvPut, PutWithoutSeal, PutAfterSeal, CompactGrowingSegment
    <3>3. write_pointer_lba < MaxPut /\ write_pointer_lba' = write_pointer_lba + 1
      BY <2>1 DEF KvPut, Put
    <3> QED
      BY <3>1, <3>2, <3>3 DEF Store!Put
  <2>2. ASSUME NEW l \in 0..2, DoCompaction(l) PROVE [Store!Next]_(Store!vars)
    <3>0. write_pointer_lba' = write_pointer_lba
      BY <2>2 DEF DoCompaction
    <3>1. CASE l # 2
      <4>1. Lookup' = Lookup
        BY <2>2, <3>1, CompactLookup, SameLookup
      <4>2. level_count'[3] = level_count[3]
        BY <2>0, <2>2, <3>1, CompactCounts
      <4> QED
        BY <3>0, <4>1, <4>2 DEF Store!vars
    <3>2. CASE l = 2 /\ level_count[3] = 0
      <4>1. <<3, 0>> \notin ListedAt
        BY <3>2 DEF ListedAt, Visited
      <4>2. Lookup' = Lookup
        BY <2>2, <4>1, CompactLookup, SameLookup
      <4>3. level_count'[3] >= MaxSealed[3]
        BY <2>0, <2>2, <3>2, CompactCounts
      <4>4. Store!Fill
        BY <3>0, <4>2, <4>3 DEF Store!Fill
      <4> QED
        BY <4>4 DEF Store!Next
    <3>3. CASE l = 2 /\ level_count[3] # 0
      <4>1. level_count[3] >= MaxSealed[3] /\ level_count'[3] >= MaxSealed[3]
        BY <2>0, <2>2, <3>3, CompactCounts
      <4>2. PICK K \in SUBSET Key : K = {k \in Key : Lookup'[k] # Lookup[k]}
        OBVIOUS
      <4>3. \A k \in Key : Lookup'[k] = IF k \in K THEN NoLba ELSE Lookup[k]
        BY <2>2, <4>2, CompactLookup
      <4>4. Lookup' = [k \in Key |-> IF k \in K THEN NoLba ELSE Lookup[k]]
        BY <4>3, LookupIsFunction
      <4>5. Store!Lose(K)
        BY <3>0, <4>1, <4>4 DEF Store!Lose, Store!NoLba, NoLba
      <4> QED
        BY <4>5 DEF Store!Next
    <3> QED BY <3>1, <3>2, <3>3
  <2>3. CASE CompactionDone \/ UNCHANGED segVars
    <3>1. UNCHANGED <<growing, write_pointer_lba, slots, level_count, head>>
      BY <2>3 DEF CompactionDone, segVars
    <3>2. Lookup' = Lookup
      BY <3>1, FrameLookup, SameLookup
    <3> QED
      BY <3>1, <3>2 DEF Store!vars
  <2> QED
    BY <2>1, <2>2, <2>3 DEF Next, CompactionLoop, OtherCommand, Store!Next
<1> QED
  BY <1>1, <1>2, <1>3, StoreInvariance, PTL DEF Spec, Implements, Store!Spec

(***************************************************************************)
(* A build during which the host writes nothing.  The segments then stay   *)
(* where they are from its first step to its last: no compaction runs, the *)
(* tails are those of its start, and its target keeps its entries.         *)
(***************************************************************************)
SegmentsFull == \A p \in LiveSlot : KeysOf(slots[p[1]][p[2]].entries) # {}

\* With the source's numbers, 139 and 140, a step ends where a page does.
AtPage ==
  Stride = NodesPerPage - 1 => \E q \in Nat : resume = q * NodesPerPage

Quiet ==
  isIndexBuilding =>
    /\ ~compacting
    /\ \A l \in IndexedLevel : tail[l] = snapshot[l]
    /\ target # NoTarget => TotalEntry(Target) # 0
    /\ resume \in Nat
    /\ resume # 0 => resume < TotalEntry(Target)
    /\ AtPage
    /\ TablesKept

QuietInv == LastRing /\ SegmentsFull /\ Quiet

LEMMA NoMultiple ==
  ASSUME NEW q \in Nat
  PROVE  (q * NodesPerPage) % NodesPerPage = 0
<1>1. \A n \in Nat \ {0} : (q * n) % n = 0
  BY SMTT(20)
<1> QED
  BY <1>1, BuilderAssumption

\* The target is a slot of the rings.
LEMMA TargetSegment ==
  ASSUME BuilderIInv, target # NoTarget
  PROVE  Target \in Segment
<1>1. target[1] \in Level /\ target[2] \in 0..MaxSealed[target[1]]-1
  BY DEF BuilderIInv, TargetType, IndexedLevel, Level
<1> QED
  BY <1>1 DEF BuilderIInv, IInv, TypeOK, Target

\* The segments keep their entries, whatever an index step writes.
LEMMA IncrementKeepsEntries ==
  ASSUME BuilderIInv, BuildIncrement
  PROVE  \A m \in Level : \A i \in 0..MaxSealed[m]-1 :
           slots'[m][i].entries = slots[m][i].entries
<1>1. Target \in Segment
  BY TargetSegment DEF BuildIncrement
<1>2. [Target EXCEPT !.vector_index_start_lpn = reverse_lpn'].entries = Target.entries
  BY <1>1 DEF Segment
<1> QED
  BY <1>2, IncrementSlots

LEMMA FullFrame ==
  ASSUME LastRing, SegmentsFull, UNCHANGED <<slots, level_count, head, tail>>
  PROVE  LastRing' /\ SegmentsFull'
BY DEF LastRing, SegmentsFull, LiveSlot, Visited, RingAdd, KeysOf

\* No step leaves an empty segment listed.
LEMMA FullStep ==
  ASSUME BuilderIInv, LastRing, SegmentsFull, [BuilderNext]_vars
  PROVE  LastRing' /\ SegmentsFull'
<1>0. IInv /\ TargetType /\ TypeOK
  BY DEF BuilderIInv, IInv
<1>1. ASSUME NEW k \in Key, BuilderPut(k) PROVE LastRing' /\ SegmentsFull'
  <2>0. KvPut(k)
    BY <1>1 DEF BuilderPut
  <2>1. CASE PutWithoutSeal(k)
    BY <2>0, <2>1, FullFrame DEF PutWithoutSeal, KvPut, Put
  <2>2. CASE PutAfterSeal(k)
    <3>1. PICK new : new = <<0, tail[0]>>
      OBVIOUS
    <3>2. /\ LiveSlot' \subseteq LiveSlot \cup {new}
          /\ \A l \in Level : \A i \in 0..MaxSealed[l]-1 :
               <<l, i>> # new => slots'[l][i] = slots[l][i]
          /\ slots'[0][tail[0]].entries = growing /\ KeysOf(growing) # {}
          /\ LastRing'
      BY <1>0, <2>0, <2>2, <3>1, SealSlots DEF Sealed
    <3>3. ASSUME NEW p \in LiveSlot' PROVE KeysOf(slots'[p[1]][p[2]].entries) # {}
      <4>1. CASE p = new
        BY <3>1, <3>2, <4>1
      <4>2. CASE p # new
        <5>1. p \in LiveSlot
          BY <3>2, <4>2
        <5> QED
          BY <1>0, <3>2, <4>2, <5>1, LiveType DEF SegmentsFull
      <4> QED BY <4>1, <4>2
    <3> QED
      BY <3>2, <3>3 DEF SegmentsFull, KeysOf
  <2> QED BY <2>0, <2>1, <2>2 DEF KvPut
<1>2. ASSUME NEW l \in 0..2, DoCompaction(l) PROVE LastRing' /\ SegmentsFull'
  <2>1. PICK new : new = <<l + 1, tail[l + 1]>>
    OBVIOUS
  <2>2. /\ LiveSlot' \subseteq (LiveSlot \ Gone(l)) \cup {new}
        /\ \A m \in Level : \A i \in 0..MaxSealed[m]-1 :
             <<m, i>> # new /\ <<m, i>> \notin Gone(l) => slots'[m][i] = slots[m][i]
        /\ slots'[l + 1][tail[l + 1]].entries = Merge(l) /\ KeysOf(Merge(l)) # {}
        /\ LastRing'
    BY <1>0, <1>2, <2>1, CompactSlots DEF Sealed
  <2>3. ASSUME NEW p \in LiveSlot' PROVE KeysOf(slots'[p[1]][p[2]].entries) # {}
    <3>1. CASE p = new
      BY <2>1, <2>2, <3>1
    <3>2. CASE p # new
      <4>1. p \in LiveSlot /\ p \notin Gone(l)
        BY <2>2, <3>2
      <4> QED
        BY <1>0, <2>2, <3>2, <4>1, LiveType DEF SegmentsFull
    <3> QED BY <3>1, <3>2
  <2> QED
    BY <2>2, <2>3 DEF SegmentsFull, KeysOf
<1>3. CASE BuildIncrement
  <2>1. UNCHANGED <<level_count, head, tail>>
    BY <1>3 DEF BuildIncrement
  <2>2. LiveSlot' = LiveSlot /\ LastRing'
    BY <2>1 DEF LiveSlot, Visited, RingAdd, LastRing
  <2>3. \A m \in Level : \A i \in 0..MaxSealed[m]-1 :
          slots'[m][i].entries = slots[m][i].entries
    BY <1>0, <1>3, IncrementKeepsEntries
  <2>4. \A p \in LiveSlot : slots'[p[1]][p[2]].entries = slots[p[1]][p[2]].entries
    BY <1>0, <2>3, LiveType
  <2> QED
    BY <2>2, <2>4 DEF SegmentsFull, KeysOf
<1>4. CASE CompactionDone
  BY <1>4, FullFrame DEF CompactionDone
<1>5. CASE \/ VectorBuild \/ PauseBuild \/ ResumeBuild \/ VectorSearch
           \/ NoCommand \/ NoIndexStep \/ AssignNextSsToIndex
           \/ (\E r \in 0..GarbageBound : Garbage(r))
           \/ UNCHANGED vars
  <2>1. UNCHANGED segVars
    BY <1>5 DEF VectorBuild, PauseBuild, ResumeBuild, VectorSearch, NoCommand,
                NoIndexStep, AssignNextSsToIndex, Garbage, vars
  <2> QED
    BY <2>1, FullFrame DEF segVars
<1> QED
  BY <1>1, <1>2, <1>3, <1>4, <1>5
     DEF BuilderNext, Command, IndexTurn, BuilderCompaction, CompactionLoop

LEMMA QuietFrame ==
  ASSUME Quiet, UNCHANGED <<segVars, isIndexBuilding, target, resume, snapshot>>,
         tables' = tables \/ preempted' = TRUE, preempted' = preempted \/ preempted' = TRUE
  PROVE  Quiet'
<1>1. UNCHANGED <<slots, tail, compacting>>
  BY DEF segVars
<1> QED
  BY <1>1 DEF Quiet, TotalEntry, Target, KeysOf, AtPage, TablesKept

LEMMA AssignQuiet ==
  ASSUME BuilderIInv, BuildFlags, SegmentsFull, Quiet, AssignNextSsToIndex
  PROVE  Quiet'
<1>1. CASE Unindexed = {}
  BY <1>1 DEF AssignNextSsToIndex, EndBuild, Quiet
<1>2. CASE Unindexed # {}
  <2>1. PICK p : p = Earliest(Unindexed)
    OBVIOUS
  <2>2. PICK t : t = <<p[1], RingAdd(p[1], head[p[1]], p[2])>>
    OBVIOUS
  <2>3. /\ target = NoTarget /\ target' = t /\ UNCHANGED <<isIndexBuilding, resume>>
        /\ UNCHANGED <<segVars, snapshot>> /\ isIndexBuilding
    BY <1>2, <2>1, <2>2 DEF AssignNextSsToIndex, IndexStep
  <2>4. resume = 0
    BY <2>3 DEF BuildFlags
  <2>5. p \in Listed
    BY <1>2, <2>1, EarliestExists DEF Unindexed
  <2>6. p[1] \in Level /\ p[2] \in Visited(p[1])
    BY <2>5 DEF Listed, IndexedLevel, Level
  <2>7. t[2] \in Nat /\ t[2] \in 0..MaxSealed[p[1]]-1
    <3>1. t[2] \in 0..MaxSealed[p[1]]-1
      BY <2>2, <2>6, PlaceInRing DEF BuilderIInv, IInv
    <3> QED
      BY <2>6, <3>1, Sizes
  <2>8. t \in LiveSlot
    BY <2>2, <2>6, <2>7 DEF LiveSlot
  <2>9. KeysOf(slots[t[1]][t[2]].entries) # {}
    BY <2>8 DEF SegmentsFull
  <2>10. slots[t[1]][t[2]] \in Segment
    BY <2>2, <2>6, <2>7 DEF BuilderIInv, IInv, TypeOK
  <2>11. Cardinality(KeysOf(slots[t[1]][t[2]].entries)) # 0
    BY <2>9, <2>10, KeysFinite, FS_EmptySet DEF Segment
  <2>12. slots' = slots /\ compacting' = compacting /\ tail' = tail
    BY <2>3 DEF segVars
  <2>13. TotalEntry(Target)' # 0
    BY <2>3, <2>11, <2>12 DEF TotalEntry, Target, KeysOf
  <2>14. AtPage'
    BY <2>3 DEF Quiet, AtPage
  <2> QED
    BY <2>3, <2>4, <2>12, <2>13, <2>14 DEF Quiet, TablesKept
<1> QED
  BY <1>1, <1>2

LEMMA IncrementQuiet ==
  ASSUME BuilderIInv, Quiet, BuildIncrement
  PROVE  Quiet'
<1>0. /\ isIndexBuilding /\ ~compacting /\ target # NoTarget
      /\ UNCHANGED <<tail, compacting, isIndexBuilding, snapshot>>
      /\ resume' = NextPoint /\ preempted' = FALSE /\ tables' = TablesAtWork
      /\ resume \in Nat
  BY DEF BuildIncrement, IndexStep, Quiet
<1>1. NodesPerPage \in Nat \ {0} /\ Stride \in Nat
  BY BuilderAssumption
<1>2. Target \in Segment
  BY <1>0, TargetSegment
<1>3. TotalEntry(Target) \in Nat /\ TotalEntry(Target) # 0
  BY <1>0, <1>2, KeysFinite DEF TotalEntry, Segment, Quiet
<1>4. CASE Completes
  <2>1. target' = NoTarget /\ resume' = 0
    BY <1>0, <1>4 DEF BuildIncrement, NextPoint
  <2>2. AtPage'
    <3>1. 0 = 0 * NodesPerPage
      BY <1>1
    <3> QED
      BY <2>1, <3>1 DEF AtPage
  <2> QED
    BY <1>0, <2>1, <2>2 DEF Quiet, TablesKept
<1>5. CASE ~Completes
  <2>1. UNCHANGED <<slots, target>> /\ resume' = Last + 1
    BY <1>0, <1>5 DEF BuildIncrement, NextPoint
  <2>2. Last = resume + Stride /\ ~(Last >= TotalEntry(Target) - 1)
    BY <1>1, <1>3, <1>5 DEF Completes, Last
  <2>3. resume' = resume + Stride + 1 /\ resume' < TotalEntry(Target)
        /\ resume' \in Nat
    BY <1>0, <1>1, <1>3, <2>1, <2>2
  <2>4. Target' = Target /\ TotalEntry(Target)' = TotalEntry(Target)
    BY <2>1 DEF Target, TotalEntry, KeysOf
  <2>5. AtPage'
    <3> SUFFICES ASSUME Stride = NodesPerPage - 1
                 PROVE  \E q \in Nat : resume' = q * NodesPerPage
      BY DEF AtPage
    <3>1. PICK q \in Nat : resume = q * NodesPerPage
      BY <1>0 DEF Quiet, AtPage
    <3>2. \A n, m \in Nat : m * n + n = (m + 1) * n
      OBVIOUS
    <3>3. resume' = resume + NodesPerPage
      BY <1>0, <1>1, <2>3
    <3> QED
      BY <1>1, <3>1, <3>2, <3>3
  <2>6. tables' = Target.head_lpn
    <3>1. CASE Reloads
      BY <1>0, <3>1 DEF TablesAtWork
    <3>2. CASE ~Reloads
      BY <1>0, <3>2 DEF TablesAtWork, Reloads, Quiet, TablesKept
    <3> QED BY <3>1, <3>2
  <2> QED
    BY <1>0, <1>3, <2>1, <2>3, <2>4, <2>5, <2>6 DEF Quiet, TablesKept
<1> QED
  BY <1>4, <1>5

LEMMA QuietStep ==
  ASSUME "put" \notin Concurrent, BuilderIInv, BuildFlags, QuietInv, [BuilderNext]_vars
  PROVE  QuietInv'
<1>0. LastRing /\ SegmentsFull /\ Quiet
  BY DEF QuietInv
<1>1. SUFFICES Quiet'
  BY <1>0, FullStep DEF QuietInv
<1>2. ASSUME NEW k \in Key, BuilderPut(k) PROVE Quiet'
  BY <1>2 DEF BuilderPut, MaySend, Quiet
<1>3. CASE BuilderCompaction
  <2>1. compacting /\ isIndexBuilding' = isIndexBuilding
    BY <1>3 DEF BuilderCompaction, CompactionLoop, DoCompaction, CompactionDone
  <2> QED
    BY <1>0, <2>1 DEF Quiet
<1>4. CASE VectorBuild
  <2>1. UNCHANGED <<segVars, resume, tables, preempted>> /\ ~compacting
    BY <1>4 DEF VectorBuild, Serve
  <2>2. CASE isIndexBuilding
    BY <1>0, <1>4, <2>1, <2>2, QuietFrame DEF VectorBuild
  <2>3. CASE ~isIndexBuilding
    <3>1. resume = 0 /\ target' = NoTarget
          /\ snapshot' = [l \in IndexedLevel |-> tail[l]]
      BY <1>4, <2>3 DEF VectorBuild, BuildFlags
    <3>2. AtPage'
      <4>1. 0 = 0 * NodesPerPage
        BY BuilderAssumption
      <4> QED
        BY <2>1, <3>1, <4>1 DEF AtPage
    <3>3. tail' = tail /\ compacting' = compacting
      BY <2>1 DEF segVars
    <3> QED
      BY <2>1, <3>1, <3>2, <3>3 DEF Quiet, TablesKept
  <2> QED BY <2>2, <2>3
<1>5. CASE VectorSearch
  <2>1. /\ UNCHANGED <<segVars, isIndexBuilding, target, resume, snapshot>>
        /\ preempted' = (isIndexBuilding \/ preempted)
    BY <1>5 DEF VectorSearch
  <2>2. CASE isIndexBuilding
    BY <1>0, <2>1, <2>2, QuietFrame
  <2>3. CASE ~isIndexBuilding
    BY <2>1, <2>3 DEF Quiet
  <2> QED BY <2>2, <2>3
<1>6. CASE AssignNextSsToIndex
  BY <1>0, <1>6, AssignQuiet
<1>7. ASSUME NEW r \in 0..GarbageBound, Garbage(r) PROVE Quiet'
  BY <1>0, <1>7 DEF Garbage, IndexStep, Quiet
<1>8. CASE BuildIncrement
  BY <1>0, <1>8, IncrementQuiet
<1>9. CASE PauseBuild \/ ResumeBuild \/ NoCommand \/ NoIndexStep \/ UNCHANGED vars
  <2>1. UNCHANGED <<segVars, isIndexBuilding, target, resume, snapshot, tables, preempted>>
    BY <1>9 DEF PauseBuild, ResumeBuild, NoCommand, NoIndexStep, vars, buildVars
  <2> QED
    BY <1>0, <2>1, QuietFrame
<1> QED
  BY <1>2, <1>3, <1>4, <1>5, <1>6, <1>7, <1>8, <1>9
     DEF BuilderNext, Command, IndexTurn

LEMMA QuietInvariance ==
  ASSUME "put" \notin Concurrent
  PROVE  BuilderSpec => []QuietInv
<1>1. BuilderInit => QuietInv
  <2> SUFFICES ASSUME BuilderInit PROVE QuietInv
    OBVIOUS
  <2>1. Init /\ isIndexBuilding = FALSE
    BY DEF BuilderInit
  <2>2. LastRing /\ LiveSlot = {}
    BY <2>1, Sizes DEF Init, LastRing, Level, LiveSlot, Visited
  <2> QED
    BY <2>1, <2>2 DEF QuietInv, SegmentsFull, Quiet
<1>2. BuilderIInv /\ BuildFlags /\ QuietInv /\ [BuilderNext]_vars => QuietInv'
  BY QuietStep
<1> QED
  BY <1>1, <1>2, BuilderInvariance, FlagsAgree, PTL DEF BuilderSpec

(***************************************************************************)
(* Unless the host writes during a build, a step that does not reload the  *)
(* tables finds those of its target in the buffers that searches share     *)
(* (hnsw.c:169), for any pauses and preemptions.                           *)
(***************************************************************************)
THEOREM TablesStay ==
  ASSUME "put" \notin Concurrent
  PROVE  BuilderSpec => []TablesKept
<1>1. QuietInv /\ BuildFlags => TablesKept
  BY DEF QuietInv, Quiet, BuildFlags, TablesKept
<1> QED
  BY <1>1, QuietInvariance, FlagsAgree, PTL

(***************************************************************************)
(* With the source's stride, each step of such a build resumes at the      *)
(* first node of a page, and inside its target (tryIndexBuildIncremental,  *)
(* hnsw.c).                                                                *)
(***************************************************************************)
THEOREM StepsResumeAtPage ==
  ASSUME "put" \notin Concurrent, Stride = NodesPerPage - 1
  PROVE  BuilderSpec => []ResumeAtPage
<1>1. QuietInv /\ BuildFlags => ResumeAtPage
  <2> SUFFICES ASSUME Quiet, BuildFlags, resume # 0
               PROVE  resume % NodesPerPage = 0 /\ resume < TotalEntry(Target)
    BY DEF ResumeAtPage, QuietInv
  <2>1. isIndexBuilding
    BY DEF BuildFlags
  <2>2. PICK q \in Nat : resume = q * NodesPerPage
    BY <2>1 DEF Quiet, AtPage
  <2> QED
    BY <2>1, <2>2, NoMultiple DEF Quiet
<1> QED
  BY <1>1, QuietInvariance, FlagsAgree, PTL

(***************************************************************************)
(* A build during which the host writes nothing leaves no listed segment   *)
(* of levels 1..3 without an index, as the loop reports at its end         *)
(* (nvme_main.c:445), whatever searches and pauses came between.           *)
(***************************************************************************)
THEOREM BuildReachesAll ==
  ASSUME "put" \notin Concurrent
  PROVE  BuilderSpec => AllIndexed
<1>1. QuietInv /\ [BuilderNext]_vars =>
        [isIndexBuilding /\ ~isIndexBuilding' =>
           \A p \in Listed : HasIndex(SegmentAt(p))]_vars
  <2> SUFFICES ASSUME QuietInv, BuilderNext, isIndexBuilding, ~isIndexBuilding',
                      NEW p \in Listed
               PROVE  HasIndex(SegmentAt(p))
    OBVIOUS
  <2>1. AssignNextSsToIndex /\ Unindexed = {}
    <3>1. AssignNextSsToIndex
      BY DEF BuilderNext, Command, IndexTurn, BuilderPut, VectorBuild, PauseBuild,
             ResumeBuild, VectorSearch, NoCommand, BuilderCompaction, Garbage,
             BuildIncrement, NoIndexStep
    <3> QED
      BY <3>1 DEF AssignNextSsToIndex
  <2>2. WithinSnapshot(p[1], p[2])
    <3>1. p[1] \in IndexedLevel
      BY DEF Listed
    <3> QED
      BY <3>1 DEF QuietInv, Quiet, WithinSnapshot
  <2> QED
    BY <2>1, <2>2 DEF Unindexed
<1> QED
  BY <1>1, QuietInvariance, PTL DEF BuilderSpec, AllIndexed

-----------------------------------------------------------------------------
(***************************************************************************)
(* The indexes that such a build writes.  A page holds one header, every   *)
(* later one lies below it, and what a slot points to is complete or came  *)
(* of a disturbed build; between two steps, the nodes before the resume    *)
(* point are linked unless a search came across the segment at work.       *)
(***************************************************************************)
Complete(x, s) == x.of = s.head_lpn /\ x.nodes = 0..TotalEntry(s)-1

SlotIndexed(s) ==
  \/ s.vector_index_start_lpn = INVALID_LPN
  \/ \E x \in indexes : /\ x.lpn = s.vector_index_start_lpn
                        /\ x \in disturbed \/ Complete(x, s)

HeadersApart ==
  /\ \A x, y \in indexes : x.lpn = y.lpn => x = y
  /\ \A x \in indexes : x.lpn >= reverse_lpn

LinkedSoFar ==
  resume # 0 /\ ~searched =>
    /\ ~preempted
    /\ tables = Target.head_lpn /\ header = Target.head_lpn
    /\ linked = 0..resume-1

SlotsIndexed == \A m \in Level : \A i \in 0..MaxSealed[m]-1 : SlotIndexed(slots[m][i])

HistoryInv == HeadersApart /\ SlotsIndexed /\ LinkedSoFar

LEMMA LogGoesDown ==
  ASSUME BuilderIInv, (\E k \in Key : BuilderPut(k)) \/ BuilderCompaction
  PROVE  reverse_lpn' <= reverse_lpn
<1>0. IInv /\ TypeOK /\ reverse_lpn \in Int /\ growing \in Entries
  BY DEF BuilderIInv, IInv, TypeOK
<1>1. ASSUME NEW e \in Entries PROVE TablePages(e) \in Nat
  BY KeysFinite, PagesForType, ConstantsAssumption DEF TablePages
<1>2. ASSUME NEW k \in Key, BuilderPut(k) PROVE reverse_lpn' <= reverse_lpn
  <2>1. CASE PutWithoutSeal(k)
    BY <1>0, <2>1 DEF PutWithoutSeal
  <2>2. CASE PutAfterSeal(k)
    <3>1. reverse_lpn' = reverse_lpn - TablePages(growing)
      BY <2>2 DEF PutAfterSeal, CompactGrowingSegment, AppendSegment
    <3> QED
      BY <1>0, <1>1, <3>1
  <2> QED
    BY <1>2, <2>1, <2>2 DEF BuilderPut, KvPut
<1>3. ASSUME NEW l \in 0..2, DoCompaction(l) PROVE reverse_lpn' <= reverse_lpn
  <2>1. reverse_lpn' = reverse_lpn - TablePages(Merge(l)) /\ Merge(l) \in Entries
    BY <1>0, <1>3, MergeType DEF DoCompaction, AppendSegment
  <2> QED
    BY <1>0, <1>1, <2>1
<1>4. ASSUME CompactionDone PROVE reverse_lpn' <= reverse_lpn
  BY <1>0, <1>4 DEF CompactionDone
<1> QED
  BY <1>2, <1>3, <1>4 DEF BuilderCompaction, CompactionLoop

\* A step that writes no header leaves those there are where they were.
LEMMA HeadersFrame ==
  ASSUME HeadersApart, SlotsIndexed, History, indexes' = indexes,
         BuilderIInv, BuildType, NoNewIndex, reverse_lpn' \in Int,
         reverse_lpn' <= reverse_lpn
  PROVE  HeadersApart' /\ SlotsIndexed'
<1>1. reverse_lpn \in Int /\ \A x \in indexes : x.lpn \in Int
  BY DEF BuilderIInv, IInv, TypeOK, BuildType
<1>2. HeadersApart'
  BY <1>1 DEF HeadersApart
<1>3. disturbed \subseteq disturbed'
  BY DEF History
<1>4. ASSUME NEW m \in Level, NEW i \in 0..MaxSealed[m]-1
      PROVE  \/ slots'[m][i].vector_index_start_lpn = INVALID_LPN
             \/ \E x \in indexes' :
                  /\ x.lpn = slots'[m][i].vector_index_start_lpn
                  /\ \/ x \in disturbed'
                     \/ /\ x.of = slots'[m][i].head_lpn
                        /\ x.nodes = 0..TotalEntry(slots'[m][i])-1
  BY <1>3 DEF NoNewIndex, SlotsIndexed, SlotIndexed, Complete
<1> QED
  BY <1>2, <1>4 DEF SlotsIndexed, SlotIndexed, Complete, TotalEntry, KeysOf

LEMMA IncrementHistory ==
  ASSUME BuilderIInv, BuildType, BuildFlags, Quiet, HistoryInv, BuildIncrement,
         History, reverse_lpn' \in Int
  PROVE  HistoryInv'
<1>0. /\ isIndexBuilding /\ target # NoTarget /\ TotalEntry(Target) # 0
      /\ resume' = NextPoint /\ preempted' = FALSE
      /\ tables' = TablesAtWork /\ header' = HeaderAtWork /\ linked' = NodesLinked
      /\ reverse_lpn' = reverse_lpn - IndexPages
  BY DEF BuildIncrement, IndexStep
<1>1. /\ Stride \in Nat /\ resume \in Nat /\ reverse_lpn \in Int
      /\ \A x \in indexes : x.lpn \in Int
  BY BuilderAssumption DEF BuildType, BuilderIInv, IInv, TypeOK
<1>2. Target \in Segment
  BY <1>0, TargetSegment
<1>3. TotalEntry(Target) \in Nat \ {0}
  BY <1>0, <1>2, KeysFinite DEF TotalEntry, Segment
<1>4. IndexPages \in Nat /\ (Completes => IndexPages # 0)
  BY <1>3, PagesForType, BuilderAssumption DEF IndexPages, NodePages, HeaderPages
<1>5. resume = 0 \/ resume < TotalEntry(Target)
  BY <1>0 DEF Quiet
<1>6. /\ Last \in Nat /\ resume <= Last /\ Last <= TotalEntry(Target) - 1
      /\ Completes => Last = TotalEntry(Target) - 1
  BY <1>1, <1>3, <1>5 DEF Last, Completes
<1>7. ~searched => NodesLinked = 0..Last /\ HeaderAtWork = Target.head_lpn
                   /\ TablesAtWork = Target.head_lpn
  <2> SUFFICES ASSUME ~searched
               PROVE  NodesLinked = 0..Last /\ HeaderAtWork = Target.head_lpn
                      /\ TablesAtWork = Target.head_lpn
    OBVIOUS
  <2>1. CASE resume = 0
    BY <2>1 DEF NodesLinked, TablesAtWork, HeaderAtWork, Reloads
  <2>2. CASE resume # 0
    <3>1. ~preempted /\ tables = Target.head_lpn /\ header = Target.head_lpn
          /\ linked = 0..resume-1
      BY <2>2 DEF HistoryInv, LinkedSoFar
    <3>2. NodesLinked = (0..resume-1) \cup (resume..Last)
      BY <2>2, <3>1 DEF NodesLinked, TablesAtWork, HeaderAtWork, Reloads
    <3>3. (0..resume-1) \cup (resume..Last) = 0..Last
      BY <1>1, <1>6
    <3> QED
      BY <2>2, <3>1, <3>2, <3>3 DEF TablesAtWork, HeaderAtWork, Reloads
  <2> QED BY <2>1, <2>2
<1>8. searched' = (resume' # 0 /\ searched)
  BY <1>0 DEF History
<1>9. CASE ~Completes
  <2>1. UNCHANGED <<slots, indexes, target>> /\ resume' = Last + 1
    BY <1>0, <1>9 DEF BuildIncrement, NextPoint
  <2>2. HeadersApart' /\ SlotsIndexed'
    <3>1. NoNewIndex
      BY <2>1 DEF NoNewIndex
    <3>2. reverse_lpn' <= reverse_lpn
      BY <1>0, <1>1, <1>4
    <3> QED
      BY <2>1, <3>1, <3>2, HeadersFrame DEF HistoryInv
  <2>3. Target' = Target
    BY <2>1 DEF Target
  <2>4. ASSUME ~searched
        PROVE  /\ tables' = Target.head_lpn /\ header' = Target.head_lpn
               /\ linked' = 0..resume'-1
    <3>1. resume' - 1 = Last
      BY <1>6, <2>1
    <3> QED
      BY <1>0, <1>7, <2>4, <3>1
  <2>5. LinkedSoFar'
    BY <1>0, <1>8, <2>3, <2>4 DEF LinkedSoFar
  <2> QED
    BY <2>2, <2>5 DEF HistoryInv
<1>10. CASE Completes
  <2>1. PICK new : new = [lpn |-> reverse_lpn', of |-> HeaderAtWork,
                          nodes |-> NodesLinked]
    OBVIOUS
  <2>2. indexes' = indexes \cup {new} /\ resume' = 0
    BY <1>0, <1>10, <2>1 DEF BuildIncrement, NextPoint
  <2>3. LinkedSoFar'
    BY <2>2 DEF LinkedSoFar
  <2>4. reverse_lpn' < reverse_lpn /\ new.lpn = reverse_lpn'
    BY <1>0, <1>1, <1>4, <1>10, <2>1
  <2>5. \A x \in indexes : x.lpn >= reverse_lpn /\ x.lpn > reverse_lpn'
    BY <1>1, <2>4 DEF HistoryInv, HeadersApart
  <2>6. HeadersApart'
    BY <1>1, <2>2, <2>4, <2>5 DEF HistoryInv, HeadersApart
  <2>7. new \in disturbed' \/ (new.of = Target.head_lpn
                               /\ new.nodes = 0..TotalEntry(Target)-1)
    <3>1. CASE searched
      <4>1. new \in indexes' \ indexes
        BY <1>1, <2>2, <2>4, <2>5
      <4> QED
        BY <3>1, <4>1 DEF History
    <3>2. CASE ~searched
      BY <1>6, <1>7, <1>10, <2>1, <3>2
    <3> QED BY <3>1, <3>2
  <2>8. disturbed \subseteq disturbed'
    BY DEF History
  <2>9. ASSUME NEW m \in Level, NEW i \in 0..MaxSealed[m]-1
        PROVE  \/ slots'[m][i].vector_index_start_lpn = INVALID_LPN
               \/ \E x \in indexes' :
                    /\ x.lpn = slots'[m][i].vector_index_start_lpn
                    /\ \/ x \in disturbed'
                       \/ /\ x.of = slots'[m][i].head_lpn
                          /\ x.nodes = 0..TotalEntry(slots'[m][i])-1
    <3>1. CASE slots'[m][i] = slots[m][i]
      BY <2>2, <2>8, <3>1 DEF HistoryInv, SlotsIndexed, SlotIndexed, Complete
    <3>2. CASE slots'[m][i] # slots[m][i]
      <4>1. slots'[m][i] = [Target EXCEPT !.vector_index_start_lpn = reverse_lpn']
        BY <3>2, IncrementSlots
      <4>2. /\ slots'[m][i].vector_index_start_lpn = reverse_lpn'
            /\ slots'[m][i].head_lpn = Target.head_lpn
            /\ slots'[m][i].entries = Target.entries
        BY <1>2, <4>1 DEF Segment
      <4>3. TotalEntry(slots'[m][i]) = TotalEntry(Target)
        BY <4>2 DEF TotalEntry
      <4> QED
        BY <2>2, <2>4, <2>7, <4>2, <4>3
    <3> QED BY <3>1, <3>2
  <2>10. SlotsIndexed'
    BY <2>9 DEF SlotsIndexed, SlotIndexed, Complete, TotalEntry, KeysOf
  <2> QED
    BY <2>3, <2>6, <2>10 DEF HistoryInv
<1> QED
  BY <1>9, <1>10

LEMMA HistoryStep ==
  ASSUME "put" \notin Concurrent, BuilderIInv, BuilderIInv', BuildType, BuildFlags,
         QuietInv, HistoryInv, BuilderNext, History
  PROVE  HistoryInv'
<1>0. /\ HeadersApart /\ SlotsIndexed /\ LinkedSoFar /\ Quiet
      /\ reverse_lpn' \in Int /\ reverse_lpn \in Int
  BY DEF HistoryInv, QuietInv, BuilderIInv, IInv, TypeOK
<1>1. CASE BuildIncrement
  BY <1>0, <1>1, IncrementHistory
<1>2. CASE (\E k \in Key : BuilderPut(k)) \/ BuilderCompaction
  <2>1. indexes' = indexes /\ resume' = resume
    BY <1>2 DEF BuilderPut, BuilderCompaction
  <2>2. ~isIndexBuilding
    <3>1. ASSUME NEW k \in Key, BuilderPut(k) PROVE ~isIndexBuilding
      BY <3>1 DEF BuilderPut, MaySend
    <3>2. CASE BuilderCompaction
      <4>1. compacting
        BY <3>2 DEF BuilderCompaction, CompactionLoop, DoCompaction, CompactionDone
      <4> QED
        BY <1>0, <4>1 DEF Quiet
    <3> QED BY <1>2, <3>1, <3>2
  <2>3. LinkedSoFar'
    BY <2>1, <2>2 DEF LinkedSoFar, BuildFlags
  <2>4. NoNewIndex /\ reverse_lpn' <= reverse_lpn
    BY <1>2, WritePathNoIndex, LogGoesDown
  <2> QED
    BY <1>0, <2>1, <2>3, <2>4, HeadersFrame DEF HistoryInv
<1>3. CASE \/ VectorBuild \/ PauseBuild \/ ResumeBuild \/ VectorSearch
           \/ NoCommand \/ NoIndexStep \/ AssignNextSsToIndex
           \/ (\E r \in 0..GarbageBound : Garbage(r))
  <2>1. UNCHANGED <<segVars, indexes>>
    BY <1>3 DEF VectorBuild, PauseBuild, ResumeBuild, VectorSearch, NoCommand,
                NoIndexStep, AssignNextSsToIndex, Garbage
  <2>2. slots' = slots /\ reverse_lpn' = reverse_lpn
    BY <2>1 DEF segVars
  <2>3. HeadersApart' /\ SlotsIndexed'
    BY <1>0, <2>1, <2>2, HeadersFrame DEF NoNewIndex
  <2>4. LinkedSoFar'
    <3> SUFFICES ASSUME resume' # 0, ~searched'
                 PROVE  /\ ~preempted' /\ linked' = 0..resume'-1
                        /\ tables' = Target'.head_lpn /\ header' = Target'.head_lpn
      BY DEF LinkedSoFar
    <3>1. ~searched /\ ~preempted'
      BY DEF History
    <3>2. resume' = resume /\ isIndexBuilding /\ target # NoTarget
      <4>1. ASSUME NEW r \in 0..GarbageBound, Garbage(r) PROVE FALSE
        BY <1>0, <4>1 DEF Garbage, IndexStep, Quiet
      <4>2. CASE AssignNextSsToIndex
        BY <4>2 DEF AssignNextSsToIndex, EndBuild, BuildFlags
      <4>3. CASE VectorBuild \/ PauseBuild \/ ResumeBuild \/ VectorSearch
                 \/ NoCommand \/ NoIndexStep
        BY <4>3 DEF VectorBuild, PauseBuild, ResumeBuild, VectorSearch, NoCommand,
                    NoIndexStep, BuildFlags
      <4> QED BY <1>3, <4>1, <4>2, <4>3
    <3>3. UNCHANGED <<target, tables, header, linked, preempted>>
      <4>1. ~VectorSearch
        BY <3>1, <3>2 DEF VectorSearch
      <4>2. ASSUME NEW r \in 0..GarbageBound, Garbage(r) PROVE FALSE
        BY <1>0, <4>2 DEF Garbage, IndexStep, Quiet
      <4>3. ~AssignNextSsToIndex
        BY <3>2 DEF AssignNextSsToIndex
      <4> QED
        BY <1>3, <3>2, <4>1, <4>2, <4>3
           DEF VectorBuild, PauseBuild, ResumeBuild, NoCommand, NoIndexStep
    <3>4. Target' = Target
      BY <2>2, <3>3 DEF Target
    <3> QED
      BY <1>0, <3>1, <3>2, <3>3, <3>4 DEF LinkedSoFar
  <2> QED
    BY <2>3, <2>4 DEF HistoryInv
<1> QED
  BY <1>1, <1>2, <1>3 DEF BuilderNext, Command, IndexTurn

LEMMA HistoryFrame ==
  ASSUME HistoryInv, UNCHANGED historyVars
  PROVE  HistoryInv'
<1>1. UNCHANGED <<slots, reverse_lpn, indexes, resume, preempted, tables, header,
                  linked, target, searched, disturbed>>
  BY DEF historyVars, vars, buildVars, segVars
<1> QED
  BY <1>1 DEF HistoryInv, HeadersApart, SlotsIndexed, SlotIndexed, Complete,
              LinkedSoFar, TotalEntry, KeysOf, Target

LEMMA ListedComplete ==
  ASSUME TypeOK, HistoryInv
  PROVE  IndexComplete
<1> SUFFICES ASSUME NEW p \in Indexed
             PROVE  \/ HeaderAt(SegmentAt(p).vector_index_start_lpn) \in disturbed
                    \/ OwnIndex(p)
  BY DEF IndexComplete
<1>1. p[1] \in Level /\ p[2] \in Visited(p[1]) /\ HasIndex(SegmentAt(p))
  BY DEF Indexed, Listed, IndexedLevel, Level
<1>2. RingAdd(p[1], head[p[1]], p[2]) \in 0..MaxSealed[p[1]]-1
  <2>1. head[p[1]] \in 0..MaxSealed[p[1]]-1 /\ p[2] \in 0..MaxSealed[p[1]]-1
    BY <1>1 DEF TypeOK, Visited
  <2> QED
    BY <1>1, <2>1, RingAddType, Sizes
<1>3. SlotIndexed(SegmentAt(p))
  BY <1>1, <1>2 DEF HistoryInv, SlotsIndexed, SegmentAt, At
<1>4. PICK x \in indexes :
        /\ x.lpn = SegmentAt(p).vector_index_start_lpn
        /\ x \in disturbed \/ Complete(x, SegmentAt(p))
  BY <1>1, <1>3 DEF SlotIndexed, HasIndex
<1>5. HeaderAt(SegmentAt(p).vector_index_start_lpn) = x
  BY <1>4 DEF HeaderAt, HistoryInv, HeadersApart
<1> QED
  BY <1>4, <1>5 DEF OwnIndex, Complete

(***************************************************************************)
(* While the host writes nothing during a build, the index that a listed   *)
(* segment points to is its own and links every one of its vectors, unless *)
(* a search came between the steps that made it (buildOndemandHnsw,        *)
(* hnsw.c), for any stride, any number of pages and any pauses.            *)
(***************************************************************************)
THEOREM IndexesComplete ==
  ASSUME "put" \notin Concurrent
  PROVE  HistorySpec => []IndexComplete
<1>1. HistorySpec => BuilderSpec
  <2>1. HistoryInit => BuilderInit
    BY DEF HistoryInit
  <2>2. [BuilderNext /\ History]_historyVars => [BuilderNext]_vars
    BY DEF historyVars
  <2> QED
    BY <2>1, <2>2, PTL DEF HistorySpec, BuilderSpec
<1>2. HistoryInit => HistoryInv
  <2> SUFFICES ASSUME HistoryInit PROVE HistoryInv
    OBVIOUS
  <2>1. indexes = {} /\ resume = 0
    BY DEF HistoryInit, BuilderInit
  <2>2. SlotsIndexed
    BY DEF HistoryInit, BuilderInit, Init, SlotsIndexed, SlotIndexed, Cleared
  <2> QED
    BY <2>1, <2>2 DEF HistoryInv, HeadersApart, LinkedSoFar
<1>3. BuilderIInv /\ BuilderIInv' /\ BuildType /\ BuildFlags /\ QuietInv /\ HistoryInv
        /\ [BuilderNext /\ History]_historyVars => HistoryInv'
  BY HistoryStep, HistoryFrame
<1>4. BuilderTypeOK => BuildType
  BY DEF BuilderTypeOK, BuildType
<1>5. BuilderIInv /\ HistoryInv => IndexComplete
  BY ListedComplete DEF BuilderIInv, IInv
<1> QED
  BY <1>1, <1>2, <1>3, <1>4, <1>5, BuilderInvariance, BuilderTypeCorrect, FlagsAgree,
     QuietInvariance, PTL DEF HistorySpec
=============================================================================
