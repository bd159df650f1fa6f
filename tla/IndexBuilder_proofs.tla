------------------------ MODULE IndexBuilder_proofs ------------------------
(***************************************************************************)
(* Proofs about the write path and its sealed segments, and then about the *)
(* main loop and the index build, for every set of keys, every size of the *)
(* growing segment, of the rings and of the pages, and every mix of        *)
(* commands.                                                               *)
(***************************************************************************)
EXTENDS IndexBuilder, FiniteSetTheorems, WellFoundedInduction, TLAPS

(***************************************************************************)
(* Arithmetic.                                                             *)
(***************************************************************************)
Less == {p \in Nat \X Nat : p[1] < p[2]}

LEMMA LessWellFounded == IsWellFoundedOn(Less, Nat)
<1>1. OpToRel(<, Nat) = Less
  BY DEF OpToRel, Less
<1> QED
  BY <1>1, NatLessThanWellFounded

LEMMA SmallestExists ==
  ASSUME NEW T \in SUBSET Nat, T # {}
  PROVE  \E x \in T : \A y \in T : x <= y
<1>1. PICK x \in T : \A y \in T : ~ (<<y, x>> \in Less)
  BY LessWellFounded, WFMin
<1>2. SUFFICES ASSUME NEW y \in T PROVE x <= y
  OBVIOUS
<1>3. x \in Nat /\ y \in Nat /\ ~ (y < x)
  BY <1>1 DEF Less
<1> QED
  BY <1>3

\* A nonempty set of positions of a ring has a youngest one.
LEMMA LargestExists ==
  ASSUME NEW n \in Nat, NEW S \in SUBSET (0..n), S # {}
  PROVE  \E j \in S : \A i \in S : i <= j
<1> DEFINE T == {n - j : j \in S}
<1>1. T \in SUBSET Nat
  <2>1. \A j \in S : n - j \in Nat
    OBVIOUS
  <2> QED BY <2>1
<1>2. T # {}
  <2>1. PICK s \in S : TRUE
    OBVIOUS
  <2>2. n - s \in T
    OBVIOUS
  <2> QED BY <2>2
<1>3. PICK x \in T : \A y \in T : x <= y
  <2> HIDE DEF T
  <2> QED BY <1>1, <1>2, SmallestExists
<1>4. PICK j \in S : x = n - j
  OBVIOUS
<1>5. \A i \in S : n - j <= n - i
  BY <1>3, <1>4
<1>6. \A i \in S : i <= j
  BY <1>5
<1> QED
  BY <1>6

(***************************************************************************)
(* Rings: positions are slots, adding is associative, and two positions    *)
(* less than a ring apart are two slots.                                   *)
(***************************************************************************)
LEMMA RingAddType ==
  ASSUME NEW l \in Level, NEW i \in 0..MaxSealed[l]-1, NEW n \in 0..MaxSealed[l]
  PROVE  RingAdd(l, i, n) \in 0..MaxSealed[l]-1
BY ConstantsAssumption DEF RingAdd

LEMMA RingAddAdd ==
  ASSUME NEW l \in Level, NEW i \in 0..MaxSealed[l]-1,
         NEW a \in Nat, NEW b \in Nat, a + b <= MaxSealed[l]
  PROVE  RingAdd(l, RingAdd(l, i, a), b) = RingAdd(l, i, a + b)
BY ConstantsAssumption DEF RingAdd

LEMMA RingAddInjective ==
  ASSUME NEW l \in Level, NEW i \in 0..MaxSealed[l]-1,
         NEW a \in 0..MaxSealed[l]-1, NEW b \in 0..MaxSealed[l]-1,
         RingAdd(l, i, a) = RingAdd(l, i, b)
  PROVE  a = b
BY ConstantsAssumption DEF RingAdd

LEMMA Sizes ==
  /\ \A l \in Level : MaxSealed[l] \in Nat \ {0}
  /\ \A l \in 0..2 : /\ l \in Level /\ l + 1 \in Level
                     /\ Threshold(l) \in Nat /\ Threshold(l) >= 2
                     /\ Threshold(l) < MaxSealed[l]
                     /\ NumVictimsOf(l) \in 2..Threshold(l)
BY ConstantsAssumption DEF Level, Threshold, NumVictimsOf

(***************************************************************************)
(* Segments.                                                               *)
(***************************************************************************)
LEMMA KeysFinite ==
  ASSUME NEW e \in Entries
  PROVE  /\ IsFiniteSet(KeysOf(e)) /\ Cardinality(KeysOf(e)) \in Nat
         /\ TablePages(e) \in Int
<1>1. IsFiniteSet(KeysOf(e)) /\ Cardinality(KeysOf(e)) \in Nat
  BY ConstantsAssumption, FS_Subset, FS_CardinalityType DEF KeysOf
<1> QED
  BY <1>1, ConstantsAssumption DEF TablePages, PagesFor

SlotsType(s) ==
  /\ DOMAIN s = Level
  /\ \A l \in Level : s[l] \in [0..MaxSealed[l]-1 -> Segment]

LEMMA ClearedType == Cleared \in Segment
BY DEF Cleared, Segment, NoEntries, Entries, Lpn

LEMMA SealedType ==
  ASSUME NEW e \in Entries, NEW first \in Int, reverse_lpn \in Int
  PROVE  Sealed(e, first) \in Segment
BY DEF Sealed, Segment, Lpn

\* What appending a segment to a level does to the slots.
LEMMA AppendStep ==
  ASSUME TypeOK, NEW l \in Level, NEW e \in Entries, NEW s, SlotsType(s),
         AppendSegment(l, e, s)
  PROVE  /\ SlotsType(slots')
         /\ reverse_lpn' \in Int
         /\ slots'[l][tail[l]] = Sealed(e, reverse_lpn')
         /\ \A i \in 0..MaxSealed[l]-1 : i # tail[l] => slots'[l][i] = s[l][i]
         /\ \A m \in Level \ {l} : slots'[m] = s[m]
         /\ tail' \in [Level -> Nat]
         /\ \A m \in Level : tail'[m] \in 0..MaxSealed[m]-1
         /\ tail' = [tail EXCEPT ![l] = RingAdd(l, tail[l], 1)]
<1> DEFINE first == reverse_lpn - TablePages(e)
<1>1. first \in Int /\ reverse_lpn' = first
  BY KeysFinite DEF AppendSegment, TypeOK
<1>2. Sealed(e, first) \in Segment
  BY <1>1, SealedType DEF TypeOK
<1>3. slots' = [s EXCEPT ![l][tail[l]] = Sealed(e, first)]
  BY DEF AppendSegment
<1>4. tail[l] \in 0..MaxSealed[l]-1
  BY DEF TypeOK
<1>5. tail' = [tail EXCEPT ![l] = RingAdd(l, tail[l], 1)]
  BY DEF AppendSegment
<1>6. RingAdd(l, tail[l], 1) \in 0..MaxSealed[l]-1
  BY <1>4, Sizes, RingAddType
<1>7. tail' \in [Level -> Nat] /\ \A m \in Level : tail'[m] \in 0..MaxSealed[m]-1
  <2>1. /\ tail \in [Level -> Nat]
        /\ \A m \in Level : tail[m] \in 0..MaxSealed[m]-1
    BY DEF TypeOK
  <2> QED
    BY <1>5, <1>6, <2>1
<1> HIDE DEF first
<1>8. SlotsType(slots')
  BY <1>2, <1>3, <1>4 DEF SlotsType
<1>9. /\ slots'[l][tail[l]] = Sealed(e, first)
      /\ \A i \in 0..MaxSealed[l]-1 : i # tail[l] => slots'[l][i] = s[l][i]
      /\ \A m \in Level \ {l} : slots'[m] = s[m]
  BY <1>3, <1>4 DEF SlotsType
<1> QED
  BY <1>1, <1>5, <1>7, <1>8, <1>9

(***************************************************************************)
(* The inductive invariant.  CompactionAsserts needs every listed segment  *)
(* of levels 0..2 to be a sealed one, which needs the ring arithmetic: a   *)
(* sealing writes the slot that is past the listed ones, and a compaction  *)
(* clears exactly those that leave the ring.                               *)
(***************************************************************************)
IsLive(v) == /\ v.head_lpn # INVALID_LPN
             /\ v.tail_lpn # INVALID_LPN
             /\ KeysOf(v.entries) # {}

SlotsLive == \A l \in 0..2 : \A j \in Visited(l) : IsLive(At(l, j))

IInv == TypeOK /\ RingInv /\ SlotsLive

LEMMA SealedLive ==
  ASSUME NEW e \in Entries, KeysOf(e) # {}, NEW first \in Int, reverse_lpn \in Int
  PROVE  IsLive(Sealed(e, first))
BY ConstantsAssumption DEF IsLive, Sealed

\* The empty store that nvme_main sets up satisfies it.
THEOREM InitIInv == Init => IInv
<1> SUFFICES ASSUME Init PROVE IInv
  OBVIOUS
<1> USE DEF Init
<1>1. TypeOK
  <2>1. \A l \in Level : slots[l] \in [0..MaxSealed[l]-1 -> Segment]
    BY ClearedType
  <2>2. NoEntries \in Entries
    BY DEF NoEntries, Entries
  <2>3. \A l \in Level : 0 \in 0..MaxSealed[l]-1
    BY Sizes
  <2>4. growing \in Entries /\ write_pointer_lba \in 0..MaxPut
    BY <2>2, ConstantsAssumption
  <2>5. /\ level_count \in [Level -> Nat]
        /\ head \in [Level -> Nat] /\ tail \in [Level -> Nat]
    OBVIOUS
  <2>6. \A l \in Level : head[l] \in 0..MaxSealed[l]-1 /\ tail[l] \in 0..MaxSealed[l]-1
    BY <2>3
  <2>7. reverse_lpn \in Int /\ mapped \subseteq Int /\ compacting \in BOOLEAN
    BY ConstantsAssumption
  <2>8. DOMAIN slots = Level
    OBVIOUS
  <2> QED
    BY <2>1, <2>4, <2>5, <2>6, <2>7, <2>8 DEF TypeOK
<1>2. RingInv
  BY Sizes DEF RingInv, RingAdd
<1>3. SlotsLive
  BY Sizes DEF SlotsLive, Visited
<1> QED
  BY <1>1, <1>2, <1>3 DEF IInv

(***************************************************************************)
(* Appending to a level with room keeps its ring and its live segments.    *)
(***************************************************************************)
LEMMA AppendKeepsRing ==
  ASSUME TypeOK, NEW l \in 0..2, NEW e \in Entries, KeysOf(e) # {},
         NEW s, SlotsType(s), s[l] = slots[l],
         AppendSegment(l, e, s),
         level_count[l] < Threshold(l),
         tail[l] = RingAdd(l, head[l], level_count[l]),
         \A j \in Visited(l) : IsLive(At(l, j)),
         head'[l] = head[l], level_count'[l] = level_count[l] + 1
  PROVE  /\ tail'[l] = RingAdd(l, head'[l], level_count'[l])
         /\ \A j \in Visited(l)' : IsLive(At(l, j)')
<1>1. /\ l \in Level
      /\ MaxSealed[l] \in Nat
      /\ level_count[l] \in Nat
      /\ level_count[l] + 1 < MaxSealed[l]
      /\ head[l] \in 0..MaxSealed[l]-1
      /\ tail[l] \in 0..MaxSealed[l]-1
  <2>1. l \in Level /\ MaxSealed[l] \in Nat
    BY Sizes
  <2>2. level_count[l] \in Nat
    BY <2>1 DEF TypeOK
  <2>3. head[l] \in 0..MaxSealed[l]-1 /\ tail[l] \in 0..MaxSealed[l]-1
    BY <2>1 DEF TypeOK
  <2> QED
    BY <2>1, <2>2, <2>3 DEF Threshold
<1>2. /\ tail' = [tail EXCEPT ![l] = RingAdd(l, tail[l], 1)]
      /\ slots'[l][tail[l]] = Sealed(e, reverse_lpn')
      /\ \A i \in 0..MaxSealed[l]-1 : i # tail[l] => slots'[l][i] = slots[l][i]
      /\ reverse_lpn' \in Int
  BY <1>1, AppendStep
<1>3. tail'[l] = RingAdd(l, head'[l], level_count'[l])
  <2>1. tail'[l] = RingAdd(l, tail[l], 1)
    BY <1>1, <1>2 DEF TypeOK
  <2> QED
    BY <2>1, <1>1, RingAddAdd
<1>4. ASSUME NEW j \in Visited(l)' PROVE IsLive(At(l, j)')
  <2>1. /\ j \in 0..MaxSealed[l]-1
        /\ j < level_count[l] + 1
    BY DEF Visited
  <2>2. At(l, j)' = slots'[l][RingAdd(l, head[l], j)]
    BY DEF At, RingAdd
  <2>3. CASE j = level_count[l]
    <3>1. At(l, j)' = Sealed(e, reverse_lpn')
      BY <2>2, <2>3, <1>2
    <3> QED
      BY <3>1, <1>2, SealedLive DEF TypeOK
  <2>4. CASE j < level_count[l]
    <3>1. RingAdd(l, head[l], j) # tail[l]
      BY <2>1, <2>4, <1>1, RingAddInjective
    <3>2. RingAdd(l, head[l], j) \in 0..MaxSealed[l]-1
      BY <2>1, <1>1, RingAddType
    <3>3. At(l, j)' = At(l, j)
      BY <2>2, <3>1, <3>2, <1>2 DEF At
    <3>4. j \in Visited(l)
      BY <2>1, <2>4 DEF Visited
    <3> QED
      BY <3>3, <3>4
  <2> QED
    BY <2>1, <2>3, <2>4, <1>1
<1> QED
  BY <1>3, <1>4

(***************************************************************************)
(* The merge of the victims: of entries some victim has, and of every key  *)
(* that some victim has.                                                   *)
(***************************************************************************)
LEMMA AtType ==
  ASSUME TypeOK, NEW l \in Level, NEW j \in 0..MaxSealed[l]-1
  PROVE  At(l, j) \in Segment
<1>1. head[l] \in 0..MaxSealed[l]-1
  BY DEF TypeOK
<1>2. RingAdd(l, head[l], j) \in 0..MaxSealed[l]-1
  BY <1>1, Sizes, RingAddType
<1> QED
  BY <1>2 DEF At, TypeOK

LEMMA MergeOf ==
  ASSUME TypeOK, NEW l \in 0..2, NEW k \in Key
  PROVE  /\ HoldersIn(l, k) = {} => Merge(l)[k] = NoLba
         /\ HoldersIn(l, k) # {} =>
              \E j \in HoldersIn(l, k) :
                /\ \A i \in HoldersIn(l, k) : i <= j
                /\ Merge(l)[k] = At(l, j).entries[k]
<1> DEFINE S == HoldersIn(l, k)
           young == CHOOSE j \in S : \A i \in S : i <= j
<1>1. Merge(l)[k] = IF S = {} THEN NoLba ELSE At(l, young).entries[k]
  BY DEF Merge
<1>2. CASE S # {}
  <2>1. NumVictimsOf(l) - 1 \in Nat
    BY Sizes
  <2>2. S \in SUBSET (0..NumVictimsOf(l)-1)
    BY DEF HoldersIn
  <2>3. \E j \in S : \A i \in S : i <= j
    <3> HIDE DEF S
    <3> QED
      BY <1>2, <2>1, <2>2, LargestExists
  <2>4. young \in S /\ \A i \in S : i <= young
    BY <2>3
  <2> QED
    BY <1>1, <1>2, <2>4
<1> QED
  BY <1>1, <1>2

LEMMA MergeType ==
  ASSUME TypeOK, NEW l \in 0..2
  PROVE  Merge(l) \in Entries
<1>1. ASSUME NEW k \in Key PROVE Merge(l)[k] \in Nat \cup {NoLba}
  <2>1. CASE HoldersIn(l, k) = {}
    BY <2>1, MergeOf
  <2>2. CASE HoldersIn(l, k) # {}
    <3>1. PICK j \in HoldersIn(l, k) : Merge(l)[k] = At(l, j).entries[k]
      BY <2>2, MergeOf
    <3>2. l \in Level /\ j \in 0..MaxSealed[l]-1
      BY Sizes DEF HoldersIn
    <3>3. At(l, j) \in Segment
      BY <3>2, AtType
    <3> QED
      BY <3>1, <3>3 DEF Segment, Entries
  <2> QED
    BY <2>1, <2>2
<1>2. Merge(l) = [k \in Key |-> Merge(l)[k]]
  BY DEF Merge
<1> QED
  BY <1>1, <1>2 DEF Entries

LEMMA MergeKeepsKeys ==
  ASSUME TypeOK, NEW l \in 0..2, NEW j \in 0..NumVictimsOf(l)-1
  PROVE  KeysOf(At(l, j).entries) \subseteq KeysOf(Merge(l))
<1> SUFFICES ASSUME NEW k \in KeysOf(At(l, j).entries)
             PROVE  k \in KeysOf(Merge(l))
  OBVIOUS
<1>1. k \in Key /\ j \in HoldersIn(l, k)
  BY DEF KeysOf, HoldersIn
<1>2. PICK i \in HoldersIn(l, k) : Merge(l)[k] = At(l, i).entries[k]
  BY <1>1, MergeOf
<1>3. Merge(l)[k] # NoLba
  BY <1>2 DEF HoldersIn
<1> QED
  BY <1>1, <1>3 DEF KeysOf

(***************************************************************************)
(* A compaction takes its victims off the ring and leaves the others.      *)
(***************************************************************************)
LEMMA ClearVictimsType ==
  ASSUME TypeOK, NEW l \in 0..2
  PROVE  /\ SlotsType(ClearVictims(l))
         /\ \A m \in Level \ {l} : ClearVictims(l)[m] = slots[m]
<1>1. /\ DOMAIN slots = Level
      /\ \A m \in Level : slots[m] \in [0..MaxSealed[m]-1 -> Segment]
      /\ l \in Level
  BY Sizes DEF TypeOK
<1> QED
  BY <1>1, ClearedType DEF ClearVictims, SlotsType

LEMMA VictimsLeaveRing ==
  ASSUME TypeOK, NEW l \in 0..2,
         NumVictimsOf(l) <= level_count[l], level_count[l] <= Threshold(l),
         tail[l] = RingAdd(l, head[l], level_count[l]),
         \A j \in Visited(l) : IsLive(At(l, j)),
         head'[l] = RingAdd(l, head[l], NumVictimsOf(l)),
         level_count'[l] = level_count[l] - NumVictimsOf(l),
         tail'[l] = tail[l],
         slots'[l] = ClearVictims(l)[l]
  PROVE  /\ tail'[l] = RingAdd(l, head'[l], level_count'[l])
         /\ \A j \in Visited(l)' : IsLive(At(l, j)')
<1> DEFINE n == NumVictimsOf(l)
<1>1. l \in Level /\ MaxSealed[l] \in Nat /\ n \in Nat /\ n <= level_count[l]
  BY Sizes
<1>2. level_count[l] \in Nat /\ head[l] \in 0..MaxSealed[l]-1
  BY <1>1 DEF TypeOK
<1>3. level_count[l] < MaxSealed[l]
  BY <1>1, <1>2, Sizes
<1> HIDE DEF n
<1>4. tail'[l] = RingAdd(l, head'[l], level_count'[l])
  <2>1. level_count'[l] = level_count[l] - n /\ head'[l] = RingAdd(l, head[l], n)
    BY DEF n
  <2> QED
    BY <2>1, <1>1, <1>2, <1>3, RingAddAdd
<1>5. ASSUME NEW j \in Visited(l)' PROVE IsLive(At(l, j)')
  <2>1. j \in 0..MaxSealed[l]-1 /\ j + n < level_count[l]
    BY <1>1, <1>2 DEF Visited, n
  <2>2. At(l, j)' = slots'[l][RingAdd(l, head'[l], j)]
    BY DEF At, RingAdd
  <2>3. RingAdd(l, head'[l], j) = RingAdd(l, head[l], n + j)
    BY <2>1, <1>1, <1>2, <1>3, RingAddAdd DEF n
  <2>4. n + j \in 0..MaxSealed[l]-1 /\ n + j \in Visited(l)
    BY <2>1, <1>1, <1>2, <1>3 DEF Visited
  <2>5. RingAdd(l, head[l], n + j) \in 0..MaxSealed[l]-1
    BY <2>4, <1>1, <1>2, RingAddType
  <2>6. \A i \in 0..n-1 : RingAdd(l, head[l], i) # RingAdd(l, head[l], n + j)
    BY <2>1, <2>4, <1>1, <1>2, <1>3, RingAddInjective
  <2>7. slots'[l][RingAdd(l, head[l], n + j)] = slots[l][RingAdd(l, head[l], n + j)]
    <3>1. slots[l] \in [0..MaxSealed[l]-1 -> Segment] /\ l \in DOMAIN slots
      BY <1>1 DEF TypeOK
    <3> QED
      BY <3>1, <2>5, <2>6 DEF ClearVictims, n
  <2>8. At(l, j)' = At(l, n + j)
    BY <2>2, <2>3, <2>7 DEF At
  <2> QED
    BY <2>4, <2>8
<1> QED
  BY <1>4, <1>5

(***************************************************************************)
(* One lemma per action.                                                   *)
(***************************************************************************)
LEMMA KvPutStep ==
  ASSUME IInv, NEW k \in Key, KvPut(k)
  PROVE  IInv'
<1> USE DEF IInv
<1>1. /\ compacting' = TRUE /\ head' = head
      /\ write_pointer_lba' \in 0..MaxPut
      /\ write_pointer_lba \in Nat
  <2>1. /\ compacting' = TRUE /\ head' = head
        /\ write_pointer_lba' = write_pointer_lba + 1
        /\ write_pointer_lba < MaxPut
    BY DEF KvPut, Put
  <2>2. write_pointer_lba \in 0..MaxPut /\ MaxPut \in Nat
    BY ConstantsAssumption DEF TypeOK
  <2> HIDE DEF IInv
  <2> QED
    BY <2>1, <2>2
<1>2. CASE PutWithoutSeal(k)
  <2>1. growing' \in Entries
    BY <1>1, <1>2 DEF PutWithoutSeal, TypeOK, Entries
  <2>2. UNCHANGED <<slots, level_count, tail, reverse_lpn, mapped>>
    BY <1>2 DEF PutWithoutSeal
  <2>3. TypeOK'
    BY <1>1, <2>1, <2>2 DEF TypeOK
  <2>4. RingInv'
    BY <1>1, <2>2 DEF RingInv, RingAdd, Threshold
  <2>5. SlotsLive'
    BY <1>1, <2>2 DEF SlotsLive, Visited, At, RingAdd, IsLive, KeysOf
  <2> QED
    BY <2>3, <2>4, <2>5
<1>3. CASE PutAfterSeal(k)
  <2>1. /\ AppendSegment(0, growing, slots)
        /\ level_count' = [level_count EXCEPT ![0] = @ + 1]
        /\ mapped' = mapped \cup NewPages(growing)
        /\ growing' = [NoEntries EXCEPT ![k] = write_pointer_lba]
    BY <1>3 DEF PutAfterSeal, CompactGrowingSegment
  <2>2. growing \in Entries /\ SlotsType(slots) /\ 0 \in 0..2 /\ 0 \in Level
    BY DEF TypeOK, SlotsType, Level
  <2>3. KeysOf(growing) # {}
    BY <1>3, FS_EmptySet, ConstantsAssumption DEF PutAfterSeal, Full
  <2>4. /\ SlotsType(slots')
        /\ reverse_lpn' \in Int
        /\ \A m \in Level \ {0} : slots'[m] = slots[m]
        /\ tail' \in [Level -> Nat]
        /\ \A m \in Level : tail'[m] \in 0..MaxSealed[m]-1
        /\ tail' = [tail EXCEPT ![0] = RingAdd(0, tail[0], 1)]
    BY <2>1, <2>2, AppendStep
  <2>5. growing' \in Entries
    BY <2>1, <1>1 DEF NoEntries, Entries
  <2>6. level_count' \in [Level -> Nat] /\ level_count \in [Level -> Nat]
    BY <2>1, <2>2 DEF TypeOK
  <2>7. mapped' \subseteq Int
    <3>1. NewPages(growing) \subseteq Int
      BY DEF NewPages
    <3> QED
      BY <2>1, <3>1 DEF TypeOK
  <2>8. TypeOK'
    BY <1>1, <2>4, <2>5, <2>6, <2>7 DEF TypeOK, SlotsType
  <2>9. level_count'[0] = level_count[0] + 1 /\ \A m \in 1..2 : level_count'[m] = level_count[m]
    BY <2>1, <2>6 DEF Level
  <2>10. /\ level_count[0] < Threshold(0)
         /\ tail[0] = RingAdd(0, head[0], level_count[0])
    BY DEF KvPut, RingInv
  <2>11. /\ tail'[0] = RingAdd(0, head'[0], level_count'[0])
         /\ \A j \in Visited(0)' : IsLive(At(0, j)')
    BY <1>1, <2>1, <2>2, <2>3, <2>9, <2>10, AppendKeepsRing DEF SlotsLive
  <2>12. \A m \in 1..2 : /\ m \in 0..2 /\ m \in Level \ {0}
                          /\ tail'[m] = tail[m] /\ slots'[m] = slots[m]
                          /\ head'[m] = head[m] /\ level_count'[m] = level_count[m]
    <3>1. tail \in [Level -> Nat]
      BY DEF TypeOK
    <3> HIDE DEF IInv
    <3>2. \A m \in 1..2 : m \in 0..2 /\ m \in Level \ {0}
      BY DEF Level
    <3>3. \A m \in Level \ {0} : tail'[m] = tail[m]
      BY <2>4, <3>1
    <3> QED
      BY <1>1, <2>4, <2>9, <3>2, <3>3
  <2>13. RingInv'
    <3>1. level_count'[0] <= Threshold(0)
      BY <2>9, <2>10, <2>2, <2>6, Sizes
    <3>2. \A m \in 1..2 : /\ level_count'[m] <= Threshold(m)
                           /\ tail'[m] = RingAdd(m, head'[m], level_count'[m])
      BY <2>12 DEF RingInv
    <3>3. \A m \in 0..2 : m = 0 \/ m \in 1..2
      OBVIOUS
    <3>4. \A m \in 0..2 : Threshold(m)' = Threshold(m)
      BY DEF Threshold
    <3>5. \A m \in 0..2 : /\ level_count'[m] <= Threshold(m)
                           /\ tail'[m] = RingAdd(m, head'[m], level_count'[m])
      BY <3>1, <3>2, <3>3, <2>11
    <3> QED
      BY <3>5, <1>1 DEF RingInv, RingAdd, Threshold
  <2>14. SlotsLive'
    <3>1. ASSUME NEW m \in 1..2, NEW j \in Visited(m)' PROVE IsLive(At(m, j)')
      <4>1. j \in Visited(m)
        BY <2>12 DEF Visited
      <4>2. At(m, j)' = At(m, j)
        BY <2>12 DEF At, RingAdd
      <4> QED
        BY <2>12, <4>1, <4>2 DEF SlotsLive
    <3>2. \A m \in 0..2 : m = 0 \/ m \in 1..2
      OBVIOUS
    <3>3. ASSUME NEW m \in 0..2, NEW j \in Visited(m)' PROVE IsLive(At(m, j)')
      BY <3>1, <3>2, <2>11
    <3> QED
      BY <3>3 DEF SlotsLive, IsLive, KeysOf
  <2> QED
    BY <2>8, <2>13, <2>14
<1> QED
  BY <1>2, <1>3 DEF KvPut

\* The level that is compacted is at its threshold, those below it are not.
LEMMA VictimLevel ==
  ASSUME TypeOK, RingInv, NEW l \in 0..2, IsVictimLevel(l)
  PROVE  /\ NumVictimsOf(l) <= level_count[l]
         /\ l < 2 => level_count[l + 1] < Threshold(l + 1)
<1>1. l \in Level /\ level_count[l] \in Nat /\ level_count[l] >= Threshold(l)
  BY Sizes DEF IsVictimLevel, NeedsCompaction, TypeOK
<1>2. NumVictimsOf(l) <= level_count[l]
  BY <1>1, Sizes
<1>3. ASSUME l < 2 PROVE level_count[l + 1] < Threshold(l + 1)
  <2>1. l + 1 \in 0..2 /\ l + 1 > l
    BY <1>3
  <2>2. ~NeedsCompaction(l + 1)
    BY <2>1 DEF IsVictimLevel
  <2>3. level_count[l + 1] \in Nat /\ Threshold(l + 1) \in Nat /\ Threshold(l + 1) >= 2
    BY <2>1, Sizes DEF TypeOK
  <2> QED
    BY <2>2, <2>3 DEF NeedsCompaction
<1> QED
  BY <1>2, <1>3

LEMMA DoCompactionStep ==
  ASSUME IInv, NEW l \in 0..2, DoCompaction(l)
  PROVE  IInv'
<1> USE DEF IInv
<1> DEFINE n == NumVictimsOf(l)
           e == Merge(l)
<1>1. /\ compacting /\ IsVictimLevel(l)
      /\ AppendSegment(l + 1, e, ClearVictims(l))
      /\ level_count' = [level_count EXCEPT ![l] = @ - n, ![l + 1] = @ + 1]
      /\ head' = [head EXCEPT ![l] = RingAdd(l, @, n)]
      /\ mapped' = (mapped \cup NewPages(e)) \ UNION {Invalidated(v) : v \in Victims(l)}
      /\ UNCHANGED <<growing, write_pointer_lba, compacting>>
  BY DEF DoCompaction
<1>2. /\ n <= level_count[l]
      /\ l < 2 => level_count[l + 1] < Threshold(l + 1)
  BY <1>1, VictimLevel
<1>3. /\ l \in Level /\ l + 1 \in Level /\ n \in 2..Threshold(l)
      /\ n \in 0..MaxSealed[l] /\ l # l + 1
  BY Sizes
<1>4. e \in Entries /\ KeysOf(e) # {}
  <2>1. e \in Entries
    BY MergeType
  <2>2. 0 \in 0..n-1 /\ 0 \in Visited(l)
    <3>1. level_count[l] \in Nat /\ MaxSealed[l] \in Nat \ {0}
      BY <1>3, Sizes DEF TypeOK
    <3>2. Threshold(l) \in Nat
      BY Sizes
    <3> QED
      BY <1>2, <1>3, <3>1, <3>2 DEF Visited
  <2>3. KeysOf(At(l, 0).entries) # {}
    BY <2>2 DEF SlotsLive, IsLive
  <2>4. KeysOf(At(l, 0).entries) \subseteq KeysOf(e)
    BY <2>2, MergeKeepsKeys
  <2> QED
    BY <2>1, <2>3, <2>4
<1>5. /\ SlotsType(ClearVictims(l))
      /\ \A m \in Level \ {l} : ClearVictims(l)[m] = slots[m]
  BY ClearVictimsType
<1> HIDE DEF e
<1>6. /\ SlotsType(slots')
      /\ reverse_lpn' \in Int
      /\ \A m \in Level \ {l + 1} : slots'[m] = ClearVictims(l)[m]
      /\ tail' \in [Level -> Nat]
      /\ \A m \in Level : tail'[m] \in 0..MaxSealed[m]-1
      /\ tail' = [tail EXCEPT ![l + 1] = RingAdd(l + 1, tail[l + 1], 1)]
  BY <1>1, <1>3, <1>4, <1>5, AppendStep
<1>7. /\ level_count \in [Level -> Nat] /\ head \in [Level -> Nat] /\ tail \in [Level -> Nat]
      /\ head[l] \in 0..MaxSealed[l]-1
  BY <1>3 DEF TypeOK
<1>8. RingAdd(l, head[l], n) \in 0..MaxSealed[l]-1
  BY <1>3, <1>7, RingAddType
<1> HIDE DEF n
<1>9. /\ level_count'[l] = level_count[l] - n
      /\ level_count'[l + 1] = level_count[l + 1] + 1
      /\ \A m \in Level \ {l, l + 1} : level_count'[m] = level_count[m]
      /\ level_count[l] - n \in Nat
      /\ level_count' \in [Level -> Nat]
  BY <1>1, <1>2, <1>3, <1>7
<1>10. /\ head'[l] = RingAdd(l, head[l], n)
       /\ \A m \in Level \ {l} : head'[m] = head[m]
       /\ head' \in [Level -> Nat]
       /\ \A m \in Level : head'[m] \in 0..MaxSealed[m]-1
  <2>1. \A m \in Level : head[m] \in 0..MaxSealed[m]-1
    BY DEF TypeOK
  <2>2. RingAdd(l, head[l], n) \in Nat
    BY <1>8, Sizes, <1>3
  <2> QED
    BY <1>1, <1>3, <1>7, <1>8, <2>1, <2>2
<1>11. TypeOK'
  <2>1. NewPages(e) \subseteq Int
    BY DEF NewPages
  <2>2. mapped' \subseteq Int
    BY <1>1, <2>1 DEF TypeOK
  <2> QED
    BY <1>1, <1>6, <1>9, <1>10, <2>2 DEF TypeOK, SlotsType
<1>12. /\ tail'[l] = RingAdd(l, head'[l], level_count'[l])
       /\ \A j \in Visited(l)' : IsLive(At(l, j)')
  <2>1. tail'[l] = tail[l] /\ slots'[l] = ClearVictims(l)[l]
    BY <1>3, <1>6, <1>7
  <2> QED
    BY <2>1, <1>2, <1>9, <1>10, VictimsLeaveRing DEF RingInv, SlotsLive, n
<1>13. ASSUME l < 2
       PROVE  /\ tail'[l + 1] = RingAdd(l + 1, head'[l + 1], level_count'[l + 1])
              /\ \A j \in Visited(l + 1)' : IsLive(At(l + 1, j)')
  <2>1. l + 1 \in 0..2
    BY <1>13
  <2>2. ClearVictims(l)[l + 1] = slots[l + 1] /\ head'[l + 1] = head[l + 1]
    BY <1>3, <1>5, <1>10
  <2>3. level_count[l + 1] < Threshold(l + 1)
    BY <1>2, <1>13
  <2>4. /\ tail[l + 1] = RingAdd(l + 1, head[l + 1], level_count[l + 1])
        /\ \A j \in Visited(l + 1) : IsLive(At(l + 1, j))
    BY <2>1 DEF RingInv, SlotsLive
  <2> QED
    BY <2>1, <2>2, <2>3, <2>4, <1>1, <1>4, <1>5, <1>9, AppendKeepsRing
<1>14. ASSUME NEW m \in 0..2, m # l, m # l + 1
       PROVE  /\ tail'[m] = tail[m] /\ slots'[m] = slots[m]
              /\ head'[m] = head[m] /\ level_count'[m] = level_count[m]
  <2>1. m \in Level
    BY Sizes
  <2> QED
    BY <2>1, <1>14, <1>5, <1>6, <1>7, <1>9, <1>10
<1>15. ASSUME NEW m \in 0..2
       PROVE  /\ level_count'[m] <= Threshold(m)
              /\ tail'[m] = RingAdd(m, head'[m], level_count'[m])
              /\ \A j \in Visited(m)' : IsLive(At(m, j)')
  <2>1. CASE m = l
    <3>1. level_count[l] \in Nat /\ level_count[l] <= Threshold(l) /\ Threshold(l) \in Nat
      BY <1>3, <1>7, Sizes DEF RingInv
    <3>2. level_count'[l] <= Threshold(l)
      BY <3>1, <1>9, <1>3, Sizes
    <3> QED
      BY <2>1, <3>2, <1>12
  <2>2. CASE m = l + 1
    <3>1. level_count[m] \in Nat /\ Threshold(m) \in Nat /\ level_count[m] < Threshold(m)
      BY <2>2, <1>2, <1>7, Sizes
    <3>2. level_count'[m] <= Threshold(m)
      BY <3>1, <2>2, <1>9
    <3> QED
      BY <2>2, <3>2, <1>13
  <2>3. CASE m # l /\ m # l + 1
    <3>1. /\ tail'[m] = tail[m] /\ slots'[m] = slots[m]
          /\ head'[m] = head[m] /\ level_count'[m] = level_count[m]
      BY <2>3, <1>14
    <3>2. /\ level_count[m] <= Threshold(m)
          /\ tail[m] = RingAdd(m, head[m], level_count[m])
          /\ \A j \in Visited(m) : IsLive(At(m, j))
      BY DEF RingInv, SlotsLive
    <3>3. ASSUME NEW j \in Visited(m)' PROVE IsLive(At(m, j)')
      <4>1. j \in Visited(m)
        BY <3>1 DEF Visited
      <4>2. At(m, j)' = At(m, j)
        BY <3>1 DEF At, RingAdd
      <4> QED
        BY <3>2, <4>1, <4>2
    <3> QED
      BY <3>1, <3>2, <3>3
  <2> QED
    BY <2>1, <2>2, <2>3
<1>16. RingInv'
  BY <1>1, <1>15 DEF RingInv, RingAdd, Threshold
<1>17. SlotsLive'
  BY <1>15 DEF SlotsLive, IsLive, KeysOf
<1> QED
  BY <1>11, <1>16, <1>17

LEMMA CompactionDoneStep ==
  ASSUME IInv, CompactionDone
  PROVE  IInv'
<1> USE DEF IInv
<1>1. /\ compacting' = FALSE
      /\ \A l \in 0..2 : ~NeedsCompaction(l)
      /\ UNCHANGED <<growing, write_pointer_lba, slots, level_count, head, tail,
                     reverse_lpn, mapped>>
  BY DEF CompactionDone
<1>2. TypeOK'
  BY <1>1 DEF TypeOK
<1>3. RingInv'
  <2>1. \A l \in 0..2 : level_count[l] < Threshold(l)
    <3> SUFFICES ASSUME NEW l \in 0..2 PROVE level_count[l] < Threshold(l)
      OBVIOUS
    <3>1. level_count[l] \in Nat /\ Threshold(l) \in Nat /\ Threshold(l) >= 2
      BY Sizes DEF TypeOK
    <3> QED
      BY <1>1, <3>1 DEF NeedsCompaction
  <2> QED
    BY <1>1, <2>1 DEF RingInv, RingAdd, Threshold
<1>4. SlotsLive'
  BY <1>1 DEF SlotsLive, Visited, At, RingAdd, IsLive, KeysOf
<1> QED
  BY <1>2, <1>3, <1>4

\* The invariant depends on no other variable.
LEMMA SegmentFrame ==
  ASSUME IInv, UNCHANGED segVars
  PROVE  IInv'
<1>1. UNCHANGED <<growing, write_pointer_lba, slots, level_count, head, tail,
                  reverse_lpn, mapped, compacting>>
  BY DEF segVars
<1>2. TypeOK'
  BY <1>1 DEF IInv, TypeOK
<1>3. RingInv'
  BY <1>1 DEF IInv, RingInv, RingAdd, Threshold
<1>4. SlotsLive'
  <2>1. SlotsLive
    BY DEF IInv
  <2> QED
    BY <1>1, <2>1 DEF SlotsLive, Visited, At, RingAdd, IsLive, KeysOf
<1> QED
  BY <1>2, <1>3, <1>4 DEF IInv

(***************************************************************************)
(* The inductive invariant holds of every behaviour.                       *)
(***************************************************************************)
THEOREM Invariance == Spec => []IInv
<1>1. IInv /\ [Next]_segVars => IInv'
  <2> SUFFICES ASSUME IInv, [Next]_segVars PROVE IInv'
    OBVIOUS
  <2>1. ASSUME NEW k \in Key, KvPut(k) PROVE IInv'
    BY <2>1, KvPutStep
  <2>2. ASSUME NEW l \in 0..2, DoCompaction(l) PROVE IInv'
    BY <2>2, DoCompactionStep
  <2>3. CASE CompactionDone
    BY <2>3, CompactionDoneStep
  <2>4. CASE UNCHANGED segVars
    BY <2>4, SegmentFrame
  <2> QED
    BY <2>1, <2>2, <2>3, <2>4 DEF Next, CompactionLoop, OtherCommand
<1> QED
  BY <1>1, InitIInv, PTL DEF Spec

(***************************************************************************)
(* The state of the write path always has the type of the source's.        *)
(***************************************************************************)
THEOREM TypeCorrect == Spec => []TypeOK
<1>1. IInv => TypeOK
  BY DEF IInv
<1> QED
  BY <1>1, Invariance, PTL

(***************************************************************************)
(* Head, tail and count of levels 0..2 always describe one ring, which is  *)
(* below its threshold outside the compaction loop: no number of puts      *)
(* overflows it.                                                           *)
(***************************************************************************)
THEOREM RingsCorrect == Spec => []RingInv
<1>1. IInv => RingInv
  BY DEF IInv
<1> QED
  BY <1>1, Invariance, PTL

\* Every victim of a compaction is a listed segment, and so a sealed one.
LEMMA AssertsFromIInv == IInv => CompactionAsserts
<1> SUFFICES ASSUME IInv, NEW l \in 0..2, IsVictimLevel(l)
             PROVE  /\ NumVictimsOf(l) <= level_count[l]
                    /\ \A v \in Victims(l) : IsLive(v)
  BY DEF CompactionAsserts, IsLive
<1>1. NumVictimsOf(l) <= level_count[l]
  BY VictimLevel DEF IInv
<1>2. \A j \in 0..NumVictimsOf(l)-1 : j \in Visited(l)
  <2>1. /\ level_count[l] \in Nat /\ MaxSealed[l] \in Nat
        /\ NumVictimsOf(l) \in 2..Threshold(l) /\ Threshold(l) < MaxSealed[l]
        /\ Threshold(l) \in Nat
    BY Sizes DEF IInv, TypeOK
  <2> QED
    BY <1>1, <2>1 DEF Visited
<1> QED
  BY <1>1, <1>2 DEF Victims, SlotsLive, IInv

(***************************************************************************)
(* The assertions of DoCompaction and DoCompactionImpl never fail.         *)
(***************************************************************************)
THEOREM AssertsHold == Spec => []CompactionAsserts
BY AssertsFromIInv, Invariance, PTL

-----------------------------------------------------------------------------
(***************************************************************************)
(* The main loop and the index build.                                      *)
(***************************************************************************)
\* The commands that touch none of the three variables BuildFlags relates
\* leave it true.
LEMMA BuildFlagsFrame ==
  ASSUME BuildFlags,
         UNCHANGED <<isIndexBuilding, build_paused, target, resume>>
  PROVE  BuildFlags'
BY DEF BuildFlags

\* The handlers of KV_PUT, VECTOR_SEARCH and of a pass without a command, the
\* compaction loop, and a pass that takes no index step, change no flag.
LEMMA OtherStepsFrame ==
  ASSUME NEW k, BuilderPut(k) \/ BuilderCompaction \/ VectorSearch
                  \/ NoCommand \/ NoIndexStep
  PROVE  UNCHANGED <<isIndexBuilding, build_paused, target, resume, indexes>>
BY DEF BuilderPut, BuilderCompaction, VectorSearch, NoCommand, NoIndexStep

\* The step that starts a build keeps the flags consistent.
LEMMA VectorBuildStep ==
  ASSUME BuildFlags, VectorBuild
  PROVE  BuildFlags'
<1>1. /\ isIndexBuilding' = TRUE
      /\ target' = IF isIndexBuilding THEN target ELSE NoTarget
      /\ UNCHANGED <<build_paused, resume>>
  BY DEF VectorBuild
<1>2. CASE isIndexBuilding
  BY <1>1, <1>2 DEF BuildFlags
<1>3. CASE ~isIndexBuilding
  <2>1. target = NoTarget /\ resume = 0
    BY <1>3 DEF BuildFlags
  <2> QED
    BY <1>1, <2>1 DEF BuildFlags
<1> QED
  BY <1>2, <1>3

\* So do pausing and resuming.
LEMMA PauseResumeStep ==
  ASSUME BuildFlags, PauseBuild \/ ResumeBuild
  PROVE  BuildFlags'
<1>1. CASE PauseBuild
  BY <1>1 DEF PauseBuild, BuildFlags
<1>2. CASE ResumeBuild
  BY <1>2 DEF ResumeBuild, BuildFlags
<1> QED
  BY <1>1, <1>2

\* So does each of the three index steps.
LEMMA IndexStepKeepsFlags ==
  ASSUME BuildFlags,
         \/ AssignNextSsToIndex
         \/ \E r \in 0..GarbageBound : Garbage(r)
         \/ BuildIncrement
  PROVE  BuildFlags'
<1>1. CASE AssignNextSsToIndex
  <2>1. target = NoTarget /\ resume = 0 /\ isIndexBuilding /\ ~build_paused
    BY <1>1 DEF AssignNextSsToIndex, IndexStep, BuildFlags
  <2>2. UNCHANGED build_paused /\ resume' = 0
    BY <1>1, <2>1 DEF AssignNextSsToIndex, EndBuild
  <2>3. UNCHANGED isIndexBuilding \/ target' = NoTarget
    BY <1>1 DEF AssignNextSsToIndex, EndBuild
  <2> QED
    BY <2>1, <2>2, <2>3 DEF BuildFlags
<1>2. ASSUME NEW r \in 0..GarbageBound, Garbage(r) PROVE BuildFlags'
  <2>1. /\ target # NoTarget
        /\ resume' = r
        /\ target' = IF r = 0 THEN NoTarget ELSE target
        /\ isIndexBuilding
        /\ UNCHANGED <<isIndexBuilding, build_paused>>
    BY <1>2 DEF Garbage, IndexStep
  <2> QED
    BY <2>1 DEF BuildFlags
<1>3. CASE BuildIncrement
  <2>1. /\ target # NoTarget
        /\ isIndexBuilding
        /\ UNCHANGED <<isIndexBuilding, build_paused>>
        /\ resume' = NextPoint
        /\ target' = IF Completes THEN NoTarget ELSE target
    BY <1>3 DEF BuildIncrement, IndexStep
  <2> QED
    BY <2>1 DEF BuildFlags, NextPoint
<1> QED
  BY <1>1, <1>2, <1>3

(***************************************************************************)
(* The flags that the build, pause and resume handlers and the main loop   *)
(* keep agree in every state: a finished build leaves no pause, no target  *)
(* and no resume point behind, whatever ran in between, the value that     *)
(* tryIndexBuildIncremental forgets to return included.                    *)
(***************************************************************************)
THEOREM FlagsAgree == BuilderSpec => []BuildFlags
<1>1. BuilderInit => BuildFlags
  BY DEF BuilderInit, BuildFlags
<1>2. BuildFlags /\ [BuilderNext]_vars => BuildFlags'
  <2> SUFFICES ASSUME BuildFlags, [BuilderNext]_vars PROVE BuildFlags'
    OBVIOUS
  <2>1. ASSUME NEW k \in Key, BuilderPut(k) PROVE BuildFlags'
    BY <2>1, OtherStepsFrame, BuildFlagsFrame
  <2>2. CASE VectorBuild
    BY <2>2, VectorBuildStep
  <2>3. CASE PauseBuild \/ ResumeBuild
    BY <2>3, PauseResumeStep
  <2>4. CASE VectorSearch \/ NoCommand \/ BuilderCompaction \/ NoIndexStep
    BY <2>4, OtherStepsFrame, BuildFlagsFrame
  <2>5. CASE \/ AssignNextSsToIndex
             \/ \E r \in 0..GarbageBound : Garbage(r)
             \/ BuildIncrement
    BY <2>5, IndexStepKeepsFlags
  <2>6. CASE UNCHANGED vars
    BY <2>6, BuildFlagsFrame DEF vars, buildVars
  <2> QED
    BY <2>1, <2>2, <2>3, <2>4, <2>5, <2>6 DEF BuilderNext, Command, IndexTurn
<1> QED
  BY <1>1, <1>2, PTL DEF BuilderSpec

(***************************************************************************)
(* A paused build stands still: a step that starts and ends paused changes *)
(* neither its target, nor its resume point, nor an index written so far.  *)
(* The VECTOR_BUILD handler clears the target, but only when no build is   *)
(* running, and by FlagsAgree a paused one is.                             *)
(***************************************************************************)
THEOREM PauseStandsStill == BuilderSpec => PauseHolds
<1>1. BuildFlags /\ [BuilderNext]_vars =>
        [build_paused /\ build_paused' => UNCHANGED <<target, resume, indexes>>]_vars
  <2> SUFFICES ASSUME BuildFlags, [BuilderNext]_vars, build_paused
               PROVE  UNCHANGED <<target, resume, indexes>>
    BY DEF vars, buildVars
  <2>1. isIndexBuilding
    BY DEF BuildFlags
  <2>2. ASSUME NEW k \in Key, BuilderPut(k)
        PROVE  UNCHANGED <<target, resume, indexes>>
    BY <2>2, OtherStepsFrame
  <2>3. CASE VectorBuild
    BY <2>1, <2>3 DEF VectorBuild
  <2>4. CASE PauseBuild \/ ResumeBuild
    BY <2>4 DEF PauseBuild, ResumeBuild
  <2>5. CASE VectorSearch \/ NoCommand \/ BuilderCompaction \/ NoIndexStep
    BY <2>5, OtherStepsFrame
  <2>6. CASE \/ AssignNextSsToIndex
             \/ \E r \in 0..GarbageBound : Garbage(r)
             \/ BuildIncrement
    BY <2>6 DEF AssignNextSsToIndex, Garbage, BuildIncrement, IndexStep
  <2>7. CASE UNCHANGED vars
    BY <2>7 DEF vars, buildVars
  <2> QED
    BY <2>2, <2>3, <2>4, <2>5, <2>6, <2>7 DEF BuilderNext, Command, IndexTurn
<1> QED
  BY <1>1, FlagsAgree, PTL DEF BuilderSpec, PauseHolds

(***************************************************************************)
(* The write path under the build.  An index step writes one slot, that of *)
(* its target, and takes pages of the reverse log; it needs the target to  *)
(* be a slot of the rings, which is the strengthening of IInv below.       *)
(***************************************************************************)
TargetType ==
  target = NoTarget \/
    (target[1] \in IndexedLevel /\ target[2] \in 0..MaxSealed[target[1]]-1)

BuilderIInv == IInv /\ TargetType

\* A nonempty set of listed segments has an earliest one.
LEMMA EarliestExists ==
  ASSUME NEW S \in SUBSET Listed, S # {}
  PROVE  /\ Earliest(S) \in S
         /\ \A q \in S : Earliest(S) = q \/ Before(Earliest(S), q)
<1>1. \A p \in S : /\ p[1] \in IndexedLevel /\ p[2] \in Visited(p[1])
                   /\ p[1] \in Nat /\ p[2] \in Nat /\ p = <<p[1], p[2]>>
  BY DEF Listed, Visited, IndexedLevel
<1> DEFINE Ls == {p[1] : p \in S}
<1>2. PICK l \in Ls : \A m \in Ls : l <= m
  <2>1. Ls \in SUBSET Nat /\ Ls # {}
    BY <1>1
  <2> HIDE DEF Ls
  <2> QED
    BY <2>1, SmallestExists
<1> DEFINE Js == {p[2] : p \in {q \in S : q[1] = l}}
<1>3. PICK j \in Js : \A i \in Js : j <= i
  <2>1. Js \in SUBSET Nat
    BY <1>1
  <2>2. Js # {}
    BY <1>2
  <2> HIDE DEF Js
  <2> QED
    BY <2>1, <2>2, SmallestExists
<1>4. PICK p \in S : p[1] = l /\ p[2] = j
  BY <1>3
<1>5. \A q \in S : p = q \/ Before(p, q)
  <2> SUFFICES ASSUME NEW q \in S PROVE p = q \/ Before(p, q)
    OBVIOUS
  <2>1. l <= q[1] /\ (q[1] = l => j <= q[2])
    BY <1>2, <1>3
  <2>2. /\ p = <<l, j>> /\ q = <<q[1], q[2]>>
        /\ l \in Nat /\ j \in Nat /\ q[1] \in Nat /\ q[2] \in Nat
    BY <1>1, <1>4
  <2> QED
    BY <1>4, <2>1, <2>2 DEF Before
<1> QED
  BY <1>5 DEF Earliest

\* Picking the next segment keeps the target a slot of the rings.
LEMMA AssignTargetType ==
  ASSUME IInv, AssignNextSsToIndex
  PROVE  TargetType'
<1>1. CASE Unindexed = {}
  BY <1>1 DEF AssignNextSsToIndex, EndBuild, TargetType
<1>2. CASE Unindexed # {}
  <2> DEFINE p == Earliest(Unindexed)
  <2>1. p \in Unindexed
    BY <1>2, EarliestExists DEF Unindexed
  <2>2. p[1] \in IndexedLevel /\ p[2] \in Visited(p[1])
    BY <2>1 DEF Unindexed, Listed
  <2>3. p[1] \in Level /\ p[2] \in 0..MaxSealed[p[1]]-1
    BY <2>2 DEF Visited, IndexedLevel, Level
  <2>4. head[p[1]] \in 0..MaxSealed[p[1]]-1
    BY <2>3 DEF IInv, TypeOK
  <2>5. RingAdd(p[1], head[p[1]], p[2]) \in 0..MaxSealed[p[1]]-1
    BY <2>3, <2>4, RingAddType, Sizes
  <2>6. target' = <<p[1], RingAdd(p[1], head[p[1]], p[2])>>
    BY <1>2 DEF AssignNextSsToIndex
  <2> HIDE DEF p
  <2> QED
    BY <2>2, <2>5, <2>6 DEF TargetType
<1> QED
  BY <1>1, <1>2

\* An index step changes no segment but for its vector index.
LEMMA BuildIncrementStep ==
  ASSUME BuilderIInv, BuildIncrement
  PROVE  IInv'
<1> USE DEF BuilderIInv
<1>1. /\ target[1] \in Level /\ target[1] \in IndexedLevel
      /\ target[2] \in 0..MaxSealed[target[1]]-1
  BY DEF BuildIncrement, TargetType, IndexedLevel, Level
<1>2. Target \in Segment
  BY <1>1 DEF Target, IInv, TypeOK
<1>3. reverse_lpn' \in Int
  <2>1. TotalEntry(Target) \in Nat
    BY <1>2, KeysFinite DEF TotalEntry, Segment
  <2>2. NodePages \in Int
    BY <2>1, BuilderAssumption DEF NodePages, PagesFor
  <2>3. IndexPages \in Int
    BY <2>2 DEF IndexPages, HeaderPages
  <2> QED
    BY <2>3 DEF BuildIncrement, IInv, TypeOK
<1>4. mapped' \subseteq Int
  BY DEF BuildIncrement, IInv, TypeOK
<1>5. UNCHANGED <<growing, write_pointer_lba, level_count, head, tail, compacting>>
  BY DEF BuildIncrement
<1> DEFINE s2 == [Target EXCEPT !.vector_index_start_lpn = reverse_lpn']
<1>6. s2 \in Segment /\ s2.entries = Target.entries
      /\ s2.head_lpn = Target.head_lpn /\ s2.tail_lpn = Target.tail_lpn
  BY <1>2, <1>3 DEF Segment, Lpn
<1>7. slots' = slots \/ slots' = [slots EXCEPT ![target[1]][target[2]] = s2]
  <2>1. slots' = slots \/ slots' = [slots EXCEPT
          ![target[1]][target[2]].vector_index_start_lpn = reverse_lpn']
    BY DEF BuildIncrement
  <2> QED
    BY <2>1 DEF Target
<1>8. /\ SlotsType(slots')
      /\ \A m \in Level : \A i \in 0..MaxSealed[m]-1 :
           /\ slots'[m][i].entries = slots[m][i].entries
           /\ slots'[m][i].head_lpn = slots[m][i].head_lpn
           /\ slots'[m][i].tail_lpn = slots[m][i].tail_lpn
  <2>1. SlotsType(slots)
    BY DEF SlotsType, IInv, TypeOK
  <2> DEFINE a == target[1]
             b == target[2]
  <2>2. /\ a \in Level /\ b \in 0..MaxSealed[a]-1
        /\ s2 \in Segment /\ s2.entries = slots[a][b].entries
        /\ s2.head_lpn = slots[a][b].head_lpn /\ s2.tail_lpn = slots[a][b].tail_lpn
        /\ slots' = slots \/ slots' = [slots EXCEPT ![a][b] = s2]
    BY <1>1, <1>6, <1>7 DEF Target
  <2> HIDE DEF s2, a, b
  <2>3. CASE slots' = slots
    BY <2>1, <2>3 DEF SlotsType
  <2>4. CASE slots' = [slots EXCEPT ![a][b] = s2]
    <3>1. /\ DOMAIN slots' = Level
          /\ \A m \in Level : m # a => slots'[m] = slots[m]
          /\ slots'[a] = [slots[a] EXCEPT ![b] = s2]
      BY <2>1, <2>2, <2>4 DEF SlotsType
    <3>2. slots[a] \in [0..MaxSealed[a]-1 -> Segment]
      BY <2>1, <2>2 DEF SlotsType
    <3>3. /\ slots'[a] \in [0..MaxSealed[a]-1 -> Segment]
          /\ slots'[a][b] = s2
          /\ \A i \in 0..MaxSealed[a]-1 : i # b => slots'[a][i] = slots[a][i]
      BY <2>2, <3>1, <3>2
    <3> QED
      BY <2>1, <2>2, <3>1, <3>3 DEF SlotsType
  <2> QED
    BY <2>2, <2>3, <2>4
<1>9. TypeOK'
  BY <1>3, <1>4, <1>5, <1>8 DEF TypeOK, SlotsType, IInv
<1>10. RingInv'
  BY <1>5 DEF RingInv, RingAdd, Threshold, IInv
<1>11. SlotsLive'
  <2> SUFFICES ASSUME NEW l \in 0..2, NEW j \in Visited(l)
               PROVE  IsLive(At(l, j)')
    BY <1>5 DEF SlotsLive, Visited, IsLive, KeysOf
  <2>1. l \in Level /\ j \in 0..MaxSealed[l]-1
    BY DEF Level, Visited
  <2>2. head[l] \in 0..MaxSealed[l]-1
    BY <2>1 DEF IInv, TypeOK
  <2>3. RingAdd(l, head[l], j) \in 0..MaxSealed[l]-1
    BY <2>1, <2>2, RingAddType, Sizes
  <2>4. IsLive(At(l, j))
    BY DEF IInv, SlotsLive
  <2>5. At(l, j)' = slots'[l][RingAdd(l, head[l], j)]
    BY <1>5 DEF At, RingAdd
  <2> QED
    BY <2>1, <2>3, <2>4, <2>5, <1>8 DEF IsLive, KeysOf, At
<1> QED
  BY <1>9, <1>10, <1>11 DEF IInv

\* Every command and every index step keeps the invariant.
LEMMA BuilderStepInv ==
  ASSUME BuilderIInv, [BuilderNext]_vars
  PROVE  BuilderIInv'
<1> SUFFICES IInv' /\ TargetType'
  BY DEF BuilderIInv
<1>0. IInv /\ TargetType
  BY DEF BuilderIInv
<1> USE <1>0
<1>1. ASSUME NEW k \in Key, BuilderPut(k) PROVE IInv' /\ TargetType'
  <2>1. KvPut(k) /\ UNCHANGED target
    BY <1>1 DEF BuilderPut
  <2> QED
    BY <2>1, KvPutStep DEF TargetType
<1>2. CASE BuilderCompaction
  <2>1. CompactionLoop /\ UNCHANGED target
    BY <1>2 DEF BuilderCompaction
  <2>2. IInv'
    BY <2>1, DoCompactionStep, CompactionDoneStep DEF CompactionLoop
  <2> QED
    BY <2>1, <2>2 DEF TargetType
<1>3. CASE VectorBuild
  <2>1. UNCHANGED segVars /\ (target' = target \/ target' = NoTarget)
    BY <1>3 DEF VectorBuild
  <2> QED
    BY <2>1, SegmentFrame DEF TargetType
<1>4. CASE PauseBuild \/ ResumeBuild \/ VectorSearch \/ NoCommand \/ NoIndexStep
  <2>1. UNCHANGED segVars /\ UNCHANGED target
    BY <1>4 DEF PauseBuild, ResumeBuild, VectorSearch, NoCommand, NoIndexStep
  <2> QED
    BY <2>1, SegmentFrame DEF TargetType
<1>5. CASE AssignNextSsToIndex
  <2>1. UNCHANGED segVars
    BY <1>5 DEF AssignNextSsToIndex
  <2> QED
    BY <2>1, <1>5, SegmentFrame, AssignTargetType
<1>6. ASSUME NEW r \in 0..GarbageBound, Garbage(r) PROVE IInv' /\ TargetType'
  <2>1. UNCHANGED segVars /\ (target' = target \/ target' = NoTarget)
    BY <1>6 DEF Garbage
  <2> QED
    BY <2>1, SegmentFrame DEF TargetType
<1>7. CASE BuildIncrement
  <2>1. target' = target \/ target' = NoTarget
    BY <1>7 DEF BuildIncrement
  <2>2. IInv'
    BY <1>7, BuildIncrementStep DEF BuilderIInv
  <2> QED
    BY <2>1, <2>2 DEF TargetType
<1>8. CASE UNCHANGED vars
  <2>1. UNCHANGED segVars /\ UNCHANGED target
    BY <1>8 DEF vars, buildVars
  <2> QED
    BY <2>1, SegmentFrame DEF TargetType
<1> QED
  BY <1>1, <1>2, <1>3, <1>4, <1>5, <1>6, <1>7, <1>8
     DEF BuilderNext, Command, IndexTurn

(***************************************************************************)
(* The inductive invariant of the write path survives the index builder:   *)
(* pausing, resuming, searching and index steps, in any order with puts.   *)
(***************************************************************************)
THEOREM BuilderInvariance == BuilderSpec => []BuilderIInv
<1>1. BuilderInit => BuilderIInv
  BY InitIInv DEF BuilderInit, BuilderIInv, TargetType
<1>2. BuilderIInv /\ [BuilderNext]_vars => BuilderIInv'
  BY BuilderStepInv
<1> QED
  BY <1>1, <1>2, PTL DEF BuilderSpec

(***************************************************************************)
(* The assertions of a compaction hold also when the compaction runs in    *)
(* the middle of a build, whose target may be one of its victims.          *)
(***************************************************************************)
THEOREM AssertsHoldDuringBuild == BuilderSpec => []CompactionAsserts
<1>1. BuilderIInv => CompactionAsserts
  BY AssertsFromIInv DEF BuilderIInv
<1> QED
  BY <1>1, BuilderInvariance, PTL

(***************************************************************************)
(* Types.  That a search finds the header of every index it comes to is    *)
(* what its type rests on: a slot points to no index, or to one that was   *)
(* written.                                                                *)
(***************************************************************************)
IndexKnown ==
  \A m \in Level : \A i \in 0..MaxSealed[m]-1 :
    \/ slots[m][i].vector_index_start_lpn = INVALID_LPN
    \/ \E x \in indexes : x.lpn = slots[m][i].vector_index_start_lpn

BuildType ==
  /\ isIndexBuilding \in BOOLEAN /\ build_paused \in BOOLEAN
  /\ resume \in Nat
  /\ preempted \in BOOLEAN
  /\ \A l \in IndexedLevel : snapshot[l] \in 0..MaxSealed[l]-1
  /\ tables \in Lpn /\ header \in Lpn
  /\ linked \subseteq Nat
  /\ \A x \in indexes : x.lpn \in Int /\ x.of \in Lpn /\ x.nodes \subseteq Nat
  /\ phase \in {"command", "index"}

\* A nonempty set of listed segments has a latest one.
LEMMA LatestExists ==
  ASSUME NEW S \in SUBSET Listed, S # {}
  PROVE  Latest(S) \in S
<1>1. \A p \in S : /\ p[1] \in 0..3 /\ p[1] \in Level /\ p[1] \in Nat
                   /\ p[2] \in 0..MaxSealed[p[1]]-1 /\ p[2] \in Nat
                   /\ p = <<p[1], p[2]>>
  BY DEF Listed, Visited, IndexedLevel, Level
<1> DEFINE Ls == {p[1] : p \in S}
<1>2. PICK l \in Ls : \A m \in Ls : m <= l
  <2>1. Ls \in SUBSET (0..3) /\ Ls # {}
    BY <1>1
  <2> HIDE DEF Ls
  <2> QED
    BY <2>1, LargestExists
<1> DEFINE Js == {p[2] : p \in {q \in S : q[1] = l}}
<1>3. PICK j \in Js : \A i \in Js : i <= j
  <2>1. Js \in SUBSET (0..MaxSealed[l]-1) /\ l \in Level
    BY <1>1
  <2>2. Js # {}
    BY <1>2
  <2>3. MaxSealed[l]-1 \in Nat
    BY <2>1, Sizes
  <2> HIDE DEF Js
  <2> QED
    BY <2>1, <2>2, <2>3, LargestExists
<1>4. PICK p \in S : p[1] = l /\ p[2] = j
  BY <1>3
<1>5. \A q \in S : p = q \/ Before(q, p)
  <2> SUFFICES ASSUME NEW q \in S PROVE p = q \/ Before(q, p)
    OBVIOUS
  <2>1. q[1] <= l /\ (q[1] = l => q[2] <= j)
    BY <1>2, <1>3
  <2>2. /\ p = <<l, j>> /\ q = <<q[1], q[2]>>
        /\ l \in Nat /\ j \in Nat /\ q[1] \in Nat /\ q[2] \in Nat
    BY <1>1, <1>4
  <2> QED
    BY <1>4, <2>1, <2>2 DEF Before
<1> QED
  BY <1>5 DEF Latest

LEMMA ListedSegment ==
  ASSUME TypeOK, NEW p \in Listed
  PROVE  /\ SegmentAt(p).head_lpn \in Lpn
         /\ IndexKnown /\ HasIndex(SegmentAt(p)) =>
              HeaderAt(SegmentAt(p).vector_index_start_lpn) \in indexes
<1>1. p[1] \in Level /\ p[2] \in 0..MaxSealed[p[1]]-1
  BY DEF Listed, Visited, IndexedLevel, Level
<1>2. RingAdd(p[1], head[p[1]], p[2]) \in 0..MaxSealed[p[1]]-1
  <2>1. head[p[1]] \in 0..MaxSealed[p[1]]-1
    BY <1>1 DEF TypeOK
  <2> QED
    BY <1>1, <2>1, RingAddType, Sizes
<1>3. SegmentAt(p) \in Segment
  BY <1>1, AtType DEF SegmentAt
<1>4. IndexKnown /\ HasIndex(SegmentAt(p)) =>
        \E x \in indexes : x.lpn = SegmentAt(p).vector_index_start_lpn
  BY <1>1, <1>2 DEF IndexKnown, HasIndex, SegmentAt, At
<1> QED
  BY <1>3, <1>4 DEF Segment, HeaderAt

\* What a search leaves in the buffers.
LEMMA SearchType ==
  ASSUME TypeOK, IndexKnown, BuildType,
         SearchStops \/ SearchThroughout \/ SearchNothing
  PROVE  tables' \in Lpn /\ header' \in Lpn
<1>1. tables \in Lpn /\ header \in Lpn /\ \A x \in indexes : x.of \in Lpn
  BY DEF BuildType
<1>2. \A p \in Indexed : /\ p \in Listed /\ SegmentAt(p).head_lpn \in Lpn
                         /\ HeaderAt(SegmentAt(p).vector_index_start_lpn).of \in Lpn
  BY <1>1, ListedSegment DEF Indexed
<1>3. CASE SearchStops
  BY <1>2, <1>3 DEF SearchStops, VisitIndexed
<1>4. CASE SearchThroughout
  <2> DEFINE rest == Listed \ Indexed
  <2>1. rest # {} => SegmentAt(Latest(rest)).head_lpn \in Lpn
    <3>1. rest \in SUBSET Listed
      OBVIOUS
    <3> HIDE DEF rest
    <3> QED
      BY <3>1, LatestExists, ListedSegment
  <2>2. Indexed # {} => Latest(Indexed) \in Indexed
    BY LatestExists DEF Indexed
  <2>3. /\ tables' = IF rest # {} THEN SegmentAt(Latest(rest)).head_lpn
                     ELSE IF Indexed # {} THEN SegmentAt(Latest(Indexed)).head_lpn
                     ELSE tables
        /\ header' = IF Indexed = {} THEN header
                     ELSE HeaderAt(SegmentAt(Latest(Indexed)).vector_index_start_lpn).of
    BY <1>4 DEF SearchThroughout
  <2> HIDE DEF rest
  <2> QED
    BY <1>1, <1>2, <2>1, <2>2, <2>3
<1>5. CASE SearchNothing
  BY <1>1, <1>5 DEF SearchNothing
<1> QED
  BY <1>3, <1>4, <1>5

\* A sealing or a compaction gives no slot an index.
NoNewIndex ==
  \A m \in Level : \A i \in 0..MaxSealed[m]-1 :
    \/ slots'[m][i] = slots[m][i]
    \/ slots'[m][i].vector_index_start_lpn = INVALID_LPN

LEMMA AppendNoIndex ==
  ASSUME IInv, NEW l \in Level, NEW e \in Entries, NEW s, SlotsType(s),
         AppendSegment(l, e, s),
         \A m \in Level : \A i \in 0..MaxSealed[m]-1 :
           s[m][i] = slots[m][i] \/ s[m][i] = Cleared
  PROVE  NoNewIndex
<1>1. /\ slots'[l][tail[l]] = Sealed(e, reverse_lpn')
      /\ \A i \in 0..MaxSealed[l]-1 : i # tail[l] => slots'[l][i] = s[l][i]
      /\ \A m \in Level \ {l} : slots'[m] = s[m]
  BY AppendStep DEF IInv
<1>2. Sealed(e, reverse_lpn').vector_index_start_lpn = INVALID_LPN
  BY DEF Sealed
<1>3. Cleared.vector_index_start_lpn = INVALID_LPN
  BY DEF Cleared
<1> QED
  BY <1>1, <1>2, <1>3 DEF NoNewIndex

LEMMA ClearVictimsSlots ==
  ASSUME TypeOK, NEW l \in 0..2, NEW m \in Level, NEW i \in 0..MaxSealed[m]-1
  PROVE  ClearVictims(l)[m][i] = slots[m][i] \/ ClearVictims(l)[m][i] = Cleared
<1>1. /\ DOMAIN slots = Level /\ l \in Level
      /\ slots[m] \in [0..MaxSealed[m]-1 -> Segment]
  BY Sizes DEF TypeOK
<1>2. CASE m = l
  BY <1>1, <1>2 DEF ClearVictims
<1>3. CASE m # l
  BY <1>1, <1>3, ClearVictimsType
<1> QED
  BY <1>2, <1>3

LEMMA WritePathNoIndex ==
  ASSUME BuilderIInv, (\E k \in Key : BuilderPut(k)) \/ BuilderCompaction
  PROVE  NoNewIndex
<1>0. IInv /\ TypeOK /\ growing \in Entries
  BY DEF BuilderIInv, IInv, TypeOK
<1>1. SlotsType(slots)
  BY <1>0 DEF TypeOK, SlotsType
<1>2. ASSUME NEW k \in Key, BuilderPut(k) PROVE NoNewIndex
  <2>1. CASE PutWithoutSeal(k)
    BY <2>1 DEF PutWithoutSeal, NoNewIndex
  <2>2. CASE PutAfterSeal(k)
    <3>1. AppendSegment(0, growing, slots) /\ 0 \in Level
      BY <2>2 DEF PutAfterSeal, CompactGrowingSegment, Level
    <3> QED
      BY <1>0, <1>1, <3>1, AppendNoIndex
  <2> QED
    BY <1>2, <2>1, <2>2 DEF BuilderPut, KvPut
<1>3. ASSUME NEW l \in 0..2, DoCompaction(l) PROVE NoNewIndex
  <2>1. AppendSegment(l + 1, Merge(l), ClearVictims(l)) /\ l + 1 \in Level
    BY <1>3, Sizes DEF DoCompaction
  <2>2. SlotsType(ClearVictims(l)) /\ Merge(l) \in Entries
    BY <1>0, ClearVictimsType, MergeType
  <2> QED
    BY <1>0, <2>1, <2>2, ClearVictimsSlots, AppendNoIndex
<1>4. ASSUME CompactionDone PROVE NoNewIndex
  BY <1>4 DEF CompactionDone, NoNewIndex
<1> QED
  BY <1>2, <1>3, <1>4 DEF BuilderCompaction, CompactionLoop

LEMMA WritePathType ==
  ASSUME BuilderIInv, IndexKnown, BuildType,
         (\E k \in Key : BuilderPut(k)) \/ BuilderCompaction
  PROVE  IndexKnown' /\ BuildType'
<1>1. /\ UNCHANGED <<isIndexBuilding, build_paused, target, resume, preempted,
                     snapshot, header, linked, indexes>>
      /\ phase' = phase \/ phase' = "index"
      /\ tables' = tables \/ tables' = reverse_lpn'
  BY DEF BuilderPut, BuilderCompaction, Serve
<1>2. reverse_lpn' \in Lpn
  <2>1. BuilderIInv'
    BY BuilderStepInv DEF BuilderNext, Command
  <2> QED
    BY <2>1 DEF BuilderIInv, IInv, TypeOK, Lpn
<1>3. BuildType'
  BY <1>1, <1>2 DEF BuildType
<1>4. IndexKnown'
  BY <1>1, WritePathNoIndex DEF IndexKnown, NoNewIndex
<1> QED
  BY <1>3, <1>4

\* Of an index step, only the last for a segment writes to its slot.
LEMMA IncrementSlots ==
  ASSUME BuilderIInv, BuildIncrement
  PROVE  \A m \in Level : \A i \in 0..MaxSealed[m]-1 :
           \/ slots'[m][i] = slots[m][i]
           \/ /\ Completes /\ slots[m][i] = Target
              /\ slots'[m][i] = [Target EXCEPT !.vector_index_start_lpn = reverse_lpn']
<1> DEFINE a == target[1]
           b == target[2]
           s2 == [Target EXCEPT !.vector_index_start_lpn = reverse_lpn']
<1>1. /\ DOMAIN slots = Level
      /\ \A m \in Level : slots[m] \in [0..MaxSealed[m]-1 -> Segment]
  BY DEF BuilderIInv, IInv, TypeOK
<1>2. a \in Level /\ b \in 0..MaxSealed[a]-1 /\ Target = slots[a][b]
  BY DEF BuilderIInv, BuildIncrement, TargetType, IndexedLevel, Level, Target
<1>3. slots' = slots \/ (Completes /\ slots' = [slots EXCEPT ![a][b] = s2])
  BY DEF BuildIncrement, Target
<1> HIDE DEF a, b, s2
<1>4. CASE Completes /\ slots' = [slots EXCEPT ![a][b] = s2]
  <2>1. /\ \A m \in Level : m # a => slots'[m] = slots[m]
        /\ slots'[a] = [slots[a] EXCEPT ![b] = s2]
    BY <1>1, <1>2, <1>4
  <2>2. /\ slots'[a][b] = s2
        /\ \A i \in 0..MaxSealed[a]-1 : i # b => slots'[a][i] = slots[a][i]
    BY <1>1, <1>2, <2>1
  <2> QED
    BY <1>2, <1>4, <2>1, <2>2 DEF s2
<1> QED
  BY <1>3, <1>4

LEMMA IncrementType ==
  ASSUME BuilderIInv, IndexKnown, BuildType, BuildIncrement
  PROVE  IndexKnown' /\ BuildType'
<1>0. IInv /\ TypeOK /\ reverse_lpn' \in Int
  <2>1. BuilderIInv'
    BY BuilderStepInv DEF BuilderNext, IndexTurn
  <2> QED
    BY <2>1 DEF BuilderIInv, IInv, TypeOK
<1>1. target[1] \in Level /\ target[2] \in 0..MaxSealed[target[1]]-1
  BY DEF BuilderIInv, BuildIncrement, TargetType, IndexedLevel, Level
<1>2. Target \in Segment
  BY <1>0, <1>1 DEF TypeOK, Target
<1>3. TotalEntry(Target) \in Nat \ {0}
  BY <1>2, KeysFinite DEF TotalEntry, Segment, BuildIncrement
<1>4. resume \in Nat /\ Stride \in Nat
  BY BuilderAssumption DEF BuildType
<1>5. Last \in Nat
  BY <1>3, <1>4 DEF Last
<1>6. NextPoint \in Nat
  BY <1>5 DEF NextPoint
<1>7. TablesAtWork \in Lpn /\ HeaderAtWork \in Lpn
  BY <1>2 DEF TablesAtWork, HeaderAtWork, BuildType, Segment
<1>8. NodesLinked \subseteq Nat
  <2>1. resume..Last \subseteq Nat
    BY <1>4, <1>5
  <2> QED
    BY <2>1 DEF NodesLinked, BuildType
<1>9. /\ preempted' = FALSE /\ tables' = TablesAtWork /\ header' = HeaderAtWork
      /\ linked' = NodesLinked /\ resume' = NextPoint
      /\ UNCHANGED <<isIndexBuilding, build_paused, snapshot>>
      /\ phase' = "command"
      /\ \A x \in indexes' : x \in indexes
           \/ x = [lpn |-> reverse_lpn', of |-> HeaderAtWork, nodes |-> NodesLinked]
      /\ indexes \subseteq indexes'
  BY DEF BuildIncrement, IndexStep
<1>10. \A x \in indexes' : x.lpn \in Int /\ x.of \in Lpn /\ x.nodes \subseteq Nat
  <2> SUFFICES ASSUME NEW x \in indexes'
               PROVE  x.lpn \in Int /\ x.of \in Lpn /\ x.nodes \subseteq Nat
    OBVIOUS
  <2>1. CASE x \in indexes
    BY <2>1 DEF BuildType
  <2>2. CASE x = [lpn |-> reverse_lpn', of |-> HeaderAtWork, nodes |-> NodesLinked]
    BY <1>0, <1>7, <1>8, <2>2
  <2> QED BY <1>9, <2>1, <2>2
<1>11. BuildType'
  BY <1>6, <1>7, <1>8, <1>9, <1>10 DEF BuildType
<1>12. ASSUME NEW m \in Level, NEW i \in 0..MaxSealed[m]-1
       PROVE  \/ slots'[m][i].vector_index_start_lpn = INVALID_LPN
              \/ \E x \in indexes' : x.lpn = slots'[m][i].vector_index_start_lpn
  <2>1. CASE slots'[m][i] = slots[m][i]
    BY <1>9, <2>1 DEF IndexKnown
  <2>2. CASE slots'[m][i] # slots[m][i]
    <3>1. Completes /\ slots'[m][i].vector_index_start_lpn = reverse_lpn'
      BY <1>2, <2>2, IncrementSlots DEF Segment
    <3>2. [lpn |-> reverse_lpn', of |-> HeaderAtWork, nodes |-> NodesLinked] \in indexes'
      BY <3>1 DEF BuildIncrement
    <3> QED
      BY <3>1, <3>2
  <2> QED BY <2>1, <2>2
<1>13. IndexKnown'
  BY <1>12 DEF IndexKnown
<1> QED
  BY <1>11, <1>13

(***************************************************************************)
(* The state of the main loop and of a build always has the source's type, *)
(* and a search never follows a slot to a header that was not written      *)
(* (tryVectorSearch, nvme_io_cmd.c), for any host.                         *)
(***************************************************************************)
THEOREM BuilderTypeCorrect == BuilderSpec => []BuilderTypeOK
<1>1. BuilderInit => IndexKnown /\ BuildType
  <2> SUFFICES ASSUME BuilderInit PROVE IndexKnown /\ BuildType
    OBVIOUS
  <2>1. IndexKnown
    BY DEF BuilderInit, Init, IndexKnown, Cleared
  <2>2. \A l \in IndexedLevel : 0 \in 0..MaxSealed[l]-1
    BY Sizes DEF IndexedLevel, Level
  <2> QED
    BY <2>1, <2>2 DEF BuilderInit, BuildType, Lpn
<1>2. BuilderIInv /\ IndexKnown /\ BuildType /\ [BuilderNext]_vars =>
        IndexKnown' /\ BuildType'
  <2> SUFFICES ASSUME BuilderIInv, IndexKnown, BuildType, [BuilderNext]_vars
               PROVE  IndexKnown' /\ BuildType'
    OBVIOUS
  <2>0. TypeOK
    BY DEF BuilderIInv, IInv
  <2>1. CASE (\E k \in Key : BuilderPut(k)) \/ BuilderCompaction
    BY <2>1, WritePathType
  <2>2. CASE BuildIncrement
    BY <2>2, IncrementType
  <2>3. CASE VectorSearch
    <3>1. tables' \in Lpn /\ header' \in Lpn
      BY <2>0, <2>3, SearchType DEF VectorSearch
    <3>2. /\ UNCHANGED <<segVars, isIndexBuilding, build_paused, resume, snapshot, indexes>>
          /\ preempted' = (isIndexBuilding \/ preempted)
          /\ linked' = IF header' = header THEN linked ELSE {}
          /\ phase' = "index"
      BY <2>3 DEF VectorSearch, Serve
    <3>3. slots' = slots
      BY <3>2 DEF segVars
    <3> QED
      BY <3>1, <3>2, <3>3 DEF BuildType, IndexKnown
  <2>4. CASE VectorBuild
    <3>1. /\ UNCHANGED <<segVars, build_paused, resume, preempted, tables, header,
                         linked, indexes>>
          /\ isIndexBuilding' = TRUE /\ phase' = "index"
          /\ snapshot' = snapshot \/ snapshot' = [l \in IndexedLevel |-> tail[l]]
      BY <2>4 DEF VectorBuild, Serve
    <3>2. \A l \in IndexedLevel : tail[l] \in 0..MaxSealed[l]-1
      BY <2>0 DEF TypeOK, IndexedLevel, Level
    <3>3. slots' = slots
      BY <3>1 DEF segVars
    <3> QED
      BY <3>1, <3>2, <3>3 DEF BuildType, IndexKnown
  <2>5. CASE PauseBuild \/ ResumeBuild
    <3>1. /\ UNCHANGED <<segVars, isIndexBuilding, resume, preempted, snapshot,
                         tables, header, linked, indexes>>
          /\ build_paused' \in BOOLEAN /\ phase' = "index"
      BY <2>5 DEF PauseBuild, ResumeBuild, Serve
    <3>2. slots' = slots
      BY <3>1 DEF segVars
    <3> QED
      BY <3>1, <3>2 DEF BuildType, IndexKnown
  <2>6. CASE AssignNextSsToIndex \/ (\E r \in 0..GarbageBound : Garbage(r))
    <3>1. /\ UNCHANGED <<segVars, build_paused, snapshot, tables, header, linked, indexes>>
          /\ isIndexBuilding' = isIndexBuilding \/ isIndexBuilding' = FALSE
          /\ preempted' = preempted \/ preempted' = FALSE
          /\ resume' = resume \/ resume' \in 0..GarbageBound \/ resume' = 0
          /\ phase' = "command"
      BY <2>6 DEF AssignNextSsToIndex, EndBuild, Garbage, IndexStep
    <3>2. slots' = slots
      BY <3>1 DEF segVars
    <3>3. IndexKnown'
      BY <3>1, <3>2 DEF IndexKnown
    <3>4. resume' \in Nat
      BY <3>1, BuilderAssumption DEF BuildType
    <3>5. isIndexBuilding' \in BOOLEAN /\ preempted' \in BOOLEAN
      BY <3>1 DEF BuildType
    <3> QED
      BY <3>1, <3>3, <3>4, <3>5 DEF BuildType
  <2>7. CASE NoCommand \/ NoIndexStep \/ UNCHANGED vars
    <3>1. /\ UNCHANGED <<segVars, isIndexBuilding, build_paused, resume, preempted,
                         snapshot, tables, header, linked, indexes>>
          /\ phase' = phase \/ phase' \in {"command", "index"}
      BY <2>7 DEF NoCommand, NoIndexStep, Serve, vars, buildVars
    <3>2. slots' = slots
      BY <3>1 DEF segVars
    <3> QED
      BY <3>1, <3>2 DEF BuildType, IndexKnown
  <2> QED
    BY <2>1, <2>2, <2>3, <2>4, <2>5, <2>6, <2>7
       DEF BuilderNext, Command, IndexTurn
<1>3. BuilderIInv /\ BuildType => BuilderTypeOK
  BY DEF BuilderIInv, IInv, TargetType, BuildType, BuilderTypeOK
<1> QED
  BY <1>1, <1>2, <1>3, BuilderInvariance, PTL DEF BuilderSpec
=============================================================================
