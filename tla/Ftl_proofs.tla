----------------------------- MODULE Ftl_proofs -----------------------------
(***************************************************************************)
(* Proofs about the flash translation layer, for every number of dies,     *)
(* blocks, pages and slices and every set of bad blocks: as long as no     *)
(* collection erases the current block, the two maps agree, the counts of  *)
(* invalid slices are exact, and the layer implements a store of slices.   *)
(***************************************************************************)
EXTENDS Ftl, FiniteSetTheorems, WellFoundedInduction, TLAPS

(***************************************************************************)
(* The invariant that is inductive.  A free block is clean and not the     *)
(* current one; and a collection has moved every slice off the pages of    *)
(* the victim that it has looked at.                                       *)
(***************************************************************************)
FreeClean ==
  \A d \in Die :
    /\ currentBlock[d] \notin free[d]
    /\ \A b \in free[d] : currentPage[d][b] = 0 /\ invalidSliceCnt[d][b] = 0

Unmapped(d, b, p) == \A l \in Lsa : logicalSlice[l] # <<d, b, p>>

Serving == {"find", "collect", "copy", "erase", "found"}

Phases ==
  /\ pc = "idle" => request = NONE
  /\ pc \in Serving => logicalSlice[request[1]] = NONE
  /\ pc \in {"collect", "copy", "erase"} => victimBlockNo \notin free[Target]
  /\ pc \in {"collect", "copy"} =>
       \A p \in Page : p < pageNo => Unmapped(Target, victimBlockNo, p)
  /\ pc = "copy" => ~Full(Current) /\ victimBlockNo # Current
  /\ pc = "erase" => \A p \in Page : Unmapped(Target, victimBlockNo, p)

FtlInv ==
  /\ FtlTypeOK
  /\ MapsInverse
  /\ CountsExact
  /\ ~reused => FreeClean /\ Phases

-----------------------------------------------------------------------------
\* The parts of a virtual slice address.
LEMMA VsaParts ==
  ASSUME NEW v \in Vsa
  PROVE  /\ v = <<v[1], v[2], v[3]>>
         /\ v[1] \in Die /\ v[2] \in Block /\ v[3] \in Page
BY DEF Vsa

\* NONE is no value of its neighbours.
LEMMA NoneApart ==
  /\ NONE \notin Lsa /\ NONE \notin Data /\ NONE \notin Vsa /\ NONE \notin Block
<1>1. Vsa \subseteq Nat \X Nat \X Nat
  BY FtlAssumption DEF Vsa, Die, Block, Page
<1>2. Block \subseteq Nat
  BY FtlAssumption DEF Block
<1> QED
  BY <1>1, <1>2, FtlAssumption

\* A page number within its block is not carried into the next one.
LEMMA VorgInside ==
  ASSUME NEW d \in Die, NEW b \in Block, NEW p \in Page
  PROVE  Vorg2VsaTranslation(d, b, p) = <<d, b, p>> /\ <<d, b, p>> \in Vsa
BY FtlAssumption DEF Vorg2VsaTranslation, Vsa, Page

\* A block has finitely many pages.
LEMMA PageFinite == IsFiniteSet(Page) /\ Cardinality(Page) = SLICES_PER_BLOCK
<1>1. SLICES_PER_BLOCK \in Nat \ {0}
  BY FtlAssumption
<1>2. 0 \in Int /\ SLICES_PER_BLOCK-1 \in Int
  BY <1>1
<1>3. IsFiniteSet(Page) /\
      Cardinality(Page) = IF 0 > SLICES_PER_BLOCK-1 THEN 0 ELSE SLICES_PER_BLOCK-1-0+1
  BY <1>2, FS_Interval DEF Page
<1> QED
  BY <1>1, <1>3

\* The invalid pages of a block, of those handed out.
Invalid(d, b) == {p \in 0..currentPage[d][b]-1 : ~Valid(d, b, p)}

LEMMA InvalidFinite ==
  ASSUME FtlTypeOK, ~reused, NEW d \in Die, NEW b \in Block
  PROVE  /\ IsFiniteSet(Invalid(d, b))
         /\ Invalid(d, b) \subseteq Page
         /\ Cardinality(Invalid(d, b)) \in Nat
<1>1. currentPage[d][b] \in 0..SLICES_PER_BLOCK
  BY DEF FtlTypeOK
<1>2. Invalid(d, b) \subseteq Page
  BY <1>1, FtlAssumption DEF Invalid, Page
<1>3. IsFiniteSet(Page)
  BY PageFinite
<1>4. IsFiniteSet(Invalid(d, b))
  BY <1>2, <1>3, FS_Subset
<1> QED
  BY <1>2, <1>4, FS_CardinalityType

-----------------------------------------------------------------------------
(***************************************************************************)
(* Initially nothing is mapped.                                            *)
(***************************************************************************)
LEMMA FtlInitInv == FtlInit => FtlInv
<1> SUFFICES ASSUME FtlInit PROVE FtlInv
  OBVIOUS
<1>1. \A d \in Die : FirstBlock(d) \in Block
  <2> SUFFICES ASSUME NEW d \in Die PROVE FirstBlock(d) \in Block
    OBVIOUS
  <2>1. GoodBlocks(d) \subseteq Nat
    BY FtlAssumption DEF GoodBlocks, Block
  <2>2. GoodBlocks(d) # {}
    BY FtlAssumption DEF GoodBlocks, Block, Die
  <2>3. \E b \in GoodBlocks(d) : \A c \in GoodBlocks(d) : <<c, b>> \notin OpToRel(<, Nat)
    BY <2>1, <2>2, NatLessThanWellFounded, WFMin
  <2>4. PICK b \in GoodBlocks(d) : \A c \in GoodBlocks(d) : <<c, b>> \notin OpToRel(<, Nat)
    BY <2>3
  <2>5. \A c \in GoodBlocks(d) : b <= c
    <3> SUFFICES ASSUME NEW c \in GoodBlocks(d), c < b PROVE FALSE
      BY <2>1
    <3>1. <<c, b>> \in Nat \X Nat /\ <<c, b>>[1] < <<c, b>>[2]
      BY <2>1
    <3> QED
      BY <2>4, <3>1 DEF OpToRel
  <2> QED
    BY <2>5 DEF FirstBlock, GoodBlocks
<1>2. FtlTypeOK
  <2>1. 0 \in Die /\ 0 \in 0..SLICES_PER_BLOCK
    BY FtlAssumption DEF Die
  <2>2. currentBlock \in [Die -> Block] /\ free \in [Die -> SUBSET Block]
    BY <1>1 DEF FtlInit, GoodBlocks
  <2>3. /\ currentPage \in [Die -> [Block -> 0..SLICES_PER_BLOCK]]
        /\ invalidSliceCnt \in [Die -> [Block -> Nat]]
    BY <2>1 DEF FtlInit
  <2> QED
    BY <2>1, <2>2, <2>3 DEF FtlInit, FtlTypeOK
<1>3. \A d \in Die, b \in Block, p \in Page : ~Valid(d, b, p)
  BY NoneApart, FtlAssumption DEF FtlInit, Valid, Die, Block, Page
<1>4. MapsInverse
  BY <1>3 DEF MapsInverse, Valid
<1>5. CountsExact
  <2> SUFFICES ASSUME NEW d \in Die, NEW b \in Block
               PROVE  invalidSliceCnt[d][b] =
                        Cardinality({p \in 0..currentPage[d][b]-1 : ~Valid(d, b, p)})
    BY DEF CountsExact
  <2>1. invalidSliceCnt[d][b] = 0 /\ currentPage[d][b] = 0
    BY DEF FtlInit
  <2>2. {p \in 0..currentPage[d][b]-1 : ~Valid(d, b, p)} = {}
    BY <2>1
  <2> QED
    BY <2>1, <2>2, FS_EmptySet
<1>6. FreeClean /\ Phases
  BY DEF FtlInit, FreeClean, Phases, Serving, GoodBlocks
<1> QED
  BY <1>2, <1>4, <1>5, <1>6 DEF FtlInv

-----------------------------------------------------------------------------
(***************************************************************************)
(* A page is handed out: common to the ends of a write and to a copy.      *)
(***************************************************************************)
NewPage(b) == currentPage[Target][b]
NewVsa(b) == <<Target, b, NewPage(b)>>

PlacePre(b, l, x) ==
  /\ FtlTypeOK /\ MapsInverse /\ ~reused
  /\ b \in Block /\ l \in Lsa /\ x \in Data \cup {NONE}
  /\ currentPage[Target][b] < SLICES_PER_BLOCK
  /\ Place(b, l, x)

\* The page handed out is one of the block, to which no slice is mapped.
LEMMA PlaceNew ==
  ASSUME NEW b, NEW l, NEW x, PlacePre(b, l, x)
  PROVE  /\ Target \in Die /\ NewPage(b) \in Page /\ NewVsa(b) \in Vsa
         /\ Unmapped(Target, b, NewPage(b))
         /\ logicalSlice' = [logicalSlice EXCEPT ![l] = NewVsa(b)]
         /\ virtualSlice' = [virtualSlice EXCEPT ![NewVsa(b)] = l]
         /\ flash' = [flash EXCEPT ![NewVsa(b)] = x]
         /\ currentPage' = [currentPage EXCEPT ![Target][b] = NewPage(b) + 1]
<1>1. Target \in Die /\ NewPage(b) \in Page
  BY FtlAssumption DEF PlacePre, FtlTypeOK, Page, NewPage, Target
<1>2. Vorg2VsaTranslation(Target, b, NewPage(b)) = NewVsa(b) /\ NewVsa(b) \in Vsa
  BY <1>1, VorgInside DEF PlacePre, NewVsa
<1>3. Unmapped(Target, b, NewPage(b))
  <2> SUFFICES ASSUME NEW k \in Lsa, logicalSlice[k] = <<Target, b, NewPage(b)>>
               PROVE  FALSE
    BY DEF Unmapped
  <2>1. NewPage(b) < currentPage[Target][b]
    BY <1>1 DEF PlacePre, MapsInverse
  <2> QED
    BY <1>1, <2>1 DEF NewPage, Page
<1> QED
  BY <1>1, <1>2, <1>3 DEF PlacePre, Place, NewPage

LEMMA PlaceType ==
  ASSUME NEW b, NEW l, NEW x, PlacePre(b, l, x)
  PROVE  /\ logicalSlice' \in [Lsa -> Vsa \cup {NONE}]
         /\ virtualSlice' \in [Vsa -> Lsa \cup {NONE}]
         /\ flash' \in [Vsa -> Data \cup {NONE}]
         /\ currentPage' \in [Die -> [Block -> 0..SLICES_PER_BLOCK]]
<1>1. NewPage(b) + 1 \in 0..SLICES_PER_BLOCK
  BY PlaceNew, FtlAssumption DEF Page
<1>2. /\ logicalSlice \in [Lsa -> Vsa \cup {NONE}]
      /\ virtualSlice \in [Vsa -> Lsa \cup {NONE}]
      /\ flash \in [Vsa -> Data \cup {NONE}]
      /\ currentPage \in [Die -> [Block -> 0..SLICES_PER_BLOCK]]
      /\ b \in Block /\ l \in Lsa /\ x \in Data \cup {NONE}
  BY DEF PlacePre, FtlTypeOK
<1>3. NewVsa(b) \in Vsa /\ Target \in Die
  BY PlaceNew
<1>4. logicalSlice' \in [Lsa -> Vsa \cup {NONE}]
  BY <1>2, <1>3, PlaceNew
<1>5. virtualSlice' \in [Vsa -> Lsa \cup {NONE}]
  BY <1>2, <1>3, PlaceNew
<1>6. flash' \in [Vsa -> Data \cup {NONE}]
  BY <1>2, <1>3, PlaceNew
<1>7. currentPage' \in [Die -> [Block -> 0..SLICES_PER_BLOCK]]
  BY <1>1, <1>2, <1>3, PlaceNew
<1> QED
  BY <1>4, <1>5, <1>6, <1>7

LEMMA PlaceMaps ==
  ASSUME NEW b, NEW l, NEW x, PlacePre(b, l, x),
         \A d \in Die : free'[d] \subseteq free[d],
         b \notin free'[Target]
  PROVE  MapsInverse'
<1> SUFFICES ASSUME NEW k \in Lsa, NEW d \in Die, NEW c \in Block, NEW p \in Page,
                    logicalSlice'[k] = <<d, c, p>>
             PROVE  /\ virtualSlice'[<<d, c, p>>] = k
                    /\ p < currentPage'[d][c]
                    /\ c \notin free'[d]
  BY DEF MapsInverse
<1>1. NewPage(b) \in Nat /\ NewPage(b) + 1 \in Nat /\ p \in Nat
  BY PlaceNew DEF Page
<1>2. <<d, c, p>> \in Vsa
  BY DEF Vsa
<1>3. /\ logicalSlice \in [Lsa -> Vsa \cup {NONE}]
      /\ virtualSlice \in [Vsa -> Lsa \cup {NONE}]
      /\ currentPage \in [Die -> [Block -> 0..SLICES_PER_BLOCK]]
      /\ currentPage' \in [Die -> [Block -> 0..SLICES_PER_BLOCK]]
      /\ b \in Block /\ l \in Lsa
  BY PlaceType DEF PlacePre, FtlTypeOK
<1>4. CASE k = l
  <2>1. <<d, c, p>> = NewVsa(b)
    <3>1. logicalSlice' = [logicalSlice EXCEPT ![l] = NewVsa(b)]
      BY PlaceNew
    <3> QED
      BY <1>3, <1>4, <3>1
  <2>2. d = Target /\ c = b /\ p = NewPage(b)
    BY <2>1 DEF NewVsa
  <2>3. virtualSlice'[<<d, c, p>>] = k
    <3>1. virtualSlice' = [virtualSlice EXCEPT ![NewVsa(b)] = l]
      BY PlaceNew
    <3> QED
      BY <1>2, <1>3, <1>4, <2>1, <3>1
  <2>4. currentPage'[d][c] = p + 1
    BY <1>3, <2>2, PlaceNew
  <2> QED
    BY <1>1, <2>2, <2>3, <2>4
<1>5. CASE k # l
  <2>1. logicalSlice[k] = <<d, c, p>>
    BY <1>3, <1>5, PlaceNew
  <2>2. <<d, c, p>> # NewVsa(b)
    BY <2>1, PlaceNew DEF Unmapped, NewVsa
  <2>3. /\ virtualSlice[<<d, c, p>>] = k
        /\ p < currentPage[d][c]
        /\ c \notin free[d]
    BY <2>1 DEF PlacePre, MapsInverse
  <2>4. virtualSlice'[<<d, c, p>>] = k
    BY <1>2, <1>3, <2>2, <2>3, PlaceNew
  <2>5. currentPage[d][c] <= currentPage'[d][c]
    <3>1. currentPage[d][c] \in Nat
      BY <1>3
    <3> QED
      BY <1>1, <1>3, <3>1, PlaceNew DEF NewPage
  <2>6. p < currentPage'[d][c]
    <3>1. currentPage[d][c] \in Nat /\ currentPage'[d][c] \in Nat
      BY <1>3
    <3> QED
      BY <1>1, <2>3, <2>5, <3>1
  <2> QED
    BY <2>3, <2>4, <2>6
<1> QED
  BY <1>4, <1>5

\* A block that the slice does not leave has the invalid pages it had.
LEMMA PlaceInvalid ==
  ASSUME NEW b, NEW l, NEW x, PlacePre(b, l, x), NEW d \in Die, NEW c \in Block,
         \A p \in Page : logicalSlice[l] # <<d, c, p>>
  PROVE  {p \in 0..currentPage'[d][c]-1 : ~Valid(d, c, p)'} = Invalid(d, c)
<1>0. /\ logicalSlice \in [Lsa -> Vsa \cup {NONE}]
      /\ currentPage \in [Die -> [Block -> 0..SLICES_PER_BLOCK]]
      /\ b \in Block /\ l \in Lsa
  BY DEF PlacePre, FtlTypeOK
<1>1. \A p \in Page : <<d, c, p>> # NewVsa(b) => (Valid(d, c, p)' <=> Valid(d, c, p))
  <2> SUFFICES ASSUME NEW p \in Page, <<d, c, p>> # NewVsa(b)
               PROVE  Valid(d, c, p)' <=> Valid(d, c, p)
    OBVIOUS
  <2>1. logicalSlice' = [logicalSlice EXCEPT ![l] = NewVsa(b)]
    BY PlaceNew
  <2>2. \A k \in Lsa : logicalSlice'[k] = <<d, c, p>> <=> logicalSlice[k] = <<d, c, p>>
    BY <1>0, <2>1
  <2> QED
    BY <2>2 DEF Valid
<1>2. logicalSlice'[l] = NewVsa(b)
  BY <1>0, PlaceNew
<1>3. currentPage[d][c] \in 0..SLICES_PER_BLOCK /\ NewPage(b) \in Nat
  BY <1>0, PlaceNew DEF Page
<1>4. CASE d = Target /\ c = b
  <2>1. currentPage'[d][c] = NewPage(b) + 1 /\ currentPage[d][c] = NewPage(b)
    BY <1>0, <1>4, PlaceNew DEF NewPage
  <2>2. \A p \in 0..NewPage(b)-1 : p \in Page /\ <<d, c, p>> # NewVsa(b)
    BY <1>3, <2>1, FtlAssumption DEF Page, NewVsa
  <2>3. \A p \in Page : p = NewPage(b) => Valid(d, c, p)'
    <3> SUFFICES ASSUME NEW p \in Page, p = NewPage(b) PROVE Valid(d, c, p)'
      OBVIOUS
    <3>1. logicalSlice'[l] = <<d, c, p>>
      BY <1>2, <1>4 DEF NewVsa
    <3> QED
      BY <1>0, <3>1 DEF Valid
  <2>4. \A p \in 0..NewPage(b)-1 : Valid(d, c, p)' <=> Valid(d, c, p)
    BY <1>1, <2>2
  <2>5. \A p \in 0..currentPage'[d][c]-1 : p \in 0..NewPage(b)-1 \/ p = NewPage(b)
    BY <1>3, <2>1
  <2>6. NewPage(b) \in Page
    BY PlaceNew
  <2>7. \A p \in 0..currentPage'[d][c]-1 :
          ~Valid(d, c, p)' <=> p \in 0..NewPage(b)-1 /\ ~Valid(d, c, p)
    BY <1>3, <2>3, <2>4, <2>5, <2>6
  <2>8. 0..NewPage(b)-1 \subseteq 0..currentPage'[d][c]-1
    BY <1>3, <2>1
  <2> QED
    BY <2>1, <2>7, <2>8 DEF Invalid
<1>5. CASE ~(d = Target /\ c = b)
  <2>1. currentPage'[d][c] = currentPage[d][c]
    BY <1>0, <1>5, PlaceNew
  <2>2. \A p \in 0..currentPage[d][c]-1 : p \in Page /\ <<d, c, p>> # NewVsa(b)
    BY <1>3, <1>5, FtlAssumption DEF Page, NewVsa
  <2> QED
    BY <1>1, <2>1, <2>2 DEF Invalid
<1> QED
  BY <1>4, <1>5

-----------------------------------------------------------------------------
(***************************************************************************)
(* A slice gives up its page.                                              *)
(***************************************************************************)
GivingUp(l) ==
  /\ FtlInv /\ ~reused /\ pc = "idle" /\ l \in Lsa
  /\ InvalidateOldVsa(l)
  /\ UNCHANGED <<virtualSlice, flash, currentBlock, currentPage, free, reused>>

LEMMA GiveUpMaps ==
  ASSUME NEW l, GivingUp(l)
  PROVE  /\ logicalSlice' = [logicalSlice EXCEPT ![l] = NONE]
         /\ logicalSlice' \in [Lsa -> Vsa \cup {NONE}]
         /\ MapsInverse'
<1>0. /\ logicalSlice \in [Lsa -> Vsa \cup {NONE}] /\ l \in Lsa
      /\ MapsInverse /\ ~reused /\ reused' = reused
      /\ UNCHANGED <<virtualSlice, currentPage, free>>
  BY DEF GivingUp, FtlInv, FtlTypeOK
<1>1. ASSUME logicalSlice[l] # NONE PROVE HasOldVsa(l)
  <2>1. logicalSlice[l] \in Vsa
    BY <1>0, <1>1
  <2> QED
    BY <1>0, <1>1, <2>1, VsaParts DEF MapsInverse, HasOldVsa
<1>2. logicalSlice' = [logicalSlice EXCEPT ![l] = NONE]
  <2>1. CASE logicalSlice[l] = NONE
    BY <1>0, <2>1 DEF GivingUp, InvalidateOldVsa, HasOldVsa
  <2>2. CASE logicalSlice[l] # NONE
    BY <1>1, <2>2 DEF GivingUp, InvalidateOldVsa
  <2> QED
    BY <2>1, <2>2
<1>3. logicalSlice' \in [Lsa -> Vsa \cup {NONE}]
  BY <1>0, <1>2
<1>4. MapsInverse'
  <2> SUFFICES ASSUME NEW k \in Lsa, NEW d \in Die, NEW b \in Block, NEW p \in Page,
                      logicalSlice'[k] = <<d, b, p>>
               PROVE  logicalSlice[k] = <<d, b, p>>
    BY <1>0 DEF MapsInverse
  <2>1. k # l
    <3>1. <<d, b, p>> \in Vsa
      BY DEF Vsa
    <3> QED
      BY <1>0, <1>2, <3>1, NoneApart
  <2> QED
    BY <1>0, <1>2, <2>1
<1> QED
  BY <1>2, <1>3, <1>4

LEMMA GiveUpCounts ==
  ASSUME NEW l, GivingUp(l)
  PROVE  /\ invalidSliceCnt' \in [Die -> [Block -> Nat]]
         /\ FreeClean'
         /\ \A d \in Die, b \in Block :
              invalidSliceCnt'[d][b] =
                Cardinality({p \in 0..currentPage[d][b]-1 : ~Valid(d, b, p)'})
<1>0. /\ logicalSlice \in [Lsa -> Vsa \cup {NONE}] /\ l \in Lsa
      /\ invalidSliceCnt \in [Die -> [Block -> Nat]]
      /\ currentPage \in [Die -> [Block -> 0..SLICES_PER_BLOCK]]
      /\ MapsInverse /\ ~reused /\ reused' = reused /\ FtlTypeOK
      /\ FreeClean
      /\ UNCHANGED <<currentBlock, currentPage, free>>
  BY DEF GivingUp, FtlInv, FtlTypeOK
<1>1. \A d \in Die, b \in Block : invalidSliceCnt[d][b] = Cardinality(Invalid(d, b))
  BY <1>0 DEF GivingUp, FtlInv, CountsExact, BeingCopied, Invalid
<1>2. logicalSlice' = [logicalSlice EXCEPT ![l] = NONE]
  BY GiveUpMaps
<1>3. CASE logicalSlice[l] = NONE
  <2>1. UNCHANGED <<invalidSliceCnt, logicalSlice>>
    BY <1>3 DEF GivingUp, InvalidateOldVsa, HasOldVsa
  <2>2. \A d \in Die, b \in Block, p \in Page : Valid(d, b, p)' <=> Valid(d, b, p)
    BY <2>1 DEF Valid
  <2>3. \A d \in Die, b \in Block :
          {p \in 0..currentPage[d][b]-1 : ~Valid(d, b, p)'} = Invalid(d, b)
    <3> SUFFICES ASSUME NEW d \in Die, NEW b \in Block
                 PROVE  {p \in 0..currentPage[d][b]-1 : ~Valid(d, b, p)'} = Invalid(d, b)
      OBVIOUS
    <3>1. 0..currentPage[d][b]-1 \subseteq Page
      BY <1>0, FtlAssumption DEF Page
    <3> QED
      BY <2>2, <3>1 DEF Invalid
  <2> QED
    BY <1>0, <1>1, <2>1, <2>3 DEF FreeClean
<1>4. CASE logicalSlice[l] # NONE
  <2> DEFINE v == logicalSlice[l]
  <2>1. v \in Vsa
    BY <1>0, <1>4
  <2>2. PICK d \in Die, b \in Block, q \in Page : v = <<d, b, q>>
    BY <2>1, VsaParts
  <2>3. virtualSlice[v] = l /\ q < currentPage[d][b] /\ b \notin free[d]
    BY <1>0, <2>2 DEF MapsInverse
  <2>4. invalidSliceCnt' = [invalidSliceCnt EXCEPT ![d][b] = @ + 1]
    BY <1>4, <2>2, <2>3 DEF GivingUp, InvalidateOldVsa, HasOldVsa
  <2>5. invalidSliceCnt' \in [Die -> [Block -> Nat]]
    BY <1>0, <2>4
  <2>6. FreeClean'
    BY <1>0, <2>3, <2>4 DEF FreeClean
  <2>7. ASSUME NEW e \in Die, NEW c \in Block, NEW p \in Page
        PROVE  Valid(e, c, p)' <=> Valid(e, c, p) /\ <<e, c, p>> # v
    <3>1. ASSUME Valid(e, c, p)' PROVE Valid(e, c, p) /\ <<e, c, p>> # v
      <4>1. PICK k \in Lsa : logicalSlice'[k] = <<e, c, p>>
        BY <3>1 DEF Valid
      <4>2. k # l
        <5>1. <<e, c, p>> \in Vsa
          BY DEF Vsa
        <5> QED
          BY <1>0, <1>2, <4>1, <5>1, NoneApart
      <4>3. logicalSlice[k] = <<e, c, p>>
        BY <1>0, <1>2, <4>1, <4>2
      <4>4. virtualSlice[<<e, c, p>>] = k
        BY <1>0, <4>3 DEF MapsInverse
      <4> QED
        BY <2>3, <4>2, <4>3, <4>4 DEF Valid
    <3>2. ASSUME Valid(e, c, p), <<e, c, p>> # v PROVE Valid(e, c, p)'
      <4>1. PICK k \in Lsa : logicalSlice[k] = <<e, c, p>>
        BY <3>2 DEF Valid
      <4>2. logicalSlice'[k] = <<e, c, p>>
        BY <1>0, <1>2, <3>2, <4>1
      <4> QED
        BY <4>2 DEF Valid
    <3> QED
      BY <3>1, <3>2
  <2>8. ASSUME NEW e \in Die, NEW c \in Block
        PROVE  invalidSliceCnt'[e][c] =
                 Cardinality({p \in 0..currentPage[e][c]-1 : ~Valid(e, c, p)'})
    <3>1. 0..currentPage[e][c]-1 \subseteq Page
      BY <1>0, FtlAssumption DEF Page
    <3>2. CASE e = d /\ c = b
      <4>1. {p \in 0..currentPage[e][c]-1 : ~Valid(e, c, p)'} = Invalid(e, c) \cup {q}
        <5>1. q \in 0..currentPage[e][c]-1
          BY <1>0, <2>3, <3>2, FtlAssumption DEF Page
        <5>2. \A p \in 0..currentPage[e][c]-1 : Valid(e, c, p)' <=> Valid(e, c, p) /\ p # q
          BY <2>2, <2>7, <3>1, <3>2
        <5> QED
          BY <5>1, <5>2 DEF Invalid
      <4>2. q \notin Invalid(e, c)
        BY <1>0, <2>2, <3>2 DEF Invalid, Valid
      <4>3. Cardinality(Invalid(e, c) \cup {q}) = Cardinality(Invalid(e, c)) + 1
        BY <1>0, <4>2, InvalidFinite, FS_AddElement
      <4> QED
        BY <1>0, <1>1, <2>4, <3>2, <4>1, <4>3
    <3>3. CASE ~(e = d /\ c = b)
      <4>1. {p \in 0..currentPage[e][c]-1 : ~Valid(e, c, p)'} = Invalid(e, c)
        BY <2>2, <2>7, <3>1, <3>3 DEF Invalid
      <4> QED
        BY <1>0, <1>1, <2>4, <3>3, <4>1
    <3> QED
      BY <3>2, <3>3
  <2> QED
    BY <2>5, <2>6, <2>8
<1> QED
  BY <1>3, <1>4

-----------------------------------------------------------------------------
(***************************************************************************)
(* Every action keeps the invariant.                                       *)
(***************************************************************************)
\* Nothing is claimed once a collection has erased the current block.
LEMMA ReusedInv ==
  ASSUME reused'
  PROVE  FtlInv'
BY DEF FtlInv, FtlTypeOK, MapsInverse, CountsExact

LEMMA InvalidateInv ==
  ASSUME FtlInv, ~reused, NEW l \in Lsa, Invalidate(l)
  PROVE  FtlInv'
<1>1. GivingUp(l)
  BY DEF Invalidate, GivingUp
<1>2. UNCHANGED <<virtualSlice, flash, currentBlock, currentPage, free, control, reused>>
  BY DEF Invalidate
<1>3. FtlTypeOK'
  BY <1>1, <1>2, GiveUpMaps, GiveUpCounts DEF FtlInv, FtlTypeOK, control
<1>4. CountsExact'
  BY <1>1, <1>2, GiveUpCounts DEF CountsExact
<1>5. Phases'
  BY <1>2 DEF FtlInv, Phases, Serving, Invalidate, control
<1> QED
  BY <1>1, <1>3, <1>4, <1>5, GiveUpMaps, GiveUpCounts DEF FtlInv

LEMMA AddrTransWriteInv ==
  ASSUME FtlInv, ~reused, NEW l \in Lsa, NEW x \in Data, AddrTransWrite(l, x)
  PROVE  FtlInv'
<1>1. GivingUp(l)
  BY DEF AddrTransWrite, GivingUp
<1>2. /\ pc' = "find" /\ request' = <<l, x>>
      /\ UNCHANGED <<virtualSlice, flash, currentBlock, currentPage, free,
                     sliceAllocationTargetDie, victimBlockNo, pageNo, reused>>
  BY DEF AddrTransWrite
<1>3. FtlTypeOK'
  BY <1>1, <1>2, GiveUpMaps, GiveUpCounts DEF FtlInv, FtlTypeOK
<1>4. CountsExact'
  BY <1>1, <1>2, GiveUpCounts DEF CountsExact
<1>5. Phases'
  <2>1. logicalSlice'[request'[1]] = NONE
    BY <1>1, <1>2, GiveUpMaps DEF FtlInv, FtlTypeOK
  <2> QED
    BY <1>2, <2>1 DEF Phases
<1> QED
  BY <1>1, <1>3, <1>4, <1>5, GiveUpMaps, GiveUpCounts DEF FtlInv

\* A write ends in block b, which is the current one from now on.
Ending(b) ==
  /\ FtlInv /\ ~reused /\ Finding
  /\ b \in Block /\ currentPage[Target][b] < SLICES_PER_BLOCK
  /\ EndWrite(b)
  /\ \A d \in Die : free'[d] \subseteq free[d]
  /\ free' \in [Die -> SUBSET Block]
  /\ b \notin free'[Target]
  /\ currentBlock' = [currentBlock EXCEPT ![Target] = b]

LEMMA EndingInv ==
  ASSUME NEW b, Ending(b)
  PROVE  FtlInv'
<1> DEFINE l == request[1]
           x == request[2]
<1>0. /\ FtlTypeOK /\ MapsInverse /\ CountsExact /\ FreeClean /\ Phases
      /\ currentPage \in [Die -> [Block -> 0..SLICES_PER_BLOCK]]
      /\ invalidSliceCnt \in [Die -> [Block -> Nat]]
      /\ currentBlock \in [Die -> Block] /\ Target \in Die
      /\ l \in Lsa /\ x \in Data /\ logicalSlice[l] = NONE
  BY DEF Ending, FtlInv, FtlTypeOK, Finding, Phases, Serving, Target
<1>1. PlacePre(b, l, x)
  BY <1>0 DEF Ending, EndWrite, PlacePre
<1>2. /\ sliceAllocationTargetDie' = (Target + 1) % USER_DIES
      /\ request' = NONE
      /\ UNCHANGED <<invalidSliceCnt, victimBlockNo, pageNo, reused>>
  BY DEF Ending, EndWrite
<1>3. pc' = "idle"
  <2>1. currentPage'[Target][b] \in 0..SLICES_PER_BLOCK
    BY <1>0, <1>1, PlaceType DEF Ending
  <2>2. ~(currentPage'[Target][b] > SLICES_PER_BLOCK)
    BY <2>1, FtlAssumption
  <2> QED
    BY <2>2 DEF Ending, EndWrite
<1>4. FtlTypeOK'
  <2>1. sliceAllocationTargetDie' \in Die
    BY <1>0, <1>2, FtlAssumption DEF Die
  <2>2. currentBlock' \in [Die -> Block]
    BY <1>0 DEF Ending
  <2>3. free' \in [Die -> SUBSET Block] /\ pageNo' \in 0..SLICES_PER_BLOCK
    BY <1>0, <1>2 DEF Ending, FtlTypeOK
  <2> QED
    BY <1>0, <1>1, <1>2, <1>3, <2>1, <2>2, <2>3, PlaceType DEF FtlTypeOK, Ending
<1>5. MapsInverse'
  BY <1>1, PlaceMaps DEF Ending
<1>6. CountsExact'
  <2> SUFFICES ASSUME NEW d \in Die, NEW c \in Block
               PROVE  invalidSliceCnt'[d][c] =
                        Cardinality({p \in 0..currentPage'[d][c]-1 : ~Valid(d, c, p)'})
    BY DEF CountsExact
  <2>1. \A p \in Page : logicalSlice[l] # <<d, c, p>>
    <3>1. \A p \in Page : <<d, c, p>> \in Vsa
      BY DEF Vsa
    <3> QED
      BY <1>0, <3>1, NoneApart
  <2>2. invalidSliceCnt[d][c] = Cardinality(Invalid(d, c))
    BY <1>0 DEF CountsExact, BeingCopied, Invalid, Ending, Finding
  <2> HIDE DEF l, x
  <2>3. {p \in 0..currentPage'[d][c]-1 : ~Valid(d, c, p)'} = Invalid(d, c)
    BY <1>1, <2>1, PlaceInvalid
  <2> QED
    BY <1>2, <2>2, <2>3
<1>7. FreeClean'
  <2> SUFFICES ASSUME NEW d \in Die
               PROVE  /\ currentBlock'[d] \notin free'[d]
                      /\ \A c \in free'[d] : currentPage'[d][c] = 0 /\ invalidSliceCnt'[d][c] = 0
    BY DEF FreeClean
  <2>1. currentPage' = [currentPage EXCEPT ![Target][b] = NewPage(b) + 1]
    BY <1>1, PlaceNew
  <2>2. free'[d] \subseteq free[d] /\ free'[d] \subseteq Block
    BY DEF Ending
  <2>3. currentBlock'[d] \notin free'[d]
    BY <1>0, <2>2 DEF Ending, FreeClean
  <2>4. ASSUME NEW c \in free'[d]
        PROVE  currentPage'[d][c] = 0 /\ invalidSliceCnt'[d][c] = 0
    <3>1. ~(d = Target /\ c = b)
      BY DEF Ending
    <3>2. currentPage'[d][c] = currentPage[d][c]
      BY <1>0, <2>1, <2>2, <3>1
    <3> QED
      BY <1>0, <1>2, <2>2, <3>2 DEF FreeClean
  <2> QED
    BY <2>3, <2>4
<1>8. Phases'
  BY <1>2, <1>3 DEF Phases, Serving
<1> QED
  BY <1>4, <1>5, <1>6, <1>7, <1>8 DEF FtlInv

LEMMA CurrentEnding ==
  ASSUME FtlInv, ~reused, FindInCurrentBlock
  PROVE  Ending(Current)
<1>1. /\ FreeClean /\ Target \in Die
      /\ currentBlock \in [Die -> Block] /\ free \in [Die -> SUBSET Block]
      /\ currentPage[Target][Current] \in 0..SLICES_PER_BLOCK
  BY DEF FtlInv, FtlTypeOK, Target, Current
<1>2. Current \in Block /\ Current \notin free[Target]
  BY <1>1 DEF FreeClean, Current
<1>3. currentPage[Target][Current] < SLICES_PER_BLOCK
  BY <1>1, FtlAssumption DEF FindInCurrentBlock, Full
<1> QED
  BY <1>1, <1>2, <1>3 DEF FindInCurrentBlock, Ending, Current

LEMMA FreeEnding ==
  ASSUME FtlInv, ~reused, NEW b \in free[Target], FindInFreeBlock(b)
  PROVE  Ending(b)
<1>1. /\ FreeClean /\ Target \in Die
      /\ currentBlock \in [Die -> Block] /\ free \in [Die -> SUBSET Block]
  BY DEF FtlInv, FtlTypeOK, Target
<1>2. b \in Block /\ currentPage[Target][b] = 0
  BY <1>1 DEF FreeClean
<1>3. /\ currentBlock' = [currentBlock EXCEPT ![Target] = b]
      /\ free' = [free EXCEPT ![Target] = @ \ {b}]
  BY DEF FindInFreeBlock, TakeBlock
<1> QED
  BY <1>1, <1>2, <1>3, FtlAssumption DEF FindInFreeBlock, Ending

LEMMA AbortInv ==
  ASSUME FtlInv, ~reused, Abort
  PROVE  FtlInv'
<1>1. /\ pc' = "aborted"
      /\ UNCHANGED <<logicalSlice, virtualSlice, flash, currentBlock, currentPage,
                     invalidSliceCnt, free, sliceAllocationTargetDie, request,
                     victimBlockNo, pageNo, reused>>
  BY DEF Abort, maps, blocks
<1>2. FtlTypeOK'
  BY <1>1 DEF FtlInv, FtlTypeOK
<1>3. MapsInverse'
  BY <1>1 DEF FtlInv, MapsInverse
<1>4. CountsExact'
  <2>1. \A d \in Die, b \in Block : BeingCopied(d, b) => BeingCopied(d, b)'
    BY <1>1 DEF BeingCopied, Target
  <2>2. \A d \in Die, b \in Block, p \in Int : Valid(d, b, p)' <=> Valid(d, b, p)
    BY <1>1 DEF Valid
  <2> QED
    BY <1>1, <2>1, <2>2 DEF FtlInv, CountsExact
<1>5. FreeClean' /\ Phases'
  BY <1>1 DEF FtlInv, FreeClean, Phases, Serving
<1> QED
  BY <1>2, <1>3, <1>4, <1>5 DEF FtlInv

\* Steps that touch neither the maps nor the blocks.
LEMMA BlocksFrame ==
  ASSUME FtlInv, ~reused, UNCHANGED <<maps, blocks, Target, reused>>
  PROVE  /\ MapsInverse' /\ FreeClean'
         /\ \A d \in Die, b \in Block, p \in Int : Valid(d, b, p)' <=> Valid(d, b, p)
<1>1. UNCHANGED <<logicalSlice, virtualSlice, flash, currentBlock, currentPage,
                  invalidSliceCnt, free, Target, reused>>
  BY DEF maps, blocks
<1> QED
  BY <1>1 DEF FtlInv, MapsInverse, FreeClean, Valid

LEMMA BeginCollectionInv ==
  ASSUME FtlInv, ~reused, NEW b \in Block, MostInvalid(b), BeginCollection(b)
  PROVE  FtlInv'
<1>1. /\ pc = "find" /\ victimBlockNo' = b /\ pageNo' = 0
      /\ pc' = IF invalidSliceCnt[Target][b] = SLICES_PER_BLOCK THEN "erase" ELSE "collect"
      /\ UNCHANGED <<logicalSlice, virtualSlice, flash, currentBlock, currentPage,
                     invalidSliceCnt, free, sliceAllocationTargetDie, request, reused>>
  BY DEF BeginCollection, maps, blocks
<1>2. /\ currentPage \in [Die -> [Block -> 0..SLICES_PER_BLOCK]]
      /\ Target \in Die /\ FtlTypeOK
  BY DEF FtlInv, FtlTypeOK, Target
<1>3. \A d \in Die, c \in Block : invalidSliceCnt[d][c] = Cardinality(Invalid(d, c))
  BY <1>1 DEF FtlInv, CountsExact, BeingCopied, Invalid
<1>4. FtlTypeOK'
  <2>1. 0 \in 0..SLICES_PER_BLOCK
    BY FtlAssumption
  <2> QED
    BY <1>1, <2>1 DEF FtlInv, FtlTypeOK
<1>5. MapsInverse' /\ FreeClean' /\
      \A d \in Die, c \in Block, p \in Int : Valid(d, c, p)' <=> Valid(d, c, p)
  BY <1>1, BlocksFrame DEF maps, blocks, Target
<1>6. CountsExact'
  BY <1>1, <1>5 DEF FtlInv, CountsExact, BeingCopied
<1>7. Phases'
  <2>1. b \notin free[Target]
    BY DEF MostInvalid
  <2>2. \A p \in Page : ~(p < 0)
    BY FtlAssumption DEF Page
  <2>3. ASSUME invalidSliceCnt[Target][b] = SLICES_PER_BLOCK
        PROVE  \A p \in Page : Unmapped(Target, b, p)
    <3>1. IsFiniteSet(Page) /\ Cardinality(Page) = SLICES_PER_BLOCK
      BY PageFinite
    <3>2. Invalid(Target, b) \in SUBSET Page
      BY <1>2, InvalidFinite
    <3>3. Cardinality(Invalid(Target, b)) = SLICES_PER_BLOCK
      BY <1>2, <1>3, <2>3
    <3>4. Invalid(Target, b) = Page
      BY <3>1, <3>2, <3>3, FS_Subset
    <3> QED
      BY <3>4 DEF Invalid, Valid, Unmapped
  <2>4. logicalSlice[request[1]] = NONE
    BY <1>1 DEF FtlInv, Phases, Serving
  <2> QED
    BY <1>1, <2>1, <2>2, <2>3, <2>4 DEF Phases, Serving, Target, Unmapped
<1> QED
  BY <1>4, <1>5, <1>6, <1>7 DEF FtlInv

LEMMA SkipPageInv ==
  ASSUME FtlInv, ~reused, SkipPage
  PROVE  FtlInv'
<1>1. /\ Collecting /\ ~ValidData /\ pageNo' = pageNo + 1
      /\ UNCHANGED <<logicalSlice, virtualSlice, flash, currentBlock, currentPage,
                     invalidSliceCnt, free, sliceAllocationTargetDie, pc, request,
                     victimBlockNo, reused>>
  BY DEF SkipPage, maps, blocks
<1>2. pageNo \in Page /\ victimBlockNo \in Block /\ Target \in Die
  <2>1. /\ pageNo \in 0..SLICES_PER_BLOCK /\ pageNo # SLICES_PER_BLOCK
        /\ victimBlockNo \in Block /\ Target \in Die
    BY <1>1 DEF FtlInv, FtlTypeOK, Collecting, AllSeen, Target
  <2> QED
    BY <2>1, FtlAssumption DEF Page
<1>3. FtlTypeOK'
  <2>1. pageNo' \in 0..SLICES_PER_BLOCK
    BY <1>1, <1>2, FtlAssumption DEF Page
  <2> QED
    BY <1>1, <2>1 DEF FtlInv, FtlTypeOK
<1>4. MapsInverse' /\ FreeClean' /\
      \A d \in Die, c \in Block, p \in Int : Valid(d, c, p)' <=> Valid(d, c, p)
  BY <1>1, BlocksFrame DEF maps, blocks, Target
<1>5. CountsExact'
  BY <1>1, <1>4 DEF FtlInv, CountsExact, BeingCopied, Target
<1>6. Unmapped(Target, victimBlockNo, pageNo)
  <2> SUFFICES ASSUME NEW l \in Lsa, logicalSlice[l] = <<Target, victimBlockNo, pageNo>>
               PROVE  FALSE
    BY DEF Unmapped
  <2>1. virtualSlice[OldVsa] = l
    BY <1>2 DEF FtlInv, MapsInverse, OldVsa
  <2> QED
    BY <1>1, <2>1, NoneApart DEF ValidData, OldLsa, OldVsa
<1>7. Phases'
  <2>1. ASSUME NEW p \in Page, p < pageNo'
        PROVE  Unmapped(Target, victimBlockNo, p)
    <3>1. p < pageNo \/ p = pageNo
      BY <1>1, <1>2, <2>1 DEF Page
    <3> QED
      BY <1>1, <1>6, <3>1 DEF FtlInv, Phases, Collecting
  <2> QED
    BY <1>1, <2>1 DEF FtlInv, Phases, Serving, Target, Unmapped, Full, Current, Collecting
<1> QED
  BY <1>3, <1>4, <1>5, <1>7 DEF FtlInv

LEMMA TakeBlockForGcInv ==
  ASSUME FtlInv, ~reused, NEW b \in free[Target], TakeBlockForGc(b)
  PROVE  FtlInv'
<1>1. /\ pc = "collect"
      /\ currentBlock' = [currentBlock EXCEPT ![Target] = b]
      /\ free' = [free EXCEPT ![Target] = @ \ {b}]
      /\ pc' = IF victimBlockNo = Current THEN "collect" ELSE "copy"
      /\ UNCHANGED <<logicalSlice, virtualSlice, flash, currentPage, invalidSliceCnt,
                     sliceAllocationTargetDie, request, victimBlockNo, pageNo, reused>>
  BY DEF TakeBlockForGc, TakeBlock, CopyNeedsBlock, maps
<1>2. /\ Target \in Die /\ FreeClean /\ Phases /\ MapsInverse
      /\ currentBlock \in [Die -> Block] /\ free \in [Die -> SUBSET Block]
      /\ b \in Block
  BY DEF FtlInv, FtlTypeOK, Target
<1>3. currentBlock' \in [Die -> Block] /\ free' \in [Die -> SUBSET Block]
  BY <1>1, <1>2
<1>4. FtlTypeOK'
  BY <1>1, <1>3 DEF FtlInv, FtlTypeOK
<1>5. \A d \in Die : free'[d] \subseteq free[d]
  BY <1>1, <1>2
<1>6. MapsInverse'
  BY <1>1, <1>2, <1>5 DEF MapsInverse
<1>7. CountsExact'
  <2>1. \A d \in Die, c \in Block, p \in Int : Valid(d, c, p)' <=> Valid(d, c, p)
    BY <1>1 DEF Valid
  <2> QED
    BY <1>1, <2>1 DEF FtlInv, CountsExact, BeingCopied, Target
<1>8. FreeClean'
  <2>1. \A d \in Die : currentBlock'[d] \notin free'[d]
    BY <1>1, <1>2 DEF FreeClean
  <2> QED
    BY <1>1, <1>2, <1>5, <2>1 DEF FreeClean
<1>9. Phases'
  <2>1. victimBlockNo \notin free[Target] /\ victimBlockNo # b
    BY <1>1, <1>2 DEF Phases
  <2>2. victimBlockNo' \notin free'[Target']
    BY <1>1, <1>2, <2>1 DEF Target
  <2>3. currentBlock'[Target] = b /\ currentPage[Target][b] = 0
    BY <1>1, <1>2 DEF FreeClean
  <2>4. ~Full(Current)' /\ victimBlockNo' # Current'
    BY <1>1, <2>1, <2>3, FtlAssumption DEF Full, Current, Target
  <2> QED
    BY <1>1, <1>2, <2>2, <2>4 DEF Phases, Serving, Target, Unmapped
<1> QED
  BY <1>4, <1>6, <1>7, <1>8, <1>9 DEF FtlInv

\* What holds when a page of the victim is copied.
LEMMA CopyPre ==
  ASSUME FtlInv, ~reused, CopyPage
  PROVE  /\ PlacePre(Current, OldLsa, flash[OldVsa])
         /\ pageNo \in Page /\ victimBlockNo \in Block /\ Target \in Die
         /\ Current \in Block /\ Current \notin free[Target]
         /\ victimBlockNo # Current
         /\ logicalSlice[OldLsa] = OldVsa
         /\ OldVsa \in Vsa
<1>1. Collecting /\ ValidData /\ Place(Current, OldLsa, flash[OldVsa])
  BY DEF CopyPage
<1>2. /\ pageNo \in 0..SLICES_PER_BLOCK /\ pageNo # SLICES_PER_BLOCK
      /\ victimBlockNo \in Block /\ Target \in Die
      /\ currentBlock \in [Die -> Block]
      /\ currentPage \in [Die -> [Block -> 0..SLICES_PER_BLOCK]]
      /\ virtualSlice \in [Vsa -> Lsa \cup {NONE}]
      /\ flash \in [Vsa -> Data \cup {NONE}]
  BY <1>1 DEF FtlInv, FtlTypeOK, Collecting, AllSeen, Target
<1>3. pageNo \in Page
  BY <1>2, FtlAssumption DEF Page
<1>4. OldVsa \in Vsa
  BY <1>2, <1>3 DEF OldVsa, Vsa
<1>5. OldLsa \in Lsa /\ logicalSlice[OldLsa] = OldVsa
  BY <1>1, <1>2, <1>4 DEF ValidData, OldLsa
<1>6. Current \in Block /\ Current \notin free[Target]
  BY <1>2 DEF FtlInv, FreeClean, Current
<1>7. victimBlockNo # Current /\ ~Full(Current)
  BY <1>1 DEF CopyPage, Collecting, FtlInv, Phases
<1>8. currentPage[Target][Current] < SLICES_PER_BLOCK
  <2>1. currentPage[Target][Current] \in 0..SLICES_PER_BLOCK
    BY <1>2, <1>6
  <2> QED
    BY <1>7, <2>1, FtlAssumption DEF Full
<1>9. flash[OldVsa] \in Data \cup {NONE}
  BY <1>2, <1>4
<1>10. PlacePre(Current, OldLsa, flash[OldVsa])
  BY <1>1, <1>5, <1>6, <1>8, <1>9 DEF PlacePre, FtlInv
<1> QED
  BY <1>2, <1>3, <1>4, <1>5, <1>6, <1>7, <1>10

LEMMA CopyPageInv ==
  ASSUME FtlInv, ~reused, CopyPage
  PROVE  FtlInv'
<1>0. /\ Collecting /\ pageNo' = pageNo + 1
      /\ UNCHANGED <<currentBlock, invalidSliceCnt, free, sliceAllocationTargetDie,
                     request, victimBlockNo, reused>>
  BY DEF CopyPage
<1>1. PICK c \in Block, l \in Lsa, x \in Data \cup {NONE} :
        c = Current /\ l = OldLsa /\ x = flash[OldVsa] /\ PlacePre(c, l, x)
  BY CopyPre DEF PlacePre
<1>2. /\ pageNo \in Page /\ victimBlockNo \in Block /\ Target \in Die
      /\ c \notin free[Target] /\ victimBlockNo # c
      /\ logicalSlice[l] = <<Target, victimBlockNo, pageNo>>
  BY <1>1, CopyPre DEF OldVsa
<1>3. pc' = "collect"
  <2>1. currentPage'[Target][c] \in 0..SLICES_PER_BLOCK
    BY <1>1, <1>2, PlaceType
  <2>2. ~(currentPage'[Target][c] > SLICES_PER_BLOCK)
    BY <2>1, FtlAssumption
  <2> QED
    BY <1>1, <2>2 DEF CopyPage
<1>4. FtlTypeOK'
  <2>1. pageNo' \in 0..SLICES_PER_BLOCK
    BY <1>0, <1>2, FtlAssumption DEF Page
  <2> QED
    BY <1>0, <1>1, <1>2, <1>3, <2>1, PlaceType DEF FtlInv, FtlTypeOK, Collecting
<1>5. MapsInverse'
  <2>1. \A d \in Die : free'[d] \subseteq free[d]
    BY <1>0
  <2>2. c \notin free'[Target]
    BY <1>0, <1>2
  <2> QED
    BY <1>1, <2>1, <2>2, PlaceMaps
<1>6. CountsExact'
  <2> SUFFICES ASSUME NEW d \in Die, NEW b \in Block, ~BeingCopied(d, b)'
               PROVE  invalidSliceCnt'[d][b] =
                        Cardinality({p \in 0..currentPage'[d][b]-1 : ~Valid(d, b, p)'})
    BY DEF CountsExact
  <2>1. ~BeingCopied(d, b) /\ ~(d = Target /\ b = victimBlockNo)
    BY <1>0, <1>3 DEF BeingCopied, Target, Collecting
  <2>2. \A p \in Page : logicalSlice[l] # <<d, b, p>>
    BY <1>2, <2>1
  <2>3. {p \in 0..currentPage'[d][b]-1 : ~Valid(d, b, p)'} = Invalid(d, b)
    BY <1>1, <2>2, PlaceInvalid
  <2>4. invalidSliceCnt[d][b] = Cardinality(Invalid(d, b))
    BY <2>1 DEF FtlInv, CountsExact, Invalid
  <2> QED
    BY <1>0, <2>3, <2>4
<1>7. currentPage' = [currentPage EXCEPT ![Target][c] = NewPage(c) + 1]
  BY <1>1, PlaceNew
<1>8. FreeClean'
  <2>1. /\ currentPage \in [Die -> [Block -> 0..SLICES_PER_BLOCK]]
        /\ free \in [Die -> SUBSET Block] /\ FreeClean
    BY DEF FtlInv, FtlTypeOK
  <2>2. ASSUME NEW d \in Die, NEW b \in free[d] PROVE currentPage'[d][b] = currentPage[d][b]
    BY <1>2, <1>7, <2>1
  <2> QED
    BY <1>0, <2>1, <2>2 DEF FreeClean
<1>9. Phases'
  <2>0. logicalSlice' = [logicalSlice EXCEPT ![l] = NewVsa(c)]
    BY <1>1, PlaceNew
  <2>1. logicalSlice \in [Lsa -> Vsa \cup {NONE}] /\ request \in Lsa \X Data
    BY <1>0 DEF FtlInv, FtlTypeOK, Collecting
  <2>2. logicalSlice'[request'[1]] = NONE
    <3>1. logicalSlice[request[1]] = NONE
      BY <1>0 DEF FtlInv, Phases, Serving, Collecting
    <3>2. <<Target, victimBlockNo, pageNo>> \in Vsa
      BY <1>2 DEF Vsa
    <3>3. request[1] # l
      BY <1>2, <3>1, <3>2, NoneApart
    <3> QED
      BY <1>0, <2>0, <2>1, <3>1, <3>3
  <2>3. victimBlockNo \notin free[Target]
    BY <1>0 DEF FtlInv, Phases, Collecting
  <2>4. ASSUME NEW p \in Page, p < pageNo', NEW k \in Lsa
        PROVE  logicalSlice'[k] # <<Target, victimBlockNo, p>>
    <3>1. CASE k = l
      <4>1. logicalSlice'[k] = <<Target, c, NewPage(c)>>
        BY <2>0, <2>1, <3>1 DEF NewVsa
      <4> QED
        BY <1>2, <4>1
    <3>2. CASE k # l
      <4>1. logicalSlice'[k] = logicalSlice[k]
        BY <2>0, <2>1, <3>2
      <4>2. CASE p < pageNo
        BY <1>0, <4>1, <4>2 DEF FtlInv, Phases, Collecting, Unmapped
      <4>3. CASE p = pageNo
        <5>1. \A j \in Lsa : logicalSlice[j] = <<Target, victimBlockNo, pageNo>>
                => virtualSlice[<<Target, victimBlockNo, pageNo>>] = j
          BY <1>2 DEF FtlInv, MapsInverse
        <5> QED
          BY <1>2, <3>2, <4>1, <4>3, <5>1
      <4> QED
        BY <1>0, <1>2, <2>4, <4>2, <4>3 DEF Page
    <3> QED
      BY <3>1, <3>2
  <2> QED
    BY <1>0, <1>3, <2>2, <2>3, <2>4 DEF Phases, Serving, Target, Unmapped
<1> QED
  BY <1>4, <1>5, <1>6, <1>8, <1>9 DEF FtlInv

\* A victim that is erased has no slice left.
LEMMA VictimEmpty ==
  ASSUME FtlInv, ~reused, EraseBlock
  PROVE  /\ victimBlockNo \in Block /\ Target \in Die
         /\ victimBlockNo \notin free[Target]
         /\ \A p \in Page : Unmapped(Target, victimBlockNo, p)
<1>1. pc = "erase" \/ (pc = "collect" /\ pageNo = SLICES_PER_BLOCK)
  BY DEF EraseBlock, AllSeen
<1>2. \A p \in Page : p < SLICES_PER_BLOCK
  BY FtlAssumption DEF Page
<1> QED
  BY <1>1, <1>2 DEF FtlInv, FtlTypeOK, Phases, Target

LEMMA EraseBlockInv ==
  ASSUME FtlInv, ~reused', EraseBlock
  PROVE  FtlInv'
<1>1. /\ ~reused /\ victimBlockNo # Current
      /\ currentPage' = [currentPage EXCEPT ![Target][victimBlockNo] = 0]
      /\ invalidSliceCnt' = [invalidSliceCnt EXCEPT ![Target][victimBlockNo] = 0]
      /\ free' = [free EXCEPT ![Target] = @ \cup {victimBlockNo}]
      /\ victimBlockNo' = NONE /\ pageNo' = 0 /\ pc' = "found"
      /\ UNCHANGED <<logicalSlice, currentBlock, sliceAllocationTargetDie, request>>
  BY DEF EraseBlock
<1>2. /\ victimBlockNo \in Block /\ Target \in Die
      /\ victimBlockNo \notin free[Target]
      /\ \A p \in Page : Unmapped(Target, victimBlockNo, p)
  BY <1>1, VictimEmpty
<1>3. /\ FtlTypeOK /\ MapsInverse /\ CountsExact /\ FreeClean /\ Phases
      /\ logicalSlice \in [Lsa -> Vsa \cup {NONE}]
      /\ virtualSlice \in [Vsa -> Lsa \cup {NONE}]
      /\ flash \in [Vsa -> Data \cup {NONE}]
      /\ currentBlock \in [Die -> Block]
      /\ currentPage \in [Die -> [Block -> 0..SLICES_PER_BLOCK]]
      /\ invalidSliceCnt \in [Die -> [Block -> Nat]]
      /\ free \in [Die -> SUBSET Block]
  BY <1>1 DEF FtlInv, FtlTypeOK
<1>4. virtualSlice' = [v \in Vsa |-> IF v[1] = Target /\ v[2] = victimBlockNo
                                      THEN NONE ELSE virtualSlice[v]]
  BY DEF EraseBlock
<1>5. FtlTypeOK'
  <2>1. virtualSlice' \in [Vsa -> Lsa \cup {NONE}]
    BY <1>3, <1>4
  <2>2. flash' \in [Vsa -> Data \cup {NONE}]
    BY <1>3 DEF EraseBlock
  <2>3. 0 \in 0..SLICES_PER_BLOCK
    BY FtlAssumption
  <2>4. currentPage' \in [Die -> [Block -> 0..SLICES_PER_BLOCK]]
    BY <1>1, <1>3, <2>3
  <2>5. invalidSliceCnt' \in [Die -> [Block -> Nat]] /\ free' \in [Die -> SUBSET Block]
    BY <1>1, <1>2, <1>3
  <2>6. request \in Lsa \X Data
    BY <1>1 DEF FtlInv, FtlTypeOK, EraseBlock
  <2>7. sliceAllocationTargetDie' \in Die /\ reused' \in BOOLEAN
    BY <1>1, <1>3 DEF FtlTypeOK, EraseBlock
  <2>8. logicalSlice' \in [Lsa -> Vsa \cup {NONE}] /\ currentBlock' \in [Die -> Block]
    BY <1>1, <1>3
  <2> QED
    BY <1>1, <2>1, <2>2, <2>3, <2>4, <2>5, <2>6, <2>7, <2>8 DEF FtlTypeOK
<1>6. MapsInverse'
  <2> SUFFICES ASSUME NEW l \in Lsa, NEW d \in Die, NEW b \in Block, NEW p \in Page,
                      logicalSlice'[l] = <<d, b, p>>
               PROVE  /\ virtualSlice'[<<d, b, p>>] = l
                      /\ p < currentPage'[d][b]
                      /\ b \notin free'[d]
    BY DEF MapsInverse
  <2>1. ~(d = Target /\ b = victimBlockNo)
    BY <1>1, <1>2 DEF Unmapped
  <2>2. <<d, b, p>> \in Vsa
    BY DEF Vsa
  <2>3. virtualSlice[<<d, b, p>>] = l /\ p < currentPage[d][b] /\ b \notin free[d]
    BY <1>1, <1>3 DEF MapsInverse
  <2>4. virtualSlice'[<<d, b, p>>] = l
    BY <1>4, <2>1, <2>2, <2>3
  <2>5. currentPage'[d][b] = currentPage[d][b]
    BY <1>1, <1>3, <2>1
  <2>6. b \notin free'[d]
    BY <1>1, <1>2, <1>3, <2>1, <2>3
  <2> QED
    BY <2>3, <2>4, <2>5, <2>6
<1>7. CountsExact'
  <2> SUFFICES ASSUME NEW d \in Die, NEW b \in Block
               PROVE  invalidSliceCnt'[d][b] =
                        Cardinality({p \in 0..currentPage'[d][b]-1 : ~Valid(d, b, p)'})
    BY DEF CountsExact
  <2>1. CASE d = Target /\ b = victimBlockNo
    <3>1. invalidSliceCnt'[d][b] = 0 /\ currentPage'[d][b] = 0
      BY <1>1, <1>2, <1>3, <2>1
    <3>2. {p \in 0..currentPage'[d][b]-1 : ~Valid(d, b, p)'} = {}
      BY <3>1
    <3> QED
      BY <3>1, <3>2, FS_EmptySet
  <2>2. CASE ~(d = Target /\ b = victimBlockNo)
    <3>1. ~BeingCopied(d, b)
      BY <2>2 DEF BeingCopied
    <3>2. invalidSliceCnt'[d][b] = invalidSliceCnt[d][b] /\ currentPage'[d][b] = currentPage[d][b]
      BY <1>1, <1>3, <2>2
    <3>3. \A p \in Int : Valid(d, b, p)' <=> Valid(d, b, p)
      BY <1>1 DEF Valid
    <3>4. currentPage[d][b] \in Int
      BY <1>3
    <3>5. invalidSliceCnt[d][b] = Cardinality({p \in 0..currentPage[d][b]-1 : ~Valid(d, b, p)})
      BY <1>1, <1>3, <3>1 DEF CountsExact
    <3>6. {p \in 0..currentPage'[d][b]-1 : ~Valid(d, b, p)'}
            = {p \in 0..currentPage[d][b]-1 : ~Valid(d, b, p)}
      BY <3>2, <3>3, <3>4
    <3> QED
      BY <3>2, <3>5, <3>6
  <2> QED
    BY <2>1, <2>2
<1>8. FreeClean'
  <2> SUFFICES ASSUME NEW d \in Die
               PROVE  /\ currentBlock'[d] \notin free'[d]
                      /\ \A b \in free'[d] : currentPage'[d][b] = 0 /\ invalidSliceCnt'[d][b] = 0
    BY DEF FreeClean
  <2>1. currentBlock'[d] \notin free'[d]
    BY <1>1, <1>2, <1>3 DEF FreeClean, Current
  <2>2. ASSUME NEW b \in free'[d]
        PROVE  currentPage'[d][b] = 0 /\ invalidSliceCnt'[d][b] = 0
    <3>1. CASE d = Target /\ b = victimBlockNo
      BY <1>1, <1>2, <1>3, <3>1
    <3>2. CASE ~(d = Target /\ b = victimBlockNo)
      <4>1. b \in free[d] /\ b \in Block
        BY <1>1, <1>2, <1>3, <3>2
      <4> QED
        BY <1>1, <1>3, <3>2, <4>1 DEF FreeClean
    <3> QED
      BY <3>1, <3>2
  <2> QED
    BY <2>1, <2>2
<1>9. Phases'
  <2>1. logicalSlice[request[1]] = NONE
    BY <1>3 DEF EraseBlock, Phases, Serving
  <2> QED
    BY <1>1, <2>1 DEF Phases
<1> QED
  BY <1>5, <1>6, <1>7, <1>8, <1>9 DEF FtlInv

\* Once a collection has erased the current block it stays so.
LEMMA ReusedStays ==
  ASSUME FtlNext \/ UNCHANGED ftlVars, reused
  PROVE  reused'
BY DEF FtlNext, FtlFind, FtlCollect, Invalidate, AddrTransWrite, FindInCurrentBlock,
       FindInFreeBlock, EndWrite, BeginCollection, Abort, SkipPage, TakeBlockForGc,
       CopyPage, EraseBlock, ftlVars

LEMMA FtlStepInv ==
  ASSUME FtlInv, FtlNext
  PROVE  FtlInv'
<1>1. CASE reused'
  BY <1>1, ReusedInv
<1>2. CASE ~reused'
  <2>0. ~reused
    BY <1>2, ReusedStays
  <2>1. ASSUME NEW l \in Lsa, Invalidate(l) PROVE FtlInv'
    BY <2>0, <2>1, InvalidateInv
  <2>2. ASSUME NEW l \in Lsa, NEW x \in Data, AddrTransWrite(l, x) PROVE FtlInv'
    BY <2>0, <2>2, AddrTransWriteInv
  <2>3. CASE FtlFind
    <3>1. CASE FindInCurrentBlock
      BY <2>0, <3>1, CurrentEnding, EndingInv
    <3>2. ASSUME NEW b \in free[Target], FindInFreeBlock(b) PROVE FtlInv'
      BY <2>0, <3>2, FreeEnding, EndingInv
    <3>3. ASSUME NEW b \in Block, MostInvalid(b), BeginCollection(b) PROVE FtlInv'
      BY <2>0, <3>3, BeginCollectionInv
    <3>4. CASE Abort
      BY <2>0, <3>4, AbortInv
    <3> QED
      BY <2>3, <3>1, <3>2, <3>3, <3>4 DEF FtlFind
  <2>4. CASE FtlCollect
    <3>1. CASE SkipPage
      BY <2>0, <3>1, SkipPageInv
    <3>2. ASSUME NEW b \in free[Target], TakeBlockForGc(b) PROVE FtlInv'
      BY <2>0, <3>2, TakeBlockForGcInv
    <3>3. CASE Abort
      BY <2>0, <3>3, AbortInv
    <3>4. CASE CopyPage
      BY <2>0, <3>4, CopyPageInv
    <3>5. CASE EraseBlock
      BY <1>2, <3>5, EraseBlockInv
    <3> QED
      BY <2>4, <3>1, <3>2, <3>3, <3>4, <3>5 DEF FtlCollect
  <2> QED
    BY <2>1, <2>2, <2>3, <2>4 DEF FtlNext
<1> QED
  BY <1>1, <1>2

LEMMA FtlStutterInv ==
  ASSUME FtlInv, UNCHANGED ftlVars
  PROVE  FtlInv'
<1>1. UNCHANGED <<logicalSlice, virtualSlice, flash, currentBlock, currentPage,
                  invalidSliceCnt, free, sliceAllocationTargetDie, pc, request,
                  victimBlockNo, pageNo, reused>>
  BY DEF ftlVars, maps, blocks, control
<1>2. FtlTypeOK' /\ MapsInverse'
  BY <1>1 DEF FtlInv, FtlTypeOK, MapsInverse
<1>3. CountsExact'
  <2>1. \A d \in Die, b \in Block : BeingCopied(d, b) <=> BeingCopied(d, b)'
    BY <1>1 DEF BeingCopied, Target
  <2>2. \A d \in Die, b \in Block, p \in Int : Valid(d, b, p)' <=> Valid(d, b, p)
    BY <1>1 DEF Valid
  <2> QED
    BY <1>1, <2>1, <2>2 DEF FtlInv, CountsExact
<1>4. ~reused' => FreeClean' /\ Phases'
  BY <1>1 DEF FtlInv, FreeClean, Phases, Full, Current, Target, Unmapped, Serving
<1> QED
  BY <1>2, <1>3, <1>4 DEF FtlInv

LEMMA FtlInvariant == FtlSpec => []FtlInv
<1>1. FtlInv /\ [FtlNext]_ftlVars => FtlInv'
  BY FtlStepInv, FtlStutterInv
<1> QED
  BY <1>1, FtlInitInv, PTL DEF FtlSpec

(***************************************************************************)
(* The maps, lists and counters have their types, and no block hands out   *)
(* more pages than it has (the assertion "Current page management fail" of *)
(* FindFreeVirtualSlice), as long as no collection erased the current      *)
(* block.                                                                  *)
(***************************************************************************)
THEOREM FtlTypeCorrect == FtlSpec => []FtlTypeOK
<1>1. FtlInv => FtlTypeOK
  BY DEF FtlInv
<1> QED
  BY <1>1, FtlInvariant, PTL

(***************************************************************************)
(* InvalidateOldVsa, AddrTransWrite, GarbageCollection and EraseBlock keep *)
(* the two slice maps inverse to each other and off the free blocks.       *)
(***************************************************************************)
THEOREM MapsAgree == FtlSpec => []MapsInverse
<1>1. FtlInv => MapsInverse
  BY DEF FtlInv
<1> QED
  BY <1>1, FtlInvariant, PTL

(***************************************************************************)
(* invalidSliceCnt, by which GarbageCollection decides to erase a block    *)
(* without looking at its pages, is the number of pages without a slice.   *)
(***************************************************************************)
THEOREM CountsAreExact == FtlSpec => []CountsExact
<1>1. FtlInv => CountsExact
  BY DEF FtlInv
<1> QED
  BY <1>1, FtlInvariant, PTL

-----------------------------------------------------------------------------
(***************************************************************************)
(* The refinement: what each action does to the content of the slices.     *)
(***************************************************************************)
\* Nothing happens to the content when the maps stay as they are.
LEMMA ContentFrame ==
  ASSUME UNCHANGED <<logicalSlice, flash>>
  PROVE  Content' = Content
BY DEF Content

\* Giving up a page drops the slice.
LEMMA ContentDropped ==
  ASSUME NEW l, GivingUp(l)
  PROVE  Content' = [Content EXCEPT ![l] = NONE]
<1>1. /\ logicalSlice' = [logicalSlice EXCEPT ![l] = NONE] /\ flash' = flash
      /\ logicalSlice \in [Lsa -> Vsa \cup {NONE}] /\ l \in Lsa
  BY GiveUpMaps DEF GivingUp, FtlInv, FtlTypeOK
<1> QED
  BY <1>1 DEF Content

\* A page that is handed out holds the new content of its slice.
LEMMA ContentPlaced ==
  ASSUME NEW b, NEW l, NEW x, PlacePre(b, l, x)
  PROVE  Content' = [Content EXCEPT ![l] = x]
<1>1. /\ logicalSlice' = [logicalSlice EXCEPT ![l] = NewVsa(b)]
      /\ flash' = [flash EXCEPT ![NewVsa(b)] = x]
      /\ NewVsa(b) \in Vsa /\ NewVsa(b) # NONE
      /\ logicalSlice \in [Lsa -> Vsa \cup {NONE}] /\ l \in Lsa
      /\ flash \in [Vsa -> Data \cup {NONE}]
  BY PlaceNew, NoneApart DEF PlacePre, FtlTypeOK
<1>2. \A k \in Lsa : logicalSlice[k] # NewVsa(b)
  BY PlaceNew DEF Unmapped, NewVsa
<1>3. ASSUME NEW k \in Lsa, k # l
      PROVE  /\ logicalSlice'[k] = logicalSlice[k]
             /\ logicalSlice[k] # NONE => flash'[logicalSlice[k]] = flash[logicalSlice[k]]
  BY <1>1, <1>2, <1>3
<1>4. logicalSlice'[l] = NewVsa(b) /\ flash'[NewVsa(b)] = x
  BY <1>1
<1>5. \A k \in Lsa : Content'[k] = IF k = l THEN x ELSE Content[k]
  BY <1>1, <1>3, <1>4 DEF Content
<1>6. Content' = [k \in Lsa |-> Content'[k]] /\ Content = [k \in Lsa |-> Content[k]]
  BY DEF Content
<1> QED
  BY <1>1, <1>5, <1>6

LEMMA StoreStep ==
  ASSUME FtlInv, FtlNext, ~reused'
  PROVE  Store!StoreNext \/ UNCHANGED <<Content, request>>
<1>0. ~reused
  BY ReusedStays
<1>1. ASSUME NEW l \in Lsa, Invalidate(l) PROVE Store!StoreNext
  <2>1. GivingUp(l) /\ UNCHANGED request /\ request = NONE
    BY <1>0, <1>1 DEF Invalidate, GivingUp, control, FtlInv, Phases
  <2> QED
    BY <2>1, ContentDropped DEF Store!StoreNext, Store!Drop
<1>2. ASSUME NEW l \in Lsa, NEW x \in Data, AddrTransWrite(l, x) PROVE Store!StoreNext
  <2>1. GivingUp(l) /\ request' = <<l, x>> /\ request = NONE
    BY <1>0, <1>2 DEF AddrTransWrite, GivingUp, FtlInv, Phases
  <2> QED
    BY <2>1, ContentDropped DEF Store!StoreNext, Store!Begin, Store!Drop
<1>3. ASSUME NEW b, Ending(b) PROVE Store!StoreNext
  <2>1. request \in Lsa \X Data
    BY <1>3 DEF Ending, FtlInv, FtlTypeOK, Finding
  <2>2. PlacePre(b, request[1], request[2]) /\ request' = NONE /\ request # NONE
    BY <1>3, <2>1, FtlAssumption DEF Ending, EndWrite, PlacePre, FtlInv
  <2>3. Content' = [Content EXCEPT ![request[1]] = request[2]]
    BY <2>2, ContentPlaced
  <2> QED
    BY <2>2, <2>3 DEF Store!StoreNext, Store!End
<1>4. ASSUME UNCHANGED <<maps, request>> PROVE UNCHANGED <<Content, request>>
  BY <1>4, ContentFrame DEF maps
<1>5. CASE CopyPage
  <2>1. Content' = [Content EXCEPT ![OldLsa] = flash[OldVsa]]
    BY <1>0, <1>5, CopyPre, ContentPlaced
  <2>2. OldLsa \in Lsa => Content[OldLsa] = flash[OldVsa]
    BY <1>0, <1>5, CopyPre, NoneApart DEF Content
  <2>3. Content' = Content
    BY <2>1, <2>2 DEF Content
  <2> QED
    BY <1>5, <2>3 DEF CopyPage
<1>6. CASE EraseBlock
  <2>1. /\ victimBlockNo \in Block /\ Target \in Die
        /\ \A p \in Page : Unmapped(Target, victimBlockNo, p)
    BY <1>0, <1>6, VictimEmpty
  <2>2. /\ logicalSlice' = logicalSlice /\ request' = request
        /\ flash' = [v \in Vsa |-> IF v[1] = Target /\ v[2] = victimBlockNo
                                    THEN NONE ELSE flash[v]]
    BY <1>6 DEF EraseBlock
  <2>3. logicalSlice \in [Lsa -> Vsa \cup {NONE}]
    BY <1>0 DEF FtlInv, FtlTypeOK
  <2>4. ASSUME NEW k \in Lsa, logicalSlice[k] # NONE
        PROVE  flash'[logicalSlice[k]] = flash[logicalSlice[k]]
    <3>1. logicalSlice[k] \in Vsa
      BY <2>3, <2>4
    <3>2. ~(logicalSlice[k][1] = Target /\ logicalSlice[k][2] = victimBlockNo)
      BY <2>1, <3>1, VsaParts DEF Unmapped
    <3> QED
      BY <2>2, <3>1, <3>2
  <2>5. Content' = Content
    BY <2>2, <2>4 DEF Content
  <2> QED
    BY <2>2, <2>5
<1>7. CASE FtlFind
  <2>1. CASE FindInCurrentBlock
    BY <1>0, <1>3, <2>1, CurrentEnding
  <2>2. ASSUME NEW b \in free[Target], FindInFreeBlock(b) PROVE Store!StoreNext
    BY <1>0, <1>3, <2>2, FreeEnding
  <2>3. ASSUME NEW b \in Block, BeginCollection(b) PROVE UNCHANGED <<maps, request>>
    BY <2>3 DEF BeginCollection
  <2>4. ASSUME Abort PROVE UNCHANGED <<maps, request>>
    BY <2>4 DEF Abort
  <2> QED
    BY <1>4, <1>7, <2>1, <2>2, <2>3, <2>4 DEF FtlFind
<1>8. CASE FtlCollect
  <2>1. ASSUME SkipPage PROVE UNCHANGED <<maps, request>>
    BY <2>1 DEF SkipPage
  <2>2. ASSUME NEW b \in free[Target], TakeBlockForGc(b) PROVE UNCHANGED <<maps, request>>
    BY <2>2 DEF TakeBlockForGc
  <2>3. ASSUME Abort PROVE UNCHANGED <<maps, request>>
    BY <2>3 DEF Abort
  <2> QED
    BY <1>4, <1>5, <1>6, <1>8, <2>1, <2>2, <2>3 DEF FtlCollect
<1> QED
  BY <1>1, <1>2, <1>7, <1>8 DEF FtlNext

(***************************************************************************)
(* The flash translation layer implements the store of slices: garbage     *)
(* collection neither loses a slice nor brings an old one back, as long as *)
(* it did not erase the current block.                                     *)
(***************************************************************************)
THEOREM FtlImplementsStore == FtlSpec => ImplementsStore
<1>1. FtlInit => Store!StoreInit
  BY DEF FtlInit, Store!StoreInit, Content
<1>2. FtlInv /\ [FtlNext]_ftlVars
        => [~reused' => Store!StoreNext \/ UNCHANGED <<Content, request>>]_ftlVars
  BY StoreStep
<1> QED
  BY <1>1, <1>2, FtlInvariant, PTL DEF FtlSpec, ImplementsStore

-----------------------------------------------------------------------------
(***************************************************************************)
(* Room to write.  Between writes every die has a free block, and all of   *)
(* its other blocks but the current one are used up.  A collection begins  *)
(* with a free block in reserve (NotTaken); once it has taken that block   *)
(* the current block has room for all that is left in the victim (Taken).  *)
(***************************************************************************)
\* The pages of the victim that are still to be copied.
Left == {p \in Page : p >= pageNo /\ Valid(Target, victimBlockNo, p)}

NotTaken ==
  /\ pc # "copy" /\ free[Target] # {} /\ Full(Current)
  /\ pc = "collect" => Cardinality(Left) < SLICES_PER_BLOCK

Taken ==
  /\ victimBlockNo # Current
  /\ currentPage[Target][Current] + Cardinality(Left) < SLICES_PER_BLOCK

FilledUp ==
  \A d \in Die : \A b \in GoodBlocks(d) \ free[d] :
    b # currentBlock[d] => currentPage[d][b] = SLICES_PER_BLOCK

FreeLeft ==
  \A d \in Die : d # Target \/ pc \in {"idle", "find", "found"} => free[d] # {}

Rooms ==
  /\ pc \in {"idle", "find", "found"} => victimBlockNo = NONE
  /\ pc = "found" => FreeBlocks > RESERVED_FREE_BLOCK_COUNT \/ ~Full(Current)
  /\ pc \in {"collect", "copy", "erase"} => NotTaken \/ Taken

Room == ~reused => FilledUp /\ FreeLeft /\ Rooms /\ AbortOnlyWhenFull

\* A die has finitely many free blocks.
LEMMA FreeFinite ==
  ASSUME FtlTypeOK, ~reused, NEW d \in Die
  PROVE  IsFiniteSet(free[d]) /\ Cardinality(free[d]) \in Nat
<1>1. 0 \in Int /\ USER_BLOCKS_PER_DIE-1 \in Int
  BY FtlAssumption
<1>2. IsFiniteSet(Block)
  BY <1>1, FS_Interval DEF Block
<1>3. free[d] \in SUBSET Block
  BY DEF FtlTypeOK
<1> QED
  BY <1>2, <1>3, FS_Subset, FS_CardinalityType

\* What is left to copy is at most a block.
LEMMA LeftFinite ==
  /\ IsFiniteSet(Left) /\ Left \subseteq Page
  /\ Cardinality(Left) \in Nat /\ Cardinality(Left) <= SLICES_PER_BLOCK
<1>1. Left \subseteq Page
  BY DEF Left
<1>2. IsFiniteSet(Left) /\ Cardinality(Left) <= Cardinality(Page)
  BY <1>1, PageFinite, FS_Subset
<1> QED
  BY <1>1, <1>2, PageFinite, FS_CardinalityType

LEMMA RoomInit == FtlInit => Room
<1> SUFFICES ASSUME FtlInit PROVE Room
  OBVIOUS
<1>1. FtlTypeOK
  BY FtlInitInv DEF FtlInv
<1>2. FilledUp
  BY DEF FtlInit, FilledUp
<1>3. \A d \in Die : free[d] # {}
  <2> SUFFICES ASSUME NEW d \in Die PROVE GoodBlocks(d) \ {FirstBlock(d)} # {}
    BY DEF FtlInit
  <2>1. PICK b \in 0..USER_BLOCKS_PER_DIE-1, c \in 0..USER_BLOCKS_PER_DIE-1 :
          b # c /\ <<d, b>> \notin Bad /\ <<d, c>> \notin Bad
    BY FtlAssumption DEF Die
  <2>2. b \in GoodBlocks(d) /\ c \in GoodBlocks(d)
    BY <2>1 DEF GoodBlocks, Block
  <2> QED
    BY <2>1, <2>2
<1> QED
  BY <1>2, <1>3 DEF FtlInit, Room, FreeLeft, Rooms, AbortOnlyWhenFull

\* A slice is given up between writes, or as a write begins.
LEMMA RoomGiveUp ==
  ASSUME FtlInv, Room, ~reused, pc = "idle", pc' \in {"idle", "find"},
         UNCHANGED <<currentBlock, currentPage, free, sliceAllocationTargetDie,
                     victimBlockNo, pageNo, reused>>
  PROVE  Room'
<1>1. FilledUp' /\ FreeLeft'
  BY DEF Room, FilledUp, FreeLeft, Target
<1>2. Rooms'
  BY DEF Room, Rooms, Target
<1> QED
  BY <1>1, <1>2 DEF Room, AbortOnlyWhenFull

\* A write ends.  It takes a block only when the current one is full.
LEMMA RoomEnding ==
  ASSUME NEW b, Ending(b), Room,
         b # Current => Full(Current),
         free[Target] \ {b} \subseteq free'[Target], free'[Target] # {},
         \A d \in Die : d # Target => free'[d] = free[d]
  PROVE  Room'
<1> DEFINE l == request[1]
           x == request[2]
<1>1. /\ FtlTypeOK /\ MapsInverse
      /\ currentPage \in [Die -> [Block -> 0..SLICES_PER_BLOCK]]
      /\ currentBlock \in [Die -> Block] /\ Target \in Die
      /\ l \in Lsa /\ x \in Data
  BY DEF Ending, FtlInv, FtlTypeOK, Finding, Target
<1>2. PlacePre(b, l, x)
  BY <1>1 DEF Ending, EndWrite, PlacePre
<1>3. currentPage' = [currentPage EXCEPT ![Target][b] = NewPage(b) + 1]
  BY <1>2, PlaceNew
<1>4. pc' \in {"idle", "beyond"} /\ pc' # "aborted" /\ UNCHANGED <<victimBlockNo, reused>>
  BY DEF Ending, EndWrite
<1>5. currentPage'[Target][b] \in 0..SLICES_PER_BLOCK
  BY <1>1, <1>2, PlaceType DEF Ending
<1>6. pc' = "idle"
  <2>1. ~(currentPage'[Target][b] > SLICES_PER_BLOCK)
    BY <1>5, FtlAssumption
  <2> QED
    BY <2>1 DEF Ending, EndWrite
<1>7. FilledUp /\ FreeLeft /\ Rooms /\ Finding /\ victimBlockNo = NONE
  BY DEF Room, Rooms, Ending, Finding
<1>8. FilledUp'
  <2> SUFFICES ASSUME NEW d \in Die, NEW c \in GoodBlocks(d) \ free'[d], c # currentBlock'[d]
               PROVE  currentPage'[d][c] = SLICES_PER_BLOCK
    BY DEF FilledUp, GoodBlocks
  <2>1. c \in Block
    BY DEF GoodBlocks
  <2>2. CASE d # Target
    <3>1. currentBlock'[d] = currentBlock[d] /\ currentPage'[d][c] = currentPage[d][c]
      BY <1>1, <1>3, <2>1, <2>2 DEF Ending
    <3> QED
      BY <1>7, <2>2, <3>1 DEF FilledUp
  <2>3. CASE d = Target
    <3>1. currentBlock'[d] = b
      BY <1>1, <2>3 DEF Ending
    <3>2. currentPage'[d][c] = currentPage[d][c] /\ c # b
      BY <1>1, <1>3, <2>1, <3>1
    <3>3. c \notin free[d]
      BY <2>3, <3>2
    <3>4. CASE c = Current
      BY <2>3, <3>2, <3>4 DEF Full
    <3>5. CASE c # Current
      BY <1>7, <2>3, <3>2, <3>3, <3>5 DEF FilledUp, Current
    <3> QED
      BY <3>4, <3>5
  <2> QED
    BY <2>2, <2>3
<1>9. FreeLeft'
  BY <1>7 DEF FreeLeft
<1> QED
  BY <1>4, <1>6, <1>7, <1>8, <1>9 DEF Room, Rooms, AbortOnlyWhenFull

LEMMA RoomFindCurrent ==
  ASSUME FtlInv, Room, ~reused, FindInCurrentBlock
  PROVE  Room'
<1>1. Ending(Current)
  BY CurrentEnding
<1>2. Finding /\ UNCHANGED free
  BY DEF FindInCurrentBlock
<1>3. Target \in Die
  BY DEF FtlInv, FtlTypeOK, Target
<1>4. free[Target] # {}
  BY <1>2, <1>3 DEF Room, FreeLeft, Finding
<1> HIDE DEF Target, Current
<1> QED
  BY <1>1, <1>2, <1>4, RoomEnding

LEMMA RoomFindFree ==
  ASSUME FtlInv, Room, ~reused, FreeBlocks > RESERVED_FREE_BLOCK_COUNT,
         NEW b \in free[Target], FindInFreeBlock(b)
  PROVE  Room'
<1>1. Ending(b) /\ Full(Current) /\ free' = [free EXCEPT ![Target] = @ \ {b}]
  BY FreeEnding DEF FindInFreeBlock, TakeBlock
<1>2. Target \in Die /\ free \in [Die -> SUBSET Block]
  BY DEF FtlInv, FtlTypeOK, Target
<1>3. free'[Target] = free[Target] \ {b}
  BY <1>1, <1>2
<1>4. free'[Target] # {}
  <2> SUFFICES ASSUME free[Target] = {b} PROVE FALSE
    BY <1>3
  <2>1. Cardinality(free[Target]) = 1
    BY FS_Singleton
  <2> QED
    BY <2>1 DEF FreeBlocks, RESERVED_FREE_BLOCK_COUNT
<1>5. \A d \in Die : d # Target => free'[d] = free[d]
  BY <1>1, <1>2
<1> HIDE DEF Target, Current
<1> QED
  BY <1>1, <1>3, <1>4, <1>5, RoomEnding

\* Naturals up to a bound: some block has the most invalid slices.
LEMMA MostExists ==
  ASSUME NEW S \in SUBSET Block, S # {}, NEW n \in Nat,
         NEW f, \A b \in S : f[b] \in 0..n
  PROVE  \E b \in S : \A c \in S : f[c] <= f[b]
<1> DEFINE T == {n - f[b] : b \in S}
<1>1. T \subseteq Nat /\ T # {}
  OBVIOUS
<1> HIDE DEF T
<1>2. \E m \in T : \A k \in T : <<k, m>> \notin OpToRel(<, Nat)
  BY <1>1, NatLessThanWellFounded, WFMin
<1>3. PICK m \in T : \A k \in T : <<k, m>> \notin OpToRel(<, Nat)
  BY <1>2
<1>4. PICK b \in S : m = n - f[b]
  BY <1>3 DEF T
<1>5. ASSUME NEW c \in S PROVE f[c] <= f[b]
  <2>1. n - f[c] \in T /\ n - f[c] \in Nat /\ m \in Nat
    BY <1>1, <1>3 DEF T
  <2>2. PICK k \in T : k = n - f[c] /\ k \in Nat
    BY <2>1
  <2>3. ~(k < m)
    <3> SUFFICES ASSUME k < m PROVE FALSE
      OBVIOUS
    <3>1. <<k, m>> \in Nat \X Nat /\ <<k, m>>[1] < <<k, m>>[2]
      BY <2>1, <2>2
    <3> QED
      BY <1>3, <2>2, <3>1 DEF OpToRel
  <2> QED
    BY <1>4, <2>1, <2>2, <2>3
<1> QED
  BY <1>5

\* What the counts say of a block before a collection begins.
LEMMA CountsFinding ==
  ASSUME FtlInv, ~reused, Finding, NEW d \in Die, NEW b \in Block
  PROVE  /\ invalidSliceCnt[d][b] = Cardinality(Invalid(d, b))
         /\ invalidSliceCnt[d][b] \in 0..SLICES_PER_BLOCK
<1>1. invalidSliceCnt[d][b] = Cardinality(Invalid(d, b))
  BY DEF FtlInv, CountsExact, BeingCopied, Invalid, Finding
<1>2. IsFiniteSet(Invalid(d, b)) /\ Invalid(d, b) \subseteq Page /\ Cardinality(Invalid(d, b)) \in Nat
  BY InvalidFinite DEF FtlInv
<1>3. Cardinality(Invalid(d, b)) <= SLICES_PER_BLOCK
  BY <1>2, PageFinite, FS_Subset
<1> QED
  BY <1>1, <1>2, <1>3, FtlAssumption

LEMMA RoomAbort ==
  ASSUME FtlInv, Room, ~reused, pc = "find", Full(Current),
         FreeBlocks <= RESERVED_FREE_BLOCK_COUNT,
         \A b \in Block : ~MostInvalid(b), Abort
  PROVE  Room'
<1>1. /\ Target \in Die /\ FilledUp /\ FreeLeft /\ victimBlockNo = NONE /\ Finding
      /\ currentBlock \in [Die -> Block] /\ free \in [Die -> SUBSET Block]
      /\ currentPage \in [Die -> [Block -> 0..SLICES_PER_BLOCK]]
  BY DEF FtlInv, FtlTypeOK, Room, Rooms, Finding, Target
<1>2. \A b \in Block : invalidSliceCnt[Target][b] = Cardinality(Invalid(Target, b))
                       /\ invalidSliceCnt[Target][b] \in 0..SLICES_PER_BLOCK
  BY <1>1, CountsFinding
<1>3. \A b \in Block \ free[Target] : invalidSliceCnt[Target][b] = 0
  <2>1. SUFFICES ASSUME NEW b \in Block \ free[Target], invalidSliceCnt[Target][b] > 0
                 PROVE  FALSE
    BY <1>2
  <2>2. PICK S, n, f :
          /\ S = Block \ free[Target] /\ n = SLICES_PER_BLOCK /\ f = invalidSliceCnt[Target]
          /\ S \in SUBSET Block /\ n \in Nat
    BY FtlAssumption
  <2>3. \A c \in S : f[c] \in 0..n
    BY <1>2, <2>2
  <2>4. \E c \in S : \A e \in S : f[e] <= f[c]
    BY <2>1, <2>2, <2>3, MostExists
  <2>5. PICK c \in Block \ free[Target] :
          \A e \in Block \ free[Target] : invalidSliceCnt[Target][e] <= invalidSliceCnt[Target][c]
    BY <2>2, <2>4
  <2>6. invalidSliceCnt[Target][c] > 0
    BY <1>2, <2>1, <2>5, FtlAssumption
  <2> QED
    BY <2>5, <2>6 DEF MostInvalid
<1>4. ASSUME NEW b \in GoodBlocks(Target) \ free[Target], NEW p \in Page
      PROVE  Valid(Target, b, p)
  <2>1. b \in Block
    BY DEF GoodBlocks
  <2>2. currentPage[Target][b] = SLICES_PER_BLOCK
    BY <1>1 DEF FilledUp, Full, Current
  <2>3. Invalid(Target, b) = {}
    BY <1>1, <1>2, <1>3, <2>1, InvalidFinite, FS_EmptySet DEF FtlInv
  <2>4. p \in 0..currentPage[Target][b]-1
    BY <2>2 DEF Page
  <2> QED
    BY <2>3, <2>4 DEF Invalid
<1>5. /\ pc' = "aborted"
      /\ UNCHANGED <<logicalSlice, currentBlock, currentPage, free, Target,
                     victimBlockNo, reused>>
  BY DEF Abort, maps, blocks, Target
<1>6. AbortOnlyWhenFull'
  <2>1. \A b \in GoodBlocks(Target) \ free[Target], p \in Page : Valid(Target, b, p)'
    BY <1>4, <1>5 DEF Valid
  <2>2. Target' = Target /\ free' = free
    BY <1>5
  <2>3. FreeBlocks' <= RESERVED_FREE_BLOCK_COUNT
    BY <2>2 DEF FreeBlocks
  <2>4. (\A b \in GoodBlocks(Target) \ free[Target], p \in Page : Valid(Target, b, p))'
    BY <1>5, <2>1, <2>2 DEF GoodBlocks, Valid
  <2> QED
    BY <1>1, <1>5, <2>2, <2>3, <2>4 DEF AbortOnlyWhenFull
<1>7. FilledUp' /\ FreeLeft'
  BY <1>1, <1>5 DEF FilledUp, FreeLeft, GoodBlocks
<1> QED
  BY <1>5, <1>6, <1>7 DEF Room, Rooms

(***************************************************************************)
(* A collection.  It begins with a victim that has an invalid page, so     *)
(* that one block has room for what is left of it.                         *)
(***************************************************************************)
LEMMA RoomBegin ==
  ASSUME FtlInv, Room, ~reused, NEW b \in Block, MostInvalid(b), BeginCollection(b)
  PROVE  Room'
<1>1. /\ pc = "find" /\ Full(Current) /\ victimBlockNo' = b /\ pageNo' = 0
      /\ pc' \in {"erase", "collect"}
      /\ UNCHANGED <<logicalSlice, currentBlock, currentPage, free,
                     sliceAllocationTargetDie, reused>>
  BY DEF BeginCollection, maps, blocks
<1>2. Target \in Die /\ FilledUp /\ FreeLeft /\ Finding
  BY <1>1 DEF FtlInv, FtlTypeOK, Target, Room, Finding
<1>3. FilledUp' /\ FreeLeft'
  BY <1>1, <1>2 DEF FilledUp, FreeLeft, Target, GoodBlocks
<1>4. Invalid(Target, b) # {}
  <2>1. invalidSliceCnt[Target][b] = Cardinality(Invalid(Target, b))
    BY <1>2, CountsFinding
  <2>2. invalidSliceCnt[Target][b] > 0
    BY DEF MostInvalid
  <2> QED
    BY <2>1, <2>2, FS_EmptySet
<1>5. PICK q \in Page : ~Valid(Target, b, q)
  BY <1>2, <1>4, InvalidFinite DEF Invalid, FtlInv
<1>6. Left' \subseteq Page \ {q}
  <2>1. Left' \subseteq Page
    BY DEF Left, Page
  <2>2. Valid(Target, b, q)' <=> Valid(Target, b, q)
    BY <1>1 DEF Valid, Target
  <2>3. Target' = Target
    BY <1>1 DEF Target
  <2>4. Valid(Target, victimBlockNo, q)' <=> Valid(Target, b, q)
    BY <1>1, <2>3 DEF Valid
  <2>5. q \notin Left'
    BY <1>5, <2>4 DEF Left
  <2> QED
    BY <2>1, <2>5
<1>7. Cardinality(Left') < SLICES_PER_BLOCK
  <2>1. IsFiniteSet(Page \ {q}) /\ Cardinality(Page \ {q}) = SLICES_PER_BLOCK - 1
    BY PageFinite, FS_RemoveElement
  <2>2. Cardinality(Left') <= Cardinality(Page \ {q}) /\ IsFiniteSet(Left')
    BY <1>6, <2>1, FS_Subset
  <2> QED
    BY <2>1, <2>2, FS_CardinalityType, FtlAssumption
<1>8. NotTaken'
  <2>1. free'[Target'] # {}
    BY <1>1, <1>2 DEF FreeLeft, Target
  <2>2. Full(Current)'
    BY <1>1 DEF Full, Current, Target
  <2> QED
    BY <1>1, <1>7, <2>1, <2>2 DEF NotTaken
<1> QED
  BY <1>1, <1>3, <1>8 DEF Room, Rooms, AbortOnlyWhenFull

\* A page that no slice is mapped to leaves as much to copy, or less.
LEMMA RoomSkip ==
  ASSUME FtlInv, Room, ~reused, SkipPage
  PROVE  Room'
<1>1. /\ pc \in {"collect", "copy"} /\ pageNo' = pageNo + 1
      /\ UNCHANGED <<logicalSlice, currentBlock, currentPage, free, pc,
                     sliceAllocationTargetDie, victimBlockNo, reused>>
  BY DEF SkipPage, Collecting, maps, blocks
<1>2. FilledUp' /\ FreeLeft'
  BY <1>1 DEF Room, FilledUp, FreeLeft, Target, GoodBlocks
<1>3. pageNo \in Nat /\ Target \in Die /\ Current \in Block
      /\ currentPage[Target][Current] \in 0..SLICES_PER_BLOCK
  BY DEF FtlInv, FtlTypeOK, Target, Current
<1>4. Left' \subseteq Left
  <2>1. \A p \in Page : Valid(Target, victimBlockNo, p)' <=> Valid(Target, victimBlockNo, p)
    BY <1>1 DEF Valid, Target
  <2>2. \A p \in Page : p >= pageNo' => p >= pageNo
    BY <1>1, <1>3 DEF Page
  <2> QED
    BY <2>1, <2>2 DEF Left
<1>5. Cardinality(Left') <= Cardinality(Left) /\ Cardinality(Left') \in Nat
      /\ Cardinality(Left) \in Nat
  BY <1>4, LeftFinite, FS_Subset, FS_CardinalityType
<1>6. NotTaken => NotTaken'
  BY <1>1, <1>5, FtlAssumption DEF NotTaken, Full, Current, Target
<1>7. Taken => Taken'
  <2>1. Target' = Target /\ Current' = Current
    BY <1>1 DEF Current, Target
  <2>2. currentPage[Target][Current]' = currentPage[Target][Current]
    BY <1>1, <2>1
  <2> QED
    BY <1>1, <1>3, <1>5, <2>1, <2>2, FtlAssumption DEF Taken
<1>8. Rooms'
  BY <1>1, <1>6, <1>7 DEF Room, Rooms
<1> QED
  BY <1>1, <1>2, <1>8 DEF Room, AbortOnlyWhenFull

\* The block that is taken is empty.
LEMMA RoomTake ==
  ASSUME FtlInv, Room, ~reused, NEW b \in free[Target], TakeBlockForGc(b)
  PROVE  Room'
<1>1. /\ pc = "collect" /\ (victimBlockNo = Current \/ Full(Current))
      /\ currentBlock' = [currentBlock EXCEPT ![Target] = b]
      /\ free' = [free EXCEPT ![Target] = @ \ {b}]
      /\ pc' \in {"collect", "copy"}
      /\ UNCHANGED <<logicalSlice, currentPage, sliceAllocationTargetDie,
                     victimBlockNo, pageNo, reused>>
  BY DEF TakeBlockForGc, TakeBlock, CopyNeedsBlock, maps
<1>2. /\ Target \in Die /\ FreeClean /\ b \in Block
      /\ currentBlock \in [Die -> Block] /\ free \in [Die -> SUBSET Block]
      /\ currentPage[Target][Current] \in 0..SLICES_PER_BLOCK
      /\ victimBlockNo \notin free[Target]
  BY <1>1 DEF FtlInv, FtlTypeOK, Phases, Target, Current
<1>3. NotTaken
  <2> SUFFICES ASSUME Taken PROVE FALSE
    BY <1>1 DEF Room, Rooms
  <2>1. Full(Current) /\ currentPage[Target][Current] + Cardinality(Left) < SLICES_PER_BLOCK
    BY <1>1 DEF Taken
  <2> QED
    BY <1>2, <2>1, LeftFinite, FtlAssumption DEF Full
<1>4. Target' = Target /\ Current' = b /\ currentPage'[Target][b] = 0
  BY <1>1, <1>2 DEF Target, Current, FreeClean
<1>5. Left' = Left
  <2>1. \A p \in Page : Valid(Target, victimBlockNo, p)' <=> Valid(Target, victimBlockNo, p)
    BY <1>1, <1>4 DEF Valid
  <2> QED
    BY <1>1, <2>1 DEF Left
<1>6. Taken'
  <2>1. Cardinality(Left) < SLICES_PER_BLOCK
    BY <1>1, <1>3 DEF NotTaken
  <2>2. currentPage'[Target'][Current'] = 0
    BY <1>4
  <2>3. Cardinality(Left') = Cardinality(Left) /\ victimBlockNo' # Current'
    BY <1>1, <1>2, <1>4, <1>5
  <2> QED
    BY <2>1, <2>2, <2>3, LeftFinite DEF Taken
<1>7. FilledUp'
  <2> SUFFICES ASSUME NEW d \in Die, NEW c \in GoodBlocks(d) \ free'[d], c # currentBlock'[d]
               PROVE  currentPage[d][c] = SLICES_PER_BLOCK
    BY <1>1 DEF FilledUp, GoodBlocks
  <2>1. CASE d # Target
    BY <1>1, <1>2, <2>1 DEF Room, FilledUp
  <2>2. CASE d = Target
    <3>1. c # b /\ c \notin free[d]
      BY <1>1, <1>2, <2>2
    <3>2. CASE c = Current
      BY <1>3, <2>2, <3>2 DEF NotTaken, Full
    <3>3. CASE c # Current
      BY <2>2, <3>1, <3>3 DEF Room, FilledUp, Current
    <3> QED
      BY <3>2, <3>3
  <2> QED
    BY <2>1, <2>2
<1>8. FreeLeft'
  <2>1. \A d \in Die : d # Target => free'[d] = free[d] /\ free[d] # {}
    BY <1>1, <1>2 DEF Room, FreeLeft
  <2> QED
    BY <1>1, <1>4, <2>1 DEF FreeLeft
<1> QED
  BY <1>1, <1>6, <1>7, <1>8 DEF Room, Rooms, AbortOnlyWhenFull

\* A page that is copied moves from what is left to the current block.
LEMMA RoomCopy ==
  ASSUME FtlInv, Room, ~reused, CopyPage
  PROVE  Room'
<1>0. /\ pc \in {"collect", "copy"} /\ pageNo' = pageNo + 1
      /\ pc = "collect" => ~Full(Current)
      /\ UNCHANGED <<currentBlock, free, sliceAllocationTargetDie, victimBlockNo, reused>>
  BY DEF CopyPage, Collecting
<1>1. PICK c \in Block, l \in Lsa, x \in Data \cup {NONE} :
        c = Current /\ l = OldLsa /\ x = flash[OldVsa] /\ PlacePre(c, l, x)
  BY CopyPre DEF PlacePre
<1>2. /\ pageNo \in Page /\ victimBlockNo \in Block /\ Target \in Die
      /\ victimBlockNo # c
      /\ logicalSlice[l] = <<Target, victimBlockNo, pageNo>>
  BY <1>1, CopyPre DEF OldVsa
<1>3. pc' = "collect"
  <2>1. currentPage'[Target][c] \in 0..SLICES_PER_BLOCK
    BY <1>1, <1>2, PlaceType
  <2>2. ~(currentPage'[Target][c] > SLICES_PER_BLOCK)
    BY <2>1, FtlAssumption
  <2> QED
    BY <1>1, <2>2 DEF CopyPage
<1>4. /\ currentPage' = [currentPage EXCEPT ![Target][c] = NewPage(c) + 1]
      /\ logicalSlice' = [logicalSlice EXCEPT ![l] = NewVsa(c)]
  BY <1>1, PlaceNew
<1>5. /\ currentPage \in [Die -> [Block -> 0..SLICES_PER_BLOCK]]
      /\ logicalSlice \in [Lsa -> Vsa \cup {NONE}]
      /\ Target' = Target /\ Current' = c
  BY <1>0, <1>1 DEF FtlInv, FtlTypeOK, Target, Current
<1>6. Taken
  BY <1>0, <1>1 DEF Room, Rooms, NotTaken
<1>7. Left' \subseteq Left \ {pageNo}
  <2> SUFFICES ASSUME NEW p \in Page, p >= pageNo + 1, Valid(Target, victimBlockNo, p)'
               PROVE  p >= pageNo /\ p # pageNo /\ Valid(Target, victimBlockNo, p)
    BY <1>0, <1>5 DEF Left
  <2>1. PICK k \in Lsa : logicalSlice'[k] = <<Target, victimBlockNo, p>>
    BY <1>0, <1>5 DEF Valid
  <2>2. k # l
    BY <1>2, <1>4, <1>5, <2>1 DEF NewVsa
  <2>3. logicalSlice[k] = <<Target, victimBlockNo, p>>
    BY <1>4, <1>5, <2>1, <2>2
  <2> QED
    BY <1>2, <2>3 DEF Valid, Page
<1>8. pageNo \in Left
  BY <1>2 DEF Left, Valid, Page
<1>9. Cardinality(Left') \in Nat /\ Cardinality(Left') <= Cardinality(Left) - 1
  <2>1. IsFiniteSet(Left \ {pageNo}) /\ Cardinality(Left \ {pageNo}) = Cardinality(Left) - 1
    BY <1>8, LeftFinite, FS_RemoveElement
  <2> QED
    BY <1>7, <2>1, FS_Subset, FS_CardinalityType
<1>10. Taken'
  <2>1. currentPage'[Target][c] = currentPage[Target][c] + 1
        /\ currentPage[Target][c] \in 0..SLICES_PER_BLOCK
    BY <1>2, <1>4, <1>5 DEF NewPage
  <2>2. currentPage[Target][Current]' = currentPage[Target][c] + 1
    BY <1>5, <2>1
  <2>3. currentPage[Target][c] + Cardinality(Left) < SLICES_PER_BLOCK
    BY <1>1, <1>6 DEF Taken
  <2>4. victimBlockNo' # Current'
    BY <1>0, <1>2, <1>5
  <2> QED
    BY <1>9, <2>1, <2>2, <2>3, <2>4, LeftFinite, FtlAssumption DEF Taken
<1>11. FilledUp'
  <2> SUFFICES ASSUME NEW d \in Die, NEW e \in GoodBlocks(d) \ free[d], e # currentBlock[d]
               PROVE  currentPage'[d][e] = SLICES_PER_BLOCK
    BY <1>0 DEF FilledUp, GoodBlocks
  <2>1. e \in Block /\ ~(d = Target /\ e = c)
    BY <1>1 DEF GoodBlocks, Current
  <2>2. currentPage'[d][e] = currentPage[d][e]
    BY <1>4, <1>5, <2>1
  <2> QED
    BY <2>2 DEF Room, FilledUp
<1>12. FreeLeft'
  BY <1>0, <1>3, <1>5 DEF Room, FreeLeft
<1> QED
  BY <1>0, <1>3, <1>10, <1>11, <1>12 DEF Room, Rooms, AbortOnlyWhenFull

\* The erased block comes back on top of the reserved one, or of one with room.
LEMMA RoomErase ==
  ASSUME FtlInv, Room, ~reused', EraseBlock
  PROVE  Room'
<1>1. /\ ~reused /\ victimBlockNo # Current
      /\ pc \in {"erase", "collect"}
      /\ currentPage' = [currentPage EXCEPT ![Target][victimBlockNo] = 0]
      /\ free' = [free EXCEPT ![Target] = @ \cup {victimBlockNo}]
      /\ victimBlockNo' = NONE /\ pc' = "found"
      /\ UNCHANGED <<currentBlock, sliceAllocationTargetDie>>
  BY DEF EraseBlock
<1>2. /\ Target \in Die /\ victimBlockNo \in Block /\ victimBlockNo \notin free[Target]
  BY <1>1, VictimEmpty
<1>3. /\ free \in [Die -> SUBSET Block] /\ currentBlock \in [Die -> Block]
      /\ currentPage \in [Die -> [Block -> 0..SLICES_PER_BLOCK]]
      /\ Target' = Target /\ Current' = Current
  BY <1>1 DEF FtlInv, FtlTypeOK, Target, Current
<1>4. free'[Target] = free[Target] \cup {victimBlockNo}
  BY <1>1, <1>2, <1>3
<1>5. FreeBlocks' > RESERVED_FREE_BLOCK_COUNT \/ ~Full(Current)'
  <2>1. CASE NotTaken
    <3>1. free[Target] # {}
      BY <2>1 DEF NotTaken
    <3>2. IsFiniteSet(free[Target])
      BY <1>1, <1>2, FreeFinite DEF FtlInv
    <3>3. Cardinality(free[Target]) \in Nat /\ Cardinality(free[Target]) # 0
      BY <3>1, <3>2, FS_CardinalityType, FS_EmptySet
    <3>4. Cardinality(free'[Target]) = Cardinality(free[Target]) + 1
      BY <1>2, <1>4, <3>2, FS_AddElement
    <3>5. FreeBlocks' = Cardinality(free'[Target])
      BY <1>3 DEF FreeBlocks
    <3> QED
      BY <3>3, <3>4, <3>5 DEF RESERVED_FREE_BLOCK_COUNT
  <2>2. CASE Taken
    <3>1. currentPage[Target][Current] \in 0..SLICES_PER_BLOCK /\ Current \in Block
      BY <1>2, <1>3 DEF Current
    <3>2. currentPage[Target][Current] # SLICES_PER_BLOCK
      BY <2>2, <3>1, LeftFinite, FtlAssumption DEF Taken
    <3>3. currentPage'[Target][Current] = currentPage[Target][Current]
      BY <1>1, <1>2, <1>3, <3>1
    <3> QED
      BY <1>3, <3>2, <3>3 DEF Full
  <2> QED
    BY <1>1, <2>1, <2>2 DEF Room, Rooms
<1>6. FilledUp'
  <2> SUFFICES ASSUME NEW d \in Die, NEW e \in GoodBlocks(d) \ free'[d], e # currentBlock[d]
               PROVE  currentPage'[d][e] = SLICES_PER_BLOCK
    BY <1>1 DEF FilledUp, GoodBlocks
  <2>1. e \in Block /\ e \notin free[d] /\ ~(d = Target /\ e = victimBlockNo)
    BY <1>1, <1>2, <1>3 DEF GoodBlocks
  <2>2. currentPage'[d][e] = currentPage[d][e]
    BY <1>1, <1>3, <2>1
  <2> QED
    BY <1>1, <2>1, <2>2 DEF Room, FilledUp
<1>7. FreeLeft'
  <2>1. \A d \in Die : d # Target => free'[d] = free[d] /\ free[d] # {}
    BY <1>1, <1>3 DEF Room, FreeLeft
  <2> QED
    BY <1>4, <2>1 DEF FreeLeft
<1> QED
  BY <1>1, <1>5, <1>6, <1>7 DEF Room, Rooms, AbortOnlyWhenFull

LEMMA RoomStep ==
  ASSUME FtlInv, Room, FtlNext
  PROVE  Room'
<1>1. CASE reused'
  BY <1>1 DEF Room
<1>2. CASE ~reused'
  <2>0. ~reused
    BY <1>2, ReusedStays
  <2>1. ASSUME NEW l \in Lsa, Invalidate(l) PROVE Room'
    BY <2>0, <2>1, RoomGiveUp DEF Invalidate, control
  <2>2. ASSUME NEW l \in Lsa, NEW x \in Data, AddrTransWrite(l, x) PROVE Room'
    BY <2>0, <2>2, RoomGiveUp DEF AddrTransWrite
  <2>3. CASE FtlFind
    <3>1. CASE FindInCurrentBlock
      BY <2>0, <3>1, RoomFindCurrent
    <3>2. ASSUME FreeBlocks > RESERVED_FREE_BLOCK_COUNT,
                 NEW b \in free[Target], FindInFreeBlock(b)
          PROVE  Room'
      BY <2>0, <3>2, RoomFindFree
    <3>3. ASSUME NEW b \in Block, MostInvalid(b), BeginCollection(b) PROVE Room'
      BY <2>0, <3>3, RoomBegin
    <3>4. ASSUME FreeBlocks <= RESERVED_FREE_BLOCK_COUNT, pc = "find", Full(Current),
                 \A b \in Block : ~MostInvalid(b), Abort
          PROVE  Room'
      BY <2>0, <3>4, RoomAbort
    <3>5. ASSUME FreeBlocks <= RESERVED_FREE_BLOCK_COUNT, pc = "found", Full(Current)
          PROVE  FALSE
      <4>1. Cardinality(free[Target]) \in Nat
        BY <2>0, FreeFinite DEF FtlInv, FtlTypeOK, Target
      <4> QED
        BY <2>0, <3>5, <4>1 DEF Room, Rooms, FreeBlocks, RESERVED_FREE_BLOCK_COUNT
    <3> QED
      BY <2>3, <3>1, <3>2, <3>3, <3>4, <3>5 DEF FtlFind
  <2>4. CASE FtlCollect
    <3>1. CASE SkipPage
      BY <2>0, <3>1, RoomSkip
    <3>2. ASSUME NEW b \in free[Target], TakeBlockForGc(b) PROVE Room'
      BY <2>0, <3>2, RoomTake
    <3>3. ASSUME CopyNeedsBlock, free[Target] = {} PROVE FALSE
      <4>1. /\ pc = "collect" /\ (victimBlockNo = Current \/ Full(Current))
            /\ currentPage[Target][Current] \in 0..SLICES_PER_BLOCK
        BY <2>0, <3>3 DEF CopyNeedsBlock, FtlInv, FtlTypeOK, Target, Current
      <4>2. Taken
        BY <2>0, <3>3, <4>1 DEF Room, Rooms, NotTaken
      <4> QED
        BY <4>1, <4>2, LeftFinite, FtlAssumption DEF Taken, Full
    <3>4. CASE CopyPage
      BY <2>0, <3>4, RoomCopy
    <3>5. CASE EraseBlock
      BY <1>2, <3>5, RoomErase
    <3> QED
      BY <2>4, <3>1, <3>2, <3>3, <3>4, <3>5 DEF FtlCollect
  <2> QED
    BY <2>1, <2>2, <2>3, <2>4 DEF FtlNext
<1> QED
  BY <1>1, <1>2

LEMMA RoomStutter ==
  ASSUME Room, UNCHANGED ftlVars
  PROVE  Room'
<1>1. UNCHANGED <<logicalSlice, currentBlock, currentPage, free,
                  sliceAllocationTargetDie, pc, victimBlockNo, pageNo, reused>>
  BY DEF ftlVars, maps, blocks, control
<1>2. FilledUp' <=> FilledUp
  BY <1>1 DEF FilledUp, GoodBlocks
<1>3. FreeLeft' <=> FreeLeft
  BY <1>1 DEF FreeLeft, Target
<1>4. NotTaken' <=> NotTaken
  BY <1>1 DEF NotTaken, Left, Valid, Full, Current, Target
<1>5. Taken' <=> Taken
  BY <1>1 DEF Taken, Left, Valid, Current, Target
<1>6. Rooms' <=> Rooms
  BY <1>1, <1>4, <1>5 DEF Rooms, FreeBlocks, Full, Current, Target
<1>7. AbortOnlyWhenFull' <=> AbortOnlyWhenFull
  BY <1>1 DEF AbortOnlyWhenFull, FreeBlocks, GoodBlocks, Valid, Target
<1> QED
  BY <1>1, <1>2, <1>3, <1>6, <1>7 DEF Room

(***************************************************************************)
(* FindFreeVirtualSlice gives up only when every page of the die but those *)
(* of the reserved block holds a slice, and a collection always has a      *)
(* block to copy to (the assertions "There are no free blocks"), as long   *)
(* as no collection erased the current block.                              *)
(***************************************************************************)
THEOREM AbortsOnlyWhenFull == FtlSpec => []AbortOnlyWhenFull
<1>1. FtlInv /\ Room /\ [FtlNext]_ftlVars => Room'
  BY RoomStep, RoomStutter
<1>2. Room => AbortOnlyWhenFull
  BY DEF Room, AbortOnlyWhenFull
<1> QED
  BY <1>1, <1>2, RoomInit, FtlInvariant, PTL DEF FtlSpec
=============================================================================
