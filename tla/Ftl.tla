-------------------------------- MODULE Ftl --------------------------------
(***************************************************************************)
(* The flash translation layer: address_translation.c and                  *)
(* garbage_collection.c.  A logical slice is mapped to a page of a block   *)
(* of a die; a write takes the next page of the current block of the die   *)
(* whose turn it is, and collects garbage in that die when only the        *)
(* reserved free block is left.  A write runs to its end before the next   *)
(* one; it is cut into steps here, one per page that a collection looks    *)
(* at.                                                                     *)
(*                                                                         *)
(* Free blocks and collection victims are sets here; FtlLists has the      *)
(* linked lists of the code, which decide which block is taken.  The NAND  *)
(* requests are taken to be carried out in order (RequestScheduler).       *)
(***************************************************************************)
EXTENDS Integers, FiniteSets

CONSTANTS
  USER_DIES,
  USER_BLOCKS_PER_DIE,
  Bad,                   \* <<die, block>>: virtual blocks with the bad flag
  SLICES_PER_BLOCK,      \* = USER_PAGES_PER_BLOCK
  Lsa,                   \* logical slices that are ever written
  Data,
  NONE                   \* LSA_NONE, VSA_NONE, BLOCK_NONE and no data

ASSUME FtlAssumption ==
  /\ USER_DIES \in Nat \ {0}
  /\ USER_BLOCKS_PER_DIE \in Nat
  /\ \A d \in 0..USER_DIES-1 : \E b, c \in 0..USER_BLOCKS_PER_DIE-1 :
       b # c /\ <<d, b>> \notin Bad /\ <<d, c>> \notin Bad
  /\ SLICES_PER_BLOCK \in Nat \ {0}
  /\ NONE \notin Lsa /\ NONE \notin Data /\ NONE \notin Nat
  /\ NONE \notin Nat \X Nat \X Nat /\ NONE \notin Lsa \X Data

RESERVED_FREE_BLOCK_COUNT == 1

Die == 0..USER_DIES-1
Block == 0..USER_BLOCKS_PER_DIE-1
Page == 0..SLICES_PER_BLOCK-1
Vsa == Die \X Block \X Page

\* A page number past the block is a page of the next block.
Vorg2VsaTranslation(d, b, p) ==
  IF p < SLICES_PER_BLOCK THEN <<d, b, p>> ELSE <<d, b + 1, p - SLICES_PER_BLOCK>>

VARIABLES
  logicalSlice,             \* virtualSliceAddr of each Lsa
  virtualSlice,             \* logicalSliceAddr of each Vsa
  flash,                    \* what the pages hold
  currentBlock,             \* per die
  currentPage,              \* per die and block: pages handed out
  invalidSliceCnt,          \* per die and block
  free,                     \* per die: good blocks whose free flag is set
  sliceAllocationTargetDie,
  pc,                       \* how far the write has come; "idle" between writes
  request,                  \* <<logicalSliceAddr, data>> of the write
  victimBlockNo,
  pageNo,                   \* page of the victim that is looked at
  reused                    \* history: a collection erased the current block

maps == <<logicalSlice, virtualSlice, flash>>
blocks == <<currentBlock, currentPage, invalidSliceCnt, free>>
control == <<sliceAllocationTargetDie, pc, request, victimBlockNo, pageNo>>
ftlVars == <<maps, blocks, control, reused>>

\* Bad blocks are in no list.  InitCurrentBlockOfDieMap takes the first of the
\* good ones of each die.
GoodBlocks(d) == {b \in Block : <<d, b>> \notin Bad}
FirstBlock(d) == CHOOSE b \in GoodBlocks(d) : \A c \in GoodBlocks(d) : b <= c

FtlInit ==
  /\ logicalSlice = [l \in Lsa |-> NONE]
  /\ virtualSlice = [v \in Vsa |-> NONE]
  /\ flash = [v \in Vsa |-> NONE]
  /\ currentBlock = [d \in Die |-> FirstBlock(d)]
  /\ currentPage = [d \in Die |-> [b \in Block |-> 0]]
  /\ invalidSliceCnt = [d \in Die |-> [b \in Block |-> 0]]
  /\ free = [d \in Die |-> GoodBlocks(d) \ {FirstBlock(d)}]
  /\ sliceAllocationTargetDie = 0
  /\ pc = "idle"
  /\ request = NONE
  /\ victimBlockNo = NONE
  /\ pageNo = 0
  /\ reused = FALSE

-----------------------------------------------------------------------------
(***************************************************************************)
(* InvalidateOldVsa.                                                       *)
(***************************************************************************)
HasOldVsa(l) == logicalSlice[l] # NONE /\ virtualSlice[logicalSlice[l]] = l

InvalidateOldVsa(l) ==
  IF HasOldVsa(l)
  THEN LET d == logicalSlice[l][1]
           b == logicalSlice[l][2]
       IN  /\ invalidSliceCnt' = [invalidSliceCnt EXCEPT ![d][b] = @ + 1]
           /\ logicalSlice' = [logicalSlice EXCEPT ![l] = NONE]
  ELSE UNCHANGED <<invalidSliceCnt, logicalSlice>>

\* DoCompaction invalidates the pages of the segments that it merged.
Invalidate(l) ==
  /\ pc = "idle"
  /\ InvalidateOldVsa(l)
  /\ UNCHANGED <<virtualSlice, flash, currentBlock, currentPage, free, control,
                 reused>>

\* AddrTransWrite begins by giving up the old page.
AddrTransWrite(l, x) ==
  /\ pc = "idle"
  /\ InvalidateOldVsa(l)
  /\ pc' = "find"
  /\ request' = <<l, x>>
  /\ UNCHANGED <<virtualSlice, flash, currentBlock, currentPage, free,
                 sliceAllocationTargetDie, victimBlockNo, pageNo, reused>>

-----------------------------------------------------------------------------
(***************************************************************************)
(* FindFreeVirtualSlice, first before and then after a collection.         *)
(***************************************************************************)
Target == sliceAllocationTargetDie
Current == currentBlock[Target]
Finding == pc \in {"find", "found"}
FullOneLate(b) == currentPage[Target][b] > SLICES_PER_BLOCK
Full(b) == currentPage[Target][b] = SLICES_PER_BLOCK
FreeBlocks == Cardinality(free[Target])

\* GetFromFbList hands out block b, which becomes the current one.
TakeBlock(b) ==
  /\ currentBlock' = [currentBlock EXCEPT ![Target] = b]
  /\ free' = [free EXCEPT ![Target] = @ \ {b}]

\* The next page of block b is handed out for slice l and programmed.
Place(b, l, x) ==
  LET v == Vorg2VsaTranslation(Target, b, currentPage[Target][b])
  IN  /\ currentPage' = [currentPage EXCEPT ![Target][b] = @ + 1]
      /\ logicalSlice' = [logicalSlice EXCEPT ![l] = v]
      /\ virtualSlice' = [virtualSlice EXCEPT ![v] = l]
      /\ flash' = [flash EXCEPT ![v] = x]

\* The next write goes to the next die.  Once a page beyond its block was
\* handed out, the maps are of no use and the model stops.
EndWrite(b) ==
  /\ Place(b, request[1], request[2])
  /\ sliceAllocationTargetDie' = (Target + 1) % USER_DIES
  /\ pc' = IF currentPage'[Target][b] > SLICES_PER_BLOCK THEN "beyond" ELSE "idle"
  /\ request' = NONE
  /\ UNCHANGED <<invalidSliceCnt, victimBlockNo, pageNo, reused>>

FindInCurrentBlock ==
  /\ Finding /\ ~Full(Current)
  /\ EndWrite(Current)
  /\ UNCHANGED <<currentBlock, free>>

FindInFreeBlock(b) ==
  /\ Finding /\ Full(Current)
  /\ TakeBlock(b)
  /\ EndWrite(b)

\* A failed assertion ends the firmware.
Abort ==
  /\ pc' = "aborted"
  /\ UNCHANGED <<maps, blocks, sliceAllocationTargetDie, request, victimBlockNo,
                 pageNo, reused>>

(***************************************************************************)
(* GarbageCollection.  A victim without valid pages is erased right away.  *)
(***************************************************************************)
BeginCollection(b) ==
  /\ pc = "find" /\ Full(Current)
  /\ victimBlockNo' = b
  /\ pageNo' = 0
  /\ pc' = IF invalidSliceCnt[Target][b] = SLICES_PER_BLOCK THEN "erase" ELSE "collect"
  /\ UNCHANGED <<maps, blocks, sliceAllocationTargetDie, request, reused>>

OldVsa == <<Target, victimBlockNo, pageNo>>
OldLsa == virtualSlice[OldVsa]
ValidOrStale == OldLsa # NONE
ValidData == OldLsa # NONE /\ logicalSlice[OldLsa] = OldVsa

AllButLastSeen == pageNo = SLICES_PER_BLOCK - 1
AllSeen == pageNo = SLICES_PER_BLOCK
Collecting == pc \in {"collect", "copy"} /\ ~AllSeen

SkipPage ==
  /\ Collecting /\ ~ValidData
  /\ pageNo' = pageNo + 1
  /\ UNCHANGED <<maps, blocks, sliceAllocationTargetDie, pc, request,
                 victimBlockNo, reused>>

\* FindFreeVirtualSliceForGc: a victim that is the current block is replaced
\* first; then a current block that is full, without a second look ("copy").
CopyNeedsBlock ==
  /\ pc = "collect" /\ Collecting /\ ValidData
  /\ victimBlockNo = Current \/ Full(Current)

TakeBlockForGc(b) ==
  /\ CopyNeedsBlock
  /\ TakeBlock(b)
  /\ pc' = IF victimBlockNo = Current THEN "collect" ELSE "copy"
  /\ UNCHANGED <<maps, currentPage, invalidSliceCnt, sliceAllocationTargetDie,
                 request, victimBlockNo, pageNo, reused>>

CopyPage ==
  /\ Collecting /\ ValidData
  /\ pc = "collect" => victimBlockNo # Current /\ ~Full(Current)
  /\ Place(Current, OldLsa, flash[OldVsa])
  /\ pageNo' = pageNo + 1
  /\ pc' = IF currentPage'[Target][Current] > SLICES_PER_BLOCK THEN "beyond" ELSE "collect"
  /\ UNCHANGED <<currentBlock, invalidSliceCnt, free, sliceAllocationTargetDie,
                 request, victimBlockNo, reused>>

EraseBlock ==
  /\ pc = "erase" \/ (pc = "collect" /\ AllSeen)
  /\ LET InVictim(v) == v[1] = Target /\ v[2] = victimBlockNo
     IN  /\ virtualSlice' = [v \in Vsa |-> IF InVictim(v) THEN NONE ELSE virtualSlice[v]]
         /\ flash' = [v \in Vsa |-> IF InVictim(v) THEN NONE ELSE flash[v]]
  /\ currentPage' = [currentPage EXCEPT ![Target][victimBlockNo] = 0]
  /\ invalidSliceCnt' = [invalidSliceCnt EXCEPT ![Target][victimBlockNo] = 0]
  /\ free' = [free EXCEPT ![Target] = @ \cup {victimBlockNo}]
  /\ victimBlockNo' = NONE
  /\ pageNo' = 0
  /\ pc' = "found"
  /\ reused' = (reused \/ victimBlockNo = Current)
  /\ UNCHANGED <<logicalSlice, currentBlock, sliceAllocationTargetDie, request>>

-----------------------------------------------------------------------------
(***************************************************************************)
(* Which block is taken is left open but for its being free, and so is the *)
(* victim but for its having the most invalid slices.                      *)
(***************************************************************************)
MostInvalid(b) ==
  /\ b \notin free[Target]
  /\ invalidSliceCnt[Target][b] > 0
  /\ \A c \in Block \ free[Target] :
       invalidSliceCnt[Target][c] <= invalidSliceCnt[Target][b]

FtlFind ==
  \/ FindInCurrentBlock
  \/ /\ FreeBlocks > RESERVED_FREE_BLOCK_COUNT
     /\ \E b \in free[Target] : FindInFreeBlock(b)
  \/ /\ FreeBlocks <= RESERVED_FREE_BLOCK_COUNT
     /\ \/ \E b \in Block : MostInvalid(b) /\ BeginCollection(b)
        \/ pc = "find" /\ Full(Current) /\ (\A b \in Block : ~MostInvalid(b)) /\ Abort
        \/ pc = "found" /\ Full(Current) /\ Abort

FtlCollect ==
  \/ SkipPage
  \/ \E b \in free[Target] : TakeBlockForGc(b)
  \/ CopyNeedsBlock /\ free[Target] = {} /\ Abort
  \/ CopyPage
  \/ EraseBlock

FtlNext ==
  \/ \E l \in Lsa : Invalidate(l) \/ \E x \in Data : AddrTransWrite(l, x)
  \/ FtlFind
  \/ FtlCollect

FtlSpec == FtlInit /\ [][FtlNext]_ftlVars

-----------------------------------------------------------------------------
(***************************************************************************)
(* Type invariant.  It says as well that no page beyond its block is       *)
(* handed out, as long as no collection erased the current block.          *)
(***************************************************************************)
FtlTypeOK ==
  ~reused =>
    /\ logicalSlice \in [Lsa -> Vsa \cup {NONE}]
    /\ virtualSlice \in [Vsa -> Lsa \cup {NONE}]
    /\ flash \in [Vsa -> Data \cup {NONE}]
    /\ currentBlock \in [Die -> Block]
    /\ currentPage \in [Die -> [Block -> 0..SLICES_PER_BLOCK]]
    /\ invalidSliceCnt \in [Die -> [Block -> Nat]]
    /\ free \in [Die -> SUBSET Block]
    /\ sliceAllocationTargetDie \in Die
    /\ pc \in {"idle", "find", "collect", "copy", "erase", "found", "aborted"}
    /\ pc \in {"find", "collect", "copy", "erase", "found"} => request \in Lsa \X Data
    /\ pc \in {"collect", "copy", "erase"} => victimBlockNo \in Block
    /\ pageNo \in 0..SLICES_PER_BLOCK
    /\ reused \in BOOLEAN

Valid(d, b, p) == \E l \in Lsa : logicalSlice[l] = <<d, b, p>>

(***************************************************************************)
(* The two maps agree: the page that a slice is mapped to knows the slice, *)
(* has been handed out, and is in no free block.  So no two slices share a *)
(* page and no erased page is ever read, through any number of             *)
(* collections, as long as no collection erased the current block.         *)
(***************************************************************************)
MapsInverse ==
  ~reused =>
    \A l \in Lsa, d \in Die, b \in Block, p \in Page :
      logicalSlice[l] = <<d, b, p>> =>
        /\ virtualSlice[<<d, b, p>>] = l
        /\ p < currentPage[d][b]
        /\ b \notin free[d]

(***************************************************************************)
(* The count by which victims are chosen, and by which a collection        *)
(* decides to copy nothing, is exact: it is the number of pages handed out *)
(* that no slice is mapped to.  It is not kept up while a victim's pages   *)
(* are copied.                                                             *)
(***************************************************************************)
BeingCopied(d, b) ==
  pc \in {"collect", "copy", "aborted"} /\ d = Target /\ b = victimBlockNo

CountsExact ==
  ~reused =>
    \A d \in Die, b \in Block :
      BeingCopied(d, b) \/
        invalidSliceCnt[d][b] =
          Cardinality({p \in 0..currentPage[d][b]-1 : ~Valid(d, b, p)})

(***************************************************************************)
(* The firmware gives up ("There are no free blocks. Abort terminate this  *)
(* ssd.") only when every page of the die but those of the reserved block  *)
(* holds valid data, and never in the middle of a collection, which has    *)
(* the reserved block to copy to.  Nothing moves data to another die, so   *)
(* it may happen although other dies have room.                            *)
(***************************************************************************)
AbortOnlyWhenFull ==
  pc = "aborted" /\ ~reused =>
    /\ victimBlockNo = NONE
    /\ FreeBlocks <= RESERVED_FREE_BLOCK_COUNT
    /\ \A b \in GoodBlocks(Target) \ free[Target], p \in Page : Valid(Target, b, p)

(***************************************************************************)
(* To the rest of the firmware the layer is a store of slices: what is     *)
(* read back through the map is what was stored there last, and a          *)
(* collection neither loses a slice nor brings an old one back, again      *)
(* unless it erased the current block.                                     *)
(***************************************************************************)
Content ==
  [l \in Lsa |-> IF logicalSlice[l] = NONE THEN NONE ELSE flash[logicalSlice[l]]]

Store == INSTANCE SliceStore WITH content <- Content

ImplementsStore ==
  Store!StoreInit /\ [][~reused' => Store!StoreNext \/ UNCHANGED <<Content, request>>]_ftlVars
=============================================================================
