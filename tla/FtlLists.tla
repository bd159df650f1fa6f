------------------------------ MODULE FtlLists ------------------------------
(***************************************************************************)
(* Ftl with the doubly linked lists of the code: the free blocks of each   *)
(* die, first in first out, and, for each number of invalid slices, the    *)
(* blocks that a collection may pick.  All lists of a die link blocks      *)
(* through the same two fields of the block, prevBlock and nextBlock.      *)
(***************************************************************************)
EXTENDS Ftl

VARIABLES
  links,          \* per die: [head, tail] of each list, [prev, next] of each block
  freeBlockCnt    \* per die

listVars == <<links, freeBlockCnt>>

FreeList == -1
List == {FreeList} \cup 0..SLICES_PER_BLOCK

-----------------------------------------------------------------------------
(***************************************************************************)
(* The list operations, on the links r of one die.                         *)
(***************************************************************************)
PutTailUnlinked(r, i, b) ==
  LET t == r.tail[i]
  IN  [head |-> IF t = NONE THEN [r.head EXCEPT ![i] = b] ELSE r.head,
       tail |-> [r.tail EXCEPT ![i] = b],
       prev |-> [r.prev EXCEPT ![b] = t],
       next |-> [r.next EXCEPT ![b] = NONE]]

\* PutToFbList, PutToGcVictimList
PutTail(r, i, b) ==
  LET t == r.tail[i]
  IN  [head |-> IF t = NONE THEN [r.head EXCEPT ![i] = b] ELSE r.head,
       tail |-> [r.tail EXCEPT ![i] = b],
       prev |-> [r.prev EXCEPT ![b] = t],
       next |-> IF t = NONE THEN [r.next EXCEPT ![b] = NONE]
                ELSE [r.next EXCEPT ![b] = NONE, ![t] = b]]

\* GetFromGcVictimList leaves the fields of the block as they are.
GetHead(r, i) ==
  LET b == r.head[i]
      n == r.next[b]
  IN  IF n # NONE THEN [r EXCEPT !.head[i] = n, !.prev[n] = NONE]
      ELSE [r EXCEPT !.head[i] = NONE, !.tail[i] = NONE]

\* GetFromFbList
GetFree(r) ==
  [GetHead(r, FreeList) EXCEPT !.next[r.head[FreeList]] = NONE,
                               !.prev[r.head[FreeList]] = NONE]

SelectiveGetHeadOnly(r, i, b) ==
  LET n == r.next[b]
      p == r.prev[b]
  IN  CASE n # NONE /\ p # NONE -> [r EXCEPT !.next[p] = n, !.prev[n] = p]
        [] n = NONE /\ p # NONE -> [r EXCEPT !.next[p] = NONE]
        [] n # NONE /\ p = NONE -> [r EXCEPT !.prev[n] = NONE, !.head[i] = n]
        [] OTHER                -> [r EXCEPT !.head[i] = NONE, !.tail[i] = NONE]

\* SelectiveGetFromGcVictimList.  A block in no list empties list 0.
SelectiveGet(r, i, b) ==
  LET n == r.next[b]
      p == r.prev[b]
  IN  CASE n # NONE /\ p # NONE -> [r EXCEPT !.next[p] = n, !.prev[n] = p]
        [] n = NONE /\ p # NONE -> [r EXCEPT !.next[p] = NONE, !.tail[i] = p]
        [] n # NONE /\ p = NONE -> [r EXCEPT !.prev[n] = NONE, !.head[i] = n]
        [] OTHER                -> [r EXCEPT !.head[i] = NONE, !.tail[i] = NONE]

-----------------------------------------------------------------------------
(***************************************************************************)
(* InitBlockMap lists all blocks in order, InitGcVictimMap none, and       *)
(* InitCurrentBlockOfDieMap takes the first block of each die.             *)
(***************************************************************************)
Unlinked ==
  [head |-> [i \in List |-> NONE], tail |-> [i \in List |-> NONE],
   prev |-> [b \in Block |-> NONE], next |-> [b \in Block |-> NONE]]

AllFree(d) ==
  LET Listed[n \in 0..USER_BLOCKS_PER_DIE] ==
        IF n = 0 THEN Unlinked
        ELSE IF n - 1 \in GoodBlocks(d) THEN PutTail(Listed[n-1], FreeList, n - 1)
        ELSE Listed[n-1]
  IN  Listed[USER_BLOCKS_PER_DIE]

ListsInit ==
  /\ FtlInit
  /\ links = [d \in Die |-> GetFree(AllFree(d))]
  /\ freeBlockCnt = [d \in Die |-> Cardinality(GoodBlocks(d)) - 1]

(***************************************************************************)
(* The actions of Ftl with the lists they keep.                            *)
(***************************************************************************)
MoveToNextList(l) ==
  /\ links' = IF HasOldVsa(l)
              THEN LET d == logicalSlice[l][1]
                       b == logicalSlice[l][2]
                       n == invalidSliceCnt[d][b]
                   IN  [links EXCEPT ![d] = PutTail(SelectiveGet(@, n, b), n + 1, b)]
              ELSE links
  /\ UNCHANGED freeBlockCnt

ListInvalidate(l) == Invalidate(l) /\ MoveToNextList(l)
ListAddrTransWrite(l, x) == AddrTransWrite(l, x) /\ MoveToNextList(l)

HeadFreeBlock == links[Target].head[FreeList]

GetFromFbList ==
  /\ links' = [links EXCEPT ![Target] = GetFree(@)]
  /\ freeBlockCnt' = [freeBlockCnt EXCEPT ![Target] = @ - 1]

NormalBlockAvailableReserveToo == freeBlockCnt[Target] > 0
NormalBlockAvailable == freeBlockCnt[Target] > RESERVED_FREE_BLOCK_COUNT

ListFindInFreeBlock ==
  /\ NormalBlockAvailable
  /\ FindInFreeBlock(HeadFreeBlock)
  /\ GetFromFbList

VictimLists == {n \in 1..SLICES_PER_BLOCK : links[Target].head[n] # NONE}
FewestInvalid == CHOOSE n \in VictimLists : \A m \in VictimLists : n <= m
FullestVictimList == CHOOSE n \in VictimLists : \A m \in VictimLists : m <= n

ListBeginCollection ==
  /\ ~NormalBlockAvailable /\ VictimLists # {}
  /\ BeginCollection(links[Target].head[FullestVictimList])
  /\ links' = [links EXCEPT ![Target] = GetHead(@, FullestVictimList)]
  /\ UNCHANGED freeBlockCnt

ListFindFails ==
  /\ Finding /\ Full(Current) /\ ~NormalBlockAvailable
  /\ pc = "find" => VictimLists = {}
  /\ Abort
  /\ UNCHANGED listVars

ListTakeBlockForGc ==
  /\ HeadFreeBlock # NONE
  /\ TakeBlockForGc(HeadFreeBlock)
  /\ GetFromFbList

ListCopyFails ==
  /\ CopyNeedsBlock /\ HeadFreeBlock = NONE
  /\ Abort
  /\ UNCHANGED listVars

EraseUnlisted ==
  /\ EraseBlock
  /\ links' = links
  /\ freeBlockCnt' = [freeBlockCnt EXCEPT ![Target] = @ + 1]

ListEraseBlock ==
  /\ EraseBlock
  /\ links' = [links EXCEPT ![Target] = PutTail(@, FreeList, victimBlockNo)]
  /\ freeBlockCnt' = [freeBlockCnt EXCEPT ![Target] = @ + 1]

ListsNext ==
  \/ \E l \in Lsa : ListInvalidate(l) \/ \E x \in Data : ListAddrTransWrite(l, x)
  \/ FindInCurrentBlock /\ UNCHANGED listVars
  \/ ListFindInFreeBlock
  \/ ListBeginCollection
  \/ ListFindFails
  \/ SkipPage /\ UNCHANGED listVars
  \/ ListTakeBlockForGc
  \/ ListCopyFails
  \/ CopyPage /\ UNCHANGED listVars
  \/ ListEraseBlock

allFtlVars == <<ftlVars, listVars>>

ListsSpec == ListsInit /\ [][ListsNext]_allFtlVars

-----------------------------------------------------------------------------
(***************************************************************************)
(* The lists are what Ftl takes them for: each list of a die links its     *)
(* blocks both ways from head to tail, the free list has the free blocks,  *)
(* list n the blocks with n invalid slices, and the victim is in none.     *)
(* Blocks move between lists on every write, one pair of fields serves all *)
(* lists, and a write is followed by up to one collection.                 *)
(***************************************************************************)
Chain(r, i) ==
  LET C[k \in 0..USER_BLOCKS_PER_DIE] ==
        IF k = 0 THEN r.head[i]
        ELSE IF C[k-1] = NONE THEN NONE ELSE r.next[C[k-1]]
  IN  C

Members(r, i) == {Chain(r, i)[k] : k \in 0..USER_BLOCKS_PER_DIE} \ {NONE}

LinkedBothWays(r, i) ==
  /\ Chain(r, i)[USER_BLOCKS_PER_DIE] = NONE
  /\ \A b \in Members(r, i) :
       /\ IF b = r.head[i] THEN r.prev[b] = NONE ELSE r.next[r.prev[b]] = b
       /\ r.next[b] = NONE <=> b = r.tail[i]
  /\ r.head[i] = NONE <=> r.tail[i] = NONE

WithInvalid(d, n) ==
  {b \in GoodBlocks(d) \ free[d] :
     n > 0 /\ invalidSliceCnt[d][b] = n /\ ~(d = Target /\ b = victimBlockNo)}

ListsSound ==
  ~reused =>
    \A d \in Die :
      /\ \A i \in List : LinkedBothWays(links[d], i)
      /\ Members(links[d], FreeList) = free[d]
      /\ freeBlockCnt[d] = Cardinality(free[d])
      /\ \A n \in 0..SLICES_PER_BLOCK : Members(links[d], n) = WithInvalid(d, n)

(***************************************************************************)
(* The code with its lists implements Ftl: every block that it takes off   *)
(* the head of a list is one that Ftl allows.                              *)
(***************************************************************************)
ImplementsFtl == FtlInit /\ [][~reused => FtlNext]_ftlVars

(***************************************************************************)
(* "Current page management fail" (address_translation.c:699): no block    *)
(* hands out more pages than it has.                                       *)
(***************************************************************************)
CurrentPageManaged ==
  \A d \in Die : currentPage[d][currentBlock[d]] <= SLICES_PER_BLOCK
=============================================================================
