--------------------------- MODULE SealedSegments ---------------------------
(***************************************************************************)
(* The write path of the vector store (nvme/nvme_io_cmd.c): a growing      *)
(* segment (the skiplist), sealed into level 0 when it is full, and the    *)
(* rings of sealed segments of levels 0..3, which compaction merges        *)
(* downwards.                                                              *)
(*                                                                         *)
(* A segment's tables are abstracted to a map from keys to the LBA of the  *)
(* value (the vector itself lives in the forward value log).  Pages of the *)
(* reverse log, where sealed segments live, are integers; `mapped' is the  *)
(* set of those that the FTL maps to a flash page.                         *)
(***************************************************************************)
EXTENDS Integers, FiniteSets

CONSTANTS
  Key,                \* vector ids the host writes
  MaxSkiplistNode,    \* MAX_SKIPLIST_NODE: capacity of the growing segment
  MaxSealed,          \* MAX_SEALED_LEVEL: slots of the ring of each level
  NumVictims,         \* NUM_VICTIMS_OF_UPPER_LEVEL
  IndexNodesPerPage,  \* index nodes (keys) of a sealed segment in one page
  DataNodesPerPage,   \* data nodes (lba, length) of a sealed segment in one page
  RevStart,           \* initial reverse_write_pointer_lpn
  INVALID_LPN,        \* 0xffffffff, which is no page of the log
  MaxPut              \* bound on the number of KV_PUT commands

Level == 0..3

ASSUME ConstantsAssumption ==
  /\ IsFiniteSet(Key)
  /\ MaxSkiplistNode \in Nat \ {0}
  /\ MaxSealed \in [Level -> Nat \ {0}]
  /\ \A l \in 0..2 : MaxSealed[l] >= 3
  /\ NumVictims = 2
  /\ IndexNodesPerPage \in Nat \ {0}
  /\ DataNodesPerPage \in Nat \ {0}
  /\ RevStart \in Int
  /\ INVALID_LPN \notin Int
  /\ MaxPut \in Nat

VARIABLES
  growing,            \* the skiplist: key -> LBA of its newest value
  write_pointer_lba,  \* next free LBA of the forward value log
  slots,              \* super_ss_list_level[level][i]
  level_count,        \* super_level_info->level_count[level]
  head,               \* super_ss_list[level].head
  tail,               \* super_ss_list[level].tail
  reverse_lpn,        \* reverse_write_pointer_lpn
  mapped,             \* LPNs of the reverse log that the FTL maps
  compacting          \* inside the MaybeDoCompaction loop of a KV_PUT

segVars == <<growing, write_pointer_lba, slots, level_count, head, tail,
             reverse_lpn, mapped, compacting>>

(***************************************************************************)
(* Segments.                                                               *)
(***************************************************************************)
NoLba == -1
Entries == [Key -> Nat \cup {NoLba}]
NoEntries == [k \in Key |-> NoLba]
KeysOf(e) == {k \in Key : e[k] # NoLba}

Lpn == Int \cup {INVALID_LPN}
Segment == [entries : Entries, head_lpn : Lpn, tail_lpn : Lpn,
            vector_index_start_lpn : Lpn]

\* What DoCompaction leaves in a victim's slot.
Cleared == [entries |-> NoEntries, head_lpn |-> INVALID_LPN,
            tail_lpn |-> INVALID_LPN, vector_index_start_lpn |-> INVALID_LPN]

\* A new segment, just above page `first' of the log and with no index yet.
Sealed(e, first) ==
  [entries |-> e, head_lpn |-> first, tail_lpn |-> reverse_lpn - 1,
   vector_index_start_lpn |-> INVALID_LPN]

PagesFor(n, perPage) == (n + perPage - 1) \div perPage

\* The pages of a segment's two tables: keys first, then LBAs and lengths.
TablePages(e) ==
  LET n == Cardinality(KeysOf(e))
  IN  PagesFor(n, IndexNodesPerPage) + PagesFor(n, DataNodesPerPage)

(***************************************************************************)
(* Rings.                                                                  *)
(***************************************************************************)
RingAddNoWrap(l, i, n) == i + n

\* (i + n) % MAX_SEALED_LEVEL[l], for i < MAX_SEALED_LEVEL[l] >= n.
RingAdd(l, i, n) ==
  IF i + n < MaxSealed[l] THEN i + n ELSE i + n - MaxSealed[l]

\* COMPACTION_THRESHOLD_LEVEL
Threshold(l) == MaxSealed[l] - 1

NumVictimsOfMax(l) == IF l = 0 THEN MaxSealed[0] ELSE NumVictims

NumVictimsOf(l) == IF l = 0 THEN Threshold(0) ELSE NumVictims

\* The slots a loop over level_count[l] segments from the head visits, by age.
Visited(l) == {j \in 0..MaxSealed[l]-1 : j < level_count[l]}
At(l, j) == slots[l][RingAdd(l, head[l], j)]
Live(l) == {At(l, j) : j \in Visited(l)}
LiveSegments == UNION {Live(l) : l \in Level}

(***************************************************************************)
(* Initial state (nvme_main).                                              *)
(***************************************************************************)
Init ==
  /\ growing = NoEntries
  /\ write_pointer_lba = 0
  /\ slots = [l \in Level |-> [i \in 0..MaxSealed[l]-1 |-> Cleared]]
  /\ level_count = [l \in Level |-> 0]
  /\ head = [l \in Level |-> 0]
  /\ tail = [l \in Level |-> 0]
  /\ reverse_lpn = RevStart
  /\ mapped = {}
  /\ compacting = FALSE

(***************************************************************************)
(* A new segment at the tail of level l, its tables below the reverse      *)
(* write pointer (the last part of CompactGrowingSegment, and              *)
(* FlushOutputSsBuffer).                                                   *)
(***************************************************************************)
AppendSegmentKeepingPointer(l, e, cleared) ==
  LET first == reverse_lpn - TablePages(e)
  IN  /\ slots' = [cleared EXCEPT ![l][tail[l]] = Sealed(e, first)]
      /\ tail' = [tail EXCEPT ![l] = RingAdd(l, tail[l], 1)]
      /\ reverse_lpn' = reverse_lpn

AppendSegment(l, e, cleared) ==
  LET first == reverse_lpn - TablePages(e)
  IN  /\ slots' = [cleared EXCEPT ![l][tail[l]] = Sealed(e, first)]
      /\ tail' = [tail EXCEPT ![l] = RingAdd(l, tail[l], 1)]
      /\ reverse_lpn' = first

NewPages(e) == (reverse_lpn - TablePages(e)) .. (reverse_lpn - 1)

(***************************************************************************)
(* IO_NVM_KV_PUT: the growing segment is sealed first if it is full, then  *)
(* the key goes to the skiplist (a key that is there already is removed    *)
(* and inserted again), and the command runs the compaction loop.          *)
(***************************************************************************)
Full == Cardinality(KeysOf(growing)) = MaxSkiplistNode

SealUncounted ==
  /\ AppendSegment(0, growing, slots)
  /\ level_count' = level_count
  /\ mapped' = mapped \cup NewPages(growing)

CompactGrowingSegment ==
  /\ AppendSegment(0, growing, slots)
  /\ level_count' = [level_count EXCEPT ![0] = @ + 1]
  /\ mapped' = mapped \cup NewPages(growing)

Put(k) ==
  /\ write_pointer_lba' = write_pointer_lba + 1
  /\ compacting' = TRUE
  /\ UNCHANGED head

PutWithoutSeal(k) ==
  /\ ~Full
  /\ growing' = [growing EXCEPT ![k] = write_pointer_lba]
  /\ UNCHANGED <<slots, level_count, tail, reverse_lpn, mapped>>

PutAfterSealKeeping(k) ==
  /\ Full
  /\ CompactGrowingSegment
  /\ growing' = [growing EXCEPT ![k] = write_pointer_lba]

PutAfterSeal(k) ==
  /\ Full
  /\ CompactGrowingSegment
  /\ growing' = [NoEntries EXCEPT ![k] = write_pointer_lba]

KvPut(k) ==
  /\ ~compacting
  /\ write_pointer_lba < MaxPut
  /\ PutWithoutSeal(k) \/ PutAfterSeal(k)
  /\ Put(k)

(***************************************************************************)
(* MaybeDoCompaction: the highest level that has reached its threshold.    *)
(***************************************************************************)
NeedsCompactionLate(l) == level_count[l] > MaxSealed[l]

NeedsCompaction(l) == level_count[l] >= 2 /\ level_count[l] >= Threshold(l)

IsVictimLevel(l) ==
  /\ l \in 0..2
  /\ NeedsCompaction(l)
  /\ \A m \in 0..2 : m > l => ~NeedsCompaction(m)

(***************************************************************************)
(* DoCompactionImpl: the victims, oldest first, merged by key; among equal *)
(* keys the youngest victim's entry is the one kept.                       *)
(***************************************************************************)
Victims(l) == {At(l, j) : j \in 0..NumVictimsOf(l)-1}

HoldersIn(l, k) == {j \in 0..NumVictimsOf(l)-1 : At(l, j).entries[k] # NoLba}

KeepOldest(l) ==
  [k \in Key |->
     IF HoldersIn(l, k) = {} THEN NoLba
     ELSE At(l, CHOOSE j \in HoldersIn(l, k) :
                  \A i \in HoldersIn(l, k) : j <= i).entries[k]]

Merge(l) ==
  [k \in Key |->
     IF HoldersIn(l, k) = {} THEN NoLba
     ELSE At(l, CHOOSE j \in HoldersIn(l, k) :
                  \A i \in HoldersIn(l, k) : i <= j).entries[k]]

(***************************************************************************)
(* The pages DoCompaction invalidates: from each victim's head_lpn up to,  *)
(* and without, its tail_lpn.                                              *)
(***************************************************************************)
Invalidated(v) == v.head_lpn .. (v.tail_lpn - 1)

ClearVictims(l) ==
  LET gone == {RingAdd(l, head[l], j) : j \in 0..NumVictimsOf(l)-1}
  IN  [slots EXCEPT ![l] = [i \in DOMAIN slots[l] |->
                              IF i \in gone THEN Cleared ELSE slots[l][i]]]

DoCompactionDelayed(l) == compacting /\ IsVictimLevel(l) /\ UNCHANGED segVars

\* The merge result is never empty: DoCompactionImpl asserts that no victim is.
DoCompaction(l) ==
  /\ compacting
  /\ IsVictimLevel(l)
  /\ AppendSegment(l + 1, Merge(l), ClearVictims(l))
  /\ level_count' = [level_count EXCEPT ![l] = @ - NumVictimsOf(l),
                                        ![l + 1] = @ + 1]
  /\ head' = [head EXCEPT ![l] = RingAdd(l, @, NumVictimsOf(l))]
  /\ mapped' = (mapped \cup NewPages(Merge(l)))
                 \ UNION {Invalidated(v) : v \in Victims(l)}
  /\ UNCHANGED <<growing, write_pointer_lba, compacting>>

\* MaybeDoCompaction returned 0: the KV_PUT command is over.
CompactionDone ==
  /\ compacting
  /\ \A l \in 0..2 : ~NeedsCompaction(l)
  /\ compacting' = FALSE
  /\ UNCHANGED <<growing, write_pointer_lba, slots, level_count, head, tail,
                 reverse_lpn, mapped>>

\* IO_NVM_FLUSH, KV_DELETE and reads change nothing here.
OtherCommand == ~compacting /\ UNCHANGED segVars

CompactionLoop == (\E l \in 0..2 : DoCompaction(l)) \/ CompactionDone

Next == (\E k \in Key : KvPut(k)) \/ CompactionLoop \/ OtherCommand

Spec == Init /\ [][Next]_segVars

\* The loop of a KV_PUT runs to its end before the firmware does anything else.
FairSpec == Spec /\ WF_segVars(CompactionLoop)

-----------------------------------------------------------------------------
(***************************************************************************)
(* Properties.                                                             *)
(***************************************************************************)
TypeOK ==
  /\ growing \in Entries
  /\ write_pointer_lba \in 0..MaxPut
  /\ DOMAIN slots = Level
  /\ \A l \in Level : slots[l] \in [0..MaxSealed[l]-1 -> Segment]
  /\ level_count \in [Level -> Nat]
  /\ head \in [Level -> Nat]
  /\ \A l \in Level : head[l] \in 0..MaxSealed[l]-1
  /\ tail \in [Level -> Nat]
  /\ \A l \in Level : tail[l] \in 0..MaxSealed[l]-1
  /\ reverse_lpn \in Int
  /\ mapped \subseteq Int
  /\ compacting \in BOOLEAN

(***************************************************************************)
(* Head, tail and count of a level, which different statements update,     *)
(* describe one ring: it never overflows, and it is only at its threshold  *)
(* while the compaction loop of a KV_PUT is still running.                 *)
(***************************************************************************)
RingInv ==
  \A l \in 0..2 :
    /\ level_count[l] <= Threshold(l)
    /\ tail[l] = RingAdd(l, head[l], level_count[l])
    /\ ~compacting => level_count[l] < Threshold(l)

(***************************************************************************)
(* The assertions of DoCompactionImpl (nvme_io_cmd.c:866-870) and of       *)
(* DoCompaction (977): whenever a level is compacted, there are enough     *)
(* segments, and each one chosen is live and has entries.                  *)
(***************************************************************************)
CompactionAsserts ==
  \A l \in 0..2 :
    compacting /\ IsVictimLevel(l) =>
      /\ NumVictimsOf(l) <= level_count[l]
      /\ \A v \in Victims(l) : /\ v.head_lpn # INVALID_LPN
                               /\ v.tail_lpn # INVALID_LPN
                               /\ KeysOf(v.entries) # {}

(***************************************************************************)
(* The pages of every live segment stay mapped and belong to it alone,     *)
(* whatever compaction invalidates and wherever the reverse pointer is.    *)
(***************************************************************************)
PagesOf(s) == s.head_lpn .. s.tail_lpn

LivePagesMapped ==
  \A l, m \in Level : \A i \in Visited(l), j \in Visited(m) :
    /\ PagesOf(At(l, i)) # {}
    /\ PagesOf(At(l, i)) \subseteq mapped
    /\ \A p \in PagesOf(At(l, i)) : p >= reverse_lpn
    /\ <<l, i>> # <<m, j>> => PagesOf(At(l, i)) \cap PagesOf(At(m, j)) = {}

(***************************************************************************)
(* Of two segments that hold a key, the one nearer the growing segment (a  *)
(* lower level, or the younger of a level) has the newer value.  Compaction *)
(* relies on it when it keeps the youngest victim's entry.                 *)
(***************************************************************************)
Newer(l, i, m, j) == l < m \/ (l = m /\ i > j)

RunOrder ==
  /\ \A k \in Key, l \in Level : \A i \in Visited(l) :
       growing[k] # NoLba => At(l, i).entries[k] < growing[k]
  /\ \A k \in Key, l, m \in Level : \A i \in Visited(l), j \in Visited(m) :
       Newer(l, i, m, j) /\ At(l, i).entries[k] # NoLba =>
         At(m, j).entries[k] < At(l, i).entries[k]

(***************************************************************************)
(* A step that writes the slot of a live segment of levels 0..2 either     *)
(* only adds its vector index, or takes the segment off the ring: no       *)
(* sealing or compaction overwrites a segment that is still listed.        *)
(***************************************************************************)
LivePositions(l) == {RingAdd(l, head[l], j) : j \in Visited(l)}

NoOverwrite ==
  [][\A l \in 0..2 : \A i \in LivePositions(l) \cap LivePositions(l)' :
        slots[l][i].entries = slots'[l][i].entries]_segVars

\* The compaction loop of a KV_PUT ends, so the firmware gets back to its host.
CompactionEnds == compacting ~> ~compacting

(***************************************************************************)
(* What a reader of the whole store would find for a key: the entry of the *)
(* growing segment, or else of the youngest segment of the lowest level.   *)
(***************************************************************************)
ListedAt == UNION {{<<l, j>> : j \in Visited(l)} : l \in Level}

Holders(k) == {p \in ListedAt : At(p[1], p[2]).entries[k] # NoLba}

Lookup ==
  [k \in Key |->
     IF growing[k] # NoLba THEN growing[k]
     ELSE LET holders == Holders(k)
          IN  IF holders = {} THEN NoLba
              ELSE LET p == CHOOSE p \in holders : \A q \in holders :
                              p = q \/ Newer(p[1], p[2], q[1], q[2])
                   IN  At(p[1], p[2]).entries[k]]

Store == INSTANCE VectorStore
  WITH store <- Lookup, next <- write_pointer_lba,
       full <- level_count[3] >= MaxSealed[3]

\* The segments implement the abstract store.
Implements == Store!Spec
=============================================================================
