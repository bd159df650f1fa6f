---------------------------- MODULE SegmentSearch ----------------------------
(***************************************************************************)
(* VECTOR_SEARCH in steps (nvme/nvme_io_cmd.c): a walk over the rings of   *)
(* sealed segments, one segment at a time, in two passes: first those that *)
(* have an index, then, by brute force, those that have none.  Both passes *)
(* start over from the heads for each segment and rely on the              *)
(* search_completed flags in the slots to get on.  IndexBuilder has the    *)
(* whole search as one action, which this module is checked to implement.  *)
(***************************************************************************)
EXTENDS IndexBuilder, Sequences

VARIABLES
  walk,           \* "none", or the pass under way: "indexed", "unindexed"
  completed,      \* slots <<level, slot>> whose search_completed is set
  bruteforceSearchActivated,
  earlyExitFlag,
  seen,           \* segments searched so far, in order
  before          \* tables and header when the search began

walkVars == <<walk, completed, bruteforceSearchActivated, earlyExitFlag, seen,
              before>>

SlotOf(p) == <<p[1], RingAdd(p[1], head[p[1]], p[2])>>
AllListed == UNION {{<<l, j>> : j \in Visited(l)} : l \in Level}

Nothing == [tables |-> INVALID_LPN, header |-> INVALID_LPN]

SearchInit ==
  /\ BuilderInit
  /\ walk = "none"
  /\ completed = {}
  /\ bruteforceSearchActivated = FALSE
  /\ earlyExitFlag = 0
  /\ seen = <<>>
  /\ before = Nothing

(***************************************************************************)
(* tryVectorSearch: the flags of all listed segments are reset first.      *)
(***************************************************************************)
BeginSearchNoReset ==
  /\ walk = "none" /\ phase = "command" /\ ~compacting /\ MaySend("search")
  /\ walk' = "indexed"
  /\ bruteforceSearchActivated' = (Indexed # Listed)
  /\ before' = [tables |-> tables, header |-> header]
  /\ UNCHANGED <<vars, completed, earlyExitFlag, seen>>

BeginSearch ==
  /\ walk = "none" /\ phase = "command" /\ ~compacting /\ MaySend("search")
  /\ walk' = "indexed"
  /\ completed' = completed \ {SlotOf(p) : p \in AllListed}
  /\ bruteforceSearchActivated' = (Indexed # Listed)
  /\ before' = [tables |-> tables, header |-> header]
  /\ UNCHANGED <<vars, earlyExitFlag, seen>>

Pending(S) == {p \in S : SlotOf(p) \notin completed}

VisitUnmarked(p) ==
  /\ seen' = Append(seen, p)
  /\ UNCHANGED <<segVars, isIndexBuilding, build_paused, target, resume,
                 preempted, snapshot, linked, indexes, phase, walk, completed,
                 bruteforceSearchActivated, before>>

Visit(p) ==
  /\ completed' = completed \cup {SlotOf(p)}
  /\ seen' = Append(seen, p)
  /\ UNCHANGED <<segVars, isIndexBuilding, build_paused, target, resume,
                 preempted, snapshot, linked, indexes, phase, walk,
                 bruteforceSearchActivated, before>>

\* findNextSs, then searchOndemandHnsw; -1 if that failed twice.
SearchIndexed(exit) ==
  /\ walk = "indexed" /\ earlyExitFlag # 1
  /\ Pending(Indexed) # {}
  /\ LET p == Earliest(Pending(Indexed)) IN Visit(p) /\ VisitIndexed(p)
  /\ earlyExitFlag' = exit

IndexedDone == walk = "indexed" /\ (Pending(Indexed) = {} \/ earlyExitFlag = 1)
BruteForceNext == earlyExitFlag = 0 /\ bruteforceSearchActivated

BeginUnindexed ==
  /\ IndexedDone /\ BruteForceNext
  /\ walk' = "unindexed"
  /\ UNCHANGED <<vars, completed, bruteforceSearchActivated, earlyExitFlag, seen,
                 before>>

\* findNextSsFromLevel(..., 1), then bruteForceSearch, whose value is not used.
SearchUnindexed ==
  /\ walk = "unindexed"
  /\ Pending(Listed \ Indexed) # {}
  /\ LET p == Earliest(Pending(Listed \ Indexed))
     IN  Visit(p) /\ tables' = SegmentAt(p).head_lpn
  /\ UNCHANGED <<header, earlyExitFlag>>

UnindexedDone == walk = "unindexed" /\ Pending(Listed \ Indexed) = {}

EndSearchUnpreempted ==
  /\ (IndexedDone /\ ~BruteForceNext) \/ UnindexedDone
  /\ phase' = "index"
  /\ linked' = IF header = before.header THEN linked ELSE {}
  /\ walk' = "none"
  /\ bruteforceSearchActivated' = FALSE
  /\ earlyExitFlag' = 0
  /\ seen' = <<>>
  /\ before' = Nothing
  /\ UNCHANGED <<segVars, isIndexBuilding, build_paused, target, resume,
                 preempted, snapshot, indexes, tables, header, completed>>

\* The rest of handle_nvme_io_vector_search.
EndSearch ==
  /\ (IndexedDone /\ ~BruteForceNext) \/ UnindexedDone
  /\ phase' = "index"
  /\ preempted' = (isIndexBuilding \/ preempted)
  /\ linked' = IF header = before.header THEN linked ELSE {}
  /\ walk' = "none"
  /\ bruteforceSearchActivated' = FALSE
  /\ earlyExitFlag' = 0
  /\ seen' = <<>>
  /\ before' = Nothing
  /\ UNCHANGED <<segVars, isIndexBuilding, build_paused, target, resume,
                 snapshot, indexes, tables, header, completed>>

SearchForNone ==
  /\ walk = "none"
  /\ VectorSearch
  /\ UNCHANGED <<tables, header, walkVars>>

(***************************************************************************)
(* Everything else, while no search runs.  Sealing and compaction reset    *)
(* the flag of every slot that they fill or clear.                         *)
(***************************************************************************)
WriteStep ==
  /\ walk = "none"
  /\ (\E k \in Key : BuilderPut(k)) \/ BuilderCompaction
  /\ completed' = {c \in completed : slots'[c[1]][c[2]] = slots[c[1]][c[2]]}
  /\ UNCHANGED <<walk, bruteforceSearchActivated, earlyExitFlag, seen, before>>

OtherStep ==
  /\ walk = "none"
  /\ VectorBuild \/ PauseBuild \/ ResumeBuild \/ NoCommand \/ IndexTurn
  /\ UNCHANGED walkVars

SearchStep ==
  \/ BeginSearch
  \/ \E exit \in {-1, 0, 1} : SearchIndexed(exit)
  \/ BeginUnindexed
  \/ SearchUnindexed
  \/ EndSearch
  \/ SearchForNone

SearchNext == SearchStep \/ WriteStep \/ OtherStep

SearchSpec == SearchInit /\ [][SearchNext]_<<vars, walkVars>>

-----------------------------------------------------------------------------
(***************************************************************************)
(* Properties.                                                             *)
(***************************************************************************)
SeenSet == {seen[i] : i \in DOMAIN seen}

(***************************************************************************)
(* A search looks at no segment twice, although both passes start over     *)
(* from the heads again and again; with finitely many listed, it ends.     *)
(***************************************************************************)
SeenOnce == Cardinality(SeenSet) = Len(seen)

(***************************************************************************)
(* A search that does not exit early has looked at every listed segment of *)
(* levels 1..3, and one that exits early, or whose last attempt failed,    *)
(* only at segments that have an index (all of them after a failure).      *)
(***************************************************************************)
SeenAtEnd ==
  [][walk # "none" /\ walk' = "none" =>
       CASE earlyExitFlag = 0  -> SeenSet = Listed
         [] earlyExitFlag = 1  -> SeenSet \subseteq Indexed
         [] earlyExitFlag = -1 -> SeenSet = Indexed]_<<vars, walkVars>>

(***************************************************************************)
(* The walk implements the search that IndexBuilder takes in one action:   *)
(* its effect on the build, the shared tables and the header show only     *)
(* when it ends, and are those of some stopping point of the abstract one. *)
(***************************************************************************)
Atomic == INSTANCE IndexBuilder WITH
  tables <- IF walk = "none" THEN tables ELSE before.tables,
  header <- IF walk = "none" THEN header ELSE before.header

ImplementsSearch == Atomic!BuilderSpec
=============================================================================
