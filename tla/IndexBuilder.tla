---------------------------- MODULE IndexBuilder ----------------------------
(***************************************************************************)
(* The main loop of the firmware (nvme/nvme_main.c): each iteration serves *)
(* at most one host command and then, when an index build is running and   *)
(* not paused, takes one step of it.  A step links the next page of nodes  *)
(* of one sealed segment into its HNSW graph, or picks the next segment.   *)
(*                                                                         *)
(* The module composes the build with the write path (SealedSegments), and *)
(* with searches, through what they share: the segment slots, the reverse  *)
(* log, and two DRAM areas, one for the tables of the segment at work      *)
(* (SEALED_SEGMENT_INDEX/DATA_BUFFER) and one for the header of the index  *)
(* at work (VECTOR_INDEX_START_ADDR).  Each area is abstracted to the      *)
(* head_lpn of the segment whose tables, or header, it holds.              *)
(***************************************************************************)
EXTENDS SealedSegments

CONSTANTS
  NodesPerPage,  \* NUM_OF_HNSWNODE_PER_DATA_BUFFER_BLOCK
  Stride,        \* nodes after the first that one step links (139)
  NoTarget,      \* SS_INDEX_TARGET_NONE
  Concurrent,    \* which of "put" and "search" the host sends during a build
  GarbageBound   \* bound on the garbage tryIndexBuildIncremental may return

ASSUME BuilderAssumption ==
  /\ NodesPerPage \in Nat \ {0}
  /\ Stride \in Nat
  /\ Concurrent \subseteq {"put", "search"}
  /\ GarbageBound \in Nat

IndexedLevel == 1..3

VARIABLES
  isIndexBuilding,
  build_paused,
  target,       \* targetSsForIndexing: <<level, slot>>
  resume,       \* g_index_build_resume_point
  preempted,
  snapshot,     \* snapshot_tail_per_level
  tables,       \* whose tables the SEALED_SEGMENT buffers hold
  header,       \* whose index header VECTOR_INDEX_START_ADDR holds
  linked,       \* nodes linked so far into the graph that `header' describes
  indexes,      \* index headers in flash: page, segment and nodes linked
  phase         \* "command", or "index": the second half of an iteration

buildVars == <<isIndexBuilding, build_paused, target, resume, preempted,
               snapshot, tables, header, linked, indexes, phase>>
vars == <<segVars, buildVars>>

Target == slots[target[1]][target[2]]
TotalEntry(s) == Cardinality(KeysOf(s.entries))
HasIndex(s) == s.vector_index_start_lpn # INVALID_LPN

\* Segments of levels 1..3 in the order in which searches and builds visit them.
Listed == UNION {{<<l, j>> : j \in Visited(l)} : l \in IndexedLevel}
Before(p, q) == p[1] < q[1] \/ (p[1] = q[1] /\ p[2] < q[2])
SegmentAt(p) == At(p[1], p[2])
Earliest(S) == CHOOSE p \in S : \A q \in S : p = q \/ Before(p, q)
Latest(S) == CHOOSE p \in S : \A q \in S : p = q \/ Before(q, p)

BuilderInit ==
  /\ Init
  /\ isIndexBuilding = FALSE
  /\ build_paused = FALSE
  /\ target = NoTarget
  /\ resume = 0
  /\ preempted = FALSE
  /\ snapshot = [l \in IndexedLevel |-> 0]
  /\ tables = INVALID_LPN
  /\ header = INVALID_LPN
  /\ linked = {}
  /\ indexes = {}
  /\ phase = "command"

(***************************************************************************)
(* Host commands.                                                          *)
(***************************************************************************)
Serve == phase = "command" /\ ~compacting /\ phase' = "index"
MaySend(kind) == isIndexBuilding => kind \in Concurrent

\* A sealing builds the new segment's tables in the shared buffers.
BuilderPut(k) ==
  /\ Serve /\ MaySend("put")
  /\ KvPut(k)
  /\ tables' = IF Full THEN reverse_lpn' ELSE tables
  /\ UNCHANGED <<isIndexBuilding, build_paused, target, resume, preempted,
                 snapshot, header, linked, indexes>>

\* So does a compaction with the merged segment's.
BuilderCompaction ==
  /\ CompactionLoop
  /\ tables' = IF reverse_lpn' # reverse_lpn THEN reverse_lpn' ELSE tables
  /\ UNCHANGED <<isIndexBuilding, build_paused, target, resume, preempted,
                 snapshot, header, linked, indexes, phase>>

\* While a build is running, the command only returns an error.
VectorBuild ==
  /\ Serve
  /\ isIndexBuilding' = TRUE
  /\ IF isIndexBuilding THEN UNCHANGED <<target, snapshot>>
     ELSE /\ target' = NoTarget
          /\ snapshot' = [l \in IndexedLevel |-> tail[l]]
  /\ UNCHANGED <<segVars, build_paused, resume, preempted, tables, header,
                 linked, indexes>>

PauseAlways ==
  /\ Serve
  /\ build_paused' = TRUE
  /\ UNCHANGED <<segVars, isIndexBuilding, target, resume, preempted, snapshot,
                 tables, header, linked, indexes>>

PauseBuild ==
  /\ Serve
  /\ build_paused' = (isIndexBuilding \/ build_paused)
  /\ UNCHANGED <<segVars, isIndexBuilding, target, resume, preempted, snapshot,
                 tables, header, linked, indexes>>

ResumeBuild ==
  /\ Serve
  /\ build_paused' = (~isIndexBuilding /\ build_paused)
  /\ UNCHANGED <<segVars, isIndexBuilding, target, resume, preempted, snapshot,
                 tables, header, linked, indexes>>

(***************************************************************************)
(* A search visits the segments that have an index, loading the tables and *)
(* the index header of each, until one is close enough (early exit), and   *)
(* then those that have none, loading only their tables.                   *)
(***************************************************************************)
Indexed == {p \in Listed : HasIndex(SegmentAt(p))}
HeaderAt(lpn) == CHOOSE x \in indexes : x.lpn = lpn

VisitIndexed(p) ==
  /\ tables' = SegmentAt(p).head_lpn
  /\ header' = HeaderAt(SegmentAt(p).vector_index_start_lpn).of

SearchStops == \E p \in Indexed : VisitIndexed(p)

\* A search for zero results looks at no segment.
SearchNothing == UNCHANGED <<tables, header>>

SearchThroughout ==
  LET rest == Listed \ Indexed
  IN  /\ tables' = IF rest # {} THEN SegmentAt(Latest(rest)).head_lpn
                   ELSE IF Indexed # {} THEN SegmentAt(Latest(Indexed)).head_lpn
                   ELSE tables
      /\ header' = IF Indexed = {} THEN header
                   ELSE HeaderAt(SegmentAt(Latest(Indexed)).vector_index_start_lpn).of

SearchUnmarked ==
  /\ Serve /\ MaySend("search")
  /\ SearchStops \/ SearchThroughout \/ SearchNothing
  /\ preempted' = preempted
  /\ linked' = IF header' = header THEN linked ELSE {}
  /\ UNCHANGED <<segVars, isIndexBuilding, build_paused, target, resume,
                 snapshot, indexes>>

VectorSearch ==
  /\ Serve /\ MaySend("search")
  /\ SearchStops \/ SearchThroughout \/ SearchNothing
  /\ preempted' = (isIndexBuilding \/ preempted)
  /\ linked' = IF header' = header THEN linked ELSE {}
  /\ UNCHANGED <<segVars, isIndexBuilding, build_paused, target, resume,
                 snapshot, indexes>>

\* No command is waiting, or one that changes nothing here (build status).
NoCommand == Serve /\ UNCHANGED <<segVars, isIndexBuilding, build_paused, target,
                                  resume, preempted, snapshot, tables, header,
                                  linked, indexes>>

(***************************************************************************)
(* The index step.                                                         *)
(***************************************************************************)
IndexStepIgnoringPause ==
  phase = "index" /\ ~compacting /\ isIndexBuilding /\ phase' = "command"

IndexStep ==
  /\ phase = "index" /\ ~compacting
  /\ isIndexBuilding /\ ~build_paused
  /\ phase' = "command"

NoIndexStep ==
  /\ phase = "index" /\ ~compacting
  /\ ~isIndexBuilding \/ build_paused
  /\ phase' = "command"
  /\ UNCHANGED <<segVars, isIndexBuilding, build_paused, target, resume,
                 preempted, snapshot, tables, header, linked, indexes>>

\* findNextSs looks no further than the slot that was the tail at the start.
WithinSnapshot(l, j) ==
  tail[l] # snapshot[l] =>
    \A i \in 0..j-1 : RingAdd(l, head[l], i) # snapshot[l]

SkipsOldest == {p \in Listed : ~HasIndex(SegmentAt(p)) /\ p[2] > 0}

Unindexed ==
  {p \in Listed : ~HasIndex(SegmentAt(p)) /\ WithinSnapshot(p[1], p[2])}

EndBuildFlagKept ==
  /\ isIndexBuilding' = isIndexBuilding
  /\ target' = NoTarget
  /\ resume' = 0

EndBuild ==
  /\ isIndexBuilding' = FALSE
  /\ target' = NoTarget
  /\ resume' = 0

AssignNextSsToIndex ==
  /\ IndexStep
  /\ target = NoTarget
  /\ IF Unindexed # {}
     THEN LET p == Earliest(Unindexed)
          IN  /\ target' = <<p[1], RingAdd(p[1], head[p[1]], p[2])>>
              /\ UNCHANGED <<isIndexBuilding, resume>>
     ELSE EndBuild
  /\ UNCHANGED <<segVars, build_paused, preempted, snapshot, tables, header,
                 linked, indexes>>

(***************************************************************************)
(* tryIndexBuildIncremental.  The target may have been compacted away: its *)
(* slot then has no entries, and the function returns without a value.     *)
(***************************************************************************)
Garbage(r) ==
  /\ IndexStep
  /\ target # NoTarget
  /\ TotalEntry(Target) = 0
  /\ preempted' = FALSE
  /\ resume' = r
  /\ target' = IF r = 0 THEN NoTarget ELSE target
  /\ UNCHANGED <<segVars, isIndexBuilding, build_paused, snapshot, tables,
                 header, linked, indexes>>

\* endIndex
Last ==
  IF resume + Stride >= TotalEntry(Target) THEN TotalEntry(Target) - 1
  ELSE resume + Stride

Completes == Last >= TotalEntry(Target) - 1

\* initializeIndexWith takes one page for every NodesPerPage nodes, and the
\* completion one more for the header.
NodePages == IF resume = 0 THEN PagesFor(TotalEntry(Target), NodesPerPage) ELSE 0
HeaderPages == IF Completes THEN 1 ELSE 0
IndexPages == NodePages + HeaderPages

\* A step that starts the segment, or follows a search, reloads its tables;
\* only the first one makes a header.
Reloads == resume = 0 \/ preempted
TablesAtWork == IF Reloads THEN Target.head_lpn ELSE tables
HeaderAtWork == IF resume = 0 THEN Target.head_lpn ELSE header

\* Nodes end up in the target's graph if tables and header are the target's.
NodesLinked ==
  (IF resume = 0 THEN {} ELSE linked) \cup
  (IF TablesAtWork = Target.head_lpn /\ HeaderAtWork = Target.head_lpn
   THEN resume..Last ELSE {})

NextPointSkipping == IF Completes THEN 0 ELSE Last + 2
NextPoint == IF Completes THEN 0 ELSE Last + 1

BuildIncrement ==
  /\ IndexStep
  /\ target # NoTarget
  /\ TotalEntry(Target) # 0
  /\ preempted' = FALSE
  /\ tables' = TablesAtWork
  /\ header' = HeaderAtWork
  /\ linked' = NodesLinked
  /\ reverse_lpn' = reverse_lpn - IndexPages
  /\ mapped' = mapped \cup ((reverse_lpn - IndexPages) .. (reverse_lpn - 1))
  /\ resume' = NextPoint
  /\ IF Completes
     THEN /\ slots' = [slots EXCEPT
               ![target[1]][target[2]].vector_index_start_lpn = reverse_lpn']
          /\ indexes' = indexes \cup
               {[lpn |-> reverse_lpn', of |-> HeaderAtWork, nodes |-> NodesLinked]}
          /\ target' = NoTarget
     ELSE UNCHANGED <<slots, indexes, target>>
  /\ UNCHANGED <<growing, write_pointer_lba, level_count, head, tail, compacting,
                 isIndexBuilding, build_paused, snapshot>>

Command ==
  \/ \E k \in Key : BuilderPut(k)
  \/ VectorBuild \/ PauseBuild \/ ResumeBuild \/ VectorSearch
  \/ NoCommand

IndexTurn ==
  \/ AssignNextSsToIndex
  \/ \E r \in 0..GarbageBound : Garbage(r)
  \/ BuildIncrement
  \/ NoIndexStep

BuilderNext == Command \/ BuilderCompaction \/ IndexTurn

BuilderSpec == BuilderInit /\ [][BuilderNext]_vars

\* The loop never stops: with or without commands it gets to its index step.
BuilderFairness ==
  WF_vars(NoCommand) /\ WF_vars(BuilderCompaction) /\ WF_vars(IndexTurn)

-----------------------------------------------------------------------------
(***************************************************************************)
(* Properties.                                                             *)
(***************************************************************************)
BuilderTypeOK ==
  /\ TypeOK
  /\ isIndexBuilding \in BOOLEAN /\ build_paused \in BOOLEAN
  /\ target = NoTarget \/
       (target[1] \in IndexedLevel /\ target[2] \in 0..MaxSealed[target[1]]-1)
  /\ resume \in Nat
  /\ preempted \in BOOLEAN
  /\ \A l \in IndexedLevel : snapshot[l] \in 0..MaxSealed[l]-1
  /\ tables \in Lpn /\ header \in Lpn
  /\ linked \subseteq Nat
  /\ \A x \in indexes : x.lpn \in Int /\ x.of \in Lpn /\ x.nodes \subseteq Nat
  /\ phase \in {"command", "index"}

(***************************************************************************)
(* The flags of three handlers and the loop agree: a build that is over    *)
(* leaves no pause that would stop the next one before it starts, and no   *)
(* half-built segment; a segment that is picked is started from its first  *)
(* node.                                                                   *)
(***************************************************************************)
BuildFlags ==
  /\ build_paused => isIndexBuilding
  /\ ~isIndexBuilding => target = NoTarget
  /\ target = NoTarget => resume = 0

(***************************************************************************)
(* buildOndemandHnsw loads a page of nodes only at the page's first node:  *)
(* a step resumes at such a node, and inside the target segment.           *)
(***************************************************************************)
ResumeAtPage ==
  resume # 0 => resume % NodesPerPage = 0 /\ resume < TotalEntry(Target)

(***************************************************************************)
(* A step that does not reload the tables finds those of its target in the *)
(* shared buffers, whatever ran since the last step.                       *)
(***************************************************************************)
TablesKept == resume # 0 /\ ~preempted => tables = Target.head_lpn

(***************************************************************************)
(* The header of the graph under construction stays in memory until the    *)
(* step that writes it.                                                    *)
(***************************************************************************)
HeaderKept == resume # 0 => header = Target.head_lpn

\* The index that a segment points to is its own and links all its vectors.
OwnIndex(p) ==
  LET s == SegmentAt(p)
      x == HeaderAt(s.vector_index_start_lpn)
  IN  x.of = s.head_lpn /\ x.nodes = 0..TotalEntry(s)-1

(***************************************************************************)
(* A build that ends leaves no listed segment of levels 1..3 unindexed     *)
(* ("All SSs now have own index", nvme_main.c:445).                        *)
(***************************************************************************)
AllIndexed ==
  [][isIndexBuilding /\ ~isIndexBuilding' =>
       \A p \in Listed : HasIndex(SegmentAt(p))]_vars

(***************************************************************************)
(* While it stays paused, a build takes no step, whatever else the host    *)
(* sends: its target, its resume point and the indexes written so far are  *)
(* those that it will continue from.                                       *)
(***************************************************************************)
PauseHolds ==
  [][build_paused /\ build_paused' =>
       UNCHANGED <<target, resume, indexes>>]_vars

(***************************************************************************)
(* A build that is not paused ends, or is paused.                          *)
(***************************************************************************)
BuildEnds == isIndexBuilding ~> (~isIndexBuilding \/ build_paused)
=============================================================================
