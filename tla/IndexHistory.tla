---------------------------- MODULE IndexHistory ----------------------------
(***************************************************************************)
(* IndexBuilder with a history: which indexes a search came across while   *)
(* they were under construction.                                           *)
(***************************************************************************)
EXTENDS IndexBuilder

VARIABLES
  searched,    \* a search ran since the first step of the segment at work
  disturbed    \* the indexes that this was so for when they were written

historyVars == <<vars, searched, disturbed>>

HistoryInit == BuilderInit /\ searched = FALSE /\ disturbed = {}

History ==
  /\ searched' = (resume' # 0 /\ (searched \/ preempted'))
  /\ disturbed' = disturbed \cup (IF searched THEN indexes' \ indexes ELSE {})

HistorySpec == HistoryInit /\ [][BuilderNext /\ History]_historyVars

(***************************************************************************)
(* An index that a listed segment points to is its own and links every one *)
(* of its vectors, however the build was cut into steps, unless a search   *)
(* came between the steps that made it (buildOndemandHnsw, hnsw.c).        *)
(***************************************************************************)
IndexComplete ==
  \A p \in Indexed :
    HeaderAt(SegmentAt(p).vector_index_start_lpn) \in disturbed \/ OwnIndex(p)
=============================================================================
