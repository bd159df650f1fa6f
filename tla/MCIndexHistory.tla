--------------------------- MODULE MCIndexHistory ---------------------------
(***************************************************************************)
(* IndexHistory for TLC, with a host that puts the keys 0, 1, 2... in      *)
(* turn, which makes segments of several entries and few states.           *)
(***************************************************************************)
EXTENDS IndexHistory, MCIndexBuilder

InTurn ==
  \/ BuilderPut(write_pointer_lba % Cardinality(Key))
  \/ VectorBuild \/ PauseBuild \/ ResumeBuild \/ VectorSearch \/ NoCommand
  \/ BuilderCompaction
  \/ IndexTurn

InTurnSpec ==
  HistoryInit /\ [][InTurn /\ History]_historyVars /\ BuilderFairness
=============================================================================
