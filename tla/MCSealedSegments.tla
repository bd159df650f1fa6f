-------------------------- MODULE MCSealedSegments --------------------------
(***************************************************************************)
(* Instances of SealedSegments for TLC.                                    *)
(***************************************************************************)
EXTENDS SealedSegments, TLC

\* Smallest rings in which every level compacts two segments and wraps.
SmallRings == 0 :> 3 @@ 1 :> 3 @@ 2 :> 3 @@ 3 :> 1
\* MAX_SEALED_LEVEL0 and MAX_SEALED_LEVEL3 as in super.h.
Level0AsBuilt == 0 :> 4 @@ 1 :> 4 @@ 2 :> 3 @@ 3 :> 1

(***************************************************************************)
(* A host that loads distinct vector ids in order, as the benchmark does.  *)
(***************************************************************************)
SequentialKeys == 0..MaxPut
LoadNext == KvPut(write_pointer_lba) \/ CompactionLoop
SequentialSpec == Init /\ [][LoadNext]_segVars

(***************************************************************************)
(* hnsw.h: PREDEFINED_MAX_NUMBER_OF_VECTOR_PER_SEGMENT is the "Maximum     *)
(* number of vector, which acts as a role of the maximum size of segment". *)
(***************************************************************************)
PREDEFINED_MAX_NUMBER_OF_VECTOR_PER_SEGMENT ==
  MaxSkiplistNode * (MaxSealed[0] - 1) * 2

SegmentsFit ==
  \A s \in LiveSegments :
    Cardinality(KeysOf(s.entries)) <= PREDEFINED_MAX_NUMBER_OF_VECTOR_PER_SEGMENT
=============================================================================
