------------------------------- MODULE MCFtl -------------------------------
(***************************************************************************)
(* Instances of FtlLists for TLC.                                          *)
(***************************************************************************)
EXTENDS FtlLists, TLC

Slices == Permutations(Lsa)

NoneBad == {}

\* Die 1 has one block to write to, and one in reserve.
OneBad == {<<1, 0>>}

(***************************************************************************)
(* A slice is always written with the same datum, its own, so that slices  *)
(* cannot be taken for each other; and nothing is run on after a           *)
(* collection erased the current block.                                    *)
(***************************************************************************)
OwnData == request' # NONE => request'[1] = request'[2]

OwnDataSpec == ListsInit /\ [][~reused /\ ListsNext /\ OwnData]_allFtlVars
=============================================================================
