-------------------------- MODULE MCSearchResults --------------------------
(***************************************************************************)
(* Instance of SearchResults for TLC.                                      *)
(***************************************************************************)
EXTENDS SearchResults, TLC

Ids == Permutations(Id)
Near == 0..4
=============================================================================
