------------------------- MODULE MCRequestScheduler -------------------------
(***************************************************************************)
(* Instances of RequestClient for TLC.                                     *)
(***************************************************************************)
EXTENDS RequestClient, TLC

Transfers == [code : {"RxDMA"}, entry : Entry]
Interchangeable == Permutations(Entry)
=============================================================================
