--------------------------- MODULE MCIndexBuilder ---------------------------
(***************************************************************************)
(* Instances of IndexBuilder for TLC.                                      *)
(***************************************************************************)
EXTENDS IndexBuilder, TLC

Keys == Permutations(Key)

\* Level 1 lists up to two segments between compactions, which leave one behind.
TwoInLevel1 == 0 :> 3 @@ 1 :> 4 @@ 2 :> 3 @@ 3 :> 1

\* Level 1 lists up to three.
ThreeInLevel1 == 0 :> 3 @@ 1 :> 5 @@ 2 :> 3 @@ 3 :> 1
=============================================================================
