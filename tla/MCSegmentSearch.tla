-------------------------- MODULE MCSegmentSearch --------------------------
(***************************************************************************)
(* Instances of SegmentSearch for TLC.                                     *)
(***************************************************************************)
EXTENDS SegmentSearch, TLC

\* Level 1 lists up to two segments between compactions, which leave one behind.
TwoInLevel1 == 0 :> 3 @@ 1 :> 4 @@ 2 :> 3 @@ 3 :> 1
=============================================================================
