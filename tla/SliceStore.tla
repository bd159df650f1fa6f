----------------------------- MODULE SliceStore -----------------------------
(***************************************************************************)
(* What the flash translation layer promises: a slice holds the data that  *)
(* was stored in it last, until it is dropped or stored again, whatever    *)
(* happens to the other slices and wherever its page is moved.  While a    *)
(* slice is being stored nothing else changes.                             *)
(***************************************************************************)
CONSTANTS Lsa, Data, NONE

VARIABLES
  content,   \* the data of each slice, or NONE
  request    \* <<slice, data>> that is being stored, or NONE

StoreInit == content = [l \in Lsa |-> NONE] /\ request = NONE

Drop(l) ==
  /\ request = NONE
  /\ content' = [content EXCEPT ![l] = NONE]

Begin(l, x) == Drop(l) /\ request' = <<l, x>>

End ==
  /\ request # NONE
  /\ content' = [content EXCEPT ![request[1]] = request[2]]
  /\ request' = NONE

StoreNext ==
  \/ \E l \in Lsa : \/ Drop(l) /\ UNCHANGED request
                    \/ \E x \in Data : Begin(l, x)
  \/ End

StoreSpec == StoreInit /\ [][StoreNext]_<<content, request>>
=============================================================================
