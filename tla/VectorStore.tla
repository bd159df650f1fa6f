---------------------------- MODULE VectorStore ----------------------------
(***************************************************************************)
(* What the write path promises: a store of vectors by key, where a put    *)
(* replaces the value of one key and no other.  The last level has a fixed *)
(* number of slots and nothing below it: once it is full, a segment that   *)
(* reaches it takes the slot of an older one, and keys may be lost.  That  *)
(* is the only way to lose one.                                            *)
(***************************************************************************)
EXTENDS Integers

CONSTANTS Key, MaxPut

VARIABLES
  store,   \* key -> LBA of its value, or NoLba
  next,    \* LBA of the next value
  full     \* the last level has no free slot

vars == <<store, next, full>>

NoLba == -1

Init ==
  /\ store = [k \in Key |-> NoLba]
  /\ next = 0
  /\ full = FALSE

Put(k) ==
  /\ next < MaxPut
  /\ store' = [store EXCEPT ![k] = next]
  /\ next' = next + 1
  /\ UNCHANGED full

\* A segment reaches the last level and takes its last free slot.
Fill == full' = TRUE /\ UNCHANGED <<store, next>>

\* A segment reaches the full last level.
Lose(K) ==
  /\ full
  /\ store' = [k \in Key |-> IF k \in K THEN NoLba ELSE store[k]]
  /\ UNCHANGED <<next, full>>

Next == (\E k \in Key : Put(k)) \/ Fill \/ (\E K \in SUBSET Key : Lose(K))

Spec == Init /\ [][Next]_vars
=============================================================================
