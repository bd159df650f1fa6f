--------------------------- MODULE MCSliceDevice ---------------------------
(***************************************************************************)
(* Instances of SliceDevice for TLC.                                       *)
(***************************************************************************)
EXTENDS SliceDevice, TLC
CONSTANTS l1, l2, l3, l4, e1, e2

AnyData == [first : {NONE} \cup -2..MaxCommands, rest : {NONE} \cup -2..MaxCommands]
NoneBad == {}

Whole(n) == [first |-> n, rest |-> n]

(***************************************************************************)
(* A device in use: l1 l4 l2 l4 l3 l4 l1 were evicted, in this order, then *)
(* l1 and l4 read and written again.  The next eviction goes to die 1, and *)
(* the one after that collects block 0 of die 0, where l2 is valid.        *)
(***************************************************************************)
Evicted ==
  <<0,0,0>> :> l1 @@ <<1,0,0>> :> l4 @@ <<0,0,1>> :> l2 @@ <<1,0,1>> :> l4 @@
  <<0,1,0>> :> l3 @@ <<1,1,0>> :> l4 @@ <<0,1,1>> :> l1

InUse ==
  /\ logicalSlice = (l1 :> <<0,1,1>> @@ l2 :> <<0,0,1>> @@ l3 :> <<0,1,0>> @@
                     l4 :> <<1,1,0>>)
  /\ virtualSlice = [v \in Vsa |-> IF v \in DOMAIN Evicted THEN Evicted[v] ELSE NONE]
  /\ flash = [v \in Vsa |-> IF v \in DOMAIN Evicted THEN Whole(-2) ELSE NONE]
  /\ currentBlock = [d \in Die |-> 1]
  /\ currentPage = 0 :> (0 :> 2 @@ 1 :> 2 @@ 2 :> 0) @@ 1 :> (0 :> 2 @@ 1 :> 1 @@ 2 :> 0)
  /\ invalidSliceCnt =
       0 :> (0 :> 1 @@ 1 :> 0 @@ 2 :> 0) @@ 1 :> (0 :> 2 @@ 1 :> 0 @@ 2 :> 0)
  /\ free = [d \in Die |-> {2}]
  /\ sliceAllocationTargetDie = 1
  /\ pc = "idle" /\ request = NONE /\ victimBlockNo = NONE /\ pageNo = 0
  /\ reused = FALSE
  /\ q = [EmptyTables EXCEPT !.permittedProgPage = currentPage]
  /\ accepted = <<>>
  /\ lru = <<e1, e2>>
  /\ bufLsa = (e1 :> l1 @@ e2 :> l4)
  /\ dirty = [e \in DataEntry |-> TRUE]
  /\ cmd = NONE /\ todo = <<>> /\ waiting = FALSE /\ commands = 0
  /\ buffer = [e \in Entry |-> Whole(-1)]
  /\ page = [v \in Vsa |-> IF v \in DOMAIN Evicted THEN Whole(-2) ELSE Nothing]
  /\ latest = [l \in Lsa |-> IF l \in {l1, l4} THEN Whole(-1) ELSE Whole(-2)]
  /\ lost = FALSE

MCInit == DeviceInit \/ InUse
MCSpec == MCInit /\ [][DeviceNext]_deviceVars /\ DeviceFairness
=============================================================================
