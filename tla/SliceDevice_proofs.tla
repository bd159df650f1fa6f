------------------------- MODULE SliceDevice_proofs -------------------------
(***************************************************************************)
(* Proofs that the device keeps the slices, for every geometry of the      *)
(* flash, every number of entries, slots, commands and retries: what is    *)
(* read is what was written last, and the flash holds what the             *)
(* translation layer says.                                                 *)
(*                                                                         *)
(* The proofs of the two layers below are used as they are.  The           *)
(* translation layer is extended; the request layer is an instance,        *)
(* Layer, whose client is the device.                                      *)
(***************************************************************************)
EXTENDS SliceDevice, Ftl_proofs, SequenceTheorems

(***************************************************************************)
(* The pages of a block that were submitted for writing: those that the    *)
(* translation layer handed out, but for what has still to be submitted.   *)
(***************************************************************************)
Pending(code, d, b) ==
  \E i \in DOMAIN todo : todo[i].code = code /\ todo[i].die = d /\ todo[i].block = b

Written ==
  [d \in Die |-> [b \in Block |->
     IF Pending("ERASE", d, b) THEN SLICES_PER_BLOCK
     ELSE IF Pending("WRITE", d, b) THEN currentPage[d][b] - 1 ELSE currentPage[d][b]]]

Layer == INSTANCE RequestScheduler_proofs
           WITH Pages <- SLICES_PER_BLOCK, DmaRequest <- Transfers, written <- Written

\* The assumption of the instance.
LEMMA LayerAssumption ==
  /\ SLOTS \in Nat /\ RETRY_LIMIT \in Nat /\ SLICES_PER_BLOCK \in Nat \ {0}
  /\ \A r \in Transfers : r.code \in {"RxDMA", "TxDMA"} /\ r.entry \in Entry
  /\ NONE \notin Nat /\ NONE \notin Entry
  /\ NONE \notin Transfers \cup Layer!PageRequest \cup Layer!EraseRequest
<1>1. \A r \in Transfers : r.code \in {"RxDMA", "TxDMA"} /\ r.entry \in Entry
  BY DEF Transfers, Entry
<1>2. NONE \notin Entry
  BY DeviceAssumption, FtlAssumption DEF Entry, TempEntry, Die
<1>3. Layer!PageRequest \cup Layer!EraseRequest = NandRequests
  BY DEF Layer!PageRequest, Layer!EraseRequest, NandRequests, Page
<1> QED
  BY <1>1, <1>2, <1>3, DeviceAssumption, FtlAssumption

-----------------------------------------------------------------------------
(***************************************************************************)
(* The operators of the instance are those of the device.                  *)
(***************************************************************************)
LEMMA SameRowOperators ==
  /\ \A t, s : SelectRow(t, s) = Layer!SelectRow(t, s)
  /\ \A t, s : ReleaseRow(t, s) = Layer!ReleaseRow(t, s)
  /\ \A t, r : Permitted(t, r) = Layer!Permitted(t, r)
  /\ \A t, r : HoldUp(t, r) = Layer!HoldUp(t, r)
  /\ \A t, s : PutToBlockedByRow(t, s) = Layer!PutToBlockedByRow(t, s)
<1>1. \A t, s : PutToNandReqQ(t, s) = Layer!PutToNandReqQ(t, s)
  BY DEF PutToNandReqQ, Layer!PutToNandReqQ
<1>2. \A t, s : PutToBlockedByRow(t, s) = Layer!PutToBlockedByRow(t, s)
  BY DEF PutToBlockedByRow, Layer!PutToBlockedByRow
<1>3. \A t, r : Permitted(t, r) = Layer!Permitted(t, r)
  BY DEF Permitted, Layer!Permitted
<1>4. \A t, r : LetThrough(t, r) = Layer!LetThrough(t, r)
  BY DEF LetThrough, Layer!LetThrough
<1>5. \A t, r : HoldUp(t, r) = Layer!HoldUp(t, r)
  BY DEF HoldUp, Layer!HoldUp
<1>6. \A t, r : NoLongerHeldUp(t, r) = Layer!NoLongerHeldUp(t, r)
  BY DEF NoLongerHeldUp, Layer!NoLongerHeldUp
<1>7. \A t, s : SelectRow(t, s) = Layer!SelectRow(t, s)
  BY <1>1, <1>2, <1>3, <1>4, <1>5 DEF SelectRow, Layer!SelectRow
<1>8. \A t, s : ReleaseRow(t, s) = Layer!ReleaseRow(t, s)
  BY <1>1, <1>4, <1>6 DEF ReleaseRow, Layer!ReleaseRow
<1> QED
  BY <1>2, <1>3, <1>5, <1>7, <1>8

\* The lists and the requests of the request layer are the same seen through the instance.
LEMMA SameListOperators ==
  /\ \A list, s : Without(list, s) = Layer!Without(list, s)
  /\ \A t : FreeSlots(t) = Layer!FreeSlots(t)
  /\ \A r : IsDma(r) = Layer!IsDma(r) /\ IsRead(r) = Layer!IsRead(r)
  /\ \A r : AsSubmitted(r) = Layer!AsSubmitted(r)
  /\ \A list : ToSet(list) = Layer!ToSet(list)
  /\ Slot = Layer!Slot
BY DEF Without, Layer!Without, RemoveAt, Layer!RemoveAt, FreeSlots, Layer!FreeSlots, Slot,
       Layer!Slot, IsDma, Layer!IsDma, IsRead, Layer!IsRead, AsSubmitted, Layer!AsSubmitted,
       ToSet, Layer!ToSet

\* So is what a die does at its turn.
LEMMA SameTurn ==
  \A t, d : NextTurn(t, d) = Layer!NextTurn(t, d)
<1>1. \A t, s : ReleaseIfPermitted(t, s) = Layer!ReleaseIfPermitted(t, s)
  BY SameRowOperators, SameListOperators DEF ReleaseIfPermitted, Layer!ReleaseIfPermitted
<1>2. \A t, d : ReleaseBlockedByRow(t, d) = Layer!ReleaseBlockedByRow(t, d)
  BY <1>1 DEF ReleaseBlockedByRow, Layer!ReleaseBlockedByRow
<1>3. \A t, d : RefillNandReqQ(t, d) = Layer!RefillNandReqQ(t, d)
  BY <1>2 DEF RefillNandReqQ, Layer!RefillNandReqQ
<1> QED
  BY <1>3 DEF NextTurn, Layer!NextTurn

\* So is how a submitted request is chained and where it is put.
LEMMA SameSelect ==
  /\ \A t, r, s : Chain(t, r, s) = Layer!Chain(t, r, s)
  /\ \A t, s : SelectLowLevelReqQ(t, s) = Layer!SelectLowLevelReqQ(t, s)
<1>1. \A t, e, s : UpdateBlockingReq(t, e, s) = Layer!UpdateBlockingReq(t, e, s)
  BY DEF UpdateBlockingReq, Layer!UpdateBlockingReq
<1>2. \A t, s : IssueNvmeDma(t, s) = Layer!IssueNvmeDma(t, s)
  BY DEF IssueNvmeDma, Layer!IssueNvmeDma
<1>3. \A t, r, s : Chain(t, r, s) = Layer!Chain(t, r, s)
  BY <1>1 DEF Chain, Layer!Chain
<1>4. \A t, s : SelectLowLevelReqQ(t, s) = Layer!SelectLowLevelReqQ(t, s)
  BY <1>2, SameRowOperators, SameListOperators DEF SelectLowLevelReqQ, Layer!SelectLowLevelReqQ
<1> QED
  BY <1>3, <1>4

\* So is what the end of a request sets free.
LEMMA SameRelease ==
  \A t, s : FreeAndRelease(t, s) = Layer!FreeAndRelease(t, s)
<1>1. \A t, s : IssueNvmeDma(t, s) = Layer!IssueNvmeDma(t, s)
  BY DEF IssueNvmeDma, Layer!IssueNvmeDma
<1>2. \A t, s : GoOn(t, s) = Layer!GoOn(t, s)
  BY <1>1, SameRowOperators, SameListOperators DEF GoOn, Layer!GoOn
<1>3. \A t, e, s : TailWithout(t, e, s) = Layer!TailWithout(t, e, s)
  BY DEF TailWithout, Layer!TailWithout
<1>4. \A t, s : Unlink(t, s) = Layer!Unlink(t, s)
  BY DEF Unlink, Layer!Unlink
<1>5. \A t, s : Free(t, s) = Layer!Free(t, s)
  BY <1>3, <1>4 DEF Free, Layer!Free
<1> QED
  BY <1>2, <1>5 DEF FreeAndRelease, Layer!FreeAndRelease

\* And so are its actions.
LEMMA SameStatuses ==
  ASSUME NEW d
  PROVE  /\ Statuses(d) = Layer!Statuses(d) /\ HeadReq(d) = Layer!HeadReq(d)
         /\ HeadCode(d) = Layer!HeadCode(d)
         /\ \A status : Triggered(d, status) = Layer!Triggered(d, status)
         /\ \A status : Retried(d, status) = Layer!Retried(d, status)
<1>1. HeadReq(d) = Layer!HeadReq(d) /\ HeadCode(d) = Layer!HeadCode(d)
  BY DEF HeadReq, Layer!HeadReq, HeadCode, Layer!HeadCode
<1>2. Statuses(d) = Layer!Statuses(d)
  BY <1>1 DEF Statuses, Layer!Statuses
<1>3. \A status : Triggered(d, status) = Layer!Triggered(d, status)
  BY <1>1 DEF Triggered, Layer!Triggered
<1>4. GivesUp(d) = Layer!GivesUp(d)
  BY <1>1, SameListOperators DEF GivesUp, Layer!GivesUp
<1>5. \A status : Retried(d, status) = Layer!Retried(d, status)
  BY <1>4 DEF Retried, Layer!Retried
<1> QED
  BY <1>1, <1>2, <1>3, <1>5

\* A request that the device submits is submitted in the instance.
LEMMA SameSubmit ==
  \A r : Submit(r) => Layer!Submit(r)
<1>1. \A r : WaitsForErase(r) = Layer!WaitsForErase(r)
  BY DEF WaitsForErase, Layer!WaitsForErase
<1> QED
  BY <1>1, SameListOperators, SameSelect DEF Submit, Layer!Submit

\* A transfer that ends, ends in the instance.
LEMMA SameTransferDone ==
  \A s : DmaDone(s) => Layer!DmaDone(s)
BY SameListOperators, SameRelease DEF DmaDone, Layer!DmaDone, Finish, Layer!Finish

\* What a die does, it does in the instance.
LEMMA SameDieSteps ==
  ASSUME NEW d
  PROVE  /\ Wake(d) => Layer!Wake(d)
         /\ IssueNandReq(d) => Layer!IssueNandReq(d)
         /\ \A status :
              /\ ReadTriggered(d, status) => Layer!ReadTriggered(d, status)
              /\ ReadRetried(d, status) => Layer!ReadRetried(d, status)
              /\ NandDone(d, status) => Layer!NandDone(d, status)
<1>1. Wake(d) => Layer!Wake(d)
  BY SameTurn DEF Wake, Layer!Wake
<1>2. IssueNandReq(d) => Layer!IssueNandReq(d)
  BY DEF IssueNandReq, Layer!IssueNandReq
<1>3. ASSUME NEW status
      PROVE  /\ ReadTriggered(d, status) => Layer!ReadTriggered(d, status)
             /\ ReadRetried(d, status) => Layer!ReadRetried(d, status)
  BY SameStatuses, SameTurn DEF ReadTriggered, Layer!ReadTriggered, ReadRetried, Layer!ReadRetried
<1>4. ASSUME NEW status
      PROVE  NandDone(d, status) => Layer!NandDone(d, status)
  BY SameStatuses, SameTurn, SameRelease, SameListOperators
  DEF NandDone, Layer!NandDone, Finish, Layer!Finish
<1> QED
  BY <1>1, <1>2, <1>3, <1>4
-----------------------------------------------------------------------------
(***************************************************************************)
(* Requests that are carried out one after the other.                      *)
(***************************************************************************)
\* Where data is, and what request r reads, writes, and leaves there.
Location == ({"entry"} \X Entry) \cup ({"page"} \X Vsa)

From(r) == IF IsRead(r) THEN <<"page", Row(r)>> ELSE <<"entry", r.entry>>
Writes(r) ==
  CASE r.code = "TxDMA" -> {}
    [] r.code = "WRITE" -> {<<"page", Row(r)>>}
    [] r.code = "ERASE" -> {"page"} \X Erased(r)
    [] OTHER            -> {<<"entry", r.entry>>}
Result(r, x) ==
  CASE r.code = "RxDMA" -> Merge(x, r.data)
    [] r.code = "ERASE" -> Nothing
    [] OTHER            -> x

Done(r, m) ==
  [x \in Location |-> IF x \in Writes(r) THEN Result(r, m[From(r)]) ELSE m[x]]

Reads(r) == IF r.code = "ERASE" THEN {} ELSE {From(r)}

Independent(r, s) ==
  /\ Reads(r) \cap Writes(s) = {} /\ Reads(s) \cap Writes(r) = {}
  /\ Writes(r) \cap Writes(s) = {}
  /\ Reads(r) \subseteq Location /\ Reads(s) \subseteq Location

Served(r, m) == r.code = "TxDMA" => Agrees(m[From(r)], r.data)

\* M are the contents before and after each request of list.
Steps(list, M) ==
  /\ \A i \in 1..Len(list) : M[i] = Done(list[i], M[i-1])
  /\ \A i \in 1..Len(list) : Served(list[i], M[i-1])

Outcome(list, m, fin) == \E M : M[0] = m /\ M[Len(list)] = fin /\ Steps(list, M)

\* Two requests that touch nothing of each other may be carried out in either order.
LEMMA DoneCommutes ==
  ASSUME NEW r, NEW s, Independent(r, s), NEW m
  PROVE  Done(r, Done(s, m)) = Done(s, Done(r, m))
<1>1. PICK a, b : a = Done(r, m) /\ b = Done(s, m)
  OBVIOUS
<1>2. \A x \in Location : a[x] = IF x \in Writes(r) THEN Result(r, m[From(r)]) ELSE m[x]
  BY <1>1 DEF Done
<1>3. \A x \in Location : b[x] = IF x \in Writes(s) THEN Result(s, m[From(s)]) ELSE m[x]
  BY <1>1 DEF Done
<1>4. Result(r, b[From(r)]) = Result(r, m[From(r)])
  <2>1. CASE r.code = "ERASE"
    BY <2>1 DEF Result
  <2>2. CASE r.code # "ERASE"
    <3>1. From(r) \in Location /\ From(r) \notin Writes(s)
      BY <2>2 DEF Independent, Reads
    <3> QED
      BY <1>3, <3>1
  <2> QED
    BY <2>1, <2>2
<1>5. Result(s, a[From(s)]) = Result(s, m[From(s)])
  <2>1. CASE s.code = "ERASE"
    BY <2>1 DEF Result
  <2>2. CASE s.code # "ERASE"
    <3>1. From(s) \in Location /\ From(s) \notin Writes(r)
      BY <2>2 DEF Independent, Reads
    <3> QED
      BY <1>2, <3>1
  <2> QED
    BY <2>1, <2>2
<1>6. \A x \in Location : ~(x \in Writes(r) /\ x \in Writes(s))
  BY DEF Independent
<1>7. \A x \in Location :
        (IF x \in Writes(r) THEN Result(r, b[From(r)]) ELSE b[x])
          = (IF x \in Writes(s) THEN Result(s, a[From(s)]) ELSE a[x])
  BY <1>2, <1>3, <1>4, <1>5, <1>6
<1> QED
  BY <1>1, <1>7 DEF Done

\* Carrying out nothing leaves the memory as it is.
LEMMA OutcomeNone ==
  ASSUME NEW m
  PROVE  Outcome(<<>>, m, m) /\ \A fin : Outcome(<<>>, m, fin) => fin = m
<1>1. Len(<<>>) = 0
  OBVIOUS
<1>2. PICK M : M = [i \in {0} |-> m]
  OBVIOUS
<1>3. M[0] = m /\ Steps(<<>>, M)
  BY <1>1, <1>2 DEF Steps
<1> QED
  BY <1>1, <1>3 DEF Outcome

\* One request more, carried out last.
LEMMA OutcomeAppend ==
  ASSUME NEW S, NEW list \in Seq(S), NEW r \in S, NEW m, NEW fin, Outcome(list, m, fin),
         Served(r, fin)
  PROVE  Outcome(Append(list, r), m, Done(r, fin))
<1>1. PICK n \in Nat : n = Len(list)
  BY LenProperties
<1>2. PICK M : M[0] = m /\ M[n] = fin /\ Steps(list, M)
  BY <1>1 DEF Outcome
<1>3. PICK new : new = Append(list, r)
  OBVIOUS
<1>4. Len(new) = n+1 /\ new[n+1] = r /\ \A i \in 1..n : new[i] = list[i]
  BY <1>1, <1>3, AppendProperties, LenProperties
<1>5. PICK N : N = [i \in 0..n+1 |-> IF i = n+1 THEN Done(r, fin) ELSE M[i]]
  OBVIOUS
<1>6. N[0] = m /\ N[n+1] = Done(r, fin) /\ \A i \in 1..n : N[i] = M[i] /\ N[i-1] = M[i-1]
  BY <1>1, <1>2, <1>5
<1>7. N[n] = fin
  BY <1>1, <1>2, <1>5
<1>8. ASSUME NEW i \in 1..n+1
      PROVE  N[i] = Done(new[i], N[i-1]) /\ Served(new[i], N[i-1])
  <2>1. CASE i = n+1
    BY <1>1, <1>4, <1>6, <1>7, <2>1
  <2>2. CASE i \in 1..n
    BY <1>1, <1>2, <1>4, <1>6, <2>2 DEF Steps
  <2> QED
    BY <1>1, <2>1, <2>2
<1>9. Steps(new, N)
  BY <1>4, <1>8 DEF Steps
<1> QED
  BY <1>3, <1>4, <1>6, <1>9 DEF Outcome

\* A request that is independent of all before it may as well be carried out first.
LEMMA OutcomeRemove ==
  ASSUME NEW S, NEW list \in Seq(S), NEW m, NEW fin, Outcome(list, m, fin),
         NEW k \in 1..Len(list), \A j \in 1..k-1 : Independent(list[j], list[k]),
         NEW new, Len(new) = Len(list) - 1,
         \A i \in 1..Len(list)-1 : new[i] = IF i < k THEN list[i] ELSE list[i+1]
  PROVE  Outcome(new, Done(list[k], m), fin)
<1>1. PICK n \in Nat : n = Len(list)
  BY LenProperties
<1>2. PICK M : M[0] = m /\ M[n] = fin /\ Steps(list, M)
  BY <1>1 DEF Outcome
<1>3. k \in Nat /\ 1 <= k /\ k <= n
  BY <1>1
<1>4. PICK r : r = list[k]
  OBVIOUS
<1>5. PICK N : N = [i \in 0..n-1 |-> IF i < k THEN Done(r, M[i]) ELSE M[i+1]]
  OBVIOUS
<1>6. M[k] = Done(r, M[k-1])
  BY <1>1, <1>2, <1>4 DEF Steps
<1>7. N[0] = Done(r, m)
  BY <1>1, <1>2, <1>3, <1>5
<1>8. N[n-1] = fin
  <2>1. CASE k = n
    <3>1. N[n-1] = Done(r, M[n-1])
      BY <1>3, <1>5, <2>1
    <3> QED
      BY <1>2, <1>6, <2>1, <3>1
  <2>2. CASE k < n
    <3>1. n-1 \in 0..n-1 /\ ~(n-1 < k) /\ n-1+1 = n
      BY <1>3, <2>2
    <3> QED
      BY <1>2, <1>5, <3>1
  <2> QED
    BY <1>3, <2>1, <2>2
<1>9. ASSUME NEW i \in 1..n-1
      PROVE  N[i] = Done(new[i], N[i-1]) /\ Served(new[i], N[i-1])
  <2>1. CASE i < k
    <3>1. i \in 0..n-1 /\ i-1 \in 0..n-1 /\ i-1 < k /\ i \in 1..n
      BY <1>3, <2>1
    <3>2. N[i] = Done(r, M[i]) /\ N[i-1] = Done(r, M[i-1]) /\ new[i] = list[i]
      BY <1>1, <1>5, <2>1, <3>1
    <3>3. M[i] = Done(list[i], M[i-1]) /\ Served(list[i], M[i-1])
      BY <1>1, <1>2, <3>1 DEF Steps
    <3>4. Independent(list[i], r)
      BY <1>3, <1>4, <2>1
    <3>5. Served(list[i], N[i-1])
      <4> SUFFICES ASSUME list[i].code = "TxDMA"
                   PROVE  Agrees(N[i-1][From(list[i])], list[i].data)
        BY DEF Served
      <4>1. From(list[i]) \in Location /\ From(list[i]) \notin Writes(r)
        BY <3>4 DEF Independent, Reads
      <4>2. N[i-1][From(list[i])] = M[i-1][From(list[i])]
        BY <3>2, <4>1 DEF Done
      <4> QED
        BY <3>3, <4>2 DEF Served
    <3> QED
      BY <3>2, <3>3, <3>4, <3>5, DoneCommutes
  <2>2. CASE k <= i
    <3>1. i \in 0..n-1 /\ ~(i < k) /\ i+1 \in 1..n /\ i+1-1 = i
      BY <1>3, <2>2
    <3>2. N[i] = M[i+1] /\ new[i] = list[i+1]
      BY <1>1, <1>5, <3>1
    <3>3. M[i+1] = Done(list[i+1], M[i]) /\ Served(list[i+1], M[i])
      BY <1>1, <1>2, <3>1 DEF Steps
    <3>4. N[i-1] = M[i]
      <4>1. CASE i = k
        <5>1. i-1 \in 0..n-1 /\ i-1 < k
          BY <1>3, <4>1
        <5> QED
          BY <1>5, <1>6, <4>1, <5>1
      <4>2. CASE i # k
        <5>1. i-1 \in 0..n-1 /\ ~(i-1 < k) /\ i-1+1 = i
          BY <1>3, <2>2, <4>2
        <5> QED
          BY <1>5, <5>1
      <4> QED
        BY <4>1, <4>2
    <3> QED
      BY <3>2, <3>3, <3>4
  <2> QED
    BY <1>3, <2>1, <2>2
<1>10. Steps(new, N)
  BY <1>1, <1>9 DEF Steps
<1> QED
  BY <1>1, <1>4, <1>7, <1>8, <1>10 DEF Outcome

\* What nobody writes before request k stays as it is until then.
LEMMA UntouchedUntil ==
  ASSUME NEW list, NEW M, Steps(list, M), NEW k \in Nat, k <= Len(list), Len(list) \in Nat,
         NEW x \in Location, \A i \in 1..k : x \notin Writes(list[i])
  PROVE  M[k][x] = M[0][x]
<1> DEFINE Changed == {i \in 0..k : M[i][x] # M[0][x]}
<1> SUFFICES ASSUME Changed # {} PROVE FALSE
  OBVIOUS
<1>1. PICK i \in Changed : \A j \in Changed : i <= j
  <2>1. Changed \in SUBSET Nat
    OBVIOUS
  <2> HIDE DEF Changed
  <2> QED
    BY <2>1, LayerAssumption, Layer!Least
<1>2. i \in 1..k /\ i-1 \in 0..k /\ i \in 1..Len(list)
  OBVIOUS
<1>3. i-1 \notin Changed
  BY <1>1, <1>2
<1>4. M[i-1][x] = M[0][x]
  BY <1>2, <1>3
<1>5. M[i] = Done(list[i], M[i-1]) /\ x \notin Writes(list[i])
  BY <1>2 DEF Steps
<1> QED
  BY <1>4, <1>5 DEF Done

\* What no request of the list writes is in the end what it was.
LEMMA OutcomeKeeps ==
  ASSUME NEW list, Len(list) \in Nat, NEW m, NEW fin, Outcome(list, m, fin),
         NEW x \in Location, \A i \in 1..Len(list) : x \notin Writes(list[i])
  PROVE  fin[x] = m[x]
<1>1. PICK M : M[0] = m /\ M[Len(list)] = fin /\ Steps(list, M)
  BY DEF Outcome
<1> QED
  BY <1>1, UntouchedUntil

\* A transfer to the host finds its data in place, when nothing before it writes there.
LEMMA OutcomeServes ==
  ASSUME NEW list, Len(list) \in Nat, NEW m, NEW fin, Outcome(list, m, fin),
         NEW k \in 1..Len(list), list[k].code = "TxDMA", From(list[k]) \in Location,
         \A i \in 1..k-1 : From(list[k]) \notin Writes(list[i])
  PROVE  Agrees(m[From(list[k])], list[k].data)
<1>1. PICK M : M[0] = m /\ M[Len(list)] = fin /\ Steps(list, M)
  BY DEF Outcome
<1>2. k-1 \in Nat /\ k-1 <= Len(list)
  OBVIOUS
<1>3. M[k-1][From(list[k])] = m[From(list[k])]
  BY <1>1, <1>2, UntouchedUntil
<1> QED
  BY <1>1, <1>3 DEF Steps, Served
-----------------------------------------------------------------------------
(***************************************************************************)
(* What is ahead: the requests that the request layer has, as they were    *)
(* submitted, and those that the device submits next.                      *)
(***************************************************************************)
AnyRequest == Transfers \cup NandRequests
NewRequest == {r \in AnyRequest : r.code # "READ_TRANSFER"}

Outstandings(t, acc) == [i \in DOMAIN acc |-> AsSubmitted(t.pool[acc[i]])]
Ahead == Outstandings(q, accepted) \o todo

\* What the fields of a request of the device are.
LEMMA RequestKinds ==
  ASSUME NEW r \in AnyRequest
  PROVE  /\ r # NONE
         /\ r \in Transfers => r.code \in {"RxDMA", "TxDMA"} /\ r.entry \in DataEntry
         /\ r \in NandRequests =>
              /\ r.code \in {"READ", "READ_TRANSFER", "WRITE", "ERASE"}
              /\ r.die \in Die /\ r.block \in Block
              /\ r.code # "ERASE" => r.entry \in Entry /\ r.page \in Page /\ Row(r) \in Vsa
              /\ r.code = "ERASE" => r.entry = NONE
         /\ IsDma(r) <=> r \in Transfers
         /\ IsRead(r) <=> r.code \in {"READ", "READ_TRANSFER"}
BY DeviceAssumption DEF AnyRequest, Transfers, NandRequests, IsDma, IsRead, Row, Vsa

\* They are the requests of the instance.
LEMMA SameRequests == AnyRequest = Layer!Request
BY DEF AnyRequest, NandRequests, Layer!Request, Layer!PageRequest, Layer!EraseRequest, Page

\* A read that has been triggered is, as submitted, a read of the same page.
LEMMA SubmittedKind ==
  ASSUME NEW r \in AnyRequest
  PROVE  /\ AsSubmitted(r) \in NewRequest
         /\ From(AsSubmitted(r)) = From(r) /\ Writes(AsSubmitted(r)) = Writes(r)
         /\ \A m : Done(AsSubmitted(r), m) = Done(r, m)
         /\ AsSubmitted(r).entry = r.entry
         /\ r.code # "READ_TRANSFER" => AsSubmitted(r) = r
<1>1. CASE r.code # "READ_TRANSFER"
  BY <1>1 DEF AsSubmitted, NewRequest
<1>2. CASE r.code = "READ_TRANSFER"
  <2>1. r \in NandRequests
    BY <1>2, RequestKinds DEF AnyRequest
  <2>2. PICK s \in NandRequests : s = [r EXCEPT !.code = "READ"]
    BY <1>2, <2>1 DEF NandRequests
  <2>3. s.code = "READ" /\ s.entry = r.entry /\ Row(s) = Row(r)
    BY <1>2, <2>1, <2>2 DEF NandRequests, Row
  <2>4. From(s) = From(r) /\ Writes(s) = Writes(r) /\ \A x : Result(s, x) = Result(r, x)
    BY <1>2, <2>3 DEF From, Writes, Result, IsRead
  <2>5. \A m : Done(s, m) = Done(r, m)
    BY <2>4 DEF Done
  <2> QED
    BY <1>2, <2>2, <2>3, <2>4, <2>5 DEF AsSubmitted, NewRequest, AnyRequest
<1> QED
  BY <1>1, <1>2

\* Requests that may be under way together.
LEMMA ApartRequests ==
  ASSUME NEW r \in NewRequest, NEW s \in NewRequest, ~Layer!Ordered!Conflict(r, s)
  PROVE  Independent(r, s)
<1>1. /\ ~(r.entry = s.entry /\ r.entry # NONE)
      /\ r \in NandRequests /\ s \in NandRequests /\ r.die = s.die /\ r.block = s.block
           => /\ r.code # "ERASE" /\ s.code # "ERASE"
              /\ ~(r.code = "WRITE" /\ s.code = "WRITE")
              /\ ~(r.code # s.code /\ r.page = s.page)
  <2>1. r \in NandRequests => ~Layer!Ordered!IsDmaRequest(r)
    BY RequestKinds DEF NewRequest, AnyRequest, Layer!Ordered!IsDmaRequest
  <2>2. s \in NandRequests => ~Layer!Ordered!IsDmaRequest(s)
    BY RequestKinds DEF NewRequest, AnyRequest, Layer!Ordered!IsDmaRequest
  <2> QED
    BY <2>1, <2>2 DEF Layer!Ordered!Conflict
<1>2. ASSUME NEW a \in NewRequest
      PROVE  Reads(a) \subseteq Location
  BY RequestKinds DEF Reads, Location, From, NewRequest, AnyRequest, Entry
<1>3. ASSUME NEW a \in NewRequest, NEW e, <<"entry", e>> \in Reads(a) \cup Writes(a)
      PROVE  a.entry = e /\ e # NONE
  <2>1. a.entry = e /\ a.code # "ERASE"
    BY <1>3 DEF Reads, From, Writes
  <2> QED
    BY <2>1, RequestKinds, LayerAssumption DEF NewRequest, AnyRequest, Entry
<1>4. ASSUME NEW a \in NewRequest, NEW v, <<"page", v>> \in Reads(a) \cup Writes(a)
      PROVE  /\ a \in NandRequests /\ v[1] = a.die /\ v[2] = a.block
             /\ a.code # "ERASE" => v[3] = a.page
             /\ <<"page", v>> \in Reads(a) => a.code = "READ"
             /\ <<"page", v>> \in Writes(a) => a.code \in {"WRITE", "ERASE"}
  <2>1. CASE <<"page", v>> \in Reads(a)
    <3>1. IsRead(a) /\ v = Row(a)
      BY <2>1 DEF Reads, From
    <3>2. a.code = "READ"
      BY <3>1 DEF IsRead, NewRequest
    <3>3. <<"page", v>> \notin Writes(a)
      BY <3>2 DEF Writes
    <3> QED
      BY <3>1, <3>2, <3>3, RequestKinds DEF Row, NewRequest, AnyRequest
  <2>2. CASE <<"page", v>> \in Writes(a)
    <3>1. (a.code = "WRITE" /\ v = Row(a)) \/ (a.code = "ERASE" /\ v \in Erased(a))
      BY <2>2 DEF Writes
    <3>2. <<"page", v>> \notin Reads(a)
      BY <3>1 DEF Reads, From, IsRead
    <3>3. a \in NandRequests
      BY <3>1, RequestKinds DEF NewRequest, AnyRequest
    <3>4. /\ v[1] = a.die /\ v[2] = a.block
          /\ a.code # "ERASE" => v[3] = a.page
      BY <3>1 DEF Row, Erased
    <3> QED
      BY <3>1, <3>2, <3>3, <3>4
  <2> QED
    BY <1>4, <2>1, <2>2
<1>5. ASSUME NEW a \in NewRequest, NEW x \in Reads(a) \cup Writes(a)
      PROVE  \/ \E e : x = <<"entry", e>>
             \/ \E v : x = <<"page", v>>
  BY <1>5 DEF Reads, From, Writes
<1>6. ASSUME NEW x \in Reads(r) \cup Writes(r), x \in Reads(s) \cup Writes(s)
      PROVE  x \notin Writes(r) /\ x \notin Writes(s)
  <2>1. ASSUME NEW e, x = <<"entry", e>> PROVE FALSE
    BY <1>1, <1>3, <1>6, <2>1
  <2>2. ASSUME NEW v, x = <<"page", v>> PROVE x \notin Writes(r) /\ x \notin Writes(s)
    <3>1. /\ r \in NandRequests /\ v[1] = r.die /\ v[2] = r.block
          /\ r.code # "ERASE" => v[3] = r.page
          /\ x \in Reads(r) => r.code = "READ"
          /\ x \in Writes(r) => r.code \in {"WRITE", "ERASE"}
      BY <1>4, <1>6, <2>2
    <3>2. /\ s \in NandRequests /\ v[1] = s.die /\ v[2] = s.block
          /\ s.code # "ERASE" => v[3] = s.page
          /\ x \in Reads(s) => s.code = "READ"
          /\ x \in Writes(s) => s.code \in {"WRITE", "ERASE"}
      BY <1>4, <1>6, <2>2
    <3> QED
      BY <1>1, <1>6, <3>1, <3>2
  <2> QED
    BY <1>5, <2>1, <2>2
<1> QED
  BY <1>2, <1>6 DEF Independent

\* A request that leaves takes nothing of the others with it.
OneLess(list, new, k) ==
  /\ k \in 1..Len(list) /\ Len(new) = Len(list) - 1
  /\ \A i \in 1..Len(list)-1 : new[i] = IF i < k THEN list[i] ELSE list[i+1]

\* The outstanding requests are listed as accepted, each of them in a slot of the pool.
LEMMA OutstandingFacts ==
  ASSUME NEW t, NEW acc, NEW w, Layer!Sound(t, acc, w)
  PROVE  /\ Outstandings(t, acc) \in Seq(NewRequest) /\ Len(Outstandings(t, acc)) = Len(acc)
         /\ Len(acc) \in Nat /\ acc \in Seq(Slot) /\ Layer!Distinct(acc)
         /\ \A s \in ToSet(acc) : s \in Slot /\ t.pool[s] \in AnyRequest
         /\ t.pool \in [Slot -> AnyRequest \cup {NONE}]
<1>1. t \in Layer!Tables /\ Layer!Listed(t, acc)
  BY DEF Layer!Sound
<1>2. /\ acc \in Seq(Slot) /\ Layer!Distinct(acc)
      /\ \A s \in ToSet(acc) : s \in Slot /\ t.pool[s] \in AnyRequest
  BY <1>1, LayerAssumption, Layer!ListedFacts, SameListOperators, SameRequests
<1>3. t.pool \in [Slot -> AnyRequest \cup {NONE}]
  BY <1>1, LayerAssumption, Layer!TableTypes, SameListOperators, SameRequests
<1>4. DOMAIN acc = 1..Len(acc) /\ Len(acc) \in Nat
  BY <1>2, LenProperties
<1>5. ASSUME NEW i \in 1..Len(acc)
      PROVE  AsSubmitted(t.pool[acc[i]]) \in NewRequest
  <2>1. acc[i] \in ToSet(acc)
    BY <1>4 DEF ToSet
  <2> QED
    BY <1>2, <2>1, SubmittedKind
<1>6. Outstandings(t, acc) \in [1..Len(acc) -> NewRequest]
  BY <1>4, <1>5 DEF Outstandings
<1>7. Outstandings(t, acc) \in Seq(NewRequest)
  BY <1>4, <1>6, SeqDef
<1>8. Len(Outstandings(t, acc)) = Len(acc)
  BY <1>4, <1>6, <1>7, LenProperties
<1> QED
  BY <1>2, <1>3, <1>4, <1>7, <1>8

\* A request is submitted: it moves from the one list to the other.
LEMMA OutstandingTaken ==
  ASSUME NEW t, NEW acc, NEW w, Layer!Sound(t, acc, w),
         NEW u, NEW new, NEW r \in NewRequest, Layer!Takes(t, u, acc, new, r)
  PROVE  Outstandings(u, new) = Append(Outstandings(t, acc), r)
<1>1. PICK s \in Slot :
        t.pool[s] = NONE /\ new = Append(acc, s) /\ u.pool = [t.pool EXCEPT ![s] = r]
  BY SameListOperators DEF Layer!Takes, Layer!PoolWith
<1>2. PICK n \in Nat : n = Len(acc)
  BY OutstandingFacts
<1>3. acc \in Seq(Slot) /\ DOMAIN acc = 1..n
  BY <1>2, OutstandingFacts, LenProperties
<1>4. DOMAIN new = 1..n+1 /\ new[n+1] = s /\ \A i \in 1..n : new[i] = acc[i]
  BY <1>1, <1>2, <1>3, AppendProperties, LenProperties
<1>5. \A i \in 1..n : acc[i] \in Slot /\ acc[i] # s
  <2> SUFFICES ASSUME NEW i \in 1..n PROVE acc[i] \in Slot /\ acc[i] # s
    OBVIOUS
  <2>1. acc[i] \in ToSet(acc)
    BY <1>3 DEF ToSet
  <2>2. acc[i] \in Slot /\ t.pool[acc[i]] # NONE
    BY <2>1, OutstandingFacts, RequestKinds
  <2> QED
    BY <1>1, <2>2
<1>6. AsSubmitted(r) = r
  BY DEF AsSubmitted, NewRequest
<1>7. t.pool \in [Slot -> AnyRequest \cup {NONE}]
  BY OutstandingFacts
<1>8. \A i \in 1..n : Outstandings(u, new)[i] = Outstandings(t, acc)[i]
  BY <1>1, <1>3, <1>4, <1>5, <1>7 DEF Outstandings
<1>9. Outstandings(u, new)[n+1] = r
  BY <1>1, <1>4, <1>6, <1>7 DEF Outstandings
<1>10. /\ Outstandings(t, acc) \in Seq(NewRequest) /\ Len(Outstandings(t, acc)) = n
  BY <1>2, OutstandingFacts
<1>11. PICK a, b, c : a = Outstandings(t, acc) /\ b = Outstandings(u, new) /\ c = Append(a, r)
  OBVIOUS
<1>12. DOMAIN c = 1..n+1 /\ c[n+1] = r /\ \A i \in 1..n : c[i] = a[i]
  BY <1>10, <1>11, AppendProperties, LenProperties
<1>13. b = [i \in 1..n+1 |-> b[i]]
  BY <1>4, <1>11 DEF Outstandings
<1>14. c = [i \in 1..n+1 |-> c[i]]
  <2>1. c \in Seq(NewRequest)
    BY <1>10, <1>11, AppendProperties
  <2>2. Len(c) = n+1
    BY <1>10, <1>11, AppendProperties
  <2> QED
    BY <2>1, <2>2, SeqDef
<1>15. \A i \in 1..n+1 : b[i] = c[i]
  BY <1>8, <1>9, <1>11, <1>12
<1> QED
  BY <1>11, <1>13, <1>14, <1>15

\* A request ends that no earlier one is in the way of.
LEMMA OutstandingEnds ==
  ASSUME NEW t, NEW acc, NEW w, Layer!Sound(t, acc, w),
         NEW u, NEW new, NEW s, Layer!Ends(t, u, acc, new, s)
  PROVE  \E k :
           /\ OneLess(Outstandings(t, acc), Outstandings(u, new), k)
           /\ Outstandings(t, acc)[k] = AsSubmitted(t.pool[s])
           /\ \A j \in 1..k-1 :
                Independent(Outstandings(t, acc)[j], Outstandings(t, acc)[k])
<1>1. /\ s \in ToSet(acc) /\ new = Without(acc, s) /\ u.pool = [t.pool EXCEPT ![s] = NONE]
      /\ Layer!StartedIn(t, s)
  BY SameListOperators DEF Layer!Ends, Layer!Ended, Layer!PoolWith
<1>2. PICK n \in Nat : n = Len(acc)
  BY OutstandingFacts
<1>3. /\ acc \in Seq(Slot) /\ DOMAIN acc = 1..n /\ Layer!Distinct(acc)
  BY <1>2, OutstandingFacts, LenProperties
<1>4. /\ Layer!Without(acc, s) \in Seq(Slot)
      /\ \E k \in 1..Len(acc) :
              /\ acc[k] = s
              /\ DOMAIN Layer!Without(acc, s) = 1..Len(acc)-1
              /\ \A i \in 1..Len(acc)-1 :
                   Layer!Without(acc, s)[i] = IF i < k THEN acc[i] ELSE acc[i+1]
  BY <1>1, <1>3, LayerAssumption, Layer!WithoutFacts, SameListOperators
<1>5. PICK k \in 1..n :
        /\ acc[k] = s /\ DOMAIN new = 1..n-1
        /\ \A i \in 1..n-1 : new[i] = IF i < k THEN acc[i] ELSE acc[i+1]
  BY <1>1, <1>2, <1>4, SameListOperators
<1>6. /\ \A x \in ToSet(acc) : x \in Slot
      /\ t.pool \in [Slot -> AnyRequest \cup {NONE}]
      /\ Outstandings(t, acc) \in Seq(NewRequest) /\ Len(Outstandings(t, acc)) = n
  BY <1>2, OutstandingFacts
<1>7. \A i \in 1..n : acc[i] \in Slot
  BY <1>3, <1>6 DEF ToSet
<1>8. PICK a, b : a = Outstandings(t, acc) /\ b = Outstandings(u, new)
  OBVIOUS
<1>9. \A i \in 1..n : a[i] = AsSubmitted(t.pool[acc[i]])
  BY <1>3, <1>8 DEF Outstandings
<1>10. DOMAIN b = 1..n-1 /\ \A i \in 1..n-1 : b[i] = AsSubmitted(u.pool[new[i]])
  BY <1>5, <1>8 DEF Outstandings
<1>11. ASSUME NEW i \in 1..n-1
       PROVE  b[i] = IF i < k THEN a[i] ELSE a[i+1]
  <2>1. PICK m : m = IF i < k THEN i ELSE i+1
    OBVIOUS
  <2>2. m \in 1..n /\ m # k /\ new[i] = acc[m]
    BY <1>5, <2>1
  <2>3. acc[m] # s
    BY <1>3, <1>5, <2>2 DEF Layer!Distinct
  <2>4. u.pool[new[i]] = t.pool[acc[m]]
    BY <1>1, <1>6, <1>7, <2>2, <2>3
  <2>5. b[i] = a[m]
    BY <1>9, <1>10, <2>2, <2>4
  <2> QED
    BY <2>1, <2>5
<1>12. Len(b) = n-1
  <2>1. \A i \in 1..n : a[i] \in NewRequest
    BY <1>6, <1>8, SeqDef, LenProperties
  <2>2. \A i \in 1..n-1 : b[i] \in NewRequest
    BY <1>5, <1>11, <2>1
  <2>3. b \in [1..n-1 -> NewRequest]
    BY <1>5, <1>8, <2>2 DEF Outstandings
  <2>4. b \in Seq(NewRequest) /\ n-1 \in Nat
    BY <1>5, <2>3, SeqDef
  <2> QED
    BY <1>10, <2>4, LenProperties
<1>13. OneLess(a, b, k)
  BY <1>6, <1>8, <1>11, <1>12 DEF OneLess
<1>14. ASSUME NEW j \in 1..k-1
       PROVE  Independent(a[j], a[k])
  <2>1. k \in 1..Len(acc) /\ j \in 1..n /\ Layer!StartedIn(t, acc[k])
    BY <1>1, <1>2, <1>5
  <2>2. ~Layer!Ordered!Conflict(Layer!AsSubmitted(t.pool[acc[j]]),
                                Layer!AsSubmitted(t.pool[acc[k]]))
    BY <2>1, LayerAssumption, Layer!StartsInOrder
  <2>3. a[j] = Layer!AsSubmitted(t.pool[acc[j]]) /\ a[k] = Layer!AsSubmitted(t.pool[acc[k]])
    BY <1>9, <2>1, SameListOperators
  <2>4. a[j] \in NewRequest /\ a[k] \in NewRequest
    BY <1>6, <1>8, <2>1, SeqDef, LenProperties
  <2> QED
    BY <2>2, <2>3, <2>4, ApartRequests
<1> QED
  BY <1>5, <1>8, <1>9, <1>13, <1>14

\* Nothing happens to the list when all of it goes on.
LEMMA OutstandingGoesOn ==
  ASSUME NEW t, NEW acc, NEW w, Layer!Sound(t, acc, w),
         NEW u, NEW new, Layer!GoesOnWithAll(t, u, acc, new)
  PROVE  Outstandings(u, new) = Outstandings(t, acc)
<1>1. new = acc /\ \A x \in Slot : AsSubmitted(u.pool[x]) = AsSubmitted(t.pool[x])
  BY SameListOperators DEF Layer!GoesOnWithAll
<1>2. DOMAIN acc = 1..Len(acc) /\ \A i \in DOMAIN acc : acc[i] \in Slot
  BY OutstandingFacts, LenProperties DEF ToSet
<1> QED
  BY <1>1, <1>2 DEF Outstandings
-----------------------------------------------------------------------------
(***************************************************************************)
(* The invariant.  First the translation layer: bad blocks stay out of     *)
(* use, and a victim is full.                                              *)
(***************************************************************************)
GoodOnly ==
  /\ \A d \in Die : currentBlock[d] \in GoodBlocks(d) /\ free[d] \subseteq GoodBlocks(d)
  /\ \A d \in Die : \A b \in Block \ GoodBlocks(d) : currentPage[d][b] = 0

VictimFull ==
  pc \in {"collect", "copy", "erase"} => currentPage[Target][victimBlockNo] = SLICES_PER_BLOCK

FtlOK ==
  /\ FtlInv /\ Room
  /\ currentPage \in [Die -> [Block -> 0..SLICES_PER_BLOCK]]
  /\ ~reused => GoodOnly /\ VictimFull

(***************************************************************************)
(* The data buffer and its command.  No slice has two entries; a command   *)
(* that has to evict has a dirty entry, whose slice is the one that the    *)
(* translation layer is given.                                             *)
(***************************************************************************)
BufOK ==
  /\ bufLsa \in [DataEntry -> Lsa \cup {NONE}] /\ dirty \in [DataEntry -> BOOLEAN]
  /\ \A e, f \in DataEntry : bufLsa[e] # NONE /\ bufLsa[e] = bufLsa[f] => e = f
  /\ \A e \in DataEntry : dirty[e] => bufLsa[e] # NONE
  /\ lru \in Seq(DataEntry) /\ Layer!Distinct(lru) /\ ToSet(lru) = DataEntry

Stage(stage) == cmd # NONE /\ cmd.stage = stage

CmdOK ==
  /\ cmd # NONE => cmd \in Command /\ commands # 0
  /\ cmd # NONE /\ cmd.code # "FLUSH" /\ cmd.stage # "transfer" => Hit(cmd.lsa) = {}
  /\ Stage("evict") => dirty[cmd.entry]
  /\ Stage("translate") =>
       /\ dirty[cmd.entry]
       /\ pc \in Serving /\ ~reused
            => request = <<bufLsa[cmd.entry], latest[bufLsa[cmd.entry]]>>
  /\ ~Stage("translate") => pc = "idle" /\ ~reused
  /\ Stage("load") => cmd.code # "FLUSH" /\ ~dirty[cmd.entry]
  /\ Stage("transfer") => cmd.code # "FLUSH" /\ bufLsa[cmd.entry] = cmd.lsa

DataOK ==
  /\ latest \in [Lsa -> SliceData] /\ commands \in 0..MaxCommands
  /\ buffer = [e \in Entry |-> buffer[e]] /\ page = [v \in Vsa |-> page[v]]

(***************************************************************************)
(* What is submitted next fits the pages that were handed out.             *)
(***************************************************************************)
Fits(r) ==
  /\ r \in NewRequest
  /\ r.code = "WRITE" => r.page + 1 = currentPage[r.die][r.block]
  /\ r.code = "READ" => r.page < currentPage[r.die][r.block]
  /\ r.code = "ERASE" => currentPage[r.die][r.block] = 0

ForCopy(r, s) ==
  /\ Fits(r) /\ Fits(s) /\ r.code = "READ" /\ s.code = "WRITE"
  /\ r.die # s.die \/ r.block # s.block

TodoOK ==
  \/ todo = <<>>
  \/ \E r : Fits(r) /\ todo = <<r>>
  \/ \E r, s : ForCopy(r, s) /\ todo = <<r, s>>

(***************************************************************************)
(* The data.  A slice that is not dirty is what the translation layer      *)
(* stores; and once all that is ahead is carried out, the pages hold what  *)
(* the translation layer says and the entries what the host wrote last,    *)
(* but for the entry that is about to be overwritten.                      *)
(***************************************************************************)
Stored(stored, x) == IF stored = NONE THEN x = Nothing ELSE stored = x
Dirty(l) == \E e \in DataEntry : bufLsa[e] = l /\ dirty[e]
StoredOK == ~reused => \A l \in Lsa : ~Dirty(l) => Stored(Content[l], latest[l])

Memory == [x \in Location |-> IF x[1] = "entry" THEN buffer[x[2]] ELSE page[x[2]]]

PagesOK(fin) ==
  \A l \in Lsa : logicalSlice[l] # NONE =>
    Agrees(fin[<<"page", logicalSlice[l]>>], flash[logicalSlice[l]])

Overwritten(e) == Stage("transfer") /\ cmd.entry = e /\ cmd.code = "WRITE"
EntriesOK(fin) ==
  \A e \in DataEntry : bufLsa[e] # NONE /\ ~Overwritten(e) =>
    Agrees(fin[<<"entry", e>>], latest[bufLsa[e]])

ContentsOK ==
  ~lost => \E fin : Outcome(Ahead, Memory, fin) /\ (~reused => PagesOK(fin) /\ EntriesOK(fin))

DeviceInv ==
  /\ Layer!ClientInv /\ FtlOK /\ BufOK /\ CmdOK /\ DataOK /\ TodoOK /\ StoredOK /\ ContentsOK

\* Only the request layer and what is ahead of it changes.
Rest == <<ftlVars, bufferMap, cmd, commands, latest>>

\* A step of the request layer disturbs nothing that the rest of the device says.
LEMMA RestStays ==
  ASSUME UNCHANGED Rest
  PROVE  /\ FtlOK => FtlOK'
         /\ BufOK => BufOK'
         /\ CmdOK => CmdOK'
         /\ StoredOK => StoredOK'
         /\ \A r : Fits(r) => Fits(r)'
         /\ \A fin : PagesOK(fin) => PagesOK(fin)'
         /\ \A fin : EntriesOK(fin) => EntriesOK(fin)'
         /\ \A d \in Die, b \in Block : currentPage'[d][b] = currentPage[d][b]
<1>1. /\ UNCHANGED ftlVars /\ cmd' = cmd /\ commands' = commands /\ latest' = latest
      /\ lru' = lru /\ bufLsa' = bufLsa /\ dirty' = dirty
  BY DEF Rest, bufferMap
<1>2. /\ UNCHANGED <<logicalSlice, flash, currentBlock, currentPage, free,
                     sliceAllocationTargetDie, pc, request, victimBlockNo, reused>>
  BY <1>1 DEF ftlVars, maps, blocks, control
<1>3. FtlOK => FtlOK'
  <2>1. FtlInv => FtlInv'
    BY <1>1, FtlStutterInv
  <2>2. Room => Room'
    BY <1>1, RoomStutter
  <2>3. GoodOnly => GoodOnly'
    BY <1>2 DEF GoodOnly, GoodBlocks
  <2>4. VictimFull => VictimFull'
    BY <1>2 DEF VictimFull, Target
  <2> QED
    BY <1>2, <2>1, <2>2, <2>3, <2>4 DEF FtlOK
<1>4. BufOK => BufOK'
  BY <1>1 DEF BufOK
<1>5. CmdOK => CmdOK'
  BY <1>1, <1>2 DEF CmdOK, Stage, Hit
<1>6. StoredOK => StoredOK'
  BY <1>1, <1>2 DEF StoredOK, Dirty, Content
<1>7. \A r : Fits(r) => Fits(r)'
  BY <1>2 DEF Fits
<1>8. \A fin : PagesOK(fin) => PagesOK(fin)'
  BY <1>2 DEF PagesOK
<1>9. \A fin : EntriesOK(fin) => EntriesOK(fin)'
  BY <1>1 DEF EntriesOK, Overwritten, Stage
<1> QED
  BY <1>2, <1>3, <1>4, <1>5, <1>6, <1>7, <1>8, <1>9

-----------------------------------------------------------------------------
(***************************************************************************)
(* The steps of the request layer.                                         *)
(***************************************************************************)
\* ClientInv at the next state, from the parts that a step lemma gives.
LEMMA ClientInvNext ==
  ASSUME Layer!ClientInvAt(q', accepted', Written')
  PROVE  Layer!ClientInv'
BY DEF Layer!ClientInvAt, Layer!ClientInv

\* The pages written so far depend on the current pages and on what is to be submitted.
LEMMA WrittenStays ==
  ASSUME todo' = todo, \A d \in Die, b \in Block : currentPage'[d][b] = currentPage[d][b]
  PROVE  Written' = Written
<1>1. \A code, d, b : Pending(code, d, b)' <=> Pending(code, d, b)
  BY DEF Pending
<1> QED
  BY <1>1 DEF Written

\* What the request layer leaves alone.
LEMMA LayerLeaves ==
  ASSUME DeviceInv, LayerRuns
  PROVE  /\ FtlOK' /\ BufOK' /\ CmdOK' /\ TodoOK' /\ StoredOK'
         /\ Written' = Written /\ todo' = todo /\ reused' = reused
         /\ UNCHANGED <<latest, commands>>
         /\ \A fin : PagesOK(fin) => PagesOK(fin)'
         /\ \A fin : EntriesOK(fin) => EntriesOK(fin)'
<1>1. UNCHANGED Rest /\ todo' = todo /\ reused' = reused /\ UNCHANGED <<latest, commands>>
  BY DEF LayerRuns, Rest, ftlVars
<1>2. FtlOK' /\ BufOK' /\ CmdOK' /\ StoredOK'
  BY <1>1, RestStays DEF DeviceInv
<1>3. /\ \A r : Fits(r) => Fits(r)'
      /\ \A fin : PagesOK(fin) => PagesOK(fin)'
      /\ \A fin : EntriesOK(fin) => EntriesOK(fin)'
      /\ Written' = Written
  BY <1>1, RestStays, WrittenStays
<1>4. TodoOK'
  <2>1. \A r, s : ForCopy(r, s) => ForCopy(r, s)'
    BY <1>3 DEF ForCopy
  <2> QED
    BY <1>1, <1>3, <2>1 DEF DeviceInv, TodoOK
<1> QED
  BY <1>1, <1>2, <1>3, <1>4

\* A die polls, wakes up, or reads again.
LEMMA GoesOnInv ==
  ASSUME DeviceInv, LayerRuns, UNCHANGED <<buffer, page, lost>>,
         Layer!ClientInvAt(q', accepted', Written'),
         Layer!GoesOnWithAll(q, q', accepted, accepted')
  PROVE  DeviceInv'
<1>1. Layer!Sound(q, accepted, Written)
  BY DEF DeviceInv, Layer!ClientInv
<1>2. PICK t, acc, w, u, new : t = q /\ acc = accepted /\ w = Written /\ u = q' /\ new = accepted'
  OBVIOUS
<1>3. Outstandings(u, new) = Outstandings(t, acc)
  BY <1>1, <1>2, OutstandingGoesOn
<1>4. Ahead' = Ahead /\ Memory' = Memory
  BY <1>2, <1>3, LayerLeaves DEF Ahead, Memory
<1>5. ContentsOK'
  BY <1>4, LayerLeaves DEF DeviceInv, ContentsOK
<1>6. DataOK'
  BY LayerLeaves DEF DeviceInv, DataOK
<1> QED
  BY <1>5, <1>6, LayerLeaves, ClientInvNext DEF DeviceInv

\* What a request that ended did to the data.
LEMMA MemoryDone ==
  ASSUME NEW r \in AnyRequest, r.code # "READ", DataOK, EndsWell(r), ~lost
  PROVE  Memory' = Done(r, Memory)
<1>1. buffer' = Fills(r) /\ page' = Programs(r)
  BY DEF EndsWell
<1>2. /\ buffer = [e \in Entry |-> buffer[e]] /\ page = [v \in Vsa |-> page[v]]
  BY DEF DataOK
<1>3. ASSUME NEW e \in Entry
      PROVE  buffer'[e] = IF <<"entry", e>> \in Writes(r) THEN Result(r, Memory[From(r)])
                          ELSE buffer[e]
  <2>1. CASE r.code = "RxDMA"
    <3>1. r.entry \in Entry
      BY <2>1, RequestKinds DEF AnyRequest, Entry
    <3>2. Memory[From(r)] = buffer[r.entry] /\ Writes(r) = {<<"entry", r.entry>>}
      BY <2>1, <3>1 DEF Memory, Location, From, Writes, IsRead
    <3>3. buffer' = [buffer EXCEPT ![r.entry] = Merge(@, r.data)]
      BY <1>1, <2>1 DEF Fills
    <3> QED
      BY <1>2, <2>1, <3>1, <3>2, <3>3 DEF Result
  <2>2. CASE r.code = "READ_TRANSFER"
    <3>1. r.entry \in Entry /\ Row(r) \in Vsa
      BY <2>2, RequestKinds DEF AnyRequest
    <3>2. Memory[From(r)] = page[Row(r)] /\ Writes(r) = {<<"entry", r.entry>>}
      BY <2>2, <3>1 DEF Memory, Location, From, Writes, IsRead
    <3>3. buffer' = [buffer EXCEPT ![r.entry] = page[Row(r)]]
      BY <1>1, <2>2 DEF Fills
    <3> QED
      BY <1>2, <2>2, <3>1, <3>2, <3>3 DEF Result
  <2>3. CASE r.code \in {"TxDMA", "WRITE", "ERASE"}
    BY <1>1, <2>3 DEF Fills, Writes
  <2> QED
    BY <2>1, <2>2, <2>3, RequestKinds DEF AnyRequest
<1>4. ASSUME NEW v \in Vsa
      PROVE  page'[v] = IF <<"page", v>> \in Writes(r) THEN Result(r, Memory[From(r)])
                        ELSE page[v]
  <2>1. CASE r.code = "WRITE"
    <3>1. r.entry \in Entry /\ Row(r) \in Vsa
      BY <2>1, RequestKinds DEF AnyRequest
    <3>2. Memory[From(r)] = buffer[r.entry] /\ Writes(r) = {<<"page", Row(r)>>}
      BY <2>1, <3>1 DEF Memory, Location, From, Writes, IsRead
    <3>3. page' = [page EXCEPT ![Row(r)] = buffer[r.entry]]
      BY <1>1, <2>1 DEF Programs
    <3> QED
      BY <1>2, <2>1, <3>1, <3>2, <3>3 DEF Result
  <2>2. CASE r.code = "ERASE"
    <3>1. page' = [x \in Vsa |-> IF x \in Erased(r) THEN Nothing ELSE page[x]]
      BY <1>1, <2>2 DEF Programs
    <3>2. <<"page", v>> \in Writes(r) <=> v \in Erased(r)
      BY <2>2 DEF Writes
    <3> QED
      BY <2>2, <3>1, <3>2 DEF Result
  <2>3. CASE r.code \in {"TxDMA", "RxDMA", "READ_TRANSFER"}
    BY <1>1, <2>3 DEF Programs, Writes
  <2> QED
    BY <2>1, <2>2, <2>3, RequestKinds DEF AnyRequest
<1>5. ASSUME NEW x \in Location
      PROVE  Memory'[x] = IF x \in Writes(r) THEN Result(r, Memory[From(r)]) ELSE Memory[x]
  <2>1. CASE x \in {"entry"} \X Entry
    <3>1. PICK e \in Entry : x = <<"entry", e>>
      BY <2>1
    <3>2. Memory'[x] = buffer'[e] /\ Memory[x] = buffer[e]
      BY <1>5, <3>1 DEF Memory
    <3> QED
      BY <1>3, <3>1, <3>2
  <2>2. CASE x \in {"page"} \X Vsa
    <3>1. PICK v \in Vsa : x = <<"page", v>>
      BY <2>2
    <3>2. Memory'[x] = page'[v] /\ Memory[x] = page[v]
      BY <1>5, <3>1 DEF Memory
    <3> QED
      BY <1>4, <3>1, <3>2
  <2> QED
    BY <1>5, <2>1, <2>2 DEF Location
<1>6. Memory' = [x \in Location |-> Memory'[x]]
  BY DEF Memory
<1> QED
  BY <1>5, <1>6 DEF Done

\* The data has its places, whatever ends.
LEMMA EndsTyped ==
  ASSUME NEW r \in AnyRequest, DataOK, EndsWell(r), UNCHANGED <<latest, commands>>
  PROVE  DataOK'
<1>1. /\ buffer = [e \in Entry |-> buffer[e]] /\ page = [v \in Vsa |-> page[v]]
  BY DEF DataOK
<1>2. Fills(r) = [e \in Entry |-> Fills(r)[e]] /\ Programs(r) = [v \in Vsa |-> Programs(r)[v]]
  BY <1>1 DEF Fills, Programs
<1>3. buffer' = [e \in Entry |-> buffer'[e]] /\ page' = [v \in Vsa |-> page'[v]]
  BY <1>1, <1>2 DEF EndsWell
<1> QED
  BY <1>3 DEF DataOK

\* What is submitted next are requests.
LEMMA TodoTyped == TodoOK => todo \in Seq(NewRequest)
<1>1. ASSUME NEW r, Fits(r), todo = <<r>> PROVE todo \in Seq(NewRequest)
  BY <1>1 DEF Fits
<1>2. ASSUME NEW r, NEW x, ForCopy(r, x), todo = <<r, x>> PROVE todo \in Seq(NewRequest)
  <2>1. r \in NewRequest /\ x \in NewRequest
    BY <1>2 DEF ForCopy, Fits
  <2> QED
    BY <1>2, <2>1
<1>3. ASSUME todo = <<>> PROVE todo \in Seq(NewRequest)
  BY <1>3, EmptySeq
<1> QED
  BY <1>1, <1>2, <1>3 DEF TodoOK

\* A request ends, well.
LEMMA EndsInv ==
  ASSUME DeviceInv, LayerRuns, NEW s, EndsWell(q.pool[s]), q.pool[s].code # "READ",
         Layer!ClientInvAt(q', accepted', Written'),
         Layer!Ends(q, q', accepted, accepted', s)
  PROVE  DeviceInv'
<1>1. Layer!Sound(q, accepted, Written)
  BY DEF DeviceInv, Layer!ClientInv
<1>2. PICK t, acc, w, u, new : t = q /\ acc = accepted /\ w = Written /\ u = q' /\ new = accepted'
  OBVIOUS
<1>3. PICK a, b : a = Outstandings(t, acc) /\ b = Outstandings(u, new)
  OBVIOUS
<1>4. PICK k : /\ OneLess(a, b, k) /\ a[k] = AsSubmitted(t.pool[s])
               /\ \A j \in 1..k-1 : Independent(a[j], a[k])
  BY <1>1, <1>2, <1>3, OutstandingEnds
<1>5. a \in Seq(NewRequest) /\ t.pool[s] \in AnyRequest
  <2>1. s \in ToSet(acc)
    BY <1>2, SameListOperators DEF Layer!Ends
  <2> QED
    BY <1>1, <1>2, <1>3, <2>1, OutstandingFacts
<1>6. todo \in Seq(NewRequest)
  BY TodoTyped DEF DeviceInv
<1>7. Ahead = a \o todo /\ Ahead' = b \o todo
  BY <1>2, <1>3, LayerLeaves DEF Ahead
<1>8. ASSUME ~lost
      PROVE  \E fin : Outcome(Ahead', Memory', fin) /\ (~reused => PagesOK(fin) /\ EntriesOK(fin))
  <2>1. PICK fin : Outcome(Ahead, Memory, fin) /\ (~reused => PagesOK(fin) /\ EntriesOK(fin))
    BY <1>8 DEF DeviceInv, ContentsOK
  <2>2. PICK list, less : list = a \o todo /\ less = b \o todo
    OBVIOUS
  <2>3. PICK n \in Nat, m \in Nat : n = Len(a) /\ m = Len(todo)
    BY <1>5, <1>6, LenProperties
  <2>4. /\ list \in Seq(NewRequest) /\ Len(list) = n + m
        /\ \A i \in 1..n+m : list[i] = IF i <= n THEN a[i] ELSE todo[i-n]
    BY <1>5, <1>6, <2>2, <2>3, ConcatProperties
  <2>5. k \in 1..n /\ Len(b) = n-1 /\ \A i \in 1..n-1 : b[i] = IF i < k THEN a[i] ELSE a[i+1]
    BY <1>4, <2>3 DEF OneLess
  <2>6. /\ Len(less) = n - 1 + m
        /\ \A i \in 1..n-1+m : less[i] = IF i <= n-1 THEN b[i] ELSE todo[i-(n-1)]
    <3>1. Layer!Sound(u, new, Written')
      BY <1>2 DEF Layer!ClientInvAt
    <3>2. b \in Seq(NewRequest)
      BY <1>3, <3>1, OutstandingFacts
    <3>3. Len(b) = n-1 /\ n-1 \in Nat
      BY <2>5
    <3>4. /\ Len(less) = Len(b) + Len(todo)
          /\ \A i \in 1..Len(b)+Len(todo) :
               less[i] = IF i <= Len(b) THEN b[i] ELSE todo[i-Len(b)]
      BY <1>6, <2>2, <3>2, ConcatProperties
    <3> QED
      BY <2>3, <3>3, <3>4
  <2>7. \A i \in 1..n+m-1 : less[i] = IF i < k THEN list[i] ELSE list[i+1]
    <3> SUFFICES ASSUME NEW i \in 1..n+m-1 PROVE less[i] = IF i < k THEN list[i] ELSE list[i+1]
      OBVIOUS
    <3>1. CASE i <= n-1
      <4>1. less[i] = b[i] /\ i \in 1..n-1 /\ i \in 1..n+m /\ i+1 \in 1..n+m /\ i <= n /\ i+1 <= n
        BY <2>3, <2>6, <3>1
      <4>2. list[i] = a[i] /\ list[i+1] = a[i+1]
        BY <2>4, <4>1
      <4> QED
        BY <2>5, <4>1, <4>2
    <3>2. CASE ~(i <= n-1)
      <4>1. /\ less[i] = todo[i-(n-1)] /\ ~(i < k) /\ i+1 \in 1..n+m /\ ~(i+1 <= n)
            /\ i+1-n = i-(n-1)
        BY <2>3, <2>5, <2>6, <3>2
      <4>2. list[i+1] = todo[i+1-n]
        BY <2>3, <2>4, <4>1
      <4> QED
        BY <4>1, <4>2
    <3> QED
      BY <3>1, <3>2
  <2>8. list[k] = a[k] /\ \A j \in 1..k-1 : list[j] = a[j]
    BY <2>3, <2>4, <2>5
  <2>9. Outcome(less, Done(list[k], Memory), fin)
    <3>1. k \in 1..Len(list) /\ Len(less) = Len(list) - 1
      BY <2>3, <2>4, <2>5, <2>6
    <3>2. \A j \in 1..k-1 : Independent(list[j], list[k])
      BY <1>4, <2>8
    <3>3. \A i \in 1..Len(list)-1 : less[i] = IF i < k THEN list[i] ELSE list[i+1]
      BY <2>4, <2>7
    <3> QED
      BY <1>7, <2>1, <2>2, <2>4, <3>1, <3>2, <3>3, OutcomeRemove
  <2>10. Memory' = Done(list[k], Memory)
    <3>1. Memory' = Done(t.pool[s], Memory)
      BY <1>2, <1>5, <1>8, MemoryDone DEF DeviceInv
    <3>2. Done(AsSubmitted(t.pool[s]), Memory) = Done(t.pool[s], Memory)
      BY <1>5, SubmittedKind
    <3> QED
      BY <1>4, <2>8, <3>1, <3>2
  <2> QED
    BY <1>7, <2>1, <2>2, <2>9, <2>10
<1>9. ContentsOK'
  <2>1. lost' = lost /\ reused' = reused
    BY LayerLeaves DEF EndsWell
  <2> QED
    BY <1>8, <2>1, LayerLeaves DEF ContentsOK
<1>10. DataOK'
  <2>1. DataOK /\ UNCHANGED <<latest, commands>>
    BY LayerLeaves DEF DeviceInv
  <2> QED
    BY <1>2, <1>5, <2>1, EndsTyped
<1> QED
  BY <1>9, <1>10, LayerLeaves, ClientInvNext DEF DeviceInv

\* A request ends, and data is lost.
LEMMA LosesInv ==
  ASSUME DeviceInv, LayerRuns, LosesData, Layer!ClientInvAt(q', accepted', Written')
  PROVE  DeviceInv'
<1>1. ContentsOK'
  BY DEF LosesData, ContentsOK
<1>2. DataOK'
  BY LayerLeaves DEF DeviceInv, DataOK, LosesData
<1> QED
  BY <1>1, <1>2, LayerLeaves, ClientInvNext DEF DeviceInv

\* What a step does to the list of requests.
LEMMA Listing ==
  ASSUME NEW t, NEW u, NEW acc, NEW new
  PROVE  /\ Layer!GoesOnWithAll(t, u, acc, new) => Layer!StepOfList(t, u, acc, new)
         /\ \A s : Layer!Ends(t, u, acc, new, s) => Layer!StepOfList(t, u, acc, new)
         /\ Layer!TakesOne(t, u, acc, new) => Layer!StepOfList(t, u, acc, new)
BY DEF Layer!StepOfList, Layer!EndsOne, Layer!Ends

\* The host DMA or a die makes progress.
LEMMA RequestLayerInv ==
  ASSUME DeviceInv, RequestLayer
  PROVE  DeviceInv' /\ Layer!StepOfList(q, q', accepted, accepted')
<1>1. Layer!ClientInv /\ Layer!Sound(q, accepted, Written)
  BY DEF DeviceInv, Layer!ClientInv
<1>2. ASSUME LayerRuns PROVE Written' = Written
  BY <1>2, LayerLeaves
<1>3. ASSUME NEW s \in Slot, HostDone(s)
      PROVE  DeviceInv' /\ Layer!StepOfList(q, q', accepted, accepted')
  <2>1. LayerRuns /\ DmaDone(s) /\ EndsWell(q.pool[s]) /\ Layer!DmaDone(s)
    BY <1>3, SameTransferDone DEF HostDone
  <2>2. s \in Layer!Slot
    BY SameListOperators
  <2>3. Layer!ClientInvAt(q', accepted', Written') /\ Layer!Ends(q, q', accepted, accepted', s)
    BY <1>1, <1>2, <2>1, <2>2, LayerAssumption, Layer!DmaDoneStep
  <2>4. s \in Layer!ToSet(q.nvmeDma)
    BY <2>1, SameListOperators DEF DmaDone, ToSet
  <2>5. Layer!IsDma(q.pool[s])
    BY <1>1, <2>4 DEF Layer!Sound, Layer!RowInv, Layer!Placed
  <2>6. q.pool[s].code # "READ"
    BY <2>5 DEF Layer!IsDma
  <2> QED
    BY <2>1, <2>3, <2>6, EndsInv, Listing
<1>4. ASSUME NEW d \in Die, Poll(d)
      PROVE  DeviceInv' /\ Layer!StepOfList(q, q', accepted, accepted')
  <2>1. LayerRuns /\ UNCHANGED <<buffer, page, lost>> /\ (Layer!Wake(d) \/ Layer!IssueNandReq(d))
    BY <1>4, SameDieSteps DEF Poll
  <2>2. /\ Layer!ClientInvAt(q', accepted', Written')
        /\ Layer!GoesOnWithAll(q, q', accepted, accepted')
    <3>1. CASE Layer!Wake(d)
      BY <1>1, <1>2, <2>1, <3>1, LayerAssumption, Layer!WakeStep
    <3>2. CASE Layer!IssueNandReq(d)
      BY <1>1, <1>2, <2>1, <3>2, LayerAssumption, Layer!IssueNandReqStep
    <3> QED
      BY <2>1, <3>1, <3>2
  <2> QED
    BY <2>1, <2>2, GoesOnInv, Listing
<1>5. ASSUME NEW d \in Die, NEW status \in Statuses(d), DieDone(d, status)
      PROVE  DeviceInv' /\ Layer!StepOfList(q, q', accepted, accepted')
  <2>1. LayerRuns /\ NandDone(d, status) /\ Layer!NandDone(d, status)
    BY <1>5, SameDieSteps DEF DieDone
  <2>2. /\ status \in Layer!Statuses(d) /\ Layer!HeadReq(d) = HeadReq(d)
    BY SameStatuses
  <2>3. /\ Layer!ClientInvAt(q', accepted', Written')
        /\ Layer!Ends(q, q', accepted, accepted', Layer!HeadReq(d))
    BY <1>1, <1>2, <2>1, <2>2, LayerAssumption, Layer!NandDoneStep
  <2> SUFFICES DeviceInv'
    BY <2>3, Listing
  <2>4. CASE status = "FAIL"
    BY <1>5, <2>1, <2>3, <2>4, LosesInv DEF DieDone
  <2>5. CASE status # "FAIL"
    <3>1. q.pool[HeadReq(d)].code # "READ"
      BY <2>1, <2>5 DEF NandDone, Statuses, Triggered, HeadCode
    <3>2. EndsWell(q.pool[HeadReq(d)])
      BY <1>5, <2>5 DEF DieDone
    <3> QED
      BY <2>1, <2>2, <2>3, <3>1, <3>2, EndsInv
  <2> QED
    BY <2>4, <2>5
<1>6. ASSUME NEW d \in Die, NEW status \in Statuses(d), LayerRuns,
             ReadTriggered(d, status) \/ ReadRetried(d, status), UNCHANGED <<buffer, page, lost>>
      PROVE  DeviceInv' /\ Layer!StepOfList(q, q', accepted, accepted')
  <2>1. /\ status \in Layer!Statuses(d)
        /\ Layer!ReadTriggered(d, status) \/ Layer!ReadRetried(d, status)
    BY <1>6, SameStatuses, SameDieSteps
  <2>2. /\ Layer!ClientInvAt(q', accepted', Written')
        /\ Layer!GoesOnWithAll(q, q', accepted, accepted')
    <3>1. CASE Layer!ReadTriggered(d, status)
      BY <1>1, <1>2, <1>6, <2>1, <3>1, LayerAssumption, Layer!ReadTriggeredStep
    <3>2. CASE Layer!ReadRetried(d, status)
      BY <1>1, <1>2, <1>6, <2>1, <3>2, LayerAssumption, Layer!ReadRetriedStep
    <3> QED
      BY <2>1, <3>1, <3>2
  <2> QED
    BY <1>6, <2>2, GoesOnInv, Listing
<1>7. ASSUME NEW d \in Die, Answer(d)
      PROVE  DeviceInv' /\ Layer!StepOfList(q, q', accepted, accepted')
  BY <1>5, <1>6, <1>7 DEF Answer
<1> QED
  BY <1>3, <1>4, <1>7 DEF RequestLayer

(***************************************************************************)
(* A request is submitted.  The premise of the theorems is that the        *)
(* generations of a block are kept apart, as in RequestClient.             *)
(***************************************************************************)
KeepsApart(r) ==
  /\ r.code = "WRITE" /\ q.blockedEraseReqFlag[r.die][r.block]
       => q.permittedProgPage[r.die][r.block] = SLICES_PER_BLOCK
  /\ r.code = "ERASE" => ~q.blockedEraseReqFlag[r.die][r.block]

\* Two requests, one after the other.
LEMMA TwoRequests ==
  ASSUME NEW r \in NewRequest, NEW s \in NewRequest
  PROVE  <<r>> \o <<s>> = <<r, s>> /\ Append(<<r>>, s) = <<r, s>>
<1>1. <<r>> \in Seq(NewRequest) /\ <<s>> \in Seq(NewRequest)
  OBVIOUS
<1>2. PICK a, b : a = <<r>> \o <<s>> /\ b = <<r, s>>
  OBVIOUS
<1>3. a \in Seq(NewRequest) /\ Len(a) = 2 /\ a[1] = r /\ a[2] = s
  BY <1>1, <1>2, ConcatProperties
<1>4. b \in Seq(NewRequest) /\ Len(b) = 2 /\ b[1] = r /\ b[2] = s
  BY <1>2
<1>5. \A i \in 1..Len(a) : a[i] = b[i]
  BY <1>3, <1>4
<1>6. a = b
  BY <1>3, <1>4, <1>5, SeqEqual
<1> QED
  BY <1>1, <1>2, <1>6, AppendIsConcat

\* The first of the requests in hand may be submitted, as the request layer asks of its client.
LEMMA MaySubmitNext ==
  ASSUME DeviceInv, SubmitNext, KeepsApart(Head(todo)), NEW r, r = Head(todo)
  PROVE  /\ r \in NewRequest /\ Layer!MaySubmit(q, Written, r, Written') /\ TodoOK'
         /\ \A a \in Seq(NewRequest) : Append(a, r) \o todo' = a \o todo
<1>1. /\ todo # <<>> /\ todo' = Tail(todo) /\ UNCHANGED Rest /\ Submit(r)
      /\ currentPage \in [Die -> [Block -> 0..SLICES_PER_BLOCK]]
      /\ SLICES_PER_BLOCK \in Nat
  BY FtlAssumption DEF SubmitNext, Rest, DeviceInv, FtlOK, contents
<1>2. \A d \in Die, b \in Block : currentPage'[d][b] = currentPage[d][b]
  BY <1>1, RestStays
<1>3. \A x : Fits(x) => Fits(x)'
  BY <1>1, RestStays
<1>4. ASSUME NEW x, Fits(x), todo = <<x>>
      PROVE  /\ r \in NewRequest /\ Layer!MaySubmit(q, Written, r, Written') /\ TodoOK'
             /\ \A a \in Seq(NewRequest) : Append(a, r) \o todo' = a \o todo
  <2>1. r = x /\ todo' = <<>> /\ r \in NewRequest
    BY <1>1, <1>4 DEF Fits
  <2>2. \A code, d, b :
          Pending(code, d, b) <=> r.code = code /\ r.die = d /\ r.block = b
    BY <1>4, <2>1 DEF Pending
  <2>3. \A code, d, b : ~Pending(code, d, b)'
    BY <2>1 DEF Pending
  <2>4. \A d \in Die, b \in Block :
          /\ Written'[d][b] = currentPage[d][b]
          /\ Written[d][b] =
               IF r.code = "ERASE" /\ r.die = d /\ r.block = b THEN SLICES_PER_BLOCK
               ELSE IF r.code = "WRITE" /\ r.die = d /\ r.block = b
               THEN currentPage[d][b] - 1 ELSE currentPage[d][b]
    BY <1>2, <2>2, <2>3 DEF Written
  <2>5. CASE r \in Transfers
    <3>1. Layer!IsDma(r) /\ r.code # "ERASE" /\ r.code # "WRITE"
      BY <2>1, <2>5, RequestKinds, SameListOperators DEF NewRequest
    <3>2. Written' = Written
      BY <2>2, <2>3, <2>4, <3>1 DEF Written
    <3>3. Layer!MaySubmit(q, Written, r, Written')
      BY <3>1, <3>2 DEF Layer!MaySubmit
    <3> QED
      BY <1>4, <2>1, <3>3, AppendIsConcat, ConcatEmptySeq, AppendProperties DEF TodoOK
  <2>6. CASE r \in NandRequests
    <3>1. /\ r.code \in {"READ", "WRITE", "ERASE"} /\ r.die \in Die /\ r.block \in Block
          /\ r.code # "ERASE" => r.page \in Page
          /\ ~Layer!IsDma(r)
      BY <2>1, <2>6, RequestKinds, SameListOperators DEF NewRequest, IsDma
    <3>2. currentPage[r.die][r.block] \in 0..SLICES_PER_BLOCK
      BY <1>1, <3>1
    <3>3. \A d \in Die, b \in Block :
            d # r.die \/ b # r.block => Written'[d][b] = Written[d][b]
      BY <2>4
    <3>4. ASSUME r.code = "WRITE"
          PROVE  /\ r.page = Written[r.die][r.block]
                 /\ Written'[r.die][r.block] = Written[r.die][r.block] + 1
                 /\ q.blockedEraseReqFlag[r.die][r.block] =>
                      q.permittedProgPage[r.die][r.block] = SLICES_PER_BLOCK
      <4>1. r.page + 1 = currentPage[r.die][r.block] /\ r.page \in Nat
        BY <1>4, <2>1, <3>1, <3>4 DEF Fits, Page
      <4>2. Written[r.die][r.block] = currentPage[r.die][r.block] - 1
        BY <2>4, <3>1, <3>4
      <4> QED
        BY <2>4, <3>1, <3>2, <3>4, <4>1, <4>2 DEF KeepsApart
    <3>5. ASSUME r.code = "READ"
          PROVE  /\ r.page < Written[r.die][r.block]
                 /\ Written'[r.die][r.block] = Written[r.die][r.block]
                 /\ ~q.blockedEraseReqFlag[r.die][r.block]
      BY <1>1, <1>4, <2>1, <2>4, <3>1, <3>5 DEF Fits, Submit, WaitsForErase
    <3>6. ASSUME r.code = "ERASE"
          PROVE  /\ Written[r.die][r.block] = SLICES_PER_BLOCK
                 /\ Written'[r.die][r.block] = 0
                 /\ ~q.blockedEraseReqFlag[r.die][r.block]
      BY <1>4, <2>1, <2>4, <3>1, <3>6 DEF Fits, KeepsApart
    <3>7. Layer!MaySubmit(q, Written, r, Written')
      BY <3>1, <3>3, <3>4, <3>5, <3>6 DEF Layer!MaySubmit
    <3> QED
      BY <1>4, <2>1, <3>7, AppendIsConcat, ConcatEmptySeq, AppendProperties DEF TodoOK
  <2> QED
    BY <2>1, <2>5, <2>6 DEF NewRequest, AnyRequest
<1>5. ASSUME NEW x, NEW y, ForCopy(x, y), todo = <<x, y>>
      PROVE  /\ r \in NewRequest /\ Layer!MaySubmit(q, Written, r, Written') /\ TodoOK'
             /\ \A a \in Seq(NewRequest) : Append(a, r) \o todo' = a \o todo
  <2>1. r = x /\ todo' = <<y>> /\ r \in NewRequest /\ y \in NewRequest
    BY <1>1, <1>5 DEF ForCopy, Fits
  <2>2. r.code = "READ" /\ y.code = "WRITE" /\ (r.die # y.die \/ r.block # y.block)
    BY <1>5, <2>1 DEF ForCopy
  <2>3. \A code, d, b : code \in {"ERASE", "WRITE"} =>
          (Pending(code, d, b) <=> y.code = code /\ y.die = d /\ y.block = b)
    BY <1>5, <2>1, <2>2 DEF Pending
  <2>4. \A code, d, b : Pending(code, d, b)' <=> y.code = code /\ y.die = d /\ y.block = b
    BY <2>1 DEF Pending
  <2>5. Written' = Written
    BY <1>2, <2>3, <2>4 DEF Written
  <2>6. /\ r.die \in Die /\ r.block \in Block /\ ~Layer!IsDma(r)
    BY <2>1, <2>2, RequestKinds, SameListOperators DEF NewRequest, IsDma, AnyRequest
  <2>7. Written[r.die][r.block] = currentPage[r.die][r.block]
    BY <2>2, <2>3, <2>6 DEF Written
  <2>8. Layer!MaySubmit(q, Written, r, Written')
    BY <1>1, <1>5, <2>1, <2>2, <2>5, <2>6, <2>7
    DEF Layer!MaySubmit, ForCopy, Fits, Submit, WaitsForErase
  <2>9. TodoOK'
    BY <1>3, <1>5, <2>1 DEF TodoOK, ForCopy
  <2>10. ASSUME NEW a \in Seq(NewRequest)
         PROVE  Append(a, r) \o todo' = a \o todo
    <3>1. <<r>> \in Seq(NewRequest) /\ <<y>> \in Seq(NewRequest)
      BY <2>1
    <3>2. <<r>> \o <<y>> = <<r, y>>
      BY <2>1, TwoRequests
    <3>3. Append(a, r) = a \o <<r>>
      BY <2>1, AppendIsConcat
    <3> QED
      BY <1>5, <2>1, <3>1, <3>2, <3>3, ConcatAssociative
  <2> QED
    BY <2>1, <2>8, <2>9, <2>10
<1> QED
  BY <1>1, <1>4, <1>5 DEF DeviceInv, TodoOK

\* Submitting it moves it from the requests in hand to the end of the outstanding ones.
LEMMA SubmitNextInv ==
  ASSUME DeviceInv, SubmitNext, KeepsApart(Head(todo))
  PROVE  DeviceInv' /\ Layer!TakesOne(q, q', accepted, accepted')
<1>1. Layer!ClientInv /\ Layer!Sound(q, accepted, Written)
  BY DEF DeviceInv, Layer!ClientInv
<1>2. PICK r : r = Head(todo)
  OBVIOUS
<1>3. /\ r \in NewRequest /\ Layer!MaySubmit(q, Written, r, Written') /\ TodoOK'
      /\ \A a \in Seq(NewRequest) : Append(a, r) \o todo' = a \o todo
  BY <1>2, MaySubmitNext
<1>4. Layer!Submit(r) /\ r \in Layer!Request /\ r.code # "READ_TRANSFER"
  BY <1>2, <1>3, SameSubmit, SameRequests DEF SubmitNext, NewRequest
<1>5. /\ UNCHANGED Rest /\ UNCHANGED contents /\ reused' = reused
  BY DEF SubmitNext, Rest, ftlVars, contents
<1>6. FtlOK' /\ BufOK' /\ CmdOK' /\ StoredOK'
  BY <1>5, RestStays DEF DeviceInv
<1>7. Written' \in [Die -> [Block -> 0..SLICES_PER_BLOCK]]
  <2>1. currentPage' \in [Die -> [Block -> 0..SLICES_PER_BLOCK]]
    BY <1>6 DEF FtlOK
  <2>2. ASSUME NEW d \in Die, NEW b \in Block, Pending("WRITE", d, b)'
        PROVE  currentPage'[d][b] - 1 \in 0..SLICES_PER_BLOCK
    <3>1. PICK i \in DOMAIN todo' :
            todo'[i].code = "WRITE" /\ todo'[i].die = d /\ todo'[i].block = b
      BY <2>2 DEF Pending
    <3>2. PICK x : x = todo'[i]
      OBVIOUS
    <3>3. Fits(x)'
      BY <1>3, <3>1, <3>2 DEF TodoOK, ForCopy
    <3>4. x \in NandRequests
      BY <3>1, <3>2, <3>3, RequestKinds DEF Fits, NewRequest, AnyRequest
    <3>5. x.page + 1 = currentPage'[d][b] /\ x.page \in Page
      BY <3>1, <3>2, <3>3, <3>4, RequestKinds DEF Fits, NewRequest, AnyRequest
    <3> QED
      BY <2>1, <3>5, FtlAssumption DEF Page
  <2> QED
    BY <2>1, <2>2, FtlAssumption DEF Written
<1>8. /\ Layer!ClientInvAt(q', accepted', Written')
      /\ Layer!Takes(q, q', accepted, accepted', r)
  <2>1. PICK new \in [Die -> [Block -> 0..SLICES_PER_BLOCK]] : new = Written'
    BY <1>7
  <2> QED
    BY <1>1, <1>3, <1>4, <2>1, LayerAssumption, Layer!Submitted
<1>9. Ahead' = Ahead
  <2>1. PICK t, acc, w, u, new : t = q /\ acc = accepted /\ w = Written /\ u = q' /\ new = accepted'
    OBVIOUS
  <2>2. Outstandings(u, new) = Append(Outstandings(t, acc), r)
    BY <1>1, <1>3, <1>8, <2>1, OutstandingTaken
  <2>3. Outstandings(t, acc) \in Seq(NewRequest)
    BY <1>1, <2>1, OutstandingFacts
  <2> QED
    BY <1>3, <2>1, <2>2, <2>3 DEF Ahead
<1>10. ContentsOK' /\ DataOK'
  <2>1. Memory' = Memory
    BY <1>5 DEF Memory, contents
  <2> QED
    BY <1>5, <1>9, <2>1, RestStays DEF DeviceInv, ContentsOK, DataOK, contents, Rest
<1>11. Layer!TakesOne(q, q', accepted, accepted')
  BY <1>4, <1>8 DEF Layer!TakesOne
<1> QED
  BY <1>3, <1>6, <1>8, <1>10, <1>11, ClientInvNext DEF DeviceInv
-----------------------------------------------------------------------------
(***************************************************************************)
(* The translation layer as the device uses it.                            *)
(***************************************************************************)
\* No page beyond its block is handed out.
LEMMA EndsIdle ==
  ASSUME NEW b, Ending(b)
  PROVE  pc' = "idle"
<1>1. /\ currentPage \in [Die -> [Block -> 0..SLICES_PER_BLOCK]] /\ Target \in Die /\ b \in Block
      /\ currentPage[Target][b] < SLICES_PER_BLOCK
  BY DEF Ending, FtlInv, FtlTypeOK, Target
<1>2. currentPage'[Target][b] = currentPage[Target][b] + 1
  BY <1>1 DEF Ending, EndWrite, Place
<1>3. ~(currentPage'[Target][b] > SLICES_PER_BLOCK)
  BY <1>1, <1>2, FtlAssumption
<1> QED
  BY <1>3 DEF Ending, EndWrite

\* A page is handed out by the current block, or by a free one.
LEMMA Handed ==
  ASSUME FtlOK, ~reused, FtlFind, pc' = "idle"
  PROVE  \E b : /\ Ending(b) /\ PlacePre(b, request[1], request[2])
                /\ b \in GoodBlocks(Target) /\ reused' = reused
                /\ request[1] \in Lsa /\ request[2] \in Data
<1>1. /\ FtlInv /\ FtlTypeOK /\ MapsInverse /\ GoodOnly /\ Target \in Die
  BY DEF FtlOK, FtlInv, FtlTypeOK, Target
<1>2. \E b : Ending(b) /\ b \in GoodBlocks(Target)
  <2>1. CASE FindInCurrentBlock
    BY <1>1, <2>1, CurrentEnding DEF GoodOnly, Current
  <2>2. ASSUME NEW b \in free[Target], FindInFreeBlock(b)
        PROVE  Ending(b) /\ b \in GoodBlocks(Target)
    BY <1>1, <2>2, FreeEnding DEF GoodOnly
  <2>3. ~Abort /\ \A b : ~BeginCollection(b)
    BY DEF Abort, BeginCollection
  <2> QED
    BY <2>1, <2>2, <2>3 DEF FtlFind
<1>3. PICK b : Ending(b) /\ b \in GoodBlocks(Target)
  BY <1>2
<1>4. request[1] \in Lsa /\ request[2] \in Data
  BY <1>1, <1>3 DEF Ending, Finding, FtlTypeOK
<1>5. PlacePre(b, request[1], request[2])
  BY <1>1, <1>3, <1>4 DEF Ending, EndWrite, PlacePre
<1> QED
  BY <1>3, <1>4, <1>5 DEF Ending, EndWrite

\* Otherwise a collection begins, or the firmware gives up.
LEMMA NotHanded ==
  ASSUME FtlOK, ~reused, FtlFind, pc' # "idle"
  PROVE  /\ pc \in Serving /\ UNCHANGED <<maps, blocks, request, Target, reused>>
         /\ pc' \in {"collect", "copy", "erase"} => currentPage[Target][victimBlockNo'] = SLICES_PER_BLOCK
<1>1. /\ FtlInv /\ FtlTypeOK /\ Room /\ GoodOnly /\ Target \in Die
      /\ currentPage \in [Die -> [Block -> 0..SLICES_PER_BLOCK]]
  BY DEF FtlOK, FtlInv, FtlTypeOK, Target
<1>2. ~FindInCurrentBlock
  <2> SUFFICES ASSUME FindInCurrentBlock PROVE FALSE
    OBVIOUS
  <2>1. Ending(Current)
    BY <1>1, CurrentEnding
  <2> QED
    BY <1>1, <2>1, EndsIdle
<1>3. ASSUME NEW b \in free[Target], FindInFreeBlock(b) PROVE FALSE
  <2>1. Ending(b)
    BY <1>1, <1>3, FreeEnding
  <2> QED
    BY <2>1, EndsIdle
<1>4. CASE Abort
  BY <1>2, <1>3, <1>4 DEF Abort, FtlFind, Finding, Serving, Target, BeginCollection
<1>5. ASSUME NEW b \in Block, MostInvalid(b), BeginCollection(b)
      PROVE  /\ pc \in Serving /\ UNCHANGED <<maps, blocks, request, Target, reused>>
             /\ currentPage[Target][victimBlockNo'] = SLICES_PER_BLOCK
  <2>1. /\ pc = "find" /\ Full(Current) /\ victimBlockNo' = b
        /\ UNCHANGED <<maps, blocks, request, Target, reused>>
    BY <1>5 DEF BeginCollection, Target
  <2>2. invalidSliceCnt[Target][b] = Cardinality(Invalid(Target, b))
    BY <1>1, <2>1, CountsFinding DEF Finding
  <2>3. Invalid(Target, b) # {}
    BY <1>5, <2>2, FS_EmptySet DEF MostInvalid
  <2>4. currentPage[Target][b] # 0
    BY <2>3 DEF Invalid
  <2>5. b \in GoodBlocks(Target) \ free[Target]
    BY <1>1, <1>5, <2>4 DEF GoodOnly, MostInvalid
  <2>6. b # Current => currentPage[Target][b] = SLICES_PER_BLOCK
    BY <1>1, <2>5 DEF Room, FilledUp, Current
  <2> QED
    BY <2>1, <2>6 DEF Full, Serving
<1> QED
  BY <1>2, <1>3, <1>4, <1>5 DEF FtlFind

\* What the layer keeps in every step.
LEMMA FtlKept ==
  ASSUME FtlOK, ~reused, FtlNext
  PROVE  FtlOK'
<1>1. /\ FtlInv /\ FtlTypeOK /\ Room /\ GoodOnly /\ VictimFull /\ FtlInv' /\ Room'
      /\ currentPage \in [Die -> [Block -> 0..SLICES_PER_BLOCK]] /\ Target \in Die
      /\ currentBlock \in [Die -> Block] /\ free \in [Die -> SUBSET Block]
  BY FtlStepInv, RoomStep DEF FtlOK, FtlInv, FtlTypeOK, Target
<1>2. ASSUME ~reused'
      PROVE  currentPage' \in [Die -> [Block -> 0..SLICES_PER_BLOCK]]
  BY <1>1, <1>2 DEF FtlInv, FtlTypeOK
<1>3. ASSUME UNCHANGED <<currentBlock, currentPage, free>>
      PROVE  GoodOnly'
  BY <1>1, <1>3 DEF GoodOnly, GoodBlocks
<1>4. ASSUME NEW l \in Lsa, Invalidate(l) \/ \E x \in Data : AddrTransWrite(l, x)
      PROVE  FtlOK'
  <2>1. /\ UNCHANGED <<currentBlock, currentPage, free, reused>> /\ pc' \in {"idle", "find"}
    BY <1>4 DEF Invalidate, AddrTransWrite, control
  <2> QED
    BY <1>1, <1>3, <2>1 DEF FtlOK, VictimFull
<1>5. ASSUME FtlFind, pc' = "idle" PROVE FtlOK'
  <2>1. PICK b : /\ Ending(b) /\ PlacePre(b, request[1], request[2])
                 /\ b \in GoodBlocks(Target) /\ reused' = reused
    BY <1>5, Handed
  <2>2. /\ currentPage' = [currentPage EXCEPT ![Target][b] = NewPage(b) + 1]
    BY <2>1, PlaceNew
  <2>3. /\ currentBlock' = [currentBlock EXCEPT ![Target] = b]
        /\ \A d \in Die : free'[d] \subseteq free[d]
    BY <2>1 DEF Ending
  <2>4. GoodOnly'
    <3>1. \A d \in Die : GoodBlocks(d)' = GoodBlocks(d)
      BY DEF GoodBlocks
    <3>2. \A d \in Die : currentBlock'[d] \in GoodBlocks(d) /\ free'[d] \subseteq GoodBlocks(d)
      BY <1>1, <2>1, <2>3 DEF GoodOnly
    <3>3. \A d \in Die : \A c \in Block \ GoodBlocks(d) : currentPage'[d][c] = currentPage[d][c]
      BY <1>1, <2>1, <2>2
    <3> QED
      BY <1>1, <3>1, <3>2, <3>3 DEF GoodOnly
  <2>5. VictimFull'
    BY <1>5 DEF VictimFull
  <2> QED
    BY <1>1, <1>2, <2>1, <2>4, <2>5 DEF FtlOK
<1>6. ASSUME FtlFind, pc' # "idle" PROVE FtlOK'
  <2>1. /\ UNCHANGED <<maps, blocks, request, Target, reused>>
        /\ pc' \in {"collect", "copy", "erase"} => currentPage[Target][victimBlockNo'] = SLICES_PER_BLOCK
    BY <1>6, NotHanded
  <2>2. UNCHANGED <<currentBlock, currentPage, free, reused>> /\ Target' = Target
    BY <2>1 DEF blocks
  <2>3. VictimFull'
    BY <2>1, <2>2 DEF VictimFull
  <2> QED
    BY <1>1, <1>3, <2>2, <2>3 DEF FtlOK
<1>7. ASSUME SkipPage \/ (CopyNeedsBlock /\ Abort) PROVE FtlOK'
  <2>1. /\ UNCHANGED <<currentBlock, currentPage, free, Target, victimBlockNo, reused>>
        /\ pc' \in {pc, "aborted"}
    BY <1>7 DEF SkipPage, Abort, blocks, Target
  <2> QED
    BY <1>1, <1>3, <2>1 DEF FtlOK, VictimFull
<1>8. ASSUME NEW b \in free[Target], TakeBlockForGc(b) PROVE FtlOK'
  <2>1. /\ currentBlock' = [currentBlock EXCEPT ![Target] = b]
        /\ free' = [free EXCEPT ![Target] = @ \ {b}]
        /\ UNCHANGED <<currentPage, Target, victimBlockNo, reused>>
        /\ pc = "collect"
    BY <1>8 DEF TakeBlockForGc, TakeBlock, Target, CopyNeedsBlock
  <2>2. GoodOnly'
    <3>1. \A d \in Die : GoodBlocks(d)' = GoodBlocks(d)
      BY DEF GoodBlocks
    <3>2. \A d \in Die : currentBlock'[d] \in GoodBlocks(d) /\ free'[d] \subseteq GoodBlocks(d)
      BY <1>1, <2>1 DEF GoodOnly
    <3> QED
      BY <1>1, <2>1, <3>1, <3>2 DEF GoodOnly
  <2> QED
    BY <1>1, <2>1, <2>2 DEF FtlOK, VictimFull
<1>9. ASSUME CopyPage PROVE FtlOK'
  <2>1. /\ PlacePre(Current, OldLsa, flash[OldVsa]) /\ victimBlockNo # Current
        /\ Current \in Block /\ victimBlockNo \in Block
    BY <1>1, <1>9, CopyPre
  <2>2. /\ currentPage' = [currentPage EXCEPT ![Target][Current] = NewPage(Current) + 1]
    BY <2>1, PlaceNew
  <2>3. /\ UNCHANGED <<currentBlock, free, Target, victimBlockNo, reused>>
        /\ pc \in {"collect", "copy"}
    BY <1>9 DEF CopyPage, Target, Collecting
  <2>4. Current \in GoodBlocks(Target)
    BY <1>1 DEF GoodOnly, Current
  <2>5. GoodOnly'
    <3>1. \A d \in Die : GoodBlocks(d)' = GoodBlocks(d)
      BY DEF GoodBlocks
    <3>2. \A d \in Die : \A c \in Block \ GoodBlocks(d) : currentPage'[d][c] = currentPage[d][c]
      BY <1>1, <2>2, <2>4
    <3> QED
      BY <1>1, <2>3, <3>1, <3>2 DEF GoodOnly
  <2>6. currentPage'[Target][victimBlockNo] = currentPage[Target][victimBlockNo]
    BY <1>1, <2>1, <2>2
  <2> QED
    BY <1>1, <1>2, <2>3, <2>5, <2>6 DEF FtlOK, VictimFull
<1>10. ASSUME EraseBlock PROVE FtlOK'
  <2>1. /\ currentPage' = [currentPage EXCEPT ![Target][victimBlockNo] = 0]
        /\ free' = [free EXCEPT ![Target] = @ \cup {victimBlockNo}]
        /\ UNCHANGED currentBlock /\ pc' = "found" /\ pc \in {"erase", "collect"}
    BY <1>10 DEF EraseBlock
  <2>2. victimBlockNo \in Block /\ currentPage[Target][victimBlockNo] = SLICES_PER_BLOCK
    BY <1>1, <2>1 DEF FtlTypeOK, VictimFull
  <2>3. victimBlockNo \in GoodBlocks(Target)
    BY <1>1, <2>2, FtlAssumption DEF GoodOnly
  <2>4. GoodOnly'
    <3>1. \A d \in Die : GoodBlocks(d)' = GoodBlocks(d)
      BY DEF GoodBlocks
    <3>2. \A d \in Die : free'[d] \subseteq GoodBlocks(d)
      BY <1>1, <2>1, <2>3 DEF GoodOnly
    <3>3. \A d \in Die : \A c \in Block \ GoodBlocks(d) : currentPage'[d][c] = currentPage[d][c]
      BY <1>1, <2>1, <2>3
    <3> QED
      BY <1>1, <2>1, <3>1, <3>2, <3>3 DEF GoodOnly
  <2>5. currentPage' \in [Die -> [Block -> 0..SLICES_PER_BLOCK]]
    BY <1>1, <2>1, <2>2, FtlAssumption
  <2> QED
    BY <1>1, <2>1, <2>4, <2>5 DEF FtlOK, VictimFull
<1> QED
  BY <1>4, <1>5, <1>6, <1>7, <1>8, <1>9, <1>10 DEF FtlNext, FtlCollect

-----------------------------------------------------------------------------
(***************************************************************************)
(* The steps of a command.  Each adds at most the requests that it is to   *)
(* submit to what is ahead.                                                *)
(***************************************************************************)
LEMMA OutcomeConcat ==
  ASSUME NEW S, NEW a \in Seq(S), NEW b \in Seq(S), NEW m, NEW mid, NEW fin,
         Outcome(a, m, mid), Outcome(b, mid, fin)
  PROVE  Outcome(a \o b, m, fin)
<1>1. PICK n \in Nat, k \in Nat : n = Len(a) /\ k = Len(b)
  BY LenProperties
<1>2. PICK M : M[0] = m /\ M[n] = mid /\ Steps(a, M)
  BY <1>1 DEF Outcome
<1>3. PICK P : P[0] = mid /\ P[k] = fin /\ Steps(b, P)
  BY <1>1 DEF Outcome
<1>4. PICK c : c = a \o b
  OBVIOUS
<1>5. /\ Len(c) = Len(a) + Len(b)
      /\ \A i \in 1..Len(a)+Len(b) : c[i] = IF i <= Len(a) THEN a[i] ELSE b[i-Len(a)]
  BY <1>4, ConcatProperties
<1>6. Len(c) = n+k /\ \A i \in 1..n+k : c[i] = IF i <= n THEN a[i] ELSE b[i-n]
  BY <1>1, <1>5
<1>7. PICK N : N = [i \in 0..n+k |-> IF i <= n THEN M[i] ELSE P[i-n]]
  OBVIOUS
<1>8. N[0] = m
  BY <1>1, <1>2, <1>7
<1>9. N[n+k] = fin
  <2>1. CASE k = 0
    BY <1>1, <1>2, <1>3, <1>7, <2>1
  <2>2. CASE k # 0
    <3>1. n+k \in 0..n+k /\ ~(n+k <= n) /\ n+k-n = k
      BY <1>1, <2>2
    <3> QED
      BY <1>3, <1>7, <3>1
  <2> QED
    BY <2>1, <2>2
<1>10. ASSUME NEW i \in 1..n+k
       PROVE  N[i] = Done(c[i], N[i-1]) /\ Served(c[i], N[i-1])
  <2>1. CASE i <= n
    <3>1. i \in 1..n /\ i \in 0..n+k /\ i-1 \in 0..n+k /\ i-1 <= n
      BY <1>1, <2>1
    <3>2. N[i] = M[i] /\ N[i-1] = M[i-1] /\ c[i] = a[i]
      BY <1>6, <1>7, <2>1, <3>1
    <3> QED
      BY <1>1, <1>2, <3>1, <3>2 DEF Steps
  <2>2. CASE ~(i <= n)
    <3>1. i-n \in 1..k /\ i \in 0..n+k /\ i-1 \in 0..n+k /\ (i-n)-1 = (i-1)-n
      BY <1>1, <2>2
    <3>2. N[i-1] = P[(i-n)-1]
      <4>1. CASE i-1 <= n
        <5>1. i-1 = n /\ (i-n)-1 = 0
          BY <1>1, <2>2, <4>1
        <5> QED
          BY <1>2, <1>3, <1>7, <3>1, <4>1, <5>1
      <4>2. CASE ~(i-1 <= n)
        BY <1>7, <3>1, <4>2
      <4> QED
        BY <4>1, <4>2
    <3>3. N[i] = P[i-n] /\ c[i] = b[i-n]
      BY <1>6, <1>7, <2>2, <3>1
    <3> QED
      BY <1>1, <1>3, <3>1, <3>2, <3>3 DEF Steps
  <2> QED
    BY <2>1, <2>2
<1>11. Steps(c, N)
  BY <1>6, <1>10 DEF Steps
<1> QED
  BY <1>4, <1>6, <1>8, <1>9, <1>11 DEF Outcome

\* One request, and two.
LEMMA OutcomeOne ==
  ASSUME NEW r \in NewRequest, NEW m, Served(r, m)
  PROVE  Outcome(<<r>>, m, Done(r, m))
<1>1. <<>> \in Seq(NewRequest)
  BY EmptySeq
<1>2. Outcome(<<>>, m, m)
  BY OutcomeNone
<1>3. Append(<<>>, r) = <<r>>
  OBVIOUS
<1> QED
  BY <1>1, <1>2, <1>3, OutcomeAppend

\* Two requests carried out one after the other.
LEMMA OutcomeTwo ==
  ASSUME NEW r \in NewRequest, NEW s \in NewRequest, NEW m, Served(r, m), Served(s, Done(r, m))
  PROVE  Outcome(<<r, s>>, m, Done(s, Done(r, m)))
<1>1. <<r>> \in Seq(NewRequest)
  OBVIOUS
<1>2. Outcome(<<r>>, m, Done(r, m))
  BY OutcomeOne
<1>3. Outcome(Append(<<r>>, s), m, Done(s, Done(r, m)))
  BY <1>1, <1>2, OutcomeAppend
<1>4. Append(<<r>>, s) = <<r, s>>
  BY <1>1, TwoRequests
<1> QED
  BY <1>3, <1>4

\* The requests that move a page: where from, where to.
LEMMA Places ==
  /\ \A e \in Entry : <<"entry", e>> \in Location
  /\ \A v \in Vsa : <<"page", v>> \in Location
  /\ \A e, v : <<"entry", e>> # <<"page", v>>
  /\ DataEntry \subseteq Entry
  /\ \A d \in Die : TempEntry(d) \in Entry /\ TempEntry(d) \notin DataEntry
BY DeviceAssumption DEF Location, Entry, TempEntry

\* A read or a write of a page, and what it does to the memory.
LEMMA NandReqFacts ==
  ASSUME NEW code \in {"READ", "WRITE"}, NEW e \in Entry, NEW v \in Vsa,
         NEW r, r = NandReq(code, e, v)
  PROVE  /\ r \in NewRequest /\ r.code = code /\ r.entry = e
         /\ r.die = v[1] /\ r.block = v[2] /\ r.page = v[3]
         /\ \A m : /\ Served(r, m)
                   /\ \A x \in Location : Done(r, m)[x] =
                        IF code = "READ"
                        THEN IF x = <<"entry", e>> THEN m[<<"page", v>>] ELSE m[x]
                        ELSE IF x = <<"page", v>> THEN m[<<"entry", e>>] ELSE m[x]
<1>1. v[1] \in Die /\ v[2] \in Block /\ v[3] \in Page /\ v = <<v[1], v[2], v[3]>>
  BY VsaParts
<1>2. /\ r.code = code /\ r.entry = e /\ r.die = v[1] /\ r.block = v[2] /\ r.page = v[3]
      /\ r \in NandRequests
  BY <1>1 DEF NandReq, NandRequests
<1>3. Row(r) = v
  BY <1>1, <1>2 DEF Row
<1>4. r \in NewRequest
  BY <1>2 DEF NewRequest, AnyRequest
<1>5. ASSUME NEW m, NEW x \in Location
      PROVE  Done(r, m)[x] =
               IF code = "READ" THEN IF x = <<"entry", e>> THEN m[<<"page", v>>] ELSE m[x]
               ELSE IF x = <<"page", v>> THEN m[<<"entry", e>>] ELSE m[x]
  <2>1. Done(r, m)[x] = IF x \in Writes(r) THEN Result(r, m[From(r)]) ELSE m[x]
    BY DEF Done
  <2>2. CASE code = "READ"
    <3>1. From(r) = <<"page", v>> /\ Writes(r) = {<<"entry", e>>}
      BY <1>2, <1>3, <2>2 DEF From, Writes, IsRead
    <3>2. Result(r, m[From(r)]) = m[<<"page", v>>]
      BY <1>2, <2>2, <3>1 DEF Result
    <3> QED
      BY <2>1, <2>2, <3>1, <3>2
  <2>3. CASE code = "WRITE"
    <3>1. From(r) = <<"entry", e>> /\ Writes(r) = {<<"page", v>>}
      BY <1>2, <1>3, <2>3 DEF From, Writes, IsRead
    <3>2. Result(r, m[From(r)]) = m[<<"entry", e>>]
      BY <1>2, <2>3, <3>1 DEF Result
    <3> QED
      BY <2>1, <2>3, <3>1, <3>2
  <2> QED
    BY <2>2, <2>3
<1>6. \A m : Served(r, m)
  BY <1>2 DEF Served
<1> QED
  BY <1>2, <1>4, <1>5, <1>6

\* A step of a command keeps the invariant if its parts are kept, and if what
\* it is to submit leads to what is to be there.
LEMMA FrontInv ==
  ASSUME DeviceInv, todo = <<>>, ~reused, UNCHANGED <<q, accepted, buffer, page, lost>>,
         Written' = Written, FtlOK', BufOK', CmdOK', TodoOK', StoredOK',
         latest' \in [Lsa -> SliceData], commands' \in 0..MaxCommands,
         \A fin : PagesOK(fin) /\ EntriesOK(fin) =>
           \E end : /\ Outcome(todo', fin, end)
                    /\ ~reused' => PagesOK(end)' /\ EntriesOK(end)'
  PROVE  DeviceInv'
<1>1. Layer!Sound(q, accepted, Written)
  BY DEF DeviceInv, Layer!ClientInv
<1>2. Layer!ClientInvAt(q', accepted', Written')
  BY DEF DeviceInv, Layer!ClientInv, Layer!ClientInvAt
<1>3. Memory' = Memory
  BY DEF Memory
<1>4. PICK a : a = Outstandings(q, accepted)
  OBVIOUS
<1>5. a \in Seq(NewRequest)
  BY <1>1, <1>4, OutstandingFacts
<1>6. todo' \in Seq(NewRequest)
  <2>1. CASE todo' = <<>>
    BY <2>1, EmptySeq
  <2>2. ASSUME NEW r, Fits(r)', todo' = <<r>> PROVE todo' \in Seq(NewRequest)
    BY <2>2 DEF Fits
  <2>3. ASSUME NEW r, NEW s, ForCopy(r, s)', todo' = <<r, s>> PROVE todo' \in Seq(NewRequest)
    BY <2>3 DEF Fits, ForCopy
  <2> QED
    BY <2>1, <2>2, <2>3 DEF TodoOK
<1>7. Ahead = a /\ Ahead' = a \o todo'
  BY <1>4, <1>5, ConcatEmptySeq DEF Ahead
<1>8. ContentsOK'
  <2> SUFFICES ASSUME ~lost
               PROVE  \E end : /\ Outcome(Ahead', Memory, end)
                               /\ ~reused' => PagesOK(end)' /\ EntriesOK(end)'
    BY <1>3 DEF ContentsOK
  <2>1. PICK fin : Outcome(a, Memory, fin) /\ PagesOK(fin) /\ EntriesOK(fin)
    BY <1>7 DEF DeviceInv, ContentsOK
  <2>2. PICK end : Outcome(todo', fin, end) /\ (~reused' => PagesOK(end)' /\ EntriesOK(end)')
    BY <2>1
  <2> QED
    BY <1>5, <1>6, <1>7, <2>1, <2>2, OutcomeConcat
<1>9. DataOK'
  BY DEF DeviceInv, DataOK
<1> QED
  BY <1>2, <1>8, <1>9, ClientInvNext DEF DeviceInv

-----------------------------------------------------------------------------
\* The search through dataBufLruList finds an entry when there is one.
LEMMA LeastRecentFound ==
  ASSUME BufOK, NEW S \in SUBSET DataEntry, S # {}
  PROVE  lru[LeastRecent(S)] \in S
<1>1. PICK n \in Nat : n = Len(lru) /\ DOMAIN lru = 1..n
  BY LenProperties DEF BufOK
<1>2. PICK I : I = {i \in 1..n : lru[i] \in S}
  OBVIOUS
<1>3. PICK e : e \in S /\ e \in ToSet(lru)
  BY DEF BufOK
<1>4. PICK k \in 1..n : lru[k] = e
  BY <1>1, <1>3 DEF ToSet
<1>5. \E j \in I : \A i \in I : j >= i
  <2>1. PICK B : B = {m \in Nat : \E i \in I : m = n - i}
    OBVIOUS
  <2>2. B \in SUBSET Nat
    BY <2>1
  <2>3. \A i \in I : n - i \in B
    <3>1. \A i \in I : n - i \in Nat
      BY <1>2
    <3> QED
      BY <2>1, <3>1
  <2>4. B # {}
    BY <1>2, <1>3, <1>4, <2>3
  <2>5. PICK m \in B : \A x \in B : m <= x
    BY <2>2, <2>4, LayerAssumption, Layer!Least
  <2>6. PICK j \in I : m = n - j
    BY <2>1
  <2>7. ASSUME NEW i \in I PROVE j >= i
    <3>1. i \in 1..n /\ j \in 1..n
      BY <1>2
    <3>2. n - j <= n - i
      BY <2>3, <2>5, <2>6
    <3> QED
      BY <3>1, <3>2
  <2> QED
    BY <2>7
<1>6. LeastRecent(S) = (CHOOSE j \in I : \A i \in I : j >= i)
  <2>1. LeastRecent(S) = IF I # {} THEN Max(I) ELSE 0
    BY <1>1, <1>2 DEF LeastRecent, SelectLastInSeq
  <2> QED
    BY <1>5, <2>1 DEF Max
<1>7. LeastRecent(S) \in I
  BY <1>5, <1>6
<1> QED
  BY <1>2, <1>7

\* The entry that is used moves to the front.
LEMMA UseEntryKeeps ==
  ASSUME BufOK, NEW e \in DataEntry, UseEntry(e), UNCHANGED <<bufLsa, dirty>>
  PROVE  BufOK'
<1>1. /\ lru \in Seq(DataEntry) /\ Layer!Distinct(lru) /\ ToSet(lru) = DataEntry
  BY DEF BufOK
<1>2. PICK rest : rest = Without(lru, e)
  OBVIOUS
<1>3. /\ rest \in Seq(DataEntry) /\ Layer!Distinct(rest) /\ ToSet(rest) = DataEntry \ {e}
  BY <1>1, <1>2, LayerAssumption, Layer!WithoutFacts, SameListOperators
<1>4. PICK n \in Nat : n = Len(rest) /\ DOMAIN rest = 1..n
  BY <1>3, LenProperties
<1>5. PICK new : new = <<e>> \o rest
  OBVIOUS
<1>6. <<e>> \in Seq(DataEntry) /\ Len(<<e>>) = 1 /\ <<e>>[1] = e
  OBVIOUS
<1>7. /\ new \in Seq(DataEntry) /\ Len(new) = 1+Len(rest)
      /\ \A i \in 1..1+Len(rest) : new[i] = IF i <= 1 THEN <<e>>[i] ELSE rest[i-1]
  BY <1>3, <1>5, <1>6, ConcatProperties
<1>8. DOMAIN new = 1..n+1 /\ new[1] = e /\ \A i \in 2..n+1 : new[i] = rest[i-1] /\ i-1 \in 1..n
  BY <1>4, <1>6, <1>7, LenProperties
<1>9. \A i \in 1..n : rest[i] \in DataEntry \ {e}
  BY <1>3, <1>4 DEF ToSet
<1>10. Layer!Distinct(new)
  <2> SUFFICES ASSUME NEW i \in 1..n+1, NEW j \in 1..n+1, new[i] = new[j] PROVE i = j
    BY <1>8 DEF Layer!Distinct
  <2>1. CASE i = 1 \/ j = 1
    BY <1>4, <1>8, <1>9, <2>1
  <2>2. CASE i # 1 /\ j # 1
    <3>1. i \in 2..n+1 /\ j \in 2..n+1
      BY <1>4, <2>2
    <3>2. rest[i-1] = rest[j-1] /\ i-1 \in 1..n /\ j-1 \in 1..n
      BY <1>8, <3>1
    <3>3. i-1 = j-1
      BY <1>3, <1>4, <3>2 DEF Layer!Distinct
    <3> QED
      BY <1>4, <3>3
  <2> QED
    BY <2>1, <2>2
<1>11. ToSet(new) = DataEntry
  <2>1. ASSUME NEW f \in DataEntry PROVE f \in ToSet(new)
    <3>1. CASE f = e
      BY <1>4, <1>8, <3>1 DEF ToSet
    <3>2. CASE f # e
      <4>1. PICK i \in 1..n : rest[i] = f
        BY <1>3, <1>4, <3>2 DEF ToSet
      <4>2. i+1 \in 2..n+1 /\ i+1 \in 1..n+1 /\ (i+1)-1 = i
        BY <1>4
      <4>3. new[i+1] = f
        BY <1>8, <4>1, <4>2
      <4> QED
        BY <1>8, <4>2, <4>3 DEF ToSet
    <3> QED
      BY <3>1, <3>2
  <2>2. ToSet(new) \subseteq DataEntry
    BY <1>7 DEF ToSet
  <2> QED
    BY <2>1, <2>2
<1>12. lru' = new
  BY <1>2, <1>5 DEF UseEntry
<1> QED
  BY <1>7, <1>10, <1>11, <1>12 DEF BufOK

-----------------------------------------------------------------------------
\* What a step leaves alone that leaves the translation layer alone.
LEMMA FtlStays ==
  ASSUME UNCHANGED ftlVars
  PROVE  /\ UNCHANGED <<logicalSlice, flash, pc, request, reused, currentPage>>
         /\ FtlOK => FtlOK'
         /\ Content' = Content
         /\ \A fin : PagesOK(fin) => PagesOK(fin)'
<1>1. UNCHANGED <<logicalSlice, flash, currentBlock, currentPage, free,
                  sliceAllocationTargetDie, pc, request, victimBlockNo, reused>>
  BY DEF ftlVars, maps, blocks, control
<1>2. FtlOK => FtlOK'
  <2>1. FtlInv => FtlInv'
    BY FtlStutterInv
  <2>2. Room => Room'
    BY RoomStutter
  <2>3. GoodOnly => GoodOnly'
    BY <1>1 DEF GoodOnly, GoodBlocks
  <2>4. VictimFull => VictimFull'
    BY <1>1 DEF VictimFull, Target
  <2> QED
    BY <1>1, <2>1, <2>2, <2>3, <2>4 DEF FtlOK
<1>3. Content' = Content
  BY <1>1 DEF Content
<1>4. \A fin : PagesOK(fin) => PagesOK(fin)'
  BY <1>1 DEF PagesOK
<1> QED
  BY <1>1, <1>2, <1>3, <1>4

\* Between its translations a command leaves the layer idle.
LEMMA StageIdle ==
  ASSUME DeviceInv, ~Stage("translate")
  PROVE  pc = "idle" /\ ~reused
BY DEF DeviceInv, CmdOK

\* No page is handed out and nothing that writes a page is submitted.
LEMMA WrittenAlone ==
  ASSUME todo = <<>>, \A d, b : ~Pending("ERASE", d, b)' /\ ~Pending("WRITE", d, b)',
         \A d \in Die, b \in Block : currentPage'[d][b] = currentPage[d][b]
  PROVE  Written' = Written
<1>1. \A code, d, b : ~Pending(code, d, b)
  BY DEF Pending
<1> QED
  BY <1>1 DEF Written

\* With nothing in hand, no page waits for its write to be submitted.
LEMMA NothingPending ==
  ASSUME todo' = <<>>
  PROVE  \A code, d, b : ~Pending(code, d, b)'
BY DEF Pending

\* The commands that change the order of the entries, and themselves.
LEMMA NewCommand ==
  ASSUME DeviceInv, Between, UNCHANGED <<ftlVars, q, accepted, bufLsa, dirty, todo, contents>>,
         BufOK', commands' \in 0..MaxCommands, commands' # 0,
         cmd' \in Command,
         cmd'.code # "FLUSH" /\ cmd'.stage # "transfer" => Hit(cmd'.lsa) = {},
         cmd'.stage \in {"evict", "load", "transfer"},
         cmd'.stage = "evict" => dirty[cmd'.entry],
         cmd'.stage # "evict" => cmd'.code # "FLUSH",
         cmd'.stage = "load" => ~dirty[cmd'.entry],
         cmd'.stage = "transfer" => bufLsa[cmd'.entry] = cmd'.lsa
  PROVE  DeviceInv'
<1>1. todo = <<>> /\ todo' = <<>> /\ cmd = NONE /\ cmd' # NONE
  BY DeviceAssumption DEF Between
<1>2. pc = "idle" /\ ~reused
  BY <1>1, StageIdle DEF Stage
<1>3. /\ UNCHANGED <<logicalSlice, flash, pc, request, reused, currentPage>> /\ FtlOK'
      /\ Content' = Content /\ \A fin : PagesOK(fin) => PagesOK(fin)'
  BY FtlStays DEF DeviceInv
<1>4. UNCHANGED <<buffer, page, lost, latest>> /\ UNCHANGED <<q, accepted, bufLsa, dirty>>
  BY DEF contents
<1>5. Written' = Written
  BY <1>1, <1>3, WrittenStays
<1>6. CmdOK'
  <2>1. \A l : Hit(l)' = Hit(l)
    BY <1>4 DEF Hit
  <2>2. \A stage : Stage(stage)' <=> cmd'.stage = stage
    BY <1>1 DEF Stage
  <2> QED
    BY <1>1, <1>2, <1>3, <1>4, <2>1, <2>2 DEF CmdOK
<1>7. TodoOK'
  BY <1>1 DEF TodoOK
<1>8. StoredOK'
  BY <1>3, <1>4 DEF DeviceInv, StoredOK, Dirty
<1>9. ASSUME NEW fin, PagesOK(fin), EntriesOK(fin)
      PROVE  \E end : /\ Outcome(todo', fin, end)
                      /\ ~reused' => PagesOK(end)' /\ EntriesOK(end)'
  <2>1. EntriesOK(fin)'
    BY <1>1, <1>4, <1>9 DEF EntriesOK, Overwritten, Stage
  <2> QED
    BY <1>1, <1>3, <1>9, <2>1, OutcomeNone
<1>10. latest' \in [Lsa -> SliceData]
  BY <1>4 DEF DeviceInv, DataOK
<1> QED
  BY <1>1, <1>2, <1>3, <1>4, <1>5, <1>6, <1>7, <1>8, <1>9, <1>10, FrontInv

\* A slice of a host command gets an entry of the data buffer.
LEMMA BeginCommandInv ==
  ASSUME DeviceInv, NEW code \in Codes, NEW l \in Lsa, BeginCommand(code, l)
  PROVE  DeviceInv'
<1>1. BufOK /\ Between /\ commands \in 0..MaxCommands
  BY DEF DeviceInv, DataOK, BeginCommand, Begin
<1>2. commands' = commands + 1 /\ commands' \in 0..MaxCommands /\ commands' # 0
  BY <1>1, DeviceAssumption DEF BeginCommand, Begin
<1>3. UNCHANGED <<ftlVars, q, accepted, bufLsa, dirty, todo, contents>>
  BY DEF BeginCommand
<1>4. PICK e \in IF Hit(l) # {} THEN Hit(l) ELSE {AllocateDataBuf} :
        /\ UseEntry(e)
        /\ cmd' = [code |-> code, lsa |-> l, entry |-> e,
                   stage |-> IF Hit(l) # {} THEN "transfer"
                             ELSE IF dirty[e] THEN "evict" ELSE "load"]
  BY DEF BeginCommand
<1>5. AllocateDataBuf \in DataEntry
  <2>1. CleanEntries \in SUBSET DataEntry /\ DataEntry \in SUBSET DataEntry /\ DataEntry # {}
    BY DeviceAssumption DEF CleanEntries
  <2> QED
    BY <1>1, <2>1, LeastRecentFound DEF AllocateDataBuf
<1>6. e \in DataEntry /\ (Hit(l) # {} => bufLsa[e] = l)
  BY <1>4, <1>5 DEF Hit
<1>7. BufOK'
  BY <1>1, <1>3, <1>4, <1>6, UseEntryKeeps
<1>8. cmd' \in Command
  BY <1>4, <1>6 DEF Command
<1>9. cmd'.code # "FLUSH"
  BY <1>4 DEF Codes
<1> QED
  BY <1>1, <1>2, <1>3, <1>4, <1>6, <1>7, <1>8, <1>9, NewCommand

\* A flush begins with a dirty entry, as long as there is one.
LEMMA FlushOfFacts ==
  ASSUME BufOK, NEW S \in SUBSET DataEntry, NEW c, c = FlushOf(S), c # NONE
  PROVE  /\ c \in Command /\ c.code = "FLUSH" /\ c.stage = "evict" /\ c.entry \in S
<1>1. S # {} /\ c = [code |-> "FLUSH", entry |-> lru[LeastRecent(S)], stage |-> "evict"]
  BY DEF FlushOf
<1> QED
  BY <1>1, LeastRecentFound DEF Command

\* A flush begins with the least recently used dirty entry.
LEMMA FlushAllDataBufInv ==
  ASSUME DeviceInv, FlushAllDataBuf
  PROVE  DeviceInv'
<1>1. BufOK /\ Between /\ commands \in 0..MaxCommands
  BY DEF DeviceInv, DataOK, FlushAllDataBuf, Begin
<1>2. commands' = commands + 1 /\ commands' \in 0..MaxCommands /\ commands' # 0
  BY <1>1, DeviceAssumption DEF FlushAllDataBuf, Begin
<1>3. /\ UNCHANGED <<ftlVars, q, accepted, bufLsa, dirty, todo, contents>> /\ UNCHANGED lru
  BY DEF FlushAllDataBuf, bufferMap
<1>4. PICK S : S = DataEntry \ CleanEntries
  OBVIOUS
<1>5. S # {} /\ S \in SUBSET DataEntry /\ \A e \in S : dirty[e]
  BY <1>4 DEF FlushAllDataBuf, CleanEntries
<1>6. cmd' = FlushOf(S)
  BY <1>4 DEF FlushAllDataBuf
<1>7. cmd' # NONE
  <2>1. lru[LeastRecent(S)] \in DataEntry
    BY <1>1, <1>5, LeastRecentFound
  <2>2. cmd' = [code |-> "FLUSH", entry |-> lru[LeastRecent(S)], stage |-> "evict"]
    BY <1>5, <1>6 DEF FlushOf
  <2>3. cmd' \in Command
    BY <2>1, <2>2 DEF Command
  <2> QED
    BY <2>3, DeviceAssumption
<1>8. cmd' \in Command /\ cmd'.code = "FLUSH" /\ cmd'.stage = "evict" /\ cmd'.entry \in S
  BY <1>1, <1>5, <1>6, <1>7, FlushOfFacts
<1>9. BufOK'
  BY <1>1, <1>3 DEF BufOK
<1> QED
  BY <1>1, <1>2, <1>3, <1>5, <1>8, <1>9, NewCommand

-----------------------------------------------------------------------------
(***************************************************************************)
(* The stages of a command.                                                *)
(***************************************************************************)
LEMMA AtStage ==
  ASSUME DeviceInv, NEW stage, Reaches(stage)
  PROVE  /\ cmd # NONE /\ cmd \in Command /\ cmd.stage = stage /\ todo = <<>>
         /\ cmd.entry \in DataEntry /\ cmd.entry \in Entry
         /\ cmd.code # "FLUSH" => cmd.lsa \in Lsa /\ cmd.code \in Codes
         /\ commands \in 1..MaxCommands
         /\ \A other : Stage(other) <=> other = stage
<1>1. cmd # NONE /\ cmd.stage = stage /\ todo = <<>> /\ cmd \in Command
  BY DEF Reaches, DeviceInv, CmdOK
<1>2. cmd.entry \in DataEntry /\ (cmd.code # "FLUSH" => cmd.lsa \in Lsa /\ cmd.code \in Codes)
  BY <1>1 DEF Command
<1>3. commands \in 0..MaxCommands /\ commands # 0
  BY <1>1 DEF DeviceInv, CmdOK, DataOK
<1> QED
  BY <1>1, <1>2, <1>3, Places, DeviceAssumption DEF Stage

\* A command that goes on to its next stage stays a command.
LEMMA StageChanged ==
  ASSUME cmd \in Command, NEW stage \in {"evict", "translate", "load", "transfer"},
         stage # "translate" => cmd.code # "FLUSH",
         NEW new, new = [cmd EXCEPT !.stage = stage]
  PROVE  /\ new \in Command /\ new # NONE /\ new.stage = stage /\ new.code = cmd.code
         /\ new.entry = cmd.entry /\ (cmd.code # "FLUSH" => new.lsa = cmd.lsa)
<1>1. CASE cmd.code = "FLUSH"
  <2>1. cmd \in [code : {"FLUSH"}, entry : DataEntry, stage : {"evict", "translate"}]
    BY <1>1 DEF Command, Codes
  <2>2. new \in [code : {"FLUSH"}, entry : DataEntry, stage : {"evict", "translate"}]
    BY <1>1, <2>1
  <2>3. new \in Command
    BY <2>2 DEF Command
  <2> QED
    BY <1>1, <2>1, <2>3, DeviceAssumption
<1>2. CASE cmd.code # "FLUSH"
  <2>1. cmd \in [code : Codes, lsa : Lsa, entry : DataEntry,
                 stage : {"evict", "translate", "load", "transfer"}]
    BY <1>2 DEF Command
  <2>2. new \in [code : Codes, lsa : Lsa, entry : DataEntry,
                 stage : {"evict", "translate", "load", "transfer"}]
    BY <2>1
  <2>3. new \in Command
    BY <2>2 DEF Command
  <2> QED
    BY <1>2, <2>1, <2>3, DeviceAssumption
<1> QED
  BY <1>1, <1>2

\* But for an entry that is about to be overwritten, all of them are right.
LEMMA EntriesAll ==
  ASSUME NEW fin, EntriesOK(fin), ~Stage("transfer") \/ cmd.code # "WRITE"
  PROVE  \A e \in DataEntry : bufLsa[e] # NONE =>
           Agrees(fin[<<"entry", e>>], latest[bufLsa[e]])
BY DEF EntriesOK, Overwritten, Stage

\* A dirty entry is evicted: its slice gets a page, or the translation begins to collect.
LEMMA EvictDataBufEntryInv ==
  ASSUME DeviceInv, EvictDataBufEntry
  PROVE  DeviceInv'
<1>1. /\ cmd \in Command /\ cmd.stage = "evict" /\ todo = <<>> /\ cmd.entry \in DataEntry
      /\ commands \in 1..MaxCommands /\ \A other : Stage(other) <=> other = "evict"
  BY AtStage DEF EvictDataBufEntry
<1>2. pc = "idle" /\ ~reused /\ FtlOK /\ FtlInv
  BY <1>1, StageIdle DEF DeviceInv, FtlOK
<1>3. PICK l : l = bufLsa[cmd.entry] /\ AddrTransWrite(l, latest[l])
  BY DEF EvictDataBufEntry
<1>4. dirty[cmd.entry] /\ l \in Lsa
  BY <1>1, <1>3 DEF DeviceInv, CmdOK, BufOK
<1>5. latest[l] \in Data
  BY <1>4, DeviceAssumption DEF DeviceInv, DataOK
<1>6. FtlOK'
  BY <1>2, <1>3, <1>4, <1>5, FtlKept DEF FtlNext
<1>7. /\ InvalidateOldVsa(l) /\ pc' = "find" /\ request' = <<l, latest[l]>>
      /\ UNCHANGED <<virtualSlice, flash, currentBlock, currentPage, free, reused>>
  BY <1>3 DEF AddrTransWrite
<1>8. GivingUp(l)
  BY <1>2, <1>4, <1>7 DEF GivingUp
<1>9. /\ logicalSlice' = [logicalSlice EXCEPT ![l] = NONE]
      /\ Content' = [Content EXCEPT ![l] = NONE]
  BY <1>8, GiveUpMaps, ContentDropped
<1>10. /\ cmd' = [cmd EXCEPT !.stage = "translate"]
       /\ UNCHANGED <<q, accepted, bufLsa, dirty, lru, todo, commands, buffer, page, latest, lost>>
  BY DEF EvictDataBufEntry, bufferMap, contents
<1>11. /\ cmd' \in Command /\ cmd' # NONE /\ cmd'.stage = "translate" /\ cmd'.code = cmd.code
       /\ cmd'.entry = cmd.entry /\ (cmd.code # "FLUSH" => cmd'.lsa = cmd.lsa)
  BY <1>1, <1>10, StageChanged
<1>12. Written' = Written
  BY <1>7, <1>10, WrittenStays
<1>13. CmdOK'
  <2>1. \A k : Hit(k)' = Hit(k)
    BY <1>10 DEF Hit
  <2>2. \A stage : Stage(stage)' <=> stage = "translate"
    BY <1>11 DEF Stage
  <2>3. cmd'.code # "FLUSH" => Hit(cmd'.lsa) = {}
    BY <1>1, <1>11, DeviceAssumption DEF DeviceInv, CmdOK
  <2> QED
    BY <1>1, <1>3, <1>4, <1>7, <1>10, <1>11, <2>1, <2>2, <2>3 DEF CmdOK
<1>14. TodoOK' /\ BufOK'
  BY <1>1, <1>10 DEF TodoOK, DeviceInv, BufOK
<1>15. StoredOK'
  <2> SUFFICES ASSUME NEW k \in Lsa, ~Dirty(k)' PROVE Stored(Content'[k], latest[k])
    BY <1>10 DEF StoredOK
  <2>1. ~Dirty(k) /\ k # l
    BY <1>1, <1>3, <1>4, <1>10 DEF Dirty
  <2>2. Content'[k] = Content[k]
    BY <1>9, <2>1 DEF Content
  <2> QED
    BY <1>2, <2>1, <2>2 DEF DeviceInv, StoredOK
<1>16. ASSUME NEW fin, PagesOK(fin), EntriesOK(fin)
       PROVE  \E end : /\ Outcome(todo', fin, end)
                       /\ ~reused' => PagesOK(end)' /\ EntriesOK(end)'
  <2>1. EntriesOK(fin)'
    BY <1>1, <1>10, <1>16, EntriesAll DEF EntriesOK
  <2>2. PagesOK(fin)'
    <3> SUFFICES ASSUME NEW k \in Lsa, logicalSlice'[k] # NONE
                 PROVE  Agrees(fin[<<"page", logicalSlice'[k]>>], flash'[logicalSlice'[k]])
      BY DEF PagesOK
    <3>1. logicalSlice \in [Lsa -> Vsa \cup {NONE}]
      BY <1>2 DEF FtlInv, FtlTypeOK
    <3>2. logicalSlice'[k] = logicalSlice[k]
      BY <1>4, <1>9, <3>1
    <3> QED
      BY <1>7, <1>16, <3>2 DEF PagesOK
  <2> QED
    BY <1>1, <1>10, <2>1, <2>2, OutcomeNone
<1>17. latest' \in [Lsa -> SliceData] /\ commands' \in 0..MaxCommands
  BY <1>10 DEF DeviceInv, DataOK
<1> QED
  BY <1>1, <1>2, <1>6, <1>10, <1>12, <1>13, <1>14, <1>15, <1>16, <1>17, FrontInv

\* The entry takes the slice, and reads its page if the command needs the old data.
LEMMA LoadInv ==
  ASSUME DeviceInv, Load
  PROVE  DeviceInv'
<1>1. /\ cmd \in Command /\ cmd.stage = "load" /\ todo = <<>> /\ cmd.entry \in DataEntry
      /\ commands \in 1..MaxCommands /\ \A other : Stage(other) <=> other = "load"
      /\ cmd.code # "FLUSH" => cmd.lsa \in Lsa /\ cmd.code \in Codes
  BY AtStage DEF Load
<1>2. pc = "idle" /\ ~reused /\ FtlOK /\ FtlInv
  BY <1>1, StageIdle DEF DeviceInv, FtlOK
<1>3. cmd.code # "FLUSH" /\ ~dirty[cmd.entry]
  BY <1>1 DEF DeviceInv, CmdOK
<1>4. PICK e \in DataEntry, l \in Lsa : e = cmd.entry /\ l = cmd.lsa
  BY <1>1, <1>3
<1>5. Hit(l) = {}
  BY <1>1, <1>3, <1>4, DeviceAssumption DEF DeviceInv, CmdOK
<1>6. /\ bufLsa' = [bufLsa EXCEPT ![e] = l] /\ cmd' = [cmd EXCEPT !.stage = "transfer"]
      /\ UNCHANGED <<q, accepted, dirty, lru, commands, buffer, page, latest, lost>>
      /\ UNCHANGED ftlVars
  BY <1>4 DEF Load, contents
<1>7. /\ cmd' \in Command /\ cmd' # NONE /\ cmd'.stage = "transfer" /\ cmd'.code = cmd.code
      /\ cmd'.entry = e /\ cmd'.lsa = l
  BY <1>1, <1>3, <1>4, <1>6, StageChanged
<1>8. /\ UNCHANGED <<logicalSlice, flash, pc, request, reused, currentPage>> /\ FtlOK'
      /\ Content' = Content /\ \A fin : PagesOK(fin) => PagesOK(fin)'
  BY <1>2, <1>6, FtlStays
<1>9. bufLsa \in [DataEntry -> Lsa \cup {NONE}] /\ logicalSlice \in [Lsa -> Vsa \cup {NONE}]
  BY <1>2 DEF DeviceInv, BufOK, FtlInv, FtlTypeOK
<1>10. BufOK'
  <2>1. \A f \in DataEntry : bufLsa[f] # l
    BY <1>5 DEF Hit
  <2>2. bufLsa' \in [DataEntry -> Lsa \cup {NONE}]
    BY <1>4, <1>6, <1>9
  <2>3. ASSUME NEW f \in DataEntry, NEW g \in DataEntry, bufLsa'[f] # NONE, bufLsa'[f] = bufLsa'[g]
        PROVE  f = g
    BY <1>4, <1>6, <1>9, <2>1, <2>3 DEF DeviceInv, BufOK
  <2>4. \A f \in DataEntry : dirty'[f] => bufLsa'[f] # NONE
    BY <1>3, <1>4, <1>6, <1>9 DEF DeviceInv, BufOK
  <2> QED
    BY <1>6, <2>2, <2>3, <2>4 DEF DeviceInv, BufOK
<1>11. CmdOK'
  <2>1. \A stage : Stage(stage)' <=> stage = "transfer"
    BY <1>7 DEF Stage
  <2>2. bufLsa'[e] = l
    BY <1>4, <1>6, <1>9
  <2> QED
    BY <1>1, <1>2, <1>3, <1>4, <1>6, <1>7, <1>8, <2>1, <2>2 DEF CmdOK
<1>12. StoredOK'
  <2> SUFFICES ASSUME NEW k \in Lsa, ~Dirty(k)' PROVE Stored(Content[k], latest[k])
    BY <1>6, <1>8 DEF StoredOK
  <2>1. ~Dirty(k)
    BY <1>3, <1>4, <1>6, <1>9 DEF Dirty
  <2> QED
    BY <1>2, <2>1 DEF DeviceInv, StoredOK
<1>13. latest' \in [Lsa -> SliceData] /\ commands' \in 0..MaxCommands
  BY <1>6 DEF DeviceInv, DataOK
<1>14. ASSUME NEW fin, EntriesOK(fin), NEW end,
              \A f \in DataEntry \ {e} : end[<<"entry", f>>] = fin[<<"entry", f>>],
              cmd.code # "WRITE" => Agrees(end[<<"entry", e>>], latest[l])
       PROVE  EntriesOK(end)'
  <2> SUFFICES ASSUME NEW f \in DataEntry, bufLsa'[f] # NONE, ~Overwritten(f)'
               PROVE  Agrees(end[<<"entry", f>>], latest[bufLsa'[f]])
    BY <1>6 DEF EntriesOK
  <2>1. CASE f = e
    BY <1>4, <1>6, <1>7, <1>9, <1>14, <2>1 DEF Overwritten, Stage
  <2>2. CASE f # e
    <3>1. bufLsa'[f] = bufLsa[f]
      BY <1>4, <1>6, <1>9, <2>2
    <3> QED
      BY <1>1, <1>14, <2>2, <3>1, EntriesAll
  <2> QED
    BY <2>1, <2>2
<1>15. Stored(Content[l], latest[l])
  <2>1. ~Dirty(l)
    BY <1>5 DEF Dirty, Hit
  <2> QED
    BY <1>2, <2>1 DEF DeviceInv, StoredOK
<1>16. CASE NeedsOldData
  <2>1. PICK v, r : /\ v \in Vsa /\ v = logicalSlice[l] /\ v # NONE
                    /\ r = NandReq("READ", e, v) /\ todo' = <<r>>
    BY <1>4, <1>9, <1>16 DEF Load, NeedsOldData
  <2>2. e \in Entry
    BY Places
  <2>3. /\ r \in NewRequest /\ r.code = "READ"
        /\ r.die = v[1] /\ r.block = v[2] /\ r.page = v[3]
        /\ \A m : /\ Served(r, m)
                  /\ \A x \in Location : Done(r, m)[x] =
                       IF x = <<"entry", e>> THEN m[<<"page", v>>] ELSE m[x]
    BY <2>1, <2>2, NandReqFacts
  <2>4. TodoOK'
    <3>1. r.page < currentPage[r.die][r.block]
      BY <1>2, <2>1, <2>3, VsaParts DEF FtlInv, MapsInverse
    <3>2. Fits(r)'
      BY <1>8, <2>3, <3>1 DEF Fits
    <3> QED
      BY <2>1, <3>2 DEF TodoOK
  <2>5. Written' = Written
    <3>1. \A d, b : ~Pending("ERASE", d, b)' /\ ~Pending("WRITE", d, b)'
      BY <2>1, <2>3 DEF Pending
    <3> QED
      BY <1>1, <1>8, <3>1, WrittenAlone
  <2>6. ASSUME NEW fin, PagesOK(fin), EntriesOK(fin)
        PROVE  \E end : /\ Outcome(todo', fin, end)
                        /\ ~reused' => PagesOK(end)' /\ EntriesOK(end)'
    <3>1. PICK end : end = Done(r, fin)
      OBVIOUS
    <3>2. Outcome(todo', fin, end)
      BY <2>1, <2>3, <3>1, OutcomeOne
    <3>3. /\ \A x \in Location : end[x] =
                IF x = <<"entry", e>> THEN fin[<<"page", v>>] ELSE fin[x]
      BY <2>3, <3>1
    <3>4. PagesOK(end)
      <4>1. \A k \in Lsa : logicalSlice[k] # NONE =>
              end[<<"page", logicalSlice[k]>>] = fin[<<"page", logicalSlice[k]>>]
        BY <1>9, <3>3, Places
      <4> QED
        BY <2>6, <4>1 DEF PagesOK
    <3>5. Agrees(end[<<"entry", e>>], latest[l])
      <4>1. end[<<"entry", e>>] = fin[<<"page", v>>]
        BY <2>2, <3>3, Places
      <4>2. Agrees(fin[<<"page", v>>], flash[v])
        BY <2>1, <2>6 DEF PagesOK
      <4>3. Content[l] = flash[v]
        BY <2>1 DEF Content
      <4>4. flash[v] = latest[l] \/ latest[l] = Nothing
        BY <1>15, <4>3 DEF Stored
      <4>5. \A got : Agrees(got, Nothing)
        BY DEF Agrees, Nothing
      <4> QED
        BY <4>1, <4>2, <4>4, <4>5
    <3>6. \A f \in DataEntry \ {e} : end[<<"entry", f>>] = fin[<<"entry", f>>]
      BY <3>3, Places
    <3>7. EntriesOK(end)'
      BY <1>14, <2>6, <3>5, <3>6
    <3> QED
      BY <1>8, <3>2, <3>4, <3>7
  <2> QED
    BY <1>1, <1>2, <1>6, <1>8, <1>10, <1>11, <1>12, <1>13, <2>4, <2>5, <2>6, FrontInv
<1>17. CASE ~NeedsOldData
  <2>1. todo' = <<>>
    BY <1>17 DEF Load
  <2>2. TodoOK'
    BY <2>1 DEF TodoOK
  <2>3. Written' = Written
    BY <1>1, <1>8, <2>1, NothingPending, WrittenAlone
  <2>4. cmd.code # "WRITE" => latest[l] = Nothing
    BY <1>4, <1>15, <1>17 DEF NeedsOldData, Content, Stored
  <2>5. \A got : Agrees(got, Nothing)
    BY DEF Agrees, Nothing
  <2>6. ASSUME NEW fin, PagesOK(fin), EntriesOK(fin)
        PROVE  \E end : /\ Outcome(todo', fin, end)
                        /\ ~reused' => PagesOK(end)' /\ EntriesOK(end)'
    <3>1. EntriesOK(fin)'
      BY <1>14, <2>4, <2>5, <2>6
    <3> QED
      BY <1>8, <2>1, <2>6, <3>1, OutcomeNone
  <2> QED
    BY <1>1, <1>2, <1>6, <1>8, <1>10, <1>11, <1>12, <1>13, <2>2, <2>3, <2>6, FrontInv
<1> QED
  BY <1>16, <1>17

-----------------------------------------------------------------------------
\* What agrees with the old contents agrees, after the same write, with the new.
LEMMA MergeAgrees ==
  ASSUME NEW got, NEW want, DOMAIN want = {"first", "rest"}, NEW x,
         x.part => Agrees(got, want)
  PROVE  Agrees(Merge(got, x), Merge(want, x))
<1>1. PICK a, b : a = Merge(got, x) /\ b = Merge(want, x)
  OBVIOUS
<1>2. /\ DOMAIN b = {"first", "rest"} /\ a.rest = x.number /\ b.rest = x.number
      /\ a.first = IF x.part THEN got.first ELSE x.number
      /\ b.first = IF x.part THEN want.first ELSE x.number
  BY <1>1 DEF Merge
<1>3. x.part => want.first \in {NONE, got.first}
  BY DEF Agrees
<1>4. b.first \in {NONE, a.first} /\ b.rest \in {NONE, a.rest}
  BY <1>2, <1>3
<1>5. Agrees(a, b)
  BY <1>2, <1>4 DEF Agrees
<1> QED
  BY <1>1, <1>5

\* The slice is transferred between the host and the entry.
LEMMA TransferInv ==
  ASSUME DeviceInv, Transfer
  PROVE  DeviceInv'
<1>1. /\ cmd \in Command /\ cmd.stage = "transfer" /\ todo = <<>> /\ cmd.entry \in DataEntry
      /\ commands \in 1..MaxCommands /\ \A other : Stage(other) <=> other = "transfer"
      /\ cmd.code # "FLUSH" => cmd.lsa \in Lsa /\ cmd.code \in Codes
  BY AtStage DEF Transfer
<1>2. pc = "idle" /\ ~reused /\ FtlOK /\ FtlInv
  BY <1>1, StageIdle DEF DeviceInv, FtlOK
<1>3. cmd.code # "FLUSH" /\ bufLsa[cmd.entry] = cmd.lsa
  BY <1>1 DEF DeviceInv, CmdOK
<1>4. PICK e \in DataEntry, l \in Lsa : e = cmd.entry /\ l = cmd.lsa
  BY <1>1, <1>3
<1>5. /\ bufLsa \in [DataEntry -> Lsa \cup {NONE}] /\ bufLsa[e] = l /\ l # NONE
      /\ dirty \in [DataEntry -> BOOLEAN] /\ latest \in [Lsa -> SliceData]
      /\ \A f \in DataEntry : bufLsa[f] = l => f = e
  BY <1>3, <1>4, FtlAssumption DEF DeviceInv, BufOK, DataOK
<1>6. /\ UNCHANGED <<q, accepted, bufLsa, lru, commands, buffer, page, lost>>
      /\ UNCHANGED ftlVars /\ cmd' = NONE
  BY DEF Transfer
<1>7. /\ UNCHANGED <<logicalSlice, flash, pc, request, reused, currentPage>> /\ FtlOK'
      /\ Content' = Content /\ \A fin : PagesOK(fin) => PagesOK(fin)'
  BY <1>2, <1>6, FtlStays
<1>8. CmdOK'
  BY <1>2, <1>6, <1>7 DEF CmdOK, Stage
<1>9. commands' \in 0..MaxCommands
  BY <1>6 DEF DeviceInv, DataOK
<1>10. ASSUME dirty' = dirty, latest' = latest
       PROVE  /\ BufOK' /\ StoredOK' /\ latest' \in [Lsa -> SliceData]
              /\ \A fin : EntriesOK(fin) /\ cmd.code # "WRITE" => EntriesOK(fin)'
  <2>1. BufOK' /\ StoredOK' /\ latest' \in [Lsa -> SliceData]
    BY <1>5, <1>6, <1>7, <1>10 DEF DeviceInv, BufOK, StoredOK, Dirty
  <2>2. ASSUME NEW fin, EntriesOK(fin), cmd.code # "WRITE" PROVE EntriesOK(fin)'
    BY <1>6, <1>10, <2>2, EntriesAll DEF EntriesOK
  <2> QED
    BY <2>1, <2>2
<1>11. CASE cmd.code = "PREFETCH"
  <2>1. todo' = <<>> /\ dirty' = dirty /\ latest' = latest
    BY <1>11 DEF Transfer
  <2>2. TodoOK'
    BY <2>1 DEF TodoOK
  <2>3. Written' = Written
    BY <1>1, <1>7, <2>1, NothingPending, WrittenAlone
  <2>4. ASSUME NEW fin, PagesOK(fin), EntriesOK(fin)
        PROVE  \E end : /\ Outcome(todo', fin, end)
                        /\ ~reused' => PagesOK(end)' /\ EntriesOK(end)'
    BY <1>7, <1>10, <1>11, <2>1, <2>4, OutcomeNone
  <2> QED
    BY <1>1, <1>2, <1>6, <1>7, <1>8, <1>9, <1>10, <2>1, <2>2, <2>3, <2>4, FrontInv
<1>12. CASE cmd.code = "READ"
  <2>1. PICK r : r = DmaReq("TxDMA", e, latest[l]) /\ todo' = <<r>>
    BY <1>4, <1>12 DEF Transfer
  <2>2. dirty' = dirty /\ latest' = latest
    BY <1>12 DEF Transfer
  <2>3. r.code = "TxDMA" /\ r.entry = e /\ r.data = latest[l] /\ r \in Transfers
    BY <1>5, <2>1 DEF DmaReq, Transfers
  <2>4. r \in NewRequest
    BY <2>3 DEF NewRequest, AnyRequest
  <2>5. TodoOK'
    BY <2>1, <2>3, <2>4 DEF TodoOK, Fits
  <2>6. Written' = Written
    <3>1. \A d, b : ~Pending("ERASE", d, b)' /\ ~Pending("WRITE", d, b)'
      BY <2>1, <2>3 DEF Pending
    <3> QED
      BY <1>1, <1>7, <3>1, WrittenAlone
  <2>7. From(r) = <<"entry", e>> /\ Writes(r) = {}
    BY <2>3 DEF From, Writes, IsRead
  <2>8. ASSUME NEW fin, PagesOK(fin), EntriesOK(fin)
        PROVE  \E end : /\ Outcome(todo', fin, end)
                        /\ ~reused' => PagesOK(end)' /\ EntriesOK(end)'
    <3>1. PICK end : end = Done(r, fin)
      OBVIOUS
    <3>2. Agrees(fin[<<"entry", e>>], latest[l])
      BY <1>5, <1>12, <2>8, EntriesAll
    <3>3. Served(r, fin)
      BY <2>3, <2>7, <3>2 DEF Served
    <3>4. Outcome(todo', fin, end)
      BY <2>1, <2>4, <3>1, <3>3, OutcomeOne
    <3>5. \A x \in Location : end[x] = fin[x]
      BY <2>7, <3>1 DEF Done
    <3>6. logicalSlice \in [Lsa -> Vsa \cup {NONE}]
      BY <1>2 DEF FtlInv, FtlTypeOK
    <3>7. PagesOK(end) /\ EntriesOK(end)
      BY <2>8, <3>5, <3>6, Places DEF PagesOK, EntriesOK
    <3> QED
      BY <1>7, <1>10, <1>12, <2>2, <3>4, <3>7
  <2> QED
    BY <1>1, <1>2, <1>6, <1>7, <1>8, <1>9, <1>10, <2>2, <2>5, <2>6, <2>8, FrontInv
<1>13. CASE cmd.code \in {"WRITE", "WRITE_PART"}
  <2>1. PICK x : x = [number |-> commands, part |-> cmd.code = "WRITE_PART"]
    OBVIOUS
  <2>2. PICK r : r = DmaReq("RxDMA", e, x)
    OBVIOUS
  <2>3. /\ todo' = <<r>> /\ dirty' = [dirty EXCEPT ![e] = TRUE]
        /\ latest' = [latest EXCEPT ![l] = Merge(@, x)]
    BY <1>4, <1>13, <2>1, <2>2 DEF Transfer
  <2>4. r.code = "RxDMA" /\ r.entry = e /\ r.data = x /\ r \in Transfers
    BY <1>1, <2>1, <2>2 DEF DmaReq, Transfers
  <2>5. r \in NewRequest
    BY <2>4 DEF NewRequest, AnyRequest
  <2>6. TodoOK'
    BY <2>3, <2>4, <2>5 DEF TodoOK, Fits
  <2>7. Written' = Written
    <3>1. \A d, b : ~Pending("ERASE", d, b)' /\ ~Pending("WRITE", d, b)'
      BY <2>3, <2>4 DEF Pending
    <3> QED
      BY <1>1, <1>7, <3>1, WrittenAlone
  <2>8. latest[l] \in SliceData /\ Merge(latest[l], x) \in SliceData
    BY <1>1, <1>5, <2>1 DEF Merge, SliceData, Part
  <2>9. latest' \in [Lsa -> SliceData] /\ latest'[l] = Merge(latest[l], x)
    BY <1>5, <2>3, <2>8
  <2>10. BufOK'
    BY <1>5, <1>6, <2>3 DEF DeviceInv, BufOK
  <2>11. StoredOK'
    <3> SUFFICES ASSUME NEW k \in Lsa, ~Dirty(k)' PROVE Stored(Content[k], latest'[k])
      BY <1>7 DEF StoredOK
    <3>1. k # l
      BY <1>5, <1>6, <2>3 DEF Dirty
    <3>2. ~Dirty(k)
      BY <1>5, <1>6, <2>3 DEF Dirty
    <3>3. latest'[k] = latest[k]
      BY <1>5, <2>3, <3>1
    <3> QED
      BY <1>2, <3>2, <3>3 DEF DeviceInv, StoredOK
  <2>12. From(r) = <<"entry", e>> /\ Writes(r) = {<<"entry", e>>}
         /\ \A y : Result(r, y) = Merge(y, x)
    BY <2>4 DEF From, Writes, IsRead, Result
  <2>13. ASSUME NEW fin, PagesOK(fin), EntriesOK(fin)
         PROVE  \E end : /\ Outcome(todo', fin, end)
                         /\ ~reused' => PagesOK(end)' /\ EntriesOK(end)'
    <3>1. PICK end : end = Done(r, fin)
      OBVIOUS
    <3>2. Outcome(todo', fin, end)
      BY <2>3, <2>4, <2>5, <3>1, OutcomeOne DEF Served
    <3>3. \A y \in Location : end[y] =
            IF y = <<"entry", e>> THEN Merge(fin[<<"entry", e>>], x) ELSE fin[y]
      BY <2>12, <3>1 DEF Done
    <3>4. PagesOK(end)
      <4>1. logicalSlice \in [Lsa -> Vsa \cup {NONE}]
        BY <1>2 DEF FtlInv, FtlTypeOK
      <4> QED
        BY <2>13, <3>3, <4>1, Places DEF PagesOK
    <3>5. Agrees(end[<<"entry", e>>], latest'[l])
      <4>1. end[<<"entry", e>>] = Merge(fin[<<"entry", e>>], x)
        BY <3>3, Places
      <4>2. DOMAIN latest[l] = {"first", "rest"}
        BY <2>8 DEF SliceData
      <4>3. x.part => Agrees(fin[<<"entry", e>>], latest[l])
        BY <1>5, <2>1, <2>13, EntriesAll
      <4> QED
        BY <2>9, <4>1, <4>2, <4>3, MergeAgrees
    <3>6. EntriesOK(end)'
      <4> SUFFICES ASSUME NEW f \in DataEntry, bufLsa[f] # NONE
                   PROVE  Agrees(end[<<"entry", f>>], latest'[bufLsa[f]])
        BY <1>6 DEF EntriesOK
      <4>1. CASE f = e
        BY <1>5, <3>5, <4>1
      <4>2. CASE f # e
        <5>1. bufLsa[f] # l /\ bufLsa[f] \in Lsa
          BY <1>5, <4>2
        <5>2. latest'[bufLsa[f]] = latest[bufLsa[f]]
          BY <1>5, <2>3, <5>1
        <5>3. end[<<"entry", f>>] = fin[<<"entry", f>>]
          BY <3>3, <4>2, Places
        <5>4. ~Overwritten(f)
          BY <1>4, <4>2 DEF Overwritten
        <5> QED
          BY <2>13, <5>2, <5>3, <5>4 DEF EntriesOK
      <4> QED
        BY <4>1, <4>2
    <3> QED
      BY <1>7, <3>2, <3>4, <3>6
  <2> QED
    BY <1>1, <1>2, <1>6, <1>7, <1>8, <1>9, <2>6, <2>7, <2>9, <2>10, <2>11, <2>13, FrontInv
<1> QED
  BY <1>1, <1>3, <1>11, <1>12, <1>13 DEF Codes

-----------------------------------------------------------------------------
(***************************************************************************)
(* Pages are handed out, copied and erased.                                *)
(***************************************************************************)
\* What is to be written is not yet submitted.
LEMMA PlaceWritten ==
  ASSUME NEW b, NEW l, NEW x, PlacePre(b, l, x), todo = <<>>,
         \A d, c : ~Pending("ERASE", d, c)',
         \A d, c : Pending("WRITE", d, c)' <=> d = Target /\ c = b
  PROVE  Written' = Written
<1>1. /\ currentPage \in [Die -> [Block -> 0..SLICES_PER_BLOCK]] /\ b \in Block
  BY DEF PlacePre, FtlTypeOK
<1>2. /\ Target \in Die /\ NewPage(b) \in Page
      /\ currentPage' = [currentPage EXCEPT ![Target][b] = NewPage(b) + 1]
  BY PlaceNew
<1>3. \A d \in Die, c \in Block :
        currentPage[d][c] =
          IF Pending("WRITE", d, c)' THEN currentPage'[d][c] - 1 ELSE currentPage'[d][c]
  <2> SUFFICES ASSUME NEW d \in Die, NEW c \in Block
               PROVE  currentPage[d][c] =
                        IF Pending("WRITE", d, c)' THEN currentPage'[d][c] - 1
                        ELSE currentPage'[d][c]
    OBVIOUS
  <2>1. CASE d = Target /\ c = b
    <3>1. currentPage'[d][c] = NewPage(b) + 1 /\ currentPage[d][c] = NewPage(b)
      BY <1>1, <1>2, <2>1 DEF NewPage
    <3>2. NewPage(b) \in Nat
      BY <1>2 DEF Page
    <3> QED
      BY <2>1, <3>1, <3>2
  <2>2. CASE ~(d = Target /\ c = b)
    BY <1>1, <1>2, <2>2
  <2> QED
    BY <2>1, <2>2
<1>4. \A code, d, c : ~Pending(code, d, c)
  BY DEF Pending
<1>5. \A d \in Die, c \in Block :
        currentPage[d][c] =
          IF Pending("ERASE", d, c)' THEN SLICES_PER_BLOCK
          ELSE IF Pending("WRITE", d, c)' THEN currentPage'[d][c] - 1 ELSE currentPage'[d][c]
  BY <1>3
<1>6. Written = [d \in Die |-> [c \in Block |-> currentPage[d][c]]]
  BY <1>4 DEF Written
<1> QED
  BY <1>5, <1>6 DEF Written

\* The page that was handed out holds what the layer says, and no other
\* slice is mapped to it.
LEMMA PlacePages ==
  ASSUME NEW b, NEW l, NEW x, PlacePre(b, l, x), NEW fin, PagesOK(fin), NEW end,
         \A v \in Vsa \ {NewVsa(b)} : end[<<"page", v>>] = fin[<<"page", v>>],
         Agrees(end[<<"page", NewVsa(b)>>], x)
  PROVE  PagesOK(end)'
<1>1. /\ logicalSlice \in [Lsa -> Vsa \cup {NONE}] /\ flash \in [Vsa -> Data \cup {NONE}]
      /\ l \in Lsa
  BY DEF PlacePre, FtlTypeOK
<1>2. /\ NewVsa(b) \in Vsa
      /\ logicalSlice' = [logicalSlice EXCEPT ![l] = NewVsa(b)]
      /\ flash' = [flash EXCEPT ![NewVsa(b)] = x]
      /\ \A k \in Lsa : logicalSlice[k] # NewVsa(b)
  BY PlaceNew DEF Unmapped, NewVsa
<1> SUFFICES ASSUME NEW k \in Lsa, logicalSlice'[k] # NONE
             PROVE  Agrees(end[<<"page", logicalSlice'[k]>>], flash'[logicalSlice'[k]])
  BY DEF PagesOK
<1>3. CASE k = l
  <2>1. logicalSlice'[k] = NewVsa(b) /\ flash'[NewVsa(b)] = x
    BY <1>1, <1>2, <1>3
  <2> QED
    BY <2>1
<1>4. CASE k # l
  <2>1. logicalSlice'[k] = logicalSlice[k] /\ logicalSlice[k] \in Vsa \ {NewVsa(b)}
    BY <1>1, <1>2, <1>4
  <2>2. flash'[logicalSlice[k]] = flash[logicalSlice[k]]
    BY <1>1, <1>2, <2>1
  <2> QED
    BY <2>1, <2>2 DEF PagesOK
<1> QED
  BY <1>3, <1>4

\* The translation that evicts an entry ends, and the entry is written to the page it chose.
LEMMA WriteBackInv ==
  ASSUME DeviceInv, WriteBack
  PROVE  DeviceInv'
<1>1. /\ cmd \in Command /\ cmd.stage = "translate" /\ todo = <<>> /\ cmd.entry \in DataEntry
      /\ commands \in 1..MaxCommands /\ \A other : Stage(other) <=> other = "translate"
      /\ cmd.code # "FLUSH" => cmd.lsa \in Lsa /\ cmd.code \in Codes
      /\ cmd # NONE
  BY AtStage DEF WriteBack
<1>2. ~reused /\ FtlOK /\ FtlInv /\ FtlFind /\ pc' = "idle"
  BY DEF DeviceInv, FtlOK, WriteBack
<1>3. PICK b : /\ Ending(b) /\ PlacePre(b, request[1], request[2])
               /\ b \in GoodBlocks(Target) /\ reused' = reused
  BY <1>2, Handed
<1>4. PICK e \in DataEntry : e = cmd.entry
  BY <1>1
<1>5. dirty[e] /\ request = <<bufLsa[e], latest[bufLsa[e]]>>
  BY <1>1, <1>2, <1>3, <1>4 DEF Ending, Finding, Serving, DeviceInv, CmdOK
<1>6. PICK l, x : l = request[1] /\ x = request[2]
  OBVIOUS
<1>7. /\ l = bufLsa[e] /\ x = latest[l] /\ l \in Lsa /\ l # NONE
      /\ bufLsa \in [DataEntry -> Lsa \cup {NONE}] /\ dirty \in [DataEntry -> BOOLEAN]
      /\ \A f \in DataEntry : bufLsa[f] = l => f = e
  BY <1>4, <1>5, <1>6, FtlAssumption DEF DeviceInv, BufOK
<1>8. PlacePre(b, l, x)
  BY <1>3, <1>6
<1>9. PICK v : v = NewVsa(b)
  OBVIOUS
<1>10. /\ v \in Vsa /\ logicalSlice'[l] = v
       /\ currentPage'[v[1]][v[2]] = v[3] + 1 /\ v[1] = Target /\ v[2] = b
  <2>1. /\ Target \in Die /\ NewPage(b) \in Page /\ NewVsa(b) \in Vsa
        /\ logicalSlice' = [logicalSlice EXCEPT ![l] = NewVsa(b)]
        /\ currentPage' = [currentPage EXCEPT ![Target][b] = NewPage(b) + 1]
    BY <1>8, PlaceNew
  <2>2. /\ logicalSlice \in [Lsa -> Vsa \cup {NONE}] /\ b \in Block
        /\ currentPage \in [Die -> [Block -> 0..SLICES_PER_BLOCK]]
    BY <1>8 DEF PlacePre, FtlTypeOK
  <2>3. v[1] = Target /\ v[2] = b /\ v[3] = NewPage(b)
    BY <1>9 DEF NewVsa
  <2> QED
    BY <1>7, <1>9, <2>1, <2>2, <2>3
<1>11. PICK r : r = NandReq("WRITE", e, v)
  OBVIOUS
<1>12. /\ r \in NewRequest /\ r.code = "WRITE"
       /\ r.die = Target /\ r.block = b /\ r.page = v[3]
       /\ \A m : /\ Served(r, m)
                 /\ \A y \in Location : Done(r, m)[y] =
                      IF y = <<"page", v>> THEN m[<<"entry", e>>] ELSE m[y]
  BY <1>10, <1>11, Places, NandReqFacts
<1>13. /\ UNCHANGED <<q, accepted, lru, bufLsa, commands, buffer, page, latest, lost>>
       /\ todo' = <<r>> /\ dirty' = [dirty EXCEPT ![e] = FALSE]
       /\ cmd' = IF cmd.code = "FLUSH" THEN FlushOf(DataEntry \ (CleanEntries \cup {e}))
                 ELSE [cmd EXCEPT !.stage = "load"]
  BY <1>4, <1>6, <1>10, <1>11 DEF WriteBack, contents
<1>14. FtlOK'
  BY <1>2, FtlKept DEF FtlNext
<1>15. Written' = Written
  <2>1. \A code, d, c : Pending(code, d, c)' <=> code = "WRITE" /\ d = Target /\ c = b
    BY <1>12, <1>13 DEF Pending
  <2> QED
    BY <1>1, <1>8, <2>1, PlaceWritten
<1>16. TodoOK'
  <2>1. Fits(r)'
    BY <1>10, <1>12 DEF Fits
  <2> QED
    BY <1>13, <2>1 DEF TodoOK
<1>17. BufOK'
  BY <1>7, <1>13 DEF DeviceInv, BufOK
<1>18. StoredOK'
  <2> SUFFICES ASSUME NEW k \in Lsa, ~Dirty(k)' PROVE Stored(Content'[k], latest[k])
    BY <1>13 DEF StoredOK
  <2>1. Content' = [Content EXCEPT ![l] = x]
    BY <1>8, ContentPlaced
  <2>2. CASE k = l
    <3>1. Content'[k] = latest[k]
      BY <1>7, <2>1, <2>2 DEF Content
    <3>2. latest[k] \in Data /\ latest[k] # NONE
      BY <1>7, <2>2, DeviceAssumption, FtlAssumption DEF DeviceInv, DataOK
    <3> QED
      BY <3>1, <3>2 DEF Stored
  <2>3. CASE k # l
    <3>1. Content'[k] = Content[k]
      BY <2>1, <2>3 DEF Content
    <3>2. ~Dirty(k)
      BY <1>7, <1>13, <2>3 DEF Dirty
    <3> QED
      BY <1>2, <3>1, <3>2 DEF DeviceInv, StoredOK
  <2> QED
    BY <2>2, <2>3
<1>19. cmd' # NONE =>
         /\ cmd' \in Command
         /\ \/ cmd'.code = "FLUSH" /\ cmd'.stage = "evict" /\ dirty'[cmd'.entry]
            \/ /\ cmd'.code # "FLUSH" /\ cmd'.stage = "load" /\ ~dirty'[cmd'.entry]
               /\ Hit(cmd'.lsa) = {}
  <2>1. CASE cmd.code = "FLUSH"
    <3> SUFFICES ASSUME cmd' # NONE
                 PROVE  cmd' \in Command /\ cmd'.code = "FLUSH" /\ cmd'.stage = "evict"
                        /\ dirty'[cmd'.entry]
      OBVIOUS
    <3>1. PICK S : S = DataEntry \ (CleanEntries \cup {e})
      OBVIOUS
    <3>2. cmd' = FlushOf(S) /\ S \in SUBSET DataEntry /\ BufOK
      BY <1>13, <2>1, <3>1 DEF DeviceInv
    <3>3. cmd' \in Command /\ cmd'.code = "FLUSH" /\ cmd'.stage = "evict" /\ cmd'.entry \in S
      BY <3>2, FlushOfFacts
    <3>4. dirty'[cmd'.entry]
      BY <1>7, <1>13, <3>1, <3>3 DEF CleanEntries
    <3> QED
      BY <3>3, <3>4
  <2>2. CASE cmd.code # "FLUSH"
    <3>1. cmd' = [cmd EXCEPT !.stage = "load"]
      BY <1>13, <2>2
    <3>2. /\ cmd' \in Command /\ cmd'.stage = "load" /\ cmd'.code = cmd.code
          /\ cmd'.entry = cmd.entry /\ cmd'.lsa = cmd.lsa
      BY <1>1, <2>2, <3>1, StageChanged
    <3>3. Hit(cmd.lsa) = {}
      BY <1>1, <2>2 DEF DeviceInv, CmdOK
    <3>4. ~dirty'[cmd'.entry]
      BY <1>4, <1>7, <1>13, <3>2
    <3> QED
      BY <2>2, <3>2, <3>3, <3>4
  <2> QED
    BY <2>1, <2>2
<1>20. CmdOK'
  <2>1. \A k : Hit(k)' = Hit(k)
    BY <1>13 DEF Hit
  <2>2. \A stage : Stage(stage)' <=> cmd' # NONE /\ cmd'.stage = stage
    BY DEF Stage
  <2>3. commands' # 0 /\ pc' = "idle" /\ ~reused'
    BY <1>1, <1>2, <1>3, <1>13
  <2>4. CASE cmd' = NONE
    BY <2>2, <2>3, <2>4 DEF CmdOK
  <2>5. CASE cmd' # NONE
    <3>1. cmd' \in Command
      BY <1>19, <2>5
    <3>2. CASE cmd'.code = "FLUSH" /\ cmd'.stage = "evict" /\ dirty'[cmd'.entry]
      BY <2>2, <2>3, <3>1, <3>2 DEF CmdOK
    <3>3. CASE /\ cmd'.code # "FLUSH" /\ cmd'.stage = "load" /\ ~dirty'[cmd'.entry]
               /\ Hit(cmd'.lsa) = {}
      BY <2>1, <2>2, <2>3, <3>1, <3>3 DEF CmdOK
    <3> QED
      BY <1>19, <2>5, <3>2, <3>3
  <2> QED
    BY <2>4, <2>5
<1>21. ASSUME NEW fin, PagesOK(fin), EntriesOK(fin)
       PROVE  \E end : /\ Outcome(todo', fin, end)
                       /\ ~reused' => PagesOK(end)' /\ EntriesOK(end)'
  <2>1. PICK end : end = Done(r, fin)
    OBVIOUS
  <2>2. Outcome(todo', fin, end)
    BY <1>12, <1>13, <2>1, OutcomeOne
  <2>3. \A y \in Location : end[y] = IF y = <<"page", v>> THEN fin[<<"entry", e>>] ELSE fin[y]
    BY <1>12, <2>1
  <2>4. PagesOK(end)'
    <3>1. \A w \in Vsa \ {v} : end[<<"page", w>>] = fin[<<"page", w>>]
      BY <2>3, Places
    <3>2. end[<<"page", v>>] = fin[<<"entry", e>>]
      BY <1>10, <2>3, Places
    <3>3. Agrees(fin[<<"entry", e>>], x)
      BY <1>1, <1>7, <1>21, EntriesAll
    <3> QED
      BY <1>8, <1>9, <1>21, <3>1, <3>2, <3>3, PlacePages
  <2>5. EntriesOK(end)'
    <3>1. \A f \in DataEntry : end[<<"entry", f>>] = fin[<<"entry", f>>]
      BY <2>3, Places
    <3> QED
      BY <1>1, <1>13, <1>21, <3>1, EntriesAll DEF EntriesOK
  <2> QED
    BY <2>2, <2>4, <2>5
<1>22. latest' \in [Lsa -> SliceData] /\ commands' \in 0..MaxCommands
  BY <1>13 DEF DeviceInv, DataOK
<1> QED
  BY <1>1, <1>2, <1>13, <1>14, <1>15, <1>16, <1>17, <1>18, <1>20, <1>21, <1>22, FrontInv

\* A step of a collection, of which only the requests and the maps are seen.
LEMMA CollectStep ==
  ASSUME DeviceInv, CollectGarbage, FtlOK', pc \in Serving,
         request' = request, TodoOK', Written' = Written,
         ~reused' => Content' = Content,
         \A fin : PagesOK(fin) /\ EntriesOK(fin) =>
           \E end : /\ Outcome(todo', fin, end)
                    /\ ~reused' => PagesOK(end)'
                    /\ \A e \in DataEntry : end[<<"entry", e>>] = fin[<<"entry", e>>]
  PROVE  DeviceInv'
<1>1. /\ cmd.stage = "translate" /\ todo = <<>> /\ \A other : Stage(other) <=> other = "translate"
  BY AtStage DEF CollectGarbage
<1>2. /\ ~reused /\ UNCHANGED <<q, accepted, cmd, commands, buffer, page, latest, lost>>
      /\ UNCHANGED <<lru, bufLsa, dirty>>
  BY DEF CollectGarbage, bufferMap, contents
<1>3. BufOK'
  BY <1>2 DEF DeviceInv, BufOK
<1>4. CmdOK'
  <2>1. \A l : Hit(l)' = Hit(l)
    BY <1>2 DEF Hit
  <2>2. \A stage : Stage(stage)' <=> stage = "translate"
    BY <1>1, <1>2 DEF Stage
  <2>3. /\ cmd # NONE => cmd \in Command /\ commands # 0
        /\ cmd # NONE /\ cmd.code # "FLUSH" => Hit(cmd.lsa) = {}
        /\ dirty[cmd.entry] /\ request = <<bufLsa[cmd.entry], latest[bufLsa[cmd.entry]]>>
    BY <1>1, <1>2 DEF DeviceInv, CmdOK
  <2> QED
    BY <1>2, <2>1, <2>2, <2>3 DEF CmdOK
<1>5. StoredOK'
  BY <1>2 DEF DeviceInv, StoredOK, Dirty
<1>6. ASSUME NEW fin, PagesOK(fin), EntriesOK(fin)
      PROVE  \E end : /\ Outcome(todo', fin, end)
                      /\ ~reused' => PagesOK(end)' /\ EntriesOK(end)'
  <2>1. PICK end : /\ Outcome(todo', fin, end) /\ (~reused' => PagesOK(end)')
                   /\ \A e \in DataEntry : end[<<"entry", e>>] = fin[<<"entry", e>>]
    BY <1>6
  <2>2. EntriesOK(end)'
    BY <1>1, <1>2, <1>6, <2>1, EntriesAll DEF EntriesOK
  <2> QED
    BY <2>1, <2>2
<1>7. latest' \in [Lsa -> SliceData] /\ commands' \in 0..MaxCommands
  BY <1>2 DEF DeviceInv, DataOK
<1> QED
  BY <1>1, <1>2, <1>3, <1>4, <1>5, <1>6, <1>7, FrontInv

\* The steps that move nothing.
LEMMA LooksOnly ==
  ASSUME DeviceInv, CollectGarbage, FtlOK', pc \in Serving, UNCHANGED <<maps, request>>,
         todo' = <<>>, \A d \in Die, b \in Block : currentPage'[d][b] = currentPage[d][b]
  PROVE  DeviceInv'
<1>1. UNCHANGED <<logicalSlice, flash>> /\ todo = <<>>
  BY AtStage DEF maps, CollectGarbage
<1>2. Written' = Written
  BY <1>1, WrittenStays
<1>3. Content' = Content /\ \A fin : PagesOK(fin) => PagesOK(fin)'
  BY <1>1 DEF Content, PagesOK
<1>4. \A fin : Outcome(todo', fin, fin)
  BY OutcomeNone
<1>5. TodoOK'
  BY DEF TodoOK
<1> QED
  BY <1>2, <1>3, <1>4, <1>5, CollectStep

\* A valid page of the victim is read and written to the page chosen for it.
LEMMA CopyVictimInv ==
  ASSUME DeviceInv, CollectGarbage, CopyPage,
         todo' = CopyRequests(OldVsa, logicalSlice'[OldLsa])
  PROVE  DeviceInv'
<1>1. todo = <<>> /\ ~reused /\ FtlOK /\ FtlInv /\ VictimFull
  BY AtStage DEF CollectGarbage, DeviceInv, FtlOK
<1>2. PICK b, l, x, old : b = Current /\ l = OldLsa /\ old = OldVsa /\ x = flash[old]
  OBVIOUS
<1>3. /\ PlacePre(b, l, x) /\ victimBlockNo \in Block /\ Target \in Die /\ pageNo \in Page
      /\ victimBlockNo # b /\ logicalSlice[l] = old /\ old \in Vsa
      /\ old = <<Target, victimBlockNo, pageNo>>
  BY <1>1, <1>2, CopyPre DEF OldVsa
<1>4. PICK v : v = NewVsa(b)
  OBVIOUS
<1>5. /\ logicalSlice \in [Lsa -> Vsa \cup {NONE}] /\ b \in Block /\ l \in Lsa
      /\ currentPage \in [Die -> [Block -> 0..SLICES_PER_BLOCK]]
  BY <1>3 DEF PlacePre, FtlTypeOK
<1>6. /\ NewPage(b) \in Page /\ v \in Vsa
      /\ logicalSlice' = [logicalSlice EXCEPT ![l] = v]
      /\ currentPage' = [currentPage EXCEPT ![Target][b] = NewPage(b) + 1]
  BY <1>3, <1>4, PlaceNew
<1>7. /\ v[1] = Target /\ v[2] = b /\ v[3] = NewPage(b) /\ logicalSlice'[l] = v
      /\ currentPage'[Target][b] = v[3] + 1
      /\ currentPage'[Target][victimBlockNo] = currentPage[Target][victimBlockNo]
  BY <1>3, <1>4, <1>5, <1>6 DEF NewVsa
<1>8. /\ pc \in {"collect", "copy"} /\ request' = request /\ reused' = reused
  BY DEF CopyPage, Collecting
<1>9. FtlOK'
  BY <1>1, FtlKept DEF FtlNext, FtlCollect
<1>10. PICK t : t = TempEntry(Target)
  OBVIOUS
<1>11. t \in Entry /\ t \notin DataEntry
  BY <1>3, <1>10, Places
<1>12. PICK r, s : r = NandReq("READ", t, old) /\ s = NandReq("WRITE", t, v)
  OBVIOUS
<1>13. todo' = <<r, s>>
  BY <1>2, <1>7, <1>10, <1>12 DEF CopyRequests
<1>14. /\ r \in NewRequest /\ r.code = "READ"
       /\ r.die = Target /\ r.block = victimBlockNo /\ r.page = pageNo
       /\ \A m : /\ Served(r, m)
                 /\ \A y \in Location : Done(r, m)[y] =
                      IF y = <<"entry", t>> THEN m[<<"page", old>>] ELSE m[y]
  BY <1>3, <1>11, <1>12, NandReqFacts
<1>15. /\ s \in NewRequest /\ s.code = "WRITE"
       /\ s.die = Target /\ s.block = b /\ s.page = v[3]
       /\ \A m : /\ Served(s, m)
                 /\ \A y \in Location : Done(s, m)[y] =
                      IF y = <<"page", v>> THEN m[<<"entry", t>>] ELSE m[y]
  BY <1>6, <1>7, <1>11, <1>12, NandReqFacts
<1>16. TodoOK'
  <2>1. pageNo < currentPage'[Target][victimBlockNo]
    BY <1>1, <1>3, <1>7, <1>8, FtlAssumption DEF VictimFull, Page
  <2>2. Fits(r)' /\ Fits(s)'
    BY <1>7, <1>14, <1>15, <2>1 DEF Fits
  <2>3. ForCopy(r, s)'
    BY <1>3, <1>14, <1>15, <2>2 DEF ForCopy
  <2> QED
    BY <1>13, <2>3 DEF TodoOK
<1>17. Written' = Written
  <2>1. DOMAIN todo' = {1, 2} /\ todo'[1] = r /\ todo'[2] = s
    BY <1>13
  <2>2. \A code, d, c : code # "READ" =>
          (Pending(code, d, c)' <=> code = "WRITE" /\ d = Target /\ c = b)
    BY <1>14, <1>15, <2>1 DEF Pending
  <2> QED
    BY <1>1, <1>3, <2>2, PlaceWritten
<1>18. Content' = Content
  <2>1. Content' = [Content EXCEPT ![l] = x]
    BY <1>3, ContentPlaced
  <2>2. Content[l] = x
    BY <1>2, <1>3, <1>5, NoneApart DEF Content
  <2>3. Content = [Content EXCEPT ![l] = x]
    BY <2>2 DEF Content
  <2> QED
    BY <2>1, <2>3
<1>19. ASSUME NEW fin, PagesOK(fin), EntriesOK(fin)
       PROVE  \E end : /\ Outcome(todo', fin, end)
                       /\ ~reused' => PagesOK(end)'
                       /\ \A e \in DataEntry : end[<<"entry", e>>] = fin[<<"entry", e>>]
  <2>1. PICK mid, end : mid = Done(r, fin) /\ end = Done(s, mid)
    OBVIOUS
  <2>2. Outcome(todo', fin, end)
    BY <1>13, <1>14, <1>15, <2>1, OutcomeTwo
  <2>3. /\ \A y \in Location : mid[y] = IF y = <<"entry", t>> THEN fin[<<"page", old>>] ELSE fin[y]
        /\ \A y \in Location : end[y] = IF y = <<"page", v>> THEN mid[<<"entry", t>>] ELSE mid[y]
    BY <1>14, <1>15, <2>1
  <2>4. end[<<"page", v>>] = fin[<<"page", old>>]
    BY <1>6, <1>11, <2>3, Places
  <2>5. \A w \in Vsa \ {v} : end[<<"page", w>>] = fin[<<"page", w>>]
    BY <2>3, Places
  <2>6. \A e \in DataEntry : end[<<"entry", e>>] = fin[<<"entry", e>>]
    BY <1>11, <2>3, Places
  <2>7. Agrees(fin[<<"page", old>>], x)
    BY <1>2, <1>3, <1>5, <1>19, NoneApart DEF PagesOK
  <2>8. PagesOK(end)'
    BY <1>3, <1>4, <1>19, <2>4, <2>5, <2>7, PlacePages
  <2> QED
    BY <2>2, <2>6, <2>8
<1> QED
  BY <1>8, <1>9, <1>16, <1>17, <1>18, <1>19, CollectStep DEF Serving

\* The pages of the victim are erased; no slice is mapped to one of them.
LEMMA EraseVictimInv ==
  ASSUME DeviceInv, CollectGarbage, EraseBlock, todo' = <<EraseReq(Target, victimBlockNo)>>
  PROVE  DeviceInv'
<1>1. todo = <<>> /\ ~reused /\ FtlOK /\ FtlInv /\ VictimFull
  BY AtStage DEF CollectGarbage, DeviceInv, FtlOK
<1>2. PICK d, b : d = Target /\ b = victimBlockNo
  OBVIOUS
<1>3. /\ d \in Die /\ b \in Block /\ \A p \in Page : Unmapped(d, b, p)
  BY <1>1, <1>2, VictimEmpty
<1>4. /\ pc \in {"erase", "collect"} /\ request' = request /\ logicalSlice' = logicalSlice
      /\ currentPage' = [currentPage EXCEPT ![d][b] = 0]
      /\ flash' = [v \in Vsa |-> IF v[1] = d /\ v[2] = b THEN NONE ELSE flash[v]]
  BY <1>2 DEF EraseBlock
<1>5. /\ currentPage \in [Die -> [Block -> 0..SLICES_PER_BLOCK]]
      /\ currentPage[d][b] = SLICES_PER_BLOCK
      /\ logicalSlice \in [Lsa -> Vsa \cup {NONE}]
  BY <1>1, <1>2, <1>4 DEF FtlOK, VictimFull, FtlInv, FtlTypeOK
<1>6. FtlOK'
  BY <1>1, FtlKept DEF FtlNext, FtlCollect
<1>7. PICK r : r = EraseReq(d, b) /\ todo' = <<r>>
  BY <1>2
<1>8. /\ r.code = "ERASE" /\ r.die = d /\ r.block = b /\ r \in NandRequests
  BY <1>3, <1>5, <1>7 DEF EraseReq, NandRequests
<1>9. r \in NewRequest
  BY <1>8 DEF NewRequest, AnyRequest
<1>10. currentPage'[d][b] = 0
  BY <1>3, <1>4, <1>5
<1>11. TodoOK'
  BY <1>7, <1>8, <1>9, <1>10 DEF TodoOK, Fits
<1>12. Written' = Written
  <2>1. \A code, e, c : Pending(code, e, c)' <=> code = "ERASE" /\ e = d /\ c = b
    BY <1>7, <1>8 DEF Pending
  <2>2. \A code, e, c : ~Pending(code, e, c)
    BY <1>1 DEF Pending
  <2>3. \A e \in Die, c \in Block :
          currentPage[e][c] = IF e = d /\ c = b THEN SLICES_PER_BLOCK ELSE currentPage'[e][c]
    BY <1>3, <1>4, <1>5
  <2> QED
    BY <2>1, <2>2, <2>3 DEF Written
<1>13. \A k \in Lsa : logicalSlice[k] # NONE =>
         /\ logicalSlice[k] \in Vsa /\ ~(logicalSlice[k][1] = d /\ logicalSlice[k][2] = b)
         /\ flash'[logicalSlice[k]] = flash[logicalSlice[k]]
  <2> SUFFICES ASSUME NEW k \in Lsa, logicalSlice[k] # NONE
               PROVE  /\ logicalSlice[k] \in Vsa
                      /\ ~(logicalSlice[k][1] = d /\ logicalSlice[k][2] = b)
                      /\ flash'[logicalSlice[k]] = flash[logicalSlice[k]]
    OBVIOUS
  <2>1. PICK v \in Vsa : v = logicalSlice[k]
    BY <1>5
  <2>2. v = <<v[1], v[2], v[3]>> /\ v[3] \in Page
    BY VsaParts
  <2>3. ~(v[1] = d /\ v[2] = b)
    BY <1>3, <2>1, <2>2 DEF Unmapped
  <2> QED
    BY <1>4, <2>1, <2>3
<1>14. Content' = Content
  BY <1>4, <1>13 DEF Content
<1>15. ASSUME NEW fin, PagesOK(fin), EntriesOK(fin)
       PROVE  \E end : /\ Outcome(todo', fin, end)
                       /\ ~reused' => PagesOK(end)'
                       /\ \A e \in DataEntry : end[<<"entry", e>>] = fin[<<"entry", e>>]
  <2>1. PICK end : end = Done(r, fin)
    OBVIOUS
  <2>2. Outcome(todo', fin, end)
    BY <1>7, <1>8, <1>9, <2>1, OutcomeOne DEF Served
  <2>3. Writes(r) = {"page"} \X Erased(r)
    BY <1>8 DEF Writes
  <2>4. \A y \in Location : y \notin Writes(r) => end[y] = fin[y]
    BY <2>1 DEF Done
  <2>5. \A e \in DataEntry : end[<<"entry", e>>] = fin[<<"entry", e>>]
    BY <2>3, <2>4, Places
  <2>6. \A k \in Lsa : logicalSlice[k] # NONE =>
          end[<<"page", logicalSlice[k]>>] = fin[<<"page", logicalSlice[k]>>]
    BY <1>8, <1>13, <2>3, <2>4, Places DEF Erased
  <2>7. PagesOK(end)'
    BY <1>4, <1>13, <1>15, <2>6 DEF PagesOK
  <2> QED
    BY <2>2, <2>5, <2>7
<1> QED
  BY <1>4, <1>6, <1>11, <1>12, <1>14, <1>15, CollectStep DEF Serving

\* Each step of the collection: it searches, copies a page, or erases the victim.
LEMMA CollectGarbageInv ==
  ASSUME DeviceInv, CollectGarbage
  PROVE  DeviceInv'
<1>1. todo = <<>> /\ ~reused /\ FtlOK
  BY AtStage DEF CollectGarbage, DeviceInv
<1>2. CASE FtlFind /\ pc' # "idle" /\ todo' = <<>>
  <2>1. pc \in Serving /\ UNCHANGED <<maps, blocks, request>>
    BY <1>1, <1>2, NotHanded
  <2>2. FtlOK' /\ currentPage' = currentPage
    BY <1>1, <1>2, <2>1, FtlKept DEF FtlNext, blocks
  <2> QED
    BY <1>2, <2>1, <2>2, LooksOnly
<1>3. CASE SkipPage /\ todo' = <<>>
  <2>1. pc \in Serving /\ UNCHANGED <<maps, blocks, request>>
    BY <1>3 DEF SkipPage, Collecting, Serving
  <2>2. FtlOK' /\ currentPage' = currentPage
    BY <1>1, <1>3, <2>1, FtlKept DEF FtlNext, FtlCollect, blocks
  <2> QED
    BY <1>3, <2>1, <2>2, LooksOnly
<1>4. ASSUME NEW b \in free[Target], TakeBlockForGc(b), todo' = <<>>
      PROVE  DeviceInv'
  <2>1. pc \in Serving /\ UNCHANGED <<maps, currentPage, request>>
    BY <1>4 DEF TakeBlockForGc, CopyNeedsBlock, Serving
  <2>2. FtlOK'
    BY <1>1, <1>4, FtlKept DEF FtlNext, FtlCollect
  <2> QED
    BY <1>4, <2>1, <2>2, LooksOnly
<1>5. CASE CopyPage /\ todo' = CopyRequests(OldVsa, logicalSlice'[OldLsa])
  BY <1>5, CopyVictimInv
<1>6. CASE EraseBlock /\ todo' = <<EraseReq(Target, victimBlockNo)>>
  BY <1>6, EraseVictimInv
<1> QED
  BY <1>2, <1>3, <1>4, <1>5, <1>6 DEF CollectGarbage, CopyAndErase

-----------------------------------------------------------------------------
(***************************************************************************)
(* The device begins with nothing, and every step keeps the invariant.     *)
(***************************************************************************)
\* The list that a finite set is put in has each of its elements once.
LEMMA ListOfSet ==
  ASSUME NEW S, IsFiniteSet(S)
  PROVE  SetToSeq(S) \in Seq(S) /\ Layer!Distinct(SetToSeq(S)) /\ ToSet(SetToSeq(S)) = S
<1>1. PICK n \in Nat : n = Cardinality(S)
  BY FS_CardinalityType
<1>2. PICK g : g \in Bijection(1..n, S)
  BY <1>1, FS_CardinalityType DEF ExistsBijection
<1>3. g \in [1..n -> S] /\ IsInjective(g)
  BY <1>2 DEF Bijection, Injection, IsInjective
<1>4. PICK f : f = SetToSeq(S)
  OBVIOUS
<1>5. f \in [1..n -> S] /\ IsInjective(f)
  BY <1>1, <1>3, <1>4 DEF SetToSeq
<1>6. f \in Injection(1..n, S)
  BY <1>5 DEF Injection, IsInjective
<1>7. Cardinality(1..n) = n
  BY FS_Interval
<1>8. f \in Surjection(1..n, S)
  BY <1>1, <1>6, <1>7, FS_Injection
<1>9. f \in Seq(S) /\ DOMAIN f = 1..n
  BY <1>5, SeqDef
<1>10. Layer!Distinct(f)
  BY <1>5, <1>9 DEF Layer!Distinct, IsInjective
<1>11. ToSet(f) = S
  BY <1>5, <1>8, <1>9 DEF ToSet, Surjection
<1> QED
  BY <1>4, <1>9, <1>10, <1>11

\* The device starts with empty tables, an empty buffer and no slice mapped.
LEMMA DeviceInitInv == DeviceInit => DeviceInv
<1> SUFFICES ASSUME DeviceInit PROVE DeviceInv
  OBVIOUS
<1>1. /\ FtlInit /\ q = EmptyTables /\ accepted = <<>> /\ lru = SetToSeq(DataEntry)
      /\ bufLsa = [e \in DataEntry |-> NONE] /\ dirty = [e \in DataEntry |-> FALSE]
      /\ cmd = NONE /\ todo = <<>> /\ commands = 0
      /\ buffer = [e \in Entry |-> Nothing] /\ page = [v \in Vsa |-> Nothing]
      /\ latest = [l \in Lsa |-> Nothing] /\ lost = FALSE
  BY DEF DeviceInit, SchedulerInit
<1>2. /\ logicalSlice = [l \in Lsa |-> NONE] /\ pc = "idle" /\ ~reused
      /\ currentBlock = [d \in Die |-> FirstBlock(d)]
      /\ currentPage = [d \in Die |-> [b \in Block |-> 0]]
      /\ free = [d \in Die |-> GoodBlocks(d) \ {FirstBlock(d)}]
  BY <1>1 DEF FtlInit
<1>3. 0 \in 0..SLICES_PER_BLOCK /\ 0 \in 0..MaxCommands /\ Nothing \in SliceData
  BY FtlAssumption, DeviceAssumption DEF Nothing, SliceData, Part
<1>4. Layer!ClientInv
  <2>1. EmptyTables = Layer!EmptyTables
    BY SameListOperators DEF EmptyTables, Layer!EmptyTables
  <2>2. \A code, d, b : ~Pending(code, d, b)
    BY <1>1 DEF Pending
  <2>3. Written = [d \in Die |-> [b \in Block |-> 0]]
    BY <1>2, <2>2 DEF Written
  <2>4. Layer!ClientInit
    BY <1>1, <2>1, <2>3 DEF Layer!ClientInit, Layer!SchedulerInit
  <2> QED
    BY <2>4, LayerAssumption, Layer!ClientInitSound
<1>5. FtlOK
  <2>1. FtlInv /\ Room
    BY <1>1, FtlInitInv, RoomInit
  <2>2. ASSUME NEW d \in Die
        PROVE  FirstBlock(d) \in GoodBlocks(d)
    <3>1. GoodBlocks(d) \in SUBSET Nat
      BY FtlAssumption DEF GoodBlocks, Block
    <3>2. GoodBlocks(d) # {}
      BY FtlAssumption DEF GoodBlocks, Block, Die
    <3>3. \E b \in GoodBlocks(d) : \A c \in GoodBlocks(d) : b <= c
      BY <3>1, <3>2, LayerAssumption, Layer!Least
    <3> QED
      BY <3>3 DEF FirstBlock
  <2>3. GoodOnly
    BY <1>2, <2>2 DEF GoodOnly
  <2>4. VictimFull
    BY <1>2 DEF VictimFull
  <2> QED
    BY <1>2, <1>3, <2>1, <2>3, <2>4 DEF FtlOK
<1>6. BufOK
  <2>1. lru \in Seq(DataEntry) /\ Layer!Distinct(lru) /\ ToSet(lru) = DataEntry
    BY <1>1, DeviceAssumption, ListOfSet
  <2> QED
    BY <1>1, <2>1 DEF BufOK
<1>7. CmdOK /\ TodoOK /\ DataOK
  BY <1>1, <1>2, <1>3 DEF CmdOK, Stage, TodoOK, DataOK
<1>8. StoredOK
  BY <1>1, <1>2 DEF StoredOK, Stored, Content
<1>9. ContentsOK
  <2>1. Ahead = <<>>
    <3>1. DOMAIN accepted = {}
      BY <1>1, EmptySeq, LenProperties
    <3>2. Outstandings(q, accepted) = <<>>
      BY <3>1 DEF Outstandings
    <3> QED
      BY <1>1, <3>2, EmptySeq, ConcatEmptySeq DEF Ahead
  <2>2. Outcome(Ahead, Memory, Memory)
    BY <2>1, OutcomeNone
  <2>3. PagesOK(Memory) /\ EntriesOK(Memory)
    BY <1>1, <1>2 DEF PagesOK, EntriesOK
  <2> QED
    BY <2>2, <2>3 DEF ContentsOK
<1> QED
  BY <1>4, <1>5, <1>6, <1>7, <1>8, <1>9 DEF DeviceInv

\* A step changes the list of requests as a client of the layer may, or not at
\* all.
ListStep == Layer!StepOfList(q, q', accepted, accepted') \/ UNCHANGED <<q, accepted>>

\* Every step of the device keeps the invariant, and is a step of the list or leaves the list alone.
LEMMA DeviceStep ==
  ASSUME DeviceInv, [DeviceNext]_deviceVars, [SubmitNext => KeepsApart(Head(todo))]_deviceVars
  PROVE  DeviceInv' /\ ListStep
<1>1. ASSUME NEW code \in Codes, NEW l \in Lsa, BeginCommand(code, l)
      PROVE  DeviceInv' /\ ListStep
  BY <1>1, BeginCommandInv DEF BeginCommand, ListStep
<1>2. CASE FlushAllDataBuf
  BY <1>2, FlushAllDataBufInv DEF FlushAllDataBuf, ListStep
<1>3. CASE EvictDataBufEntry
  BY <1>3, EvictDataBufEntryInv DEF EvictDataBufEntry, ListStep
<1>4. CASE CollectGarbage
  BY <1>4, CollectGarbageInv DEF CollectGarbage, ListStep
<1>5. CASE WriteBack
  BY <1>5, WriteBackInv DEF WriteBack, ListStep
<1>6. CASE Load
  BY <1>6, LoadInv DEF Load, ListStep
<1>7. CASE Transfer
  BY <1>7, TransferInv DEF Transfer, ListStep
<1>8. CASE SubmitNext /\ KeepsApart(Head(todo))
  BY <1>8, SubmitNextInv, Listing DEF ListStep
<1>9. CASE RequestLayer
  BY <1>9, RequestLayerInv DEF ListStep
<1>10. CASE UNCHANGED deviceVars
  <2>1. /\ UNCHANGED Rest /\ UNCHANGED <<q, accepted, todo>> /\ UNCHANGED contents
        /\ reused' = reused
    BY <1>10 DEF deviceVars, Rest, command, contents, ftlVars
  <2>2. FtlOK' /\ BufOK' /\ CmdOK' /\ StoredOK'
    BY <2>1, RestStays DEF DeviceInv
  <2>3. Written' = Written
    BY <2>1, RestStays, WrittenStays
  <2>4. Layer!ClientInv'
    BY <2>1, <2>3 DEF DeviceInv, Layer!ClientInv
  <2>5. TodoOK'
    BY <2>1, RestStays DEF DeviceInv, TodoOK, ForCopy
  <2>6. DataOK'
    BY <2>1 DEF DeviceInv, DataOK, Rest, contents
  <2>7. ContentsOK'
    <3>1. Ahead' = Ahead
      BY <2>1 DEF Ahead
    <3>2. Memory' = Memory /\ lost' = lost
      BY <2>1 DEF Memory, contents
    <3> QED
      BY <2>1, <3>1, <3>2, RestStays DEF DeviceInv, ContentsOK
  <2> QED
    BY <2>1, <2>2, <2>4, <2>5, <2>6, <2>7 DEF DeviceInv, ListStep
<1> QED
  BY <1>1, <1>2, <1>3, <1>4, <1>5, <1>6, <1>7, <1>8, <1>9, <1>10 DEF DeviceNext, FrontEnd

-----------------------------------------------------------------------------
(***************************************************************************)
(* What the invariant says of the data.                                    *)
(***************************************************************************)
\* The requests that were submitted are the first ones that are ahead.
LEMMA AheadBegins ==
  ASSUME DeviceInv, NEW t, NEW acc, NEW a, t = q, acc = accepted, a = Outstandings(t, acc)
  PROVE  \E n \in Nat :
           /\ n = Len(acc) /\ acc \in Seq(Slot) /\ DOMAIN acc = 1..n
           /\ Len(Ahead) \in Nat /\ n <= Len(Ahead)
           /\ todo = <<>> => Len(Ahead) = n
           /\ \A i \in 1..n :
                /\ Ahead[i] = a[i] /\ a[i] = AsSubmitted(t.pool[acc[i]])
                /\ a[i] \in NewRequest /\ acc[i] \in ToSet(acc) /\ t.pool[acc[i]] \in AnyRequest
<1>1. Layer!Sound(t, acc, Written)
  BY DEF DeviceInv, Layer!ClientInv
<1>2. PICK n \in Nat : n = Len(acc)
  BY <1>1, OutstandingFacts
<1>3. /\ a \in Seq(NewRequest) /\ Len(a) = n /\ acc \in Seq(Slot)
      /\ \A s \in ToSet(acc) : t.pool[s] \in AnyRequest
  BY <1>1, <1>2, OutstandingFacts
<1>4. DOMAIN acc = 1..n /\ DOMAIN a = 1..n
  BY <1>2, <1>3, LenProperties
<1>5. \A i \in 1..n : a[i] = AsSubmitted(t.pool[acc[i]]) /\ a[i] \in NewRequest
  BY <1>3, <1>4, ElementOfSeq DEF Outstandings
<1>6. todo \in Seq(NewRequest)
  BY TodoTyped DEF DeviceInv
<1>7. PICK m \in Nat : m = Len(todo)
  BY <1>6, LenProperties
<1>8. PICK list, next : list = Ahead /\ next = todo
  OBVIOUS
<1>9. /\ Len(list) = Len(a) + Len(next)
      /\ \A i \in 1..Len(a)+Len(next) : list[i] = IF i <= Len(a) THEN a[i] ELSE next[i-Len(a)]
  <2>1. list = a \o next
    BY <1>8 DEF Ahead
  <2>2. a \in Seq(NewRequest) /\ next \in Seq(NewRequest)
    BY <1>3, <1>6, <1>8
  <2> QED
    BY <2>1, <2>2, ConcatProperties
<1>10. Len(Ahead) = n + m /\ \A i \in 1..n : Ahead[i] = a[i]
  BY <1>3, <1>7, <1>8, <1>9
<1>11. todo = <<>> => m = 0
  BY <1>7
<1>12. \A i \in 1..n : acc[i] \in ToSet(acc) /\ t.pool[acc[i]] \in AnyRequest
  BY <1>3, <1>4 DEF ToSet
<1> QED
  BY <1>2, <1>3, <1>4, <1>5, <1>10, <1>11, <1>12

\* A transfer to the host that the DMA has takes what it is to take.
LEMMA TransfersServed ==
  ASSUME DeviceInv, ~lost, NEW s \in ToSet(q.nvmeDma), q.pool[s].code = "TxDMA"
  PROVE  Agrees(buffer[q.pool[s].entry], q.pool[s].data)
<1>1. PICK t, acc, a : t = q /\ acc = accepted /\ a = Outstandings(t, acc)
  OBVIOUS
<1>2. Layer!Sound(t, acc, Written)
  BY <1>1 DEF DeviceInv, Layer!ClientInv
<1>3. s \in ToSet(acc) /\ Layer!StartedIn(t, s)
  BY <1>1, <1>2, SameListOperators
  DEF Layer!Sound, Layer!RowInv, Layer!Placed, Layer!StartedIn
<1>4. PICK n \in Nat :
        /\ n = Len(acc) /\ acc \in Seq(Slot) /\ DOMAIN acc = 1..n
        /\ Len(Ahead) \in Nat /\ n <= Len(Ahead)
        /\ \A i \in 1..n :
             /\ Ahead[i] = a[i] /\ a[i] = AsSubmitted(t.pool[acc[i]])
             /\ a[i] \in NewRequest /\ t.pool[acc[i]] \in AnyRequest
  BY <1>1, AheadBegins
<1>5. PICK k \in 1..n : acc[k] = s
  BY <1>3, <1>4 DEF ToSet
<1>6. PICK r : r = t.pool[s]
  OBVIOUS
<1>7. r.code = "TxDMA" /\ r \in AnyRequest /\ a[k] = r
  BY <1>1, <1>4, <1>5, <1>6, SubmittedKind
<1>8. r.entry \in Entry /\ From(r) = <<"entry", r.entry>> /\ From(r) \in Location
  <2>1. r.entry \in Entry
    BY <1>7, RequestKinds DEF AnyRequest, Entry
  <2> QED
    BY <1>7, <2>1, Places DEF From, IsRead
<1>9. \A i \in 1..k-1 : From(r) \notin Writes(a[i])
  <2> SUFFICES ASSUME NEW i \in 1..k-1 PROVE From(r) \notin Writes(a[i])
    OBVIOUS
  <2>1. k \in 1..Len(acc) /\ i \in 1..n /\ Layer!StartedIn(t, acc[k])
    BY <1>3, <1>4, <1>5
  <2>2. ~Layer!Ordered!Conflict(Layer!AsSubmitted(t.pool[acc[i]]),
                                Layer!AsSubmitted(t.pool[acc[k]]))
    BY <1>2, <2>1, LayerAssumption, Layer!StartsInOrder
  <2>3. a[i] = Layer!AsSubmitted(t.pool[acc[i]]) /\ a[k] = Layer!AsSubmitted(t.pool[acc[k]])
    BY <1>4, <2>1, SameListOperators
  <2>4. Independent(a[i], a[k])
    BY <1>4, <2>1, <2>2, <2>3, ApartRequests
  <2> QED
    BY <1>7, <2>4 DEF Independent, Reads
<1>10. PICK fin : Outcome(Ahead, Memory, fin)
  BY DEF DeviceInv, ContentsOK
<1>11. Agrees(Memory[From(r)], r.data)
  <2>1. k \in 1..Len(Ahead) /\ Ahead[k] = r /\ \A i \in 1..k-1 : Ahead[i] = a[i]
    BY <1>4, <1>5, <1>7
  <2> QED
    BY <1>4, <1>7, <1>8, <1>9, <1>10, <2>1, OutcomeServes
<1> QED
  BY <1>1, <1>6, <1>8, <1>11 DEF Memory

\* An entry that no request is for holds what the host wrote last.
LEMMA EntriesLatest ==
  ASSUME DeviceInv, ~lost, Between, NEW e \in DataEntry, q.tail[e] = NONE, bufLsa[e] # NONE
  PROVE  Agrees(buffer[e], latest[bufLsa[e]])
<1>1. PICK t, acc, a : t = q /\ acc = accepted /\ a = Outstandings(t, acc)
  OBVIOUS
<1>2. Layer!Sound(t, acc, Written)
  BY <1>1 DEF DeviceInv, Layer!ClientInv
<1>3. PICK n \in Nat :
        /\ Len(Ahead) = n
        /\ \A i \in 1..n :
             /\ Ahead[i] = a[i] /\ a[i] = AsSubmitted(t.pool[acc[i]])
             /\ acc[i] \in ToSet(acc) /\ t.pool[acc[i]] \in AnyRequest
  BY <1>1, AheadBegins DEF Between
<1>4. e \in Entry /\ <<"entry", e>> \in Location
  BY Places
<1>5. \A s \in ToSet(acc) : t.pool[s].entry # e
  BY <1>1, <1>2, <1>4, SameListOperators DEF Layer!Sound, Layer!Chains
<1>6. \A i \in 1..n : <<"entry", e>> \notin Writes(Ahead[i])
  <2> SUFFICES ASSUME NEW i \in 1..n PROVE <<"entry", e>> \notin Writes(a[i])
    BY <1>3
  <2>1. a[i].entry # e
    BY <1>3, <1>5, SubmittedKind
  <2> QED
    BY <2>1 DEF Writes
<1>7. ~reused /\ ~Overwritten(e)
  BY DEF Between, DeviceInv, CmdOK, Stage, Overwritten
<1>8. PICK fin : Outcome(Ahead, Memory, fin) /\ EntriesOK(fin)
  BY <1>7 DEF DeviceInv, ContentsOK
<1>9. fin[<<"entry", e>>] = Memory[<<"entry", e>>]
  BY <1>3, <1>4, <1>6, <1>8, OutcomeKeeps
<1>10. Memory[<<"entry", e>>] = buffer[e]
  BY <1>4 DEF Memory
<1> QED
  BY <1>7, <1>8, <1>9, <1>10 DEF EntriesOK

\* A transfer to the host therefore sends what the host wrote last.
LEMMA LatestRead == DeviceInv => ReadsLatest
BY TransfersServed, EntriesLatest DEF ReadsLatest

\* Once nothing is ahead, the flash is as the translation layer says.
LEMMA NothingAhead == DeviceInv => FlashAsMapped
<1> SUFFICES ASSUME DeviceInv, AllDone, ~lost, NEW l \in Lsa, logicalSlice[l] # NONE
             PROVE  Agrees(page[logicalSlice[l]], flash[logicalSlice[l]])
  BY DEF FlashAsMapped
<1>1. PICK t, acc, a : t = q /\ acc = accepted /\ a = Outstandings(t, acc)
  OBVIOUS
<1>2. Layer!Sound(t, acc, Written)
  BY <1>1 DEF DeviceInv, Layer!ClientInv
<1>3. ToSet(acc) = {}
  <2>1. \A s \in ToSet(acc) : s \in Slot /\ t.pool[s] # NONE
    BY <1>2, OutstandingFacts, RequestKinds
  <2> QED
    BY <1>1, <2>1 DEF AllDone, Outstanding
<1>4. acc = <<>>
  <2>1. acc \in Seq(Slot) /\ DOMAIN acc = 1..Len(acc) /\ Len(acc) \in Nat
    BY <1>2, OutstandingFacts, LenProperties
  <2>2. Len(acc) = 0
    <3>1. 1 \notin DOMAIN acc
      BY <1>3 DEF ToSet
    <3> QED
      BY <2>1, <3>1
  <2> QED
    BY <2>1, <2>2, EmptySeq
<1>5. Ahead = <<>>
  <2>1. DOMAIN acc = {}
    BY <1>4, EmptySeq, LenProperties
  <2>2. a = <<>>
    BY <1>1, <2>1 DEF Outstandings
  <2> QED
    BY <1>1, <2>2, EmptySeq, ConcatEmptySeq DEF Ahead, AllDone, Between
<1>6. ~reused
  BY DEF AllDone, Between, DeviceInv, CmdOK, Stage
<1>7. PICK fin : Outcome(<<>>, Memory, fin) /\ PagesOK(fin)
  BY <1>5, <1>6 DEF DeviceInv, ContentsOK
<1>8. fin = Memory
  BY <1>7, OutcomeNone
<1>9. logicalSlice[l] \in Vsa
  BY <1>6 DEF DeviceInv, FtlOK, FtlInv, FtlTypeOK
<1>10. Memory[<<"page", logicalSlice[l]>>] = page[logicalSlice[l]]
  BY <1>9, Places DEF Memory
<1> QED
  BY <1>7, <1>8, <1>10 DEF PagesOK

\* The promise of the request layer to the device is the one to its client.
LEMMA SamePromise ==
  ASSUME NEW old, NEW now
  PROVE  /\ Layer!Ordered!Accept(old, now) => Ordered!Accept(old, now)
         /\ Layer!Ordered!Finish(old, now) => Ordered!Finish(old, now)
         /\ Layer!Ordered!SomeStart(old, now) => Ordered!SomeStart(old, now)
<1>1. \A list, i : Layer!Ordered!MayStart(list, i) <=> Ordered!MayStart(list, i)
  BY DEF Layer!Ordered!MayStart, Ordered!MayStart, Layer!Ordered!Conflict, Ordered!Conflict,
         Layer!Ordered!IsDmaRequest, Ordered!IsDmaRequest
<1>2. \A list, new : Layer!Ordered!SomeStart(list, new) <=> Ordered!SomeStart(list, new)
  BY <1>1 DEF Layer!Ordered!SomeStart, Ordered!SomeStart
<1>3. Layer!Ordered!Accept(old, now) => Ordered!Accept(old, now)
  BY <1>2 DEF Layer!Ordered!Accept, Ordered!Accept, Layer!Ordered!Last, Ordered!Last
<1>4. Layer!Ordered!Finish(old, now) => Ordered!Finish(old, now)
  BY <1>2 DEF Layer!Ordered!Finish, Ordered!Finish, Layer!Ordered!RemoveAt, Ordered!RemoveAt
<1> QED
  BY <1>2, <1>3, <1>4

\* A step of the device is a step of the ordered list of requests.
LEMMA ListImplemented ==
  ASSUME DeviceInv, DeviceInv', ListStep
  PROVE  [Ordered!OrderedNext]_Requests
<1>1. Requests = Layer!RequestsOf(q, accepted) /\ Requests' = Layer!RequestsOf(q', accepted')
  BY SameListOperators
  DEF Requests, UnderWay, HeadReq, Layer!RequestsOf, Layer!StartedIn
<1>2. PICK old, now : old = Requests /\ now = Requests'
  OBVIOUS
<1>3. CASE UNCHANGED <<q, accepted>>
  BY <1>1, <1>3
<1>4. CASE Layer!StepOfList(q, q', accepted, accepted')
  <2>1. Layer!Sound(q, accepted, Written) /\ Layer!Sound(q', accepted', Written')
    BY DEF DeviceInv, Layer!ClientInv
  <2>2. PICK t, u, acc, new, w, x :
          /\ t = q /\ u = q' /\ acc = accepted /\ new = accepted'
          /\ w = Written /\ x = Written'
    OBVIOUS
  <2>3. /\ Layer!Sound(t, acc, w) /\ Layer!Sound(u, new, x) /\ Layer!StepOfList(t, u, acc, new)
        /\ old = Layer!RequestsOf(t, acc) /\ now = Layer!RequestsOf(u, new)
    BY <1>1, <1>2, <1>4, <2>1, <2>2
  <2>4. Ordered!Accept(old, now) \/ Ordered!Finish(old, now) \/ Ordered!SomeStart(old, now)
    <3>1. CASE Layer!TakesOne(t, u, acc, new)
      BY <2>3, <3>1, LayerAssumption, Layer!TakingAccepts, SamePromise
    <3>2. CASE Layer!EndsOne(t, u, acc, new)
      BY <2>3, <3>2, LayerAssumption, Layer!EndingFinishes, SamePromise
    <3>3. CASE Layer!GoesOnWithAll(t, u, acc, new)
      BY <2>3, <3>3, LayerAssumption, Layer!GoingOnStarts, SamePromise
    <3> QED
      BY <2>3, <3>1, <3>2, <3>3 DEF Layer!StepOfList
  <2> QED
    BY <1>2, <2>4 DEF Ordered!OrderedNext
<1> QED
  BY <1>3, <1>4 DEF ListStep

(***************************************************************************)
(* The theorems.  Their premise is that of RequestClient: while an erase   *)
(* of a block is held up, no page of the block is written again before the *)
(* block is full, and it is not erased again.  Nothing in the code sees to *)
(* it but the time that it takes to come back to the block.                *)
(***************************************************************************)
GenerationsApart == [][SubmitNext => KeepsApart(Head(todo))]_deviceVars

\* The invariant holds throughout, as long as generations of a block are kept apart.
LEMMA DeviceInvariant == DeviceSpec /\ GenerationsApart => []DeviceInv
<1>1. DeviceInit => DeviceInv
  BY DeviceInitInv
<1>2. DeviceInv /\ [DeviceNext]_deviceVars /\ [SubmitNext => KeepsApart(Head(todo))]_deviceVars
        => DeviceInv'
  <2> SUFFICES ASSUME DeviceInv, [DeviceNext]_deviceVars,
                      [SubmitNext => KeepsApart(Head(todo))]_deviceVars
               PROVE  DeviceInv'
    OBVIOUS
  <2> QED
    BY DeviceStep
<1> QED
  BY <1>1, <1>2, PTL DEF DeviceSpec, GenerationsApart

(***************************************************************************)
(* What the host reads is what it wrote last, for every geometry of the    *)
(* flash, every number of entries, slots, retries and commands: through    *)
(* AllocateDataBuf, EvictDataBufEntry, AddrTransWrite, GarbageCollection   *)
(* and the dependencies of the request layer.                              *)
(***************************************************************************)
THEOREM HostReadsLatest == DeviceSpec /\ GenerationsApart => []ReadsLatest
BY DeviceInvariant, LatestRead, PTL

(***************************************************************************)
(* When nothing is outstanding, the pages that slices are mapped to hold   *)
(* what AddrTransWrite and GarbageCollection say they hold, though the     *)
(* programs, reads and erases were carried out later and in another order. *)
(***************************************************************************)
THEOREM FlashHoldsMapped == DeviceSpec /\ GenerationsApart => []FlashAsMapped
BY DeviceInvariant, NothingAhead, PTL

(***************************************************************************)
(* The requests of the commands, flushes and collections start and end as  *)
(* OrderedRequests says: the device is a client that the promise of        *)
(* request_schedule.c holds for.                                           *)
(***************************************************************************)
THEOREM DeviceRequestsOrdered == DeviceSpec /\ GenerationsApart => ImplementsOrdered
<1>1. DeviceInit => Ordered!OrderedInit
  <2> SUFFICES ASSUME DeviceInit PROVE Requests = <<>>
    BY DEF Ordered!OrderedInit
  <2>1. DOMAIN accepted = {}
    BY EmptySeq, LenProperties DEF DeviceInit, SchedulerInit
  <2> QED
    BY <2>1 DEF Requests
<1>2. DeviceInv /\ DeviceInv' /\ [DeviceNext]_deviceVars
        /\ [SubmitNext => KeepsApart(Head(todo))]_deviceVars
        => [Ordered!OrderedNext]_Requests
  <2> SUFFICES ASSUME DeviceInv, DeviceInv', [DeviceNext]_deviceVars,
                      [SubmitNext => KeepsApart(Head(todo))]_deviceVars
               PROVE  [Ordered!OrderedNext]_Requests
    OBVIOUS
  <2> QED
    BY DeviceStep, ListImplemented
<1> QED
  BY <1>1, <1>2, DeviceInvariant, PTL
  DEF DeviceSpec, GenerationsApart, ImplementsOrdered, Ordered!OrderedSpec
=============================================================================
