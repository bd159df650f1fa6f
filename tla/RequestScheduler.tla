-------------------------- MODULE RequestScheduler --------------------------
(***************************************************************************)
(* The request layer: request_allocation.c, request_transform.c from       *)
(* CheckBufDep on, and request_schedule.c.  A request takes a slot of a    *)
(* fixed pool and waits until the requests before it that use the same     *)
(* buffer entry are done (buffer dependency), then until the row of flash  *)
(* is ready for it (row dependency); then the host DMA or the die carries  *)
(* it out.                                                                 *)
(*                                                                         *)
(* A release runs through several tables in one go, so they are the fields *)
(* of one variable here, and an operator stands for each function that     *)
(* changes them.  Slots are interchangeable; the free list is a set.       *)
(***************************************************************************)
EXTENDS Integers, FiniteSets, SequencesExt

CONSTANTS
  Die, Block,
  Entry,          \* entries of the data buffer and of the temporary one
  SLOTS,          \* AVAILABLE_OUNTSTANDING_REQ_COUNT
  RETRY_LIMIT,
  NONE

VARIABLES
  q,              \* request pool, queues, row dependency table, die states
  accepted        \* history: outstanding slots, in order of submission

schedulerVars == <<q, accepted>>

Slot == 1..SLOTS

EmptyTables ==
  [pool      |-> [s \in Slot |-> NONE],
   prev      |-> [s \in Slot |-> NONE],     \* prevBlockingReq
   next      |-> [s \in Slot |-> NONE],     \* nextBlockingReq
   tail      |-> [e \in Entry |-> NONE],    \* blockingReqTail
   blockedByBuf |-> {},
   blockedByRow |-> [d \in Die |-> <<>>],
   nvmeDma   |-> <<>>,
   nand      |-> [d \in Die |-> <<>>],
   permittedProgPage   |-> [d \in Die |-> [b \in Block |-> 0]],
   blockedReadReqCnt   |-> [d \in Die |-> [b \in Block |-> 0]],
   blockedEraseReqFlag |-> [d \in Die |-> [b \in Block |-> FALSE]],
   way       |-> [d \in Die |-> "idle"],
   retryLimit |-> [d \in Die |-> RETRY_LIMIT]]

SchedulerInit == q = EmptyTables /\ accepted = <<>>

FreeSlots(t) == {s \in Slot : t.pool[s] = NONE}
Without(list, s) == RemoveAt(list, CHOOSE i \in DOMAIN list : list[i] = s)
IsDma(r) == r.code \in {"RxDMA", "TxDMA"}
IsRead(r) == r.code \in {"READ", "READ_TRANSFER"}

-----------------------------------------------------------------------------
(***************************************************************************)
(* Row dependencies.  Pages of a block are programmed in order, a page is  *)
(* read once it was let through for programming, and a block is erased     *)
(* when all its pages were and no read of it is held up.                   *)
(***************************************************************************)
PutToNandReqQ(t, s) == [t EXCEPT !.nand[t.pool[s].die] = Append(@, s)]
PutToBlockedByRow(t, s) == [t EXCEPT !.blockedByRow[t.pool[s].die] = Append(@, s)]

PermittedUnderReads(t, r) ==
  LET next == t.permittedProgPage[r.die][r.block]
  IN  \/ r.code = "READ" /\ r.page < next
      \/ r.code = "WRITE" /\ r.page = next
      \/ r.code = "ERASE" /\ r.programmedPageCnt = next

Permitted(t, r) ==
  LET next == t.permittedProgPage[r.die][r.block]
  IN  \/ r.code = "READ" /\ r.page < next
      \/ r.code = "WRITE" /\ r.page = next
      \/ /\ r.code = "ERASE" /\ r.programmedPageCnt = next
         /\ t.blockedReadReqCnt[r.die][r.block] = 0

\* What a request that is let through changes in the table.
LetThrough(t, r) ==
  CASE r.code = "WRITE" -> [t EXCEPT !.permittedProgPage[r.die][r.block] = @ + 1]
    [] r.code = "ERASE" -> [t EXCEPT !.permittedProgPage[r.die][r.block] = 0,
                                     !.blockedEraseReqFlag[r.die][r.block] = FALSE]
    [] OTHER            -> t

\* A held-up read is counted, a held-up erase flagged, for either dependency.
HoldUp(t, r) ==
  CASE r.code = "READ"  -> [t EXCEPT !.blockedReadReqCnt[r.die][r.block] = @ + 1]
    [] r.code = "ERASE" -> [t EXCEPT !.blockedEraseReqFlag[r.die][r.block] = TRUE]
    [] OTHER            -> t

ReadsStayCounted(t, r) == t
NoLongerHeldUp(t, r) ==
  IF r.code = "READ" THEN [t EXCEPT !.blockedReadReqCnt[r.die][r.block] = @ - 1] ELSE t

\* CheckRowAddrDep with option SELECT, then with option RELEASE.
SelectRow(t, s) ==
  LET r == t.pool[s]
  IN  IF Permitted(t, r) THEN PutToNandReqQ(LetThrough(t, r), s)
                         ELSE PutToBlockedByRow(HoldUp(t, r), s)

ReleaseRow(t, s) ==
  LET r == t.pool[s] IN PutToNandReqQ(NoLongerHeldUp(LetThrough(t, r), r), s)

\* ReleaseBlockedByRowAddrDepReq looks at every request once, in order.
ReleaseIfPermitted(t, s) ==
  LET d == t.pool[s].die
  IN  IF Permitted(t, t.pool[s])
      THEN ReleaseRow([t EXCEPT !.blockedByRow[d] = Without(@, s)], s)
      ELSE t

ReleaseBlockedByRow(t, d) ==
  LET list == t.blockedByRow[d]
      Looked[n \in 0..Len(list)] ==
        IF n = 0 THEN t ELSE ReleaseIfPermitted(Looked[n-1], list[n])
  IN  Looked[Len(list)]

\* Only a die with nothing to do looks for requests that were held up.
RefillNandReqQ(t, d) == IF t.nand[d] = <<>> THEN ReleaseBlockedByRow(t, d) ELSE t

-----------------------------------------------------------------------------
(***************************************************************************)
(* Buffer dependencies: the requests on an entry form a chain.             *)
(***************************************************************************)
UpdateBlockingReq(t, e, s) ==
  LET last == t.tail[e]
  IN  IF last = NONE THEN [t EXCEPT !.tail[e] = s]
      ELSE [t EXCEPT !.tail[e] = s, !.prev[s] = last, !.next[last] = s]

ChainDmaOnly(t, r, s) == IF IsDma(r) THEN UpdateBlockingReq(t, r.entry, s) ELSE t
Chain(t, r, s) == IF r.entry = NONE THEN t ELSE UpdateBlockingReq(t, r.entry, s)

IssueNvmeDma(t, s) == [t EXCEPT !.nvmeDma = Append(@, s)]

SelectLowLevelReqQ(t, s) ==
  LET r == t.pool[s]
  IN  IF t.prev[s] # NONE
      THEN [HoldUp(t, r) EXCEPT !.blockedByBuf = @ \cup {s}]
      ELSE IF IsDma(r) THEN IssueNvmeDma(t, s) ELSE SelectRow(t, s)

\* The request after s on its entry goes on.
GoOn(t, s) ==
  LET n == [t EXCEPT !.blockedByBuf = @ \ {s}]
  IN  IF IsDma(t.pool[s]) THEN IssueNvmeDma(n, s)
      ELSE IF Permitted(t, t.pool[s]) THEN ReleaseRow(n, s) ELSE PutToBlockedByRow(n, s)

TailWithout(tail, e, s) ==
  IF e # NONE /\ tail[e] = s THEN [tail EXCEPT ![e] = NONE] ELSE tail

Unlink(t, s) ==
  IF t.next[s] = NONE THEN t ELSE [t EXCEPT !.prev[t.next[s]] = NONE, !.next[s] = NONE]

Free(t, s) ==
  [Unlink(t, s) EXCEPT !.pool[s] = NONE, !.tail = TailWithout(@, t.pool[s].entry, s)]

\* Slot s goes back to the free queue; ReleaseBlockedByBufDepReq.
FreeAndRelease(t, s) ==
  IF t.next[s] \in t.blockedByBuf THEN GoOn(Free(t, s), t.next[s]) ELSE Free(t, s)

-----------------------------------------------------------------------------
(***************************************************************************)
(* Submission.  Without a free slot, and for a read of a block whose erase *)
(* is held up, the firmware waits and runs the scheduler meanwhile.        *)
(***************************************************************************)
WaitsForErase(r) == r.code = "READ" /\ q.blockedEraseReqFlag[r.die][r.block]

Submit(r) ==
  /\ FreeSlots(q) # {} /\ ~WaitsForErase(r)
  /\ LET s == CHOOSE x \in FreeSlots(q) : \A y \in FreeSlots(q) : x <= y
     IN  /\ q' = SelectLowLevelReqQ(Chain([q EXCEPT !.pool[s] = r], r, s), s)
         /\ accepted' = Append(accepted, s)

Finish(s) == accepted' = Without(accepted, s)

\* CheckDoneNvmeDmaReq.  The hardware ends the transfers of one direction in
\* order, and a pass frees those that have ended from the newest to the
\* oldest; any order is allowed here.
DmaDone(s) ==
  /\ \E i \in DOMAIN q.nvmeDma : q.nvmeDma[i] = s
  /\ q' = FreeAndRelease([q EXCEPT !.nvmeDma = Without(@, s)], s)
  /\ Finish(s)

-----------------------------------------------------------------------------
(***************************************************************************)
(* The dies.  The list that a die is in is one state here: "queued" to be  *)
(* given its request (trigger, write, erase, transfer), "busy" with it     *)
(* (status check, status report).  A busy die is asked for its status      *)
(* again and again, or its completion flag is read; the answer comes when  *)
(* it comes.                                                               *)
(***************************************************************************)
HeadReq(d) == Head(q.nand[d])
HeadCode(d) == q.pool[HeadReq(d)].code

\* PutToNandWayPriorityTable or PutToNandIdleList.
NextTurnWithoutRefill(t, d) ==
  [t EXCEPT !.way[d] = IF t.nand[d] = <<>> THEN "idle" ELSE "queued"]
NextTurn(t, d) ==
  LET n == RefillNandReqQ(t, d)
  IN  [n EXCEPT !.way[d] = IF n.nand[d] = <<>> THEN "idle" ELSE "queued"]

Wake(d) ==
  /\ q.way[d] = "idle"
  /\ q' = NextTurn(q, d) /\ q' # q
  /\ UNCHANGED accepted

IssueNandReq(d) ==
  /\ q.way[d] = "queued"
  /\ q' = [q EXCEPT !.way[d] = "busy"]
  /\ UNCHANGED accepted

Statuses(d) ==
  IF q.way[d] # "busy" THEN {}
  ELSE {"DONE", "FAIL"} \cup IF HeadCode(d) = "READ_TRANSFER" THEN {"WARNING"} ELSE {}

GivesUp(d) == ~IsRead(q.pool[HeadReq(d)]) \/ q.retryLimit[d] = 0
Triggered(d, status) == status = "DONE" /\ HeadCode(d) = "READ"
Retried(d, status) == status = "FAIL" /\ ~GivesUp(d)

\* ExecuteNandReq with the status of the request.  A page that was read is
\* transferred next, a read that failed starts again; anything else that ends,
\* well or not, leaves its slot.
ReadTriggered(d, status) ==
  /\ status \in Statuses(d) /\ Triggered(d, status)
  /\ q' = NextTurn([q EXCEPT !.pool[HeadReq(d)].code = "READ_TRANSFER"], d)
  /\ UNCHANGED accepted

ReadRetried(d, status) ==
  /\ status \in Statuses(d) /\ Retried(d, status)
  /\ q' = NextTurn([q EXCEPT !.pool[HeadReq(d)].code = "READ",
                             !.retryLimit[d] = @ - 1], d)
  /\ UNCHANGED accepted

NandDone(d, status) ==
  /\ status \in Statuses(d) /\ ~Triggered(d, status) /\ ~Retried(d, status)
  /\ q' = NextTurn(FreeAndRelease([q EXCEPT !.nand[d] = Tail(@),
                                            !.retryLimit[d] = RETRY_LIMIT], HeadReq(d)), d)
  /\ Finish(HeadReq(d))

-----------------------------------------------------------------------------
(***************************************************************************)
(* Properties.                                                             *)
(***************************************************************************)
Outstanding == {s \in Slot : q.pool[s] # NONE}

(***************************************************************************)
(* The row dependency table agrees with the queues: a block counts as many *)
(* held-up reads as there are and is flagged while an erase of it is held  *)
(* up.  A count that leaks keeps the block from ever being erased, a lost  *)
(* one lets it be erased under a read.                                     *)
(***************************************************************************)
HeldUp(t) == t.blockedByBuf \cup UNION {ToSet(t.blockedByRow[d]) : d \in Die}
HeldUpOn(code, d, b) ==
  {s \in HeldUp(q) : q.pool[s].code = code /\ q.pool[s].die = d /\ q.pool[s].block = b}

RowTableExact ==
  \A d \in Die, b \in Block :
    /\ q.blockedReadReqCnt[d][b] = Cardinality(HeldUpOn("READ", d, b))
    /\ q.blockedEraseReqFlag[d][b] <=> HeldUpOn("ERASE", d, b) # {}

(***************************************************************************)
(* To its callers the layer is a list of requests that are carried out as  *)
(* if in order: OrderedRequests.  A request is under way once the DMA has  *)
(* it or it is the first one of its die.                                   *)
(***************************************************************************)
UnderWay(s) ==
  \/ s \in ToSet(q.nvmeDma)
  \/ \E d \in Die : q.nand[d] # <<>> /\ HeadReq(d) = s

AsSubmitted(r) == IF r.code = "READ_TRANSFER" THEN [r EXCEPT !.code = "READ"] ELSE r

Requests ==
  [i \in DOMAIN accepted |->
     [request |-> AsSubmitted(q.pool[accepted[i]]), started |-> UnderWay(accepted[i])]]

Ordered == INSTANCE OrderedRequests WITH outstanding <- Requests

ImplementsOrdered == Ordered!OrderedSpec
=============================================================================
