--------------------------- MODULE RequestClient ---------------------------
(***************************************************************************)
(* RequestScheduler under a client that submits, for ever, what the        *)
(* translation layer and the data buffer may submit: the pages of a block  *)
(* are written in order, a page is read after it was written, a block is   *)
(* erased when it is full, with the number of its pages as                 *)
(* programmedPageCnt, and any of these, but the erase, may use any entry   *)
(* of the buffer, between transfers to and from the host.                  *)
(*                                                                         *)
(* The client keeps the generations of a block apart: while an erase of    *)
(* the block is held up by a write of it, no page of it is written again,  *)
(* and it is not erased again.  The row dependency table cannot: a page    *)
(* number does not say which side of the erase it belongs to, so that such *)
(* a write would pass the erase.  Nothing in the code sees to it but the   *)
(* time that it takes to come back to the block.                           *)
(***************************************************************************)
EXTENDS RequestScheduler

CONSTANTS
  Pages,          \* USER_PAGES_PER_BLOCK
  DmaRequest      \* the transfers that are submitted

PageRequest ==
  [code : {"READ", "READ_TRANSFER", "WRITE"}, entry : Entry, die : Die, block : Block,
   page : 0..Pages-1]
EraseRequest ==
  [code : {"ERASE"}, entry : {NONE}, die : Die, block : Block, programmedPageCnt : {Pages}]

ASSUME ClientAssumption ==
  /\ SLOTS \in Nat /\ RETRY_LIMIT \in Nat /\ Pages \in Nat \ {0}
  /\ \A r \in DmaRequest : r.code \in {"RxDMA", "TxDMA"} /\ r.entry \in Entry
  /\ NONE \notin Nat /\ NONE \notin Entry
  /\ NONE \notin DmaRequest \cup PageRequest \cup EraseRequest

VARIABLE written        \* per die and block: pages that were submitted for writing

clientVars == <<q, accepted, written>>

ClientInit == SchedulerInit /\ written = [d \in Die |-> [b \in Block |-> 0]]

Flash(code, e, d, b, p) ==
  [code |-> code, entry |-> e, die |-> d, block |-> b, page |-> p]

WritePage(e, d, b) ==
  /\ written[d][b] < Pages
  /\ q.blockedEraseReqFlag[d][b] => q.permittedProgPage[d][b] = Pages
  /\ Submit(Flash("WRITE", e, d, b, written[d][b]))
  /\ written' = [written EXCEPT ![d][b] = @ + 1]

ReadPage(e, d, b, p) ==
  /\ p < written[d][b]
  /\ Submit(Flash("READ", e, d, b, p))
  /\ UNCHANGED written

Erase(d, b) ==
  /\ written[d][b] = Pages /\ ~q.blockedEraseReqFlag[d][b]
  /\ Submit([code |-> "ERASE", entry |-> NONE, die |-> d, block |-> b,
             programmedPageCnt |-> Pages])
  /\ written' = [written EXCEPT ![d][b] = 0]

Transfer(r) == Submit(r) /\ UNCHANGED written

Layer ==
  /\ \/ \E s \in Slot : DmaDone(s)
     \/ \E d \in Die :
          \/ Wake(d) \/ IssueNandReq(d)
          \/ \E status \in Statuses(d) :
               ReadTriggered(d, status) \/ ReadRetried(d, status) \/ NandDone(d, status)
  /\ UNCHANGED written

ClientNext ==
  \/ \E d \in Die, b \in Block :
       \/ \E e \in Entry : WritePage(e, d, b) \/ \E p \in 0..Pages-1 : ReadPage(e, d, b, p)
       \/ Erase(d, b)
  \/ \E r \in DmaRequest : Transfer(r)
  \/ Layer

ClientSpec == ClientInit /\ [][ClientNext]_clientVars
=============================================================================
