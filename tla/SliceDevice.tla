---------------------------- MODULE SliceDevice ----------------------------
(***************************************************************************)
(* The path of a slice between the host and the flash: the slice requests, *)
(* the data buffer and its users (ReqTransNvmeToSlice,                     *)
(* ReqTransSliceToLowLevel, getSliceToBuf, FlushAllDataBuf), composed with *)
(* the translation layer (Ftl) and the request layer (RequestScheduler).   *)
(*                                                                         *)
(* A command runs to its end before the next one, but for the requests     *)
(* that it leaves with the request layer.  It reserves a slot when it      *)
(* begins and one when it evicts, and the layer makes progress only while  *)
(* there is no command, or while one waits.  Pinning of entries and writes *)
(* by address (hnsw.c) are left out.                                       *)
(*                                                                         *)
(* A slice has two parts, [first |-> ..., rest |-> ...]; a write covers    *)
(* both or only the rest, and writes the number of the command.            *)
(***************************************************************************)
EXTENDS Ftl, SequencesExt

CONSTANTS
  DataEntry,        \* entries of the data buffer
  SLOTS, RETRY_LIMIT,
  MaxCommands       \* bound of the model

VARIABLES
  q, accepted,      \* of the request layer
  lru,              \* dataBufLruList, most recently used entry first
  bufLsa,           \* logicalSliceAddr of the entries that are hashed
  dirty,
  cmd,              \* the command: [code, lsa, entry, stage]
  todo,             \* requests that it submits next
  waiting,          \* it waits for a slot or for an erase
  commands,
  buffer,           \* what the entries hold
  page,             \* what the flash pages hold
  latest,           \* history: what the host wrote last
  lost              \* history: the flash lost data

bufferMap == <<lru, bufLsa, dirty>>
command == <<cmd, todo, waiting, commands>>
contents == <<buffer, page, latest, lost>>
deviceVars == <<ftlVars, q, accepted, bufferMap, command, contents>>

\* AllocateTempDataBuf: each die has one entry for its collections.
TempEntry(d) == d
Entry == DataEntry \cup {TempEntry(d) : d \in Die}

INSTANCE RequestScheduler

(***************************************************************************)
(* What a part of a slice may hold, what a request or a command may be.    *)
(***************************************************************************)
Part == 1..MaxCommands \cup {NONE}
SliceData == [first : Part, rest : Part]

Transfers ==
  [code : {"RxDMA"}, entry : DataEntry, data : [number : 1..MaxCommands, part : BOOLEAN]]
    \cup [code : {"TxDMA"}, entry : DataEntry, data : SliceData]
NandRequests ==
  [code : {"READ", "READ_TRANSFER", "WRITE"}, entry : Entry, die : Die, block : Block,
   page : Page]
    \cup [code : {"ERASE"}, entry : {NONE}, die : Die, block : Block,
          programmedPageCnt : {SLICES_PER_BLOCK}]

Codes == {"READ", "WRITE", "WRITE_PART", "PREFETCH"}
Command ==
  [code : Codes, lsa : Lsa, entry : DataEntry,
   stage : {"evict", "translate", "load", "transfer"}]
    \cup [code : {"FLUSH"}, entry : DataEntry, stage : {"evict", "translate"}]

ASSUME DeviceAssumption ==
  /\ IsFiniteSet(DataEntry) /\ DataEntry # {} /\ DataEntry \cap Die = {}
  /\ SLOTS \in Nat /\ RETRY_LIMIT \in Nat /\ MaxCommands \in Nat
  /\ SliceData \subseteq Data
  /\ NONE \notin DataEntry \cup Transfers \cup NandRequests \cup Command

Nothing == [first |-> NONE, rest |-> NONE]
Merge(old, x) ==
  [first |-> IF x.part THEN old.first ELSE x.number, rest |-> x.number]

DmaReq(code, e, x) == [code |-> code, entry |-> e, data |-> x]
NandReq(code, e, v) ==
  [code |-> code, entry |-> e, die |-> v[1], block |-> v[2], page |-> v[3]]
EraseReq(d, b) ==
  [code |-> "ERASE", entry |-> NONE, die |-> d, block |-> b,
   programmedPageCnt |-> currentPage[d][b]]

-----------------------------------------------------------------------------
(***************************************************************************)
(* The data buffer.  The first of AllocateDataBuf's three searches looks   *)
(* for an entry that is "full", a field of one bit, with at least four     *)
(* blocks; it finds none.                                                  *)
(***************************************************************************)
Hit(l) == {e \in DataEntry : bufLsa[e] = l}
LeastRecent(set) == SelectLastInSeq(lru, LAMBDA e : e \in set)
CleanEntries == {e \in DataEntry : ~dirty[e]}

AllocateDataBuf ==
  lru[LeastRecent(IF CleanEntries # {} THEN CleanEntries ELSE DataEntry)]

UseEntry(e) == lru' = <<e>> \o Without(lru, e)

FreeCnt == Cardinality(FreeSlots(q))

(***************************************************************************)
(* A slice request of the host, or a prefetch of the firmware              *)
(* (getSliceToBuf, after a miss), gets a slot and an entry.  Unless its    *)
(* slice is there, the entry is written back if it is dirty ("evict") and  *)
(* filled if need be ("load"); then the host DMA moves the data            *)
(* ("transfer").                                                           *)
(***************************************************************************)
Between == cmd = NONE /\ todo = <<>>
Reaches(stage) == cmd # NONE /\ cmd.stage = stage /\ todo = <<>>

Begin == Between /\ commands < MaxCommands /\ commands' = commands + 1

BeginCommand(code, l) ==
  /\ Begin /\ FreeCnt > 0
  /\ code = "PREFETCH" => Hit(l) = {}
  /\ \E e \in IF Hit(l) # {} THEN Hit(l) ELSE {AllocateDataBuf} :
       /\ UseEntry(e)
       /\ cmd' = [code |-> code, lsa |-> l, entry |-> e,
                  stage |-> IF Hit(l) # {} THEN "transfer"
                            ELSE IF dirty[e] THEN "evict" ELSE "load"]
  /\ UNCHANGED <<ftlVars, q, accepted, bufLsa, dirty, todo, waiting, contents>>

\* FlushAllDataBuf writes the dirty entries back, least recently used first.
FlushOf(entries) ==
  IF entries = {} THEN NONE
  ELSE [code |-> "FLUSH", entry |-> lru[LeastRecent(entries)], stage |-> "evict"]

FlushAllDataBuf ==
  /\ Begin /\ CleanEntries # DataEntry
  /\ cmd' = FlushOf(DataEntry \ CleanEntries)
  /\ UNCHANGED <<ftlVars, q, accepted, bufferMap, todo, waiting, contents>>

\* The slot of the slice request; a flush has none.
OwnSlot == IF cmd.code = "FLUSH" THEN 0 ELSE 1

\* EvictDataBufEntry takes the slot of the write first.
EvictDataBufEntry ==
  /\ Reaches("evict") /\ FreeCnt > OwnSlot
  /\ LET l == bufLsa[cmd.entry] IN AddrTransWrite(l, latest[l])
  /\ cmd' = [cmd EXCEPT !.stage = "translate"]
  /\ waiting' = FALSE
  /\ UNCHANGED <<q, accepted, bufferMap, todo, commands, contents>>

CopyRequestsSwapped(from, to) ==
  <<NandReq("WRITE", TempEntry(Target), to), NandReq("READ", TempEntry(Target), from)>>
CopyRequests(from, to) ==
  <<NandReq("READ", TempEntry(Target), from), NandReq("WRITE", TempEntry(Target), to)>>

\* The steps of AddrTransWrite and the requests they make.  Nothing is
\* translated after a collection erased the current block (see Ftl).
CopyAndErase ==
  \/ FtlFind /\ pc' # "idle" /\ todo' = <<>>
  \/ SkipPage /\ todo' = <<>>
  \/ (\E b \in free[Target] : TakeBlockForGc(b)) /\ todo' = <<>>
  \/ /\ CopyPage
     /\ todo' = CopyRequests(OldVsa, logicalSlice'[OldLsa])
  \/ EraseBlock /\ todo' = <<EraseReq(Target, victimBlockNo)>>

CollectGarbage ==
  /\ Reaches("translate") /\ ~reused /\ CopyAndErase
  /\ waiting' = FALSE
  /\ UNCHANGED <<q, accepted, bufferMap, cmd, commands, contents>>

WriteBack ==
  /\ Reaches("translate") /\ ~reused /\ FtlFind /\ pc' = "idle"
  /\ todo' = <<NandReq("WRITE", cmd.entry, logicalSlice'[request[1]])>>
  /\ dirty' = [dirty EXCEPT ![cmd.entry] = FALSE]
  /\ cmd' = IF cmd.code = "FLUSH"
            THEN FlushOf(DataEntry \ (CleanEntries \cup {cmd.entry}))
            ELSE [cmd EXCEPT !.stage = "load"]
  /\ waiting' = FALSE
  /\ UNCHANGED <<q, accepted, lru, bufLsa, commands, contents>>

\* A write of a part of a slice reads the slice first.
NeedsOldDataToRead ==
  cmd.code \in {"READ", "PREFETCH"} /\ logicalSlice[cmd.lsa] # NONE
NeedsOldData == cmd.code # "WRITE" /\ logicalSlice[cmd.lsa] # NONE
Load ==
  /\ Reaches("load")
  /\ bufLsa' = [bufLsa EXCEPT ![cmd.entry] = cmd.lsa]
  /\ todo' = IF NeedsOldData
             THEN <<NandReq("READ", cmd.entry, logicalSlice[cmd.lsa])>> ELSE <<>>
  /\ cmd' = [cmd EXCEPT !.stage = "transfer"]
  /\ waiting' = FALSE
  /\ UNCHANGED <<ftlVars, q, accepted, lru, dirty, commands, contents>>

\* What the host is to receive goes with the request as a history.
Transfer ==
  /\ Reaches("transfer")
  /\ LET x == [number |-> commands, part |-> cmd.code = "WRITE_PART"]
     IN  CASE cmd.code = "PREFETCH" ->
                todo' = <<>> /\ UNCHANGED <<dirty, latest>>
           [] cmd.code = "READ" ->
                /\ todo' = <<DmaReq("TxDMA", cmd.entry, latest[cmd.lsa])>>
                /\ UNCHANGED <<dirty, latest>>
           [] OTHER ->
                /\ todo' = <<DmaReq("RxDMA", cmd.entry, x)>>
                /\ dirty' = [dirty EXCEPT ![cmd.entry] = TRUE]
                /\ latest' = [latest EXCEPT ![cmd.lsa] = Merge(@, x)]
  /\ cmd' = NONE
  /\ waiting' = FALSE
  /\ UNCHANGED <<ftlVars, q, accepted, lru, bufLsa, commands, buffer, page, lost>>

\* GetFromFreeReqQ leaves the reserved slots to the command and its eviction.
Reserved ==
  IF cmd = NONE THEN 0 ELSE IF cmd.stage = "translate" THEN OwnSlot + 1 ELSE OwnSlot

SubmitNext ==
  /\ todo # <<>> /\ FreeCnt > Reserved
  /\ Submit(Head(todo))
  /\ todo' = Tail(todo)
  /\ waiting' = FALSE
  /\ UNCHANGED <<ftlVars, bufferMap, cmd, commands, contents>>

-----------------------------------------------------------------------------
(***************************************************************************)
(* The request layer, and what the host DMA and the dies do to the data.   *)
(***************************************************************************)
NoSlot == Reaches("evict") /\ FreeCnt <= OwnSlot
CannotSubmit == todo # <<>> /\ (FreeCnt <= Reserved \/ WaitsForErase(Head(todo)))

LayerRuns ==
  /\ Between \/ waiting \/ NoSlot \/ CannotSubmit
  /\ waiting' = ~Between
  /\ UNCHANGED <<ftlVars, bufferMap, cmd, todo, commands, latest>>

Row(r) == <<r.die, r.block, r.page>>
Erased(r) == {v \in Vsa : v[1] = r.die /\ v[2] = r.block}

\* What a request does that ends well.
Fills(r) ==
  CASE r.code = "RxDMA"         -> [buffer EXCEPT ![r.entry] = Merge(@, r.data)]
    [] r.code = "READ_TRANSFER" -> [buffer EXCEPT ![r.entry] = page[Row(r)]]
    [] OTHER                    -> buffer

Programs(r) ==
  CASE r.code = "WRITE" -> [page EXCEPT ![Row(r)] = buffer[r.entry]]
    [] r.code = "ERASE" -> [v \in Vsa |-> IF v \in Erased(r) THEN Nothing ELSE page[v]]
    [] OTHER            -> page

EndsWell(r) ==
  /\ buffer' = IF lost THEN buffer ELSE Fills(r)
  /\ page' = IF lost THEN page ELSE Programs(r)
  /\ UNCHANGED lost

\* The firmware goes on when an operation failed, without the data; from then
\* on the model does not follow what is where.
LosesData ==
  /\ buffer' = [e \in Entry |-> Nothing]
  /\ page' = [v \in Vsa |-> Nothing]
  /\ lost' = TRUE

HostDone(s) == LayerRuns /\ DmaDone(s) /\ EndsWell(q.pool[s])

DieDone(d, status) ==
  /\ LayerRuns /\ NandDone(d, status)
  /\ IF status = "FAIL" THEN LosesData ELSE EndsWell(q.pool[HeadReq(d)])

Poll(d) ==
  /\ LayerRuns /\ (Wake(d) \/ IssueNandReq(d))
  /\ UNCHANGED <<buffer, page, lost>>

Answer(d) ==
  \E status \in Statuses(d) :
    \/ DieDone(d, status)
    \/ /\ LayerRuns /\ (ReadTriggered(d, status) \/ ReadRetried(d, status))
       /\ UNCHANGED <<buffer, page, lost>>

-----------------------------------------------------------------------------
DeviceInit ==
  /\ FtlInit
  /\ SchedulerInit
  /\ lru = SetToSeq(DataEntry)
  /\ bufLsa = [e \in DataEntry |-> NONE]
  /\ dirty = [e \in DataEntry |-> FALSE]
  /\ cmd = NONE /\ todo = <<>> /\ waiting = FALSE /\ commands = 0
  /\ buffer = [e \in Entry |-> Nothing]
  /\ page = [v \in Vsa |-> Nothing]
  /\ latest = [l \in Lsa |-> Nothing]
  /\ lost = FALSE

FrontEnd ==
  EvictDataBufEntry \/ CollectGarbage \/ WriteBack \/ Load \/ Transfer \/ SubmitNext

RequestLayer ==
  \/ \E s \in Slot : HostDone(s)
  \/ \E d \in Die : Poll(d) \/ Answer(d)

DeviceNext ==
  \/ \E code \in Codes, l \in Lsa : BeginCommand(code, l)
  \/ FlushAllDataBuf
  \/ FrontEnd
  \/ RequestLayer

(***************************************************************************)
(* The firmware is one loop that goes on as long as there is something to  *)
(* do: a transfer ends, a die answers in the end.                          *)
(***************************************************************************)
DeviceFairness == WF_deviceVars(FrontEnd \/ RequestLayer)

DeviceSpec == DeviceInit /\ [][DeviceNext]_deviceVars /\ DeviceFairness

-----------------------------------------------------------------------------
(***************************************************************************)
(* The host reads what it wrote last before the read, whenever the DMA     *)
(* takes the data from the entry, and so does the firmware once nothing    *)
(* is outstanding on an entry: through hits, evictions, reloads, reads for *)
(* partial writes, flushes, and copies and erases of collections, in       *)
(* whatever order the requests end.                                        *)
(***************************************************************************)
Agrees(got, want) == \A part \in DOMAIN want : want[part] \in {NONE, got[part]}

ReadsLatest ==
  ~lost =>
    /\ \A s \in ToSet(q.nvmeDma) :
         q.pool[s].code = "TxDMA" => Agrees(buffer[q.pool[s].entry], q.pool[s].data)
    /\ Between => \A e \in DataEntry :
         q.tail[e] = NONE /\ bufLsa[e] # NONE => Agrees(buffer[e], latest[bufLsa[e]])

(***************************************************************************)
(* Once its requests are done, the flash holds what the translation layer  *)
(* says, in every page that a slice is mapped to.                          *)
(***************************************************************************)
AllDone == Between /\ Outstanding = {}

FlashAsMapped ==
  AllDone /\ ~lost =>
    \A l \in Lsa : logicalSlice[l] # NONE =>
      Agrees(page[logicalSlice[l]], flash[logicalSlice[l]])

(***************************************************************************)
(* Whatever was begun ends, as the commands do (MaxCommands): the command, *)
(* and every request it made, though slots run out, requests hold up one   *)
(* another, and dies fail and answer late.                                 *)
(***************************************************************************)
AllFinish == ~AllDone ~> AllDone \/ reused
=============================================================================
