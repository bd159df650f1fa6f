# PRESCAR in TLA+

PRESCAR ("Preemptive and SLO-Aware Scheduling for ISP-based Vector Search with
Online Ingestion") is an in-storage vector database: the firmware of a
computational SSD (`src/vector1/cosmos_app`) keeps vectors in a log-structured
merge tree, builds an HNSW index for each sealed segment, and answers
nearest-neighbour searches inside the drive; a host library and a Python
scheduler (`src/benchmark`) decide when to insert, search, build, pause and
resume. This directory holds TLA+ models of that code, the TLC runs that check
them on small instances, and TLAPS proofs for every value of the constants.

`NAME:line` below refers to `src/vector1/cosmos_app/src/NAME` unless it starts
with `benchmark/`.

## 1. Inventory

### The firmware as a whole

One core runs `nvme_main` (`nvme/nvme_main.c:219-455`), an endless loop. Each
iteration fetches at most one NVMe command and serves it to the end, takes at
most one step of an index build, and drives the low-level scheduler. Nothing
preempts a handler except the interrupt handler of the NVMe controller
(`nvme/host_lld.c:84`), which writes the controller status. Concurrency is
therefore of three sorts: host commands interleaved with the steps of a build;
the loop with the interrupt handler; the loop with NAND dies and host DMA,
which finish in their own time and are polled.

| Component | State | Operations | Interacts with |
|---|---|---|---|
| Write path and sealed segments (`nvme/nvme_io_cmd.c`, `ss/`, `gs/`) | skiplist, forward and reverse log pointers, one ring of segment descriptors per level | KV_PUT, sealing, compaction | reads and writes pages through the data buffer; invalidates pages in the FTL; shares table buffers with the index builder |
| Index builder and main loop (`nvme/nvme_main.c`, `vector/hnsw.c`) | building, paused and preempted flags, target, resume point, tails snapshot, header and tables at work | VECTOR_BUILD, PAUSE, RESUME, one step per iteration | writes a segment's index pages and its `vector_index_start_lpn` |
| Vector search (`nvme/nvme_io_cmd.c:90-180`, `vector/hnsw.c`) | `search_completed` flags of the segments, result heap, the shared buffers | VECTOR_SEARCH: indexed segments by HNSW until one is close enough, the others by brute force | sets `preempted` when it lands in a build |
| HNSW graph, distances, heaps (`vector/`) | pages of nodes and neighbours | insert, search layer, select neighbours, merge results | data buffer |
| Skiplist (`gs/`) | nodes with forward pointers | insert, remove, search, first to last | write path |
| FTL and garbage collection (`address_translation.c`, `garbage_collection.c`) | slice maps both ways, block lists per die, bad block table, victim lists | read and write translation, erase, collect, grown bad block | requests to NAND |
| Data buffer (`data_buffer.c`) | page cache: LRU list, hash lists, dirty flags, blocking chains | allocate, evict, hit | requests |
| Request queues and NAND scheduler (`request_*.c`) | pool of request slots, six queues, row and buffer dependency tables, die states | allocate, transform, issue, complete, retry, fail | FTL, data buffer, dies |
| NVMe controller and host DMA (`nvme/host_lld.c`, `nvme/nvme_admin_cmd.c`) | task status, queue registers, DMA FIFO counters | enable, shutdown, create and delete queues, DMA issue and check | interrupt handler |
| Host library, scheduler, segment tracker (`benchmark/`) | the operation list, a tracker of which segments exist | SP-P and SLO-P schedules | the commands above |
| NAND driver, board support, hardware, tools | - | register writes, generated start-up | - |

### What is hard here, and what makes each part correct

- **Write path.** Four functions update head, tail, count and slots of a ring.
  Correct means: they describe one ring that never overwrites a listed segment;
  the assertions of `DoCompactionImpl` never fail; no page of a listed segment
  is invalidated; a key's newest value is the one found; the compaction loop
  ends.
- **Index builder.** A build lasts many iterations, over which searches and
  puts use the same DRAM areas, and compactions may remove the segment at work.
  Correct means: flags of three handlers and the loop agree; a paused build
  stands still; a resumed one continues with the tables and header of its own
  segment; every index links all vectors of its segment; a build ends, and ends
  with all listed segments indexed.
- **Vector search.** Each listed segment is visited at most once, all are
  visited unless the search exits early, and the k results are those of the
  visited segments with later versions hiding earlier ones.
- **FTL.** The two slice maps stay inverse of each other, a free block is never
  in use, the counts that choose a victim are exact, the lists are sound, and
  collection always has a block to move to.
- **Data buffer and scheduler.** A read returns the last write to its page;
  requests to one row and one entry run in the order of the permissions; no
  slot is lost; every accepted request completes.
- **Controller and DMA.** No status change of the interrupt handler is lost;
  a DMA reported done is done although its 8-bit counters wrap.
- **Host scheduler.** Admitted operations run exactly once, pause and resume
  alternate, the wait for the build's end comes last.

`PROJECT.json` lists the same components with their status, and every hazard at
its line with the properties that would catch it going wrong.

## 2. Modules

| Module | Models | Extends or composes | Implements | Checked by | Proved in |
|---|---|---|---|---|---|
| SealedSegments | write path | | VectorStore | `sealed_store`, `sealed_segment_size` | IndexBuilder_proofs, SegmentPages_proofs |
| IndexBuilder | main loop and build | extends SealedSegments | | `build`, `build_search_header` | IndexBuilder_proofs, SegmentPages_proofs |
| IndexHistory | a history of which indexes a search disturbed | extends IndexBuilder | | `build` | SegmentPages_proofs |
| SegmentSearch | walk of a search | extends IndexBuilder | IndexBuilder | `search_walk` | SegmentSearch_proofs |
| SearchResults | merge of results | | | `search_results` | SegmentSearch_proofs |
| BinaryHeap, HnswGraph | heaps; graph of a segment | HnswGraph uses BinaryHeap | | `hnsw_graph`, `hnsw_back_links` | HnswGraph_proofs |
| Ftl | slice maps, writes, collection | | SliceStore | `ftl` | Ftl_proofs |
| FtlLists | Ftl with its linked lists | extends Ftl | Ftl | `ftl`, `ftl_current_block` | FtlLists_proofs |
| RequestScheduler | request pool, dependencies, dies | | OrderedRequests | `request_scheduler`, `slice_device` | RequestScheduler_proofs |
| RequestClient | what the layers above submit to it | extends RequestScheduler | OrderedRequests | `request_scheduler` | RequestScheduler_proofs |
| SliceDevice | data buffer and slice requests | extends Ftl, composes RequestScheduler | OrderedRequests | `slice_device` | SliceDevice_proofs |

The order was that of importance: first what decides whether a vector is stored,
indexed and found, then the layers below. The MC modules hold instances for TLC.
No module declares a RECURSIVE operator, with which no theorem could be checked:
repetition is a recursive function, for the heaps and the graph that of `Loop`.

## 3. What is modelled

### SealedSegments (`nvme/nvme_io_cmd.c`, `ss/super.h`, `ss/super.c`)

| Model | Code |
|---|---|
| `growing` | the skiplist: a map from key to LBA; a repeated key is removed and inserted again |
| `write_pointer_lba` | next LBA of the forward value log (one LBA per value here) |
| `slots[l][i]` | `super_ss_list_level[l][i]`: tables, page range, index |
| `level_count`, `head`, `tail` | the ring of each level |
| `reverse_lpn` | `reverse_write_pointer_lpn`, which grows downwards |
| `mapped` | reverse-log pages that the FTL maps |
| `compacting` | the `do ... while` loop of KV_PUT (`nvme_io_cmd.c:541`) is running |
| `KvPut` | `handle_nvme_io_kv_put`, with the sealing of a full skiplist (`CompactGrowingSegment`) |
| `DoCompaction(l)` | one iteration of the loop: victims, merge, flush of the output, invalidation, ring update |
| `CompactionDone` | `MaybeDoCompaction` returns 0 |
| `OtherCommand` | commands that leave this state alone |

Abstractions:
- A segment's tables are a map from key to LBA; values live in the forward log
  and are never moved. The merge loop is abstracted to its result (`Merge`).
- `RingAdd` is `(i + n) % MAX_SEALED_LEVEL[l]` without the `%`, as both operands
  are in range (a form the provers handle).
- `INVALID_LPN` is a value outside the integers: the reverse log does not meet
  `0xffffffff`, and it is modelled as never running out.
- Sealing rounds pages down where flushing rounds up; the two agree because a
  full skiplist (4096 keys) fills whole pages.
- `shouldDelayCompaction` is constant 0 (`nvme_main.c:224`), so the branch that
  delays compaction is left out.
- Slots start as `Cleared`; their real first content is never read while the
  count is 0.

**VectorStore** is the abstract store: a put replaces one key's value; only when
the last level is full may keys be lost. The code never compacts level 3, which
has one slot, so a second segment there replaces the first (`super.h:13`). The
refinement makes that the *only* way to lose a key.

### IndexBuilder (`nvme/nvme_main.c`, `vector/hnsw.c`, `vector/index.h`)

EXTENDS SealedSegments; its actions are those of the write path with the
build's state added, plus the build's own.

| Model | Code |
|---|---|
| `phase` | the two halves of a main-loop iteration |
| `isIndexBuilding`, `build_paused`, `preempted`, `target`, `resume`, `snapshot` | the globals of the same names (`targetSsForIndexing`, `g_index_build_resume_point`, `snapshot_tail_per_level`) |
| `tables`, `header` | which segment's tables and index header the shared DRAM areas hold, named by its `head_lpn` |
| `linked` | nodes linked into the graph the header describes |
| `indexes` | index headers in flash: page, whose, nodes linked |
| `BuilderPut`, `BuilderCompaction` | KV_PUT; sealing and compaction build their output in the shared table buffers |
| `VectorBuild`, `PauseBuild`, `ResumeBuild` | the handlers |
| `VectorSearch` | effects of a search on the shared areas, over every point at which it may stop |
| `AssignNextSsToIndex` | `assignNextSsToIndex`, `findNextSs`, and the end of the build |
| `BuildIncrement` | `tryIndexBuildIncremental` and `buildOndemandHnsw` |
| `Garbage(r)` | `tryIndexBuildIncremental` on an empty segment: no return value |

Abstractions: the graph is the set of nodes linked; a node counts as linked only
if both tables and header are the target's. The missing `return` on an empty
segment (`nvme_main.c:178`) is undefined behaviour and is modelled as any value
up to `GarbageBound`. The path that retries after -1 is unreachable and left
out. `Concurrent` says which commands the host sends during a build: `{}`,
searches (the paper's preemption), or puts too (`benchmark/pyvectorssd/impl/scheduler.py:140`).

### SegmentSearch (`nvme/nvme_io_cmd.c`)

EXTENDS IndexBuilder and takes its `VectorSearch` apart: a search is a walk of
several actions, between which nothing else runs.

| Model | Code |
|---|---|
| `walk` | which of the two loops of `tryVectorSearch` runs |
| `completed` | slots whose `search_completed` is set |
| `bruteforceSearchActivated`, `earlyExitFlag` | the locals of the same names |
| `BeginSearch` | the start of `tryVectorSearch`: flags reset, unindexed segments noticed |
| `SearchIndexed(exit)` | one iteration of the first loop: `findNextSs`, `searchOndemandHnsw`, one retry after -1 |
| `BeginUnindexed`, `SearchUnindexed` | the second loop: `findNextSsFromLevel(..., 1)`, `bruteForceSearch` |
| `EndSearch` | the rest of `handle_nvme_io_vector_search`: `preempted` |
| `SearchForNone` | a search for no neighbor, which returns at once |
| `WriteStep`, `OtherStep` | the steps of IndexBuilder; sealing and compaction reset the flag of a slot they write |

`seen` (the order of visits) and `before` (tables and header when the search
began) are history variables for the properties. What a search of one segment
returns, -1, 0 or 1, is any of the three. The branch of the first loop that
searches by brute force is left out: `findNextSs` returns only segments with an
index, and no index page lies above `REVERSE_VALUE_LOG_BASE_LBA`.

### SearchResults (`vector/hnsw.c`)

`mergeSearchResults`, one action per candidate: `Skip`, or `Insert` at the first
place whose entry is farther. `validGlobalCount` and `results` are the entries
of `TOP_K_CURRENT_DISTANCE_BUFFER` below FLT_MAX; `MergeReturns` computes the
return value. Distances are integers below FLT_MAX, and a candidate's id stands
for one vector of one segment. When the buffer is empty the function reads
`distance[-1]`, the word before the array: the return value is then any.

### BinaryHeap and HnswGraph (`vector/binary_heap.c`, `vector/hnsw.c`)

`BinaryHeap` has both heaps in one definition: the code is the same but for the
direction of the comparison, which is the sign `s` of `SiftUp` and `SiftDown`. It
is checked through the searches that use it: `SearchFillsUp`. A loop of the code is
`Loop(turn, n, x)`, with a number of turns that it cannot exceed, and turns that
change nothing once the code has left it: sifting up from place `i` takes fewer than
`i` turns, sifting down fewer than the heap has elements, and a search expands no
node twice.

`HnswGraph` builds the graph of one segment node by node (`LinkNode` is one
iteration of `buildOndemandHnsw`'s loop) with the code's own search:
`GreedySearchLevel`, `SearchNeighborsEf` with its two heaps and its breaking
signal, `ConnectNeighbors` with its de-duplication, back links and eviction of
the farthest neighbor. Vectors are positions on a line; for vectors on half a
circle the cosine distance orders all pairs as their angles do. Left out are the
pages of nodes and the loading of vectors. The loop that looks for the farthest
neighbor reads one distance that was never written (`hnsw.c:759`), which is a
choice from `Uninit`.

### Ftl and FtlLists (`address_translation.c`, `garbage_collection.c`)

| Model | Code |
|---|---|
| `logicalSlice`, `virtualSlice` | the two slice maps; an address is `<<die, block, page>>` |
| `currentBlock`, `currentPage`, `invalidSliceCnt`, `free` | the fields of the die and block maps |
| `sliceAllocationTargetDie` | the die whose turn it is |
| `flash` | what the pages hold once the requests are carried out |
| `AddrTransWrite(l, x)` | the start of `AddrTransWrite`: `InvalidateOldVsa` |
| `Invalidate(l)` | `InvalidateOldVsa` as `DoCompaction` calls it |
| `FindInCurrentBlock`, `FindInFreeBlock` | `FindFreeVirtualSlice` |
| `BeginCollection`, `SkipPage`, `TakeBlockForGc`, `CopyPage`, `EraseBlock` | `GarbageCollection`, page by page, `FindFreeVirtualSliceForGc`, `EraseBlock` |
| `Abort` | a failed assertion: "There are no free blocks" and its like |
| `links`, `freeBlockCnt` (FtlLists) | head and tail of the free list and of the victim lists of a die, `prevBlock` and `nextBlock` of its blocks |

A write runs to its end before the next one; it is cut into steps, one per page,
so that what it does in the middle can be looked at. In `Ftl` any free block may
be taken, and any block with the most invalid slices be the victim; `FtlLists`
takes the heads of the lists, with the list functions of the code on the two
link fields that all lists of a die share, and implements `Ftl`.

`reused` is a history variable: a collection erased the current block of its die
(finding 3). From then on the code's maps are unreliable, the invariants say
nothing, and a page number beyond the block stops the model (`pc = "beyond"`).
`ListCopyFails`, the assertion in a collection, never fails before that
(`AbortOnlyWhenFull`).

**SliceStore** is the abstract store: a slice holds what was stored last until it
is dropped or stored again.

### RequestScheduler (`request_allocation.c`, `request_transform.c`, `request_schedule.c`)

| Model | Code |
|---|---|
| `q.pool`, `q.prev`, `q.next` | `reqPool`: the requests, `prevBlockingReq`, `nextBlockingReq` |
| `q.tail` | `blockingReqTail` of the entries of both buffers |
| `q.blockedByBuf`, `q.blockedByRow`, `q.nvmeDma`, `q.nand` | the queues of the same names |
| `q.permittedProgPage`, `q.blockedReadReqCnt`, `q.blockedEraseReqFlag` | the row dependency table |
| `q.way`, `q.retryLimit` | the list that a die is in, its retries |
| `Submit(r)` | `GetFromFreeReqQ`, the chaining, `SelectLowLevelReqQ` |
| `DmaDone(s)` | `CheckDoneNvmeDmaReq`, one request |
| `Wake`, `IssueNandReq` | `SchedulingNandReqPerCh`: an idle die looks for work, a queued one gets its request |
| `ReadTriggered`, `ReadRetried`, `NandDone` | `ExecuteNandReq` with the status of the request |

The tables are fields of one variable because a release runs through several of
them in one go; an operator stands for each function. Abstractions:
- Slots are interchangeable, so the free list is a set.
- The lists of ways are two states of a die, "queued" and "busy"; how the ways of
  a channel take turns only delays them.
- A busy die answers DONE, FAIL or, for a transfer, WARNING, at any time.
- A read that must wait for a held-up erase takes its slot after the wait here and
  before it in the code; nobody else takes slots meanwhile.

**RequestClient** is the layer under a client that submits, for ever, what the
translation layer and the data buffer may submit about any number of blocks:
`WritePage` (the pages of a block in order), `ReadPage` (a page that was written),
`Erase` (of a full block), and `Transfer` to or from the host, each with any
entry. It keeps the generations of a block apart: while an erase of the block is
held up by a write of it, no page of it is written again, and it is not erased
again. The row dependency table cannot do that. It compares page numbers, which do
not say on which side of the erase they are: without the two guards a write of the
recycled block passes its erase, as TLC shows from `Pages + 3` slots on, and the
table is wrong from then on. In the code nothing but time sees to it: between the
erase of a block and its next write lie the other free blocks of its die, and the
pool has 128 slots per die for blocks of 128 pages.

**OrderedRequests** is the abstract layer: a list of requests in which one starts
only when no earlier one conflicts with it (same entry; same block, when either is
an erase or both are writes; same page, when one is a read and one a write).

### SliceDevice (`request_transform.c`, `data_buffer.c`, `vector/index.c`)

EXTENDS Ftl and composes it with RequestScheduler.

| Model | Code |
|---|---|
| `lru`, `bufLsa`, `dirty` | `dataBufLruList` and the fields of the entries |
| `cmd`, `todo` | the slice request that is being transformed, and the requests it makes next |
| `BeginCommand` | `ReqTransNvmeToSlice`, hit or `AllocateDataBuf`; `getSliceToBuf` for a prefetch |
| `EvictDataBufEntry`, `CollectGarbage`, `WriteBack` | the eviction, with the steps of `AddrTransWrite` |
| `Load` | `DataReadFromNand`, for reads and partial writes |
| `Transfer` | the request becomes one of the host DMA |
| `FlushAllDataBuf` | the function of the same name |
| `HostDone`, `DieDone`, `Poll`, `Answer` | steps of the request layer, with what they move |

The request layer runs between commands, and within one only while it waits for a
slot or an erase (`SyncAvailFreeReq`, `SyncReleaseEraseReq`): a handler is not
interrupted. `buffer` and `page` hold contents, so that the model shows what the
host reads and what the flash holds, not only which requests ran. `LosesData`: the
firmware goes on after a failed operation as if it had worked, and the model stops
following contents from then on; order and ending are still checked. A slice has
two parts, which is enough to tell a partial write from a whole one.

Left out: pinned entries (only the graph search pins, to keep what it has
prefetched); hash collisions; commands of several slices, each of which is
transformed like this; the requests by address, which bypass the buffer; and a
branch of `ReqTransSliceToLowLevel` that gives up a hit, and its slot, when the
command's `mark` is 0xFD or more (`request_transform.c:274-277`): `mark` is set to 0
and to nothing else (`nvme/nvme_main.c:282`, `request_transform.c:667`), so that it is
dead code. The first search of `AllocateDataBuf`, for a "full" entry, finds none:
`full` is a field of one bit and is compared with 4 (`data_buffer.c:257`).

## 4. Runs

| Run | Question | Instance |
|---|---|---|
| `sealed_store` | do the rings and the age order hold under every order of puts, does the tree implement `VectorStore`, and does the compaction loop end | 2 keys, rings of 3, 17 puts: cascades over all levels, level 3 is overwritten twice |
| `sealed_segment_size` | (violation) segments fit `PREDEFINED_MAX_NUMBER_OF_VECTOR_PER_SEGMENT` | level 0 and 3 as in `super.h`, distinct keys |
| `build` | do builds of several pages, paused and preempted by searches, resume at a page with their own tables, end unless paused, and leave every listed segment with a complete index | 4 keys put in turn, 17 puts, 2 nodes per page, 2 per step, fairness below |
| `build_search_header` | (violation) the header stays the target's | searches only |
| `search_walk` | does a search in steps visit each segment once, miss none, and implement the one-step search; do flags, pages, assertions and pauses survive puts, compactions and searches in a build | 1 key, 9 puts, puts and searches in a build |
| `search_results` | are the results the nearest of all candidates, in order, and is an early exit justified | 6 symmetric ids, distances 0..4, 3 results |
| `hnsw_graph` | are links sound, mutual, new nodes reachable, and does a search find as many nodes as it may | every placement of 5 nodes on 5 positions, 3 levels, 2 links |
| `hnsw_back_links` | (violation) links are bi-directional | the same, with a large uninitialized distance |
| `ftl` | are maps, counts and lists sound, do the lists implement the sets and the layer a store, and is a failed assertion always a full die | 2 dies of 3 blocks of 2 pages, one block of die 1 bad, 4 symmetric slices |
| `ftl_current_block` | (violation) no block hands out more pages than it has | 1 die of 3 blocks, 3 slices |
| `request_scheduler` | does the table count what is held up, are requests carried out as if in order, and is there always a next step | 1 block of 2 pages, 2 symmetric entries, 4 slots, 1 retry; requests without end |
| `slice_device` | does the host read what it wrote, does the flash hold what the maps say, are requests carried out as if in order, does everything end | 2 dies of 3 blocks of 2 pages, 2 entries, 5 slots, 1 retry; two commands on a new device and on one in use |

### Bounds and why they are enough

- `MaxPut` bounds the puts. Each run's value is large enough for what it asks:
  17 in `sealed_store` make compactions of every level, the wrap of every ring
  and the replacement of level 3 twice.
- Rings of 3 slots are the smallest in which a level that compacts two segments
  wraps with head and tail in different slots; 4 at level 1 (`build`,
  `search_walk`) leaves a segment behind after a compaction, as the real 400 does.
- 2 keys with skiplists of 1 (`sealed_store`) give segments that share a key or
  not, which is what the merge and the age order tell apart. 4 keys put in turn
  with skiplists of 2 (`build`) give segments of several entries, that overlap
  after a compaction or not; the order of keys does not matter to a build.
- `NodesPerPage` 2 with `Stride` 1 is the real relation (139 more nodes after the
  first, 140 per page) scaled down: a step ends where a page does.
- `GarbageBound` 3 exceeds every node count of `search_walk`, where alone a build may
  meet an empty segment.
- 9 puts of one key with skiplists of 1 reach two segments in level 1 and one in
  level 2, some with an index and some without: both passes of a search visit
  more than one segment and level. A level 3 that lists its one slot twice is
  beyond this bound.
- 6 candidates for 3 results fill the buffer and then displace or skip as many.
- 5 nodes with 2 links each fill neighbors at level 0 and evict from them, and
  positions with equal and unequal gaps give ties and strict orders.
- `ftl`: with one reserved block, die 0 has one block to write to while another
  is collected, and die 1 none to spare; 4 slices fill a die, and with 3 of 4
  valid a collection copies. A slice is always written with its own datum, so that
  slices cannot be mistaken for each other (`OwnData`); an old copy of the same
  slice looks like a new one to TLC in this run, and `FtlImplementsStore` and
  `ListsImplementStore` prove for any data that none is taken for it. (A second
  version of each datum takes the run beyond any useful time.)
- `request_scheduler`: 4 slots hold two writes, the erase that waits for them, and
  one more request that chains a write to an entry, which holds up reads and
  erases at either dependency. The two guards of the client matter from `Pages + 3`
  slots on (1 page, 4 slots); the theorems hold for any number of slots.
- `slice_device`: the device in use has both entries dirty, die 1 next to be
  written and the oldest block of die 0 next to be collected with a valid slice in
  it, so two commands with evictions reach a collection whose copies, erase and
  successors wait for each other; 5 slots run out in it. A new device covers the
  reads of unwritten slices and the first writes.
- `CHECK_DEADLOCK FALSE`: the graph stops after its last node, the FTL after an
  abort and where the models of it stop, SliceDevice after its last command.
- Symmetry (over slices, entries, candidates' ids) is used in runs without
  liveness only; no action names one.

### Findings

1. **Segments outgrow their tables** (`sealed_segment_size`). Loading distinct
   ids, the first compaction of level 2 makes a segment of 12 * 4096 vectors,
   twice what `hnsw.h:13-16` calls the maximum and the index header is sized for.
2. **A search replaces the header of a build** (`build_search_header`).
   `memory_map.h:120` shares the buffer because builds and searches do not run
   in parallel; the loop serves a search between two steps, and the resumed step
   (`hnsw.c:823-836`) reloads the tables but not the header.
3. **A collection erases the block that is written to** (`ftl_current_block`).
   When the current block of a die is full and all its slices are invalid, it is
   the victim; with nothing to copy, the only test for this case
   (`FindFreeVirtualSliceForGc`) is not reached. The block is written to while it
   is listed free, and handed out again when it is full: the next page is one of
   the next block, against the assertions "Current page management fail".
4. **A link back may be missing** (`hnsw_back_links`). The search for the farthest
   of `M_PARAM` neighbors runs one too far (`hnsw.c:759`) and reads a distance
   that was never written; if that is large, the neighbor gets no link.

Puts during a build break two more properties, which `build` checks without puts.
A KV_PUT that seals or compacts between two steps does not set `preempted`, so the
next step links the target's remaining nodes with another segment's keys (against
`hnsw.c:169`; `TablesKept`). And `findNextSs` stops at the tails of the build's
start, so that segments compacted during it stay without an index, while the loop
reports "All SSs now have own index" (`nvme_main.c:445`; `AllIndexed`). Adding
`"put"` to `Concurrent` in `build` shows the first within a few steps; the second
takes a level 1 of at least 5 slots (`ThreeInLevel1`).

Seen while modelling, and not runs: no search looks at the segments of level 0
(`findNextSsFromLevel`, whose comment says "search Lv0", `nvme_io_cmd.c:1068`, is
called for level 1 and up, `:167`) or at the growing one; a search hands over the
array of a max-heap from its end, which is not sorted (`hnsw.c:609`), and merges
only the first `topK` of up to `2 * topK` (`:1371`), so that nearer candidates
may be left out; `searchOndemandHnsw` passes `2 * topK` where
`searchNeighborsEf` asserts at most `EF_CONSTRUCTION` (`hnsw.c:484`), which a
`topK` near its maximum violates; `bruteForceSearch` has room for 10 candidates
whatever `topK` is (`hnsw.c:1095`), swaps two distances of a batch
(`hnsw.c:1156`), and merges an empty heap instead of its candidates
(`hnsw.c:1189`), so that unindexed segments contribute no result;
`manuallyFlushDirtyDataBuffer` (`hnsw.c:996`) writes dirty entries by address,
outside their chains, and marks them clean though the host may still be filling
them; `clearAllDataBufferContents` (`hnsw.c:1030`) zeroes pages that stay hashed.

Each property is accordingly checked in the widest environment in which it holds:
`TablesKept` and `AllIndexed` with searches, `IndexComplete` for the indexes that
no search came across (a history variable says which), `BuildFlags` and
`PauseHolds` with searches and puts, those of the FTL until a collection erases a
current block, and those of the graph that need it with an uninitialized distance
that is not large.

### Fairness

- `FairSpec`: weak fairness of `CompactionLoop`. The loop is a `do ... while` of
  single-threaded code: once entered nothing else runs until it exits.
- `BuilderFairness`: weak fairness of `NoCommand`, `BuilderCompaction` and
  `IndexTurn`. The main loop never stops: with no command waiting it falls
  through to the index step. No fairness is assumed of any host command.
- `DeviceFairness`: weak fairness of the steps of the firmware and of the layers
  below together: the firmware is one loop, a transfer ends and a die answers in
  the end. No fairness is assumed of commands. `AllFinish` needs nothing of the
  order in which dies and DMA answer.
- `BuildEnds` is checked without puts. With them it need not hold: a nonzero
  value returned for a compacted target keeps the build at its cleared slot.

## 5. Proofs

The modules `*_proofs` are checked by TLAPS in full. Those about the write path,
the main loop and the walk of a search assume only `ConstantsAssumption` and
`BuilderAssumption`: finite keys, positive sizes, rings of at least 3 slots at
levels 0..2 (the code has 4, 400 and 20), two victims, and an `INVALID_LPN` that
is no page; those about the merge of results, also in `SegmentSearch_proofs`, only
`ResultsAssumption`: a positive `top_k` and integer distances; `Ftl_proofs` and `FtlLists_proofs` only
`FtlAssumption`: at least one die, two good blocks in each, one slice in a block, and a `NONE` that is nothing
else; `RequestScheduler_proofs` only `ClientAssumption`: numbers of slots, retries
and pages, at least one page, and a `NONE` that is nothing else. `SliceDevice_proofs`
assumes, besides `FtlAssumption`, `DeviceAssumption`: a finite data buffer of at least
one entry, none of them a die (a die stands for its own temporary entry), numbers of
slots, retries and commands, and again a `NONE` that is nothing else.
`HnswGraph_proofs` assumes only `GraphAssumption`: a vector and a link at least,
integer positions and uninitialized values, heaps of two elements or more, and two
levels or more (`hnsw_config.h` has 3). With a single level `SearchFillsUp` is false:
the greedy search then moves on level 0 before the other search starts there, and may
start from a node that does not lead to all others. With more, it runs on the top
level, where the entry point is alone.

Eleven theorems state a premise of their own. `NewerIsNearer` and
`SegmentsImplementStore` take the one slot that `super.h:13` gives level 3: with more,
neither holds once level 3 has wrapped, as its head never moves and the newest
segment comes to lie where the oldest was. `TablesStay`, `StepsResumeAtPage`,
`BuildReachesAll` and `IndexesComplete` are about a build during which the host writes nothing, as in the
run `build`: a write seals into the buffers that the build shares, and the
compactions after it may take the target away or list segments beyond the tail at
which the build's rounds stop. `StepsResumeAtPage` also takes the stride of the
source, one node less than a page. `HostReadsLatest`, `FlashHoldsMapped` and
`DeviceRequestsOrdered` take `GenerationsApart`, the two guards of RequestClient as a
property of what the device submits: no page of a block is written again, nor the block
erased again, while an erase of it is held up by a write of it. The run `slice_device`
satisfies it in every state; on the same geometry with 7 slots or more, TLC's simulation
finds commands in a row that do not, since a die of three blocks of two pages comes back
to a block within fewer requests than the pool holds. In the code the pool has 128 slots
per die and a block 128 pages, so that only a die with almost no block left could come
back so soon; no test in it says so, which is why the theorems do.
`GraphBackLinks` and `GraphReachable` take `UninitHarmless`: the distances that were
never written (finding 4) are not positive. The run `hnsw_graph` satisfies it, and
`hnsw_back_links` shows that one is needed.

| Theorem | States | Holds in |
|---|---|---|
| `TypeCorrect`, `RingsCorrect`, `AssertsHold` | `[]TypeOK`, `[]RingInv`, `[]CompactionAsserts` | the write path, any number of keys, puts and slots |
| `FlagsAgree` | `[]BuildFlags` | the main loop, any host |
| `PauseStandsStill` | `PauseHolds` | the main loop, any host |
| `AssertsHoldDuringBuild` | `[]CompactionAsserts` | the main loop, any host |
| `PagesStayMapped`, `NothingOverwritten` | `[]LivePagesMapped`, `NoOverwrite` | the write path |
| `NewerIsNearer`, `SegmentsImplementStore` | `[]RunOrder`, `Implements` | the write path, one slot in level 3 |
| `BuilderTypeCorrect` | `[]BuilderTypeOK` | the main loop, any host |
| `PagesStayMappedDuringBuild` | `[]LivePagesMapped` | the main loop, any host |
| `TablesStay`, `StepsResumeAtPage` | `[]TablesKept`, `[]ResumeAtPage` | a build without writes |
| `BuildReachesAll`, `IndexesComplete` | `AllIndexed`, `[]IndexComplete` | a build without writes, any searches and pauses |
| `NothingTwice`, `NothingMissed` | `[]SeenOnce`, `SeenAtEnd` | the walk of a search, any visits and exits |
| `WalkImplementsSearch` | `ImplementsSearch` | the same: a walk is one search of IndexBuilder |
| `ResultsTyped`, `ResultsSorted`, `ResultsNearest` | `[]ResultsTypeOK`, `[]Sorted`, `[]NearestKept` | the merge, any `top_k`, candidates and order |
| `ResultsExitNear` | `[]ExitNear` | the merge; an empty buffer included |
| `FtlTypeCorrect`, `MapsAgree`, `CountsAreExact` | `[]FtlTypeOK`, `[]MapsInverse`, `[]CountsExact` | the FTL, any dies, blocks, pages, slices and bad blocks |
| `FtlImplementsStore` | `ImplementsStore` | the same: every step is one of `SliceStore` or none |
| `AbortsOnlyWhenFull` | `[]AbortOnlyWhenFull` | the same |
| `ListsAreSound` | `[]ListsSound` | the FTL with its linked lists, as general |
| `ListsImplementFtl` | `ImplementsFtl` | the same: taking the heads of the lists is one of the choices of `Ftl` |
| `ListedFtlSafe`, `ListsImplementStore` | `[]FtlTypeOK`, `[]MapsInverse`, `[]CountsExact`, `[]AbortOnlyWhenFull`, `ImplementsStore` | the same, hence all of the above for the code's lists |
| `RequestTablesSound` | `[]ClientInv` | the request layer under RequestClient, any dies, blocks, pages, entries and slots |
| `RowTableIsExact` | `[]RowTableExact` | the same |
| `RequestsAreOrdered` | `ImplementsOrdered` | the same: every step is one of `OrderedRequests` or none |
| `HostReadsLatest` | `[]ReadsLatest` | the device, any geometry, entries, slots, retries and commands, generations of a block apart |
| `FlashHoldsMapped` | `[]FlashAsMapped` | the same |
| `DeviceRequestsOrdered` | `ImplementsOrdered` | the same: the device is such a client |
| `GraphLinksSound` | `[]LinksSound` | the graph, any number of vectors, wherever they lie, of links and levels, any garbage |
| `SearchesFillUp` | `[]SearchFillsUp` | the same, any `top_k` that the heaps hold |
| `GraphBackLinks`, `GraphReachable` | `BackLinks`, `NewNodeReachable` | the same, garbage that is not positive |

**Why a strengthening is needed.** `CompactionAsserts` says that the victims of a
compaction are sealed and have entries, which no step can preserve by itself: it
speaks only of a level about to be compacted. `IInv == TypeOK /\ RingInv /\
SlotsLive` adds that *every* listed segment of levels 0..2 is sealed and not
empty. Its preservation rests on:
- `RingAddAdd` and `RingAddInjective`: positions compose and are distinct within
  a ring, so appending at the tail touches no listed slot (`AppendKeepsRing`) and
  clearing the victims touches only those that leave (`VictimsLeaveRing`);
- `VictimLevel`: inside the loop the chosen level has enough segments and the
  level below it is under its threshold, so it has room for the output;
- `MergeKeepsKeys`: a merge of nonempty victims is nonempty.

`FlagsAgree` needs no strengthening; `PauseStandsStill` follows from it, since a
paused build is a running one and VECTOR_BUILD clears the target only when none
runs. `BuilderInvariance` carries `IInv` through the main loop: an index step
writes the index of one slot, which must be a slot of the rings (`TargetType`).

For the pages, `PagesInv == IInv /\ LastRing /\ PagesKept` names segments by their
slots, which a compaction does not move, where `LivePagesMapped` names them by
age. New pages lie below the write pointer and all others above it, so only an
invalidation can take a live page; what it takes belonged to the victims, whose
slots leave the ring (`PagesAppend`). `LastRing` is what `RingInv` does not say of
level 3: its tail is its head's predecessor at most, and a ring that wraps over
itself replaces the slot it appends to.

For the store, `StoreInv == IInv /\ Ordered /\ Fresh` compares segments by their
places, level and age. `Ordered` is `RunOrder` over places; sealing keeps it only
because every put takes a value above all others (`Fresh`). `SealPlaces` and
`CompactPlaces` say which segment is at each place after a step, and `MergeNewest`
that the merge keeps for each key the value of its youngest victim, which by the
order is the largest. Hence `LookupIsNewest`: what a lookup finds is the largest
value that the store holds for a key, a quantity that does not depend on where the
values lie. A compaction above level 3 preserves it and is a stutter of
`VectorStore`; one into a full level 3 drops what it replaces, which is `Lose`.

For a build without writes, `QuietInv == LastRing /\ SegmentsFull /\ Quiet` says that
no compaction is under way while a build is and the tails are those of its start, so
that a round of the build sees every listed segment and ends only when each has an
index; that the target has entries, which an index step never changes
(`SegmentsFull` says it of the segments that may become one); and that the resume
point lies inside the target, at a page, with the target's tables loaded unless a
search came between. `IndexesComplete` adds `HistoryInv`: a header lies below all
earlier ones, so that a page names one index; the nodes before the resume point are
linked, to the target's own header, unless a search disturbed the segment at work;
and what a slot points to is complete or disturbed. Its specification, in the module
IndexHistory, is the main loop with the two history variables, any host included;
the run restricts the host to keys in turn. `BuilderTypeCorrect` rests on `IndexKnown`: the
page a slot names as its index is one at which a build has written an index.

For the walk, `SearchIInv == BuilderIInv /\ WalkInv` ties three accounts of one
thing together: the history `seen`, the flags `search_completed` in the slots, and
the pass. A segment is picked only while its flag is clear, hence once
(`NoRepeats`); a pass ends when no listed segment of its kind has a clear flag,
hence none is missed. `WalkImplementsSearch` adds `LoadInv`: each pass visits in
order, so the last segment seen is the last of those seen, and the shared tables
and header are that segment's. Until the walk ends the abstract search has not
happened: the abstract tables are those of `before`.

For the merge, `ResultsInv == ResultsTypeOK /\ Sorted /\ NearestKept` is
inductive as a whole and in no part: what is shifted out of a full buffer is the
last entry, and that no entry left is farther follows from `Sorted` (`InsertKeeps`);
`Sorted` itself needs that the place found is the first whose entry is farther;
and a skipped candidate is no nearer than any entry because it is no nearer than
the last (`SkipKeeps`).

For the FTL, `FtlInv` is `FtlTypeOK`, `MapsInverse`, `CountsExact` and, while
`reused` is FALSE, `FreeClean` and `Phases`. `MapsInverse` alone is not inductive: a
page that is handed out must be one that no slice is mapped to, which follows as it
is not below `currentPage`; and an erase must not hit a mapped page, for which
`Phases` says that a collection has moved every slice off the pages it has passed
(or, when it copies nothing, that the count said so: `VictimEmpty` derives from
`CountsExact` that a block with as many invalid slices as pages has no valid one).
`FreeClean` makes a block that is taken empty. `FtlImplementsStore` follows by
showing for each action what it does to `Content`: a copy leaves the slice's datum,
an erase touches no mapped page, the end of a write stores the request's.

`AbortsOnlyWhenFull` needs `Room`, which counts: a die keeps a free block except while
it is collected (`FreeLeft`), and at each page of a victim the valid slices still to
be copied are fewer than what is left of the block they go to: a whole free one as
long as none is taken (`NotTaken`), the rest of the current one afterwards (`Taken`).
They are fewer because the victim has an invalid slice. When no block has one
(`MostExists`), all blocks in use are full of valid slices, as every block but the
current one has handed out all its pages (`FilledUp`); that is when the firmware
gives up.

For the linked lists, `AllInv == FtlInv /\ Room /\ ListsInv`. `ListsSound` follows the
chain from the head of each list; the invariant says instead what each block's two
links are, given the blocks that belong to a list. `Linked` orders them by a number
per block, which only the proof has: putting a block at the tail gives it a larger
number than the others have (`LinkedPut`), taking one out keeps the numbers of the
others (`LinkedTaken`). All lists of a die share the two link fields, so it matters
that they have no block in common (`Apart`) and that a block in no list has cleared
links (`Loose`): `SelectiveGetFromGcVictimList` is called for a block without invalid
slices, which is in no list, and with cleared links it empties the head and tail of
list 0, which nothing ever uses. The one block in no list that may have links left is
the victim of the collection under way (`Held`). `ChainReaches` comes back to the
chains: the numbers rise along one, so it ends, and it passes no block by. The
recursive functions for the chain and for the listing of free blocks at start are
unfolded by `Recursion` and `StepByStep`, which take a least counterexample where an
induction theorem cannot be instantiated. For the refinement, `VictimListsTell` and
`FullestIs` show that the head of the last nonempty victim list is a block with the
most invalid slices, and that all victim lists are empty only if no block in use has
an invalid slice.

For the request layer, `ClientInv` ties the five accounts that the code keeps of a
request together, each of which decides alone when a request goes on:
- `Listed`: the slots in use are those accepted and not done;
- `Chains`, `BufQueue`: `prevBlockingReq`, `nextBlockingReq` and `blockingReqTail`
  are the requests on an entry in the order of acceptance, and all but the first
  wait in the blocked-by-buffer queue;
- `RowQueues`, `Placed`: any other request is with its die, with the DMA, or in the
  blocked-by-row list of its die;
- `Counted`: the table counts and flags what is held up, by either dependency;
- `NandOrdered`, `RowsFit`: a die has the requests that conflict in the order of
  acceptance, because what is held up fits the table: the pages of the held-up writes
  are distinct and not below `permittedProgPage`, in order, on their side of the one
  held-up erase; no read is held up behind an erase, and none behind the next
  write of its page but for one.

Letting one request go (`LetGoDelivered`, `LetGoCounted`, `LetGoFits`) rests on
`FirstOfConflicting`: a request that the table permits has no conflicting one before
it that is held up. A release looks at each request of a list that it shortens
meanwhile; `ReleaseSound` takes the first look after which the tables would not be
sound, and finds that the one before it was sound. From `ClientInv` the refinement
follows by `StartsInOrder`: what is under way is the first on its entry and the first
of its die, so that nothing accepted before it conflicts with it. Each step of the
layer is also described as what it does to the list of outstanding requests
(`StepOfList`): it takes one at the end, one ends, or the list goes on as it was.

For the device, `DeviceInv` joins three accounts of a slice: the maps of the
translation layer, the entries and dirty flags of the data buffer, and the requests
that are still to be carried out. The proofs of the FTL are used as they are; those of
the request layer through the instance `Layer`, whose client is the device: the pages
it has submitted are those that the FTL handed out, but for the requests in hand
(`Written`). `DeviceInv` does not follow the contents of entries and pages through the
order in which requests happen to end. It says instead how everything would end:
`Outcome(Ahead, Memory, fin)` carries out all outstanding requests and those in hand
one after the other, in the order of acceptance, and in the memory `fin` at which that
arrives each mapped page holds what the FTL says (`PagesOK`) and each entry what the
host wrote last to its slice, except one that is about to be filled (`EntriesOK`);
a slice with no dirty entry is what the FTL stores (`StoredOK`), so that a load finds it;
and every transfer to the host on the way sends what was the latest when
it was accepted. A request that is accepted extends the run at its end
(`OutcomeAppend`). A request that ends is not the first one in general; but those
before it are independent of it (`ApartRequests`, from `StartsInOrder`), so that it may
as well have been carried out first (`DoneCommutes`, `OutcomeRemove`), and the outcome
stays. Hence a transfer under way to the host finds its data in place already
(`OutcomeServes`), and once nothing is ahead the memory is the outcome. A failure that
loses data sets `lost`, after which only order and tables are claimed.

For the graph, `GraphInv` is inductive: besides types and `LinksSound` (`AllSound`) it
says that links lead only to nodes that have been linked, or to the entry point
(`LinkedOnly`), so that the search for a new node finds others to link it to. What is
hard is one step, as it runs five loops within each other.
`TurnByTurn` and `LoopEnds` argue about a loop by the least turn that goes wrong; of
the heaps it is enough that sifting permutes the elements, keeps the root on top of
all others, and that `MinPop` takes one element away.
- `SearchFinds` says what a search returns: different nodes of the closed set that it
  starts in, `ef` of them unless they are closed themselves. Each turn either expands
  one more node or changes nothing (`Gap`), so that after `Total` turns, by the
  pigeonhole principle, nothing is left to visit. The search is never cut by the test
  against its farthest result (`NeverCut`): every visited node is a result as long as
  there are fewer than `ef`, and the root of the max-heap is on top of them all.
- `GreedyStays`: the top level has the entry point alone, so that all searches start
  from it.
- `SearchesFillUp` follows with the set `Reached`, which is closed, and the least such:
  a search that ends before `ef` results has found a closed set, hence all of it.
- `LevelsLinked` describes the levels that a step has done. Were the new node not
  reachable, then none of its neighbors, which link back to it, and only these have
  changed. So the nodes that are reachable were a closed set already before, and the
  search, which begins in it, found the neighbors there: a contradiction.

**Only model-checked.** Liveness (`CompactionEnds`, `BuildEnds`, `AllFinish`), as
fairness and ENABLED are outside what TLAPS supports here. Every invariant and every
other action property or refinement that a passing run checks is stated by a theorem.
The runs that expect a violation state what does not hold.

## 6. Not modelled

- The interrupt handler of the controller and the counters of the host DMA
  (`nvme/host_lld.c`): what they must be right about is how the FPGA and the host
  driver behave, which the repository does not have. RequestScheduler takes a
  completed transfer as completed.
- The skiplist: sequential, with randomly drawn levels, and seen by others only as
  a map; the k-way merge loop of `DoCompactionImpl` likewise.
- The host's scheduler and tracker: they choose when to send commands by measured
  latencies; the models take commands in any order.
- At boot: reading and building the bad block table and remapping blocks, which run
  once before the first command; and the marking of grown bad blocks, which is not
  looked at before the next boot.
- Most of the repository's lines are vendored board support, start-up code generated
  for the FPGA, and Xilinx drivers, which have no behaviour of this system.
- Floating-point distances and the recall of an HNSW graph: not a question for
  a model checker. IndexBuilder has a graph as the set of nodes linked into it,
  HnswGraph its links. That a node stays reachable is not claimed either: a later
  eviction may cut it off, and `NewNodeReachable` is about the node just linked.
- NAND driver, identify data, board support, FPGA files, generated code, plots
  and workload generation: register writes or constant data without control.
- Running out of the reverse log: no handler checks for it, and the models keep
  the log unbounded.
- Pages that no segment owns: the last page of a victim and a victim's index
  pages are never invalidated. The models show it (`mapped` only grows by them),
  but nothing in the repository promises otherwise, so no property states it.
