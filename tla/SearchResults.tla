---------------------------- MODULE SearchResults ----------------------------
(***************************************************************************)
(* The result buffer of a search (TOP_K_CURRENT_DISTANCE_BUFFER) and       *)
(* mergeSearchResults of vector/hnsw.c, which inserts the candidates that  *)
(* the search of one segment hands over, one by one, and then tells        *)
(* whether the search may stop.  Distances are integers, all below         *)
(* FLT_MAX; the id of a candidate stands for one vector of one segment.    *)
(***************************************************************************)
EXTENDS Integers

CONSTANTS
  top_k,
  Id,        \* candidates
  Distance,
  EPSILON

ASSUME ResultsAssumption ==
  /\ top_k \in Nat \ {0}
  /\ Distance \subseteq Int
  /\ EPSILON \in Int

Candidate == [id : Id, dist : Distance]

VARIABLES
  validGlobalCount,  \* entries of the buffer in use: those below FLT_MAX
  results,           \* these entries, nearest first
  offered,           \* all candidates handed over by this search
  early              \* the last call returned 1 and no other has begun

resultVars == <<validGlobalCount, results, offered, early>>

NoResults == [j \in 1..0 |-> 0]

ResultsInit ==
  /\ validGlobalCount = 0
  /\ results = NoResults
  /\ offered = {}
  /\ early = FALSE

\* tryVectorSearch clears the buffer.
NewSearch ==
  /\ validGlobalCount' = 0
  /\ results' = NoResults
  /\ offered' = {}
  /\ early' = FALSE

Offer(c) ==
  /\ \A o \in offered : o.id # c.id
  /\ offered' = offered \cup {c}
  /\ early' = FALSE

TooFar(c) == validGlobalCount = top_k /\ c.dist >= results[top_k].dist

Skip(c) == Offer(c) /\ TooFar(c) /\ UNCHANGED <<validGlobalCount, results>>

IsInsertPosNoBreak(p, c) ==
  p <= validGlobalCount => c.dist < results[p].dist

\* The first entry that is farther than c, or the end.
IsInsertPos(p, c) ==
  /\ \A j \in 1..p-1 : results[j].dist <= c.dist
  /\ p <= validGlobalCount => c.dist < results[p].dist

InsertedUnshifted(p, c, n) ==
  [j \in 1..n |-> IF j = p THEN c
                  ELSE IF j <= validGlobalCount THEN results[j] ELSE results[j-1]]

\* c at position p, what was there and after it moved by one, n entries kept.
Inserted(p, c, n) ==
  [j \in 1..n |-> IF j < p THEN results[j] ELSE IF j = p THEN c ELSE results[j-1]]

GrownUnchecked == validGlobalCount + 1
Grown == IF validGlobalCount < top_k THEN validGlobalCount + 1 ELSE validGlobalCount

Insert(c, p) ==
  /\ Offer(c) /\ ~TooFar(c)
  /\ IsInsertPos(p, c)
  /\ validGlobalCount' = Grown
  /\ results' = IF p <= top_k THEN Inserted(p, c, validGlobalCount') ELSE results

MergeCandidate(c) == Skip(c) \/ \E p \in 1..validGlobalCount+1 : Insert(c, p)

MaxPositionBeforeLast ==
  IF validGlobalCount > 1 THEN validGlobalCount - 1 ELSE validGlobalCount

MaxPosition == IF validGlobalCount < top_k THEN validGlobalCount ELSE top_k

\* With no results the code reads the word before the array, which may hold
\* anything; only calls whose return value is not used get there.
MergeReturns ==
  /\ early' \in IF validGlobalCount = 0 THEN BOOLEAN
                ELSE {results[MaxPosition].dist <= EPSILON}
  /\ UNCHANGED <<validGlobalCount, results, offered>>

ResultsNext ==
  \/ NewSearch
  \/ \E c \in Candidate : MergeCandidate(c)
  \/ MergeReturns

ResultsSpec == ResultsInit /\ [][ResultsNext]_resultVars

-----------------------------------------------------------------------------
(***************************************************************************)
(* Type invariant.                                                         *)
(***************************************************************************)
ResultsTypeOK ==
  /\ validGlobalCount \in 0..top_k
  /\ results \in [1..validGlobalCount -> Candidate]
  /\ offered \subseteq Candidate
  /\ early \in BOOLEAN

(***************************************************************************)
(* The buffer is sorted between any two insertions: the scan for a place   *)
(* and the test against the last entry rely on it.                         *)
(***************************************************************************)
Sorted ==
  \A i, j \in 1..validGlobalCount : i < j => results[i].dist <= results[j].dist

(***************************************************************************)
(* Whatever segments were searched and in whatever order, the buffer holds *)
(* candidates that were handed over, each once, and leaves one out only    *)
(* for top_k others that are at least as near.                             *)
(***************************************************************************)
NearestKept ==
  /\ \A j \in 1..validGlobalCount : results[j] \in offered
  /\ \A i, j \in 1..validGlobalCount : results[i] = results[j] => i = j
  /\ \A c \in offered :
       (\A j \in 1..validGlobalCount : results[j] # c) =>
         /\ validGlobalCount = top_k
         /\ \A j \in 1..validGlobalCount : results[j].dist <= c.dist

(***************************************************************************)
(* A search that stops early has no result farther than EPSILON.           *)
(***************************************************************************)
ExitNear ==
  early => \A j \in 1..validGlobalCount : results[j].dist <= EPSILON
=============================================================================
