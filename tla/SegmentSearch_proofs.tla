------------------------ MODULE SegmentSearch_proofs ------------------------
(***************************************************************************)
(* Proofs about the walk of a search over the sealed segments, for every   *)
(* geometry of the rings, every number of segments with and without an     *)
(* index, and every early exit; and about the buffer that gathers its      *)
(* results, for every top_k and every set of candidates.                   *)
(***************************************************************************)
EXTENDS SegmentSearch, SearchResults, IndexBuilder_proofs, SequenceTheorems

searchVars == <<vars, walkVars>>

(***************************************************************************)
(* What holds between two visits of a walk: the completed flags of the     *)
(* listed segments are set exactly for those seen, and the second pass     *)
(* begins only when all indexed ones have been seen.                       *)
(***************************************************************************)
Place == IndexedLevel \X Nat

SeenType ==
  /\ walk \in {"none", "indexed", "unindexed"}
  /\ seen \in Seq(Place)
  /\ earlyExitFlag \in {-1, 0, 1}
  /\ walk = "none" => seen = <<>> /\ earlyExitFlag = 0

NoRepeats == \A i, j \in 1..Len(seen) : seen[i] = seen[j] => i = j

FlagsMarkSeen ==
  walk # "none" =>
    /\ SeenSet = {p \in Listed : SlotOf(p) \in completed}
    /\ bruteforceSearchActivated = (Indexed # Listed)

Passes ==
  /\ walk = "indexed" => SeenSet \subseteq Indexed
  /\ walk = "unindexed" => earlyExitFlag = 0 /\ Indexed \subseteq SeenSet

WalkInv == SeenType /\ NoRepeats /\ FlagsMarkSeen /\ Passes

SearchIInv == BuilderIInv /\ WalkInv

(***************************************************************************)
(* Places and slots.                                                       *)
(***************************************************************************)
LEMMA ListedType ==
  ASSUME NEW p \in Listed
  PROVE  /\ p \in Place /\ p = <<p[1], p[2]>>
         /\ p[1] \in Level /\ p[1] \in IndexedLevel
         /\ p[2] \in Visited(p[1]) /\ p[2] \in 0..MaxSealed[p[1]]-1
BY DEF Listed, Visited, IndexedLevel, Level, Place

LEMMA IndexedListed == Indexed \subseteq Listed
BY DEF Indexed

LEMMA ListedInAll == Listed \subseteq AllListed
BY DEF Listed, AllListed, IndexedLevel, Level

\* Two places of the rings are never one slot.
LEMMA SlotOfInjective ==
  ASSUME IInv, NEW p \in Listed, NEW q \in Listed, SlotOf(p) = SlotOf(q)
  PROVE  p = q
<1>1. p[1] = q[1] /\ RingAdd(p[1], head[p[1]], p[2]) = RingAdd(q[1], head[q[1]], q[2])
  BY DEF SlotOf
<1>2. head[p[1]] \in 0..MaxSealed[p[1]]-1
  BY ListedType DEF IInv, TypeOK
<1>3. p[2] = q[2]
  BY <1>1, <1>2, ListedType, RingAddInjective
<1> QED
  BY <1>1, <1>3, ListedType

\* Steps that leave the rings alone leave every place where it is.
LEMMA PlacesFrame ==
  ASSUME UNCHANGED segVars
  PROVE  /\ Listed' = Listed /\ Indexed' = Indexed
         /\ \A p : SlotOf(p)' = SlotOf(p)
         /\ \A p : SegmentAt(p)' = SegmentAt(p)
<1>1. UNCHANGED <<slots, level_count, head>>
  BY DEF segVars
<1>2. \A p : SlotOf(p)' = SlotOf(p)
  BY <1>1 DEF SlotOf, RingAdd
<1>3. \A p : SegmentAt(p)' = SegmentAt(p)
  BY <1>1 DEF SegmentAt, At, RingAdd
<1>4. Listed' = Listed
  BY <1>1 DEF Listed, Visited
<1>5. Indexed' = Indexed
  BY <1>3, <1>4 DEF Indexed, HasIndex
<1> QED
  BY <1>2, <1>3, <1>4, <1>5

(***************************************************************************)
(* The steps of a walk.                                                    *)
(***************************************************************************)
LEMMA WalkInitial == SearchInit => SearchIInv
<1> SUFFICES ASSUME SearchInit PROVE SearchIInv
  OBVIOUS
<1>1. BuilderIInv
  BY InitIInv DEF SearchInit, BuilderInit, BuilderIInv, TargetType
<1>2. WalkInv
  BY DEF SearchInit, WalkInv, SeenType, NoRepeats, FlagsMarkSeen, Passes, SeenSet
<1> QED
  BY <1>1, <1>2 DEF SearchIInv

\* A search starts with nothing seen and no listed segment's flag set.
LEMMA BeginStep ==
  ASSUME SearchIInv, BeginSearch
  PROVE  WalkInv'
<1>1. /\ walk = "none" /\ walk' = "indexed" /\ UNCHANGED segVars
      /\ UNCHANGED <<earlyExitFlag, seen>>
      /\ completed' = completed \ {SlotOf(p) : p \in AllListed}
      /\ bruteforceSearchActivated' = (Indexed # Listed)
  BY DEF BeginSearch, vars
<1>2. seen = <<>> /\ earlyExitFlag = 0
  BY <1>1 DEF SearchIInv, WalkInv, SeenType
<1>3. SeenSet' = {} /\ SeenSet = {}
  BY <1>1, <1>2 DEF SeenSet
<1>4. \A p \in Listed' : SlotOf(p)' \notin completed'
  BY <1>1, PlacesFrame, ListedInAll
<1>5. SeenType' /\ NoRepeats'
  BY <1>1, <1>2 DEF SearchIInv, WalkInv, SeenType, NoRepeats
<1>6. FlagsMarkSeen'
  BY <1>1, <1>3, <1>4, PlacesFrame DEF FlagsMarkSeen
<1>7. Passes'
  BY <1>1, <1>3 DEF Passes
<1> QED
  BY <1>5, <1>6, <1>7 DEF WalkInv

\* A visit adds one segment that was not seen before.
LEMMA VisitStep ==
  ASSUME SearchIInv, walk # "none", UNCHANGED segVars,
         NEW p \in Listed, SlotOf(p) \notin completed,
         completed' = completed \cup {SlotOf(p)},
         seen' = Append(seen, p)
  PROVE  /\ seen' \in Seq(Place) /\ NoRepeats'
         /\ p \notin SeenSet
         /\ SeenSet' = SeenSet \cup {p}
         /\ SeenSet' = {q \in Listed' : SlotOf(q)' \in completed'}
<1>1. seen \in Seq(Place) /\ NoRepeats
  BY DEF SearchIInv, WalkInv, SeenType
<1>2. SeenSet = {q \in Listed : SlotOf(q) \in completed}
  BY DEF SearchIInv, WalkInv, FlagsMarkSeen
<1>3. p \in Place
  BY ListedType
<1>4. p \notin SeenSet
  BY <1>2
<1>5. /\ seen' \in Seq(Place) /\ Len(seen') = Len(seen) + 1
      /\ \A i \in 1..Len(seen) : seen'[i] = seen[i]
      /\ seen'[Len(seen) + 1] = p
      /\ Len(seen) \in Nat
      /\ DOMAIN seen = 1..Len(seen) /\ DOMAIN seen' = 1..Len(seen')
  BY <1>1, <1>3, AppendProperties
<1>6. \A i \in 1..Len(seen) : seen[i] # p
  BY <1>4, <1>5 DEF SeenSet
<1>7. NoRepeats'
  <2> SUFFICES ASSUME NEW i \in 1..Len(seen'), NEW j \in 1..Len(seen'),
                      seen'[i] = seen'[j]
               PROVE  i = j
    BY DEF NoRepeats
  <2>1. CASE i \in 1..Len(seen) /\ j \in 1..Len(seen)
    BY <1>1, <1>5, <2>1 DEF NoRepeats
  <2>2. CASE i = Len(seen) + 1
    BY <1>5, <1>6, <2>2
  <2>3. CASE j = Len(seen) + 1
    BY <1>5, <1>6, <2>3
  <2> QED
    BY <1>5, <2>1, <2>2, <2>3
<1>8. SeenSet' = SeenSet \cup {p}
  <2>1. \A i \in 1..Len(seen') : i \in 1..Len(seen) \/ i = Len(seen) + 1
    BY <1>5
  <2>2. \A i \in 1..Len(seen) : i \in 1..Len(seen')
    BY <1>5
  <2>3. Len(seen) + 1 \in 1..Len(seen')
    BY <1>5
  <2>4. SeenSet' = {seen'[i] : i \in 1..Len(seen')}
    BY <1>5 DEF SeenSet
  <2>5. SeenSet = {seen[i] : i \in 1..Len(seen)}
    BY <1>5 DEF SeenSet
  <2> QED
    BY <1>5, <2>1, <2>2, <2>3, <2>4, <2>5
<1>9. SeenSet' = {q \in Listed' : SlotOf(q)' \in completed'}
  <2>1. \A q \in Listed : SlotOf(q) = SlotOf(p) => q = p
    BY SlotOfInjective DEF SearchIInv, BuilderIInv
  <2> QED
    BY <1>2, <1>8, <2>1, PlacesFrame
<1> QED
  BY <1>4, <1>5, <1>7, <1>8, <1>9

LEMMA SearchIndexedStep ==
  ASSUME SearchIInv, NEW exit \in {-1, 0, 1}, SearchIndexed(exit)
  PROVE  WalkInv'
<1> DEFINE p == Earliest(Pending(Indexed))
<1>1. p \in Indexed /\ p \in Listed /\ SlotOf(p) \notin completed
  <2>1. Pending(Indexed) \in SUBSET Listed /\ Pending(Indexed) # {}
    BY IndexedListed DEF Pending, SearchIndexed
  <2>2. p \in Pending(Indexed)
    BY <2>1, EarliestExists
  <2> QED
    BY <2>2, IndexedListed DEF Pending
<1>2. /\ walk = "indexed" /\ walk' = walk /\ UNCHANGED segVars
      /\ completed' = completed \cup {SlotOf(p)}
      /\ seen' = Append(seen, p)
      /\ UNCHANGED bruteforceSearchActivated
      /\ earlyExitFlag' = exit
  BY DEF SearchIndexed, Visit
<1> HIDE DEF p
<1>3. /\ seen' \in Seq(Place) /\ NoRepeats' /\ SeenSet' = SeenSet \cup {p}
      /\ SeenSet' = {q \in Listed' : SlotOf(q)' \in completed'}
  BY <1>1, <1>2, VisitStep
<1>4. SeenType'
  BY <1>2, <1>3 DEF SeenType
<1>5. FlagsMarkSeen'
  BY <1>2, <1>3, PlacesFrame DEF FlagsMarkSeen, SearchIInv, WalkInv
<1>6. Passes'
  BY <1>1, <1>2, <1>3, PlacesFrame DEF Passes, SearchIInv, WalkInv
<1> QED
  BY <1>3, <1>4, <1>5, <1>6 DEF WalkInv

\* The second pass begins when every indexed segment has been seen.
LEMMA BeginUnindexedStep ==
  ASSUME SearchIInv, BeginUnindexed
  PROVE  WalkInv' /\ Indexed = SeenSet
<1>1. /\ walk = "indexed" /\ walk' = "unindexed" /\ UNCHANGED segVars
      /\ UNCHANGED <<completed, bruteforceSearchActivated, earlyExitFlag, seen>>
      /\ Pending(Indexed) = {} /\ earlyExitFlag = 0
  BY DEF BeginUnindexed, IndexedDone, BruteForceNext, vars
<1>2. SeenType /\ NoRepeats /\ FlagsMarkSeen /\ Passes
  BY DEF SearchIInv, WalkInv
<1>3. Indexed \subseteq SeenSet
  BY <1>1, <1>2, IndexedListed DEF Pending, FlagsMarkSeen
<1>4. SeenSet' = SeenSet
  BY <1>1 DEF SeenSet
<1>5. SeenType' /\ NoRepeats'
  BY <1>1, <1>2 DEF SeenType, NoRepeats
<1>6. FlagsMarkSeen'
  BY <1>1, <1>2, <1>4, PlacesFrame DEF FlagsMarkSeen
<1>7. Passes' /\ Indexed = SeenSet
  BY <1>1, <1>2, <1>3, <1>4, PlacesFrame DEF Passes
<1> QED
  BY <1>5, <1>6, <1>7 DEF WalkInv

LEMMA SearchUnindexedStep ==
  ASSUME SearchIInv, SearchUnindexed
  PROVE  WalkInv'
<1> DEFINE p == Earliest(Pending(Listed \ Indexed))
<1>1. p \in Listed /\ SlotOf(p) \notin completed
  <2>1. Pending(Listed \ Indexed) \in SUBSET Listed /\ Pending(Listed \ Indexed) # {}
    BY DEF Pending, SearchUnindexed
  <2>2. p \in Pending(Listed \ Indexed)
    BY <2>1, EarliestExists
  <2> QED
    BY <2>2 DEF Pending
<1>2. /\ walk = "unindexed" /\ walk' = walk /\ UNCHANGED segVars
      /\ completed' = completed \cup {SlotOf(p)}
      /\ seen' = Append(seen, p)
      /\ UNCHANGED <<bruteforceSearchActivated, earlyExitFlag>>
  BY DEF SearchUnindexed, Visit
<1> HIDE DEF p
<1>3. /\ seen' \in Seq(Place) /\ NoRepeats' /\ SeenSet' = SeenSet \cup {p}
      /\ SeenSet' = {q \in Listed' : SlotOf(q)' \in completed'}
  BY <1>1, <1>2, VisitStep
<1>4. SeenType'
  BY <1>2, <1>3 DEF SeenType, SearchIInv, WalkInv
<1>5. FlagsMarkSeen'
  BY <1>2, <1>3, PlacesFrame DEF FlagsMarkSeen, SearchIInv, WalkInv
<1>6. Passes'
  BY <1>2, <1>3, PlacesFrame DEF Passes, SearchIInv, WalkInv
<1> QED
  BY <1>3, <1>4, <1>5, <1>6 DEF WalkInv

\* While no walk is under way, only its flags may change.
LEMMA NoWalkStep ==
  ASSUME SearchIInv, walk' = "none", seen' = <<>>, earlyExitFlag' = 0
  PROVE  WalkInv'
BY DEF WalkInv, SeenType, NoRepeats, FlagsMarkSeen, Passes

(***************************************************************************)
(* The invariant is inductive.                                             *)
(***************************************************************************)
LEMMA WalkInductive ==
  ASSUME SearchIInv, [SearchNext]_searchVars
  PROVE  SearchIInv'
<1>1. BuilderIInv'
  <2>1. CASE SearchForNone \/ WriteStep \/ OtherStep
    BY <2>1, BuilderStepInv
       DEF SearchForNone, WriteStep, OtherStep, SearchIInv, BuilderNext, Command
  <2>2. CASE \/ BeginSearch \/ BeginUnindexed \/ SearchUnindexed \/ EndSearch
             \/ \E exit \in {-1, 0, 1} : SearchIndexed(exit)
             \/ UNCHANGED searchVars
    <3>1. UNCHANGED segVars /\ UNCHANGED target
      BY <2>2 DEF BeginSearch, BeginUnindexed, SearchUnindexed, EndSearch,
                  SearchIndexed, Visit, searchVars, vars, buildVars
    <3> QED
      BY <3>1, SegmentFrame DEF SearchIInv, BuilderIInv, TargetType
  <2> QED
    BY <2>1, <2>2 DEF SearchNext, SearchStep
<1>2. WalkInv'
  <2>1. CASE BeginSearch
    BY <2>1, BeginStep
  <2>2. ASSUME NEW exit \in {-1, 0, 1}, SearchIndexed(exit) PROVE WalkInv'
    BY <2>2, SearchIndexedStep
  <2>3. CASE BeginUnindexed
    BY <2>3, BeginUnindexedStep
  <2>4. CASE SearchUnindexed
    BY <2>4, SearchUnindexedStep
  <2>5. CASE EndSearch
    BY <2>5, NoWalkStep DEF EndSearch
  <2>6. CASE SearchForNone \/ WriteStep \/ OtherStep
    <3>1. walk = "none" /\ UNCHANGED <<walk, earlyExitFlag, seen>>
      BY <2>6 DEF SearchForNone, WriteStep, OtherStep, walkVars
    <3> QED
      BY <3>1, NoWalkStep DEF SearchIInv, WalkInv, SeenType
  <2>7. CASE UNCHANGED searchVars
    <3>1. /\ UNCHANGED segVars
          /\ UNCHANGED <<walk, completed, bruteforceSearchActivated,
                         earlyExitFlag, seen>>
      BY <2>7 DEF searchVars, vars, walkVars
    <3>2. SeenSet' = SeenSet
      BY <3>1 DEF SeenSet
    <3>3. WalkInv
      BY DEF SearchIInv
    <3>4. SeenType' /\ NoRepeats'
      BY <3>1, <3>3 DEF WalkInv, SeenType, NoRepeats
    <3>5. FlagsMarkSeen' /\ Passes'
      BY <3>1, <3>2, <3>3, PlacesFrame DEF WalkInv, FlagsMarkSeen, Passes
    <3> QED
      BY <3>4, <3>5 DEF WalkInv
  <2> QED
    BY <2>1, <2>2, <2>3, <2>4, <2>5, <2>6, <2>7 DEF SearchNext, SearchStep
<1> QED
  BY <1>1, <1>2 DEF SearchIInv

LEMMA WalkInvariance == SearchSpec => []SearchIInv
<1>1. SearchIInv /\ [SearchNext]_searchVars => SearchIInv'
  BY WalkInductive
<1> QED
  BY <1>1, WalkInitial, PTL DEF SearchSpec, searchVars

(***************************************************************************)
(* No search looks at a segment twice, although each pass starts over from *)
(* the heads of the rings for every segment (findNextSs, nvme_io_cmd.c).   *)
(***************************************************************************)
THEOREM NothingTwice == SearchSpec => []SeenOnce
<1>1. SearchIInv => SeenOnce
  <2> SUFFICES ASSUME SearchIInv PROVE SeenOnce
    OBVIOUS
  <2>1. seen \in Seq(Place) /\ NoRepeats
    BY DEF SearchIInv, WalkInv, SeenType
  <2>2. Len(seen) \in Nat /\ DOMAIN seen = 1..Len(seen)
    BY <2>1
  <2> DEFINE f == [i \in 1..Len(seen) |-> seen[i]]
  <2>3. f \in [1..Len(seen) -> SeenSet]
    BY <2>2 DEF SeenSet
  <2>4. \A i, j \in 1..Len(seen) : f[i] = f[j] => i = j
    BY <2>1 DEF NoRepeats
  <2>5. \A p \in SeenSet : \E i \in 1..Len(seen) : f[i] = p
    BY <2>2 DEF SeenSet
  <2> HIDE DEF f
  <2>6. ExistsBijection(1..Len(seen), SeenSet)
    BY <2>3, <2>4, <2>5
       DEF ExistsBijection, Bijection, Injection, Surjection, IsInjective
  <2> QED
    BY <2>2, <2>6, FS_CountingElements DEF SeenOnce
<1> QED
  BY <1>1, WalkInvariance, PTL

(***************************************************************************)
(* When a search ends without an early exit, every listed segment of       *)
(* levels 1..3 has been seen; with one, or after a failure, only segments  *)
(* with an index have been.                                                *)
(***************************************************************************)
THEOREM NothingMissed == SearchSpec => SeenAtEnd
<1>1. SearchIInv /\ [SearchNext]_searchVars =>
        [walk # "none" /\ walk' = "none" =>
           CASE earlyExitFlag = 0  -> SeenSet = Listed
             [] earlyExitFlag = 1  -> SeenSet \subseteq Indexed
             [] earlyExitFlag = -1 -> SeenSet = Indexed]_searchVars
  <2> SUFFICES ASSUME SearchIInv, SearchNext, walk # "none", walk' = "none"
               PROVE  /\ earlyExitFlag = 0  => SeenSet = Listed
                      /\ earlyExitFlag = 1  => SeenSet \subseteq Indexed
                      /\ earlyExitFlag = -1 => SeenSet = Indexed
                      /\ earlyExitFlag \in {-1, 0, 1}
    OBVIOUS
  <2>1. EndSearch
    BY DEF SearchNext, SearchStep, BeginSearch, SearchIndexed, BeginUnindexed,
           SearchUnindexed, Visit, SearchForNone, WriteStep, OtherStep, walkVars
  <2>2. /\ earlyExitFlag \in {-1, 0, 1}
        /\ SeenSet = {p \in Listed : SlotOf(p) \in completed}
        /\ bruteforceSearchActivated = (Indexed # Listed)
    BY DEF SearchIInv, WalkInv, SeenType, FlagsMarkSeen
  <2>3. Indexed \subseteq Listed
    BY IndexedListed
  <2>4. CASE IndexedDone /\ ~BruteForceNext
    <3>1. /\ walk = "indexed" /\ (Pending(Indexed) = {} \/ earlyExitFlag = 1)
          /\ earlyExitFlag = 0 => ~bruteforceSearchActivated
      BY <2>4 DEF IndexedDone, BruteForceNext
    <3>2. SeenSet \subseteq Indexed
      BY <3>1 DEF SearchIInv, WalkInv, Passes
    <3>3. Pending(Indexed) = {} => SeenSet = Indexed
      BY <2>2, <2>3, <3>2 DEF Pending
    <3>4. earlyExitFlag = 0 => Indexed = Listed
      BY <2>2, <3>1
    <3>5. earlyExitFlag # 1 => SeenSet = Indexed
      BY <3>1, <3>3
    <3> QED
      BY <2>2, <3>2, <3>4, <3>5
  <2>5. CASE UnindexedDone
    <3>1. earlyExitFlag = 0 /\ Indexed \subseteq SeenSet
      BY <2>5 DEF UnindexedDone, SearchIInv, WalkInv, Passes
    <3>2. Listed \ Indexed \subseteq SeenSet
      BY <2>2, <2>5 DEF UnindexedDone, Pending
    <3> QED
      BY <2>2, <3>1, <3>2
  <2> QED
    BY <2>1, <2>4, <2>5 DEF EndSearch
<1> QED
  BY <1>1, WalkInvariance, PTL DEF SearchSpec, SeenAtEnd, searchVars

-----------------------------------------------------------------------------
(***************************************************************************)
(* The walk implements the search that IndexBuilder takes in one action:   *)
(* whatever the rings hold and wherever a search stops, the loop of the    *)
(* firmware sees one atomic search.                                        *)
(***************************************************************************)

(***************************************************************************)
(* The instance `Atomic' differs from IndexBuilder only in `tables' and    *)
(* `header', which hold their earlier values while a walk is under way.    *)
(***************************************************************************)
\* What the abstract search reads of the rings is what the walk reads.
LEMMA SameRings ==
  /\ \A l, i, n : Atomic!RingAdd(l, i, n) = RingAdd(l, i, n)
  /\ \A l : Atomic!Visited(l) = Visited(l)
  /\ \A l, j : Atomic!At(l, j) = At(l, j)
  /\ \A l : Atomic!NumVictimsOf(l) = NumVictimsOf(l)
  /\ \A l : Atomic!IsVictimLevel(l) <=> IsVictimLevel(l)
  /\ \A l : Atomic!NeedsCompaction(l) <=> NeedsCompaction(l)
BY DEF Atomic!RingAdd, RingAdd, Atomic!Visited, Visited, Atomic!At, At,
       Atomic!NumVictimsOf, NumVictimsOf, Atomic!Threshold, Threshold,
       Atomic!IsVictimLevel, IsVictimLevel,
       Atomic!NeedsCompaction, NeedsCompaction

\* So are the sizes of tables.  Cardinality, too, is a copy inside the instance.
LEMMA SameTables ==
  /\ Atomic!NoLba = NoLba /\ Atomic!NoEntries = NoEntries
  /\ Atomic!Cleared = Cleared
  /\ \A e : Atomic!KeysOf(e) = KeysOf(e)
  /\ \A S : Atomic!Cardinality(S) = Cardinality(S)
  /\ \A e : Atomic!TablePages(e) = TablePages(e)
  /\ \A e : Atomic!NewPages(e) = NewPages(e)
  /\ \A n, m : Atomic!PagesFor(n, m) = PagesFor(n, m)
<1>1. Atomic!NoLba = NoLba
  BY DEF Atomic!NoLba, NoLba
<1>2. Atomic!NoEntries = NoEntries /\ \A e : Atomic!KeysOf(e) = KeysOf(e)
  BY <1>1 DEF Atomic!NoEntries, NoEntries, Atomic!KeysOf, KeysOf
<1>3. \A S : Atomic!Cardinality(S) = Cardinality(S)
  BY DEF Atomic!Cardinality, Cardinality
<1>4. \A n, m : Atomic!PagesFor(n, m) = PagesFor(n, m)
  BY DEF Atomic!PagesFor, PagesFor
<1>5. \A e : Atomic!TablePages(e) = TablePages(e)
  BY <1>2, <1>3, <1>4 DEF Atomic!TablePages, TablePages
<1>6. \A e : Atomic!NewPages(e) = NewPages(e)
  BY <1>5 DEF Atomic!NewPages, NewPages
<1>7. Atomic!Cleared = Cleared
  BY <1>2 DEF Atomic!Cleared, Cleared
<1> QED
  BY <1>1, <1>2, <1>3, <1>4, <1>5, <1>6, <1>7

\* So is what a compaction computes.
LEMMA SameMerge ==
  /\ \A l : Atomic!Merge(l) = Merge(l)
  /\ \A l : Atomic!Victims(l) = Victims(l)
  /\ \A v : Atomic!Invalidated(v) = Invalidated(v)
  /\ \A l : Atomic!ClearVictims(l) = ClearVictims(l)
<1>2. \A l : Atomic!Merge(l) = Merge(l)
  BY DEF Atomic!Merge, Merge, Atomic!HoldersIn, HoldersIn, Atomic!At, At,
         Atomic!NumVictimsOf, NumVictimsOf, Atomic!Threshold, Threshold,
         Atomic!RingAdd, RingAdd, Atomic!NoLba, NoLba
<1>3. \A l : Atomic!Victims(l) = Victims(l)
  BY SameRings DEF Atomic!Victims, Victims
<1>4. \A v : Atomic!Invalidated(v) = Invalidated(v)
  BY DEF Atomic!Invalidated, Invalidated
<1>5. \A l : Atomic!ClearVictims(l) = ClearVictims(l)
  BY SameRings, SameTables DEF Atomic!ClearVictims, ClearVictims
<1> QED
  BY <1>2, <1>3, <1>4, <1>5

\* The steps of the write path are those of the instance.
LEMMA SameAppend ==
  ASSUME NEW l, NEW e, NEW c, AppendSegment(l, e, c)
  PROVE  Atomic!AppendSegment(l, e, c)
<1>1. \A f : Atomic!Sealed(e, f) = Sealed(e, f)
  BY DEF Atomic!Sealed, Sealed
<1> QED
  BY <1>1, SameRings, SameTables DEF Atomic!AppendSegment, AppendSegment

LEMMA SameKvPut ==
  ASSUME NEW k, KvPut(k)
  PROVE  Atomic!KvPut(k)
<1>1. Atomic!Full <=> Full
  BY SameTables DEF Atomic!Full, Full
<1>2. CompactGrowingSegment => Atomic!CompactGrowingSegment
  BY SameAppend, SameTables
     DEF Atomic!CompactGrowingSegment, CompactGrowingSegment
<1> QED
  BY <1>1, <1>2, SameTables
     DEF Atomic!KvPut, KvPut, Atomic!PutWithoutSeal, PutWithoutSeal,
         Atomic!PutAfterSeal, PutAfterSeal, Atomic!Put, Put

LEMMA SameCompaction ==
  ASSUME CompactionLoop
  PROVE  Atomic!CompactionLoop
<1>1. ASSUME NEW l \in 0..2, DoCompaction(l) PROVE Atomic!DoCompaction(l)
  <2>1. Atomic!AppendSegment(l + 1, Merge(l), ClearVictims(l))
    BY <1>1, SameAppend DEF DoCompaction
  <2>2. UNION {Atomic!Invalidated(v) : v \in Atomic!Victims(l)}
          = UNION {Invalidated(v) : v \in Victims(l)}
    BY SameMerge
  <2> QED
    BY <1>1, <2>1, <2>2, SameRings, SameTables, SameMerge
       DEF Atomic!DoCompaction, DoCompaction
<1>2. CompactionDone => Atomic!CompactionDone
  BY SameRings DEF Atomic!CompactionDone, CompactionDone
<1> QED
  BY <1>1, <1>2 DEF Atomic!CompactionLoop, CompactionLoop

\* The order of a search, and what it finds at a place.
LEMMA SamePlaces ==
  /\ \A p : Atomic!SegmentAt(p) = SegmentAt(p)
  /\ \A s : Atomic!HasIndex(s) <=> HasIndex(s)
  /\ Atomic!Listed = Listed /\ Atomic!Indexed = Indexed
  /\ \A S : Atomic!Earliest(S) = Earliest(S) /\ Atomic!Latest(S) = Latest(S)
  /\ \A x : Atomic!HeaderAt(x) = HeaderAt(x)
<1>1. \A p : Atomic!SegmentAt(p) = SegmentAt(p)
  BY SameRings DEF Atomic!SegmentAt, SegmentAt
<1>2. \A s : Atomic!HasIndex(s) <=> HasIndex(s)
  BY DEF Atomic!HasIndex, HasIndex
<1>3. Atomic!Listed = Listed
  BY SameRings DEF Atomic!Listed, Listed, Atomic!IndexedLevel, IndexedLevel
<1>4. Atomic!Indexed = Indexed
  BY <1>1, <1>2, <1>3 DEF Atomic!Indexed, Indexed
<1>5. \A S : Atomic!Earliest(S) = Earliest(S) /\ Atomic!Latest(S) = Latest(S)
  BY DEF Atomic!Earliest, Earliest, Atomic!Latest, Latest, Atomic!Before, Before
<1>6. \A x : Atomic!HeaderAt(x) = HeaderAt(x)
  BY DEF Atomic!HeaderAt, HeaderAt
<1> QED
  BY <1>1, <1>2, <1>3, <1>4, <1>5, <1>6

(***************************************************************************)
(* Between searches, a step of the main loop is one of the instance.       *)
(***************************************************************************)
LEMMA SameCommand ==
  ASSUME walk = "none", walk' = "none", Command
  PROVE  Atomic!Command
<1> USE DEF Serve, Atomic!Serve, MaySend, Atomic!MaySend, segVars, Atomic!segVars
<1>1. ASSUME NEW k \in Key, BuilderPut(k) PROVE Atomic!BuilderPut(k)
  <2>1. Atomic!KvPut(k)
    BY <1>1, SameKvPut DEF BuilderPut
  <2>2. Atomic!Full <=> Full
    BY SameTables DEF Atomic!Full, Full
  <2> QED
    BY <1>1, <2>1, <2>2 DEF BuilderPut, Atomic!BuilderPut
<1>2. VectorBuild => Atomic!VectorBuild
  BY DEF VectorBuild, Atomic!VectorBuild, IndexedLevel, Atomic!IndexedLevel
<1>3. PauseBuild => Atomic!PauseBuild
  BY DEF PauseBuild, Atomic!PauseBuild
<1>4. ResumeBuild => Atomic!ResumeBuild
  BY DEF ResumeBuild, Atomic!ResumeBuild
<1>5. NoCommand => Atomic!NoCommand
  BY DEF NoCommand, Atomic!NoCommand
<1>6. VectorSearch => Atomic!VectorSearch
  <2>1. SearchStops => Atomic!SearchStops
    BY SamePlaces DEF SearchStops, Atomic!SearchStops, VisitIndexed,
                      Atomic!VisitIndexed
  <2>2. SearchThroughout => Atomic!SearchThroughout
    BY SamePlaces DEF SearchThroughout, Atomic!SearchThroughout
  <2>3. SearchNothing => Atomic!SearchNothing
    BY DEF SearchNothing, Atomic!SearchNothing
  <2> QED
    BY <2>1, <2>2, <2>3 DEF VectorSearch, Atomic!VectorSearch
<1> QED
  BY <1>1, <1>2, <1>3, <1>4, <1>5, <1>6 DEF Command, Atomic!Command

LEMMA SameIndexTurn ==
  ASSUME walk = "none", walk' = "none", IndexTurn
  PROVE  Atomic!IndexTurn
<1> USE DEF IndexStep, Atomic!IndexStep, segVars, Atomic!segVars
<1>1. Atomic!Target = Target
  BY DEF Atomic!Target, Target
<1>2. \A s : Atomic!TotalEntry(s) = TotalEntry(s)
  BY SameTables DEF Atomic!TotalEntry, TotalEntry
<1>3. AssignNextSsToIndex => Atomic!AssignNextSsToIndex
  <2>1. \A l, j : Atomic!WithinSnapshot(l, j) <=> WithinSnapshot(l, j)
    BY SameRings DEF Atomic!WithinSnapshot, WithinSnapshot
  <2>2. Atomic!Unindexed = Unindexed
    BY <2>1, SamePlaces DEF Atomic!Unindexed, Unindexed
  <2>3. EndBuild => Atomic!EndBuild
    BY DEF EndBuild, Atomic!EndBuild
  <2> QED
    BY <2>2, <2>3, SameRings, SamePlaces
       DEF AssignNextSsToIndex, Atomic!AssignNextSsToIndex
<1>4. ASSUME NEW r \in 0..GarbageBound, Garbage(r) PROVE Atomic!Garbage(r)
  BY <1>1, <1>2, <1>4 DEF Garbage, Atomic!Garbage
<1>5. BuildIncrement => Atomic!BuildIncrement
  <2>1. Atomic!Last = Last
    BY <1>1, <1>2 DEF Atomic!Last, Last
  <2>2. Atomic!Completes <=> Completes
    BY <1>1, <1>2, <2>1 DEF Atomic!Completes, Completes
  <2>3. Atomic!IndexPages = IndexPages
    BY <1>1, <1>2, <2>2, SameTables
       DEF Atomic!IndexPages, IndexPages, Atomic!NodePages, NodePages,
           Atomic!HeaderPages, HeaderPages
  <2>4. /\ Atomic!TablesAtWork = TablesAtWork
        /\ Atomic!HeaderAtWork = HeaderAtWork
    BY <1>1 DEF Atomic!TablesAtWork, TablesAtWork, Atomic!HeaderAtWork,
                HeaderAtWork, Atomic!Reloads, Reloads
  <2>5. Atomic!NodesLinked = NodesLinked
    BY <1>1, <2>1, <2>4 DEF Atomic!NodesLinked, NodesLinked
  <2>6. Atomic!NextPoint = NextPoint
    BY <2>1, <2>2 DEF Atomic!NextPoint, NextPoint
  <2> QED
    BY <1>1, <1>2, <2>2, <2>3, <2>4, <2>5, <2>6
       DEF BuildIncrement, Atomic!BuildIncrement
<1>6. NoIndexStep => Atomic!NoIndexStep
  BY DEF NoIndexStep, Atomic!NoIndexStep
<1> QED
  BY <1>3, <1>4, <1>5, <1>6 DEF IndexTurn, Atomic!IndexTurn

LEMMA SameBuilderCompaction ==
  ASSUME walk = "none", walk' = "none", BuilderCompaction
  PROVE  Atomic!BuilderCompaction
BY SameCompaction DEF BuilderCompaction, Atomic!BuilderCompaction
(***************************************************************************)
(* What the shared tables and the header hold during a walk: those of the  *)
(* latest segment seen by each pass.  Each pass sees segments in order.    *)
(***************************************************************************)
HeaderOf(p) == HeaderAt(SegmentAt(p).vector_index_start_lpn).of

SeenBefore(S, T) == \A p \in S, q \in T \ S : Before(p, q)

FirstPass ==
  walk = "indexed" =>
    /\ SeenBefore(SeenSet, Indexed)
    /\ SeenSet = {} => tables = before.tables /\ header = before.header
    /\ SeenSet # {} => /\ Latest(SeenSet) \in SeenSet
                       /\ tables = SegmentAt(Latest(SeenSet)).head_lpn
                       /\ header = HeaderOf(Latest(SeenSet))

Rest == SeenSet \ Indexed

SecondPass ==
  walk = "unindexed" =>
    /\ SeenBefore(Rest, Listed \ Indexed)
    /\ header = IF Indexed = {} THEN before.header ELSE HeaderOf(Latest(Indexed))
    /\ tables = IF Rest # {} THEN SegmentAt(Latest(Rest)).head_lpn
                ELSE IF Indexed # {} THEN SegmentAt(Latest(Indexed)).head_lpn
                ELSE before.tables

Serving == walk # "none" => phase = "command" /\ ~compacting /\ MaySend("search")

LoadInv == FirstPass /\ SecondPass /\ Serving

\* The last segment of an ordered visit is the latest.
LEMMA LatestAdded ==
  ASSUME NEW S \in SUBSET Listed, NEW p \in Listed, \A q \in S : Before(q, p)
  PROVE  Latest(S \cup {p}) = p
<1>1. \A q \in Listed : q[1] \in Int /\ q[2] \in Int
  BY ListedType DEF IndexedLevel
<1>2. \A r \in S \cup {p} :
        (\A q \in S \cup {p} : r = q \/ Before(q, r)) => r = p
  BY <1>1 DEF Before
<1>3. \A q \in S \cup {p} : p = q \/ Before(q, p)
  OBVIOUS
<1>4. \E r \in S \cup {p} : \A q \in S \cup {p} : r = q \/ Before(q, r)
  BY <1>3
<1> QED
  BY <1>2, <1>4 DEF Latest

\* The next visit of a pass over T, of which S has been seen.
LEMMA NextInOrder ==
  ASSUME NEW T \in SUBSET Listed, NEW S \in SUBSET T, SeenBefore(S, T),
         NEW p \in T \ S, \A q \in T \ S : p = q \/ Before(p, q)
  PROVE  Latest(S \cup {p}) = p /\ SeenBefore(S \cup {p}, T)
<1>1. Latest(S \cup {p}) = p
  BY LatestAdded DEF SeenBefore
<1>2. SeenBefore(S \cup {p}, T)
  BY DEF SeenBefore
<1> QED
  BY <1>1, <1>2

\* Places, segments and headers stay what they are while a walk is under way.
LEMMA LoadsFrame ==
  ASSUME UNCHANGED segVars, UNCHANGED indexes
  PROVE  /\ Listed' = Listed /\ Indexed' = Indexed
         /\ \A p : SegmentAt(p)' = SegmentAt(p) /\ HeaderOf(p)' = HeaderOf(p)
         /\ \A S, T : SeenBefore(S, T)' = SeenBefore(S, T)
<1>1. \A p : SegmentAt(p)' = SegmentAt(p)
  BY PlacesFrame
<1>2. \A x : HeaderAt(x)' = HeaderAt(x)
  BY DEF HeaderAt
<1>3. \A p : HeaderOf(p)' = HeaderOf(p)
  BY <1>1, <1>2 DEF HeaderOf
<1> QED
  BY <1>1, <1>3, PlacesFrame DEF SeenBefore, Before
(***************************************************************************)
(* Each step of a walk keeps that.                                         *)
(***************************************************************************)
LEMMA BeginLoads ==
  ASSUME SearchIInv, BeginSearch
  PROVE  LoadInv'
<1>1. /\ walk' = "indexed" /\ UNCHANGED vars /\ seen' = seen
      /\ before' = [tables |-> tables, header |-> header]
      /\ walk = "none" /\ phase = "command" /\ ~compacting /\ MaySend("search")
  BY DEF BeginSearch
<1>2. UNCHANGED <<tables, header, phase, compacting, isIndexBuilding>>
  BY <1>1 DEF vars, buildVars, segVars
<1>3. seen = <<>>
  BY <1>1 DEF SearchIInv, WalkInv, SeenType
<1>4. SeenSet' = {}
  BY <1>1, <1>3 DEF SeenSet
<1> QED
  BY <1>1, <1>2, <1>4 DEF LoadInv, FirstPass, SecondPass, Serving, SeenBefore, MaySend

\* The visit of a segment that a pass picked is the next in its order.
LEMMA PickedNext ==
  ASSUME SearchIInv, walk # "none", NEW T \in SUBSET Listed,
         Pending(T) # {}, SeenBefore(SeenSet \cap T, T)
  PROVE  LET p == Earliest(Pending(T))
             S == SeenSet \cap T
         IN  /\ p \in T \ S /\ p \in Listed /\ SlotOf(p) \notin completed
             /\ Latest(S \cup {p}) = p /\ SeenBefore(S \cup {p}, T)
<1> DEFINE p == Earliest(Pending(T))
           S == SeenSet \cap T
<1>1. SeenSet = {q \in Listed : SlotOf(q) \in completed}
  BY DEF SearchIInv, WalkInv, FlagsMarkSeen
<1>2. Pending(T) = T \ S
  BY <1>1 DEF Pending
<1>3. p \in T \ S /\ \A q \in T \ S : p = q \/ Before(p, q)
  BY <1>2, EarliestExists
<1>4. SlotOf(p) \notin completed
  BY <1>1, <1>3
<1> HIDE DEF p, S
<1>5. S \in SUBSET T /\ SeenBefore(S, T)
  BY DEF S
<1>6. Latest(S \cup {p}) = p /\ SeenBefore(S \cup {p}, T)
  BY <1>3, <1>5, NextInOrder
<1> QED
  BY <1>3, <1>4, <1>6 DEF p, S

LEMMA IndexedLoads ==
  ASSUME SearchIInv, LoadInv, NEW exit \in {-1, 0, 1}, SearchIndexed(exit)
  PROVE  LoadInv'
<1> DEFINE p == Earliest(Pending(Indexed))
<1>1. /\ walk = "indexed" /\ walk' = walk /\ Pending(Indexed) # {}
      /\ UNCHANGED segVars /\ UNCHANGED <<indexes, before, phase, isIndexBuilding>>
      /\ completed' = completed \cup {SlotOf(p)}
      /\ seen' = Append(seen, p)
      /\ tables' = SegmentAt(p).head_lpn /\ header' = HeaderOf(p)
  BY DEF SearchIndexed, Visit, VisitIndexed, HeaderOf
<1>2. SeenSet \cap Indexed = SeenSet /\ SeenBefore(SeenSet, Indexed)
  BY <1>1 DEF SearchIInv, WalkInv, Passes, LoadInv, FirstPass
<1>3. /\ p \in Indexed /\ p \in Listed /\ SlotOf(p) \notin completed
      /\ Latest(SeenSet \cup {p}) = p /\ SeenBefore(SeenSet \cup {p}, Indexed)
  BY <1>1, <1>2, PickedNext, IndexedListed
<1> HIDE DEF p
<1>4. SeenSet' = SeenSet \cup {p}
  BY <1>1, <1>3, VisitStep
<1>5. FirstPass'
  <2>1. Latest(SeenSet') = p /\ p \in SeenSet'
    BY <1>3, <1>4
  <2>2. SeenBefore(SeenSet, Indexed)'
    BY <1>1, <1>3, <1>4, LoadsFrame DEF SeenBefore
  <2>3. /\ tables' = SegmentAt(Latest(SeenSet))'.head_lpn
        /\ header' = HeaderOf(Latest(SeenSet))'
    BY <1>1, <2>1, LoadsFrame
  <2> QED
    BY <2>1, <2>2, <2>3 DEF FirstPass
<1>6. SecondPass' /\ Serving'
  BY <1>1 DEF LoadInv, SecondPass, Serving, MaySend, segVars
<1> QED
  BY <1>5, <1>6 DEF LoadInv

LEMMA BeginUnindexedLoads ==
  ASSUME SearchIInv, LoadInv, BeginUnindexed
  PROVE  LoadInv'
<1>1. /\ walk = "indexed" /\ walk' = "unindexed" /\ UNCHANGED vars
      /\ UNCHANGED <<seen, before>>
  BY DEF BeginUnindexed, IndexedDone
<1>2. /\ UNCHANGED segVars
      /\ UNCHANGED <<indexes, phase, isIndexBuilding, tables, header>>
  BY <1>1 DEF vars, buildVars
<1>3. SeenSet = Indexed
  BY BeginUnindexedStep
<1>4. SeenSet' = SeenSet /\ Indexed' = Indexed
  BY <1>1, <1>2, LoadsFrame DEF SeenSet
<1>5. Rest' = {}
  BY <1>3, <1>4 DEF Rest
<1>6. SecondPass'
  <2>1. /\ Indexed = {} => tables = before.tables /\ header = before.header
        /\ Indexed # {} => /\ tables = SegmentAt(Latest(Indexed)).head_lpn
                           /\ header = HeaderOf(Latest(Indexed))
    BY <1>1, <1>3 DEF LoadInv, FirstPass
  <2>2. SegmentAt(Latest(Indexed))' = SegmentAt(Latest(Indexed))
    BY <1>2, <1>4, LoadsFrame
  <2>3. HeaderOf(Latest(Indexed))' = HeaderOf(Latest(Indexed))
    BY <1>2, <1>4, LoadsFrame
  <2> QED
    BY <1>1, <1>2, <1>4, <1>5, <2>1, <2>2, <2>3 DEF SecondPass, SeenBefore
<1>7. FirstPass' /\ Serving'
  BY <1>1, <1>2 DEF LoadInv, FirstPass, Serving, MaySend, segVars
<1> QED
  BY <1>6, <1>7 DEF LoadInv

LEMMA UnindexedLoads ==
  ASSUME SearchIInv, LoadInv, SearchUnindexed
  PROVE  LoadInv'
<1> DEFINE T == Listed \ Indexed
           p == Earliest(Pending(T))
<1>1. /\ walk = "unindexed" /\ walk' = walk /\ Pending(T) # {}
      /\ UNCHANGED segVars
      /\ UNCHANGED <<indexes, before, phase, isIndexBuilding, header>>
      /\ completed' = completed \cup {SlotOf(p)}
      /\ seen' = Append(seen, p)
      /\ tables' = SegmentAt(p).head_lpn
  BY DEF SearchUnindexed, Visit
<1>2. SeenSet \cap T = Rest
  <2>1. SeenSet \subseteq Listed
    BY <1>1 DEF SearchIInv, WalkInv, FlagsMarkSeen
  <2> QED
    BY <2>1 DEF Rest
<1>3. SeenBefore(Rest, T)
  BY <1>1 DEF LoadInv, SecondPass
<1>4. /\ p \in T /\ p \in Listed /\ SlotOf(p) \notin completed
      /\ Latest(Rest \cup {p}) = p /\ SeenBefore(Rest \cup {p}, T)
  BY <1>1, <1>2, <1>3, PickedNext
<1> HIDE DEF p
<1>5. SeenSet' = SeenSet \cup {p} /\ Indexed' = Indexed /\ Listed' = Listed
  BY <1>1, <1>4, VisitStep, LoadsFrame
<1>6. Rest' = Rest \cup {p}
  BY <1>4, <1>5 DEF Rest
<1>7. SecondPass'
  <2>1. Latest(Rest') = p /\ Rest' # {}
    BY <1>4, <1>6
  <2>2. SeenBefore(Rest, Listed \ Indexed)'
    BY <1>1, <1>4, <1>5, <1>6, LoadsFrame DEF SeenBefore
  <2>3. header' = (IF Indexed = {} THEN before.header ELSE HeaderOf(Latest(Indexed)))'
    <3>1. HeaderOf(Latest(Indexed))' = HeaderOf(Latest(Indexed))
      BY <1>1, <1>5, LoadsFrame
    <3>2. header = IF Indexed = {} THEN before.header ELSE HeaderOf(Latest(Indexed))
      BY <1>1 DEF LoadInv, SecondPass
    <3> QED
      BY <1>1, <1>5, <3>1, <3>2
  <2>4. tables' = SegmentAt(Latest(Rest))'.head_lpn
    BY <1>1, <2>1, LoadsFrame
  <2> QED
    BY <2>1, <2>2, <2>3, <2>4 DEF SecondPass
<1>8. FirstPass' /\ Serving'
  BY <1>1 DEF LoadInv, FirstPass, Serving, MaySend, segVars
<1> QED
  BY <1>7, <1>8 DEF LoadInv
(***************************************************************************)
(* The invariant of the refinement.                                        *)
(***************************************************************************)
LEMMA LoadsInitial == SearchInit => LoadInv
BY DEF SearchInit, LoadInv, FirstPass, SecondPass, Serving

LEMMA LoadsInductive ==
  ASSUME SearchIInv, LoadInv, [SearchNext]_searchVars
  PROVE  LoadInv'
<1>1. CASE walk' = "none"
  BY <1>1 DEF LoadInv, FirstPass, SecondPass, Serving
<1>2. CASE BeginSearch
  BY <1>2, BeginLoads
<1>3. ASSUME NEW exit \in {-1, 0, 1}, SearchIndexed(exit) PROVE LoadInv'
  BY <1>3, IndexedLoads
<1>4. CASE BeginUnindexed
  BY <1>4, BeginUnindexedLoads
<1>5. CASE SearchUnindexed
  BY <1>5, UnindexedLoads
<1>6. CASE EndSearch \/ SearchForNone \/ WriteStep \/ OtherStep
  BY <1>1, <1>6 DEF EndSearch, SearchForNone, WriteStep, OtherStep, walkVars
<1>7. CASE UNCHANGED searchVars
  <2>1. /\ UNCHANGED segVars
        /\ UNCHANGED <<walk, seen, before, tables, header, indexes, phase,
                       isIndexBuilding>>
    BY <1>7 DEF searchVars, vars, buildVars, walkVars
  <2>2. SeenSet' = SeenSet
    BY <2>1 DEF SeenSet
  <2>3. Rest' = Rest /\ Indexed' = Indexed
    BY <2>1, <2>2, LoadsFrame DEF Rest
  <2>4. FirstPass'
    BY <2>1, <2>2, <2>3, LoadsFrame DEF LoadInv, FirstPass, SeenBefore
  <2>5. SecondPass'
    BY <2>1, <2>2, <2>3, LoadsFrame DEF LoadInv, SecondPass, SeenBefore
  <2>6. Serving'
    BY <2>1 DEF LoadInv, Serving, MaySend, segVars
  <2> QED
    BY <2>4, <2>5, <2>6 DEF LoadInv
<1> QED
  BY <1>2, <1>3, <1>4, <1>5, <1>6, <1>7 DEF SearchNext, SearchStep

(***************************************************************************)
(* The end of a walk is one search of the instance.                        *)
(***************************************************************************)
LEMMA EndIsSearch ==
  ASSUME SearchIInv, LoadInv, EndSearch
  PROVE  Atomic!VectorSearch
<1>1. /\ walk # "none" /\ walk' = "none"
      /\ UNCHANGED <<tables, header>> /\ phase' = "index"
      /\ preempted' = (isIndexBuilding \/ preempted)
      /\ linked' = IF header = before.header THEN linked ELSE {}
      /\ UNCHANGED <<segVars, isIndexBuilding, build_paused, target, resume,
                     snapshot, indexes>>
  BY DEF EndSearch, IndexedDone, UnindexedDone
<1>2. phase = "command" /\ ~compacting /\ MaySend("search")
  BY <1>1 DEF LoadInv, Serving
<1>3. SeenSet = {q \in Listed : SlotOf(q) \in completed}
  BY <1>1 DEF SearchIInv, WalkInv, FlagsMarkSeen
<1>4. Atomic!SearchStops \/ Atomic!SearchThroughout \/ Atomic!SearchNothing
  <2>1. CASE walk = "indexed" /\ SeenSet = {}
    <3>1. tables = before.tables /\ header = before.header
      BY <2>1 DEF LoadInv, FirstPass
    <3> QED
      BY <1>1, <3>1 DEF Atomic!SearchNothing
  <2>2. CASE walk = "indexed" /\ SeenSet # {}
    <3> DEFINE p == Latest(SeenSet)
    <3>1. p \in SeenSet /\ tables = SegmentAt(p).head_lpn /\ header = HeaderOf(p)
      BY <2>2 DEF LoadInv, FirstPass
    <3>2. p \in Indexed
      BY <2>2, <3>1 DEF SearchIInv, WalkInv, Passes
    <3> HIDE DEF p
    <3>3. Atomic!VisitIndexed(p)
      BY <1>1, <3>1, SamePlaces DEF Atomic!VisitIndexed, HeaderOf
    <3> QED
      BY <3>2, <3>3, SamePlaces DEF Atomic!SearchStops
  <2>3. CASE walk = "unindexed"
    <3>1. Indexed \subseteq SeenSet
      BY <2>3 DEF SearchIInv, WalkInv, Passes
    <3>2. UnindexedDone
      BY <2>3 DEF EndSearch, IndexedDone
    <3>3. Listed \ Indexed = Rest
      BY <1>3, <3>1, <3>2 DEF UnindexedDone, Pending, Rest
    <3>4. /\ header = IF Indexed = {} THEN before.header
                      ELSE HeaderOf(Latest(Indexed))
          /\ tables = IF Rest # {} THEN SegmentAt(Latest(Rest)).head_lpn
                      ELSE IF Indexed # {} THEN SegmentAt(Latest(Indexed)).head_lpn
                      ELSE before.tables
      BY <2>3 DEF LoadInv, SecondPass
    <3> QED
      BY <1>1, <3>3, <3>4, SamePlaces DEF Atomic!SearchThroughout, HeaderOf
  <2> QED
    BY <1>1, <2>1, <2>2, <2>3 DEF SearchIInv, WalkInv, SeenType
<1> QED
  BY <1>1, <1>2, <1>4
     DEF Atomic!VectorSearch, Atomic!Serve, Atomic!MaySend, MaySend, segVars,
         Atomic!segVars

(***************************************************************************)
(* A visit shows neither in the tables nor in the header of the instance.  *)
(***************************************************************************)
LEMMA WalkIsStutter ==
  ASSUME \/ BeginSearch \/ BeginUnindexed \/ SearchUnindexed
         \/ \E exit \in {-1, 0, 1} : SearchIndexed(exit)
         \/ UNCHANGED searchVars
  PROVE  UNCHANGED Atomic!vars
<1>1. CASE BeginSearch
  BY <1>1 DEF BeginSearch, vars, buildVars, segVars, Atomic!vars,
              Atomic!buildVars, Atomic!segVars
<1>2. CASE UNCHANGED searchVars
  BY <1>2 DEF searchVars, walkVars, vars, buildVars, segVars, Atomic!vars,
              Atomic!buildVars, Atomic!segVars
<1>3. CASE \/ BeginUnindexed \/ SearchUnindexed
           \/ \E exit \in {-1, 0, 1} : SearchIndexed(exit)
  <2>1. /\ walk # "none" /\ walk' # "none" /\ before' = before
        /\ UNCHANGED <<segVars, isIndexBuilding, build_paused, target, resume,
                       preempted, snapshot, linked, indexes, phase>>
    BY <1>3 DEF BeginUnindexed, SearchUnindexed, SearchIndexed, Visit,
                IndexedDone, vars, buildVars
  <2> QED
    BY <2>1 DEF segVars, Atomic!vars, Atomic!buildVars, Atomic!segVars
<1> QED
  BY <1>1, <1>2, <1>3

(***************************************************************************)
(* The walk of tryVectorSearch, segment by segment, implements the search  *)
(* that the main loop is proved with: whatever a search loads, where it    *)
(* stops and when it fails, the build sees it only at its end.             *)
(***************************************************************************)
THEOREM WalkImplementsSearch == SearchSpec => ImplementsSearch
<1>1. SearchInit => Atomic!BuilderInit
  <2>1. Init => Atomic!Init
    BY SameTables DEF Init, Atomic!Init, Level, Atomic!Level
  <2> QED
    BY <2>1 DEF SearchInit, BuilderInit, Atomic!BuilderInit, IndexedLevel,
                Atomic!IndexedLevel
<1>2. SearchIInv /\ LoadInv /\ [SearchNext]_searchVars
        => [Atomic!BuilderNext]_Atomic!vars
  <2> SUFFICES ASSUME SearchIInv, LoadInv, [SearchNext]_searchVars
               PROVE  Atomic!BuilderNext \/ UNCHANGED Atomic!vars
    OBVIOUS
  <2>1. CASE \/ BeginSearch \/ BeginUnindexed \/ SearchUnindexed
             \/ \E exit \in {-1, 0, 1} : SearchIndexed(exit)
             \/ UNCHANGED searchVars
    BY <2>1, WalkIsStutter
  <2>2. CASE EndSearch
    BY <2>2, EndIsSearch DEF Atomic!BuilderNext, Atomic!Command
  <2>3. CASE SearchForNone \/ WriteStep \/ OtherStep
    <3>1. walk = "none" /\ walk' = "none"
      BY <2>3 DEF SearchForNone, WriteStep, OtherStep, walkVars
    <3>2. Command \/ BuilderCompaction \/ IndexTurn
      BY <2>3 DEF SearchForNone, WriteStep, OtherStep, Command
    <3> QED
      BY <3>1, <3>2, SameCommand, SameIndexTurn, SameBuilderCompaction
         DEF Atomic!BuilderNext
  <2> QED
    BY <2>1, <2>2, <2>3 DEF SearchNext, SearchStep
<1>3. LoadInv /\ SearchIInv /\ [SearchNext]_searchVars => LoadInv'
  BY LoadsInductive
<1> QED
  BY <1>1, <1>2, <1>3, LoadsInitial, WalkInvariance, PTL
     DEF SearchSpec, ImplementsSearch, Atomic!BuilderSpec, searchVars

-----------------------------------------------------------------------------
(***************************************************************************)
(* The result buffer.                                                      *)
(***************************************************************************)
ResultsInv == ResultsTypeOK /\ Sorted /\ NearestKept

(***************************************************************************)
(* An insertion keeps the type, the order and the nearest: the entry that  *)
(* is shifted out is as far as any other, and none is lost otherwise.      *)
(***************************************************************************)
LEMMA InsertKeeps ==
  ASSUME ResultsInv, NEW c \in Candidate, NEW p \in 1..validGlobalCount+1,
         Insert(c, p)
  PROVE  ResultsInv'
<1> USE ResultsAssumption DEF ResultsInv, ResultsTypeOK
<1> DEFINE n == validGlobalCount'
<1>1. n = IF validGlobalCount < top_k THEN validGlobalCount + 1 ELSE validGlobalCount
  BY DEF Insert, Grown
<1>2. n \in 1..top_k /\ validGlobalCount \in n-1..n
  <2>1. CASE validGlobalCount < top_k
    BY <2>1, <1>1
  <2>2. CASE validGlobalCount = top_k
    BY <2>2, <1>1
  <2> QED BY <2>1, <2>2
<1>3. validGlobalCount = n \/ n = validGlobalCount + 1
  BY <1>1
<1>4. validGlobalCount = n => n = top_k
  BY <1>1, <1>2
<1>5. \A j \in 1..validGlobalCount : results[j] \in Candidate /\ results[j].dist \in Int
  BY DEF Candidate
<1>6. c.dist \in Int /\ c \notin offered
  BY DEF Candidate, Insert, Offer
<1>7. p <= n
  <2>1. CASE n = validGlobalCount + 1
    BY <2>1, <1>2
  <2>2. CASE n = validGlobalCount
    <3>1. c.dist < results[n].dist
      BY <2>2, <1>2, <1>4, <1>5, <1>6 DEF Insert, TooFar
    <3>2. p # n + 1
      BY <3>1, <2>2, <1>2, <1>5, <1>6 DEF Insert, IsInsertPos
    <3> QED BY <3>2, <2>2
  <2> QED BY <2>1, <2>2, <1>3
<1>8. results' = Inserted(p, c, n)
  BY <1>7, <1>2 DEF Insert
<1>9. \A j \in 1..n : results'[j] = IF j < p THEN results[j]
                                    ELSE IF j = p THEN c ELSE results[j-1]
  BY <1>8 DEF Inserted
<1>10. \A j \in 1..p-1 : results[j].dist <= c.dist
  BY DEF Insert, IsInsertPos
<1>11. \A j \in p..validGlobalCount : c.dist <= results[j].dist
  <2>1. p <= validGlobalCount => c.dist < results[p].dist
    BY DEF Insert, IsInsertPos
  <2> QED BY <2>1, <1>5, <1>6 DEF Sorted
<1>12. offered' = offered \cup {c} /\ early' = FALSE
  BY DEF Insert, Offer
<1>13. ResultsTypeOK'
  <2>1. results' \in [1..n -> Candidate]
    <3>1. ASSUME NEW j \in 1..n PROVE (IF j < p THEN results[j]
                      ELSE IF j = p THEN c ELSE results[j-1]) \in Candidate
      <4>1. CASE j < p
        BY <4>1, <1>5, <1>3
      <4>2. CASE j > p
        BY <4>2, <1>5, <1>3
      <4> QED BY <4>1, <4>2
    <3> QED BY <3>1, <1>8 DEF Inserted
  <2>2. early' \in BOOLEAN
    BY <1>12
  <2>3. offered' \subseteq Candidate
    BY <1>12
  <2>4. validGlobalCount' \in 0..top_k
    BY <1>2
  <2> QED BY <2>1, <2>2, <2>3, <2>4
<1>14. Sorted'
  <2> SUFFICES ASSUME NEW i \in 1..n, NEW j \in 1..n, i < j
               PROVE  results'[i].dist <= results'[j].dist
    BY DEF Sorted
  <2>1. CASE j < p
    BY <2>1, <1>9, <1>3, <1>5 DEF Sorted
  <2>2. CASE j = p
    BY <2>2, <1>9, <1>10
  <2>3. CASE j > p /\ i < p
    <3>1. results[i].dist <= c.dist /\ c.dist <= results[j-1].dist
      BY <2>3, <1>10, <1>11, <1>3
    <3> QED BY <3>1, <2>3, <1>9, <1>5, <1>6, <1>3
  <2>4. CASE i = p
    BY <2>4, <1>9, <1>11, <1>3
  <2>5. CASE i > p
    BY <2>5, <1>9, <1>3, <1>5 DEF Sorted
  <2> QED BY <2>1, <2>2, <2>3, <2>4, <2>5
<1>15. NearestKept'
  <2>1. \A j \in 1..n : results'[j] \in offered'
    <3> SUFFICES ASSUME NEW j \in 1..n PROVE results'[j] \in offered'
      OBVIOUS
    <3>1. CASE j < p
      BY <3>1, <1>9, <1>12, <1>3 DEF NearestKept
    <3>2. CASE j = p
      BY <3>2, <1>9, <1>12
    <3>3. CASE j > p
      BY <3>3, <1>9, <1>12, <1>3 DEF NearestKept
    <3> QED BY <3>1, <3>2, <3>3
  <2>2. \A i, j \in 1..n : results'[i] = results'[j] => i = j
    <3>1. \A j \in 1..validGlobalCount : results[j] # c
      BY <1>6 DEF NearestKept
    <3> SUFFICES ASSUME NEW i \in 1..n, NEW j \in 1..n, i < j
                 PROVE  results'[i] # results'[j]
      OBVIOUS
    <3>2. CASE j < p
      BY <3>2, <1>9, <1>3 DEF NearestKept
    <3>3. CASE j = p
      BY <3>3, <3>1, <1>9, <1>3
    <3>4. CASE j > p /\ i < p
      BY <3>4, <1>9, <1>3 DEF NearestKept
    <3>5. CASE i = p
      BY <3>5, <3>1, <1>9, <1>3
    <3>6. CASE i > p
      BY <3>6, <1>9, <1>3 DEF NearestKept
    <3> QED BY <3>2, <3>3, <3>4, <3>5, <3>6
  <2>3. ASSUME NEW d \in offered', \A j \in 1..n : results'[j] # d
        PROVE  n = top_k /\ \A j \in 1..n : results'[j].dist <= d.dist
    <3>1. d \in offered /\ d # c
      BY <2>3, <1>12, <1>9, <1>7
    <3>2. \A j \in 1..n : j < n => results[j] # d
      <4> SUFFICES ASSUME NEW j \in 1..n, j < n PROVE results[j] # d
        OBVIOUS
      <4>1. CASE j < p
        <5>1. j \in 1..n /\ results'[j] = results[j]
          BY <4>1, <1>9, <1>2
        <5> QED BY <5>1, <2>3
      <4>2. CASE j >= p
        <5> DEFINE i == j + 1
        <5>1. i \in 1..n /\ ~(i < p) /\ i # p /\ i - 1 = j
          BY <4>2, <1>2
        <5> HIDE DEF i
        <5>2. results'[i] = results[j]
          BY <5>1, <1>9
        <5> QED BY <5>1, <5>2, <2>3
      <4> QED BY <4>1, <4>2
    <3>3. validGlobalCount = top_k
      \* If the buffer was not full, all of its entries are still there.
      <4>1. CASE validGlobalCount = n
        BY <4>1, <1>4
      <4>2. CASE n = validGlobalCount + 1
        BY <4>2, <3>1, <3>2 DEF NearestKept
      <4> QED BY <4>1, <4>2, <1>3
    <3>4. n = top_k
      BY <3>3, <1>1
    <3>5. d.dist \in Int
      BY <3>1 DEF Candidate
    <3>6. results[top_k].dist <= d.dist
      <4>1. CASE results[top_k] = d
        BY <4>1, <3>5
      <4>2. CASE results[top_k] # d
        <5>1. \A j \in 1..validGlobalCount : results[j] # d
          BY <4>2, <3>2, <3>3, <3>4, <1>2
        <5> QED BY <5>1, <3>1, <3>3 DEF NearestKept
      <4> QED BY <4>1, <4>2
    <3>7. c.dist <= results[top_k].dist
      BY <1>11, <1>7, <3>3, <3>4, <1>2
    <3>8. ASSUME NEW j \in 1..n PROVE results'[j].dist <= d.dist
      <4>1. results[top_k].dist \in Int /\ c.dist <= d.dist
        BY <1>5, <1>6, <3>3, <3>5, <3>6, <3>7
      <4>2. \A i \in 1..top_k : results[i].dist <= results[top_k].dist
        BY <3>3, <1>5 DEF Sorted
      <4>3. \A i \in 1..top_k : results[i].dist <= d.dist
        BY <4>1, <4>2, <3>3, <3>5, <3>6, <1>5
      <4>4. CASE j = p
        BY <4>4, <4>1, <1>9
      <4>5. CASE j < p
        BY <4>5, <4>3, <3>4, <1>9
      <4>6. CASE j > p
        BY <4>6, <4>3, <3>4, <1>9
      <4> QED BY <4>4, <4>5, <4>6
    <3> QED BY <3>4, <3>8
  <2> QED BY <2>1, <2>2, <2>3 DEF NearestKept
<1> QED BY <1>13, <1>14, <1>15

(***************************************************************************)
(* A candidate that is skipped is as far as any that is kept.              *)
(***************************************************************************)
LEMMA SkipKeeps ==
  ASSUME ResultsInv, NEW c \in Candidate, Skip(c)
  PROVE  ResultsInv'
<1> USE ResultsAssumption DEF ResultsInv, ResultsTypeOK, Skip
<1>1. /\ offered' = offered \cup {c} /\ early' = FALSE
      /\ validGlobalCount' = validGlobalCount /\ results' = results
  BY DEF Offer
<1>2. validGlobalCount = top_k /\ results[top_k].dist <= c.dist
  <2>1. c.dist \in Int
    BY DEF Candidate
  <2>2. validGlobalCount = top_k /\ c.dist >= results[top_k].dist
    BY DEF TooFar
  <2>3. results[top_k] \in Candidate
    BY <2>2
  <2>4. results[top_k].dist \in Int
    BY <2>3 DEF Candidate
  <2> QED BY <2>1, <2>2, <2>4
<1>3. \A j \in 1..validGlobalCount : results[j].dist <= c.dist
  <2>1. c.dist \in Int
    BY DEF Candidate
  <2>2. \A j \in 1..validGlobalCount : results[j].dist \in Int
    BY DEF Candidate
  <2> QED BY <2>1, <2>2, <1>2 DEF Sorted
<1>4. ResultsTypeOK' /\ Sorted'
  BY <1>1 DEF Sorted
<1>5. NearestKept'
  BY <1>1, <1>2, <1>3 DEF NearestKept
<1> QED BY <1>4, <1>5

(***************************************************************************)
(* ResultsInv is inductive.                                                *)
(***************************************************************************)
LEMMA ResultsInductive ==
  ASSUME ResultsInv, [ResultsNext]_resultVars
  PROVE  ResultsInv'
<1> USE ResultsAssumption
<1>1. CASE NewSearch
  <2>1. ResultsTypeOK'
    <3>1. validGlobalCount' \in 0..top_k /\ offered' \subseteq Candidate
      BY <1>1 DEF NewSearch
    <3>2. results' \in [1..validGlobalCount' -> Candidate]
      BY <1>1 DEF NewSearch, NoResults
    <3>3. early' \in BOOLEAN
      BY <1>1 DEF NewSearch
    <3> QED BY <3>1, <3>2, <3>3 DEF ResultsTypeOK
  <2>2. Sorted' /\ NearestKept'
    BY <1>1 DEF NewSearch, Sorted, NearestKept
  <2> QED BY <2>1, <2>2 DEF ResultsInv
<1>2. ASSUME NEW c \in Candidate, MergeCandidate(c) PROVE ResultsInv'
  BY <1>2, SkipKeeps, InsertKeeps DEF MergeCandidate
<1>3. CASE MergeReturns
  <2>1. early' \in BOOLEAN
    <3>1. CASE validGlobalCount = 0
      BY <1>3, <3>1 DEF MergeReturns
    <3>2. CASE validGlobalCount # 0
      <4>1. early' = (results[MaxPosition].dist <= EPSILON)
        BY <1>3, <3>2 DEF MergeReturns
      <4> QED BY <4>1
    <3> QED BY <3>1, <3>2
  <2> QED BY <1>3, <2>1
          DEF MergeReturns, ResultsInv, ResultsTypeOK, Sorted, NearestKept
<1>4. CASE UNCHANGED resultVars
  BY <1>4 DEF resultVars, ResultsInv, ResultsTypeOK, Sorted, NearestKept
<1> QED BY <1>1, <1>2, <1>3, <1>4 DEF ResultsNext

LEMMA ResultsInitial == ResultsInit => ResultsInv
<1> SUFFICES ASSUME ResultsInit PROVE ResultsInv
  OBVIOUS
<1> USE ResultsAssumption DEF ResultsInit
<1>1. validGlobalCount \in 0..top_k /\ offered \subseteq Candidate
  OBVIOUS
<1>2. results \in [1..validGlobalCount -> Candidate]
  BY DEF NoResults
<1>3. early \in BOOLEAN
  OBVIOUS
<1>4. Sorted /\ NearestKept
  BY DEF Sorted, NearestKept
<1> QED BY <1>1, <1>2, <1>3, <1>4 DEF ResultsInv, ResultsTypeOK

(***************************************************************************)
(* The buffer never holds more than top_k results and each of them is a    *)
(* candidate that a segment handed over: no entry is left unset by the     *)
(* shift of an insertion (mergeSearchResults, hnsw.c:1221).               *)
(***************************************************************************)
THEOREM ResultsTyped == ResultsSpec => []ResultsTypeOK
<1>1. ResultsInv => ResultsTypeOK
  BY DEF ResultsInv
<1> QED BY <1>1, ResultsInitial, ResultsInductive, PTL DEF ResultsSpec

(***************************************************************************)
(* The buffer of a search is sorted, whatever segments hand over           *)
(* (mergeSearchResults, hnsw.c:1192).                                      *)
(***************************************************************************)
THEOREM ResultsSorted == ResultsSpec => []Sorted
<1>1. ResultsInv => Sorted
  BY DEF ResultsInv
<1> QED BY <1>1, ResultsInitial, ResultsInductive, PTL DEF ResultsSpec

(***************************************************************************)
(* And it holds the top_k nearest of all that they handed over.            *)
(***************************************************************************)
THEOREM ResultsNearest == ResultsSpec => []NearestKept
<1>1. ResultsInv => NearestKept
  BY DEF ResultsInv
<1> QED BY <1>1, ResultsInitial, ResultsInductive, PTL DEF ResultsSpec

(***************************************************************************)
(* A call that lets the search stop leaves no result beyond EPSILON.       *)
(***************************************************************************)
THEOREM ResultsExitNear == ResultsSpec => []ExitNear
<1> DEFINE Inv == ResultsInv /\ ExitNear
<1>1. ResultsInit => Inv
  BY ResultsInitial DEF ResultsInit, ExitNear
<1>2. ASSUME Inv, [ResultsNext]_resultVars PROVE Inv'
  <2>1. ResultsInv'
    BY <1>2, ResultsInductive
  <2> SUFFICES ExitNear'
    BY <2>1
  <2>2. CASE NewSearch
    BY <2>2 DEF NewSearch, ExitNear
  <2>3. ASSUME NEW c \in Candidate, MergeCandidate(c) PROVE ExitNear'
    BY <2>3 DEF MergeCandidate, Skip, Insert, Offer, ExitNear
  <2>4. CASE MergeReturns
    <3>1. CASE validGlobalCount = 0
      BY <3>1, <2>4 DEF MergeReturns, ExitNear
    <3>2. CASE validGlobalCount # 0
      <4>1. MaxPosition = validGlobalCount
        BY <1>2, ResultsAssumption DEF MaxPosition, ResultsInv, ResultsTypeOK
      <4>2. early' => results[validGlobalCount].dist <= EPSILON
        BY <4>1, <3>2, <2>4 DEF MergeReturns
      <4>3. \A j \in 1..validGlobalCount : results[j].dist \in Int
        BY <1>2, ResultsAssumption DEF ResultsInv, ResultsTypeOK, Candidate
      <4>4. \A j \in 1..validGlobalCount :
              results[j].dist <= results[validGlobalCount].dist
        BY <1>2, <4>3, <3>2, ResultsAssumption
           DEF ResultsInv, ResultsTypeOK, Sorted
      <4>5. \A j \in 1..validGlobalCount : early' => results[j].dist <= EPSILON
        BY <4>2, <4>3, <4>4, <1>2, <3>2, ResultsAssumption
           DEF ResultsInv, ResultsTypeOK
      <4> QED BY <4>5, <2>4 DEF MergeReturns, ExitNear
    <3> QED BY <3>1, <3>2
  <2>5. CASE UNCHANGED resultVars
    BY <1>2, <2>5 DEF resultVars, ExitNear
  <2> QED BY <1>2, <2>1, <2>2, <2>3, <2>4, <2>5 DEF ResultsNext
<1>3. Inv => ExitNear
  OBVIOUS
<1> QED BY <1>1, <1>2, <1>3, PTL DEF ResultsSpec
=============================================================================
