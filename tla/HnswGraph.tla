----------------------------- MODULE HnswGraph -----------------------------
(***************************************************************************)
(* The HNSW graph of one sealed segment (vector/hnsw.c): nodes are linked  *)
(* one after the other, each to some of the nodes that a search of the     *)
(* graph so far finds for it.  Vectors are abstracted to positions on a    *)
(* line, or on half a circle, where 1 - cos orders pairs as angles do; the *)
(* pages nodes live in, and loading them, are left out.                    *)
(***************************************************************************)
EXTENDS BinaryHeap, FiniteSets, SequencesExt

CONSTANTS
  Total,       \* total_entry: vectors of the segment
  Position,    \* set of possible vectors
  MAX_LEVELS,
  M_PARAM,     \* links of a node at one level
  Uninit       \* what an uninitialized distance may hold

ASSUME GraphAssumption ==
  /\ Total \in Nat \ {0}
  /\ Position \subseteq Int
  /\ MAX_LEVELS \in Nat /\ MAX_LEVELS > 1
  /\ M_PARAM \in Nat \ {0}
  /\ EF_CONSTRUCTION \in Nat /\ EF_CONSTRUCTION > 1
  /\ Uninit \subseteq Int

Node == 0..Total-1
GraphLevel == 0..MAX_LEVELS-1
Links == [Node -> [GraphLevel -> Seq(Node)]]

VARIABLES
  position,  \* the vector of each node
  links,     \* hnswnodes[n].links[level], in order
  nextNode   \* the node that is linked next

graphVars == <<position, links, nextNode>>

Dist(x, y) == IF x < y THEN y - x ELSE x - y
NodeDist(a, b) == Dist(position[a], position[b])

(***************************************************************************)
(* initializeIndexWith: nobody is linked; the first nodes have levels of   *)
(* their own ("temporarily assigned custom level"), and the last of them   *)
(* is the entry point.                                                     *)
(***************************************************************************)
MaxLevelOf(n) == IF n < MAX_LEVELS THEN n ELSE 0
EntryPoint == IF Total < MAX_LEVELS THEN Total - 1 ELSE MAX_LEVELS - 1
MaxLevel == EntryPoint

GraphInit ==
  /\ position \in [Node -> Position]
  /\ links = [n \in Node |-> [l \in GraphLevel |-> <<>>]]
  /\ nextNode = 0

(***************************************************************************)
(* greedySearchLevel: as long as a neighbor is nearer, go to the first one.*)
(***************************************************************************)
FirstNearer(q, n, level) ==
  LET neighbors == links[n][level]
      nearer == {i \in DOMAIN neighbors :
                   Dist(q, position[neighbors[i]]) < Dist(q, position[n])}
  IN  IF nearer = {} THEN n
      ELSE neighbors[CHOOSE i \in nearer : \A j \in nearer : i <= j]

\* It comes nearer in each turn, so to no node twice.
GreedySearchLevel(q, from, level) ==
  Loop([k \in 1..Total |-> [n \in Node |-> FirstNearer(q, n, level)]], Total, from)

(***************************************************************************)
(* searchNeighborsEf: the nearest unvisited node found so far is expanded  *)
(* until it is farther than all results, or ef results are known.  The     *)
(* state of the loop is a record: heaps, visited nodes, breaking signal.   *)
(***************************************************************************)
At(q, n) == [idx |-> n, dist |-> Dist(q, position[n])]

Meet(q, ef, s, n) ==
  IF s.breaking \/ n \in s.visited THEN s
  ELSE LET e == At(q, n)
           keep == Len(s.results) < ef \/ e.dist < s.results[1].dist
           results == IF keep THEN MaxInsert(s.results, ef + 1, e) ELSE s.results
       IN  [to_visit |-> IF keep THEN MinInsert(s.to_visit, e) ELSE s.to_visit,
            results |-> results,
            visited |-> s.visited \cup {n},
            breaking |-> Len(results) >= ef]

Searching == [to_visit : Seq(Element), results : Seq(Element), visited : SUBSET Node,
              breaking : BOOLEAN]

MeetAll(q, ef, s, neighbors) ==
  Loop([k \in DOMAIN neighbors |-> [t \in Searching |-> Meet(q, ef, t, neighbors[k])]],
       Len(neighbors), s)

ExpandNearest(lk, q, level, ef, s) ==
  IF s.to_visit = <<>> \/ s.breaking THEN s
  ELSE LET cur == s.to_visit[1]
       IN  IF s.results[1].dist < cur.dist THEN s
           ELSE MeetAll(q, ef, [s EXCEPT !.to_visit = MinPop(@)], lk[cur.idx][level])

\* No node is expanded twice.
Expand(lk, q, level, ef, s) ==
  Loop([k \in 1..Total |-> [t \in Searching |-> ExpandNearest(lk, q, level, ef, t)]],
       Total, s).results

\* The candidates are the array of the max-heap, from its end to its root.
SearchNeighborsEf(lk, q, from, level, ef) ==
  Reverse(Expand(lk, q, level, ef,
                 [to_visit |-> <<At(q, from)>>, results |-> <<At(q, from)>>,
                  visited |-> {from}, breaking |-> FALSE]))

(***************************************************************************)
(* connectNeighbors: the first M_PARAM candidates become the node's links, *)
(* and each gets a link back.  A neighbor that has M_PARAM links already   *)
(* gives up its farthest one.  The loop that looks for it runs one too far *)
(* and compares a distance that was never written.                         *)
(***************************************************************************)
\* De-duplication, and no link of a node to itself.
Unique(i, c, unique) ==
  IF c = i \/ c \in ToSet(unique) THEN unique ELSE Append(unique, c)

LinksTo(i, candidates) ==
  LET minCount == IF Len(candidates) < M_PARAM THEN Len(candidates) ELSE M_PARAM
  IN  Loop([k \in 1..minCount |-> [u \in Seq(Node) |-> Unique(i, candidates[k].idx, u)]],
           minCount, <<>>)

\* The first of the farthest neighbors of c, or M_PARAM + 1.
Farthest(c, neighbors, garbage) ==
  LET dist == Append([k \in 1..M_PARAM |-> NodeDist(c, neighbors[k])], garbage)
  IN  CHOOSE k \in 1..M_PARAM+1 :
        /\ \A j \in 1..M_PARAM+1 : dist[j] <= dist[k]
        /\ \A j \in 1..k-1 : dist[j] < dist[k]

LinkBackWhenNearer(lk, c, i, level, garbage) ==
  LET neighbors == lk[c][level]
  IN  IF i \in ToSet(neighbors) THEN lk
      ELSE IF Len(neighbors) < M_PARAM THEN [lk EXCEPT ![c][level] = Append(@, i)]
      ELSE LET k == Farthest(c, neighbors, garbage)
           IN  IF k <= M_PARAM /\ NodeDist(c, i) < NodeDist(c, neighbors[k])
               THEN [lk EXCEPT ![c][level][k] = i] ELSE lk

LinkBackTwice(lk, c, i, level, garbage) ==
  LET neighbors == lk[c][level]
  IN  IF Len(neighbors) < M_PARAM THEN [lk EXCEPT ![c][level] = Append(@, i)]
      ELSE LET k == Farthest(c, neighbors, garbage)
           IN  IF k <= M_PARAM THEN [lk EXCEPT ![c][level][k] = i] ELSE lk

LinkBack(lk, c, i, level, garbage) ==
  LET neighbors == lk[c][level]
  IN  IF i \in ToSet(neighbors) THEN lk
      ELSE IF Len(neighbors) < M_PARAM THEN [lk EXCEPT ![c][level] = Append(@, i)]
      ELSE LET k == Farthest(c, neighbors, garbage)
           IN  IF k <= M_PARAM THEN [lk EXCEPT ![c][level][k] = i] ELSE lk

ConnectNeighbors(lk, i, candidates, level, garbage) ==
  LET unique == LinksTo(i, candidates)
  IN  Loop([k \in DOMAIN unique |->
              [g \in Links |-> LinkBack(g, unique[k], i, level, garbage)]],
           Len(unique), [lk EXCEPT ![i][level] = unique])

(***************************************************************************)
(* One iteration of the loop of buildOndemandHnsw.                         *)
(***************************************************************************)
LinkNode(garbage) ==
  /\ nextNode < Total
  /\ LET i == nextNode
         q == position[i]
         from == GreedySearchLevel(q, EntryPoint, MaxLevel)
         Connect(lk, level) ==
           ConnectNeighbors(lk, i, SearchNeighborsEf(lk, q, from, level, EF_CONSTRUCTION),
                            level, garbage[level])
         n == MaxLevelOf(i) + 1
     IN  links' = Loop([k \in 1..n |-> [lk \in Links |-> Connect(lk, n - k)]], n, links)
  /\ nextNode' = nextNode + 1
  /\ UNCHANGED position

GraphNext == \E garbage \in [GraphLevel -> Uninit] : LinkNode(garbage)

GraphSpec == GraphInit /\ [][GraphNext]_graphVars

(***************************************************************************)
(* searchOndemandHnsw: what a search for the topK nearest vectors finds.   *)
(***************************************************************************)
SearchOndemandHnsw(q, topK) ==
  SearchNeighborsEf(links, q, GreedySearchLevel(q, EntryPoint, MaxLevel), 0, 2 * topK)

-----------------------------------------------------------------------------
(***************************************************************************)
(* Links are sound at every level: no more than M_PARAM, to other nodes,   *)
(* each once, and only to nodes that are on that level themselves, so that *)
(* a search that follows them never leaves its level.                      *)
(***************************************************************************)
LinksSound ==
  \A n \in Node, l \in GraphLevel :
    LET out == links[n][l]
    IN  /\ Len(out) <= M_PARAM
        /\ IsInjective(out)
        /\ \A c \in ToSet(out) : c # n /\ c \in Node /\ MaxLevelOf(c) >= l
        /\ out # <<>> => MaxLevelOf(n) >= l

(***************************************************************************)
(* "Build bi-directional neighbors" (hnsw.c:677): a node that is linked is *)
(* linked back by each of its neighbors, at each of its levels, even if it *)
(* takes the place of a nearer neighbor.                                   *)
(***************************************************************************)
BackLinks ==
  [][nextNode' = nextNode + 1 =>
       \A l \in GraphLevel : \A c \in ToSet(links'[nextNode][l]) :
         nextNode \in ToSet(links'[c][l])]_graphVars

(***************************************************************************)
(* A node can be found once it is linked: from the entry point there is a  *)
(* path of level-0 links to it, although the entry point's own links are   *)
(* replaced when its turn comes.                                           *)
(***************************************************************************)
Reached(lk) ==
  Loop([k \in 1..Total |-> [R \in SUBSET Node |-> R \cup UNION {ToSet(lk[n][0]) : n \in R}]],
       Total, {EntryPoint})

NewNodeReachable ==
  [][nextNode' = nextNode + 1 => nextNode \in Reached(links')]_graphVars

(***************************************************************************)
(* A search neither stops early nor loses a node in one of its heaps: its  *)
(* candidates are different nodes of level 0, 2 * topK of them unless      *)
(* fewer are reachable.  The test against the farthest result never cuts   *)
(* it short, as that is the root of the max-heap, and no node is dropped   *)
(* for a full min-heap.                                                    *)
(***************************************************************************)
SearchFillsUp ==
  \A q \in Position, topK \in 1..EF_CONSTRUCTION \div 2 :
    LET found == SearchOndemandHnsw(q, topK)
        nodes == {e.idx : e \in ToSet(found)}
        reachable == Cardinality(Reached(links))
    IN  /\ nodes \subseteq Reached(links)
        /\ Cardinality(nodes) = Len(found)
        /\ Len(found) = IF reachable < 2 * topK THEN reachable ELSE 2 * topK
=============================================================================
