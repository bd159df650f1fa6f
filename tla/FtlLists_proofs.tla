--------------------------- MODULE FtlLists_proofs ---------------------------
(***************************************************************************)
(* Proofs about the lists of the flash translation layer, for every number *)
(* of dies, blocks, pages and slices and every set of bad blocks: the      *)
(* lists are what Ftl takes them for, and the code with its lists          *)
(* implements Ftl, as long as no collection erased the current block.      *)
(***************************************************************************)
EXTENDS FtlLists, Ftl_proofs

-----------------------------------------------------------------------------
(***************************************************************************)
(* One list.  The blocks of a list S are linked in the order of ord, a     *)
(* number for each block: a block that is put at the tail gets one above   *)
(* all others of its list, and one that is taken out leaves the order of   *)
(* the others as it is.                                                    *)
(***************************************************************************)
LinksType ==
  [head : [List -> Block \cup {NONE}], tail : [List -> Block \cup {NONE}],
   prev : [Block -> Block \cup {NONE}], next : [Block -> Block \cup {NONE}]]

Linked(h, t, prev, next, ord, S) ==
  /\ S = {} => h = NONE /\ t = NONE
  /\ S # {} => h \in S /\ t \in S /\ prev[h] = NONE /\ next[t] = NONE
  /\ \A b, c \in S : ord[b] = ord[c] => b = c
  /\ \A b \in S : ord[h] <= ord[b] /\ ord[b] <= ord[t]
  /\ \A b \in S \ {t} : next[b] \in S /\ ord[b] < ord[next[b]] /\ prev[next[b]] = b
  /\ \A b \in S \ {h} : prev[b] \in S /\ next[prev[b]] = b
  /\ \A b, c \in S : ord[b] < ord[c] => ord[next[b]] <= ord[c]

\* A list depends on the fields of its own blocks only.
LEMMA LinkedSame ==
  ASSUME NEW h, NEW t, NEW prev, NEW next, NEW ord, NEW S, Linked(h, t, prev, next, ord, S),
         \A b \in S : ord[b] \in Int,
         NEW prev2, NEW next2, NEW ord2,
         \A b \in S : prev2[b] = prev[b] /\ next2[b] = next[b] /\ ord2[b] = ord[b]
  PROVE  Linked(h, t, prev2, next2, ord2, S)
<1>1. S # {} => h \in S /\ t \in S
  BY DEF Linked
<1>2. \A b \in S : b # t => next[b] \in S
  BY DEF Linked
<1>3. \A b \in S : b # h => prev[b] \in S
  BY DEF Linked
<1>4. /\ S = {} => h = NONE /\ t = NONE
      /\ S # {} => h \in S /\ t \in S /\ prev2[h] = NONE /\ next2[t] = NONE
  BY DEF Linked
<1>5. \A b, c \in S : ord2[b] = ord2[c] => b = c
  BY DEF Linked
<1>6. \A b \in S : ord2[h] <= ord2[b] /\ ord2[b] <= ord2[t]
  BY DEF Linked
<1>7. ASSUME NEW b \in S \ {t}
      PROVE  next2[b] \in S /\ ord2[b] < ord2[next2[b]] /\ prev2[next2[b]] = b
  BY <1>2, <1>7 DEF Linked
<1>8. ASSUME NEW b \in S \ {h}
      PROVE  prev2[b] \in S /\ next2[prev2[b]] = b
  BY <1>3, <1>8 DEF Linked
<1>9. ASSUME NEW b \in S, NEW c \in S, ord2[b] < ord2[c]
      PROVE  ord2[next2[b]] <= ord2[c]
  <2>1. ord[b] < ord[c] /\ ord[next[b]] <= ord[c]
    BY <1>9 DEF Linked
  <2>2. CASE b # t
    BY <1>2, <2>1, <2>2
  <2>3. CASE b = t
    <3>1. ord[c] <= ord[b]
      BY <2>3 DEF Linked
    <3>2. ord[b] \in Int /\ ord[c] \in Int
      OBVIOUS
    <3> QED
      BY <2>1, <3>1, <3>2
  <2> QED
    BY <2>2, <2>3
<1> QED
  BY <1>4, <1>5, <1>6, <1>7, <1>8, <1>9 DEF Linked

PutLast(b, S, h, t, prev, next, ord, h2, prev2, next2, ord2) ==
  /\ h2 = IF t = NONE THEN b ELSE h
  /\ prev2[b] = t /\ next2[b] = NONE /\ ord2[b] \in Int
  /\ \A c \in S : /\ prev2[c] = prev[c]
                  /\ next2[c] = IF c = t THEN b ELSE next[c]
                  /\ ord2[c] = ord[c] /\ ord[c] < ord2[b]

\* A block that is in no list is put at the tail.
LEMMA LinkedPut ==
  ASSUME NEW h, NEW t, NEW prev, NEW next, NEW ord, NEW S, Linked(h, t, prev, next, ord, S),
         NEW b, b \notin S, \A c \in S : ord[c] \in Int, NONE \notin S, b # NONE,
         NEW h2, NEW prev2, NEW next2, NEW ord2,
         PutLast(b, S, h, t, prev, next, ord, h2, prev2, next2, ord2)
  PROVE  Linked(h2, b, prev2, next2, ord2, S \cup {b})
<1> USE DEF PutLast
<1>1. CASE S = {}
  <2>1. h2 = b /\ prev2[b] = NONE
    BY <1>1 DEF Linked
  <2> QED
    BY <1>1, <2>1 DEF Linked
<1>2. CASE S # {}
  <2>1. /\ h \in S /\ t \in S /\ prev[h] = NONE /\ h2 = h
        /\ \A c \in S : ord[h] <= ord[c] /\ ord[c] <= ord[t]
    BY <1>2 DEF Linked
  <2>2. \A c, e \in S : ord[c] = ord[e] => c = e
    BY DEF Linked
  <2>3. \A c \in S \ {t} : next[c] \in S /\ ord[c] < ord[next[c]] /\ prev[next[c]] = c
    BY DEF Linked
  <2>4. \A c \in S \ {h} : prev[c] \in S /\ next[prev[c]] = c
    BY DEF Linked
  <2>5. \A c, e \in S : ord[c] < ord[e] => ord[next[c]] <= ord[e]
    BY DEF Linked
  <2>6. next[t] = NONE
    BY <1>2 DEF Linked
  <2>7. prev2[h2] = NONE /\ next2[b] = NONE
    BY <2>1
  <2>8. \A c, e \in S \cup {b} : ord2[c] = ord2[e] => c = e
    <3> SUFFICES ASSUME NEW c \in S \cup {b}, NEW e \in S \cup {b}, ord2[c] = ord2[e], c # e
                 PROVE  FALSE
      OBVIOUS
    <3>1. CASE c = b
      BY <3>1
    <3>2. CASE e = b
      BY <3>2
    <3> QED
      BY <2>2, <3>1, <3>2
  <2>9. \A c \in S \cup {b} : ord2[h2] <= ord2[c] /\ ord2[c] <= ord2[b]
    BY <2>1
  <2>10. ASSUME NEW c \in S
         PROVE  /\ next2[c] \in S \cup {b} /\ ord2[c] < ord2[next2[c]]
                /\ prev2[next2[c]] = c
    <3>1. CASE c = t
      BY <3>1
    <3>2. CASE c # t
      BY <2>3, <3>2
    <3> QED
      BY <3>1, <3>2
  <2>11. ASSUME NEW c \in (S \cup {b}) \ {h2}
         PROVE  prev2[c] \in S \cup {b} /\ next2[prev2[c]] = c
    <3>1. CASE c = b
      BY <2>1, <3>1
    <3>2. CASE c # b
      <4>1. c \in S \ {h} /\ prev2[c] = prev[c] /\ prev[c] \in S /\ next[prev[c]] = c
        BY <2>1, <2>4, <3>2
      <4>2. prev[c] # t
        BY <2>6, <4>1
      <4> QED
        BY <4>1, <4>2
    <3> QED
      BY <3>1, <3>2
  <2>12. ASSUME NEW c \in S \cup {b}, NEW e \in S \cup {b}, ord2[c] < ord2[e]
         PROVE  ord2[next2[c]] <= ord2[e]
    <3>1. CASE c = b
      <4>1. e \in S \cup {b} /\ ord2[e] <= ord2[b] /\ ord2[e] \in Int
        BY <2>9
      <4> QED
        BY <2>12, <3>1, <4>1
    <3>2. CASE c = t
      <4>1. c \in S /\ next2[c] = b
        BY <2>1, <3>2
      <4>2. CASE e \in S
        <5>1. ord[e] <= ord[c] /\ ord[c] < ord[e] /\ ord[c] \in Int /\ ord[e] \in Int
          BY <2>1, <2>12, <3>2, <4>1, <4>2
        <5> QED
          BY <5>1
      <4> QED
        BY <4>1, <4>2
    <3>3. CASE c # t /\ c # b
      <4>1. c \in S /\ next2[c] = next[c] /\ next[c] \in S
        BY <2>3, <3>3
      <4>2. CASE e \in S
        BY <2>5, <2>12, <4>1, <4>2
      <4>3. CASE e = b
        BY <4>1, <4>3
      <4> QED
        BY <4>2, <4>3
    <3> QED
      BY <3>1, <3>2, <3>3
  <2> QED
    BY <2>1, <2>7, <2>8, <2>9, <2>10, <2>11, <2>12 DEF Linked
<1> QED
  BY <1>1, <1>2

TakenOut(b, S, h, t, prev, next, h2, t2, prev2, next2) ==
  /\ h2 = IF prev[b] = NONE THEN next[b] ELSE h
  /\ t2 = IF next[b] = NONE THEN prev[b] ELSE t
  /\ \A c \in S \ {b} :
       /\ prev2[c] = IF c = next[b] THEN prev[b] ELSE prev[c]
       /\ next2[c] = IF c = prev[b] THEN next[b] ELSE next[c]

\* A block is taken out of its list, wherever in the list it is.
LEMMA LinkedTaken ==
  ASSUME NEW h, NEW t, NEW prev, NEW next, NEW ord, NEW S, Linked(h, t, prev, next, ord, S),
         NEW b \in S, \A c \in S : ord[c] \in Int, NONE \notin S,
         NEW h2, NEW t2, NEW prev2, NEW next2,
         TakenOut(b, S, h, t, prev, next, h2, t2, prev2, next2)
  PROVE  Linked(h2, t2, prev2, next2, ord, S \ {b})
<1> USE DEF TakenOut
<1>1. /\ h \in S /\ t \in S /\ prev[h] = NONE /\ next[t] = NONE
      /\ \A c \in S : ord[h] <= ord[c] /\ ord[c] <= ord[t]
  BY DEF Linked
<1>2. \A c, e \in S : ord[c] = ord[e] => c = e
  BY DEF Linked
<1>3. \A c \in S \ {t} : next[c] \in S /\ ord[c] < ord[next[c]] /\ prev[next[c]] = c
  BY DEF Linked
<1>4. \A c \in S \ {h} : prev[c] \in S /\ next[prev[c]] = c
  BY DEF Linked
<1>5. \A c, e \in S : ord[c] < ord[e] => ord[next[c]] <= ord[e]
  BY DEF Linked
<1>6. (prev[b] = NONE <=> b = h) /\ (next[b] = NONE <=> b = t)
  BY <1>1, <1>3, <1>4
<1>7. \A c \in S \ {h} : ord[prev[c]] < ord[c] /\ prev[c] # t
  <2> SUFFICES ASSUME NEW c \in S \ {h} PROVE ord[prev[c]] < ord[c] /\ prev[c] # t
    OBVIOUS
  <2>1. prev[c] \in S /\ next[prev[c]] = c /\ prev[c] # t
    BY <1>1, <1>4
  <2> QED
    BY <1>3, <2>1
<1>8. CASE S = {b}
  <2>1. b = h /\ b = t
    BY <1>1, <1>8
  <2> QED
    BY <1>6, <1>8, <2>1 DEF Linked
<1>9. CASE S # {b}
  <2>0. PICK z \in S \ {b} : TRUE
    BY <1>9
  <2>1. ~(b = h /\ b = t)
    <3> SUFFICES ASSUME b = h, b = t PROVE FALSE
      OBVIOUS
    <3>1. ord[z] = ord[b] /\ z \in S
      <4>1. ord[b] <= ord[z] /\ ord[z] <= ord[b] /\ ord[b] \in Int /\ ord[z] \in Int
        BY <1>1, <2>0
      <4> QED
        BY <4>1
    <3> QED
      BY <1>2, <2>0, <3>1
  <2>2. h2 \in S \ {b} /\ h2 = (IF b = h THEN next[b] ELSE h)
    <3>1. CASE b = h
      <4>1. next[b] \in S /\ ord[b] < ord[next[b]] /\ ord[b] \in Int
        BY <1>3, <2>1, <3>1
      <4> QED
        BY <1>6, <3>1, <4>1
    <3> QED
      BY <1>1, <1>6, <3>1
  <2>3. t2 \in S \ {b} /\ t2 = (IF b = t THEN prev[b] ELSE t)
    <3>1. CASE b = t
      <4>1. prev[b] \in S /\ ord[prev[b]] < ord[b] /\ ord[b] \in Int
        BY <1>4, <1>7, <2>1, <3>1
      <4> QED
        BY <1>6, <3>1, <4>1
    <3> QED
      BY <1>1, <1>6, <3>1
  <2>4. prev2[h2] = NONE
    <3>1. CASE b = h
      BY <1>6, <2>2, <3>1
    <3>2. CASE b # h
      <4>1. h # next[b]
        BY <1>1, <1>3, <1>6, <3>2
      <4> QED
        BY <1>1, <2>2, <3>2, <4>1
    <3> QED
      BY <3>1, <3>2
  <2>5. next2[t2] = NONE
    <3>1. CASE b = t
      BY <1>6, <2>3, <3>1
    <3>2. CASE b # t
      <4>1. t # prev[b]
        BY <1>1, <1>6, <1>7
      <4> QED
        BY <1>1, <2>3, <3>2, <4>1
    <3> QED
      BY <3>1, <3>2
  <2>6. ASSUME NEW c \in S \ {b} PROVE ord[h2] <= ord[c]
    <3>1. CASE b = h
      <4>1. ord[b] <= ord[c] /\ ord[b] # ord[c] /\ ord[b] \in Int /\ ord[c] \in Int
        BY <1>1, <1>2, <3>1
      <4> QED
        BY <1>5, <2>2, <3>1, <4>1
    <3> QED
      BY <1>1, <2>2, <3>1
  <2>7. ASSUME NEW c \in S \ {b} PROVE ord[c] <= ord[t2]
    <3>1. CASE b = t
      <4>1. ord[c] <= ord[b] /\ ord[b] # ord[c] /\ ord[b] \in Int /\ ord[c] \in Int
        BY <1>1, <1>2, <3>1
      <4>2. prev[b] \in S /\ next[prev[b]] = b
        BY <1>4, <2>1, <3>1
      <4>3. ~(ord[prev[b]] < ord[c])
        <5>1. ord[prev[b]] < ord[c] => ord[b] <= ord[c]
          BY <1>5, <4>2
        <5> QED
          BY <4>1, <5>1
      <4>4. ord[prev[b]] \in Int
        BY <4>2
      <4> QED
        BY <2>3, <3>1, <4>1, <4>3, <4>4
    <3> QED
      BY <1>1, <2>3, <3>1
  <2>8. ASSUME NEW c \in (S \ {b}) \ {t2}
        PROVE  next2[c] \in S \ {b} /\ ord[c] < ord[next2[c]] /\ prev2[next2[c]] = c
    <3>1. CASE prev[b] = c
      <4>1. b # h /\ b # t
        BY <1>6, <2>3, <3>1
      <4>2. next[b] \in S /\ ord[b] < ord[next[b]] /\ ord[prev[b]] < ord[b]
        BY <1>3, <1>7, <4>1
      <4>3. next2[c] = next[b]
        BY <3>1
      <4>4. ord[c] < ord[next[b]] /\ next[b] # b
        <5>1. ord[b] \in Int /\ ord[c] \in Int /\ ord[next[b]] \in Int
          BY <4>2
        <5> QED
          BY <3>1, <4>2, <5>1
      <4> QED
        BY <3>1, <4>2, <4>3, <4>4
    <3>2. CASE prev[b] # c
      <4>1. c # t
        BY <1>6, <2>3, <3>2
      <4>2. next[c] \in S /\ ord[c] < ord[next[c]] /\ prev[next[c]] = c
        BY <1>3, <4>1
      <4>3. next[c] # b /\ next2[c] = next[c]
        BY <3>2, <4>2
      <4>4. next[c] # next[b]
        <5> SUFFICES ASSUME next[c] = next[b] PROVE FALSE
          OBVIOUS
        <5>1. b # t
          BY <1>1, <4>2
        <5> QED
          BY <1>3, <4>2, <5>1
      <4> QED
        BY <4>2, <4>3, <4>4
    <3> QED
      BY <3>1, <3>2
  <2>9. ASSUME NEW c \in (S \ {b}) \ {h2}
        PROVE  prev2[c] \in S \ {b} /\ next2[prev2[c]] = c
    <3>1. CASE next[b] = c
      <4>1. b # h /\ b # t
        BY <1>6, <2>2, <3>1
      <4>2. prev[b] \in S /\ ord[prev[b]] < ord[b] /\ ord[b] \in Int
        BY <1>4, <1>7, <4>1
      <4> QED
        BY <3>1, <4>2
    <3>2. CASE next[b] # c
      <4>1. c # h
        BY <1>6, <2>2, <3>2
      <4>2. prev[c] \in S /\ next[prev[c]] = c
        BY <1>4, <4>1
      <4>3. prev[c] # b /\ prev2[c] = prev[c]
        BY <3>2, <4>2
      <4>4. prev[c] # prev[b]
        <5> SUFFICES ASSUME prev[c] = prev[b] PROVE FALSE
          OBVIOUS
        <5>1. b # h
          BY <1>1, <4>2
        <5> QED
          BY <1>4, <4>2, <5>1
      <4> QED
        BY <4>2, <4>3, <4>4
    <3> QED
      BY <3>1, <3>2
  <2>10. ASSUME NEW c \in S \ {b}, NEW e \in S \ {b}, ord[c] < ord[e]
         PROVE  ord[next2[c]] <= ord[e]
    <3>1. CASE prev[b] = c
      <4>1. ord[next[c]] <= ord[e]
        BY <1>5, <2>10
      <4>2. b # h /\ next[c] = b
        BY <1>4, <1>6, <3>1
      <4>3. ord[b] < ord[e]
        <5>1. ord[b] # ord[e] /\ ord[b] \in Int /\ ord[e] \in Int
          BY <1>2
        <5> QED
          BY <4>1, <4>2, <5>1
      <4> QED
        BY <1>5, <3>1, <4>3
    <3>2. CASE prev[b] # c
      BY <1>5, <2>10, <3>2
    <3> QED
      BY <3>1, <3>2
  <2> QED
    BY <1>2, <2>2, <2>3, <2>4, <2>5, <2>6, <2>7, <2>8, <2>9, <2>10 DEF Linked
<1> QED
  BY <1>8, <1>9

-----------------------------------------------------------------------------
(***************************************************************************)
(* All lists of a die.  List i of r has the blocks S[i], no block is in    *)
(* two of them, and the fields of a block that is in none, but for those   *)
(* of V, are clear.  The same order serves all lists, as the fields do.    *)
(***************************************************************************)
Linking(r, S, ord) ==
  \A i \in List : Linked(r.head[i], r.tail[i], r.prev, r.next, ord, S[i])

Unlisted(S, b) == \A i \in List : b \notin S[i]
Apart(S) == \A i, j \in List : i # j => S[i] \cap S[j] = {}
Loose(r, S, V) ==
  \A b \in Block \ V : Unlisted(S, b) => r.prev[b] = NONE /\ r.next[b] = NONE

Good(r, S, V) ==
  /\ r \in LinksType /\ S \in [List -> SUBSET Block]
  /\ Apart(S) /\ Loose(r, S, V)
  /\ \E ord \in [Block -> Int] : Linking(r, S, ord)

\* The head of a list is one of its blocks.
LEMMA HeadGood ==
  ASSUME NEW r, NEW S, NEW V, Good(r, S, V), NEW i \in List
  PROVE  /\ S[i] = {} => r.head[i] = NONE /\ r.tail[i] = NONE
         /\ S[i] # {} => r.head[i] \in S[i] /\ r.head[i] \in Block /\ r.head[i] # NONE
                         /\ r.prev[r.head[i]] = NONE
<1>1. PICK ord \in [Block -> Int] : Linking(r, S, ord)
  BY DEF Good
<1>2. Linked(r.head[i], r.tail[i], r.prev, r.next, ord, S[i])
  BY <1>1 DEF Linking
<1>3. S[i] \subseteq Block
  BY DEF Good
<1> QED
  BY <1>2, <1>3, NoneApart DEF Linked

\* The neighbours of a block in its list.
LEMMA NeighboursGood ==
  ASSUME NEW r, NEW S, NEW V, Good(r, S, V), NEW i \in List, NEW b \in S[i]
  PROVE  /\ r.next[b] \in S[i] \cup {NONE} /\ r.prev[b] \in S[i] \cup {NONE}
         /\ r.prev[b] = NONE <=> b = r.head[i]
         /\ r.next[b] = NONE <=> b = r.tail[i]
<1>1. PICK ord \in [Block -> Int] : Linking(r, S, ord)
  BY DEF Good
<1>2. Linked(r.head[i], r.tail[i], r.prev, r.next, ord, S[i])
  BY <1>1 DEF Linking
<1>3. S[i] \subseteq Block /\ NONE \notin S[i]
  BY NoneApart DEF Good
<1> QED
  BY <1>2, <1>3 DEF Linked

\* A block is put at the tail of list i.
LEMMA PutGood ==
  ASSUME NEW r, NEW S, NEW V, NEW i \in List, NEW b \in Block,
         Good(r, S, V \cup {b}), Unlisted(S, b), NEW r2 \in LinksType,
         NEW S2 \in [List -> SUBSET Block], S2[i] = S[i] \cup {b},
         \A j \in List \ {i} : S2[j] = S[j],
         \A j \in List \ {i} : r2.head[j] = r.head[j] /\ r2.tail[j] = r.tail[j],
         r2.head[i] = (IF r.tail[i] = NONE THEN b ELSE r.head[i]), r2.tail[i] = b,
         r2.prev[b] = r.tail[i], \A c \in Block \ {b} : r2.prev[c] = r.prev[c],
         r2.next[b] = NONE,
         \A c \in Block \ {b} : r2.next[c] = IF c = r.tail[i] THEN b ELSE r.next[c]
  PROVE  Good(r2, S2, V)
<1>1. PICK ord \in [Block -> Int] : Linking(r, S, ord)
  BY DEF Good
<1>2. \A j \in List : S[j] \subseteq Block /\ b \notin S[j] /\ NONE \notin S[j] /\ b # NONE
  BY NoneApart DEF Good, Unlisted
<1>3. \A j \in List : Linked(r.head[j], r.tail[j], r.prev, r.next, ord, S[j])
  BY <1>1 DEF Linking
<1>4. Apart(S) /\ Loose(r, S, V \cup {b}) /\ r \in LinksType
  BY DEF Good
<1>5. r.tail[i] \in S[i] \cup {NONE} /\ r.tail[i] # b
  BY <1>2, <1>3 DEF Linked
<1>6. PICK m \in Int : \A c \in S[i] : ord[c] < m
  <2>1. CASE S[i] = {}
    BY <2>1
  <2>2. CASE S[i] # {}
    <3>1. r.tail[i] \in S[i] /\ \A c \in S[i] : ord[c] <= ord[r.tail[i]]
      BY <1>3, <2>2 DEF Linked
    <3>2. ord[r.tail[i]] \in Int /\ \A c \in S[i] : ord[c] \in Int
      BY <1>2, <3>1
    <3>3. \A c \in S[i] : ord[c] < ord[r.tail[i]] + 1
      BY <3>1, <3>2
    <3> QED
      BY <3>2, <3>3
  <2> QED
    BY <2>1, <2>2
<1>7. PICK ord2 \in [Block -> Int] : ord2[b] = m /\ \A c \in Block \ {b} : ord2[c] = ord[c]
  <2>1. [ord EXCEPT ![b] = m] \in [Block -> Int]
    OBVIOUS
  <2> QED
    BY <2>1
<1>8. Linked(r2.head[i], r2.tail[i], r2.prev, r2.next, ord2, S2[i])
  <2>1. PICK h, t, prev, next, h2, prev2, next2 :
          /\ h = r.head[i] /\ t = r.tail[i] /\ prev = r.prev /\ next = r.next
          /\ h2 = r2.head[i] /\ prev2 = r2.prev /\ next2 = r2.next
    OBVIOUS
  <2>2. PICK T : T = S[i] /\ T \subseteq Block /\ b \notin T /\ NONE \notin T
    BY <1>2
  <2>3. Linked(h, t, prev, next, ord, T)
    BY <1>3, <2>1, <2>2
  <2>4. \A c \in T : ord[c] \in Int
    BY <2>2
  <2>5. h2 = (IF t = NONE THEN b ELSE h) /\ prev2[b] = t /\ next2[b] = NONE
    BY <2>1
  <2>6. \A c \in T : prev2[c] = prev[c]
    BY <2>1, <2>2
  <2>7. \A c \in T : next2[c] = IF c = t THEN b ELSE next[c]
    BY <2>1, <2>2
  <2>8. ord2[b] \in Int /\ \A c \in T : ord2[c] = ord[c] /\ ord[c] < ord2[b]
    BY <1>6, <1>7, <2>2
  <2>9. PutLast(b, T, h, t, prev, next, ord, h2, prev2, next2, ord2)
    BY <2>5, <2>6, <2>7, <2>8 DEF PutLast
  <2>10. Linked(h2, b, prev2, next2, ord2, T \cup {b})
    BY <1>2, <2>2, <2>3, <2>4, <2>9, LinkedPut
  <2> QED
    BY <2>1, <2>2, <2>10
<1>9. ASSUME NEW j \in List \ {i}
      PROVE  Linked(r2.head[j], r2.tail[j], r2.prev, r2.next, ord2, S2[j])
  <2>1. \A c \in S[j] : c \in Block /\ c # b /\ c # r.tail[i]
    BY <1>2, <1>4, <1>5 DEF Apart
  <2>2. PICK h, t, prev, next, prev2, next2, T :
          /\ h = r.head[j] /\ t = r.tail[j] /\ prev = r.prev /\ next = r.next
          /\ prev2 = r2.prev /\ next2 = r2.next /\ T = S[j]
    OBVIOUS
  <2>3. Linked(h, t, prev, next, ord, T) /\ \A c \in T : ord[c] \in Int
    BY <1>3, <2>1, <2>2
  <2>4. \A c \in T : prev2[c] = prev[c] /\ next2[c] = next[c] /\ ord2[c] = ord[c]
    BY <1>7, <2>1, <2>2
  <2>5. Linked(h, t, prev2, next2, ord2, T)
    BY <2>3, <2>4, LinkedSame
  <2> QED
    BY <2>2, <2>5
<1>10. Linking(r2, S2, ord2)
  BY <1>8, <1>9 DEF Linking
<1>11. Apart(S2)
  BY <1>2, <1>4 DEF Apart
<1>12. Loose(r2, S2, V)
  <2> SUFFICES ASSUME NEW c \in Block \ V, Unlisted(S2, c)
               PROVE  r2.prev[c] = NONE /\ r2.next[c] = NONE
    BY DEF Loose
  <2>1. c # b /\ Unlisted(S, c) /\ c # NONE
    BY NoneApart DEF Unlisted
  <2>2. c # r.tail[i]
    BY <1>5, <2>1 DEF Unlisted
  <2> QED
    BY <1>4, <2>1, <2>2 DEF Loose
<1> QED
  BY <1>10, <1>11, <1>12 DEF Good

\* Block b is taken out of list i.
LEMMA TakenGood ==
  ASSUME NEW r, NEW S, NEW V, NEW i \in List, NEW b \in S[i],
         Good(r, S, V), NEW r2 \in LinksType,
         NEW S2 \in [List -> SUBSET Block], S2[i] = S[i] \ {b},
         \A j \in List \ {i} : S2[j] = S[j],
         \A j \in List \ {i} : r2.head[j] = r.head[j] /\ r2.tail[j] = r.tail[j],
         r2.head[i] = (IF r.prev[b] = NONE THEN r.next[b] ELSE r.head[i]),
         r2.tail[i] = (IF r.next[b] = NONE THEN r.prev[b] ELSE r.tail[i]),
         \A c \in Block \ {b} : r2.prev[c] = IF c = r.next[b] THEN r.prev[b] ELSE r.prev[c],
         \A c \in Block \ {b} : r2.next[c] = IF c = r.prev[b] THEN r.next[b] ELSE r.next[c]
  PROVE  Good(r2, S2, V \cup {b})
<1>1. PICK ord \in [Block -> Int] : Linking(r, S, ord)
  BY DEF Good
<1>2. \A j \in List : S[j] \subseteq Block /\ NONE \notin S[j]
  BY NoneApart DEF Good
<1>3. \A j \in List : Linked(r.head[j], r.tail[j], r.prev, r.next, ord, S[j])
  BY <1>1 DEF Linking
<1>4. Apart(S) /\ Loose(r, S, V)
  BY DEF Good
<1>5. r.next[b] \in S[i] \cup {NONE} /\ r.prev[b] \in S[i] \cup {NONE}
  BY NeighboursGood
<1>6. Linked(r2.head[i], r2.tail[i], r2.prev, r2.next, ord, S2[i])
  <2>1. PICK h, t, prev, next, h2, t2, prev2, next2 :
          /\ h = r.head[i] /\ t = r.tail[i] /\ prev = r.prev /\ next = r.next
          /\ h2 = r2.head[i] /\ t2 = r2.tail[i] /\ prev2 = r2.prev /\ next2 = r2.next
    OBVIOUS
  <2>2. PICK T : T = S[i] /\ T \subseteq Block /\ b \in T /\ NONE \notin T
    BY <1>2
  <2>3. Linked(h, t, prev, next, ord, T) /\ \A c \in T : ord[c] \in Int
    BY <1>3, <2>1, <2>2
  <2>4. /\ h2 = (IF prev[b] = NONE THEN next[b] ELSE h)
        /\ t2 = (IF next[b] = NONE THEN prev[b] ELSE t)
    BY <2>1
  <2>5. \A c \in T \ {b} : prev2[c] = IF c = next[b] THEN prev[b] ELSE prev[c]
    BY <2>1, <2>2
  <2>6. \A c \in T \ {b} : next2[c] = IF c = prev[b] THEN next[b] ELSE next[c]
    BY <2>1, <2>2
  <2>7. TakenOut(b, T, h, t, prev, next, h2, t2, prev2, next2)
    BY <2>4, <2>5, <2>6 DEF TakenOut
  <2>8. Linked(h2, t2, prev2, next2, ord, T \ {b})
    BY <2>2, <2>3, <2>7, LinkedTaken
  <2> QED
    BY <2>1, <2>2, <2>8
<1>7. ASSUME NEW j \in List \ {i}
      PROVE  Linked(r2.head[j], r2.tail[j], r2.prev, r2.next, ord, S2[j])
  <2>1. \A c \in S[j] : c \in Block /\ c # b /\ c # r.next[b] /\ c # r.prev[b]
    BY <1>2, <1>4, <1>5 DEF Apart
  <2>2. PICK h, t, prev, next, prev2, next2, T :
          /\ h = r.head[j] /\ t = r.tail[j] /\ prev = r.prev /\ next = r.next
          /\ prev2 = r2.prev /\ next2 = r2.next /\ T = S[j]
    OBVIOUS
  <2>3. Linked(h, t, prev, next, ord, T) /\ \A c \in T : ord[c] \in Int
    BY <1>3, <2>1, <2>2
  <2>4. \A c \in T : prev2[c] = prev[c] /\ next2[c] = next[c]
    BY <2>1, <2>2
  <2>5. Linked(h, t, prev2, next2, ord, T)
    BY <2>3, <2>4, LinkedSame
  <2> QED
    BY <2>2, <2>5
<1>8. Linking(r2, S2, ord)
  BY <1>6, <1>7 DEF Linking
<1>9. Apart(S2)
  BY <1>2, <1>4 DEF Apart
<1>10. Loose(r2, S2, V \cup {b})
  <2> SUFFICES ASSUME NEW c \in Block \ (V \cup {b}), Unlisted(S2, c)
               PROVE  r2.prev[c] = NONE /\ r2.next[c] = NONE
    BY DEF Loose
  <2>1. c # b /\ Unlisted(S, c) /\ c # NONE
    BY NoneApart DEF Unlisted
  <2>2. c # r.next[b] /\ c # r.prev[b]
    BY <1>5, <2>1 DEF Unlisted
  <2> QED
    BY <1>4, <2>1, <2>2 DEF Loose
<1> QED
  BY <1>8, <1>9, <1>10 DEF Good

(***************************************************************************)
(* The operations of the code on the lists.                                *)
(***************************************************************************)
LEMMA PutTailGood ==
  ASSUME NEW r, NEW S, NEW V, NEW i \in List, NEW b \in Block,
         Good(r, S, V \cup {b}), Unlisted(S, b),
         NEW S2 \in [List -> SUBSET Block], S2[i] = S[i] \cup {b},
         \A j \in List \ {i} : S2[j] = S[j]
  PROVE  Good(PutTail(r, i, b), S2, V)
<1>1. r \in LinksType
  BY DEF Good
<1>2. PICK r2 : r2 = PutTail(r, i, b)
  OBVIOUS
<1>3. r.tail[i] # NONE => r.tail[i] \in Block
  BY <1>1 DEF LinksType
<1>4. b # r.tail[i]
  <2>1. PICK ord \in [Block -> Int] : Linking(r, S, ord)
    BY DEF Good
  <2>2. Linked(r.head[i], r.tail[i], r.prev, r.next, ord, S[i])
    BY <2>1 DEF Linking
  <2> QED
    BY <2>2, NoneApart DEF Linked, Unlisted
<1>5. r2 \in LinksType
  BY <1>1, <1>2, <1>3 DEF PutTail, LinksType
<1>6. /\ \A j \in List \ {i} : r2.head[j] = r.head[j] /\ r2.tail[j] = r.tail[j]
      /\ r2.head[i] = (IF r.tail[i] = NONE THEN b ELSE r.head[i]) /\ r2.tail[i] = b
  BY <1>1, <1>2 DEF PutTail, LinksType
<1>7. /\ r2.prev[b] = r.tail[i] /\ \A c \in Block \ {b} : r2.prev[c] = r.prev[c]
      /\ r2.next[b] = NONE
      /\ \A c \in Block \ {b} : r2.next[c] = IF c = r.tail[i] THEN b ELSE r.next[c]
  BY <1>1, <1>2, <1>3, <1>4, NoneApart DEF PutTail, LinksType
<1> QED
  BY <1>2, <1>5, <1>6, <1>7, PutGood

\* SelectiveGetFromGcVictimList, of a block that is in the list.
LEMMA SelectiveGood ==
  ASSUME NEW r, NEW S, NEW V, NEW i \in List, NEW b \in S[i], Good(r, S, V),
         NEW S2 \in [List -> SUBSET Block], S2[i] = S[i] \ {b},
         \A j \in List \ {i} : S2[j] = S[j]
  PROVE  Good(SelectiveGet(r, i, b), S2, V \cup {b})
<1>1. r \in LinksType /\ b \in Block
  BY DEF Good
<1>2. PICK r2 : r2 = SelectiveGet(r, i, b)
  OBVIOUS
<1>3. /\ r.next[b] \in S[i] \cup {NONE} /\ r.prev[b] \in S[i] \cup {NONE}
      /\ S[i] \subseteq Block /\ NONE \notin Block
      /\ r.prev[b] = NONE <=> b = r.head[i]
      /\ r.next[b] = NONE <=> b = r.tail[i]
  BY NeighboursGood, NoneApart DEF Good
<1>4. r2 \in LinksType
  BY <1>1, <1>2, <1>3 DEF SelectiveGet, LinksType
<1>5. /\ \A j \in List \ {i} : r2.head[j] = r.head[j] /\ r2.tail[j] = r.tail[j]
      /\ r2.head[i] = (IF r.prev[b] = NONE THEN r.next[b] ELSE r.head[i])
      /\ r2.tail[i] = (IF r.next[b] = NONE THEN r.prev[b] ELSE r.tail[i])
  BY <1>1, <1>2, <1>3 DEF SelectiveGet, LinksType
<1>6. /\ \A c \in Block \ {b} : r2.prev[c] = IF c = r.next[b] THEN r.prev[b] ELSE r.prev[c]
      /\ \A c \in Block \ {b} : r2.next[c] = IF c = r.prev[b] THEN r.next[b] ELSE r.next[c]
  BY <1>1, <1>2, <1>3 DEF SelectiveGet, LinksType
<1> QED
  BY <1>2, <1>4, <1>5, <1>6, TakenGood

\* GetFromGcVictimList.
LEMMA GetHeadGood ==
  ASSUME NEW r, NEW S, NEW V, NEW i \in List, S[i] # {}, Good(r, S, V),
         NEW S2 \in [List -> SUBSET Block], S2[i] = S[i] \ {r.head[i]},
         \A j \in List \ {i} : S2[j] = S[j]
  PROVE  Good(GetHead(r, i), S2, V \cup {r.head[i]})
<1>1. PICK b : b = r.head[i] /\ b \in S[i] /\ b \in Block
  BY HeadGood
<1>2. PICK r2 : r2 = GetHead(r, i)
  OBVIOUS
<1>3. /\ r.next[b] \in S[i] \cup {NONE} /\ r.prev[b] = NONE
      /\ S[i] \subseteq Block /\ NONE \notin Block /\ r \in LinksType
      /\ r.next[b] = NONE <=> b = r.tail[i]
  BY <1>1, NeighboursGood, NoneApart DEF Good
<1>4. r2 \in LinksType
  BY <1>1, <1>2, <1>3 DEF GetHead, LinksType
<1>5. /\ \A j \in List \ {i} : r2.head[j] = r.head[j] /\ r2.tail[j] = r.tail[j]
      /\ r2.head[i] = (IF r.prev[b] = NONE THEN r.next[b] ELSE r.head[i])
      /\ r2.tail[i] = (IF r.next[b] = NONE THEN r.prev[b] ELSE r.tail[i])
  BY <1>1, <1>2, <1>3 DEF GetHead, LinksType
<1>6. /\ \A c \in Block \ {b} : r2.prev[c] = IF c = r.next[b] THEN r.prev[b] ELSE r.prev[c]
      /\ \A c \in Block \ {b} : r2.next[c] = IF c = r.prev[b] THEN r.next[b] ELSE r.next[c]
  BY <1>1, <1>2, <1>3 DEF GetHead, LinksType
<1> QED
  BY <1>1, <1>2, <1>4, <1>5, <1>6, TakenGood

\* A block from the free list has clear fields.
LEMMA GetFreeGood ==
  ASSUME NEW r, NEW S, NEW V, S[FreeList] # {}, Good(r, S, V),
         NEW S2 \in [List -> SUBSET Block], S2[FreeList] = S[FreeList] \ {r.head[FreeList]},
         \A j \in List \ {FreeList} : S2[j] = S[j]
  PROVE  Good(GetFree(r), S2, V)
<1>0. FreeList \in List
  BY DEF List
<1>1. PICK b : b = r.head[FreeList] /\ b \in S[FreeList] /\ b \in Block
  BY <1>0, HeadGood
<1>2. PICK q : q = GetHead(r, FreeList)
  OBVIOUS
<1>3. Good(q, S2, V \cup {b})
  BY <1>0, <1>1, <1>2, GetHeadGood
<1>4. PICK r2 : r2 = GetFree(r)
  OBVIOUS
<1>5. r2 = [q EXCEPT !.next[b] = NONE, !.prev[b] = NONE]
  BY <1>1, <1>2, <1>4 DEF GetFree
<1>6. q \in LinksType
  BY <1>3 DEF Good
<1>7. /\ r2 \in LinksType /\ r2.head = q.head /\ r2.tail = q.tail
      /\ r2.prev[b] = NONE /\ r2.next[b] = NONE
      /\ \A c \in Block \ {b} : r2.prev[c] = q.prev[c] /\ r2.next[c] = q.next[c]
  BY <1>1, <1>5, <1>6 DEF LinksType
<1>8. Unlisted(S2, b)
  <2>1. \A j \in List \ {FreeList} : S[j] \cap S[FreeList] = {}
    BY <1>0 DEF Good, Apart
  <2> QED
    BY <1>1, <2>1 DEF Unlisted
<1>9. PICK ord \in [Block -> Int] : Linking(q, S2, ord)
  BY <1>3 DEF Good
<1>10. Linking(r2, S2, ord)
  <2> SUFFICES ASSUME NEW j \in List
               PROVE  Linked(r2.head[j], r2.tail[j], r2.prev, r2.next, ord, S2[j])
    BY DEF Linking
  <2>1. \A c \in S2[j] : c \in Block /\ c # b
    BY <1>8 DEF Unlisted
  <2>2. PICK h, t, prev, next, prev2, next2, T :
          /\ h = q.head[j] /\ t = q.tail[j] /\ prev = q.prev /\ next = q.next
          /\ prev2 = r2.prev /\ next2 = r2.next /\ T = S2[j]
    OBVIOUS
  <2>3. Linked(h, t, prev, next, ord, T) /\ \A c \in T : ord[c] \in Int
    BY <1>9, <2>1, <2>2 DEF Linking
  <2>4. \A c \in T : prev2[c] = prev[c] /\ next2[c] = next[c]
    BY <1>7, <2>1, <2>2
  <2>5. Linked(h, t, prev2, next2, ord, T)
    BY <2>3, <2>4, LinkedSame
  <2> QED
    BY <1>7, <2>2, <2>5
<1>11. Loose(r2, S2, V)
  BY <1>3, <1>7 DEF Good, Loose
<1> QED
  BY <1>3, <1>4, <1>7, <1>10, <1>11 DEF Good

-----------------------------------------------------------------------------
(***************************************************************************)
(* Functions on 0..n that are defined from their last value.               *)
(***************************************************************************)
LEMMA LeastNatural ==
  ASSUME NEW B \in SUBSET Nat, B # {}
  PROVE  \E n \in B : \A m \in B : n <= m
<1>1. PICK n \in B : \A m \in B : <<m, n>> \notin OpToRel(<, Nat)
  BY NatLessThanWellFounded, WFMin
<1>2. \A m \in B : n \in Nat /\ m \in Nat /\ ~(m < n)
  BY <1>1 DEF OpToRel
<1> QED
  BY <1>2

\* Induction up to U.
LEMMA StepByStep ==
  ASSUME NEW U \in Nat, NEW T, 0 \in T,
         \A n \in 0..U : n # 0 /\ n-1 \in T => n \in T
  PROVE  \A n \in 0..U : n \in T
<1> SUFFICES ASSUME NEW n \in 0..U, n \notin T PROVE FALSE
  OBVIOUS
<1>1. PICK B : B = {k \in 0..U : k \notin T}
  OBVIOUS
<1>2. B \in SUBSET Nat /\ B # {}
  BY <1>1
<1>3. PICK m \in B : \A k \in B : m <= k
  BY <1>2, LeastNatural
<1>4. m \in 0..U /\ m \notin T /\ m # 0
  BY <1>1
<1>5. m - 1 \in 0..U /\ ~(m <= m - 1)
  BY <1>4
<1>6. m - 1 \notin B
  BY <1>3, <1>5
<1> QED
  BY <1>1, <1>4, <1>5, <1>6

StepsIn(g, U, X) == g \in [(0..U) \X X -> X]
StepsFrom(f, U, X, x, g) ==
  f \in [0..U -> X] /\ f[0] = x /\ \A n \in 0..U : n # 0 => f[n] = g[<<n, f[n-1]>>]

\* There is a function that starts with x and goes on as g says.
LEMMA Recursion ==
  ASSUME NEW U \in Nat, NEW X, NEW x \in X, NEW g, StepsIn(g, U, X)
  PROVE  \E f : StepsFrom(f, U, X, x, g)
<1> DEFINE Upto(k, f) == f[0] = x /\ \A n \in 0..k : n # 0 => f[n] = g[<<n, f[n-1]>>]
           Has(k) == \E f \in [0..k -> X] : Upto(k, f)
           T == {k \in 0..U : Has(k)}
<1>0. g \in [(0..U) \X X -> X]
  BY DEF StepsIn
<1>1. Has(0)
  <2>1. [k \in 0..0 |-> x] \in [0..0 -> X] /\ Upto(0, [k \in 0..0 |-> x])
    OBVIOUS
  <2> QED
    BY <2>1
<1>4. ASSUME NEW k \in 0..U, k # 0, Has(k-1)
      PROVE  Has(k)
  <2>1. PICK f \in [0..(k-1) -> X] : Upto(k-1, f)
    BY <1>4
  <2>2. f[k-1] \in X /\ g[<<k, f[k-1]>>] \in X
    <3>1. k-1 \in 0..(k-1) /\ k \in 0..U
      BY <1>4
    <3>2. f[k-1] \in X
      BY <2>1, <3>1
    <3>3. <<k, f[k-1]>> \in (0..U) \X X
      BY <3>1, <3>2
    <3> QED
      BY <1>0, <3>2, <3>3
  <2>3. PICK e : e = [n \in 0..k |-> IF n = k THEN g[<<k, f[k-1]>>] ELSE f[n]]
    OBVIOUS
  <2>4. \A n \in 0..k : n # k => n \in 0..(k-1) /\ e[n] = f[n]
    BY <2>3
  <2>5. e \in [0..k -> X]
    BY <2>2, <2>3, <2>4
  <2>6. ASSUME NEW n \in 0..k, n # 0 PROVE e[n] = g[<<n, e[n-1]>>]
    <3>1. CASE n = k
      <4>1. k-1 \in 0..k /\ k-1 # k
        BY <1>4
      <4>2. e[k-1] = f[k-1]
        BY <2>4, <4>1
      <4> QED
        BY <2>3, <3>1, <4>2
    <3>2. CASE n # k
      <4>1. n \in 0..(k-1) /\ n-1 \in 0..k /\ n-1 # k
        BY <2>6, <3>2
      <4>2. e[n] = f[n] /\ e[n-1] = f[n-1]
        BY <2>4, <3>2, <4>1
      <4> QED
        BY <2>1, <2>6, <4>1, <4>2
    <3> QED
      BY <3>1, <3>2
  <2>7. e[0] = x
    BY <1>4, <2>1, <2>4
  <2>8. Upto(k, e)
    BY <2>6, <2>7
  <2> QED
    BY <2>5, <2>8
<1>5. Has(U)
  <2> HIDE DEF Has
  <2>1. 0 \in T
    BY <1>1
  <2>2. \A k \in 0..U : k # 0 /\ k-1 \in T => k \in T
    BY <1>4
  <2> HIDE DEF T
  <2>3. U \in 0..U
    OBVIOUS
  <2>4. U \in T
    BY <2>1, <2>2, <2>3, StepByStep
  <2> QED
    BY <2>4 DEF T
<1> QED
  BY <1>5 DEF StepsFrom

-----------------------------------------------------------------------------
(***************************************************************************)
(* InitBlockMap lists the good blocks of a die in order.                   *)
(***************************************************************************)
BlocksBelow(d, n) == {b \in GoodBlocks(d) : b < n}

FreeOnly(F) == [i \in List |-> IF i = FreeList THEN F ELSE {}]

InOrder(r, d, n) ==
  /\ Good(r, FreeOnly(BlocksBelow(d, n)), {})
  /\ \A b \in BlocksBelow(d, n) : r.head[FreeList] <= b

\* At first no block is listed,
LEMMA UnlinkedGood ==
  ASSUME NEW d \in Die
  PROVE  InOrder(Unlinked, d, 0)
<1>1. PICK S : S = FreeOnly(BlocksBelow(d, 0))
  OBVIOUS
<1>2. BlocksBelow(d, 0) = {}
  BY FtlAssumption DEF BlocksBelow, GoodBlocks, Block
<1>3. S \in [List -> SUBSET Block] /\ \A i \in List : S[i] = {}
  BY <1>1, <1>2 DEF FreeOnly
<1>4. PICK r : r = Unlinked
  OBVIOUS
<1>5. /\ r \in LinksType
      /\ \A i \in List : r.head[i] = NONE /\ r.tail[i] = NONE
      /\ \A b \in Block : r.prev[b] = NONE /\ r.next[b] = NONE
  BY <1>4 DEF Unlinked, LinksType
<1>6. Apart(S) /\ Loose(r, S, {})
  BY <1>3, <1>5 DEF Apart, Loose
<1>7. PICK ord \in [Block -> Int] : TRUE
  <2>1. PICK I : I = Int /\ 0 \in I
    OBVIOUS
  <2>2. [b \in Block |-> 0] \in [Block -> I]
    BY <2>1
  <2> QED
    BY <2>1, <2>2
<1>8. Linking(r, S, ord)
  BY <1>3, <1>5 DEF Linking, Linked
<1>9. Good(r, S, {})
  BY <1>3, <1>5, <1>6, <1>8 DEF Good
<1> QED
  BY <1>1, <1>2, <1>4, <1>9 DEF InOrder

\* then each good one is put at the tail of the free list.
LEMMA NextInOrder ==
  ASSUME NEW d \in Die, NEW n \in 1..USER_BLOCKS_PER_DIE, NEW r, InOrder(r, d, n-1)
  PROVE  InOrder(IF n-1 \in GoodBlocks(d) THEN PutTail(r, FreeList, n-1) ELSE r, d, n)
<1>0. FreeList \in List /\ \A b \in Block : b \in Nat
  BY FtlAssumption DEF List, Block
<1>1. CASE n-1 \notin GoodBlocks(d)
  <2>1. BlocksBelow(d, n) = BlocksBelow(d, n-1)
    BY <1>0, <1>1 DEF BlocksBelow, GoodBlocks
  <2> QED
    BY <1>1, <2>1 DEF InOrder
<1>2. CASE n-1 \in GoodBlocks(d)
  <2>1. PICK b : b = n-1 /\ b \in Block
    BY <1>2 DEF GoodBlocks
  <2>2. BlocksBelow(d, n) = BlocksBelow(d, n-1) \cup {b} /\ b \notin BlocksBelow(d, n-1)
    <3>1. \A c \in Block : c < n <=> c < n-1 \/ c = n-1
      BY <1>0
    <3>2. ~(n-1 < n-1)
      OBVIOUS
    <3> QED
      BY <1>2, <2>1, <3>1, <3>2 DEF BlocksBelow, GoodBlocks
  <2>3. PICK F, S, S2 : /\ F = BlocksBelow(d, n-1) /\ S = FreeOnly(F)
                        /\ S2 = FreeOnly(F \cup {b})
    OBVIOUS
  <2>4. F \subseteq Block
    BY <2>3 DEF BlocksBelow, GoodBlocks
  <2>5. /\ S2 \in [List -> SUBSET Block] /\ S[FreeList] = F /\ S2[FreeList] = S[FreeList] \cup {b}
        /\ \A j \in List \ {FreeList} : S2[j] = S[j] /\ S[j] = {}
    BY <1>0, <2>1, <2>3, <2>4 DEF FreeOnly
  <2>6. Unlisted(S, b)
    BY <2>2, <2>3, <2>5 DEF Unlisted
  <2>7. Good(r, S, {}) /\ \A c \in F : r.head[FreeList] <= c
    BY <2>3 DEF InOrder
  <2>8. Good(r, S, {} \cup {b})
    BY <2>7 DEF Good, Loose
  <2>9. Good(PutTail(r, FreeList, b), S2, {})
    BY <1>0, <2>1, <2>5, <2>6, <2>8, PutTailGood
  <2>10. PICK q : q = PutTail(r, FreeList, b)
    OBVIOUS
  <2>11. q.head[FreeList] = IF r.tail[FreeList] = NONE THEN b ELSE r.head[FreeList]
    BY <1>0, <2>7, <2>10 DEF PutTail, Good, LinksType
  <2>12. ASSUME NEW c \in F \cup {b} PROVE q.head[FreeList] <= c
    <3>1. CASE F = {}
      <4>1. r.tail[FreeList] = NONE /\ c = b
        BY <1>0, <2>5, <2>7, <3>1, HeadGood
      <4> QED
        BY <1>0, <2>1, <2>11, <4>1
    <3>2. CASE F # {}
      <4>1. r.head[FreeList] \in F /\ r.head[FreeList] \in Block
        BY <1>0, <2>5, <2>7, <3>2, HeadGood
      <4>2. r.head[FreeList] < b
        BY <2>1, <2>3, <4>1 DEF BlocksBelow
      <4>3. r.head[FreeList] <= c
        <5>0. r.head[FreeList] \in Nat /\ b \in Nat
          BY <1>0, <2>1, <4>1
        <5>1. CASE c = b
          BY <4>2, <5>0, <5>1
        <5> QED
          BY <2>7, <5>1
      <4>4. r.tail[FreeList] # NONE
        <5>1. PICK ord \in [Block -> Int] : Linking(r, S, ord)
          BY <2>7 DEF Good
        <5>2. Linked(r.head[FreeList], r.tail[FreeList], r.prev, r.next, ord, S[FreeList])
          BY <1>0, <5>1 DEF Linking
        <5> QED
          BY <2>4, <2>5, <3>2, <5>2, NoneApart DEF Linked
      <4> QED
        BY <2>11, <4>3, <4>4
    <3> QED
      BY <3>1, <3>2
  <2> QED
    BY <1>2, <2>1, <2>2, <2>3, <2>9, <2>10, <2>12 DEF InOrder
<1> QED
  BY <1>1, <1>2

\* PutToFbList keeps the type of the links.
LEMMA PutTailType ==
  ASSUME NEW r \in LinksType, NEW i \in List, NEW b \in Block
  PROVE  PutTail(r, i, b) \in LinksType
<1>1. r.tail[i] # NONE => r.tail[i] \in Block
  BY DEF LinksType
<1>2. PICK r2 : r2 = PutTail(r, i, b)
  OBVIOUS
<1>3. r2 \in LinksType
  BY <1>1, <1>2 DEF PutTail, LinksType
<1> QED
  BY <1>2, <1>3

\* So all good blocks are listed, the first one at the head.
LEMMA AllFreeInOrder ==
  ASSUME NEW d \in Die
  PROVE  InOrder(AllFree(d), d, USER_BLOCKS_PER_DIE)
<1>1. PICK U \in Nat : U = USER_BLOCKS_PER_DIE
  BY FtlAssumption
<1>2. PICK g : g = [p \in (0..U) \X LinksType |->
                      IF p[1]-1 \in GoodBlocks(d) THEN PutTail(p[2], FreeList, p[1]-1) ELSE p[2]]
  OBVIOUS
<1>3. ASSUME NEW r \in LinksType, NEW b \in Block PROVE PutTail(r, FreeList, b) \in LinksType
  BY PutTailType DEF List
<1>4. ASSUME NEW n \in 0..U, NEW r \in LinksType
      PROVE  /\ g[<<n, r>>] = IF n-1 \in GoodBlocks(d) THEN PutTail(r, FreeList, n-1) ELSE r
             /\ g[<<n, r>>] \in LinksType
  <2>1. g[<<n, r>>] = IF n-1 \in GoodBlocks(d) THEN PutTail(r, FreeList, n-1) ELSE r
    BY <1>2
  <2>2. n-1 \in GoodBlocks(d) => n-1 \in Block
    BY DEF GoodBlocks
  <2> QED
    BY <1>3, <2>1, <2>2
<1>5. g \in [(0..U) \X LinksType -> LinksType]
  <2>1. \A p \in (0..U) \X LinksType : p = <<p[1], p[2]>> /\ p[1] \in 0..U /\ p[2] \in LinksType
    OBVIOUS
  <2>2. \A p \in (0..U) \X LinksType : g[p] \in LinksType
    BY <1>4, <2>1
  <2> QED
    BY <1>2, <2>2
<1>6. PICK u : u = Unlinked
  OBVIOUS
<1>7. u \in LinksType
  BY <1>6 DEF Unlinked, LinksType
<1>8. PICK f \in [0..U -> LinksType] :
        f[0] = u /\ \A n \in 0..U : n # 0 => f[n] = g[<<n, f[n-1]>>]
  <2>1. PICK X : X = LinksType
    OBVIOUS
  <2>2. u \in X /\ StepsIn(g, U, X)
    BY <1>5, <1>7, <2>1 DEF StepsIn
  <2>3. \E f : StepsFrom(f, U, X, u, g)
    BY <2>2, Recursion
  <2> QED
    BY <2>1, <2>3 DEF StepsFrom
<1> DEFINE Step(h, n) == IF n = 0 THEN Unlinked
                         ELSE IF n-1 \in GoodBlocks(d) THEN PutTail(h[n-1], FreeList, n-1)
                         ELSE h[n-1]
<1>9. f = [n \in 0..U |-> Step(f, n)]
  <2>1. ASSUME NEW n \in 0..U PROVE f[n] = Step(f, n)
    <3>1. CASE n = 0
      BY <1>6, <1>8, <3>1
    <3>2. CASE n # 0
      <4>1. n-1 \in 0..U /\ f[n-1] \in LinksType /\ f[n] = g[<<n, f[n-1]>>]
        BY <1>8, <3>2
      <4> QED
        BY <1>4, <3>2, <4>1
    <3> QED
      BY <3>1, <3>2
  <2> HIDE DEF Step
  <2> QED
    BY <1>8, <2>1
<1>10. PICK e : e = CHOOSE h : h = [n \in 0..U |-> Step(h, n)]
  OBVIOUS
<1>11. e = [n \in 0..U |-> Step(e, n)]
  <2> HIDE DEF Step
  <2> QED
    BY <1>9, <1>10
<1>12. AllFree(d) = e[U]
  BY <1>1, <1>10 DEF AllFree
<1>13. \A n \in 0..U : InOrder(e[n], d, n)
  <2>1. PICK T : T = {n \in 0..U : InOrder(e[n], d, n)}
    OBVIOUS
  <2>2. 0 \in T
    <3>1. e[0] = Unlinked
      BY <1>11
    <3> QED
      BY <2>1, <3>1, UnlinkedGood
  <2>3. ASSUME NEW n \in 0..U, n # 0, n-1 \in T PROVE n \in T
    <3>1. n \in 1..USER_BLOCKS_PER_DIE /\ InOrder(e[n-1], d, n-1)
      BY <1>1, <2>1, <2>3
    <3>2. PICK r : r = e[n-1]
      OBVIOUS
    <3>3. e[n] = IF n-1 \in GoodBlocks(d) THEN PutTail(r, FreeList, n-1) ELSE r
      BY <1>11, <2>3, <3>2
    <3>4. InOrder(e[n], d, n)
      BY <3>1, <3>2, <3>3, NextInOrder
    <3> QED
      BY <2>1, <3>4
  <2>4. \A n \in 0..U : n \in T
    BY <2>2, <2>3, StepByStep
  <2> QED
    BY <2>1, <2>4
<1> QED
  BY <1>1, <1>12, <1>13

-----------------------------------------------------------------------------
(***************************************************************************)
(* The invariant of the lists.                                             *)
(***************************************************************************)
\* The lists of a die with free blocks F, good ones G, counts c and victims V.
Victims(F, G, c, V, n) == {b \in G \ F : n > 0 /\ c[b] = n /\ b \notin V}
Lists(F, G, c, V) == [i \in List |-> IF i = FreeList THEN F ELSE Victims(F, G, c, V, i)]

\* The victim is in no list, and has its fields from the one it was in.
Held(d) == {b \in Block : d = Target /\ b = victimBlockNo}

ListsOf(d) == Lists(free[d], GoodBlocks(d), invalidSliceCnt[d], Held(d))

OnlyGood ==
  /\ \A d \in Die : free[d] \subseteq GoodBlocks(d) /\ currentBlock[d] \in GoodBlocks(d)
  /\ \A d \in Die, b \in Block : currentPage[d][b] # 0 => b \in GoodBlocks(d)
  /\ pc \in {"collect", "copy", "erase"} => victimBlockNo \in GoodBlocks(Target)

LinksInv ==
  /\ links \in [Die -> LinksType] /\ freeBlockCnt \in [Die -> Int]
  /\ \A d \in Die : /\ Good(links[d], ListsOf(d), Held(d))
                    /\ freeBlockCnt[d] = Cardinality(free[d])

ListsInv == ~reused => OnlyGood /\ LinksInv

Shaped(S, F, G, c, V) ==
  /\ S \in [List -> SUBSET Block] /\ Apart(S) /\ S[FreeList] = F
  /\ \A n \in 0..SLICES_PER_BLOCK :
       n \in List /\ n # FreeList /\ S[n] = Victims(F, G, c, V, n)

\* Two numbers of invalid slices, two lists; and the free blocks apart.
LEMMA ListsShape ==
  ASSUME NEW G \in SUBSET Block, NEW F \in SUBSET Block, NEW c, NEW V
  PROVE  Shaped(Lists(F, G, c, V), F, G, c, V)
<1>1. FreeList \in List /\ \A n \in 0..SLICES_PER_BLOCK : n \in List /\ n # FreeList
  BY FtlAssumption DEF List, FreeList
<1>2. \A i \in List : i = FreeList \/ i \in 0..SLICES_PER_BLOCK
  BY DEF List
<1>3. PICK S : S = Lists(F, G, c, V)
  OBVIOUS
<1>4. \A n : Victims(F, G, c, V, n) \subseteq Block
  BY DEF Victims
<1>5. S \in [List -> SUBSET Block] /\ S[FreeList] = F
  BY <1>1, <1>3, <1>4 DEF Lists
<1>6. \A n \in 0..SLICES_PER_BLOCK : S[n] = Victims(F, G, c, V, n)
  BY <1>1, <1>3 DEF Lists
<1>7. ASSUME NEW m \in 0..SLICES_PER_BLOCK, NEW n \in 0..SLICES_PER_BLOCK, m # n
      PROVE  Victims(F, G, c, V, m) \cap Victims(F, G, c, V, n) = {}
  BY <1>7 DEF Victims
<1>8. ASSUME NEW n PROVE F \cap Victims(F, G, c, V, n) = {}
  BY DEF Victims
<1>9. Apart(S)
  BY <1>2, <1>5, <1>6, <1>7, <1>8 DEF Apart
<1> QED
  BY <1>1, <1>3, <1>5, <1>6, <1>9 DEF Shaped

\* The good blocks of a die, the first of which it begins with.
LEMMA FirstGood ==
  ASSUME NEW d \in Die
  PROVE  /\ GoodBlocks(d) \subseteq Block /\ GoodBlocks(d) # {}
         /\ \A b \in Block : b \in Nat
<1>1. \E b \in Block : <<d, b>> \notin Bad
  BY FtlAssumption DEF Die, Block
<1> QED
  BY <1>1, FtlAssumption DEF GoodBlocks, Block

\* InitCurrentBlockOfDieMap takes the first block off the free list.
LEMMA ListsInitGood ==
  ASSUME NEW d \in Die
  PROVE  /\ AllFree(d) \in LinksType
         /\ AllFree(d).head[FreeList] = FirstBlock(d) /\ FirstBlock(d) \in GoodBlocks(d)
         /\ Good(GetFree(AllFree(d)), FreeOnly(GoodBlocks(d) \ {FirstBlock(d)}), {})
<1>0. FreeList \in List
  BY DEF List
<1>1. PICK r, G, S : /\ r = AllFree(d) /\ G = GoodBlocks(d) /\ S = FreeOnly(G)
  OBVIOUS
<1>2. BlocksBelow(d, USER_BLOCKS_PER_DIE) = G
  BY <1>1, FtlAssumption DEF BlocksBelow, GoodBlocks, Block
<1>3. Good(r, S, {}) /\ \A b \in G : r.head[FreeList] <= b
  BY <1>1, <1>2, AllFreeInOrder DEF InOrder
<1>4. S[FreeList] = G /\ G # {} /\ G \subseteq Block /\ \A b \in Block : b \in Nat
  BY <1>0, <1>1, FirstGood DEF FreeOnly
<1>5. PICK h : h = r.head[FreeList] /\ h \in G
  BY <1>0, <1>3, <1>4, HeadGood
<1>6. FirstBlock(d) = h
  <2>1. \A b \in G : h <= b
    BY <1>3, <1>5
  <2>2. ASSUME NEW e \in G, \A b \in G : e <= b PROVE e = h
    <3>1. e <= h /\ h <= e /\ e \in Nat /\ h \in Nat
      BY <1>4, <1>5, <2>1, <2>2
    <3> QED
      BY <3>1
  <2>3. FirstBlock(d) = CHOOSE b \in G : \A c \in G : b <= c
    BY <1>1 DEF FirstBlock
  <2> QED
    BY <1>5, <2>1, <2>2, <2>3
<1>7. PICK S2 : S2 = FreeOnly(G \ {h})
  OBVIOUS
<1>8. /\ S2 \in [List -> SUBSET Block] /\ S2[FreeList] = S[FreeList] \ {h}
      /\ \A j \in List \ {FreeList} : S2[j] = S[j]
  BY <1>0, <1>1, <1>4, <1>7 DEF FreeOnly
<1>9. Good(GetFree(r), S2, {})
  BY <1>3, <1>4, <1>5, <1>8, GetFreeGood
<1> QED
  BY <1>1, <1>3, <1>5, <1>6, <1>7, <1>9 DEF Good

\* The invariant holds initially.
LEMMA ListsInvInit == ListsInit => ListsInv
<1> SUFFICES ASSUME ListsInit PROVE ListsInv
  OBVIOUS
<1>1. FtlTypeOK /\ ~reused /\ victimBlockNo = NONE
  BY FtlInitInv DEF ListsInit, FtlInit, FtlInv
<1>2. \A d \in Die : /\ free[d] = GoodBlocks(d) \ {FirstBlock(d)} /\ currentBlock[d] = FirstBlock(d)
                     /\ links[d] = GetFree(AllFree(d))
                     /\ freeBlockCnt[d] = Cardinality(GoodBlocks(d)) - 1
                     /\ \A b \in Block : currentPage[d][b] = 0 /\ invalidSliceCnt[d][b] = 0
  BY DEF ListsInit, FtlInit
<1>3. OnlyGood
  BY <1>2, ListsInitGood DEF OnlyGood, ListsInit, FtlInit
<1>4. ASSUME NEW d \in Die
      PROVE  Good(links[d], ListsOf(d), Held(d)) /\ freeBlockCnt[d] = Cardinality(free[d])
             /\ freeBlockCnt[d] \in Int
  <2>1. Held(d) = {}
    BY <1>1, NoneApart DEF Held
  <2>2. ListsOf(d) = FreeOnly(free[d])
    <3>1. PICK F, G, c, V : /\ F = free[d] /\ G = GoodBlocks(d) /\ c = invalidSliceCnt[d]
                            /\ V = Held(d)
      OBVIOUS
    <3>2. \A b \in G : c[b] = 0
      BY <1>2, <3>1, FirstGood
    <3>3. ASSUME NEW n PROVE Victims(F, G, c, V, n) = {}
      <4>1. \A b \in G : ~(c[b] > 0)
        BY <3>2
      <4> QED
        BY <4>1 DEF Victims
    <3>4. Lists(F, G, c, V) = FreeOnly(F)
      BY <3>3 DEF Lists, FreeOnly
    <3> QED
      BY <3>1, <3>4 DEF ListsOf
  <2>3. Good(links[d], ListsOf(d), Held(d))
    BY <1>2, <2>1, <2>2, ListsInitGood
  <2>4. IsFiniteSet(GoodBlocks(d))
    <3>1. 0 \in Int /\ USER_BLOCKS_PER_DIE-1 \in Int
      BY FtlAssumption
    <3>2. IsFiniteSet(Block)
      BY <3>1, FS_Interval DEF Block
    <3> QED
      BY <3>2, FS_Subset, FirstGood
  <2>5. Cardinality(free[d]) = Cardinality(GoodBlocks(d)) - 1 /\ Cardinality(GoodBlocks(d)) \in Nat
    BY <1>2, <2>4, ListsInitGood, FS_RemoveElement, FS_CardinalityType
  <2> QED
    BY <1>2, <2>3, <2>5
<1>5. links \in [Die -> LinksType] /\ freeBlockCnt \in [Die -> Int]
  <2>1. \A d \in Die : links[d] \in LinksType /\ freeBlockCnt[d] \in Int
    BY <1>4 DEF Good
  <2>2. links = [d \in Die |-> links[d]] /\ freeBlockCnt = [d \in Die |-> freeBlockCnt[d]]
    BY DEF ListsInit
  <2> QED
    BY <2>1, <2>2
<1> QED
  BY <1>3, <1>4, <1>5 DEF ListsInv, LinksInv

-----------------------------------------------------------------------------
(***************************************************************************)
(* What the chain of a list reaches.                                       *)
(***************************************************************************)
LEMMA ChainIs ==
  ASSUME NEW r \in LinksType, NEW i \in List
  PROVE  /\ Chain(r, i) \in [0..USER_BLOCKS_PER_DIE -> Block \cup {NONE}]
         /\ Chain(r, i)[0] = r.head[i]
         /\ \A k \in 0..USER_BLOCKS_PER_DIE : k # 0 =>
              Chain(r, i)[k] = IF Chain(r, i)[k-1] = NONE THEN NONE ELSE r.next[Chain(r, i)[k-1]]
<1>1. PICK U \in Nat : U = USER_BLOCKS_PER_DIE
  BY FtlAssumption
<1>2. PICK X, h, next : X = Block \cup {NONE} /\ h = r.head[i] /\ next = r.next
  OBVIOUS
<1>3. h \in X /\ NONE \in X /\ \A b \in X : b # NONE => next[b] \in X
  BY <1>2 DEF LinksType
<1>4. PICK g : g = [p \in (0..U) \X X |-> IF p[2] = NONE THEN NONE ELSE next[p[2]]]
  OBVIOUS
<1>5. \A n \in 0..U, b \in X : g[<<n, b>>] = IF b = NONE THEN NONE ELSE next[b]
  BY <1>4
<1>6. StepsIn(g, U, X)
  <2>1. \A p \in (0..U) \X X : p[2] \in X /\ g[p] = IF p[2] = NONE THEN NONE ELSE next[p[2]]
    BY <1>4
  <2>2. \A p \in (0..U) \X X : g[p] \in X
    BY <1>3, <2>1
  <2> QED
    BY <1>4, <2>2 DEF StepsIn
<1>7. PICK f : StepsFrom(f, U, X, h, g)
  BY <1>3, <1>6, Recursion
<1> DEFINE Step(c, k) == IF k = 0 THEN h ELSE IF c[k-1] = NONE THEN NONE ELSE next[c[k-1]]
<1>8. f = [k \in 0..U |-> Step(f, k)]
  <2>1. ASSUME NEW k \in 0..U PROVE f[k] = Step(f, k)
    <3>1. CASE k = 0
      BY <1>7, <3>1 DEF StepsFrom
    <3>2. CASE k # 0
      <4>1. k-1 \in 0..U /\ f[k-1] \in X /\ f[k] = g[<<k, f[k-1]>>]
        BY <1>7, <3>2 DEF StepsFrom
      <4> QED
        BY <1>5, <3>2, <4>1
    <3> QED
      BY <3>1, <3>2
  <2> HIDE DEF Step
  <2> QED
    BY <1>7, <2>1 DEF StepsFrom
<1>9. PICK C : C = CHOOSE c : c = [k \in 0..U |-> Step(c, k)]
  OBVIOUS
<1>10. C = [k \in 0..U |-> Step(C, k)]
  <2> HIDE DEF Step
  <2> QED
    BY <1>8, <1>9
<1>11. C[0] = h /\ \A k \in 0..U : k # 0 => C[k] = IF C[k-1] = NONE THEN NONE ELSE next[C[k-1]]
  BY <1>10
<1>12. \A k \in 0..U : C[k] \in X
  <2>1. PICK T : T = {k \in 0..U : C[k] \in X}
    OBVIOUS
  <2>2. 0 \in T
    BY <1>3, <1>11, <2>1
  <2>3. ASSUME NEW k \in 0..U, k # 0, k-1 \in T PROVE k \in T
    BY <1>3, <1>11, <2>1, <2>3
  <2>4. \A k \in 0..U : k \in T
    BY <2>2, <2>3, StepByStep
  <2> QED
    BY <2>1, <2>4
<1>13. C \in [0..U -> X]
  <2> HIDE DEF Step
  <2> QED
    BY <1>10, <1>12
<1>14. Chain(r, i) = C
  BY <1>1, <1>2, <1>9 DEF Chain
<1> QED
  BY <1>1, <1>2, <1>11, <1>13, <1>14

IsChain(C, U, h, next) ==
  C[0] = h /\ \A k \in 0..U : k # 0 => C[k] = IF C[k-1] = NONE THEN NONE ELSE next[C[k-1]]

Reached(C, U) == {C[k] : k \in 0..U} \ {NONE}

\* Along a list the order rises, so that it ends, and no block is passed by.
LEMMA ChainReaches ==
  ASSUME NEW U \in Nat, U = USER_BLOCKS_PER_DIE,
         NEW h, NEW t, NEW prev, NEW next, NEW ord \in [Block -> Int], NEW S \in SUBSET Block,
         Linked(h, t, prev, next, ord, S),
         NEW C, IsChain(C, U, h, next)
  PROVE  C[U] = NONE /\ Reached(C, U) = S
<1> USE DEF IsChain
<1>0. NONE \notin S /\ \A b \in S : ord[b] \in Int
  BY NoneApart
<1>1. h \in S \cup {NONE} /\ (h = NONE => S = {})
  BY <1>0 DEF Linked
<1>2. \A b \in S : b # t => next[b] \in S /\ ord[b] < ord[next[b]]
  BY DEF Linked
<1>3. \A b \in S : (b = t => next[b] = NONE) /\ ord[h] <= ord[b] /\ ord[b] <= ord[t] /\ t \in S
  BY DEF Linked
<1>4. \A b, c \in S : ord[b] < ord[c] => ord[next[b]] <= ord[c]
  BY DEF Linked
<1>5. \A b, c \in S : ord[b] = ord[c] => b = c
  BY DEF Linked
<1>6. \A k \in 0..U : C[k] \in S \cup {NONE}
  <2>1. PICK T : T = {k \in 0..U : C[k] \in S \cup {NONE}}
    OBVIOUS
  <2>2. 0 \in T
    BY <1>1, <2>1
  <2>3. ASSUME NEW k \in 0..U, k # 0, k-1 \in T PROVE k \in T
    BY <1>2, <1>3, <2>1, <2>3
  <2>4. \A k \in 0..U : k \in T
    BY <2>2, <2>3, StepByStep
  <2> QED
    BY <2>1, <2>4
<1>7. \A k \in 0..U : C[k] # NONE =>
        \A j \in 0..U : j < k => C[j] # NONE /\ ord[C[j]] < ord[C[k]]
  <2> DEFINE Rising(k) == C[k] # NONE =>
                            \A j \in 0..U : j < k => C[j] # NONE /\ ord[C[j]] < ord[C[k]]
  <2>1. PICK T : T = {k \in 0..U : Rising(k)}
    OBVIOUS
  <2>2. 0 \in T
    BY <2>1
  <2>3. ASSUME NEW k \in 0..U, k # 0, k-1 \in T PROVE k \in T
    <3>1. Rising(k-1) /\ k-1 \in 0..U
      BY <2>1, <2>3
    <3>2. SUFFICES ASSUME C[k] # NONE, NEW j \in 0..U, j < k
                   PROVE  C[j] # NONE /\ ord[C[j]] < ord[C[k]]
      BY <2>1
    <3>3. /\ C[k-1] # NONE /\ C[k-1] \in S /\ C[k] = next[C[k-1]] /\ C[k-1] # t
          /\ C[k] \in S /\ ord[C[k-1]] < ord[C[k]]
      BY <1>2, <1>3, <1>6, <2>3, <3>1, <3>2
    <3>4. CASE j = k-1
      BY <3>3, <3>4
    <3>5. CASE j # k-1
      <4>1. C[j] # NONE /\ ord[C[j]] < ord[C[k-1]]
        BY <3>1, <3>2, <3>3, <3>5
      <4>2. C[j] \in S
        BY <1>6, <4>1
      <4>3. ord[C[j]] \in Int /\ ord[C[k-1]] \in Int /\ ord[C[k]] \in Int
        BY <1>0, <3>3, <4>2
      <4> QED
        BY <3>3, <4>1, <4>3
    <3> QED
      BY <3>4, <3>5
  <2> HIDE DEF Rising
  <2>4. \A k \in 0..U : k \in T
    BY <2>2, <2>3, StepByStep
  <2>5. \A k \in 0..U : Rising(k)
    BY <2>1, <2>4
  <2> QED
    BY <2>5 DEF Rising
<1>8. C[U] = NONE
  <2> SUFFICES ASSUME C[U] # NONE PROVE FALSE
    OBVIOUS
  <2>1. \A k \in 0..U : C[k] \in S
    BY <1>6, <1>7
  <2>2. \A j, k \in 0..U : j < k => C[j] # C[k]
    <3> SUFFICES ASSUME NEW j \in 0..U, NEW k \in 0..U, j < k PROVE C[j] # C[k]
      OBVIOUS
    <3>1. ord[C[j]] < ord[C[k]] /\ ord[C[j]] \in Int
      BY <1>0, <1>7, <2>1
    <3> QED
      BY <3>1
  <2>3. PICK f : f = [k \in 0..U |-> C[k]]
    OBVIOUS
  <2>4. f \in [0..U -> S]
    BY <2>1, <2>3
  <2>5. IsFiniteSet(S) /\ Cardinality(S) <= U
    <3>1. PICK a \in Int, b \in Int : a = 0 /\ b = U-1
      OBVIOUS
    <3>2. IsFiniteSet(a..b) /\ Cardinality(a..b) = IF a > b THEN 0 ELSE b - a + 1
      BY FS_Interval
    <3>3. (IF a > b THEN 0 ELSE b - a + 1) = U
      BY <3>1
    <3>4. IsFiniteSet(a..b) /\ Cardinality(a..b) = U /\ S \in SUBSET (a..b)
      BY <3>1, <3>2, <3>3 DEF Block
    <3> QED
      BY <3>4, FS_Subset
  <2>6. IsFiniteSet(0..U) /\ Cardinality(0..U) = U + 1
    <3>1. PICK a \in Int, b \in Int : a = 0 /\ b = U
      OBVIOUS
    <3>2. IsFiniteSet(a..b) /\ Cardinality(a..b) = IF a > b THEN 0 ELSE b - a + 1
      BY FS_Interval
    <3>3. ~(a > b) /\ b - a + 1 = U + 1
      BY <3>1
    <3> QED
      BY <3>1, <3>2, <3>3
  <2>7. Cardinality(S) < Cardinality(0..U)
    BY <2>5, <2>6, FS_CardinalityType
  <2>8. \E j, k \in 0..U : j # k /\ f[j] = f[k]
    BY <2>4, <2>5, <2>6, <2>7, FS_PigeonHole
  <2>9. PICK j \in 0..U, k \in 0..U : j # k /\ C[j] = C[k]
    BY <2>3, <2>8
  <2>10. j < k \/ k < j
    BY <2>9
  <2> QED
    BY <2>2, <2>9, <2>10
<1>9. ASSUME NEW b \in S PROVE \E k \in 0..U : C[k] = b
  <2> SUFFICES ASSUME \A k \in 0..U : C[k] # b PROVE FALSE
    OBVIOUS
  <2>1. PICK T : T = {k \in 0..U : C[k] # NONE /\ ord[C[k]] < ord[b]}
    OBVIOUS
  <2>2. 0 \in T
    <3>1. C[0] \in S /\ C[0] # NONE /\ C[0] # b /\ ord[C[0]] <= ord[b]
      BY <1>0, <1>1, <1>3
    <3>2. ord[C[0]] # ord[b] /\ ord[C[0]] \in Int /\ ord[b] \in Int
      BY <1>0, <1>5, <3>1
    <3> QED
      BY <2>1, <3>1, <3>2
  <2>3. ASSUME NEW k \in 0..U, k # 0, k-1 \in T PROVE k \in T
    <3>1. k-1 \in 0..U /\ C[k-1] # NONE /\ ord[C[k-1]] < ord[b] /\ C[k-1] \in S
      BY <1>6, <2>1, <2>3
    <3>2. C[k-1] # t
      <4>1. ord[b] <= ord[t] /\ ord[b] \in Int /\ ord[C[k-1]] \in Int
        BY <1>0, <1>3, <3>1
      <4> QED
        BY <3>1, <4>1
    <3>3. C[k] = next[C[k-1]] /\ C[k] \in S
      BY <1>2, <2>3, <3>1, <3>2
    <3>4. ord[C[k]] <= ord[b] /\ C[k] # b
      BY <1>4, <3>1, <3>3
    <3>5. ord[C[k]] # ord[b] /\ ord[C[k]] \in Int /\ ord[b] \in Int
      BY <1>0, <1>5, <3>3, <3>4
    <3> QED
      BY <1>0, <2>1, <3>3, <3>4, <3>5
  <2>4. \A k \in 0..U : k \in T
    BY <2>2, <2>3, StepByStep
  <2>5. U \in 0..U
    OBVIOUS
  <2> QED
    BY <1>8, <2>1, <2>4, <2>5
<1> QED
  BY <1>0, <1>6, <1>8, <1>9 DEF Reached

\* Lists that are good are sound: their chains have their blocks.
LEMMA GoodSound ==
  ASSUME NEW r, NEW S, NEW V, Good(r, S, V), NEW i \in List
  PROVE  LinkedBothWays(r, i) /\ Members(r, i) = S[i]
<1>1. PICK ord \in [Block -> Int] : Linking(r, S, ord)
  BY DEF Good
<1>2. PICK T : T = S[i] /\ T \in SUBSET Block
  BY DEF Good
<1>0. PICK U \in Nat : U = USER_BLOCKS_PER_DIE
  BY FtlAssumption
<1>3. PICK h, t, prev, next, C :
        /\ h = r.head[i] /\ t = r.tail[i] /\ prev = r.prev /\ next = r.next /\ C = Chain(r, i)
  OBVIOUS
<1>4. Linked(h, t, prev, next, ord, T)
  BY <1>1, <1>2, <1>3 DEF Linking
<1>5. IsChain(C, U, h, next)
  BY <1>0, <1>3, ChainIs DEF Good, IsChain
<1>6. C[U] = NONE /\ Reached(C, U) = T
  BY <1>0, <1>2, <1>4, <1>5, ChainReaches
<1>7. Members(r, i) = T
  BY <1>0, <1>3, <1>6 DEF Members, Reached
<1>8. \A b \in T : /\ IF b = h THEN prev[b] = NONE ELSE next[prev[b]] = b
                   /\ next[b] = NONE <=> b = t
  BY <1>2, <1>4, NoneApart DEF Linked
<1>9. h = NONE <=> t = NONE
  BY <1>2, <1>4, NoneApart DEF Linked
<1> QED
  BY <1>0, <1>2, <1>3, <1>6, <1>7, <1>8, <1>9 DEF LinkedBothWays

\* The invariant says all that ListsSound does.
LEMMA ListsInvSound == FtlTypeOK /\ ListsInv => ListsSound
<1> SUFFICES ASSUME FtlTypeOK, ListsInv, ~reused, NEW d \in Die
             PROVE  /\ \A i \in List : LinkedBothWays(links[d], i)
                    /\ Members(links[d], FreeList) = free[d]
                    /\ freeBlockCnt[d] = Cardinality(free[d])
                    /\ \A n \in 0..SLICES_PER_BLOCK : Members(links[d], n) = WithInvalid(d, n)
  BY DEF ListsSound
<1>1. PICK r, S : r = links[d] /\ S = ListsOf(d) /\ Good(r, S, Held(d))
  BY DEF ListsInv, LinksInv
<1>2. \A i \in List : LinkedBothWays(r, i) /\ Members(r, i) = S[i]
  BY <1>1, GoodSound
<1>3. PICK F, G, c, V : /\ F = free[d] /\ G = GoodBlocks(d) /\ c = invalidSliceCnt[d]
                        /\ V = Held(d)
  OBVIOUS
<1>4. F \in SUBSET Block /\ G \in SUBSET Block
  BY <1>3, FirstGood DEF FtlTypeOK
<1>5. /\ S[FreeList] = F
      /\ \A n \in 0..SLICES_PER_BLOCK : n \in List /\ S[n] = Victims(F, G, c, V, n)
  <2>1. Shaped(S, F, G, c, V)
    BY <1>1, <1>3, <1>4, ListsShape DEF ListsOf
  <2> QED
    BY <2>1 DEF Shaped
<1>6. ASSUME NEW n \in 0..SLICES_PER_BLOCK PROVE S[n] = WithInvalid(d, n)
  <2>1. \A b \in G : b \in V <=> d = Target /\ b = victimBlockNo
    BY <1>3, <1>4 DEF Held
  <2> QED
    BY <1>3, <1>5, <2>1 DEF WithInvalid, Victims
<1>7. FreeList \in List
  BY DEF List
<1>8. freeBlockCnt[d] = Cardinality(free[d])
  BY DEF ListsInv, LinksInv
<1> QED
  BY <1>1, <1>2, <1>3, <1>5, <1>6, <1>7, <1>8

-----------------------------------------------------------------------------
(***************************************************************************)
(* What becomes of the lists of a die when a block changes its list.       *)
(***************************************************************************)
LEMMA ListsMove ==
  ASSUME NEW G \in SUBSET Block, NEW F \in SUBSET Block, NEW c \in [Block -> Nat], NEW V,
         NEW b \in G \ F, b \notin V, c[b] \in 0..SLICES_PER_BLOCK-1,
         NEW r, Good(r, Lists(F, G, c, V), {})
  PROVE  Good(PutTail(SelectiveGet(r, c[b], b), c[b] + 1, b),
              Lists(F, G, [c EXCEPT ![b] = @ + 1], V), {})
<1>1. PICK n \in 0..SLICES_PER_BLOCK-1 : n = c[b]
  OBVIOUS
<1>0. b \in Block
  OBVIOUS
<1>2. PICK c2 : c2 = [c EXCEPT ![b] = @ + 1]
  OBVIOUS
<1>2a. c2[b] = n + 1 /\ \A e \in Block : e # b => c2[e] = c[e]
  BY <1>0, <1>1, <1>2
<1>3. PICK S, S2 : S = Lists(F, G, c, V) /\ S2 = Lists(F, G, c2, V)
  OBVIOUS
<1>4. /\ n \in 0..SLICES_PER_BLOCK /\ n+1 \in 0..SLICES_PER_BLOCK /\ n+1 # n
      /\ \A i \in List : i = FreeList \/ i \in 0..SLICES_PER_BLOCK
  BY FtlAssumption DEF List
<1>5. /\ S \in [List -> SUBSET Block] /\ Apart(S) /\ S[FreeList] = F
      /\ \A k \in 0..SLICES_PER_BLOCK :
           k \in List /\ k # FreeList /\ S[k] = Victims(F, G, c, V, k)
  <2>1. Shaped(S, F, G, c, V)
    BY <1>3, ListsShape
  <2> QED
    BY <2>1 DEF Shaped
<1>6. /\ S2 \in [List -> SUBSET Block] /\ S2[FreeList] = F
      /\ \A k \in 0..SLICES_PER_BLOCK :
           k \in List /\ k # FreeList /\ S2[k] = Victims(F, G, c2, V, k)
  <2>1. Shaped(S2, F, G, c2, V)
    BY <1>3, ListsShape
  <2> QED
    BY <2>1 DEF Shaped
<1>7. /\ n+1 > 0 /\ n+1 \in List /\ n \in List
      /\ b \notin F /\ \A k \in 0..SLICES_PER_BLOCK : k # n => b \notin S[k]
  BY <1>1, <1>4, <1>5 DEF Victims
<1>8. S2[n+1] = S[n+1] \cup {b}
  BY <1>1, <1>2a, <1>4, <1>5, <1>6, <1>7 DEF Victims
<1>9. ASSUME NEW k \in 0..SLICES_PER_BLOCK, k # n /\ k # n+1 PROVE S2[k] = S[k]
  <2>1. ASSUME NEW e \in Block PROVE c2[e] = k <=> c[e] = k
    BY <1>1, <1>2a, <1>9
  <2>2. Victims(F, G, c2, V, k) = Victims(F, G, c, V, k)
    BY <2>1 DEF Victims
  <2> QED
    BY <1>5, <1>6, <2>2
<1>10. S2[n] = S[n] \ {b}
  BY <1>1, <1>2a, <1>4, <1>5, <1>6 DEF Victims
<1>11. PICK q : q = SelectiveGet(r, n, b)
  OBVIOUS
<1>12. PICK M \in [List -> SUBSET Block] : M = [S EXCEPT ![n] = S[n] \ {b}]
  BY <1>5, <1>7
<1>13. M[n] = S[n] \ {b} /\ \A j \in List \ {n} : M[j] = S[j]
  BY <1>5, <1>7, <1>12
<1>14. Unlisted(M, b)
  BY <1>4, <1>5, <1>7, <1>13 DEF Unlisted
<1>15. Good(q, M, {} \cup {b})
  <2>1. CASE n > 0
    <3>1. b \in S[n]
      BY <1>1, <1>4, <1>5, <2>1 DEF Victims
    <3> QED
      BY <1>3, <1>7, <1>11, <1>13, <3>1, SelectiveGood
  <2>2. CASE n = 0
    <3>1. S[n] = {} /\ M = S
      <4>1. ~(0 > 0)
        OBVIOUS
      <4>2. S[n] = {}
        BY <1>4, <1>5, <2>2, <4>1 DEF Victims
      <4> QED
        BY <1>5, <1>12, <4>2
    <3>2. r.head[n] = NONE /\ r.tail[n] = NONE /\ r \in LinksType
      BY <1>3, <1>7, <3>1, HeadGood DEF Good
    <3>3. r.prev[b] = NONE /\ r.next[b] = NONE
      BY <1>3, <1>14, <3>1 DEF Good, Loose
    <3>4. q.head = r.head /\ q.tail = r.tail /\ q.prev = r.prev /\ q.next = r.next /\ q \in LinksType
      BY <1>7, <1>11, <3>2, <3>3 DEF SelectiveGet, LinksType
    <3>5. PICK ord \in [Block -> Int] : Linking(r, S, ord)
      BY <1>3 DEF Good
    <3>6. Linking(q, S, ord)
      BY <3>4, <3>5 DEF Linking
    <3>7. Loose(q, S, {} \cup {b})
      BY <1>3, <3>4 DEF Good, Loose
    <3> QED
      BY <1>5, <3>1, <3>4, <3>6, <3>7 DEF Good
  <2> QED
    BY <2>1, <2>2
<1>16. Good(PutTail(q, n+1, b), S2, {})
  <2>1. S2[n+1] = M[n+1] \cup {b} /\ \A j \in List \ {n+1} : S2[j] = M[j]
    BY <1>4, <1>5, <1>6, <1>7, <1>8, <1>9, <1>10, <1>13
  <2>2. b \in Block
    OBVIOUS
  <2> QED
    BY <1>6, <1>7, <1>14, <1>15, <2>1, <2>2, PutTailGood
<1> QED
  BY <1>1, <1>2, <1>3, <1>11, <1>16

\* The head of the free list is taken.
LEMMA ListsTakeFree ==
  ASSUME NEW G \in SUBSET Block, NEW F \in SUBSET G, NEW c, NEW V, F # {},
         \A b \in F : c[b] = 0, NEW r, Good(r, Lists(F, G, c, V), V)
  PROVE  /\ r.head[FreeList] \in F
         /\ Good(GetFree(r), Lists(F \ {r.head[FreeList]}, G, c, V), V)
<1>0. F \in SUBSET Block /\ \A b : F \ {b} \in SUBSET Block
  OBVIOUS
<1>1. PICK S : S = Lists(F, G, c, V)
  OBVIOUS
<1>2. FreeList \in List /\ \A i \in List : i = FreeList \/ i \in 0..SLICES_PER_BLOCK
  BY DEF List
<1>3. /\ S[FreeList] = F
      /\ \A k \in 0..SLICES_PER_BLOCK : S[k] = Victims(F, G, c, V, k)
  <2>1. Shaped(S, F, G, c, V)
    BY <1>1, <1>0, ListsShape
  <2> QED
    BY <2>1 DEF Shaped
<1>4. PICK b \in F : b = r.head[FreeList]
  BY <1>1, <1>2, <1>3, HeadGood
<1>5. PICK S2 : S2 = Lists(F \ {b}, G, c, V)
  OBVIOUS
<1>6. /\ S2 \in [List -> SUBSET Block] /\ S2[FreeList] = F \ {b}
      /\ \A k \in 0..SLICES_PER_BLOCK :
           S2[k] = Victims(F \ {b}, G, c, V, k)
  <2>1. Shaped(S2, F \ {b}, G, c, V)
    BY <1>5, <1>0, ListsShape
  <2> QED
    BY <2>1 DEF Shaped
<1>7. ASSUME NEW k \in 0..SLICES_PER_BLOCK PROVE S2[k] = S[k]
  <2>1. ASSUME NEW e \in F PROVE ~(k > 0 /\ c[e] = k)
    OBVIOUS
  <2>2. Victims(F \ {b}, G, c, V, k) = Victims(F, G, c, V, k)
    BY <2>1 DEF Victims
  <2> QED
    BY <1>3, <1>6, <2>2
<1>8. Good(GetFree(r), S2, V)
  BY <1>1, <1>2, <1>3, <1>4, <1>6, <1>7, GetFreeGood
<1> QED
  BY <1>4, <1>5, <1>8

\* The head of a list of victims is taken.
LEMMA ListsTakeVictim ==
  ASSUME NEW G \in SUBSET Block, NEW F \in SUBSET Block, NEW c, NEW n \in 1..SLICES_PER_BLOCK,
         NEW r, Good(r, Lists(F, G, c, {}), {}), r.head[n] # NONE
  PROVE  /\ r.head[n] \in G \ F /\ c[r.head[n]] = n
         /\ Good(GetHead(r, n), Lists(F, G, c, {r.head[n]}), {r.head[n]})
<1>1. PICK S : S = Lists(F, G, c, {})
  OBVIOUS
<1>2. n \in List /\ n # FreeList /\ n \in 0..SLICES_PER_BLOCK
      /\ \A i \in List : i = FreeList \/ i \in 0..SLICES_PER_BLOCK
  BY FtlAssumption DEF List, FreeList
<1>3. /\ S[FreeList] = F
      /\ \A k \in 0..SLICES_PER_BLOCK : S[k] = Victims(F, G, c, {}, k)
  <2>1. Shaped(S, F, G, c, {})
    BY <1>1, ListsShape
  <2> QED
    BY <2>1 DEF Shaped
<1>4. PICK b \in S[n] : b = r.head[n]
  BY <1>1, <1>2, HeadGood
<1>5. b \in G \ F /\ c[b] = n
  BY <1>2, <1>3, <1>4 DEF Victims
<1>6. PICK S2 : S2 = Lists(F, G, c, {b})
  OBVIOUS
<1>7. /\ S2 \in [List -> SUBSET Block] /\ S2[FreeList] = F
      /\ \A k \in 0..SLICES_PER_BLOCK : S2[k] = Victims(F, G, c, {b}, k)
  <2>1. Shaped(S2, F, G, c, {b})
    BY <1>6, ListsShape
  <2> QED
    BY <2>1 DEF Shaped
<1>8. S2[n] = S[n] \ {b} /\ \A j \in List \ {n} : S2[j] = S[j]
  <2>1. S2[n] = S[n] \ {b}
    BY <1>2, <1>3, <1>7 DEF Victims
  <2>2. ASSUME NEW k \in 0..SLICES_PER_BLOCK, k # n PROVE S2[k] = S[k]
    BY <1>3, <1>5, <1>7, <2>2 DEF Victims
  <2> QED
    BY <1>2, <1>3, <1>7, <2>1, <2>2
<1>9. Good(GetHead(r, n), S2, {} \cup {b})
  BY <1>1, <1>2, <1>4, <1>7, <1>8, GetHeadGood
<1> QED
  BY <1>4, <1>5, <1>6, <1>9

\* The victim is erased and listed as free.
LEMMA ListsErase ==
  ASSUME NEW G \in SUBSET Block, NEW F \in SUBSET Block, NEW c \in [Block -> Nat],
         NEW b \in G \ F, NEW r, Good(r, Lists(F, G, c, {b}), {b})
  PROVE  Good(PutTail(r, FreeList, b), Lists(F \cup {b}, G, [c EXCEPT ![b] = 0], {}), {})
<1>0. F \cup {b} \in SUBSET Block
  OBVIOUS
<1>1. PICK S : S = Lists(F, G, c, {b})
  OBVIOUS
<1>2. FreeList \in List /\ \A i \in List : i = FreeList \/ i \in 0..SLICES_PER_BLOCK
  BY DEF List
<1>3. /\ S[FreeList] = F
      /\ \A k \in 0..SLICES_PER_BLOCK : S[k] = Victims(F, G, c, {b}, k)
  <2>1. Shaped(S, F, G, c, {b})
    BY <1>1, ListsShape
  <2> QED
    BY <2>1 DEF Shaped
<1>4. PICK c2, S2 : /\ c2 = [c EXCEPT ![b] = 0] /\ \A e \in Block : e # b => c2[e] = c[e]
                    /\ S2 = Lists(F \cup {b}, G, c2, {})
  OBVIOUS
<1>5. /\ S2 \in [List -> SUBSET Block] /\ S2[FreeList] = F \cup {b}
      /\ \A k \in 0..SLICES_PER_BLOCK :
           S2[k] = Victims(F \cup {b}, G, c2, {}, k)
  <2>1. Shaped(S2, F \cup {b}, G, c2, {})
    BY <1>4, <1>0, ListsShape
  <2> QED
    BY <2>1 DEF Shaped
<1>6. ASSUME NEW k \in 0..SLICES_PER_BLOCK PROVE S2[k] = S[k]
  <2>1. ASSUME NEW e \in Block PROVE e # b => c2[e] = c[e]
    BY <1>4
  <2>2. Victims(F \cup {b}, G, c2, {}, k) = Victims(F, G, c, {b}, k)
    BY <2>1 DEF Victims
  <2> QED
    BY <1>3, <1>5, <2>2
<1>7. Unlisted(S, b)
  BY <1>2, <1>3 DEF Unlisted, Victims
<1>8. Good(r, S, {} \cup {b})
  BY <1>1
<1>9. Good(PutTail(r, FreeList, b), S2, {})
  BY <1>2, <1>3, <1>5, <1>6, <1>7, <1>8, PutTailGood
<1> QED
  BY <1>4, <1>9

-----------------------------------------------------------------------------
(***************************************************************************)
(* The steps.  Between collections no die has a victim.                    *)
(***************************************************************************)
\* One die has its lists changed.
LEMMA LinksStep ==
  ASSUME LinksInv, NEW T \in Die, NEW r, NEW n,
         \A d \in Die : d # T =>
           /\ free'[d] = free[d] /\ invalidSliceCnt'[d] = invalidSliceCnt[d]
           /\ Held(d)' = Held(d),
         links' = [links EXCEPT ![T] = r], freeBlockCnt' = [freeBlockCnt EXCEPT ![T] = n],
         NEW F, NEW c, NEW V, free'[T] = F, invalidSliceCnt'[T] = c, Held(T)' = V,
         Good(r, Lists(F, GoodBlocks(T), c, V), V), n = Cardinality(F), n \in Int
  PROVE  LinksInv'
<1>1. r \in LinksType
  BY DEF Good
<1>2. links' \in [Die -> LinksType] /\ freeBlockCnt' \in [Die -> Int]
  BY <1>1 DEF LinksInv
<1>3. ASSUME NEW d \in Die
      PROVE  Good(links'[d], ListsOf(d)', Held(d)') /\ freeBlockCnt'[d] = Cardinality(free'[d])
  <2>1. ListsOf(d)' = Lists(free'[d], GoodBlocks(d), invalidSliceCnt'[d], Held(d)')
    BY DEF ListsOf, GoodBlocks
  <2>2. CASE d = T
    BY <2>1, <2>2 DEF LinksInv
  <2>3. CASE d # T
    <3>1. ListsOf(d)' = ListsOf(d)
      BY <2>1, <2>3 DEF ListsOf
    <3> QED
      BY <2>3, <3>1 DEF LinksInv
  <2> QED
    BY <2>2, <2>3
<1> QED
  BY <1>2, <1>3 DEF LinksInv

\* No die has.
LEMMA LinksKept ==
  ASSUME LinksInv, \A d \in Die : Held(d)' = Held(d),
         UNCHANGED <<links, freeBlockCnt, free, invalidSliceCnt>>
  PROVE  LinksInv'
<1>1. ASSUME NEW d \in Die PROVE ListsOf(d)' = ListsOf(d)
  BY DEF ListsOf, GoodBlocks
<1> QED
  BY <1>1 DEF LinksInv

\* Without a victim no block is held.
LEMMA NoneHeld ==
  /\ victimBlockNo = NONE => \A d \in Die : Held(d) = {}
  /\ victimBlockNo' = NONE => \A d \in Die : Held(d)' = {}
BY NoneApart DEF Held

\* What is known of a good block, or of any.
LEMMA CountsOfBlocks ==
  ASSUME FtlInv, ~reused, OnlyGood, pc \in {"idle", "find", "found"}, NEW d \in Die, NEW b \in Block
  PROVE  /\ invalidSliceCnt[d][b] = Cardinality(Invalid(d, b))
         /\ invalidSliceCnt[d][b] \in 0..SLICES_PER_BLOCK
         /\ b \notin GoodBlocks(d) => invalidSliceCnt[d][b] = 0
<1>1. invalidSliceCnt[d][b] = Cardinality(Invalid(d, b))
  BY DEF FtlInv, CountsExact, BeingCopied, Invalid
<1>2. /\ IsFiniteSet(Invalid(d, b)) /\ Invalid(d, b) \subseteq Page
      /\ Cardinality(Invalid(d, b)) \in Nat
  BY InvalidFinite DEF FtlInv
<1>3. Cardinality(Invalid(d, b)) <= SLICES_PER_BLOCK
  BY <1>2, PageFinite, FS_Subset
<1>4. b \notin GoodBlocks(d) => Invalid(d, b) = {}
  BY DEF OnlyGood, Invalid
<1> QED
  BY <1>1, <1>2, <1>3, <1>4, FtlAssumption, FS_EmptySet

\* A slice is given up: its block moves on to the next list.
LEMMA MoveLinks ==
  ASSUME FtlInv, Room, ListsInv, ~reused, NEW l \in Lsa, pc = "idle",
         InvalidateOldVsa(l), MoveToNextList(l),
         UNCHANGED <<free, sliceAllocationTargetDie, victimBlockNo>>
  PROVE  LinksInv'
<1>1. /\ LinksInv /\ OnlyGood /\ victimBlockNo = NONE /\ freeBlockCnt' = freeBlockCnt
      /\ \A d \in Die : Held(d) = {} /\ Held(d)' = {}
  BY NoneHeld DEF ListsInv, Room, Rooms, MoveToNextList
<1>2. CASE ~HasOldVsa(l)
  <2>1. UNCHANGED <<links, invalidSliceCnt>>
    BY <1>2 DEF MoveToNextList, InvalidateOldVsa
  <2> QED
    BY <1>1, <2>1, LinksKept
<1>3. CASE HasOldVsa(l)
  <2>1. logicalSlice[l] \in Vsa
    BY <1>3 DEF HasOldVsa, FtlInv, FtlTypeOK
  <2>2. PICK d \in Die, b \in Block, p \in Page :
          /\ logicalSlice[l] = <<d, b, p>> /\ d = logicalSlice[l][1] /\ b = logicalSlice[l][2]
    BY <2>1, VsaParts
  <2>3. b \notin free[d] /\ p < currentPage[d][b]
    <3>1. MapsInverse /\ logicalSlice[l] = <<d, b, p>>
      BY <2>2 DEF FtlInv
    <3> QED
      BY <3>1 DEF MapsInverse
  <2>4. currentPage[d][b] \in 0..SLICES_PER_BLOCK /\ p \in 0..SLICES_PER_BLOCK-1
    BY DEF FtlInv, FtlTypeOK, Page
  <2>5. b \in GoodBlocks(d)
    <3>1. currentPage[d][b] # 0
      BY <2>3, <2>4
    <3> QED
      BY <1>1, <3>1 DEF OnlyGood
  <2>6. Valid(d, b, p) /\ p \notin Invalid(d, b)
    BY <2>2 DEF Valid, Invalid
  <2>7. invalidSliceCnt[d][b] \in 0..SLICES_PER_BLOCK-1
    <3>1. /\ invalidSliceCnt[d][b] = Cardinality(Invalid(d, b))
          /\ invalidSliceCnt[d][b] \in 0..SLICES_PER_BLOCK
      BY <1>1, CountsOfBlocks
    <3>2. Invalid(d, b) \subseteq Page \ {p}
      BY <2>6, InvalidFinite DEF FtlInv
    <3>3. IsFiniteSet(Page \ {p}) /\ Cardinality(Page \ {p}) = SLICES_PER_BLOCK - 1
      BY PageFinite, FS_RemoveElement
    <3>4. Cardinality(Invalid(d, b)) <= SLICES_PER_BLOCK - 1
      BY <3>2, <3>3, FS_Subset
    <3> QED
      BY <3>1, <3>4, FtlAssumption
  <2>8. PICK F, G, c, r : F = free[d] /\ G = GoodBlocks(d) /\ c = invalidSliceCnt[d] /\ r = links[d]
    OBVIOUS
  <2>9. /\ F \in SUBSET Block /\ G \in SUBSET Block /\ c \in [Block -> Nat]
        /\ b \in G \ F /\ c[b] \in 0..SLICES_PER_BLOCK-1
    BY <2>3, <2>5, <2>7, <2>8, FirstGood DEF FtlInv, FtlTypeOK
  <2>10. Good(r, Lists(F, G, c, {}), {}) /\ Cardinality(F) = freeBlockCnt[d] /\ Cardinality(F) \in Int
    BY <1>1, <2>8 DEF LinksInv, ListsOf
  <2>11. PICK c2, r2 : /\ c2 = [c EXCEPT ![b] = @ + 1]
                       /\ r2 = PutTail(SelectiveGet(r, c[b], b), c[b] + 1, b)
    OBVIOUS
  <2>12. Good(r2, Lists(F, G, c2, {}), {})
    BY <2>9, <2>10, <2>11, ListsMove
  <2>13. links' = [links EXCEPT ![d] = r2]
    BY <1>3, <2>2, <2>8, <2>11 DEF MoveToNextList
  <2>14. invalidSliceCnt' = [invalidSliceCnt EXCEPT ![d][b] = @ + 1]
    BY <1>3, <2>2 DEF InvalidateOldVsa
  <2>15. invalidSliceCnt'[d] = c2 /\ \A e \in Die : e # d => invalidSliceCnt'[e] = invalidSliceCnt[e]
    BY <2>8, <2>11, <2>14 DEF FtlInv, FtlTypeOK
  <2>16. freeBlockCnt' = [freeBlockCnt EXCEPT ![d] = Cardinality(F)]
    BY <1>1, <2>10 DEF LinksInv
  <2>17. /\ free'[d] = F /\ Held(d)' = {} /\ Good(r2, Lists(F, GoodBlocks(d), c2, {}), {})
         /\ \A e \in Die : e # d => free'[e] = free[e] /\ Held(e)' = Held(e)
    BY <1>1, <2>8, <2>12
  <2> QED
    BY <1>1, <2>10, <2>13, <2>15, <2>16, <2>17, LinksStep
<1> QED
  BY <1>2, <1>3

Kept == ListsInv' /\ FtlNext

\* Every step is one of Ftl and keeps the lists: a slice is given up,
LEMMA InvalidateLists ==
  ASSUME FtlInv, Room, ListsInv, ~reused, NEW l \in Lsa,
         \/ ListInvalidate(l)
         \/ \E x \in Data : ListAddrTransWrite(l, x)
  PROVE  Kept
<1>1. /\ pc = "idle" /\ InvalidateOldVsa(l) /\ MoveToNextList(l) /\ pc' \in {"idle", "find"}
      /\ UNCHANGED <<currentBlock, currentPage, free, sliceAllocationTargetDie, victimBlockNo>>
  BY DEF ListInvalidate, ListAddrTransWrite, Invalidate, AddrTransWrite, control
<1>2. LinksInv'
  BY <1>1, MoveLinks
<1>3. OnlyGood'
  BY <1>1 DEF ListsInv, OnlyGood, GoodBlocks
<1>4. FtlNext
  BY DEF FtlNext, ListInvalidate, ListAddrTransWrite
<1> QED
  BY <1>2, <1>3, <1>4 DEF Kept, ListsInv

\* A write that ends in a block takes a page of it, and no block but that one.
LEMMA EndWriteGood ==
  ASSUME ListsInv, ~reused, Finding, Room, NEW b \in Block, b \in GoodBlocks(Target),
         EndWrite(b), Target \in Die,
         currentPage \in [Die -> [Block -> 0..SLICES_PER_BLOCK]],
         currentBlock \in [Die -> Block],
         currentBlock' \in {currentBlock, [currentBlock EXCEPT ![Target] = b]},
         \A d \in Die : free'[d] \subseteq free[d]
  PROVE  OnlyGood' /\ \A d \in Die : Held(d) = {} /\ Held(d)' = {}
<1>1. /\ currentPage' = [currentPage EXCEPT ![Target][b] = @ + 1]
      /\ victimBlockNo' = victimBlockNo /\ pc' \in {"beyond", "idle"}
  BY DEF EndWrite, Place
<1>2. OnlyGood
  BY DEF ListsInv
<1>3. \A d \in Die, e \in Block : currentPage'[d][e] = currentPage[d][e] \/ (d = Target /\ e = b)
  BY <1>1
<1>4. \A d \in Die : currentBlock'[d] = currentBlock[d] \/ (d = Target /\ currentBlock'[d] = b)
  OBVIOUS
<1>5. OnlyGood'
  <2>1. \A d \in Die : free'[d] \subseteq GoodBlocks(d) /\ currentBlock'[d] \in GoodBlocks(d)
    BY <1>2, <1>4 DEF OnlyGood
  <2>2. \A d \in Die, e \in Block : currentPage'[d][e] # 0 => e \in GoodBlocks(d)
    BY <1>2, <1>3 DEF OnlyGood
  <2> QED
    BY <1>1, <2>1, <2>2 DEF OnlyGood, GoodBlocks
<1>6. victimBlockNo = NONE
  BY DEF Room, Rooms, Finding
<1> QED
  BY <1>1, <1>5, <1>6, NoneHeld

\* a write ends in the current block,
LEMMA FindInCurrentLists ==
  ASSUME FtlInv, Room, ListsInv, ~reused, FindInCurrentBlock, UNCHANGED listVars
  PROVE  Kept
<1>1. /\ Finding /\ EndWrite(Current) /\ UNCHANGED <<currentBlock, free, invalidSliceCnt>>
  BY DEF FindInCurrentBlock, EndWrite
<1>2. /\ Target \in Die /\ currentPage \in [Die -> [Block -> 0..SLICES_PER_BLOCK]]
      /\ currentBlock \in [Die -> Block]
  BY DEF FtlInv, FtlTypeOK, Target
<1>3. Current \in Block /\ Current \in GoodBlocks(Target)
  BY <1>2 DEF ListsInv, OnlyGood, Current
<1>4. OnlyGood' /\ \A d \in Die : Held(d) = {} /\ Held(d)' = {}
  <2> HIDE DEF Target, Current
  <2> QED
    BY <1>1, <1>2, <1>3, EndWriteGood
<1>5. LinksInv'
  BY <1>1, <1>4, LinksKept DEF ListsInv, listVars
<1> QED
  BY <1>4, <1>5 DEF Kept, ListsInv, FtlNext, FtlFind

\* The parts of what is known of the target die.
LEMMA TargetLists ==
  ASSUME FtlInv, ListsInv, ~reused
  PROVE  /\ Target \in Die /\ free[Target] \subseteq GoodBlocks(Target)
         /\ GoodBlocks(Target) \in SUBSET Block
         /\ invalidSliceCnt[Target] \in [Block -> Nat]
         /\ \A b \in free[Target] : invalidSliceCnt[Target][b] = 0
         /\ Good(links[Target], Lists(free[Target], GoodBlocks(Target),
                                      invalidSliceCnt[Target], Held(Target)), Held(Target))
         /\ freeBlockCnt[Target] = FreeBlocks /\ FreeBlocks \in Nat /\ IsFiniteSet(free[Target])
         /\ free[Target] = {} <=> HeadFreeBlock = NONE
         /\ free[Target] # {} => HeadFreeBlock \in free[Target]
<1>1. Target \in Die
  BY DEF FtlInv, FtlTypeOK, Target
<1> HIDE DEF Target
<1>2. /\ free[Target] \subseteq GoodBlocks(Target) /\ GoodBlocks(Target) \in SUBSET Block
      /\ invalidSliceCnt[Target] \in [Block -> Nat]
      /\ \A b \in free[Target] : invalidSliceCnt[Target][b] = 0
  BY <1>1, FirstGood DEF FtlInv, FtlTypeOK, FreeClean, ListsInv, OnlyGood
<1>3. Good(links[Target], ListsOf(Target), Held(Target))
  BY <1>1 DEF ListsInv, LinksInv
<1>4. /\ freeBlockCnt[Target] = FreeBlocks /\ FreeBlocks \in Nat /\ IsFiniteSet(free[Target])
  BY <1>1, FreeFinite DEF FtlInv, ListsInv, LinksInv, FreeBlocks
<1>5. FreeList \in List
  BY DEF List
<1>6. free[Target] \in SUBSET Block
  BY <1>2
<1>7. Shaped(ListsOf(Target), free[Target], GoodBlocks(Target), invalidSliceCnt[Target], Held(Target))
  BY <1>2, <1>6, ListsShape DEF ListsOf
<1>8. ListsOf(Target)[FreeList] = free[Target]
  BY <1>7 DEF Shaped
<1>9. /\ free[Target] = {} => HeadFreeBlock = NONE
      /\ free[Target] # {} => HeadFreeBlock \in free[Target] /\ HeadFreeBlock # NONE
  BY <1>3, <1>5, <1>8, HeadGood DEF HeadFreeBlock
<1> QED
  BY <1>1, <1>2, <1>3, <1>4, <1>9 DEF ListsOf

\* The first free block is taken.
LEMMA GetFromFbListLinks ==
  ASSUME FtlInv, ListsInv, ~reused, free[Target] # {}, GetFromFbList,
         TakeBlock(HeadFreeBlock), UNCHANGED invalidSliceCnt,
         \A d \in Die : Held(d)' = Held(d)
  PROVE  LinksInv'
<1>1. PICK T, F, G, c, V, r, b :
        /\ T = Target /\ F = free[Target] /\ G = GoodBlocks(Target) /\ c = invalidSliceCnt[Target]
        /\ V = Held(Target) /\ r = links[Target] /\ b = HeadFreeBlock
  OBVIOUS
<1>2. /\ T \in Die /\ F \in SUBSET G /\ G \in SUBSET Block /\ \A e \in F : c[e] = 0
      /\ Good(r, Lists(F, G, c, V), V) /\ freeBlockCnt[T] = Cardinality(F)
      /\ Cardinality(F) \in Nat /\ IsFiniteSet(F) /\ b \in F /\ F # {}
  BY <1>1, TargetLists DEF FreeBlocks
<1>3. b = r.head[FreeList]
  BY <1>1 DEF HeadFreeBlock
<1>4. PICK r2 : r2 = GetFree(r)
  OBVIOUS
<1>5. Good(r2, Lists(F \ {b}, G, c, V), V)
  BY <1>2, <1>3, <1>4, ListsTakeFree
<1>6. links' = [links EXCEPT ![T] = r2] /\ freeBlockCnt' = [freeBlockCnt EXCEPT ![T] = Cardinality(F) - 1]
  BY <1>1, <1>2, <1>4 DEF GetFromFbList
<1>7. Cardinality(F \ {b}) = Cardinality(F) - 1
  BY <1>2, FS_RemoveElement
<1>8. free' = [free EXCEPT ![T] = F \ {b}]
  BY <1>1 DEF TakeBlock
<1>9. free'[T] = F \ {b} /\ \A d \in Die : d # T => free'[d] = free[d]
  BY <1>2, <1>8 DEF FtlInv, FtlTypeOK
<1>10. /\ LinksInv /\ invalidSliceCnt'[T] = c /\ Held(T)' = V
       /\ \A d \in Die : d # T => invalidSliceCnt'[d] = invalidSliceCnt[d] /\ Held(d)' = Held(d)
  BY <1>1, <1>2 DEF ListsInv
<1>11. Good(r2, Lists(F \ {b}, GoodBlocks(T), c, V), V)
  BY <1>1, <1>5
<1> QED
  <2>1. PICK n, F2 : n = Cardinality(F) - 1 /\ F2 = F \ {b}
    OBVIOUS
  <2>2. n \in Int /\ n = Cardinality(F2) /\ freeBlockCnt' = [freeBlockCnt EXCEPT ![T] = n]
    BY <1>2, <1>6, <1>7, <2>1
  <2>3. free'[T] = F2 /\ Good(r2, Lists(F2, GoodBlocks(T), c, V), V)
    BY <1>9, <1>11, <2>1
  <2>4. \A d \in Die : d # T => /\ free'[d] = free[d] /\ invalidSliceCnt'[d] = invalidSliceCnt[d]
                                /\ Held(d)' = Held(d)
    BY <1>9, <1>10
  <2>5. links' = [links EXCEPT ![T] = r2]
    BY <1>6
  <2> QED
    BY <1>2, <1>10, <2>2, <2>3, <2>4, <2>5, LinksStep

\* or in a free one;
LEMMA FindInFreeLists ==
  ASSUME FtlInv, Room, ListsInv, ~reused, ListFindInFreeBlock
  PROVE  Kept
<1>1. freeBlockCnt[Target] > RESERVED_FREE_BLOCK_COUNT /\ FindInFreeBlock(HeadFreeBlock) /\ GetFromFbList
  BY DEF ListFindInFreeBlock, NormalBlockAvailable
<1>2. FreeBlocks > RESERVED_FREE_BLOCK_COUNT /\ free[Target] # {} /\ HeadFreeBlock \in free[Target]
  <2>1. FreeBlocks > RESERVED_FREE_BLOCK_COUNT
    BY <1>1, TargetLists
  <2>2. free[Target] # {}
    BY <2>1, FS_EmptySet DEF FreeBlocks, RESERVED_FREE_BLOCK_COUNT
  <2> QED
    BY <2>1, <2>2, TargetLists
<1>3. PICK b : b = HeadFreeBlock
  OBVIOUS
<1>4. /\ Finding /\ EndWrite(b) /\ TakeBlock(b) /\ UNCHANGED invalidSliceCnt
      /\ b \in GoodBlocks(Target) /\ b \in Block /\ b \in free[Target]
  BY <1>1, <1>2, <1>3, TargetLists DEF FindInFreeBlock, EndWrite
<1>5. /\ Target \in Die /\ currentPage \in [Die -> [Block -> 0..SLICES_PER_BLOCK]]
      /\ currentBlock \in [Die -> Block] /\ free \in [Die -> SUBSET Block]
  BY DEF FtlInv, FtlTypeOK, Target
<1>6. /\ currentBlock' \in {currentBlock, [currentBlock EXCEPT ![Target] = b]}
      /\ \A d \in Die : free'[d] \subseteq free[d]
  <2> HIDE DEF Target
  <2> QED
    BY <1>4, <1>5 DEF TakeBlock
<1>7. OnlyGood' /\ \A d \in Die : Held(d) = {} /\ Held(d)' = {}
  <2> HIDE DEF Target
  <2> QED
    BY <1>4, <1>5, <1>6, EndWriteGood
<1>8. LinksInv'
  BY <1>1, <1>2, <1>3, <1>4, <1>7, GetFromFbListLinks
<1>9. FtlNext
  BY <1>1, <1>2 DEF FtlNext, FtlFind
<1> QED
  BY <1>7, <1>8, <1>9 DEF Kept, ListsInv

\* The lists of victims tell which blocks have invalid slices.
LEMMA VictimListsTell ==
  ASSUME FtlInv, Room, ListsInv, ~reused, Finding, NEW b \in Block, b \notin free[Target],
         invalidSliceCnt[Target][b] # 0
  PROVE  invalidSliceCnt[Target][b] \in VictimLists
<1>1. PICK T, F, G, c, V, r :
        /\ T = Target /\ F = free[Target] /\ G = GoodBlocks(Target) /\ c = invalidSliceCnt[Target]
        /\ V = Held(Target) /\ r = links[Target]
  OBVIOUS
<1>2. /\ T \in Die /\ F \in SUBSET Block /\ G \in SUBSET Block /\ Good(r, Lists(F, G, c, V), V)
  BY <1>1, TargetLists
<1>3. V = {}
  BY <1>1, <1>2, NoneHeld DEF Room, Rooms, Finding
<1>4. /\ c[b] \in 0..SLICES_PER_BLOCK /\ b \in G /\ b \notin F /\ c[b] # 0
  BY <1>1, <1>2, CountsOfBlocks DEF ListsInv, Finding
<1>5. PICK n \in 1..SLICES_PER_BLOCK : n = c[b]
  BY <1>4
<1>6. n \in 0..SLICES_PER_BLOCK /\ n > 0
  BY <1>5
<1>7. PICK S : S = Lists(F, G, c, V) /\ Shaped(S, F, G, c, V)
  BY <1>2, ListsShape
<1>8. n \in List /\ b \in S[n]
  BY <1>3, <1>4, <1>5, <1>6, <1>7 DEF Shaped, Victims
<1>9. r.head[n] # NONE
  BY <1>2, <1>7, <1>8, HeadGood
<1> QED
  BY <1>1, <1>5, <1>9 DEF VictimLists

\* Empty lists of victims mean that no block has an invalid slice.
LEMMA NoVictimLeft ==
  ASSUME FtlInv, Room, ListsInv, ~reused, Finding, VictimLists = {}, NEW b \in Block
  PROVE  ~MostInvalid(b)
<1> SUFFICES ASSUME MostInvalid(b) PROVE FALSE
  OBVIOUS
<1>1. b \notin free[Target] /\ invalidSliceCnt[Target][b] > 0
  BY DEF MostInvalid
<1>2. invalidSliceCnt[Target][b] # 0
  BY <1>1
<1> QED
  BY <1>1, <1>2, VictimListsTell

\* The list that a victim is taken from is the last one with a block.
LEMMA FullestIs ==
  ASSUME VictimLists # {}
  PROVE  FullestVictimList \in VictimLists /\ \A m \in VictimLists : m <= FullestVictimList
<1>1. PICK N \in Nat : N = SLICES_PER_BLOCK
  BY FtlAssumption
<1>2. PICK VL : VL = VictimLists /\ VL \in SUBSET (1..N) /\ VL # {}
  BY <1>1 DEF VictimLists
<1>3. PICK B : B = {k \in 0..N : N - k \in VL}
  OBVIOUS
<1>4. B \in SUBSET Nat /\ B # {}
  <2>1. PICK m \in VL : m \in 1..N
    BY <1>2
  <2>2. PICK k \in 0..N : N - k = m
    BY <2>1
  <2>3. k \in B
    BY <1>3, <2>1, <2>2
  <2>4. \A j \in B : j \in 0..N
    BY <1>3
  <2>5. \A j \in 0..N : j \in Nat
    OBVIOUS
  <2> QED
    BY <2>3, <2>4, <2>5
<1>5. PICK k \in B : \A j \in B : k <= j
  BY <1>4, LeastNatural
<1>6. PICK n \in VL : n = N - k
  BY <1>3
<1>7. ASSUME NEW m \in VL PROVE m <= n
  <2>1. m \in 1..N /\ n \in 1..N /\ k \in 0..N
    BY <1>2, <1>3
  <2>2. N - m \in 0..N /\ N - (N - m) = m
    BY <2>1
  <2>3. N - m \in B
    BY <1>3, <2>2
  <2>4. k <= N - m
    BY <1>5, <2>3
  <2> QED
    BY <1>6, <2>1, <2>4
<1>8. \E e \in VictimLists : \A m \in VictimLists : m <= e
  BY <1>2, <1>7
<1> QED
  BY <1>8 DEF FullestVictimList

\* A collection begins with a block that has the most invalid slices.
LEMMA BeginLists ==
  ASSUME FtlInv, Room, ListsInv, ~reused, ListBeginCollection
  PROVE  Kept
<1>1. PICK T, F, G, c, V, r, n, b :
        /\ T = Target /\ F = free[Target] /\ G = GoodBlocks(Target) /\ c = invalidSliceCnt[Target]
        /\ V = Held(Target) /\ r = links[Target] /\ n = FullestVictimList
        /\ b = links[Target].head[FullestVictimList]
  OBVIOUS
<1>2. /\ T \in Die /\ F \in SUBSET Block /\ G \in SUBSET Block /\ Good(r, Lists(F, G, c, V), V)
      /\ freeBlockCnt[T] = Cardinality(F) /\ Cardinality(F) \in Nat
  BY <1>1, TargetLists DEF FreeBlocks
<1>3. /\ ~NormalBlockAvailable /\ VictimLists # {} /\ BeginCollection(b)
      /\ links' = [links EXCEPT ![T] = GetHead(r, n)] /\ freeBlockCnt' = freeBlockCnt
  BY <1>1 DEF ListBeginCollection
<1>4. /\ pc = "find" /\ Finding /\ victimBlockNo' = b /\ Target' = Target
      /\ pc' \in {"erase", "collect"}
      /\ UNCHANGED <<free, invalidSliceCnt, currentBlock, currentPage>>
  BY <1>3 DEF BeginCollection, Finding, maps, blocks, Target
<1>5. victimBlockNo = NONE /\ V = {} /\ \A d \in Die : Held(d) = {}
  <2>1. victimBlockNo = NONE
    BY <1>4 DEF Room, Rooms, Finding
  <2> QED
    BY <1>1, <1>2, <2>1, NoneHeld
<1>6. n \in VictimLists /\ \A m \in VictimLists : m <= n
  BY <1>1, <1>3, FullestIs
<1>7. n \in 1..SLICES_PER_BLOCK /\ r.head[n] # NONE /\ b = r.head[n]
  BY <1>1, <1>6 DEF VictimLists
<1>8. b \in G \ F /\ c[b] = n /\ Good(GetHead(r, n), Lists(F, G, c, {b}), {b})
  BY <1>2, <1>5, <1>7, ListsTakeVictim
<1>9. b \in Block
  BY <1>2, <1>8
<1>10. MostInvalid(b)
  <2>1. b \notin free[Target] /\ invalidSliceCnt[Target][b] > 0
    BY <1>1, <1>7, <1>8
  <2>2. ASSUME NEW e \in Block \ free[Target]
        PROVE  invalidSliceCnt[Target][e] <= invalidSliceCnt[Target][b]
    <3>1. CASE invalidSliceCnt[Target][e] = 0
      BY <1>1, <1>7, <1>8, <3>1
    <3>2. CASE invalidSliceCnt[Target][e] # 0
      <4>1. invalidSliceCnt[Target][e] \in VictimLists
        BY <1>4, <3>2, VictimListsTell
      <4> QED
        BY <1>1, <1>6, <1>8, <4>1
    <3> QED
      BY <3>1, <3>2
  <2> QED
    BY <2>1, <2>2 DEF MostInvalid
<1>11. FreeBlocks <= RESERVED_FREE_BLOCK_COUNT
  BY <1>1, <1>2, <1>3 DEF NormalBlockAvailable, FreeBlocks, RESERVED_FREE_BLOCK_COUNT
<1>12. FtlNext
  BY <1>3, <1>9, <1>10, <1>11 DEF FtlNext, FtlFind
<1>13. OnlyGood'
  <2>1. victimBlockNo' \in GoodBlocks(Target)'
    BY <1>1, <1>4, <1>8 DEF GoodBlocks
  <2> QED
    BY <1>4, <2>1 DEF ListsInv, OnlyGood, GoodBlocks
<1>14. /\ Held(T)' = {b} /\ \A d \in Die : d # T => Held(d)' = {}
  BY <1>1, <1>4, <1>9 DEF Held
<1>15. LinksInv'
  <2>1. freeBlockCnt' = [freeBlockCnt EXCEPT ![T] = Cardinality(F)]
    BY <1>2, <1>3 DEF ListsInv, LinksInv
  <2>2. free'[T] = F /\ invalidSliceCnt'[T] = c
    BY <1>1, <1>4
  <2>3. \A d \in Die : d # T => /\ free'[d] = free[d] /\ invalidSliceCnt'[d] = invalidSliceCnt[d]
                                /\ Held(d)' = Held(d)
    BY <1>4, <1>5, <1>14
  <2>4. PICK r2 : r2 = GetHead(r, n) /\ Good(r2, Lists(F, GoodBlocks(T), c, {b}), {b})
    BY <1>1, <1>8
  <2>5. LinksInv /\ links' = [links EXCEPT ![T] = r2] /\ Cardinality(F) \in Int
    BY <1>2, <1>3, <2>4 DEF ListsInv
  <2> QED
    BY <1>2, <1>14, <2>1, <2>2, <2>3, <2>4, <2>5, LinksStep
<1> QED
  BY <1>12, <1>13, <1>15 DEF Kept, ListsInv

\* A write that finds nothing gives up.
LEMMA FindFailsLists ==
  ASSUME FtlInv, Room, ListsInv, ~reused, ListFindFails
  PROVE  Kept
<1>1. /\ Finding /\ Full(Current) /\ ~NormalBlockAvailable /\ (pc = "find" => VictimLists = {})
      /\ Abort /\ UNCHANGED <<links, freeBlockCnt>>
  BY DEF ListFindFails, listVars
<1>2. FreeBlocks <= RESERVED_FREE_BLOCK_COUNT
  BY <1>1, TargetLists DEF NormalBlockAvailable, RESERVED_FREE_BLOCK_COUNT
<1>3. pc = "find" => \A b \in Block : ~MostInvalid(b)
  BY <1>1, NoVictimLeft
<1>4. pc = "find" \/ pc = "found"
  BY <1>1 DEF Finding
<1>5. FtlNext
  BY <1>1, <1>2, <1>3, <1>4 DEF FtlNext, FtlFind
<1>6. /\ pc' = "aborted"
      /\ UNCHANGED <<currentBlock, currentPage, invalidSliceCnt, free, sliceAllocationTargetDie,
                     victimBlockNo>>
  BY <1>1 DEF Abort, blocks
<1>7. OnlyGood'
  BY <1>6 DEF ListsInv, OnlyGood, GoodBlocks
<1>8. LinksInv'
  BY <1>1, <1>6, LinksKept DEF ListsInv, Held, Target
<1> QED
  BY <1>5, <1>7, <1>8 DEF Kept, ListsInv

\* A page of the victim is not copied.
LEMMA SkipLists ==
  ASSUME FtlInv, Room, ListsInv, ~reused, SkipPage, UNCHANGED listVars
  PROVE  Kept
<1>1. UNCHANGED <<currentBlock, currentPage, invalidSliceCnt, free, sliceAllocationTargetDie,
                  pc, victimBlockNo, links, freeBlockCnt>>
  BY DEF SkipPage, blocks, listVars
<1>2. OnlyGood'
  BY <1>1 DEF ListsInv, OnlyGood, GoodBlocks, Target
<1>3. LinksInv'
  BY <1>1, LinksKept DEF ListsInv, Held, Target
<1> QED
  BY <1>2, <1>3 DEF Kept, ListsInv, FtlNext, FtlCollect

\* A collection takes a free block,
LEMMA TakeForGcLists ==
  ASSUME FtlInv, Room, ListsInv, ~reused, ListTakeBlockForGc
  PROVE  Kept
<1>1. HeadFreeBlock # NONE /\ TakeBlockForGc(HeadFreeBlock) /\ GetFromFbList
  BY DEF ListTakeBlockForGc
<1>2. /\ free[Target] # {} /\ HeadFreeBlock \in free[Target] /\ HeadFreeBlock \in GoodBlocks(Target)
      /\ Target \in Die
  BY <1>1, TargetLists
<1>3. PICK b : b = HeadFreeBlock
  OBVIOUS
<1>4. /\ pc = "collect" /\ pc' \in {"collect", "copy"} /\ TakeBlock(b)
      /\ UNCHANGED <<currentPage, invalidSliceCnt, sliceAllocationTargetDie, victimBlockNo>>
  BY <1>1, <1>3 DEF TakeBlockForGc, CopyNeedsBlock
<1>5. \A d \in Die : Held(d)' = Held(d)
  BY <1>4 DEF Held, Target
<1>6. LinksInv'
  BY <1>1, <1>2, <1>3, <1>4, <1>5, GetFromFbListLinks
<1>7. OnlyGood'
  <2>1. /\ currentBlock \in [Die -> Block] /\ free \in [Die -> SUBSET Block] /\ OnlyGood
        /\ Target' = Target
    BY <1>4 DEF FtlInv, FtlTypeOK, ListsInv, Target
  <2>2. /\ currentBlock' = [currentBlock EXCEPT ![Target] = b]
        /\ free' = [free EXCEPT ![Target] = @ \ {b}]
    BY <1>4 DEF TakeBlock
  <2> HIDE DEF Target
  <2>3. \A d \in Die : free'[d] \subseteq free[d] /\ (currentBlock'[d] = currentBlock[d] \/ (d = Target /\ currentBlock'[d] = b))
    BY <1>2, <2>1, <2>2
  <2>4. \A d \in Die : free'[d] \subseteq GoodBlocks(d) /\ currentBlock'[d] \in GoodBlocks(d)
    BY <1>2, <1>3, <2>1, <2>3 DEF OnlyGood
  <2> QED
    BY <1>4, <2>1, <2>4 DEF OnlyGood, GoodBlocks
<1>8. FtlNext
  BY <1>1, <1>2 DEF FtlNext, FtlCollect
<1> QED
  BY <1>6, <1>7, <1>8 DEF Kept, ListsInv

\* or finds none;
LEMMA CopyFailsLists ==
  ASSUME FtlInv, Room, ListsInv, ~reused, ListCopyFails
  PROVE  Kept
<1>1. CopyNeedsBlock /\ HeadFreeBlock = NONE /\ Abort /\ UNCHANGED <<links, freeBlockCnt>>
  BY DEF ListCopyFails, listVars
<1>2. free[Target] = {}
  BY <1>1, TargetLists
<1>3. FtlNext
  BY <1>1, <1>2 DEF FtlNext, FtlCollect
<1>4. /\ pc' = "aborted"
      /\ UNCHANGED <<currentBlock, currentPage, invalidSliceCnt, free, sliceAllocationTargetDie,
                     victimBlockNo>>
  BY <1>1 DEF Abort, blocks
<1>5. OnlyGood'
  BY <1>4 DEF ListsInv, OnlyGood, GoodBlocks
<1>6. LinksInv'
  BY <1>1, <1>4, LinksKept DEF ListsInv, Held, Target
<1> QED
  BY <1>3, <1>5, <1>6 DEF Kept, ListsInv

\* it copies a page,
LEMMA CopyLists ==
  ASSUME FtlInv, Room, ListsInv, ~reused, CopyPage, UNCHANGED listVars
  PROVE  Kept
<1>1. /\ currentPage' = [currentPage EXCEPT ![Target][Current] = @ + 1]
      /\ pc \in {"collect", "copy"} /\ pc' \in {"beyond", "collect"}
      /\ UNCHANGED <<currentBlock, invalidSliceCnt, free, sliceAllocationTargetDie, victimBlockNo,
                     links, freeBlockCnt>>
  BY DEF CopyPage, Place, Collecting, listVars
<1>2. /\ Target \in Die /\ currentPage \in [Die -> [Block -> 0..SLICES_PER_BLOCK]]
      /\ currentBlock \in [Die -> Block] /\ OnlyGood /\ Target' = Target
  BY <1>1 DEF FtlInv, FtlTypeOK, ListsInv, Target
<1>3. Current \in Block /\ Current \in GoodBlocks(Target)
  BY <1>2 DEF OnlyGood, Current
<1>4. OnlyGood'
  <2> HIDE DEF Target, Current
  <2>1. \A d \in Die, e \in Block : currentPage'[d][e] = currentPage[d][e] \/ (d = Target /\ e = Current)
    BY <1>1, <1>2, <1>3
  <2>2. \A d \in Die, e \in Block : currentPage'[d][e] # 0 => e \in GoodBlocks(d)
    BY <1>2, <1>3, <2>1 DEF OnlyGood
  <2> QED
    BY <1>1, <1>2, <2>2 DEF OnlyGood, GoodBlocks
<1>5. LinksInv'
  BY <1>1, LinksKept DEF ListsInv, Held, Target
<1> QED
  BY <1>4, <1>5 DEF Kept, ListsInv, FtlNext, FtlCollect

\* and in the end erases the victim.
LEMMA EraseLists ==
  ASSUME FtlInv, Room, ListsInv, ~reused, ~reused', ListEraseBlock
  PROVE  Kept
<1>1. PICK T, F, G, c, V, r, b :
        /\ T = Target /\ F = free[Target] /\ G = GoodBlocks(Target) /\ c = invalidSliceCnt[Target]
        /\ V = Held(Target) /\ r = links[Target] /\ b = victimBlockNo
  OBVIOUS
<1>2. /\ T \in Die /\ F \in SUBSET Block /\ G \in SUBSET Block /\ Good(r, Lists(F, G, c, V), V)
      /\ freeBlockCnt[T] = Cardinality(F) /\ Cardinality(F) \in Nat /\ IsFiniteSet(F)
      /\ c \in [Block -> Nat]
  BY <1>1, TargetLists DEF FreeBlocks
<1>3. /\ EraseBlock /\ links' = [links EXCEPT ![T] = PutTail(r, FreeList, b)]
      /\ freeBlockCnt' = [freeBlockCnt EXCEPT ![T] = @ + 1]
  BY <1>1 DEF ListEraseBlock
<1>4. /\ pc \in {"collect", "erase"} /\ pc' = "found" /\ victimBlockNo' = NONE
      /\ currentPage' = [currentPage EXCEPT ![T][b] = 0]
      /\ invalidSliceCnt' = [invalidSliceCnt EXCEPT ![T][b] = 0]
      /\ free' = [free EXCEPT ![T] = @ \cup {b}]
      /\ UNCHANGED <<currentBlock, sliceAllocationTargetDie>>
  BY <1>1, <1>3 DEF EraseBlock
<1>5. b \in G \ F /\ b \in Block /\ V = {b} /\ \A d \in Die : d # T => Held(d) = {}
  <2>1. b \in G
    BY <1>1, <1>4 DEF ListsInv, OnlyGood
  <2>2. b \notin F
    BY <1>1, <1>4 DEF FtlInv, Phases
  <2> QED
    BY <1>1, <1>2, <2>1, <2>2 DEF Held
<1>6. PICK F2, c2, r2 : /\ F2 = F \cup {b} /\ c2 = [c EXCEPT ![b] = 0]
                        /\ r2 = PutTail(r, FreeList, b)
  OBVIOUS
<1>7. Good(r2, Lists(F2, G, c2, {}), {})
  BY <1>2, <1>5, <1>6, ListsErase
<1>8. /\ Cardinality(F2) = Cardinality(F) + 1 /\ Cardinality(F2) \in Int
  <2>1. IsFiniteSet(F) /\ b \notin F /\ Cardinality(F) \in Nat
    BY <1>2, <1>5
  <2>2. Cardinality(F \cup {b}) = Cardinality(F) + 1
    BY ONLY <2>1, FS_AddElement
  <2> QED
    BY ONLY <1>6, <2>1, <2>2
<1>9. freeBlockCnt' = [freeBlockCnt EXCEPT ![T] = Cardinality(F2)]
  BY <1>2, <1>3, <1>8 DEF ListsInv, LinksInv
<1>10. /\ invalidSliceCnt \in [Die -> [Block -> Nat]] /\ free \in [Die -> SUBSET Block]
       /\ currentPage \in [Die -> [Block -> 0..SLICES_PER_BLOCK]]
  BY DEF FtlInv, FtlTypeOK
<1>11. /\ free'[T] = F2 /\ invalidSliceCnt'[T] = c2
       /\ \A d \in Die : d # T => free'[d] = free[d] /\ invalidSliceCnt'[d] = invalidSliceCnt[d]
  BY <1>1, <1>2, <1>4, <1>6, <1>10
<1>12. \A d \in Die : Held(d)' = {}
  BY <1>4, NoneHeld
<1>13. LinksInv'
  <2>1. \A d \in Die : d # T => /\ free'[d] = free[d] /\ invalidSliceCnt'[d] = invalidSliceCnt[d]
                                /\ Held(d)' = Held(d)
    BY <1>5, <1>11, <1>12
  <2>2. LinksInv /\ links' = [links EXCEPT ![T] = r2]
    BY <1>3, <1>6 DEF ListsInv
  <2>3. Good(r2, Lists(F2, GoodBlocks(T), c2, {}), {}) /\ Held(T)' = {}
    BY <1>1, <1>2, <1>7, <1>12
  <2> QED
    BY <1>2, <1>8, <1>9, <1>11, <2>1, <2>2, <2>3, LinksStep
<1>14. OnlyGood'
  <2>1. \A d \in Die : free'[d] \subseteq GoodBlocks(d)
    <3>1. \A d \in Die : free[d] \subseteq GoodBlocks(d)
      BY DEF ListsInv, OnlyGood
    <3> QED
      BY <1>1, <1>5, <1>6, <1>11, <3>1
  <2>2. \A d \in Die, e \in Block : currentPage'[d][e] # 0 => currentPage[d][e] # 0
    BY <1>2, <1>4, <1>5, <1>10
  <2> QED
    BY <1>4, <2>1, <2>2 DEF ListsInv, OnlyGood, GoodBlocks
<1> QED
  BY <1>3, <1>13, <1>14 DEF Kept, ListsInv, FtlNext, FtlCollect

(***************************************************************************)
(* Every step of the code with its lists is one of Ftl, and keeps them.    *)
(***************************************************************************)
LEMMA ListsStep ==
  ASSUME FtlInv, Room, ListsInv, ~reused, ListsNext
  PROVE  FtlNext /\ ListsInv'
<1>1. ASSUME NEW l \in Lsa, ListInvalidate(l) \/ \E x \in Data : ListAddrTransWrite(l, x)
      PROVE  Kept
  BY <1>1, InvalidateLists
<1>2. CASE FindInCurrentBlock /\ UNCHANGED listVars
  BY <1>2, FindInCurrentLists DEF Kept
<1>3. CASE ListFindInFreeBlock
  BY <1>3, FindInFreeLists DEF Kept
<1>4. CASE ListBeginCollection
  BY <1>4, BeginLists DEF Kept
<1>5. CASE ListFindFails
  BY <1>5, FindFailsLists DEF Kept
<1>6. CASE SkipPage /\ UNCHANGED listVars
  BY <1>6, SkipLists DEF Kept
<1>7. CASE ListTakeBlockForGc
  BY <1>7, TakeForGcLists DEF Kept
<1>8. CASE ListCopyFails
  BY <1>8, CopyFailsLists DEF Kept
<1>9. CASE CopyPage /\ UNCHANGED listVars
  BY <1>9, CopyLists DEF Kept
<1>10. CASE ListEraseBlock
  <2>1. CASE reused'
    BY <1>10, <2>1 DEF ListsInv, ListEraseBlock, FtlNext, FtlCollect
  <2>2. CASE ~reused'
    BY <1>10, <2>2, EraseLists DEF Kept
  <2> QED
    BY <2>1, <2>2
<1> QED
  BY <1>1, <1>2, <1>3, <1>4, <1>5, <1>6, <1>7, <1>8, <1>9, <1>10 DEF ListsNext, Kept

\* The history is never reset.
LEMMA ListsReused ==
  ASSUME ListsNext, reused
  PROVE  reused'
BY DEF ListsNext, ListInvalidate, ListAddrTransWrite, ListFindInFreeBlock, ListBeginCollection,
       ListFindFails, ListTakeBlockForGc, ListCopyFails, ListEraseBlock, Invalidate, AddrTransWrite,
       FindInCurrentBlock, FindInFreeBlock, EndWrite, BeginCollection, Abort, SkipPage,
       TakeBlockForGc, CopyPage, EraseBlock

\* Steps that change nothing keep the invariant.
LEMMA ListsStutter ==
  ASSUME ListsInv, UNCHANGED allFtlVars
  PROVE  ListsInv'
<1>1. UNCHANGED <<currentBlock, currentPage, invalidSliceCnt, free, sliceAllocationTargetDie,
                  pc, victimBlockNo, links, freeBlockCnt, reused>>
  BY DEF allFtlVars, ftlVars, maps, blocks, control, listVars
<1>2. CASE ~reused
  <2>1. OnlyGood'
    BY <1>1, <1>2 DEF ListsInv, OnlyGood, GoodBlocks, Target
  <2>2. LinksInv'
    BY <1>1, <1>2, LinksKept DEF ListsInv, Held, Target
  <2> QED
    BY <2>1, <2>2 DEF ListsInv
<1> QED
  BY <1>1, <1>2 DEF ListsInv

AllInv == FtlInv /\ Room /\ ListsInv

\* The invariants of the maps, of the room and of the lists.
LEMMA AllInvariant == ListsSpec => []AllInv
<1>1. ListsInit => AllInv
  BY FtlInitInv, RoomInit, ListsInvInit DEF AllInv, ListsInit
<1>2. AllInv /\ [ListsNext]_allFtlVars => AllInv'
  <2> SUFFICES ASSUME AllInv, [ListsNext]_allFtlVars PROVE AllInv'
    OBVIOUS
  <2>1. CASE UNCHANGED allFtlVars
    <3>1. UNCHANGED ftlVars
      BY <2>1 DEF allFtlVars
    <3> QED
      BY <2>1, <3>1, FtlStutterInv, RoomStutter, ListsStutter DEF AllInv
  <2>2. CASE ListsNext /\ ~reused
    <3>1. FtlNext /\ ListsInv'
      BY <2>2, ListsStep DEF AllInv
    <3> QED
      BY <3>1, FtlStepInv, RoomStep DEF AllInv
  <2>3. CASE ListsNext /\ reused
    <3>1. reused'
      BY <2>3, ListsReused
    <3> QED
      BY <3>1, ReusedInv DEF AllInv, Room, ListsInv
  <2> QED
    BY <2>1, <2>2, <2>3
<1> QED
  BY <1>1, <1>2, PTL DEF ListsSpec

(***************************************************************************)
(* The lists are sound: chained both ways from head to tail, the free list *)
(* has the free blocks, the other lists the blocks with so many invalid    *)
(* slices (PutToGcVictimList, SelectiveGetFromGcVictimList, PutToFbList,   *)
(* GetFromFbList), as long as no collection erased the current block.      *)
(***************************************************************************)
THEOREM ListsAreSound == ListsSpec => []ListsSound
<1>1. AllInv => ListsSound
  BY ListsInvSound DEF AllInv, FtlInv
<1> QED
  BY <1>1, AllInvariant, PTL

(***************************************************************************)
(* The code with its lists implements Ftl: each block that it takes off a  *)
(* list, to write to or to collect, is one that Ftl allows.                *)
(***************************************************************************)
THEOREM ListsImplementFtl == ListsSpec => ImplementsFtl
<1>1. ListsInit => FtlInit
  BY DEF ListsInit
<1>2. AllInv /\ [ListsNext]_allFtlVars => [~reused => FtlNext]_ftlVars
  BY ListsStep DEF AllInv, allFtlVars
<1> QED
  BY <1>1, <1>2, AllInvariant, PTL DEF ListsSpec, ImplementsFtl

(***************************************************************************)
(* So all that holds of Ftl holds of the code with its lists.              *)
(***************************************************************************)
THEOREM ListedFtlSafe ==
  ListsSpec => [](FtlTypeOK /\ MapsInverse /\ CountsExact /\ AbortOnlyWhenFull)
<1>1. AllInv => FtlTypeOK /\ MapsInverse /\ CountsExact /\ AbortOnlyWhenFull
  BY DEF AllInv, FtlInv, Room, AbortOnlyWhenFull
<1> QED
  BY <1>1, AllInvariant, PTL

(***************************************************************************)
(* The code with its lists implements the store of slices.                 *)
(***************************************************************************)
THEOREM ListsImplementStore == ListsSpec => ImplementsStore
<1>1. ListsInit => Store!StoreInit
  BY DEF ListsInit, FtlInit, Store!StoreInit, Content
<1>2. AllInv /\ [ListsNext]_allFtlVars
        => [~reused' => Store!StoreNext \/ UNCHANGED <<Content, request>>]_ftlVars
  <2> SUFFICES ASSUME AllInv, [ListsNext]_allFtlVars
               PROVE  [~reused' => Store!StoreNext \/ UNCHANGED <<Content, request>>]_ftlVars
    OBVIOUS
  <2>1. CASE UNCHANGED allFtlVars
    BY <2>1 DEF allFtlVars
  <2>2. CASE ListsNext /\ ~reused
    BY <2>2, ListsStep, StoreStep DEF AllInv
  <2>3. CASE ListsNext /\ reused
    BY <2>3, ListsReused
  <2> QED
    BY <2>1, <2>2, <2>3
<1> QED
  BY <1>1, <1>2, AllInvariant, PTL DEF ListsSpec, ImplementsStore
=============================================================================
