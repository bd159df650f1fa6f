---------------------- MODULE RequestScheduler_proofs ----------------------
(***************************************************************************)
(* Proofs that the request layer keeps its tables sound, counts what it    *)
(* holds up exactly, and carries its requests out as if in order, for any  *)
(* dies, blocks, pages, entries, slots and retries, and any stream of the  *)
(* requests of RequestClient.                                              *)
(*                                                                         *)
(* The operators of the model take and return whole tables.  A lemma calls *)
(* the tables before an operator t and after it u, and says of u what the  *)
(* rest of the proof needs, so that the operator stays folded from then    *)
(* on; acc is the list of outstanding slots, w the pages that the client   *)
(* has written, H the slots that are held up.                              *)
(***************************************************************************)
EXTENDS RequestClient, FiniteSetTheorems, SequenceTheorems, WellFoundedInduction, TLAPS

\* What a slot may hold, and the type of the tables.
Request == DmaRequest \cup PageRequest \cup EraseRequest

Tables ==
  [pool      : [Slot -> Request \cup {NONE}],
   prev      : [Slot -> Slot \cup {NONE}],
   next      : [Slot -> Slot \cup {NONE}],
   tail      : [Entry -> Slot \cup {NONE}],
   blockedByBuf : SUBSET Slot,
   blockedByRow : [Die -> Seq(Slot)],
   nvmeDma   : Seq(Slot),
   nand      : [Die -> Seq(Slot)],
   permittedProgPage   : [Die -> [Block -> 0..Pages]],
   blockedReadReqCnt   : [Die -> [Block -> Int]],
   blockedEraseReqFlag : [Die -> [Block -> BOOLEAN]],
   way       : [Die -> {"idle", "queued", "busy"}],
   retryLimit : [Die -> Nat]]

\* No element twice.
Distinct(list) == \A i, j \in DOMAIN list : list[i] = list[j] => i = j

\* The order in which two outstanding slots were accepted.
Before(acc, r, s) == \E i, j \in DOMAIN acc : i < j /\ acc[i] = r /\ acc[j] = s

\* The outstanding slots are the accepted ones.
Listed(t, acc) ==
  /\ acc \in Seq(Slot) /\ Distinct(acc)
  /\ \A s \in Slot : t.pool[s] # NONE <=> s \in ToSet(acc)

(***************************************************************************)
(* The chain of an entry: the requests on it in the order of acceptance.   *)
(***************************************************************************)
OnEntry(t, acc, e, s) == s \in ToSet(acc) /\ t.pool[s].entry = e /\ e # NONE

Chains(t, acc) ==
  /\ \A s \in Slot \ ToSet(acc) : t.prev[s] = NONE /\ t.next[s] = NONE
  /\ \A s \in ToSet(acc) : t.next[s] # NONE =>
       /\ t.next[s] \in ToSet(acc) /\ t.prev[t.next[s]] = s
       /\ t.pool[s].entry # NONE /\ t.pool[t.next[s]].entry = t.pool[s].entry
       /\ \A r \in ToSet(acc) :
            t.pool[r].entry = t.pool[s].entry /\ Before(acc, r, t.next[s])
              => r = s \/ Before(acc, r, s)
  /\ \A s \in ToSet(acc) : t.prev[s] # NONE => t.prev[s] \in ToSet(acc) /\ t.next[t.prev[s]] = s
  /\ \A r, s \in ToSet(acc) :
       t.pool[r].entry = t.pool[s].entry /\ t.pool[s].entry # NONE /\ Before(acc, r, s)
         => t.prev[s] # NONE
  /\ \A e \in Entry :
       IF t.tail[e] = NONE THEN \A s \in ToSet(acc) : t.pool[s].entry # e
       ELSE /\ t.tail[e] \in ToSet(acc) /\ t.pool[t.tail[e]].entry = e
            /\ t.next[t.tail[e]] = NONE
            /\ \A r \in ToSet(acc) :
                 t.pool[r].entry = e => r = t.tail[e] \/ Before(acc, r, t.tail[e])
  /\ \A s \in ToSet(acc) :
       t.pool[s].entry # NONE /\ t.next[s] = NONE => t.tail[t.pool[s].entry] = s

(***************************************************************************)
(* Where the outstanding slots are: H are held up, by either dependency;   *)
(* a die gets conflicting requests in the order of acceptance.             *)
(***************************************************************************)
OnDie(t, acc, d, s) == s \in ToSet(acc) /\ ~IsDma(t.pool[s]) /\ t.pool[s].die = d

Placed(t, acc, H) ==
  /\ H \subseteq ToSet(acc)
  /\ \A s \in H : t.pool[s].code # "READ_TRANSFER"
  /\ Distinct(t.nvmeDma)
  /\ \A s \in ToSet(t.nvmeDma) : s \in ToSet(acc) /\ IsDma(t.pool[s])
  /\ \A s \in ToSet(acc) :
       IsDma(t.pool[s]) => (s \in ToSet(t.nvmeDma) <=> s \notin H)
  /\ \A d \in Die :
       /\ Distinct(t.nand[d])
       /\ \A s \in ToSet(t.nand[d]) : OnDie(t, acc, d, s)
       /\ \A s \in ToSet(acc) : OnDie(t, acc, d, s) => (s \in ToSet(t.nand[d]) <=> s \notin H)

RowConflict(r, s) ==
  /\ ~IsDma(r) /\ ~IsDma(s) /\ r.die = s.die /\ r.block = s.block
  /\ \/ r.code = "ERASE" \/ s.code = "ERASE"
     \/ r.code = "WRITE" /\ s.code = "WRITE"
     \/ r.code = "WRITE" /\ IsRead(s) /\ r.page = s.page
     \/ IsRead(r) /\ s.code = "WRITE" /\ r.page = s.page

NandOrdered(t, acc) ==
  \A d \in Die : \A j \in DOMAIN t.nand[d] : \A r \in ToSet(acc) :
    Before(acc, r, t.nand[d][j]) /\ RowConflict(t.pool[r], t.pool[t.nand[d][j]])
      => \E i \in DOMAIN t.nand[d] : i < j /\ t.nand[d][i] = r

\* Those held up by a row; the others wait for their buffer entry.
RowQueues(t, acc) ==
  \A d \in Die :
    /\ Distinct(t.blockedByRow[d])
    /\ \A s \in ToSet(t.blockedByRow[d]) : OnDie(t, acc, d, s) /\ s \notin t.blockedByBuf

BufQueue(t) == \A s \in Slot : s \in t.blockedByBuf <=> t.prev[s] # NONE

(***************************************************************************)
(* The row dependency table, and the generations of a block: a held-up     *)
(* write comes before the held-up erase of its block, if there is one, or  *)
(* the block is full; and a held-up read comes before the erase, and       *)
(* before the next write of its page only with the erase between them.     *)
(***************************************************************************)
HeldOn(t, H, code, d, b) ==
  {s \in H : t.pool[s].code = code /\ t.pool[s].die = d /\ t.pool[s].block = b}

Counted(t, H) ==
  \A d \in Die, b \in Block :
    /\ t.blockedReadReqCnt[d][b] = Cardinality(HeldOn(t, H, "READ", d, b))
    /\ t.blockedEraseReqFlag[d][b] <=> HeldOn(t, H, "ERASE", d, b) # {}
    /\ \A e, f \in HeldOn(t, H, "ERASE", d, b) : e = f

WritesAt(pool, acc, next, pages, erases, writes) ==
  /\ erases = {} => next <= pages
  /\ \A s \in writes :
       /\ erases = {} => next <= pool[s].page /\ pool[s].page < pages
       /\ \A e \in erases :
            \/ Before(acc, s, e) /\ next <= pool[s].page
            \/ Before(acc, e, s) /\ next = Pages /\ pool[s].page < pages
       /\ \A r \in writes : Before(acc, r, s) => pool[r].page < pool[s].page

ReadsAt(pool, acc, pages, erases, writes, reads) ==
  \A r \in reads :
    /\ erases = {} => pool[r].page < pages
    /\ \A e \in erases : Before(acc, r, e)
    /\ \A s \in writes : Before(acc, r, s) /\ pool[r].page = pool[s].page
         => \E e \in erases : Before(acc, e, s)

RowsFit(t, acc, w, H) ==
  \A d \in Die, b \in Block :
    /\ WritesAt(t.pool, acc, t.permittedProgPage[d][b], w[d][b],
                HeldOn(t, H, "ERASE", d, b), HeldOn(t, H, "WRITE", d, b))
    /\ ReadsAt(t.pool, acc, w[d][b], HeldOn(t, H, "ERASE", d, b),
               HeldOn(t, H, "WRITE", d, b), HeldOn(t, H, "READ", d, b))

RowInv(t, acc, w, H) ==
  Placed(t, acc, H) /\ NandOrdered(t, acc) /\ Counted(t, H) /\ RowsFit(t, acc, w, H)

Turns(t) == \A d \in Die : t.way[d] # "idle" => t.nand[d] # <<>>

Sound(t, acc, w) ==
  /\ t \in Tables /\ Listed(t, acc)
  /\ Chains(t, acc) /\ BufQueue(t) /\ RowQueues(t, acc)
  /\ RowInv(t, acc, w, HeldUp(t))

ClientInv ==
  /\ Sound(q, accepted, written) /\ Turns(q)
  /\ written \in [Die -> [Block -> 0..Pages]]
-----------------------------------------------------------------------------
(***************************************************************************)
(* Sequences without repetitions: one more element, one less, their order. *)
(***************************************************************************)
LEMMA AppendFacts ==
  ASSUME NEW S, NEW list \in Seq(S), NEW x \in S
  PROVE  /\ Append(list, x) \in Seq(S) /\ Append(list, x) # <<>>
         /\ DOMAIN Append(list, x) = 1..Len(list)+1 /\ DOMAIN list = 1..Len(list)
         /\ Len(list) \in Nat
         /\ \A i \in DOMAIN list : Append(list, x)[i] = list[i]
         /\ Append(list, x)[Len(list)+1] = x
         /\ ToSet(Append(list, x)) = ToSet(list) \cup {x}
         /\ Distinct(list) /\ x \notin ToSet(list) => Distinct(Append(list, x))
<1>1. /\ Append(list, x) \in Seq(S) /\ Len(Append(list, x)) = Len(list)+1
      /\ DOMAIN Append(list, x) = 1..Len(list)+1 /\ DOMAIN list = 1..Len(list)
      /\ Len(list) \in Nat
      /\ \A i \in 1..Len(list) : Append(list, x)[i] = list[i]
      /\ Append(list, x)[Len(list)+1] = x
  BY AppendProperties, LenProperties
<1>2. Append(list, x) # <<>>
  BY <1>1
<1>3. ToSet(Append(list, x)) = ToSet(list) \cup {x}
  BY <1>1 DEF ToSet
<1>4. Distinct(list) /\ x \notin ToSet(list) => Distinct(Append(list, x))
  BY <1>1 DEF Distinct, ToSet
<1> QED
  BY <1>1, <1>2, <1>3, <1>4

\* The elements after the k-th move up.
LEMMA RemoveAtFacts ==
  ASSUME NEW S, NEW list \in Seq(S), NEW k \in 1..Len(list)
  PROVE  /\ RemoveAt(list, k) \in Seq(S) /\ DOMAIN RemoveAt(list, k) = 1..Len(list)-1
         /\ \A i \in 1..Len(list)-1 : RemoveAt(list, k)[i] = IF i < k THEN list[i] ELSE list[i+1]
<1>1. DOMAIN list = 1..Len(list) /\ Len(list) \in Nat
  BY LenProperties
<1>2. k \in 1..Len(list)
  OBVIOUS
<1> DEFINE a == SubSeq(list, 1, k-1)
           b == SubSeq(list, k+1, Len(list))
<1>3. a \in Seq(S) /\ Len(a) = k-1 /\ \A i \in 1..k-1 : a[i] = list[i]
  <2>1. 1 \in Int /\ k-1 \in Int /\ \A i \in 1..k-1 : list[i] \in S
    BY <1>1, <1>2, ElementOfSeq
  <2>2. /\ a \in Seq(S) /\ Len(a) = IF 1 <= k-1 THEN k-1-1+1 ELSE 0
        /\ \A i \in 1..k-1-1+1 : a[i] = list[1+i-1]
    BY <2>1, SubSeqProperties
  <2> QED
    BY <1>1, <1>2, <2>2
<1>4. b \in Seq(S) /\ Len(b) = Len(list)-k /\ \A i \in 1..Len(list)-k : b[i] = list[k+i]
  <2>1. k+1 \in Int /\ Len(list) \in Int /\ \A i \in k+1..Len(list) : list[i] \in S
    BY <1>1, <1>2, ElementOfSeq
  <2>2. /\ b \in Seq(S) /\ Len(b) = IF k+1 <= Len(list) THEN Len(list)-(k+1)+1 ELSE 0
        /\ \A i \in 1..Len(list)-(k+1)+1 : b[i] = list[k+1+i-1]
    BY <2>1, SubSeqProperties
  <2> HIDE DEF b
  <2>3. Len(list)-(k+1)+1 = Len(list)-k /\ \A i \in 1..Len(list)-k : k+1+i-1 = k+i
    BY <1>1, <1>2
  <2>4. Len(b) = Len(list)-k
    <3>1. PICK n \in Nat : n = Len(list) /\ k \in 1..n
      BY <1>1, <1>2
    <3>2. Len(b) = IF k+1 <= n THEN n-(k+1)+1 ELSE 0
      BY <2>2, <3>1
    <3>3. CASE k = n
      BY <3>1, <3>2, <3>3
    <3>4. CASE k < n
      BY <3>1, <3>2, <3>4
    <3> QED
      BY <3>1, <3>3, <3>4
  <2>5. \A i \in 1..Len(list)-k : b[i] = list[k+i]
    BY <2>2, <2>3
  <2> QED
    BY <2>2, <2>4, <2>5
<1> HIDE DEF a, b
<1>5. /\ a \o b \in Seq(S) /\ Len(a \o b) = Len(list)-1
      /\ \A i \in 1..Len(list)-1 : (a \o b)[i] = IF i < k THEN list[i] ELSE list[i+1]
  <2>1. /\ a \o b \in Seq(S) /\ Len(a \o b) = Len(a) + Len(b)
        /\ \A i \in 1..Len(a)+Len(b) : (a \o b)[i] = IF i <= Len(a) THEN a[i] ELSE b[i-Len(a)]
    BY <1>3, <1>4, ConcatProperties
  <2>2. Len(a) + Len(b) = Len(list)-1
    BY <1>1, <1>2, <1>3, <1>4
  <2>3. ASSUME NEW i \in 1..Len(list)-1
        PROVE  (a \o b)[i] = IF i < k THEN list[i] ELSE list[i+1]
    <3>1. (a \o b)[i] = IF i <= k-1 THEN a[i] ELSE b[i-(k-1)]
      BY <1>3, <2>1, <2>2
    <3>2. CASE i < k
      BY <1>2, <1>3, <3>1, <3>2
    <3>3. CASE ~(i < k)
      <4>1. i-(k-1) \in 1..Len(list)-k /\ k+(i-(k-1)) = i+1
        BY <1>1, <1>2, <3>3
      <4>2. b[i-(k-1)] = list[k+(i-(k-1))]
        BY <1>4, <4>1
      <4> QED
        BY <1>2, <3>1, <3>3, <4>1, <4>2
    <3> QED
      BY <3>2, <3>3
  <2> QED
    BY <2>1, <2>2, <2>3
<1>6. RemoveAt(list, k) = a \o b
  BY DEF RemoveAt, a, b
<1> QED
  BY <1>1, <1>5, <1>6, LenProperties

\* What Without takes away is the one place of s.
LEMMA WithoutFacts ==
  ASSUME NEW S, NEW list \in Seq(S), Distinct(list), NEW s \in ToSet(list)
  PROVE  /\ Without(list, s) \in Seq(S) /\ Distinct(Without(list, s))
         /\ ToSet(Without(list, s)) = ToSet(list) \ {s}
         /\ \E k \in 1..Len(list) :
              /\ list[k] = s
              /\ Without(list, s) = RemoveAt(list, k)
              /\ DOMAIN Without(list, s) = 1..Len(list)-1
              /\ \A i \in 1..Len(list)-1 :
                   Without(list, s)[i] = IF i < k THEN list[i] ELSE list[i+1]
<1>1. DOMAIN list = 1..Len(list) /\ Len(list) \in Nat
  BY LenProperties
<1>2. PICK k \in 1..Len(list) : list[k] = s
  BY <1>1 DEF ToSet
<1>3. (CHOOSE i \in DOMAIN list : list[i] = s) = k
  BY <1>1, <1>2 DEF Distinct
<1>4. Without(list, s) = RemoveAt(list, k)
  BY <1>3 DEF Without
<1>5. /\ Without(list, s) \in Seq(S) /\ DOMAIN Without(list, s) = 1..Len(list)-1
      /\ \A i \in 1..Len(list)-1 :
           Without(list, s)[i] = IF i < k THEN list[i] ELSE list[i+1]
  BY <1>2, <1>4, RemoveAtFacts
<1>6. ToSet(Without(list, s)) = ToSet(list) \ {s}
  <2>1. ASSUME NEW x \in ToSet(Without(list, s)) PROVE x \in ToSet(list) \ {s}
    BY <1>1, <1>2, <1>5, <2>1 DEF ToSet, Distinct
  <2>2. ASSUME NEW x \in ToSet(list) \ {s} PROVE x \in ToSet(Without(list, s))
    <3>1. PICK i \in 1..Len(list) : list[i] = x
      BY <1>1 DEF ToSet
    <3>2. CASE i < k
      <4>1. i \in 1..Len(list)-1 /\ Without(list, s)[i] = x
        BY <1>1, <1>2, <1>5, <3>1, <3>2
      <4> QED
        BY <1>5, <4>1 DEF ToSet
    <3>3. CASE i > k
      <4>1. i-1 \in 1..Len(list)-1 /\ Without(list, s)[i-1] = x
        BY <1>1, <1>2, <1>5, <3>1, <3>3
      <4> QED
        BY <1>5, <4>1 DEF ToSet
    <3> QED
      BY <1>2, <3>1, <3>2, <3>3
  <2> QED
    BY <2>1, <2>2
<1>7. Distinct(Without(list, s))
  <2> SUFFICES ASSUME NEW i \in 1..Len(list)-1, NEW j \in 1..Len(list)-1,
                      Without(list, s)[i] = Without(list, s)[j]
               PROVE  i = j
    BY <1>5 DEF Distinct
  <2>1. PICK m \in 1..Len(list) : m = IF i < k THEN i ELSE i+1
    BY <1>1, <1>2
  <2>2. PICK n \in 1..Len(list) : n = IF j < k THEN j ELSE j+1
    BY <1>1, <1>2
  <2>3. list[m] = list[n]
    BY <1>5, <2>1, <2>2
  <2>4. m = n
    BY <1>1, <2>3 DEF Distinct
  <2> QED
    BY <1>2, <2>1, <2>2, <2>4
<1> QED
  BY <1>2, <1>4, <1>5, <1>6, <1>7

\* The tail of a list is the list without its head.
LEMMA TailFacts ==
  ASSUME NEW S, NEW list \in Seq(S), Distinct(list), list # <<>>
  PROVE  /\ Head(list) \in ToSet(list) /\ Head(list) = list[1]
         /\ Tail(list) \in Seq(S) /\ Distinct(Tail(list))
         /\ ToSet(Tail(list)) = ToSet(list) \ {Head(list)}
         /\ DOMAIN Tail(list) = 1..Len(list)-1 /\ DOMAIN list = 1..Len(list)
         /\ \A i \in 1..Len(list)-1 : Tail(list)[i] = list[i+1]
<1>1. DOMAIN list = 1..Len(list) /\ Len(list) \in Nat \ {0}
  BY LenProperties, EmptySeq
<1>2. /\ Tail(list) \in Seq(S) /\ Len(Tail(list)) = Len(list)-1
      /\ \A i \in 1..Len(list)-1 : Tail(list)[i] = list[i+1]
      /\ Head(list) = list[1]
  BY <1>1, HeadTailProperties
<1>3. DOMAIN Tail(list) = 1..Len(list)-1
  BY <1>2, LenProperties
<1>4. Head(list) \in ToSet(list)
  BY <1>1, <1>2 DEF ToSet
<1>5. ToSet(Tail(list)) = ToSet(list) \ {Head(list)}
  <2>1. ASSUME NEW x \in ToSet(Tail(list)) PROVE x \in ToSet(list) \ {Head(list)}
    BY <1>1, <1>2, <1>3 DEF ToSet, Distinct
  <2>2. ASSUME NEW x \in ToSet(list) \ {Head(list)} PROVE x \in ToSet(Tail(list))
    <3>1. PICK i \in 1..Len(list) : list[i] = x /\ i # 1
      BY <1>1, <1>2 DEF ToSet
    <3>2. i-1 \in 1..Len(list)-1 /\ Tail(list)[i-1] = x
      BY <1>1, <1>2, <3>1
    <3> QED
      BY <1>3, <3>2 DEF ToSet
  <2> QED
    BY <2>1, <2>2
<1>6. Distinct(Tail(list))
  BY <1>1, <1>2, <1>3 DEF Distinct
<1> QED
  BY <1>1, <1>2, <1>3, <1>4, <1>5, <1>6

\* The order of acceptance is a total order of the outstanding slots.
LEMMA BeforeOrder ==
  ASSUME NEW acc \in Seq(Slot), Distinct(acc)
  PROVE  /\ \A r, s : Before(acc, r, s) => r \in ToSet(acc) /\ s \in ToSet(acc) /\ r # s
         /\ \A r, s \in ToSet(acc) : r = s \/ Before(acc, r, s) \/ Before(acc, s, r)
         /\ \A r, s : ~(Before(acc, r, s) /\ Before(acc, s, r))
         /\ \A r, s, x : Before(acc, r, s) /\ Before(acc, s, x) => Before(acc, r, x)
<1>1. DOMAIN acc = 1..Len(acc) /\ Len(acc) \in Nat
  BY LenProperties
<1>2. \A r, s : Before(acc, r, s) => r \in ToSet(acc) /\ s \in ToSet(acc) /\ r # s
  BY <1>1 DEF Before, ToSet, Distinct
<1>3. \A r, s \in ToSet(acc) : r = s \/ Before(acc, r, s) \/ Before(acc, s, r)
  BY <1>1 DEF Before, ToSet
<1>4. \A r, s : ~(Before(acc, r, s) /\ Before(acc, s, r))
  BY <1>1 DEF Before, Distinct
<1>5. \A r, s, x : Before(acc, r, s) /\ Before(acc, s, x) => Before(acc, r, x)
  BY <1>1 DEF Before, Distinct
<1> QED
  BY <1>2, <1>3, <1>4, <1>5

\* A slot that is accepted comes last.
LEMMA BeforeAppend ==
  ASSUME NEW acc \in Seq(Slot), Distinct(acc), NEW s \in Slot, s \notin ToSet(acc)
  PROVE  \A a, b : Before(Append(acc, s), a, b)
                     <=> Before(acc, a, b) \/ (a \in ToSet(acc) /\ b = s)
<1>1. /\ DOMAIN acc = 1..Len(acc) /\ Len(acc) \in Nat
      /\ DOMAIN Append(acc, s) = 1..Len(acc)+1
      /\ \A i \in 1..Len(acc) : Append(acc, s)[i] = acc[i]
      /\ Append(acc, s)[Len(acc)+1] = s
  BY AppendFacts
<1>2. ASSUME NEW a, NEW b, Before(Append(acc, s), a, b)
      PROVE  Before(acc, a, b) \/ (a \in ToSet(acc) /\ b = s)
  <2>1. PICK i, j \in 1..Len(acc)+1 :
          i < j /\ Append(acc, s)[i] = a /\ Append(acc, s)[j] = b
    BY <1>1, <1>2 DEF Before
  <2>2. i \in 1..Len(acc) /\ acc[i] = a
    BY <1>1, <2>1
  <2>3. CASE j = Len(acc)+1
    BY <1>1, <2>1, <2>2, <2>3 DEF ToSet
  <2>4. CASE j # Len(acc)+1
    <3>1. j \in 1..Len(acc) /\ acc[j] = b
      BY <1>1, <2>1, <2>4
    <3> QED
      BY <1>1, <2>1, <2>2, <3>1 DEF Before
  <2> QED
    BY <2>3, <2>4
<1>3. ASSUME NEW a, NEW b, Before(acc, a, b)
      PROVE  Before(Append(acc, s), a, b)
  <2>1. PICK i, j \in 1..Len(acc) : i < j /\ acc[i] = a /\ acc[j] = b
    BY <1>1, <1>3 DEF Before
  <2>2. i \in 1..Len(acc)+1 /\ j \in 1..Len(acc)+1
    BY <1>1
  <2> QED
    BY <1>1, <2>1, <2>2 DEF Before
<1>4. ASSUME NEW a \in ToSet(acc)
      PROVE  Before(Append(acc, s), a, s)
  <2>1. PICK i \in 1..Len(acc) : acc[i] = a
    BY <1>1 DEF ToSet
  <2>2. i \in 1..Len(acc)+1 /\ Len(acc)+1 \in 1..Len(acc)+1 /\ i < Len(acc)+1
    BY <1>1
  <2> QED
    BY <1>1, <2>1, <2>2 DEF Before
<1> QED
  BY <1>2, <1>3, <1>4

\* A slot that is done changes nothing in the order of the others.
LEMMA BeforeWithout ==
  ASSUME NEW acc \in Seq(Slot), Distinct(acc), NEW s \in ToSet(acc)
  PROVE  \A a, b : Before(Without(acc, s), a, b) <=> Before(acc, a, b) /\ a # s /\ b # s
<1>1. DOMAIN acc = 1..Len(acc) /\ Len(acc) \in Nat
  BY LenProperties
<1> DEFINE new == Without(acc, s)
<1>2. PICK k \in 1..Len(acc) :
        /\ acc[k] = s /\ DOMAIN new = 1..Len(acc)-1
        /\ \A i \in 1..Len(acc)-1 : new[i] = IF i < k THEN acc[i] ELSE acc[i+1]
  BY WithoutFacts
<1> HIDE DEF new
<1>3. ASSUME NEW a, NEW b, Before(new, a, b)
      PROVE  Before(acc, a, b) /\ a # s /\ b # s
  <2>1. PICK i, j \in 1..Len(acc)-1 : i < j /\ new[i] = a /\ new[j] = b
    BY <1>2, <1>3 DEF Before
  <2>2. PICK m \in 1..Len(acc) : m = IF i < k THEN i ELSE i+1
    BY <1>1, <1>2, <2>1
  <2>3. PICK n \in 1..Len(acc) : n = IF j < k THEN j ELSE j+1
    BY <1>1, <1>2, <2>1
  <2>4. acc[m] = a /\ acc[n] = b /\ m < n /\ m # k /\ n # k
    BY <1>1, <1>2, <2>1, <2>2, <2>3
  <2> QED
    BY <1>1, <1>2, <2>4 DEF Before, Distinct
<1>4. ASSUME NEW a, NEW b, Before(acc, a, b), a # s, b # s
      PROVE  Before(new, a, b)
  <2>1. PICK i, j \in 1..Len(acc) : i < j /\ acc[i] = a /\ acc[j] = b
    BY <1>1, <1>4 DEF Before
  <2>2. i # k /\ j # k
    BY <1>2, <1>4, <2>1
  <2>3. PICK m \in 1..Len(acc)-1 : m = IF i < k THEN i ELSE i-1
    BY <1>1, <1>2, <2>1, <2>2
  <2>4. PICK n \in 1..Len(acc)-1 : n = IF j < k THEN j ELSE j-1
    BY <1>1, <1>2, <2>1, <2>2
  <2>5. new[m] = a /\ new[n] = b /\ m < n
    BY <1>1, <1>2, <2>1, <2>2, <2>3, <2>4
  <2> QED
    BY <1>2, <2>5 DEF Before
<1> QED
  BY <1>3, <1>4 DEF new
-----------------------------------------------------------------------------
(***************************************************************************)
(* The tables, and the operators that put a request into a list or change  *)
(* a cell of the row dependency table.                                     *)
(***************************************************************************)
LEMMA TableTypes ==
  ASSUME NEW t \in Tables
  PROVE  /\ t.pool \in [Slot -> Request \cup {NONE}]
         /\ t.prev \in [Slot -> Slot \cup {NONE}] /\ t.next \in [Slot -> Slot \cup {NONE}]
         /\ t.tail \in [Entry -> Slot \cup {NONE}]
         /\ t.blockedByBuf \in SUBSET Slot /\ t.blockedByRow \in [Die -> Seq(Slot)]
         /\ t.nvmeDma \in Seq(Slot) /\ t.nand \in [Die -> Seq(Slot)]
         /\ t.permittedProgPage \in [Die -> [Block -> 0..Pages]]
         /\ t.blockedReadReqCnt \in [Die -> [Block -> Int]]
         /\ t.blockedEraseReqFlag \in [Die -> [Block -> BOOLEAN]]
         /\ t.way \in [Die -> {"idle", "queued", "busy"}] /\ t.retryLimit \in [Die -> Nat]
BY DEF Tables

\* What two tables have in common.
SameQueues(t, u) == u.blockedByRow = t.blockedByRow /\ u.nvmeDma = t.nvmeDma /\ u.nand = t.nand
SameChains(t, u) ==
  u.prev = t.prev /\ u.next = t.next /\ u.tail = t.tail /\ u.blockedByBuf = t.blockedByBuf
SameRows(t, u) ==
  /\ u.permittedProgPage = t.permittedProgPage
  /\ u.blockedReadReqCnt = t.blockedReadReqCnt
  /\ u.blockedEraseReqFlag = t.blockedEraseReqFlag
SameTurns(t, u) == u.way = t.way /\ u.retryLimit = t.retryLimit

\* The requests of the client.
LEMMA RequestParts ==
  ASSUME NEW r \in Request
  PROVE  /\ r # NONE
         /\ IsDma(r) => r \in DmaRequest /\ r.entry \in Entry
         /\ ~IsDma(r) =>
              /\ r.die \in Die /\ r.block \in Block
              /\ r.code \in {"READ", "READ_TRANSFER", "WRITE", "ERASE"}
              /\ r.code # "ERASE" => r \in PageRequest /\ r.entry \in Entry /\ r.page \in 0..Pages-1
              /\ r.code = "ERASE" => r \in EraseRequest /\ r.entry = NONE /\ r.programmedPageCnt = Pages
BY ClientAssumption DEF Request, PageRequest, EraseRequest, IsDma

\* PutToNandReqQ appends to the list of one die.
LEMMA NandFacts ==
  ASSUME NEW t \in Tables, NEW s \in Slot, NEW d \in Die, t.pool[s].die = d,
         NEW u, u = PutToNandReqQ(t, s)
  PROVE  /\ u \in Tables /\ u.pool = t.pool
         /\ u.nand = [t.nand EXCEPT ![d] = Append(@, s)]
         /\ u.blockedByRow = t.blockedByRow /\ u.nvmeDma = t.nvmeDma
         /\ SameChains(t, u) /\ SameRows(t, u) /\ SameTurns(t, u)
<1>1. Append(t.nand[d], s) \in Seq(Slot)
  BY TableTypes, AppendFacts
<1>2. PICK x \in [Die -> Seq(Slot)] : x = [t.nand EXCEPT ![d] = Append(@, s)]
  BY <1>1, TableTypes
<1>3. u = [t EXCEPT !.nand = x]
  BY <1>2 DEF PutToNandReqQ
<1> QED
  BY <1>2, <1>3 DEF Tables, SameChains, SameRows, SameTurns

\* PutToBlockedByRow appends to the other list of one die.
LEMMA RowListFacts ==
  ASSUME NEW t \in Tables, NEW s \in Slot, NEW d \in Die, t.pool[s].die = d,
         NEW u, u = PutToBlockedByRow(t, s)
  PROVE  /\ u \in Tables /\ u.pool = t.pool
         /\ u.blockedByRow = [t.blockedByRow EXCEPT ![d] = Append(@, s)]
         /\ u.nand = t.nand /\ u.nvmeDma = t.nvmeDma
         /\ SameChains(t, u) /\ SameRows(t, u) /\ SameTurns(t, u)
<1>1. Append(t.blockedByRow[d], s) \in Seq(Slot)
  BY TableTypes, AppendFacts
<1>2. PICK x \in [Die -> Seq(Slot)] : x = [t.blockedByRow EXCEPT ![d] = Append(@, s)]
  BY <1>1, TableTypes
<1>3. u = [t EXCEPT !.blockedByRow = x]
  BY <1>2 DEF PutToBlockedByRow
<1> QED
  BY <1>2, <1>3 DEF Tables, SameChains, SameRows, SameTurns

\* One cell of one of the row dependency table's columns is set.
WithNext(t, d, b, v) == [t EXCEPT !.permittedProgPage[d][b] = v]
WithCount(t, d, b, v) == [t EXCEPT !.blockedReadReqCnt[d][b] = v]
WithFlag(t, d, b, v) == [t EXCEPT !.blockedEraseReqFlag[d][b] = v]

LEMMA SetNext ==
  ASSUME NEW t \in Tables, NEW d \in Die, NEW b \in Block, NEW v \in 0..Pages,
         NEW u, u = WithNext(t, d, b, v)
  PROVE  /\ u \in Tables /\ u.pool = t.pool
         /\ SameQueues(t, u) /\ SameChains(t, u) /\ SameTurns(t, u)
         /\ u.blockedReadReqCnt = t.blockedReadReqCnt
         /\ u.blockedEraseReqFlag = t.blockedEraseReqFlag
         /\ \A x \in Die, y \in Block :
              u.permittedProgPage[x][y] = IF x = d /\ y = b THEN v ELSE t.permittedProgPage[x][y]
<1>1. PICK f : f = t.permittedProgPage
  OBVIOUS
<1>2. f \in [Die -> [Block -> 0..Pages]]
  BY <1>1, TableTypes
<1>3. PICK x : x = [f EXCEPT ![d][b] = v]
  OBVIOUS
<1>4. x \in [Die -> [Block -> 0..Pages]]
  BY <1>2, <1>3
<1>5. \A c \in Die, y \in Block : x[c][y] = IF c = d /\ y = b THEN v ELSE f[c][y]
  BY <1>2, <1>3
<1>6. u = [t EXCEPT !.permittedProgPage = x]
  BY <1>1, <1>3 DEF WithNext
<1>7. u \in Tables /\ u.permittedProgPage = x
  BY <1>4, <1>6 DEF Tables
<1>8. /\ u.pool = t.pool /\ SameQueues(t, u) /\ SameChains(t, u) /\ SameTurns(t, u)
      /\ u.blockedReadReqCnt = t.blockedReadReqCnt
      /\ u.blockedEraseReqFlag = t.blockedEraseReqFlag
  BY <1>4, <1>6 DEF Tables, SameQueues, SameChains, SameTurns
<1> QED
  BY <1>1, <1>5, <1>7, <1>8

LEMMA SetCount ==
  ASSUME NEW t \in Tables, NEW d \in Die, NEW b \in Block, NEW v \in Int,
         NEW u, u = WithCount(t, d, b, v)
  PROVE  /\ u \in Tables /\ u.pool = t.pool
         /\ SameQueues(t, u) /\ SameChains(t, u) /\ SameTurns(t, u)
         /\ u.permittedProgPage = t.permittedProgPage
         /\ u.blockedEraseReqFlag = t.blockedEraseReqFlag
         /\ \A x \in Die, y \in Block :
              u.blockedReadReqCnt[x][y] = IF x = d /\ y = b THEN v ELSE t.blockedReadReqCnt[x][y]
<1>1. PICK f : f = t.blockedReadReqCnt
  OBVIOUS
<1>2. f \in [Die -> [Block -> Int]]
  BY <1>1, TableTypes
<1>3. PICK x : x = [f EXCEPT ![d][b] = v]
  OBVIOUS
<1>4. x \in [Die -> [Block -> Int]]
  BY <1>2, <1>3
<1>5. \A c \in Die, y \in Block : x[c][y] = IF c = d /\ y = b THEN v ELSE f[c][y]
  BY <1>2, <1>3
<1>6. u = [t EXCEPT !.blockedReadReqCnt = x]
  BY <1>1, <1>3 DEF WithCount
<1>7. u \in Tables /\ u.blockedReadReqCnt = x
  BY <1>4, <1>6 DEF Tables
<1>8. /\ u.pool = t.pool /\ SameQueues(t, u) /\ SameChains(t, u) /\ SameTurns(t, u)
      /\ u.permittedProgPage = t.permittedProgPage
      /\ u.blockedEraseReqFlag = t.blockedEraseReqFlag
  BY <1>4, <1>6 DEF Tables, SameQueues, SameChains, SameTurns
<1> QED
  BY <1>1, <1>5, <1>7, <1>8

LEMMA SetFlag ==
  ASSUME NEW t \in Tables, NEW d \in Die, NEW b \in Block, NEW v \in BOOLEAN,
         NEW u, u = WithFlag(t, d, b, v)
  PROVE  /\ u \in Tables /\ u.pool = t.pool
         /\ SameQueues(t, u) /\ SameChains(t, u) /\ SameTurns(t, u)
         /\ u.permittedProgPage = t.permittedProgPage
         /\ u.blockedReadReqCnt = t.blockedReadReqCnt
         /\ \A x \in Die, y \in Block :
              u.blockedEraseReqFlag[x][y] = IF x = d /\ y = b THEN v ELSE t.blockedEraseReqFlag[x][y]
<1>1. PICK f : f = t.blockedEraseReqFlag
  OBVIOUS
<1>2. f \in [Die -> [Block -> BOOLEAN]]
  BY <1>1, TableTypes
<1>3. PICK x : x = [f EXCEPT ![d][b] = v]
  OBVIOUS
<1>4. x \in [Die -> [Block -> BOOLEAN]]
  BY <1>2, <1>3
<1>5. \A c \in Die, y \in Block : x[c][y] = IF c = d /\ y = b THEN v ELSE f[c][y]
  BY <1>2, <1>3
<1>6. u = [t EXCEPT !.blockedEraseReqFlag = x]
  BY <1>1, <1>3 DEF WithFlag
<1>7. u \in Tables /\ u.blockedEraseReqFlag = x
  BY <1>4, <1>6 DEF Tables
<1>8. /\ u.pool = t.pool /\ SameQueues(t, u) /\ SameChains(t, u) /\ SameTurns(t, u)
      /\ u.permittedProgPage = t.permittedProgPage
      /\ u.blockedReadReqCnt = t.blockedReadReqCnt
  BY <1>4, <1>6 DEF Tables, SameQueues, SameChains, SameTurns
<1> QED
  BY <1>1, <1>5, <1>7, <1>8

\* What a step leaves alone that is about block b of die d.
RowOnly(t, u, d, b) ==
  \A x \in Die, y \in Block : x # d \/ y # b =>
    /\ u.permittedProgPage[x][y] = t.permittedProgPage[x][y]
    /\ u.blockedReadReqCnt[x][y] = t.blockedReadReqCnt[x][y]
    /\ u.blockedEraseReqFlag[x][y] = t.blockedEraseReqFlag[x][y]

\* permittedProgPage of its block after r is let through.
NextAfter(t, r) ==
  IF r.code = "WRITE" THEN t.permittedProgPage[r.die][r.block] + 1
  ELSE IF r.code = "ERASE" THEN 0 ELSE t.permittedProgPage[r.die][r.block]

\* LetThrough changes the next page and the flag of the block of r only.
LEMMA LetThroughFacts ==
  ASSUME NEW t \in Tables, NEW r \in Request, ~IsDma(r), NEW d, NEW b, d = r.die, b = r.block,
         Permitted(t, r), NEW u, u = LetThrough(t, r)
  PROVE  /\ u \in Tables /\ u.pool = t.pool
         /\ SameQueues(t, u) /\ SameChains(t, u) /\ SameTurns(t, u)
         /\ RowOnly(t, u, d, b) /\ u.permittedProgPage[d][b] = NextAfter(t, r)
         /\ u.blockedReadReqCnt[d][b] = t.blockedReadReqCnt[d][b]
         /\ u.blockedEraseReqFlag[d][b] <=> r.code # "ERASE" /\ t.blockedEraseReqFlag[d][b]
<1>1. d \in Die /\ b \in Block /\ t.blockedEraseReqFlag[d][b] \in BOOLEAN
  BY RequestParts, TableTypes
<1>2. CASE r.code = "WRITE"
  <2>1. r.page = t.permittedProgPage[d][b] /\ r.page \in 0..Pages-1
    BY <1>2, RequestParts DEF Permitted
  <2>2. PICK v \in 0..Pages : v = t.permittedProgPage[d][b] + 1
    BY <2>1, ClientAssumption
  <2>3. u = WithNext(t, d, b, v)
    BY <1>2, <2>2 DEF LetThrough, WithNext
  <2>4. NextAfter(t, r) = v
    BY <1>2, <2>2 DEF NextAfter
  <2>5. /\ u \in Tables /\ u.pool = t.pool
        /\ SameQueues(t, u) /\ SameChains(t, u) /\ SameTurns(t, u)
        /\ u.blockedReadReqCnt = t.blockedReadReqCnt
        /\ u.blockedEraseReqFlag = t.blockedEraseReqFlag
        /\ \A x \in Die, y \in Block :
             u.permittedProgPage[x][y] = IF x = d /\ y = b THEN v ELSE t.permittedProgPage[x][y]
    BY <1>1, <2>3, SetNext
  <2> QED
    BY <1>1, <1>2, <2>4, <2>5 DEF RowOnly
<1>3. CASE r.code = "ERASE"
  <2>1. 0 \in 0..Pages /\ FALSE \in BOOLEAN
    BY ClientAssumption
  <2>2. PICK m : m = WithNext(t, d, b, 0)
    OBVIOUS
  <2>3. PICK v \in BOOLEAN : v = FALSE
    OBVIOUS
  <2>4. u = WithFlag(m, d, b, v)
    BY <1>3, <2>2, <2>3 DEF LetThrough, WithNext, WithFlag, Tables
  <2>5. /\ m \in Tables /\ m.pool = t.pool
        /\ SameQueues(t, m) /\ SameChains(t, m) /\ SameTurns(t, m)
        /\ m.blockedReadReqCnt = t.blockedReadReqCnt
        /\ m.blockedEraseReqFlag = t.blockedEraseReqFlag
        /\ \A x \in Die, y \in Block :
             m.permittedProgPage[x][y] = IF x = d /\ y = b THEN 0 ELSE t.permittedProgPage[x][y]
    BY <1>1, <2>1, <2>2, SetNext
  <2>6. /\ u \in Tables /\ u.pool = m.pool
        /\ SameQueues(m, u) /\ SameChains(m, u) /\ SameTurns(m, u)
        /\ u.permittedProgPage = m.permittedProgPage
        /\ u.blockedReadReqCnt = m.blockedReadReqCnt
        /\ \A x \in Die, y \in Block :
             u.blockedEraseReqFlag[x][y] =
               IF x = d /\ y = b THEN v ELSE m.blockedEraseReqFlag[x][y]
    <3>1. m \in Tables /\ d \in Die /\ b \in Block /\ u = WithFlag(m, d, b, v)
      BY <1>1, <2>4, <2>5
    <3> QED
      BY <3>1, SetFlag
  <2>7. NextAfter(t, r) = 0
    BY <1>3 DEF NextAfter
  <2>8. SameQueues(t, u) /\ SameChains(t, u) /\ SameTurns(t, u) /\ u.pool = t.pool
    BY <2>5, <2>6 DEF SameQueues, SameChains, SameTurns
  <2>9. /\ u.permittedProgPage[d][b] = 0 /\ ~u.blockedEraseReqFlag[d][b]
        /\ u.blockedReadReqCnt[d][b] = t.blockedReadReqCnt[d][b]
    BY <1>1, <2>3, <2>5, <2>6
  <2>10. RowOnly(t, u, d, b)
    BY <2>5, <2>6 DEF RowOnly
  <2> QED
    BY <1>3, <2>6, <2>7, <2>8, <2>9, <2>10
<1>4. CASE r.code \notin {"WRITE", "ERASE"}
  <2>1. u = t
    BY <1>4 DEF LetThrough
  <2> QED
    BY <1>1, <1>4, <2>1 DEF RowOnly, NextAfter, SameQueues, SameChains, SameTurns
<1> QED
  BY <1>2, <1>3, <1>4

\* HoldUp changes the count and the flag of the block of r only.
LEMMA HoldUpFacts ==
  ASSUME NEW t \in Tables, NEW r \in Request, ~IsDma(r), NEW d, NEW b, d = r.die, b = r.block,
         NEW u, u = HoldUp(t, r)
  PROVE  /\ u \in Tables /\ u.pool = t.pool
         /\ SameQueues(t, u) /\ SameChains(t, u) /\ SameTurns(t, u)
         /\ RowOnly(t, u, d, b) /\ u.permittedProgPage[d][b] = t.permittedProgPage[d][b]
         /\ u.blockedReadReqCnt[d][b] =
              IF r.code = "READ" THEN t.blockedReadReqCnt[d][b] + 1 ELSE t.blockedReadReqCnt[d][b]
         /\ u.blockedEraseReqFlag[d][b] <=> r.code = "ERASE" \/ t.blockedEraseReqFlag[d][b]
<1>1. /\ d \in Die /\ b \in Block /\ t.blockedEraseReqFlag[d][b] \in BOOLEAN
      /\ t.blockedReadReqCnt[d][b] \in Int
  BY RequestParts, TableTypes
<1>2. CASE r.code = "READ"
  <2>1. PICK v \in Int : v = t.blockedReadReqCnt[d][b] + 1
    BY <1>1
  <2>2. u = WithCount(t, d, b, v)
    BY <1>2, <2>1 DEF HoldUp, WithCount
  <2> QED
    <3>1. /\ u \in Tables /\ u.pool = t.pool
          /\ SameQueues(t, u) /\ SameChains(t, u) /\ SameTurns(t, u)
          /\ u.permittedProgPage = t.permittedProgPage
          /\ u.blockedEraseReqFlag = t.blockedEraseReqFlag
          /\ \A x \in Die, y \in Block :
               u.blockedReadReqCnt[x][y] = IF x = d /\ y = b THEN v ELSE t.blockedReadReqCnt[x][y]
      BY <1>1, <2>2, SetCount
    <3> QED
      BY <1>1, <1>2, <2>1, <3>1 DEF RowOnly
<1>3. CASE r.code = "ERASE"
  <2>1. PICK v \in BOOLEAN : v = TRUE
    OBVIOUS
  <2>2. u = WithFlag(t, d, b, v)
    BY <1>3, <2>1 DEF HoldUp, WithFlag
  <2> QED
    <3>1. /\ u \in Tables /\ u.pool = t.pool
          /\ SameQueues(t, u) /\ SameChains(t, u) /\ SameTurns(t, u)
          /\ u.permittedProgPage = t.permittedProgPage
          /\ u.blockedReadReqCnt = t.blockedReadReqCnt
          /\ \A x \in Die, y \in Block :
               u.blockedEraseReqFlag[x][y] =
                 IF x = d /\ y = b THEN v ELSE t.blockedEraseReqFlag[x][y]
      BY <1>1, <2>2, SetFlag
    <3> QED
      BY <1>1, <1>3, <2>1, <3>1 DEF RowOnly
<1>4. CASE r.code \notin {"READ", "ERASE"}
  <2>1. u = t
    BY <1>4 DEF HoldUp
  <2> QED
    BY <1>1, <1>4, <2>1 DEF RowOnly, SameQueues, SameChains, SameTurns
<1> QED
  BY <1>2, <1>3, <1>4

\* The request in slot s, held up in t, is with its die in u.
LetGo(t, u, s, r) ==
  /\ u \in Tables /\ u.pool = t.pool /\ u.nvmeDma = t.nvmeDma
  /\ u.nand = [t.nand EXCEPT ![r.die] = Append(@, s)]
  /\ RowOnly(t, u, r.die, r.block)
  /\ u.permittedProgPage[r.die][r.block] = NextAfter(t, r)
  /\ u.blockedReadReqCnt[r.die][r.block] =
       IF r.code = "READ" THEN t.blockedReadReqCnt[r.die][r.block] - 1
       ELSE t.blockedReadReqCnt[r.die][r.block]
  /\ u.blockedEraseReqFlag[r.die][r.block] <=>
       r.code # "ERASE" /\ t.blockedEraseReqFlag[r.die][r.block]

\* What is let through from either list: the count of reads is taken down.
LEMMA ReleaseLetsGo ==
  ASSUME NEW t \in Tables, NEW s \in Slot, t.pool[s] \in Request, ~IsDma(t.pool[s]),
         Permitted(t, t.pool[s]), NEW u, u = ReleaseRow(t, s)
  PROVE  /\ LetGo(t, u, s, t.pool[s]) /\ u.blockedByRow = t.blockedByRow
         /\ SameChains(t, u) /\ SameTurns(t, u)
<1>0. PICK r \in Request : r = t.pool[s]
  OBVIOUS
<1>a. PICK d, b : d = r.die /\ b = r.block
  OBVIOUS
<1>b. ~IsDma(r) /\ Permitted(t, r)
  BY <1>0
<1>1. d \in Die /\ b \in Block
  BY <1>a, <1>b, RequestParts
<1>2. PICK m : m = LetThrough(t, r)
  OBVIOUS
<1>3. /\ m \in Tables /\ m.pool = t.pool
      /\ SameQueues(t, m) /\ SameChains(t, m) /\ SameTurns(t, m)
      /\ RowOnly(t, m, d, b) /\ m.permittedProgPage[d][b] = NextAfter(t, r)
      /\ m.blockedReadReqCnt[d][b] = t.blockedReadReqCnt[d][b]
      /\ m.blockedEraseReqFlag[d][b] <=> r.code # "ERASE" /\ t.blockedEraseReqFlag[d][b]
  <2>1. /\ m \in Tables /\ m.pool = t.pool
        /\ SameQueues(t, m) /\ SameChains(t, m) /\ SameTurns(t, m)
        /\ RowOnly(t, m, d, b) /\ m.permittedProgPage[d][b] = NextAfter(t, r)
        /\ m.blockedReadReqCnt[d][b] = t.blockedReadReqCnt[d][b]
    BY <1>a, <1>b, <1>2, LetThroughFacts
  <2>2. m.blockedEraseReqFlag[d][b] <=> r.code # "ERASE" /\ t.blockedEraseReqFlag[d][b]
    BY <1>a, <1>b, <1>2, LetThroughFacts
  <2> QED
    BY <2>1, <2>2
<1>4. PICK n : n = NoLongerHeldUp(m, r)
  OBVIOUS
<1>5. /\ n \in Tables /\ n.pool = m.pool
      /\ SameQueues(m, n) /\ SameChains(m, n) /\ SameTurns(m, n)
      /\ n.permittedProgPage = m.permittedProgPage
      /\ n.blockedEraseReqFlag = m.blockedEraseReqFlag
      /\ \A x \in Die, y \in Block :
           n.blockedReadReqCnt[x][y] =
             IF x = d /\ y = b /\ r.code = "READ" THEN m.blockedReadReqCnt[x][y] - 1
             ELSE m.blockedReadReqCnt[x][y]
  <2>1. CASE r.code = "READ"
    <3>1. m.blockedReadReqCnt[d][b] \in Int
      BY <1>1, <1>3, TableTypes
    <3>2. PICK v \in Int : v = m.blockedReadReqCnt[d][b] - 1
      BY <3>1
    <3>3. n = WithCount(m, d, b, v)
      BY <1>a, <1>4, <2>1, <3>2 DEF NoLongerHeldUp, WithCount
    <3> QED
      <4>1. /\ n \in Tables /\ n.pool = m.pool
            /\ SameQueues(m, n) /\ SameChains(m, n) /\ SameTurns(m, n)
            /\ n.permittedProgPage = m.permittedProgPage
            /\ n.blockedEraseReqFlag = m.blockedEraseReqFlag
            /\ \A x \in Die, y \in Block :
                 n.blockedReadReqCnt[x][y] =
                   IF x = d /\ y = b THEN v ELSE m.blockedReadReqCnt[x][y]
        <5>1. m \in Tables
          BY <1>3
        <5> QED
          BY <1>1, <3>3, <5>1, SetCount
      <4> QED
        BY <2>1, <3>2, <4>1
  <2>2. CASE r.code # "READ"
    <3>1. n = m
      BY <1>4, <2>2 DEF NoLongerHeldUp
    <3> QED
      BY <1>3, <2>2, <3>1 DEF SameQueues, SameChains, SameTurns
  <2> QED
    BY <2>1, <2>2
<1>6. u = PutToNandReqQ(n, s) /\ n.pool[s].die = d
  BY <1>0, <1>a, <1>2, <1>3, <1>4, <1>5 DEF ReleaseRow
<1>7. /\ u \in Tables /\ u.pool = n.pool
      /\ u.nand = [n.nand EXCEPT ![d] = Append(@, s)]
      /\ u.blockedByRow = n.blockedByRow /\ u.nvmeDma = n.nvmeDma
      /\ SameChains(n, u) /\ SameRows(n, u) /\ SameTurns(n, u)
  BY <1>1, <1>5, <1>6, NandFacts
<1>8. /\ u.permittedProgPage[d][b] = NextAfter(t, r)
      /\ u.blockedEraseReqFlag[d][b] <=> r.code # "ERASE" /\ t.blockedEraseReqFlag[d][b]
      /\ u.blockedReadReqCnt[d][b] =
           IF r.code = "READ" THEN t.blockedReadReqCnt[d][b] - 1 ELSE t.blockedReadReqCnt[d][b]
  <2>1. /\ n.permittedProgPage[d][b] = NextAfter(t, r)
        /\ n.blockedEraseReqFlag[d][b] <=> r.code # "ERASE" /\ t.blockedEraseReqFlag[d][b]
    BY <1>3, <1>5
  <2>2. n.blockedReadReqCnt[d][b] =
          IF r.code = "READ" THEN t.blockedReadReqCnt[d][b] - 1 ELSE t.blockedReadReqCnt[d][b]
    <3>1. /\ m.blockedReadReqCnt[d][b] = t.blockedReadReqCnt[d][b]
          /\ n.blockedReadReqCnt[d][b] =
               IF r.code = "READ" THEN m.blockedReadReqCnt[d][b] - 1 ELSE m.blockedReadReqCnt[d][b]
      <4>1. \A x \in Die, y \in Block :
              n.blockedReadReqCnt[x][y] =
                IF x = d /\ y = b /\ r.code = "READ" THEN m.blockedReadReqCnt[x][y] - 1
                ELSE m.blockedReadReqCnt[x][y]
        BY <1>5
      <4>2. m.blockedReadReqCnt[d][b] = t.blockedReadReqCnt[d][b]
        BY <1>3
      <4> QED
        BY <1>1, <4>1, <4>2
    <3> QED
      BY <3>1
  <2> QED
    BY <2>1, <2>2, <1>7 DEF SameRows
<1>11. RowOnly(t, u, d, b)
  <2>1. RowOnly(t, n, d, b)
    <3> SUFFICES ASSUME NEW x \in Die, NEW y \in Block, x # d \/ y # b
                 PROVE  /\ n.permittedProgPage[x][y] = t.permittedProgPage[x][y]
                        /\ n.blockedReadReqCnt[x][y] = t.blockedReadReqCnt[x][y]
                        /\ n.blockedEraseReqFlag[x][y] = t.blockedEraseReqFlag[x][y]
      BY DEF RowOnly
    <3>1. n.permittedProgPage[x][y] = t.permittedProgPage[x][y]
      BY <1>3, <1>5 DEF RowOnly
    <3>2. n.blockedReadReqCnt[x][y] = t.blockedReadReqCnt[x][y]
      BY <1>3, <1>5 DEF RowOnly
    <3>3. n.blockedEraseReqFlag[x][y] = t.blockedEraseReqFlag[x][y]
      BY <1>3, <1>5 DEF RowOnly
    <3> QED
      BY <3>1, <3>2, <3>3
  <2> QED
    BY <2>1, <1>7 DEF RowOnly, SameRows
<1>9. /\ u.pool = t.pool /\ u.nand = [t.nand EXCEPT ![d] = Append(@, s)]
      /\ u.blockedByRow = t.blockedByRow /\ u.nvmeDma = t.nvmeDma
  <2>1. n.pool = t.pool /\ n.nand = t.nand /\ n.blockedByRow = t.blockedByRow /\ n.nvmeDma = t.nvmeDma
    BY <1>3, <1>5 DEF SameQueues
  <2> QED
    BY <2>1, <1>7
<1>10. SameChains(t, u) /\ SameTurns(t, u)
  BY <1>3, <1>5, <1>7 DEF SameChains, SameTurns
<1>12. LetGo(t, u, s, r)
  BY <1>a, <1>7, <1>8, <1>9, <1>11 DEF LetGo
<1> QED
  BY <1>0, <1>9, <1>10, <1>12
-----------------------------------------------------------------------------
LEMMA HeldFinite ==
  ASSUME NEW t, NEW H \in SUBSET Slot, NEW c, NEW d, NEW b
  PROVE  /\ IsFiniteSet(HeldOn(t, H, c, d, b)) /\ HeldOn(t, H, c, d, b) \subseteq H
         /\ Cardinality(HeldOn(t, H, c, d, b)) = 0 <=> HeldOn(t, H, c, d, b) = {}
<1>1. 1 \in Int /\ SLOTS \in Int
  BY ClientAssumption
<1>2. IsFiniteSet(Slot)
  BY <1>1, FS_Interval DEF Slot
<1>3. HeldOn(t, H, c, d, b) \subseteq H /\ HeldOn(t, H, c, d, b) \subseteq Slot
  BY DEF HeldOn
<1>4. IsFiniteSet(HeldOn(t, H, c, d, b))
  BY <1>2, <1>3, FS_Subset
<1> QED
  BY <1>3, <1>4, FS_EmptySet

\* An outstanding slot holds a request.
LEMMA ListedFacts ==
  ASSUME NEW t \in Tables, NEW acc, Listed(t, acc)
  PROVE  /\ acc \in Seq(Slot) /\ Distinct(acc) /\ ToSet(acc) \subseteq Slot
         /\ \A s \in ToSet(acc) : t.pool[s] \in Request /\ t.pool[s] # NONE
<1>1. acc \in Seq(Slot) /\ Distinct(acc) /\ \A s \in Slot : t.pool[s] # NONE <=> s \in ToSet(acc)
  BY DEF Listed
<1>2. ToSet(acc) \subseteq Slot
  BY <1>1, LenProperties DEF ToSet
<1>3. t.pool \in [Slot -> Request \cup {NONE}]
  BY TableTypes
<1> QED
  BY <1>1, <1>2, <1>3

\* What is held up on the block of one of the held-up requests.
LEMMA BlockFacts ==
  ASSUME NEW t \in Tables, NEW acc, Listed(t, acc), NEW H, Placed(t, acc, H),
         NEW d \in Die, NEW b \in Block, NEW c, NEW x \in HeldOn(t, H, c, d, b)
  PROVE  /\ x \in H /\ x \in ToSet(acc) /\ x \in Slot /\ t.pool[x] \in Request
         /\ t.pool[x].code = c /\ t.pool[x].die = d /\ t.pool[x].block = b
         /\ c \in {"READ", "WRITE"} => t.pool[x].page \in 0..Pages-1
<1>1. x \in H /\ t.pool[x].code = c /\ t.pool[x].die = d /\ t.pool[x].block = b
  BY DEF HeldOn
<1>2. x \in ToSet(acc)
  BY <1>1 DEF Placed
<1>3. x \in Slot /\ t.pool[x] \in Request
  BY <1>2, ListedFacts
<1>4. c \in {"READ", "WRITE"} => ~IsDma(t.pool[x]) /\ t.pool[x].code # "ERASE"
  BY <1>1 DEF IsDma
<1> QED
  BY <1>1, <1>2, <1>3, <1>4, RequestParts

\* No request that conflicts with one that is let through was held up before it.
LEMMA FirstOfConflicting ==
  ASSUME NEW t \in Tables, NEW acc, Listed(t, acc), NEW w \in [Die -> [Block -> 0..Pages]],
         NEW H, RowInv(t, acc, w, H),
         NEW s \in H, ~IsDma(t.pool[s]), Permitted(t, t.pool[s]),
         NEW x \in H, RowConflict(t.pool[x], t.pool[s])
  PROVE  ~Before(acc, x, s)
<1>1. /\ s \in ToSet(acc) /\ s \in Slot /\ t.pool[s] \in Request
      /\ x \in ToSet(acc) /\ x \in Slot /\ t.pool[x] \in Request
  BY ListedFacts DEF RowInv, Placed
<1>2. PICK r \in Request : r = t.pool[s]
  BY <1>1
<1>3. PICK d \in Die, b \in Block : d = r.die /\ b = r.block
  BY <1>2, RequestParts
<1>4. PICK E, W, R : /\ E = HeldOn(t, H, "ERASE", d, b) /\ W = HeldOn(t, H, "WRITE", d, b)
                     /\ R = HeldOn(t, H, "READ", d, b)
  OBVIOUS
<1>5. PICK next \in 0..Pages, pages \in 0..Pages :
        next = t.permittedProgPage[d][b] /\ pages = w[d][b]
  BY TableTypes
<1>6. WritesAt(t.pool, acc, next, pages, E, W) /\ ReadsAt(t.pool, acc, pages, E, W, R)
  BY <1>4, <1>5 DEF RowInv, RowsFit
<1>7. \A y \in E \cup W \cup R : y \in ToSet(acc)
  BY <1>4, BlockFacts DEF RowInv
<1>8. \A y \in W \cup R : t.pool[y].page \in 0..Pages-1
  BY <1>4, BlockFacts DEF RowInv
<1>9. /\ \A y, z \in ToSet(acc) : ~(Before(acc, y, z) /\ Before(acc, z, y))
      /\ \A y, z, v \in ToSet(acc) : Before(acc, y, z) /\ Before(acc, z, v) => Before(acc, y, v)
  BY ListedFacts, BeforeOrder
<1>10. t.pool[x].die = d /\ t.pool[x].block = b /\ t.pool[x].code \in {"READ", "WRITE", "ERASE"}
  <2>1. ~IsDma(t.pool[x]) /\ t.pool[x].die = d /\ t.pool[x].block = b
    BY <1>2, <1>3 DEF RowConflict
  <2>2. t.pool[x].code # "READ_TRANSFER"
    BY DEF RowInv, Placed
  <2> QED
    BY <1>1, <2>1, <2>2, RequestParts
<1>11. r.code \in {"READ", "WRITE", "ERASE"}
  <2>1. r.code # "READ_TRANSFER" /\ ~IsDma(r)
    BY <1>2 DEF RowInv, Placed
  <2> QED
    BY <2>1, RequestParts
<1>12. CASE r.code = "WRITE"
  <2>1. r.page = next /\ s \in W
    BY <1>2, <1>3, <1>4, <1>5, <1>12 DEF Permitted, HeldOn
  <2>2. \A e \in E : Before(acc, s, e)
    BY <1>2, <1>6, <1>8, <2>1, ClientAssumption DEF WritesAt
  <2>3. CASE t.pool[x].code = "ERASE"
    <3>1. x \in E
      BY <1>4, <1>10, <2>3 DEF HeldOn
    <3> QED
      BY <1>1, <1>9, <2>2, <3>1
  <2>4. CASE t.pool[x].code = "WRITE"
    <3>1. x \in W
      BY <1>4, <1>10, <2>4 DEF HeldOn
    <3>2. SUFFICES ASSUME Before(acc, x, s) PROVE FALSE
      OBVIOUS
    <3>3. t.pool[x].page < next
      BY <1>2, <1>6, <2>1, <3>1, <3>2 DEF WritesAt
    <3>4. ASSUME NEW e \in E PROVE Before(acc, x, e) /\ ~Before(acc, e, x)
      BY <1>1, <1>7, <1>9, <2>2, <3>2
    <3>5. next <= t.pool[x].page
      BY <1>6, <3>1, <3>4 DEF WritesAt
    <3> QED
      BY <1>8, <3>1, <3>3, <3>5
  <2>5. CASE t.pool[x].code = "READ"
    <3>1. x \in R /\ t.pool[x].page = t.pool[s].page
      BY <1>2, <1>4, <1>10, <1>12, <2>5 DEF HeldOn, RowConflict, IsRead
    <3>2. SUFFICES ASSUME Before(acc, x, s) PROVE FALSE
      OBVIOUS
    <3>3. PICK e \in E : Before(acc, e, s)
      BY <1>6, <2>1, <3>1, <3>2 DEF ReadsAt
    <3> QED
      BY <1>1, <1>7, <1>9, <2>2, <3>3
  <2> QED
    BY <1>10, <2>3, <2>4, <2>5
<1>13. CASE r.code = "READ"
  <2>1. r.page < next /\ s \in R
    BY <1>2, <1>3, <1>4, <1>5, <1>13 DEF Permitted, HeldOn
  <2>2. \A e \in E : Before(acc, s, e)
    BY <1>6, <2>1 DEF ReadsAt
  <2>3. CASE t.pool[x].code = "ERASE"
    <3>1. x \in E
      BY <1>4, <1>10, <2>3 DEF HeldOn
    <3> QED
      BY <1>1, <1>9, <2>2, <3>1
  <2>4. CASE t.pool[x].code = "WRITE"
    <3>1. x \in W /\ t.pool[x].page = t.pool[s].page
      BY <1>2, <1>4, <1>10, <1>13, <2>4 DEF HeldOn, RowConflict, IsRead
    <3>2. SUFFICES ASSUME Before(acc, x, s) PROVE FALSE
      OBVIOUS
    <3>3. ASSUME NEW e \in E PROVE Before(acc, x, e) /\ ~Before(acc, e, x)
      BY <1>1, <1>7, <1>9, <2>2, <3>2
    <3>4. next <= t.pool[x].page
      BY <1>6, <3>1, <3>3 DEF WritesAt
    <3> QED
      BY <1>2, <1>8, <2>1, <3>1, <3>4
  <2>5. CASE t.pool[x].code = "READ"
    BY <1>2, <1>13, <2>5 DEF RowConflict
  <2> QED
    BY <1>10, <2>3, <2>4, <2>5
<1>14. CASE r.code = "ERASE"
  <2>1. next = Pages /\ s \in E /\ t.blockedReadReqCnt[d][b] = 0
    <3>1. r.programmedPageCnt = Pages
      BY <1>2, <1>14, RequestParts
    <3> QED
      BY <1>2, <1>3, <1>4, <1>5, <1>14, <3>1 DEF Permitted, HeldOn
  <2>2. R = {}
    <3>1. Cardinality(R) = 0
      BY <1>4, <2>1 DEF RowInv, Counted
    <3>2. H \in SUBSET Slot
      BY ListedFacts DEF RowInv, Placed
    <3> QED
      BY <1>4, <3>1, <3>2, HeldFinite
  <2>3. CASE t.pool[x].code = "ERASE"
    <3>1. x \in E
      BY <1>4, <1>10, <2>3 DEF HeldOn
    <3>2. x = s
      BY <1>4, <2>1, <3>1 DEF RowInv, Counted
    <3> QED
      BY <1>1, <1>9, <3>2
  <2>4. CASE t.pool[x].code = "WRITE"
    <3>1. x \in W
      BY <1>4, <1>10, <2>4 DEF HeldOn
    <3>2. SUFFICES ASSUME Before(acc, x, s) PROVE FALSE
      OBVIOUS
    <3>3. ~Before(acc, s, x)
      BY <1>1, <1>9, <3>2
    <3>4. next <= t.pool[x].page
      BY <1>6, <2>1, <3>1, <3>3 DEF WritesAt
    <3> QED
      BY <1>8, <2>1, <3>1, <3>4, ClientAssumption
  <2>5. CASE t.pool[x].code = "READ"
    BY <1>4, <1>10, <2>2, <2>5 DEF HeldOn
  <2> QED
    BY <1>10, <2>3, <2>4, <2>5
<1> QED
  BY <1>11, <1>12, <1>13, <1>14
-----------------------------------------------------------------------------
\* A request that is let go is behind all that it conflicts with, on its die.
LEMMA LetGoDelivered ==
  ASSUME NEW t \in Tables, NEW acc, Listed(t, acc), NEW w \in [Die -> [Block -> 0..Pages]],
         NEW H, RowInv(t, acc, w, H),
         NEW s \in H, ~IsDma(t.pool[s]), Permitted(t, t.pool[s]),
         NEW u, LetGo(t, u, s, t.pool[s])
  PROVE  Placed(u, acc, H \ {s}) /\ NandOrdered(u, acc)
<1>1. s \in ToSet(acc) /\ s \in Slot /\ t.pool[s] \in Request
  BY ListedFacts DEF RowInv, Placed
<1>2. PICK d \in Die : d = t.pool[s].die
  BY <1>1, RequestParts
<1>3. u.pool = t.pool /\ u.nvmeDma = t.nvmeDma
  BY DEF LetGo
<1>4. /\ t.nand \in [Die -> Seq(Slot)]
      /\ t.nand[d] \in Seq(Slot) /\ Distinct(t.nand[d]) /\ s \notin ToSet(t.nand[d])
  BY <1>1, <1>2, TableTypes DEF RowInv, Placed, OnDie
<1>5. PICK list, new : list = t.nand[d] /\ new = Append(list, s)
  OBVIOUS
<1>6. /\ new \in Seq(Slot) /\ Distinct(new) /\ ToSet(new) = ToSet(list) \cup {s}
      /\ Len(list) \in Nat
      /\ DOMAIN new = 1..Len(list)+1 /\ DOMAIN list = 1..Len(list)
      /\ \A i \in DOMAIN list : new[i] = list[i]
      /\ new[Len(list)+1] = s
  BY <1>1, <1>4, <1>5, AppendFacts
<1>7. u.nand[d] = new /\ \A x \in Die \ {d} : u.nand[x] = t.nand[x]
  BY <1>2, <1>4, <1>5 DEF LetGo
<1>8. Placed(u, acc, H \ {s})
  <2>1. /\ H \ {s} \subseteq ToSet(acc)
        /\ \A x \in H \ {s} : u.pool[x].code # "READ_TRANSFER"
        /\ Distinct(u.nvmeDma)
        /\ \A x \in ToSet(u.nvmeDma) : x \in ToSet(acc) /\ IsDma(u.pool[x])
    BY <1>3 DEF RowInv, Placed
  <2>2. \A x \in ToSet(acc) : IsDma(u.pool[x]) => (x \in ToSet(u.nvmeDma) <=> x \notin H \ {s})
    BY <1>3 DEF RowInv, Placed
  <2>3. ASSUME NEW x \in Die
        PROVE  /\ Distinct(u.nand[x])
               /\ \A y \in ToSet(u.nand[x]) : OnDie(u, acc, x, y)
               /\ \A y \in ToSet(acc) : OnDie(u, acc, x, y)
                    => (y \in ToSet(u.nand[x]) <=> y \notin H \ {s})
    <3>1. /\ Distinct(t.nand[x])
          /\ \A y \in ToSet(t.nand[x]) : OnDie(u, acc, x, y)
          /\ \A y \in ToSet(acc) : OnDie(u, acc, x, y)
               => (y \in ToSet(t.nand[x]) <=> y \notin H)
      BY <1>3 DEF RowInv, Placed, OnDie
    <3>2. CASE x = d
      <4>1. OnDie(u, acc, x, s)
        BY <1>1, <1>2, <1>3, <3>2 DEF OnDie
      <4> QED
        BY <1>5, <1>6, <1>7, <3>1, <3>2, <4>1
    <3>3. CASE x # d
      <4>1. ~OnDie(u, acc, x, s)
        BY <1>2, <1>3, <3>3 DEF OnDie
      <4> QED
        BY <1>7, <3>1, <3>3, <4>1
    <3> QED
      BY <3>2, <3>3
  <2> QED
    BY <2>1, <2>2, <2>3 DEF Placed
<1>9. NandOrdered(u, acc)
  <2> SUFFICES ASSUME NEW x \in Die, NEW j \in DOMAIN u.nand[x], NEW r \in ToSet(acc),
                      Before(acc, r, u.nand[x][j]),
                      RowConflict(u.pool[r], u.pool[u.nand[x][j]])
               PROVE  \E i \in DOMAIN u.nand[x] : i < j /\ u.nand[x][i] = r
    BY DEF NandOrdered
  <2>1. CASE x # d
    BY <1>3, <1>7, <2>1 DEF RowInv, NandOrdered
  <2>2. CASE x = d /\ j \in DOMAIN list
    <3>1. u.nand[x] = new /\ new[j] = list[j] /\ t.nand[x] = list
      BY <1>5, <1>6, <1>7, <2>2
    <3>2. Before(acc, r, t.nand[x][j]) /\ RowConflict(t.pool[r], t.pool[t.nand[x][j]])
      BY <1>3, <3>1
    <3>3. j \in DOMAIN t.nand[x]
      BY <2>2, <3>1
    <3>4. PICK i \in DOMAIN t.nand[x] : i < j /\ t.nand[x][i] = r
      BY <3>2, <3>3 DEF RowInv, NandOrdered
    <3>5. i \in DOMAIN list /\ i \in DOMAIN new /\ new[i] = r
      BY <1>6, <3>1, <3>4
    <3> QED
      BY <3>1, <3>4, <3>5
  <2>3. CASE x = d /\ j = Len(list)+1
    <3>1. Before(acc, r, s) /\ RowConflict(t.pool[r], t.pool[s])
      BY <1>3, <1>6, <1>7, <2>3
    <3>2. r \notin H
      BY <3>1, FirstOfConflicting
    <3>3. r \in ToSet(list)
      BY <1>2, <1>5, <3>1, <3>2 DEF RowInv, Placed, OnDie, RowConflict
    <3>4. PICK i \in DOMAIN list : list[i] = r
      BY <1>6, <3>3 DEF ToSet
    <3>5. i < j /\ i \in DOMAIN new
      BY <1>6, <2>3, <3>4
    <3> QED
      BY <1>6, <1>7, <2>3, <3>4, <3>5
  <2> QED
    BY <1>6, <1>7, <2>1, <2>2, <2>3
<1> QED
  BY <1>8, <1>9

\* It is held up no longer, and the table says so.
LEMMA LetGoCounted ==
  ASSUME NEW t \in Tables, NEW acc, Listed(t, acc), NEW w \in [Die -> [Block -> 0..Pages]],
         NEW H, RowInv(t, acc, w, H),
         NEW s \in H, ~IsDma(t.pool[s]), Permitted(t, t.pool[s]),
         NEW u, LetGo(t, u, s, t.pool[s])
  PROVE  Counted(u, H \ {s})
<1>1. s \in Slot /\ t.pool[s] \in Request /\ H \in SUBSET Slot
  BY ListedFacts DEF RowInv, Placed
<1>2. PICK r \in Request : r = t.pool[s]
  BY <1>1
<1>3. r.die \in Die /\ r.block \in Block
  BY <1>2, RequestParts
<1>4. u.pool = t.pool /\ RowOnly(t, u, r.die, r.block)
  BY <1>2 DEF LetGo
<1> SUFFICES ASSUME NEW d \in Die, NEW b \in Block
             PROVE  /\ u.blockedReadReqCnt[d][b] = Cardinality(HeldOn(u, H \ {s}, "READ", d, b))
                    /\ u.blockedEraseReqFlag[d][b] <=> HeldOn(u, H \ {s}, "ERASE", d, b) # {}
                    /\ \A e, f \in HeldOn(u, H \ {s}, "ERASE", d, b) : e = f
  BY DEF Counted
<1>5. PICK E, R : E = HeldOn(t, H, "ERASE", d, b) /\ R = HeldOn(t, H, "READ", d, b)
  OBVIOUS
<1>6. t.blockedReadReqCnt[d][b] = Cardinality(R)
  BY <1>5 DEF RowInv, Counted
<1>7. (t.blockedEraseReqFlag[d][b] <=> E # {}) /\ \A e, f \in E : e = f
  BY <1>5 DEF RowInv, Counted
<1>8. CASE r.die # d \/ r.block # b
  <2>1. HeldOn(u, H \ {s}, "ERASE", d, b) = E /\ HeldOn(u, H \ {s}, "READ", d, b) = R
    <3>1. u.pool = t.pool /\ (d # t.pool[s].die \/ b # t.pool[s].block)
      BY <1>2, <1>4, <1>8
    <3> QED
      BY <1>5, <3>1 DEF HeldOn
  <2>2. u.blockedReadReqCnt[d][b] = t.blockedReadReqCnt[d][b]
    BY <1>4, <1>8 DEF RowOnly
  <2>3. u.blockedEraseReqFlag[d][b] = t.blockedEraseReqFlag[d][b]
    BY <1>4, <1>8 DEF RowOnly
  <2> QED
    BY <1>6, <1>7, <2>1, <2>2, <2>3
<1>9. CASE r.die = d /\ r.block = b
  <2>1. /\ u.blockedReadReqCnt[d][b] =
             IF r.code = "READ" THEN t.blockedReadReqCnt[d][b] - 1 ELSE t.blockedReadReqCnt[d][b]
    BY <1>2, <1>9 DEF LetGo
  <2>2. u.blockedEraseReqFlag[d][b] <=> r.code # "ERASE" /\ t.blockedEraseReqFlag[d][b]
    BY <1>2, <1>9 DEF LetGo
  <2>3. /\ r.code = "ERASE" => s \in E /\ HeldOn(u, H \ {s}, "ERASE", d, b) = E \ {s}
        /\ r.code # "ERASE" => HeldOn(u, H \ {s}, "ERASE", d, b) = E
        /\ r.code = "READ" => s \in R /\ HeldOn(u, H \ {s}, "READ", d, b) = R \ {s}
        /\ r.code # "READ" => HeldOn(u, H \ {s}, "READ", d, b) = R
    <3>1. u.pool = t.pool /\ d = t.pool[s].die /\ b = t.pool[s].block /\ r = t.pool[s]
      BY <1>2, <1>4, <1>9
    <3> QED
      BY <1>5, <3>1 DEF HeldOn
  <2>5. u.blockedReadReqCnt[d][b] = Cardinality(HeldOn(u, H \ {s}, "READ", d, b))
    <3>1. CASE r.code = "READ"
      <4>1. IsFiniteSet(R)
        BY <1>1, <1>5, HeldFinite
      <4>2. Cardinality(R \ {s}) = Cardinality(R) - 1
        BY <2>3, <3>1, <4>1, FS_RemoveElement
      <4>3. HeldOn(u, H \ {s}, "READ", d, b) = R \ {s}
        BY <2>3, <3>1
      <4> QED
        BY <1>6, <2>1, <3>1, <4>2, <4>3
    <3>2. CASE r.code # "READ"
      BY <1>6, <2>1, <2>3, <3>2
    <3> QED
      BY <3>1, <3>2
  <2>6. (u.blockedEraseReqFlag[d][b] <=> HeldOn(u, H \ {s}, "ERASE", d, b) # {})
    <3>1. CASE r.code = "ERASE"
      BY <1>7, <2>2, <2>3, <3>1
    <3>2. CASE r.code # "ERASE"
      BY <1>7, <2>2, <2>3, <3>2
    <3> QED
      BY <3>1, <3>2
  <2>7. \A e, f \in HeldOn(u, H \ {s}, "ERASE", d, b) : e = f
    BY <1>7, <2>3
  <2> QED
    BY <2>5, <2>6, <2>7
<1> QED
  BY <1>8, <1>9

\* Those held up on its block fit the table that it leaves behind.
LEMMA LetGoFits ==
  ASSUME NEW t \in Tables, NEW acc, Listed(t, acc), NEW w \in [Die -> [Block -> 0..Pages]],
         NEW H, RowInv(t, acc, w, H),
         NEW s \in H, ~IsDma(t.pool[s]), Permitted(t, t.pool[s]),
         NEW u, LetGo(t, u, s, t.pool[s])
  PROVE  RowsFit(u, acc, w, H \ {s})
<1>1. s \in Slot /\ s \in ToSet(acc) /\ t.pool[s] \in Request /\ H \in SUBSET Slot
  BY ListedFacts DEF RowInv, Placed
<1>2. PICK r \in Request : r = t.pool[s]
  BY <1>1
<1>3. r.die \in Die /\ r.block \in Block
  BY <1>2, RequestParts
<1>4. u.pool = t.pool /\ RowOnly(t, u, r.die, r.block)
  BY <1>2 DEF LetGo
<1>5. r.code \in {"READ", "WRITE", "ERASE"}
  <2>1. r.code # "READ_TRANSFER" /\ ~IsDma(r)
    BY <1>2 DEF RowInv, Placed
  <2> QED
    BY <2>1, RequestParts
<1> SUFFICES ASSUME NEW d \in Die, NEW b \in Block
             PROVE  /\ WritesAt(u.pool, acc, u.permittedProgPage[d][b], w[d][b],
                                HeldOn(u, H \ {s}, "ERASE", d, b), HeldOn(u, H \ {s}, "WRITE", d, b))
                    /\ ReadsAt(u.pool, acc, w[d][b], HeldOn(u, H \ {s}, "ERASE", d, b),
                               HeldOn(u, H \ {s}, "WRITE", d, b), HeldOn(u, H \ {s}, "READ", d, b))
  BY DEF RowsFit
<1>6. PICK E, W, R : /\ E = HeldOn(t, H, "ERASE", d, b) /\ W = HeldOn(t, H, "WRITE", d, b)
                     /\ R = HeldOn(t, H, "READ", d, b)
  OBVIOUS
<1>7. PICK next \in 0..Pages, pages \in 0..Pages :
        next = t.permittedProgPage[d][b] /\ pages = w[d][b]
  BY TableTypes
<1>8. WritesAt(t.pool, acc, next, pages, E, W) /\ ReadsAt(t.pool, acc, pages, E, W, R)
  BY <1>6, <1>7 DEF RowInv, RowsFit
<1>9. CASE r.die # d \/ r.block # b
  <2>1. /\ HeldOn(u, H \ {s}, "ERASE", d, b) = E /\ HeldOn(u, H \ {s}, "READ", d, b) = R
        /\ HeldOn(u, H \ {s}, "WRITE", d, b) = W
    BY <1>2, <1>4, <1>6, <1>9 DEF HeldOn
  <2>2. u.permittedProgPage[d][b] = next
    BY <1>4, <1>7, <1>9 DEF RowOnly
  <2> QED
    BY <1>4, <1>7, <1>8, <2>1, <2>2
<1>10. CASE r.die = d /\ r.block = b
  <2>1. /\ \A y \in E \cup W \cup R : y \in ToSet(acc)
        /\ \A y \in W \cup R : t.pool[y].page \in 0..Pages-1
    BY <1>6, BlockFacts DEF RowInv
  <2>2. /\ \A y, z \in ToSet(acc) : ~(Before(acc, y, z) /\ Before(acc, z, y))
        /\ \A y, z \in ToSet(acc) : y = z \/ Before(acc, y, z) \/ Before(acc, z, y)
    BY ListedFacts, BeforeOrder
  <2>3. ASSUME NEW x \in H, RowConflict(t.pool[x], r) PROVE ~Before(acc, x, s)
    BY <1>2, <2>3, FirstOfConflicting
  <2>4. u.permittedProgPage[d][b] = NextAfter(t, r)
    BY <1>2, <1>10 DEF LetGo
  <2>5. CASE r.code = "WRITE"
    <3>1. r.page = next /\ s \in W
      BY <1>2, <1>6, <1>7, <1>10, <2>5 DEF Permitted, HeldOn
    <3>2. /\ HeldOn(u, H \ {s}, "ERASE", d, b) = E /\ HeldOn(u, H \ {s}, "READ", d, b) = R
          /\ HeldOn(u, H \ {s}, "WRITE", d, b) = W \ {s}
      BY <1>2, <1>4, <1>6, <1>10, <2>5 DEF HeldOn
    <3>3. u.permittedProgPage[d][b] = next + 1
      BY <1>7, <1>10, <2>4, <2>5 DEF NextAfter
    <3>4. E = {} => next + 1 <= pages
      BY <1>2, <1>8, <3>1 DEF WritesAt
    <3>5. ASSUME NEW x \in W \ {s}
          PROVE  /\ Before(acc, s, x) /\ next + 1 <= t.pool[x].page
                 /\ E = {} => t.pool[x].page < pages
                 /\ \A e \in E : Before(acc, x, e)
      <4>1. x \in H /\ t.pool[x].code = "WRITE" /\ t.pool[x].die = d /\ t.pool[x].block = b
        BY <1>6, <3>5 DEF HeldOn
      <4>2. RowConflict(t.pool[x], r)
        BY <1>2, <1>10, <2>5, <4>1 DEF RowConflict, IsDma
      <4>3. Before(acc, s, x)
        BY <1>1, <2>1, <2>2, <2>3, <4>1, <4>2, <3>5
      <4>4. t.pool[s].page < t.pool[x].page
        BY <1>8, <3>1, <3>5, <4>3 DEF WritesAt
      <4>5. next + 1 <= t.pool[x].page
        BY <1>2, <2>1, <3>1, <3>5, <4>4
      <4>6. E = {} => t.pool[x].page < pages
        BY <1>8, <3>5 DEF WritesAt
      <4>7. next # Pages
        BY <1>2, <2>1, <3>1, ClientAssumption
      <4>8. \A e \in E : Before(acc, x, e)
        BY <1>8, <3>5, <4>7 DEF WritesAt
      <4> QED
        BY <4>3, <4>5, <4>6, <4>8
    <3>6. WritesAt(t.pool, acc, next + 1, pages, E, W \ {s})
      <4>1. \A x, y \in W \ {s} : Before(acc, y, x) => t.pool[y].page < t.pool[x].page
        BY <1>8 DEF WritesAt
      <4> QED
        BY <3>4, <3>5, <4>1 DEF WritesAt
    <3>7. ReadsAt(t.pool, acc, pages, E, W \ {s}, R)
      BY <1>8 DEF ReadsAt
    <3> QED
      BY <1>4, <1>7, <3>2, <3>3, <3>6, <3>7
  <2>6. CASE r.code = "READ"
    <3>1. /\ HeldOn(u, H \ {s}, "ERASE", d, b) = E /\ HeldOn(u, H \ {s}, "READ", d, b) = R \ {s}
          /\ HeldOn(u, H \ {s}, "WRITE", d, b) = W
      BY <1>2, <1>4, <1>6, <1>10, <2>6 DEF HeldOn
    <3>2. u.permittedProgPage[d][b] = next
      BY <1>7, <1>10, <2>4, <2>6 DEF NextAfter
    <3>3. ReadsAt(t.pool, acc, pages, E, W, R \ {s})
      BY <1>8 DEF ReadsAt
    <3> QED
      BY <1>4, <1>7, <1>8, <3>1, <3>2, <3>3
  <2>7. CASE r.code = "ERASE"
    <3>1. next = Pages /\ s \in E /\ t.blockedReadReqCnt[d][b] = 0
      <4>1. r.programmedPageCnt = Pages
        BY <1>2, <2>7, RequestParts
      <4> QED
        BY <1>2, <1>6, <1>7, <1>10, <2>7, <4>1 DEF Permitted, HeldOn
    <3>2. R = {}
      <4>1. Cardinality(R) = 0
        BY <1>6, <3>1 DEF RowInv, Counted
      <4> QED
        BY <1>1, <1>6, <4>1, HeldFinite
    <3>3. E = {s}
      BY <1>6, <3>1 DEF RowInv, Counted
    <3>4. /\ HeldOn(u, H \ {s}, "ERASE", d, b) = {} /\ HeldOn(u, H \ {s}, "READ", d, b) = R
          /\ HeldOn(u, H \ {s}, "WRITE", d, b) = W
      <4>1. HeldOn(u, H \ {s}, "ERASE", d, b) = E \ {s}
        BY <1>4, <1>6 DEF HeldOn
      <4> QED
        BY <1>2, <1>4, <1>6, <1>10, <2>7, <3>3, <4>1 DEF HeldOn
    <3>5. u.permittedProgPage[d][b] = 0
      BY <2>4, <2>7 DEF NextAfter
    <3>6. ASSUME NEW x \in W
          PROVE  0 <= t.pool[x].page /\ t.pool[x].page < pages
      <4>1. t.pool[x].page \in 0..Pages-1
        BY <2>1
      <4>2. ~(next <= t.pool[x].page)
        BY <3>1, <4>1, ClientAssumption
      <4>3. t.pool[x].page < pages
        BY <1>8, <3>1, <4>2 DEF WritesAt
      <4> QED
        BY <4>1, <4>3
    <3>7. WritesAt(t.pool, acc, 0, pages, {}, W)
      <4>1. \A x, y \in W : Before(acc, y, x) => t.pool[y].page < t.pool[x].page
        BY <1>8 DEF WritesAt
      <4> QED
        BY <3>6, <4>1 DEF WritesAt
    <3>8. ReadsAt(t.pool, acc, pages, {}, W, R)
      BY <3>2 DEF ReadsAt
    <3> QED
      BY <1>4, <1>7, <3>4, <3>5, <3>7, <3>8
  <2> QED
    BY <1>5, <2>5, <2>6, <2>7
<1> QED
  BY <1>9, <1>10

\* Whatever lets a request go keeps the die's order and the table.
LEMMA LetGoKeeps ==
  ASSUME NEW t \in Tables, NEW acc, Listed(t, acc), NEW w \in [Die -> [Block -> 0..Pages]],
         NEW H, RowInv(t, acc, w, H),
         NEW s \in H, ~IsDma(t.pool[s]), Permitted(t, t.pool[s]),
         NEW u, LetGo(t, u, s, t.pool[s])
  PROVE  RowInv(u, acc, w, H \ {s})
BY LetGoDelivered, LetGoCounted, LetGoFits DEF RowInv

\* A request that is let through at once, as if it was held up before.
LEMMA SelectLetsGo ==
  ASSUME NEW t \in Tables, NEW s \in Slot, t.pool[s] \in Request, ~IsDma(t.pool[s]),
         Permitted(t, t.pool[s]), NEW m, m = HoldUp(t, t.pool[s]),
         NEW u, u = PutToNandReqQ(LetThrough(t, t.pool[s]), s)
  PROVE  /\ LetGo(m, u, s, m.pool[s]) /\ Permitted(m, m.pool[s])
         /\ u.blockedByRow = m.blockedByRow /\ SameChains(m, u) /\ SameTurns(m, u)
<1>1. PICK r \in Request : r = t.pool[s]
  OBVIOUS
<1>2. PICK d \in Die, b \in Block : d = r.die /\ b = r.block
  BY <1>1, RequestParts
<1>0. ~IsDma(r) /\ Permitted(t, r) /\ m = HoldUp(t, r)
  BY <1>1
<1>3. /\ m \in Tables /\ m.pool = t.pool
      /\ SameQueues(t, m) /\ SameChains(t, m) /\ SameTurns(t, m)
      /\ RowOnly(t, m, d, b) /\ m.permittedProgPage[d][b] = t.permittedProgPage[d][b]
      /\ m.blockedReadReqCnt[d][b] =
           IF r.code = "READ" THEN t.blockedReadReqCnt[d][b] + 1 ELSE t.blockedReadReqCnt[d][b]
  BY <1>0, <1>2, HoldUpFacts
<1>4. m.blockedEraseReqFlag[d][b] <=> r.code = "ERASE" \/ t.blockedEraseReqFlag[d][b]
  BY <1>0, <1>2, HoldUpFacts
<1>5. PICK l : l = LetThrough(t, r)
  OBVIOUS
<1>6. /\ l \in Tables /\ l.pool = t.pool
      /\ SameQueues(t, l) /\ SameChains(t, l) /\ SameTurns(t, l)
      /\ RowOnly(t, l, d, b) /\ l.permittedProgPage[d][b] = NextAfter(t, r)
      /\ l.blockedReadReqCnt[d][b] = t.blockedReadReqCnt[d][b]
  BY <1>0, <1>2, <1>5, LetThroughFacts
<1>7. l.blockedEraseReqFlag[d][b] <=> r.code # "ERASE" /\ t.blockedEraseReqFlag[d][b]
  BY <1>0, <1>2, <1>5, LetThroughFacts
<1>8. u = PutToNandReqQ(l, s) /\ l.pool[s].die = d
  BY <1>1, <1>2, <1>5, <1>6
<1>9. /\ u \in Tables /\ u.pool = l.pool
      /\ u.nand = [l.nand EXCEPT ![d] = Append(@, s)]
      /\ u.blockedByRow = l.blockedByRow /\ u.nvmeDma = l.nvmeDma
      /\ SameChains(l, u) /\ SameRows(l, u) /\ SameTurns(l, u)
  BY <1>6, <1>8, NandFacts
<1>10. /\ u.pool = m.pool /\ u.nvmeDma = m.nvmeDma /\ u.blockedByRow = m.blockedByRow
       /\ u.nand = [m.nand EXCEPT ![d] = Append(@, s)]
  BY <1>3, <1>6, <1>9 DEF SameQueues
<1>11. SameChains(m, u) /\ SameTurns(m, u)
  BY <1>3, <1>6, <1>9 DEF SameChains, SameTurns
<1>12. u.permittedProgPage[d][b] = NextAfter(m, r)
  BY <1>2, <1>3, <1>6, <1>9 DEF SameRows, NextAfter
<1>13. u.blockedReadReqCnt[d][b] =
         IF r.code = "READ" THEN m.blockedReadReqCnt[d][b] - 1 ELSE m.blockedReadReqCnt[d][b]
  <2>1. t.blockedReadReqCnt[d][b] \in Int
    BY TableTypes
  <2>2. u.blockedReadReqCnt[d][b] = t.blockedReadReqCnt[d][b]
    BY <1>6, <1>9 DEF SameRows
  <2> QED
    BY <1>3, <2>1, <2>2
<1>14. u.blockedEraseReqFlag[d][b] <=> r.code # "ERASE" /\ m.blockedEraseReqFlag[d][b]
  BY <1>4, <1>7, <1>9 DEF SameRows
<1>15. RowOnly(m, u, d, b)
  <2>1. RowOnly(m, l, d, b)
    <3> SUFFICES ASSUME NEW x \in Die, NEW y \in Block, x # d \/ y # b
                 PROVE  /\ l.permittedProgPage[x][y] = m.permittedProgPage[x][y]
                        /\ l.blockedReadReqCnt[x][y] = m.blockedReadReqCnt[x][y]
                        /\ l.blockedEraseReqFlag[x][y] = m.blockedEraseReqFlag[x][y]
      BY DEF RowOnly
    <3>1. /\ l.permittedProgPage[x][y] = m.permittedProgPage[x][y]
          /\ l.blockedReadReqCnt[x][y] = m.blockedReadReqCnt[x][y]
      BY <1>3, <1>6 DEF RowOnly
    <3>2. l.blockedEraseReqFlag[x][y] = m.blockedEraseReqFlag[x][y]
      BY <1>3, <1>6 DEF RowOnly
    <3> QED
      BY <3>1, <3>2
  <2> QED
    BY <2>1, <1>9 DEF RowOnly, SameRows
<1>16. LetGo(m, u, s, r)
  BY <1>2, <1>9, <1>10, <1>12, <1>13, <1>14, <1>15 DEF LetGo
<1>17. Permitted(m, r)
  BY <1>1, <1>2, <1>3 DEF Permitted
<1> QED
  BY <1>1, <1>3, <1>10, <1>11, <1>16, <1>17

-----------------------------------------------------------------------------
\* What is held up fits the table as long as these requests, the order in which
\* they were accepted, and the table are the same.
LEMMA SameHeld ==
  ASSUME NEW t, NEW u, SameRows(t, u), NEW acc, NEW new, NEW w, NEW H,
         \A x \in H : u.pool[x] = t.pool[x],
         \A x, y \in H : Before(new, x, y) <=> Before(acc, x, y),
         Counted(t, H), RowsFit(t, acc, w, H)
  PROVE  Counted(u, H) /\ RowsFit(u, new, w, H)
<1>1. \A c, d, b : HeldOn(u, H, c, d, b) = HeldOn(t, H, c, d, b)
  BY DEF HeldOn
<1>2. Counted(u, H)
  BY <1>1 DEF Counted, SameRows
<1>3. RowsFit(u, new, w, H)
  <2> SUFFICES ASSUME NEW d \in Die, NEW b \in Block
               PROVE  /\ WritesAt(u.pool, new, u.permittedProgPage[d][b], w[d][b],
                                  HeldOn(u, H, "ERASE", d, b), HeldOn(u, H, "WRITE", d, b))
                      /\ ReadsAt(u.pool, new, w[d][b], HeldOn(u, H, "ERASE", d, b),
                                 HeldOn(u, H, "WRITE", d, b), HeldOn(u, H, "READ", d, b))
    BY DEF RowsFit
  <2>1. PICK E, W, R : /\ E = HeldOn(t, H, "ERASE", d, b) /\ W = HeldOn(t, H, "WRITE", d, b)
                       /\ R = HeldOn(t, H, "READ", d, b)
    OBVIOUS
  <2>2. PICK next, pages : next = t.permittedProgPage[d][b] /\ pages = w[d][b]
    OBVIOUS
  <2>3. WritesAt(t.pool, acc, next, pages, E, W) /\ ReadsAt(t.pool, acc, pages, E, W, R)
    BY <2>1, <2>2 DEF RowsFit
  <2>4. E \subseteq H /\ W \subseteq H /\ R \subseteq H
    BY <2>1 DEF HeldOn
  <2>5. PICK p, o : p = t.pool /\ o = u.pool
    OBVIOUS
  <2>6. \A x \in H : o[x] = p[x]
    BY <2>5
  <2>7. WritesAt(o, new, next, pages, E, W)
    BY <2>3, <2>4, <2>5, <2>6 DEF WritesAt
  <2>8. ReadsAt(o, new, pages, E, W, R)
    BY <2>3, <2>4, <2>5, <2>6 DEF ReadsAt
  <2> QED
    BY <1>1, <2>1, <2>2, <2>5, <2>7, <2>8 DEF SameRows
<1> QED
  BY <1>2, <1>3

\* What the client sees to when it submits r; w are the pages it has written.
MaySubmit(t, w, r, new) ==
  /\ IsDma(r) => new = w
  /\ ~IsDma(r) =>
       /\ r.code \in {"READ", "WRITE", "ERASE"}
       /\ \A x \in Die, y \in Block : x # r.die \/ y # r.block => new[x][y] = w[x][y]
       /\ r.code = "WRITE" =>
            /\ r.page = w[r.die][r.block] /\ new[r.die][r.block] = w[r.die][r.block] + 1
            /\ t.blockedEraseReqFlag[r.die][r.block] => t.permittedProgPage[r.die][r.block] = Pages
       /\ r.code = "READ" =>
            /\ r.page < w[r.die][r.block] /\ new[r.die][r.block] = w[r.die][r.block]
            /\ ~t.blockedEraseReqFlag[r.die][r.block]
       /\ r.code = "ERASE" =>
            /\ w[r.die][r.block] = Pages /\ new[r.die][r.block] = 0
            /\ ~t.blockedEraseReqFlag[r.die][r.block]

\* A request that is submitted and held up is counted.
LEMMA HoldCounted ==
  ASSUME NEW t \in Tables, NEW acc, Listed(t, acc),
         NEW s \in ToSet(acc), NEW H, H \subseteq ToSet(acc), s \notin H, Counted(t, H),
         NEW w, NEW new, MaySubmit(t, w, t.pool[s], new),
         NEW u, u = HoldUp(t, t.pool[s])
  PROVE  Counted(u, H \cup {s})
<1>1. PICK r \in Request : r = t.pool[s]
  BY ListedFacts
<1>2. H \in SUBSET Slot /\ s \in Slot
  BY ListedFacts
<1> SUFFICES ASSUME NEW d \in Die, NEW b \in Block
             PROVE  /\ u.blockedReadReqCnt[d][b] = Cardinality(HeldOn(u, H \cup {s}, "READ", d, b))
                    /\ u.blockedEraseReqFlag[d][b] <=> HeldOn(u, H \cup {s}, "ERASE", d, b) # {}
                    /\ \A e, f \in HeldOn(u, H \cup {s}, "ERASE", d, b) : e = f
  BY DEF Counted
<1>9. u = HoldUp(t, r)
  BY <1>1
<1>3. PICK E, R : E = HeldOn(t, H, "ERASE", d, b) /\ R = HeldOn(t, H, "READ", d, b)
  OBVIOUS
<1>4. t.blockedReadReqCnt[d][b] = Cardinality(R)
  BY <1>3 DEF Counted
<1>5. (t.blockedEraseReqFlag[d][b] <=> E # {}) /\ \A e, f \in E : e = f
  BY <1>3 DEF Counted
<1>6. CASE IsDma(r)
  <2>1. u = t
    BY <1>1, <1>6 DEF HoldUp, IsDma
  <2>2. HeldOn(u, H \cup {s}, "ERASE", d, b) = E /\ HeldOn(u, H \cup {s}, "READ", d, b) = R
    BY <1>1, <1>3, <1>6, <2>1 DEF HeldOn, IsDma
  <2> QED
    BY <1>4, <1>5, <2>1, <2>2
<1>7. CASE ~IsDma(r) /\ (d # r.die \/ b # r.block)
  <2>1. u.pool = t.pool /\ RowOnly(t, u, r.die, r.block)
    BY <1>7, <1>9, HoldUpFacts
  <2>2. HeldOn(u, H \cup {s}, "ERASE", d, b) = E /\ HeldOn(u, H \cup {s}, "READ", d, b) = R
    BY <1>1, <1>3, <1>7, <2>1 DEF HeldOn
  <2>3. u.blockedReadReqCnt[d][b] = t.blockedReadReqCnt[d][b]
    BY <1>7, <2>1 DEF RowOnly
  <2>4. u.blockedEraseReqFlag[d][b] = t.blockedEraseReqFlag[d][b]
    BY <1>7, <2>1 DEF RowOnly
  <2> QED
    BY <1>4, <1>5, <2>2, <2>3, <2>4
<1>8. CASE ~IsDma(r) /\ d = r.die /\ b = r.block
  <2>1. /\ u.pool = t.pool
        /\ u.blockedReadReqCnt[d][b] =
             IF r.code = "READ" THEN t.blockedReadReqCnt[d][b] + 1 ELSE t.blockedReadReqCnt[d][b]
    BY <1>8, <1>9, HoldUpFacts
  <2>2. u.blockedEraseReqFlag[d][b] <=> r.code = "ERASE" \/ t.blockedEraseReqFlag[d][b]
    BY <1>8, <1>9, HoldUpFacts
  <2>3. /\ r.code = "ERASE" => HeldOn(u, H \cup {s}, "ERASE", d, b) = E \cup {s}
        /\ r.code # "ERASE" => HeldOn(u, H \cup {s}, "ERASE", d, b) = E
        /\ r.code = "READ" => s \notin R /\ HeldOn(u, H \cup {s}, "READ", d, b) = R \cup {s}
        /\ r.code # "READ" => HeldOn(u, H \cup {s}, "READ", d, b) = R
    BY <1>1, <1>3, <1>8, <2>1 DEF HeldOn
  <2>4. r.code = "ERASE" => E = {}
    BY <1>1, <1>5, <1>8 DEF MaySubmit
  <2>5. u.blockedReadReqCnt[d][b] = Cardinality(HeldOn(u, H \cup {s}, "READ", d, b))
    <3>1. CASE r.code = "READ"
      <4>1. IsFiniteSet(R)
        BY <1>2, <1>3, HeldFinite
      <4>2. Cardinality(R \cup {s}) = Cardinality(R) + 1
        BY <2>3, <3>1, <4>1, FS_AddElement
      <4>3. HeldOn(u, H \cup {s}, "READ", d, b) = R \cup {s}
        BY <2>3, <3>1
      <4> QED
        BY <1>4, <2>1, <3>1, <4>2, <4>3
    <3>2. CASE r.code # "READ"
      BY <1>4, <2>1, <2>3, <3>2
    <3> QED
      BY <3>1, <3>2
  <2>6. (u.blockedEraseReqFlag[d][b] <=> HeldOn(u, H \cup {s}, "ERASE", d, b) # {})
    <3>1. CASE r.code = "ERASE"
      BY <2>2, <2>3, <3>1
    <3>2. CASE r.code # "ERASE"
      BY <1>5, <2>2, <2>3, <3>2
    <3> QED
      BY <3>1, <3>2
  <2>7. \A e, f \in HeldOn(u, H \cup {s}, "ERASE", d, b) : e = f
    BY <1>5, <2>3, <2>4
  <2> QED
    BY <2>5, <2>6, <2>7
<1> QED
  BY <1>6, <1>7, <1>8

\* A request that the client may submit, held up, fits those on its block.
LEMMA HoldFits ==
  ASSUME NEW t \in Tables, NEW acc, Listed(t, acc), NEW H, H \subseteq ToSet(acc),
         NEW s \in ToSet(acc), s \notin H, \A x \in H : Before(acc, x, s) /\ t.pool[x].code # "READ_TRANSFER",
         Counted(t, H), NEW w \in [Die -> [Block -> 0..Pages]], RowsFit(t, acc, w, H),
         NEW new \in [Die -> [Block -> 0..Pages]], MaySubmit(t, w, t.pool[s], new),
         NEW u, u = HoldUp(t, t.pool[s])
  PROVE  RowsFit(u, acc, new, H \cup {s})
<1>1. PICK r \in Request : r = t.pool[s]
  BY ListedFacts
<1>2. \A x \in H : ~Before(acc, s, x) /\ ~Before(acc, s, s)
  BY ListedFacts, BeforeOrder
<1> SUFFICES ASSUME NEW d \in Die, NEW b \in Block
             PROVE  /\ WritesAt(u.pool, acc, u.permittedProgPage[d][b], new[d][b],
                                HeldOn(u, H \cup {s}, "ERASE", d, b),
                                HeldOn(u, H \cup {s}, "WRITE", d, b))
                    /\ ReadsAt(u.pool, acc, new[d][b], HeldOn(u, H \cup {s}, "ERASE", d, b),
                               HeldOn(u, H \cup {s}, "WRITE", d, b),
                               HeldOn(u, H \cup {s}, "READ", d, b))
  BY DEF RowsFit
<1>9. u = HoldUp(t, r)
  BY <1>1
<1>3. PICK E, W, R : /\ E = HeldOn(t, H, "ERASE", d, b) /\ W = HeldOn(t, H, "WRITE", d, b)
                     /\ R = HeldOn(t, H, "READ", d, b)
  OBVIOUS
<1>4. PICK next \in 0..Pages, pages \in 0..Pages :
        next = t.permittedProgPage[d][b] /\ pages = w[d][b]
  <2>1. t.permittedProgPage[d][b] \in 0..Pages
    BY TableTypes
  <2>2. w[d][b] \in 0..Pages
    OBVIOUS
  <2> QED
    BY <2>1, <2>2
<1>5. WritesAt(t.pool, acc, next, pages, E, W) /\ ReadsAt(t.pool, acc, pages, E, W, R)
  BY <1>3, <1>4 DEF RowsFit
<1>6. CASE IsDma(r)
  <2>1. u = t /\ new = w
    BY <1>1, <1>6 DEF HoldUp, IsDma, MaySubmit
  <2>2. /\ HeldOn(u, H \cup {s}, "ERASE", d, b) = E /\ HeldOn(u, H \cup {s}, "READ", d, b) = R
        /\ HeldOn(u, H \cup {s}, "WRITE", d, b) = W
    BY <1>1, <1>3, <1>6, <2>1 DEF HeldOn, IsDma
  <2> QED
    BY <1>4, <1>5, <2>1, <2>2
<1>7. CASE ~IsDma(r) /\ (d # r.die \/ b # r.block)
  <2>1. u.pool = t.pool /\ RowOnly(t, u, r.die, r.block)
    BY <1>7, <1>9, HoldUpFacts
  <2>2. /\ HeldOn(u, H \cup {s}, "ERASE", d, b) = E /\ HeldOn(u, H \cup {s}, "READ", d, b) = R
        /\ HeldOn(u, H \cup {s}, "WRITE", d, b) = W
    BY <1>1, <1>3, <1>7, <2>1 DEF HeldOn
  <2>3. u.permittedProgPage[d][b] = next /\ new[d][b] = pages
    BY <1>1, <1>4, <1>7, <2>1 DEF RowOnly, MaySubmit
  <2> QED
    BY <1>5, <2>1, <2>2, <2>3
<1>8. CASE ~IsDma(r) /\ d = r.die /\ b = r.block
  <2>1. u.pool = t.pool /\ u.permittedProgPage[d][b] = next
    BY <1>4, <1>8, <1>9, HoldUpFacts
  <2>2. /\ HeldOn(u, H \cup {s}, "ERASE", d, b) = IF r.code = "ERASE" THEN E \cup {s} ELSE E
        /\ HeldOn(u, H \cup {s}, "WRITE", d, b) = IF r.code = "WRITE" THEN W \cup {s} ELSE W
        /\ HeldOn(u, H \cup {s}, "READ", d, b) = IF r.code = "READ" THEN R \cup {s} ELSE R
    BY <1>1, <1>3, <1>8, <2>1 DEF HeldOn
  <2>3. \A x \in E \cup W \cup R : Before(acc, x, s) /\ ~Before(acc, s, x)
    BY <1>2, <1>3 DEF HeldOn
  <2>4. \A x \in W \cup R : t.pool[x].page \in 0..Pages-1
    <3> SUFFICES ASSUME NEW x \in W \cup R PROVE t.pool[x].page \in 0..Pages-1
      OBVIOUS
    <3>1. x \in H /\ t.pool[x].code \in {"READ", "WRITE"}
      BY <1>3 DEF HeldOn
    <3>2. t.pool[x] \in Request /\ ~IsDma(t.pool[x]) /\ t.pool[x].code # "ERASE"
      BY <3>1, ListedFacts DEF IsDma
    <3> QED
      BY <3>2, RequestParts
  <2>5. t.blockedEraseReqFlag[d][b] <=> E # {}
    BY <1>3 DEF Counted
  <2>6. new[d][b] \in 0..Pages
    OBVIOUS
  <2>7. CASE r.code = "WRITE"
    <3>1. r.page = pages /\ new[d][b] = pages + 1 /\ t.pool[s].page = pages
      BY <1>1, <1>4, <1>8, <2>7 DEF MaySubmit
    <3>2. E # {} => next = Pages
      BY <1>1, <1>4, <1>8, <2>5, <2>7 DEF MaySubmit
    <3>3. ASSUME NEW x \in W
          PROVE  /\ t.pool[x].page < pages
                 /\ E = {} => next <= t.pool[x].page
                 /\ \A e \in E : Before(acc, e, x)
      <4>1. t.pool[x].page < Pages
        BY <2>4, ClientAssumption
      <4>2. ASSUME NEW e \in E
            PROVE  Before(acc, e, x) /\ next = Pages /\ t.pool[x].page < pages
        <5>1. ~(next <= t.pool[x].page)
          BY <2>4, <3>2, <4>1, <4>2
        <5> QED
          BY <1>5, <5>1 DEF WritesAt
      <4> QED
        BY <1>5, <4>2 DEF WritesAt
    <3>4. WritesAt(t.pool, acc, next, pages + 1, E, W \cup {s})
      <4>1. E = {} => next <= pages
        BY <1>5 DEF WritesAt
      <4>2. E = {} => next <= pages + 1
        BY <4>1
      <4>3. ASSUME NEW x \in W \cup {s}
            PROVE  /\ E = {} => next <= t.pool[x].page /\ t.pool[x].page < pages + 1
                   /\ \A e \in E : Before(acc, e, x) /\ next = Pages /\ t.pool[x].page < pages + 1
        <5>1. CASE x = s
          BY <2>3, <3>1, <3>2, <4>1, <5>1
        <5>2. CASE x \in W
          <6>1. t.pool[x].page < pages + 1
            <7>1. t.pool[x].page \in 0..Pages-1
              BY <2>4, <5>2
            <7>2. t.pool[x].page < pages
              BY <3>3, <5>2
            <7> QED
              BY <7>1, <7>2
          <6> QED
            BY <1>5, <3>2, <3>3, <5>2, <6>1 DEF WritesAt
        <5> QED
          BY <5>1, <5>2
      <4>4. ASSUME NEW x \in W \cup {s}, NEW y \in W \cup {s}, Before(acc, x, y)
            PROVE  t.pool[x].page < t.pool[y].page
        <5>1. CASE y = s
          <6>1. x \in W
            BY <1>2, <2>3, <4>4, <5>1, ListedFacts, BeforeOrder
          <6> QED
            <7>1. t.pool[x].page < pages
              BY <3>3, <6>1
            <7> QED
              BY <3>1, <5>1, <7>1
        <5>2. CASE y \in W
          <6>1. x \in W
            BY <2>3, <4>4, <5>2
          <6> QED
            BY <1>5, <4>4, <5>2, <6>1 DEF WritesAt
        <5> QED
          BY <5>1, <5>2
      <4> QED
        BY <4>2, <4>3, <4>4 DEF WritesAt
    <3>5. ReadsAt(t.pool, acc, pages + 1, E, W \cup {s}, R)
      <4> SUFFICES ASSUME NEW x \in R
                   PROVE  /\ E = {} => t.pool[x].page < pages + 1
                          /\ \A e \in E : Before(acc, x, e)
                          /\ \A y \in W \cup {s} : Before(acc, x, y) /\ t.pool[x].page = t.pool[y].page
                               => \E e \in E : Before(acc, e, y)
        BY DEF ReadsAt
      <4>1. E = {} => t.pool[x].page < pages
        BY <1>5 DEF ReadsAt
      <4>2. E = {} => t.pool[x].page < pages + 1
        BY <2>4, <4>1
      <4>3. t.pool[x].page = t.pool[s].page => \E e \in E : Before(acc, e, s)
        BY <2>3, <2>4, <3>1, <4>1
      <4> QED
        BY <1>5, <4>2, <4>3 DEF ReadsAt
    <3> QED
      BY <2>1, <2>2, <2>7, <3>1, <3>4, <3>5
  <2>8. CASE r.code = "READ"
    <3>1. /\ r.page < pages /\ new[d][b] = pages /\ t.pool[s].page = r.page
      BY <1>1, <1>4, <1>8, <2>8 DEF MaySubmit
    <3>2. E = {}
      BY <1>1, <1>8, <2>5, <2>8 DEF MaySubmit
    <3>3. ReadsAt(t.pool, acc, pages, E, W, R \cup {s})
      <4> SUFFICES ASSUME NEW x \in R \cup {s}
                   PROVE  /\ E = {} => t.pool[x].page < pages
                          /\ \A e \in E : Before(acc, x, e)
                          /\ \A y \in W : Before(acc, x, y) /\ t.pool[x].page = t.pool[y].page
                               => \E e \in E : Before(acc, e, y)
        BY DEF ReadsAt
      <4>1. CASE x = s
        BY <2>3, <3>1, <3>2, <4>1
      <4>2. CASE x \in R
        BY <1>5, <4>2 DEF ReadsAt
      <4> QED
        BY <4>1, <4>2
    <3> QED
      BY <1>5, <2>1, <2>2, <2>8, <3>1, <3>3
  <2>9. CASE r.code = "ERASE"
    <3>1. new[d][b] = 0
      BY <1>1, <1>8, <2>9 DEF MaySubmit
    <3>2. E = {}
      BY <1>1, <1>8, <2>5, <2>9 DEF MaySubmit
    <3>3. WritesAt(t.pool, acc, next, 0, {s}, W)
      BY <1>5, <2>3, <3>2 DEF WritesAt
    <3>4. ReadsAt(t.pool, acc, 0, {s}, W, R)
      BY <1>5, <2>3, <3>2 DEF ReadsAt
    <3>5. E \cup {s} = {s}
      BY <3>2
    <3> QED
      BY <2>1, <2>2, <2>9, <3>1, <3>3, <3>4, <3>5
  <2> QED
    BY <1>1, <1>8, <2>7, <2>8, <2>9 DEF MaySubmit
<1> QED
  BY <1>6, <1>7, <1>8
-----------------------------------------------------------------------------
\* The requests on an entry, when one more is submitted.
Linked(t, u, s, e) ==
  /\ \A x \in Slot : u.prev[x] = IF x = s /\ e # NONE THEN t.tail[e] ELSE t.prev[x]
  /\ \A x \in Slot : u.next[x] = IF e # NONE /\ x = t.tail[e] THEN s ELSE t.next[x]
  /\ \A f \in Entry : u.tail[f] = IF f = e THEN s ELSE t.tail[f]

LEMMA ChainsAppend ==
  ASSUME NEW t \in Tables, NEW acc, Listed(t, acc), Chains(t, acc),
         NEW s \in Slot, s \notin ToSet(acc), NEW r \in Request,
         NEW u \in Tables, u.pool[s] = r, \A x \in ToSet(acc) : u.pool[x] = t.pool[x],
         Linked(t, u, s, r.entry)
  PROVE  Chains(u, Append(acc, s))
<1>1. PICK new, e : new = Append(acc, s) /\ e = r.entry
  OBVIOUS
<1>2. /\ acc \in Seq(Slot) /\ Distinct(acc) /\ ToSet(acc) \subseteq Slot
      /\ ToSet(new) = ToSet(acc) \cup {s} /\ ToSet(new) \subseteq Slot
  BY <1>1, ListedFacts, AppendFacts
<1>3. \A a, b : Before(new, a, b) <=> Before(acc, a, b) \/ (a \in ToSet(acc) /\ b = s)
  BY <1>1, <1>2, BeforeAppend
<1>4. \A a, b : Before(acc, a, b) => a \in ToSet(acc) /\ b \in ToSet(acc)
  BY <1>2, BeforeOrder
<1>5. NONE \notin Slot
  BY ClientAssumption DEF Slot
<1>6. e # NONE => e \in Entry
  <2>1. r.entry # NONE => r.entry \in Entry
    BY RequestParts
  <2> QED
    BY <1>1, <2>1
<1>7. /\ \A x \in Slot : u.prev[x] = IF x = s /\ e # NONE THEN t.tail[e] ELSE t.prev[x]
      /\ \A x \in Slot : u.next[x] = IF e # NONE /\ x = t.tail[e] THEN s ELSE t.next[x]
      /\ \A f \in Entry : u.tail[f] = IF f = e THEN s ELSE t.tail[f]
  BY <1>1 DEF Linked
<1>8. t.prev[s] = NONE /\ t.next[s] = NONE
  BY DEF Chains
<1>9. /\ \A x \in ToSet(acc) : t.next[x] # NONE =>
           /\ t.next[x] \in ToSet(acc) /\ t.prev[t.next[x]] = x
           /\ t.pool[x].entry # NONE /\ t.pool[t.next[x]].entry = t.pool[x].entry
           /\ \A y \in ToSet(acc) :
                t.pool[y].entry = t.pool[x].entry /\ Before(acc, y, t.next[x])
                  => y = x \/ Before(acc, y, x)
      /\ \A x \in ToSet(acc) : t.prev[x] # NONE => t.prev[x] \in ToSet(acc) /\ t.next[t.prev[x]] = x
  BY DEF Chains
<1>10. e # NONE /\ t.tail[e] = NONE => \A x \in ToSet(acc) : t.pool[x].entry # e
  BY <1>6 DEF Chains
<1>11. e # NONE /\ t.tail[e] # NONE =>
         /\ t.tail[e] \in ToSet(acc) /\ t.pool[t.tail[e]].entry = e /\ t.next[t.tail[e]] = NONE
         /\ \A x \in ToSet(acc) : t.pool[x].entry = e => x = t.tail[e] \/ Before(acc, x, t.tail[e])
  BY <1>6 DEF Chains
<1>12. \A x \in Slot \ ToSet(new) : u.prev[x] = NONE /\ u.next[x] = NONE
  BY <1>2, <1>7, <1>11, <1>5 DEF Chains
<1>13. ASSUME NEW x \in ToSet(new), u.next[x] # NONE
       PROVE  /\ u.next[x] \in ToSet(new) /\ u.prev[u.next[x]] = x
              /\ u.pool[x].entry # NONE /\ u.pool[u.next[x]].entry = u.pool[x].entry
              /\ \A y \in ToSet(new) :
                   u.pool[y].entry = u.pool[x].entry /\ Before(new, y, u.next[x])
                     => y = x \/ Before(new, y, x)
  <2>1. CASE e # NONE /\ x = t.tail[e]
    <3>1. x \in ToSet(acc) /\ u.next[x] = s /\ x \in Slot
      BY <1>2, <1>5, <1>7, <1>11, <1>13, <2>1
    <3>2. u.prev[s] = x /\ u.pool[x].entry = e /\ u.pool[s].entry = e
      BY <1>1, <1>7, <1>11, <2>1, <3>1, <1>5
    <3>3. \A y \in ToSet(new) :
            u.pool[y].entry = e /\ Before(new, y, s) => y = x \/ Before(new, y, x)
      <4> SUFFICES ASSUME NEW y \in ToSet(new), u.pool[y].entry = e, Before(new, y, s)
                   PROVE  y = x \/ Before(new, y, x)
        OBVIOUS
      <4>1. y \in ToSet(acc)
        BY <1>3, <1>4
      <4>2. t.pool[y].entry = e
        BY <4>1
      <4>3. y = x \/ Before(acc, y, x)
        BY <1>5, <1>11, <2>1, <3>1, <4>1, <4>2
      <4> QED
        BY <1>3, <4>3
    <3> QED
      BY <1>2, <2>1, <3>1, <3>2, <3>3
  <2>2. CASE ~(e # NONE /\ x = t.tail[e])
    <3>1. u.next[x] = t.next[x] /\ x # s /\ x \in ToSet(acc)
      BY <1>2, <1>7, <1>8, <1>13, <2>2
    <3>2. PICK n : n = t.next[x]
      OBVIOUS
    <3>3. n \in ToSet(acc) /\ n # s /\ n \in Slot /\ t.prev[n] = x /\ u.prev[n] = x
      BY <1>2, <1>7, <1>9, <1>13, <3>1, <3>2
    <3>4. /\ u.pool[x].entry # NONE /\ u.pool[n].entry = u.pool[x].entry
          /\ u.pool[x].entry = t.pool[x].entry
      BY <1>9, <1>13, <3>1, <3>2, <3>3
    <3>5. \A y \in ToSet(new) :
            u.pool[y].entry = u.pool[x].entry /\ Before(new, y, n) => y = x \/ Before(new, y, x)
      BY <1>2, <1>3, <1>4, <1>9, <1>13, <3>1, <3>2, <3>3, <3>4
    <3> QED
      BY <1>2, <3>1, <3>2, <3>3, <3>4, <3>5
  <2> QED
    BY <2>1, <2>2
<1>14. ASSUME NEW x \in ToSet(new), u.prev[x] # NONE
       PROVE  u.prev[x] \in ToSet(new) /\ u.next[u.prev[x]] = x
  <2>1. CASE x = s /\ e # NONE
    BY <1>2, <1>7, <1>11, <1>14, <2>1
  <2>2. CASE ~(x = s /\ e # NONE)
    <3>1. u.prev[x] = t.prev[x] /\ x \in ToSet(acc)
      BY <1>2, <1>7, <1>8, <1>14, <2>2
    <3>2. PICK y : y = t.prev[x]
      OBVIOUS
    <3>3. y \in ToSet(acc) /\ t.next[y] = x
      BY <1>9, <1>14, <3>1, <3>2
    <3>4. ~(e # NONE /\ y = t.tail[e])
      BY <1>2, <1>5, <1>11, <3>1, <3>3
    <3> QED
      BY <1>2, <1>7, <3>1, <3>2, <3>3, <3>4
  <2> QED
    BY <2>1, <2>2
<1>15. ASSUME NEW y \in ToSet(new), NEW x \in ToSet(new),
              u.pool[y].entry = u.pool[x].entry, u.pool[x].entry # NONE, Before(new, y, x)
       PROVE  u.prev[x] # NONE
  <2>1. CASE x = s
    <3>1. y \in ToSet(acc) /\ e # NONE /\ t.pool[y].entry = e
      BY <1>1, <1>2, <1>3, <1>4, <1>15, <2>1
    <3> QED
      BY <1>7, <1>10, <2>1, <3>1
  <2>2. CASE x # s
    <3>1. Before(acc, y, x) /\ x \in ToSet(acc) /\ y \in ToSet(acc)
      BY <1>2, <1>3, <1>4, <1>15, <2>2
    <3>2. t.prev[x] # NONE
      BY <1>15, <3>1 DEF Chains
    <3> QED
      BY <1>2, <1>7, <2>2, <3>1, <3>2
  <2> QED
    BY <2>1, <2>2
<1>16. ASSUME NEW f \in Entry
       PROVE  IF u.tail[f] = NONE THEN \A x \in ToSet(new) : u.pool[x].entry # f
              ELSE /\ u.tail[f] \in ToSet(new) /\ u.pool[u.tail[f]].entry = f
                   /\ u.next[u.tail[f]] = NONE
                   /\ \A x \in ToSet(new) :
                        u.pool[x].entry = f => x = u.tail[f] \/ Before(new, x, u.tail[f])
  <2>1. CASE f = e
    <3>1. u.tail[f] = s /\ s # NONE
      BY <1>5, <1>7, <2>1
    <3>2. e # NONE
      BY <2>1, ClientAssumption
    <3>3. s # t.tail[e]
      BY <1>5, <1>11, <3>2
    <3>4. u.next[s] = NONE
      BY <1>7, <1>8, <3>3
    <3> QED
      BY <1>1, <1>2, <1>3, <2>1, <3>1, <3>4
  <2>2. CASE f # e
    <3>1. u.tail[f] = t.tail[f]
      BY <1>7, <2>2
    <3>2. CASE t.tail[f] = NONE
      <4>1. \A x \in ToSet(acc) : t.pool[x].entry # f
        BY <3>2 DEF Chains
      <4> QED
        BY <1>1, <1>2, <2>2, <3>1, <3>2, <4>1
    <3>3. CASE t.tail[f] # NONE
      <4>1. PICK x : x = t.tail[f]
        OBVIOUS
      <4>2. /\ x \in ToSet(acc) /\ t.pool[x].entry = f /\ t.next[x] = NONE
            /\ \A y \in ToSet(acc) : t.pool[y].entry = f => y = x \/ Before(acc, y, x)
        BY <3>3, <4>1 DEF Chains
      <4>3. ~(e # NONE /\ x = t.tail[e])
        BY <1>5, <1>11, <2>2, <4>2, <1>2
      <4>4. u.next[x] = NONE
        BY <1>2, <1>7, <4>2, <4>3
      <4> QED
        BY <1>1, <1>2, <1>3, <2>2, <3>1, <3>3, <4>1, <4>2, <4>4
    <3> QED
      BY <3>2, <3>3
  <2> QED
    BY <2>1, <2>2
<1>17. ASSUME NEW x \in ToSet(new), u.pool[x].entry # NONE, u.next[x] = NONE
       PROVE  u.tail[u.pool[x].entry] = x
  <2>1. CASE x = s
    BY <1>1, <1>6, <1>7, <1>17, <2>1
  <2>2. CASE x # s
    <3>1. x \in ToSet(acc) /\ x \in Slot
      BY <1>2, <2>2
    <3>2. t.next[x] = NONE /\ ~(e # NONE /\ x = t.tail[e])
      BY <1>5, <1>7, <1>17, <3>1
    <3>3. t.tail[t.pool[x].entry] = x
      BY <1>17, <3>1, <3>2 DEF Chains
    <3>4. t.pool[x].entry # e /\ t.pool[x].entry \in Entry
      <4>1. t.pool[x] \in Request
        BY <3>1, ListedFacts
      <4> QED
        BY <1>17, <3>1, <3>2, <3>3, <4>1, RequestParts
    <3> QED
      BY <1>7, <3>1, <3>3, <3>4
  <2> QED
    BY <2>1, <2>2
<1> QED
  BY <1>1, <1>12, <1>13, <1>14, <1>15, <1>16, <1>17 DEF Chains

\* The requests on an entry, when the first of them is done.
Unlinked(t, u, s) ==
  /\ \A x \in Slot : u.prev[x] = IF x = t.next[s] THEN NONE ELSE t.prev[x]
  /\ \A x \in Slot : u.next[x] = IF x = s THEN NONE ELSE t.next[x]
  /\ \A f \in Entry : u.tail[f] = IF t.tail[f] = s THEN NONE ELSE t.tail[f]

LEMMA ChainsWithout ==
  ASSUME NEW t \in Tables, NEW acc, Listed(t, acc), Chains(t, acc),
         NEW s \in ToSet(acc), t.prev[s] = NONE,
         NEW u, \A x \in ToSet(acc) \ {s} : u.pool[x] = t.pool[x],
         Unlinked(t, u, s)
  PROVE  Chains(u, Without(acc, s))
<1>1. PICK new : new = Without(acc, s)
  OBVIOUS
<1>2. /\ acc \in Seq(Slot) /\ Distinct(acc) /\ ToSet(acc) \subseteq Slot
      /\ ToSet(new) = ToSet(acc) \ {s}
  BY <1>1, ListedFacts, WithoutFacts
<1>3. \A a, b : Before(new, a, b) <=> Before(acc, a, b) /\ a # s /\ b # s
  BY <1>1, <1>2, BeforeWithout
<1>4. NONE \notin Slot
  BY ClientAssumption DEF Slot
<1>5. /\ \A x \in Slot : u.prev[x] = IF x = t.next[s] THEN NONE ELSE t.prev[x]
      /\ \A x \in Slot : u.next[x] = IF x = s THEN NONE ELSE t.next[x]
      /\ \A f \in Entry : u.tail[f] = IF t.tail[f] = s THEN NONE ELSE t.tail[f]
  BY DEF Unlinked
<1>6. /\ \A x \in ToSet(acc) : t.next[x] # NONE =>
           /\ t.next[x] \in ToSet(acc) /\ t.prev[t.next[x]] = x
           /\ t.pool[x].entry # NONE /\ t.pool[t.next[x]].entry = t.pool[x].entry
           /\ \A y \in ToSet(acc) :
                t.pool[y].entry = t.pool[x].entry /\ Before(acc, y, t.next[x])
                  => y = x \/ Before(acc, y, x)
      /\ \A x \in ToSet(acc) : t.prev[x] # NONE => t.prev[x] \in ToSet(acc) /\ t.next[t.prev[x]] = x
  BY DEF Chains
<1>7. \A x \in Slot \ ToSet(new) : u.prev[x] = NONE /\ u.next[x] = NONE
  BY <1>2, <1>5 DEF Chains
<1>8. \A y \in ToSet(acc) :
        t.pool[s].entry # NONE /\ t.pool[y].entry = t.pool[s].entry => ~Before(acc, y, s)
  BY DEF Chains
<1>9. ASSUME NEW x \in ToSet(new), u.next[x] # NONE
      PROVE  /\ u.next[x] \in ToSet(new) /\ u.prev[u.next[x]] = x
             /\ u.pool[x].entry # NONE /\ u.pool[u.next[x]].entry = u.pool[x].entry
             /\ \A y \in ToSet(new) :
                  u.pool[y].entry = u.pool[x].entry /\ Before(new, y, u.next[x])
                    => y = x \/ Before(new, y, x)
  <2>1. x \in ToSet(acc) /\ x # s /\ x \in Slot /\ u.next[x] = t.next[x]
    BY <1>2, <1>5
  <2>2. PICK n : n = t.next[x]
    OBVIOUS
  <2>3. n \in ToSet(acc) /\ n \in Slot /\ t.prev[n] = x /\ n # s
    BY <1>2, <1>4, <1>6, <1>9, <2>1, <2>2
  <2>4. n # t.next[s]
    BY <1>6, <1>9, <2>1, <2>2, <2>3
  <2>5. u.prev[n] = x /\ n \in ToSet(new)
    BY <1>2, <1>5, <2>3, <2>4
  <2>6. /\ u.pool[x].entry # NONE /\ u.pool[n].entry = u.pool[x].entry
        /\ u.pool[x] = t.pool[x]
    BY <1>6, <1>9, <2>1, <2>2, <2>3
  <2>7. ASSUME NEW y \in ToSet(new), u.pool[y].entry = u.pool[x].entry, Before(new, y, n)
        PROVE  y = x \/ Before(new, y, x)
    <3>1. y \in ToSet(acc) /\ y # s /\ t.pool[y].entry = t.pool[x].entry /\ Before(acc, y, n)
      BY <1>2, <1>3, <2>6, <2>7
    <3>2. y = x \/ Before(acc, y, x)
      BY <1>6, <1>9, <2>1, <2>2, <3>1
    <3> QED
      BY <1>3, <2>1, <3>1, <3>2
  <2> QED
    BY <2>1, <2>2, <2>5, <2>6, <2>7
<1>10. ASSUME NEW x \in ToSet(new), u.prev[x] # NONE
       PROVE  u.prev[x] \in ToSet(new) /\ u.next[u.prev[x]] = x
  <2>1. x # t.next[s] /\ u.prev[x] = t.prev[x] /\ x \in ToSet(acc)
    BY <1>2, <1>5, <1>10
  <2>2. PICK y : y = t.prev[x]
    OBVIOUS
  <2>3. y \in ToSet(acc) /\ t.next[y] = x /\ y # s
    BY <1>6, <1>10, <2>1, <2>2
  <2> QED
    BY <1>2, <1>5, <2>1, <2>2, <2>3
<1>11. ASSUME NEW y \in ToSet(new), NEW x \in ToSet(new),
              u.pool[y].entry = u.pool[x].entry, u.pool[x].entry # NONE, Before(new, y, x)
       PROVE  u.prev[x] # NONE
  <2>1. /\ y \in ToSet(acc) /\ y # s /\ x \in ToSet(acc) /\ x # s /\ x \in Slot
        /\ t.pool[y].entry = t.pool[x].entry /\ t.pool[x].entry # NONE /\ Before(acc, y, x)
    BY <1>2, <1>3, <1>11
  <2>2. t.prev[x] # NONE
    BY <2>1 DEF Chains
  <2>3. ASSUME x = t.next[s] PROVE FALSE
    <3>1. t.next[s] # NONE
      BY <1>4, <2>1, <2>3
    <3>2. t.pool[s].entry # NONE /\ t.pool[x].entry = t.pool[s].entry /\ Before(acc, y, s)
      BY <1>6, <2>1, <2>3, <3>1
    <3> QED
      BY <1>8, <2>1, <3>2
  <2> QED
    BY <1>5, <2>1, <2>2, <2>3
<1>12. ASSUME NEW f \in Entry
       PROVE  IF u.tail[f] = NONE THEN \A x \in ToSet(new) : u.pool[x].entry # f
              ELSE /\ u.tail[f] \in ToSet(new) /\ u.pool[u.tail[f]].entry = f
                   /\ u.next[u.tail[f]] = NONE
                   /\ \A x \in ToSet(new) :
                        u.pool[x].entry = f => x = u.tail[f] \/ Before(new, x, u.tail[f])
  <2>0. s # NONE /\ f # NONE
    BY <1>2, <1>4, ClientAssumption
  <2>1. CASE t.tail[f] = s
    <3>1. t.pool[s].entry = f /\ \A y \in ToSet(acc) : t.pool[y].entry = f => y = s \/ Before(acc, y, s)
      BY <2>0, <2>1 DEF Chains
    <3> QED
      BY <1>2, <1>5, <1>8, <2>0, <2>1, <3>1
  <2>2. CASE t.tail[f] # s /\ t.tail[f] = NONE
    <3>1. \A x \in ToSet(acc) : t.pool[x].entry # f
      BY <2>2 DEF Chains
    <3> QED
      BY <1>2, <1>5, <2>2, <3>1
  <2>3. CASE t.tail[f] # s /\ t.tail[f] # NONE
    <3>1. PICK x : x = t.tail[f]
      OBVIOUS
    <3>2. /\ x \in ToSet(acc) /\ t.pool[x].entry = f /\ t.next[x] = NONE
          /\ \A y \in ToSet(acc) : t.pool[y].entry = f => y = x \/ Before(acc, y, x)
      BY <2>3, <3>1 DEF Chains
    <3>3. u.tail[f] = x /\ x \in ToSet(new) /\ u.next[x] = NONE /\ u.pool[x].entry = f
      BY <1>2, <1>5, <2>3, <3>1, <3>2
    <3>4. \A y \in ToSet(new) : u.pool[y].entry = f => y = x \/ Before(new, y, x)
      BY <1>2, <1>3, <2>3, <3>1, <3>2
    <3> QED
      BY <2>3, <3>1, <3>3, <3>4
  <2> QED
    BY <2>1, <2>2, <2>3
<1>13. ASSUME NEW x \in ToSet(new), u.pool[x].entry # NONE, u.next[x] = NONE
       PROVE  u.tail[u.pool[x].entry] = x
  <2>1. x \in ToSet(acc) /\ x # s /\ x \in Slot /\ u.pool[x] = t.pool[x]
    BY <1>2
  <2>2. t.next[x] = NONE
    BY <1>5, <1>13, <2>1
  <2>3. t.tail[t.pool[x].entry] = x
    BY <1>13, <2>1, <2>2 DEF Chains
  <2>4. t.pool[x].entry \in Entry
    <3>1. t.pool[x] \in Request
      BY <2>1, ListedFacts
    <3> QED
      BY <1>13, <2>1, <3>1, RequestParts
  <2> QED
    BY <1>5, <2>1, <2>3, <2>4
<1> QED
  BY <1>1, <1>7, <1>9, <1>10, <1>11, <1>12, <1>13 DEF Chains
-----------------------------------------------------------------------------
\* What is under way stays so: the first request of a die, the transfers.
KeepsStarted(t, u) ==
  /\ ToSet(t.nvmeDma) \subseteq ToSet(u.nvmeDma)
  /\ \A d \in Die : t.nand[d] # <<>> => u.nand[d] # <<>> /\ Head(u.nand[d]) = Head(t.nand[d])

LEMMA HeadOfAppend ==
  ASSUME NEW S, NEW list \in Seq(S), NEW x \in S, list # <<>>
  PROVE  Append(list, x) # <<>> /\ Head(Append(list, x)) = Head(list)
BY AppendProperties, HeadTailProperties, EmptySeq, LenProperties

LEMMA IssueNvmeDmaFacts ==
  ASSUME NEW t \in Tables, NEW s \in Slot, NEW u, u = IssueNvmeDma(t, s)
  PROVE  /\ u \in Tables /\ u.pool = t.pool /\ u.nvmeDma = Append(t.nvmeDma, s)
         /\ u.nand = t.nand /\ u.blockedByRow = t.blockedByRow
         /\ SameChains(t, u) /\ SameRows(t, u) /\ SameTurns(t, u)
<1>1. PICK x \in Seq(Slot) : x = Append(t.nvmeDma, s)
  BY TableTypes, AppendFacts
<1>2. u = [t EXCEPT !.nvmeDma = x]
  BY <1>1 DEF IssueNvmeDma
<1> QED
  BY <1>1, <1>2 DEF Tables, SameChains, SameRows, SameTurns

\* A transfer that is let go.
LEMMA DmaGoes ==
  ASSUME NEW t \in Tables, NEW acc, Listed(t, acc), NEW w, NEW H, RowInv(t, acc, w, H),
         NEW s \in H, IsDma(t.pool[s]), NEW u, u = IssueNvmeDma(t, s)
  PROVE  RowInv(u, acc, w, H \ {s})
<1>1. s \in ToSet(acc) /\ s \in Slot
  BY ListedFacts DEF RowInv, Placed
<1>2. /\ u \in Tables /\ u.pool = t.pool /\ u.nvmeDma = Append(t.nvmeDma, s)
      /\ u.nand = t.nand /\ u.blockedByRow = t.blockedByRow
      /\ SameChains(t, u) /\ SameRows(t, u) /\ SameTurns(t, u)
  BY <1>1, IssueNvmeDmaFacts
<1>3. s \notin ToSet(t.nvmeDma) /\ Distinct(t.nvmeDma) /\ t.nvmeDma \in Seq(Slot)
  BY <1>1, TableTypes DEF RowInv, Placed
<1>4. ToSet(u.nvmeDma) = ToSet(t.nvmeDma) \cup {s} /\ Distinct(u.nvmeDma)
  BY <1>1, <1>2, <1>3, AppendFacts
<1>5. Placed(u, acc, H \ {s})
  <2>1. /\ H \ {s} \subseteq ToSet(acc)
        /\ \A x \in H \ {s} : u.pool[x].code # "READ_TRANSFER"
        /\ \A x \in ToSet(u.nvmeDma) : x \in ToSet(acc) /\ IsDma(u.pool[x])
        /\ \A x \in ToSet(acc) :
             IsDma(u.pool[x]) => (x \in ToSet(u.nvmeDma) <=> x \notin H \ {s})
    BY <1>1, <1>2, <1>4 DEF RowInv, Placed
  <2>2. ASSUME NEW d \in Die
        PROVE  /\ Distinct(u.nand[d])
               /\ \A x \in ToSet(u.nand[d]) : OnDie(u, acc, d, x)
               /\ \A x \in ToSet(acc) : OnDie(u, acc, d, x)
                    => (x \in ToSet(u.nand[d]) <=> x \notin H \ {s})
    BY <1>2 DEF RowInv, Placed, OnDie
  <2> QED
    BY <1>4, <2>1, <2>2 DEF Placed
<1>6. NandOrdered(u, acc)
  BY <1>2 DEF RowInv, NandOrdered
<1>7. \A d, b : /\ HeldOn(u, H \ {s}, "READ", d, b) = HeldOn(t, H, "READ", d, b)
                /\ HeldOn(u, H \ {s}, "WRITE", d, b) = HeldOn(t, H, "WRITE", d, b)
                /\ HeldOn(u, H \ {s}, "ERASE", d, b) = HeldOn(t, H, "ERASE", d, b)
  BY <1>2 DEF HeldOn, IsDma
<1>8. Counted(u, H \ {s})
  <2> SUFFICES ASSUME NEW d \in Die, NEW b \in Block
               PROVE  /\ u.blockedReadReqCnt[d][b] = Cardinality(HeldOn(u, H \ {s}, "READ", d, b))
                      /\ u.blockedEraseReqFlag[d][b] <=> HeldOn(u, H \ {s}, "ERASE", d, b) # {}
                      /\ \A e, f \in HeldOn(u, H \ {s}, "ERASE", d, b) : e = f
    BY DEF Counted
  <2>1. /\ t.blockedReadReqCnt[d][b] = Cardinality(HeldOn(t, H, "READ", d, b))
        /\ t.blockedEraseReqFlag[d][b] <=> HeldOn(t, H, "ERASE", d, b) # {}
        /\ \A e, f \in HeldOn(t, H, "ERASE", d, b) : e = f
    BY DEF RowInv, Counted
  <2> QED
    BY <1>2, <1>7, <2>1 DEF SameRows
<1>9. RowsFit(u, acc, w, H \ {s})
  <2> SUFFICES ASSUME NEW d \in Die, NEW b \in Block
               PROVE  /\ WritesAt(u.pool, acc, u.permittedProgPage[d][b], w[d][b],
                                  HeldOn(u, H \ {s}, "ERASE", d, b),
                                  HeldOn(u, H \ {s}, "WRITE", d, b))
                      /\ ReadsAt(u.pool, acc, w[d][b], HeldOn(u, H \ {s}, "ERASE", d, b),
                                 HeldOn(u, H \ {s}, "WRITE", d, b),
                                 HeldOn(u, H \ {s}, "READ", d, b))
    BY DEF RowsFit
  <2>1. /\ WritesAt(t.pool, acc, t.permittedProgPage[d][b], w[d][b],
                    HeldOn(t, H, "ERASE", d, b), HeldOn(t, H, "WRITE", d, b))
        /\ ReadsAt(t.pool, acc, w[d][b], HeldOn(t, H, "ERASE", d, b),
                   HeldOn(t, H, "WRITE", d, b), HeldOn(t, H, "READ", d, b))
    BY DEF RowInv, RowsFit
  <2> QED
    BY <1>2, <1>7, <2>1 DEF SameRows
<1> QED
  BY <1>5, <1>6, <1>8, <1>9 DEF RowInv

-----------------------------------------------------------------------------
\* Slot s holds r.
WithPool(t, s, r) == [t EXCEPT !.pool[s] = r]

\* The tables u hold r in slot s, and in the others what t holds.
PoolWith(t, u, s, r) == u.pool = [t.pool EXCEPT ![s] = r]

LEMMA TakeFacts ==
  ASSUME NEW t \in Tables, NEW s \in Slot, NEW r \in Request,
         NEW u, u = WithPool(t, s, r)
  PROVE  /\ u \in Tables /\ PoolWith(t, u, s, r)
         /\ SameQueues(t, u) /\ SameChains(t, u) /\ SameRows(t, u) /\ SameTurns(t, u)
<1>1. PICK x \in [Slot -> Request \cup {NONE}] : x = [t.pool EXCEPT ![s] = r]
  BY TableTypes
<1>2. u = [t EXCEPT !.pool = x]
  BY <1>1 DEF WithPool
<1> QED
  BY <1>1, <1>2 DEF Tables, PoolWith, SameQueues, SameChains, SameRows, SameTurns

\* Chain links the request in s behind the last one on its entry.
LEMMA ChainFacts ==
  ASSUME NEW t \in Tables, NEW s \in Slot, NEW r \in Request, t.prev[s] = NONE,
         NEW u, u = Chain(t, r, s)
  PROVE  /\ u \in Tables /\ u.pool = t.pool /\ u.blockedByBuf = t.blockedByBuf
         /\ SameQueues(t, u) /\ SameRows(t, u) /\ SameTurns(t, u)
         /\ Linked(t, u, s, r.entry)
<1>1. NONE \notin Slot /\ NONE \notin Entry
  BY ClientAssumption DEF Slot
<1>2. PICK e : e = r.entry
  OBVIOUS
<1>3. CASE e = NONE
  <2>1. u = t
    BY <1>2, <1>3 DEF Chain
  <2> QED
    BY <1>1, <1>2, <1>3, <2>1 DEF Linked, SameQueues, SameRows, SameTurns
<1>4. CASE e # NONE
  <2>1. e \in Entry
    BY <1>2, <1>4, RequestParts
  <2>2. PICK last : last = t.tail[e]
    OBVIOUS
  <2>3. PICK tails \in [Entry -> Slot \cup {NONE}] : tails = [t.tail EXCEPT ![e] = s]
    BY TableTypes
  <2>4. \A f \in Entry : tails[f] = IF f = e THEN s ELSE t.tail[f]
    BY <2>3, TableTypes
  <2>5. CASE last = NONE
    <3>1. u = [t EXCEPT !.tail = tails]
      BY <1>2, <1>4, <2>2, <2>3, <2>5 DEF Chain, UpdateBlockingReq
    <3>2. /\ u \in Tables /\ u.pool = t.pool /\ u.blockedByBuf = t.blockedByBuf
          /\ SameQueues(t, u) /\ SameRows(t, u) /\ SameTurns(t, u)
          /\ u.tail = tails /\ u.prev = t.prev /\ u.next = t.next
      BY <3>1 DEF Tables, SameQueues, SameRows, SameTurns
    <3> QED
      BY <1>1, <1>2, <2>2, <2>4, <2>5, <3>2 DEF Linked
  <2>6. CASE last # NONE
    <3>1. last \in Slot
      BY <2>1, <2>2, <2>6, TableTypes
    <3>2. PICK prevs \in [Slot -> Slot \cup {NONE}] : prevs = [t.prev EXCEPT ![s] = last]
      BY <3>1, TableTypes
    <3>3. \A x \in Slot : prevs[x] = IF x = s THEN last ELSE t.prev[x]
      BY <3>2, TableTypes
    <3>4. PICK nexts \in [Slot -> Slot \cup {NONE}] : nexts = [t.next EXCEPT ![last] = s]
      BY TableTypes
    <3>5. \A x \in Slot : nexts[x] = IF x = last THEN s ELSE t.next[x]
      BY <3>4, TableTypes
    <3>6. u = [t EXCEPT !.tail = tails, !.prev = prevs, !.next = nexts]
      BY <1>2, <1>4, <2>2, <2>3, <2>6, <3>2, <3>4 DEF Chain, UpdateBlockingReq, Tables
    <3>7. /\ u \in Tables /\ u.pool = t.pool /\ u.blockedByBuf = t.blockedByBuf
          /\ SameQueues(t, u) /\ SameRows(t, u) /\ SameTurns(t, u)
          /\ u.tail = tails /\ u.prev = prevs /\ u.next = nexts
      BY <3>6 DEF Tables, SameQueues, SameRows, SameTurns
    <3> QED
      BY <1>2, <1>4, <2>2, <2>4, <3>3, <3>5, <3>7 DEF Linked
  <2> QED
    BY <2>5, <2>6
<1> QED
  BY <1>3, <1>4

\* HoldUp touches no list and no chain.
LEMMA HoldUpKeeps ==
  ASSUME NEW t \in Tables, NEW r \in Request, NEW m, m = HoldUp(t, r)
  PROVE  /\ m \in Tables /\ m.pool = t.pool
         /\ SameQueues(t, m) /\ SameChains(t, m) /\ SameTurns(t, m)
<1>1. CASE IsDma(r)
  <2>1. m = t
    BY <1>1 DEF HoldUp, IsDma
  <2> QED
    BY <2>1 DEF SameQueues, SameChains, SameTurns
<1>2. CASE ~IsDma(r)
  <2>1. PICK d, b : d = r.die /\ b = r.block
    OBVIOUS
  <2> QED
    BY <1>2, <2>1, HoldUpFacts
<1> QED
  BY <1>1, <1>2

\* A request that is submitted, held up for the time being.
LEMMA Accepted ==
  ASSUME NEW t \in Tables, NEW acc, Listed(t, acc),
         NEW w \in [Die -> [Block -> 0..Pages]], NEW new \in [Die -> [Block -> 0..Pages]],
         NEW H, RowInv(t, acc, w, H), NEW s \in Slot, s \notin ToSet(acc),
         NEW r \in Request, MaySubmit(t, w, r, new),
         NEW u \in Tables, u.pool = [t.pool EXCEPT ![s] = r], SameQueues(t, u), SameRows(t, u),
         NEW m, m = HoldUp(u, r)
  PROVE  Listed(m, Append(acc, s)) /\ RowInv(m, Append(acc, s), new, H \cup {s})
<1>1. PICK longer : longer = Append(acc, s)
  OBVIOUS
<1>2. /\ acc \in Seq(Slot) /\ Distinct(acc) /\ ToSet(acc) \subseteq Slot
      /\ longer \in Seq(Slot) /\ Distinct(longer) /\ ToSet(longer) = ToSet(acc) \cup {s}
  BY <1>1, ListedFacts, AppendFacts
<1>3. \A a, b : Before(longer, a, b) <=> Before(acc, a, b) \/ (a \in ToSet(acc) /\ b = s)
  BY <1>1, <1>2, BeforeAppend
<1>4. \A a, b : Before(acc, a, b) => a \in ToSet(acc) /\ b \in ToSet(acc)
  BY <1>2, BeforeOrder
<1>5. u.pool[s] = r /\ \A x \in ToSet(acc) : u.pool[x] = t.pool[x]
  BY <1>2, TableTypes
<1>6. r # NONE /\ u.pool[s] \in Request
  BY <1>5, RequestParts
<1>7. Listed(u, longer)
  <2>1. ASSUME NEW x \in Slot PROVE u.pool[x] # NONE <=> x \in ToSet(longer)
    BY <1>2, <1>6, TableTypes DEF Listed
  <2> QED
    BY <1>2, <2>1 DEF Listed
<1>8. H \subseteq ToSet(acc) /\ s \notin H /\ \A x \in H : t.pool[x].code # "READ_TRANSFER"
  BY DEF RowInv, Placed
<1>9. Counted(u, H) /\ RowsFit(u, longer, w, H)
  <2>1. \A x \in H : u.pool[x] = t.pool[x]
    BY <1>5, <1>8
  <2>2. \A x, y \in H : Before(longer, x, y) <=> Before(acc, x, y)
    BY <1>3, <1>8
  <2>3. Counted(t, H) /\ RowsFit(t, acc, w, H)
    BY DEF RowInv
  <2> QED
    BY <2>1, <2>2, <2>3, SameHeld
<1>10. MaySubmit(u, w, u.pool[s], new)
  BY <1>5 DEF MaySubmit, SameRows
<1>11. m = HoldUp(u, u.pool[s])
  BY <1>5
<1>12. H \subseteq ToSet(longer) /\ s \in ToSet(longer)
  BY <1>2, <1>8
<1>13. Counted(m, H \cup {s})
  BY <1>7, <1>8, <1>9, <1>10, <1>11, <1>12, HoldCounted
<1>14. \A x \in H : Before(longer, x, s) /\ u.pool[x].code # "READ_TRANSFER"
  BY <1>3, <1>5, <1>8
<1>15. RowsFit(m, longer, new, H \cup {s})
  BY <1>7, <1>8, <1>9, <1>10, <1>11, <1>12, <1>14, HoldFits
<1>16. /\ m \in Tables /\ m.pool = u.pool
       /\ m.nvmeDma = t.nvmeDma /\ m.nand = t.nand
  BY HoldUpKeeps DEF SameQueues
<1>17. Placed(m, longer, H \cup {s})
  <2>1. /\ H \cup {s} \subseteq ToSet(longer)
        /\ \A x \in H \cup {s} : m.pool[x].code # "READ_TRANSFER"
    <3>1. r.code # "READ_TRANSFER"
      BY DEF MaySubmit, IsDma
    <3> QED
      BY <1>2, <1>5, <1>8, <1>16, <3>1
  <2>2. Distinct(m.nvmeDma) /\ \A x \in ToSet(m.nvmeDma) : x \in ToSet(longer) /\ IsDma(m.pool[x])
    BY <1>2, <1>5, <1>16 DEF RowInv, Placed
  <2>3. \A x \in ToSet(longer) : IsDma(m.pool[x]) => (x \in ToSet(m.nvmeDma) <=> x \notin H \cup {s})
    <3>1. s \notin ToSet(m.nvmeDma)
      BY <1>16 DEF RowInv, Placed
    <3> QED
      BY <1>2, <1>5, <1>16, <3>1 DEF RowInv, Placed
  <2>4. ASSUME NEW d \in Die
        PROVE  /\ Distinct(m.nand[d])
               /\ \A x \in ToSet(m.nand[d]) : OnDie(m, longer, d, x)
               /\ \A x \in ToSet(longer) : OnDie(m, longer, d, x)
                    => (x \in ToSet(m.nand[d]) <=> x \notin H \cup {s})
    <3>1. /\ Distinct(t.nand[d])
          /\ \A x \in ToSet(t.nand[d]) : OnDie(t, acc, d, x)
          /\ \A x \in ToSet(acc) : OnDie(t, acc, d, x) => (x \in ToSet(t.nand[d]) <=> x \notin H)
      BY DEF RowInv, Placed
    <3>2. s \notin ToSet(t.nand[d])
      BY <3>1 DEF OnDie
    <3>3. \A x \in ToSet(acc) : OnDie(m, longer, d, x) <=> OnDie(t, acc, d, x)
      BY <1>2, <1>5, <1>16 DEF OnDie
    <3>4. \A x \in ToSet(t.nand[d]) : x \in ToSet(acc)
      BY <3>1 DEF OnDie
    <3> QED
      BY <1>2, <1>16, <3>1, <3>2, <3>3, <3>4
  <2> QED
    BY <2>1, <2>2, <2>3, <2>4 DEF Placed
<1>18. NandOrdered(m, longer)
  <2> SUFFICES ASSUME NEW d \in Die, NEW j \in DOMAIN m.nand[d], NEW x \in ToSet(longer),
                      Before(longer, x, m.nand[d][j]),
                      RowConflict(m.pool[x], m.pool[m.nand[d][j]])
               PROVE  \E i \in DOMAIN m.nand[d] : i < j /\ m.nand[d][i] = x
    BY DEF NandOrdered
  <2>1. PICK y : y = t.nand[d][j]
    OBVIOUS
  <2>2. y \in ToSet(t.nand[d])
    BY <1>16, <2>1 DEF ToSet
  <2>3. y \in ToSet(acc) /\ y # s
    BY <2>2 DEF RowInv, Placed, OnDie
  <2>4. Before(acc, x, y) /\ x \in ToSet(acc)
    BY <1>3, <1>4, <1>16, <2>1, <2>3
  <2>5. RowConflict(t.pool[x], t.pool[y])
    BY <1>5, <1>16, <2>1, <2>3, <2>4
  <2> QED
    BY <1>16, <2>1, <2>4, <2>5 DEF RowInv, NandOrdered
<1>19. Listed(m, longer)
  BY <1>7, <1>16 DEF Listed
<1> QED
  BY <1>1, <1>13, <1>15, <1>17, <1>18, <1>19 DEF RowInv

-----------------------------------------------------------------------------
\* What is held up is in one of the two lists.
LEMMA HeldUpParts ==
  ASSUME NEW t
  PROVE  \A x : x \in HeldUp(t) <=>
                  x \in t.blockedByBuf \/ \E d \in Die : x \in ToSet(t.blockedByRow[d])
BY DEF HeldUp

\* The chains depend on their links and on the entries of the requests only.
LEMMA ChainsSame ==
  ASSUME NEW t, NEW acc, Chains(t, acc), NEW u, u.pool = t.pool,
         u.prev = t.prev, u.next = t.next, u.tail = t.tail
  PROVE  Chains(u, acc)
BY DEF Chains

\* RowInv depends on nothing that a chain or a turn changes.
LEMMA RowInvSame ==
  ASSUME NEW t, NEW acc, NEW w, NEW H, RowInv(t, acc, w, H), NEW u, u.pool = t.pool,
         u.nvmeDma = t.nvmeDma, u.nand = t.nand, SameRows(t, u)
  PROVE  RowInv(u, acc, w, H)
<1>1. Placed(u, acc, H)
  BY DEF RowInv, Placed, OnDie
<1>2. NandOrdered(u, acc)
  BY DEF RowInv, NandOrdered
<1>3. Counted(u, H) /\ RowsFit(u, acc, w, H)
  <2>1. \A x \in H : u.pool[x] = t.pool[x]
    OBVIOUS
  <2>2. \A x, y \in H : Before(acc, x, y) <=> Before(acc, x, y)
    OBVIOUS
  <2>3. Counted(t, H) /\ RowsFit(t, acc, w, H)
    BY DEF RowInv
  <2> QED
    BY <2>1, <2>2, <2>3, SameHeld
<1> QED
  BY <1>1, <1>2, <1>3 DEF RowInv

\* A request that waits for nothing but its row goes on.
GoesOn(t, u, s) ==
  \/ IsDma(t.pool[s]) /\ u = IssueNvmeDma(t, s)
  \/ /\ ~IsDma(t.pool[s]) /\ Permitted(t, t.pool[s]) /\ LetGo(t, u, s, t.pool[s])
     /\ u.blockedByRow = t.blockedByRow /\ SameChains(t, u) /\ SameTurns(t, u)
  \/ ~IsDma(t.pool[s]) /\ u = PutToBlockedByRow(t, s)

LEMMA GoesOnSound ==
  ASSUME NEW t \in Tables, NEW acc, Listed(t, acc), Chains(t, acc),
         BufQueue(t), RowQueues(t, acc), NEW w \in [Die -> [Block -> 0..Pages]],
         NEW s \in Slot, s \notin HeldUp(t), RowInv(t, acc, w, HeldUp(t) \cup {s}),
         NEW u, GoesOn(t, u, s)
  PROVE  Sound(u, acc, w) /\ KeepsStarted(t, u) /\ u.pool = t.pool /\ SameTurns(t, u)
<1>1. PICK H : H = HeldUp(t)
  OBVIOUS
<1>2. /\ RowInv(t, acc, w, H \cup {s}) /\ s \in H \cup {s} /\ (H \cup {s}) \ {s} = H
      /\ s \in ToSet(acc) /\ t.pool[s] \in Request
  BY <1>1, ListedFacts DEF RowInv, Placed
<1>3. CASE IsDma(t.pool[s]) /\ u = IssueNvmeDma(t, s)
  <2>1. /\ u \in Tables /\ u.pool = t.pool /\ u.nvmeDma = Append(t.nvmeDma, s)
        /\ u.nand = t.nand /\ u.blockedByRow = t.blockedByRow
        /\ SameChains(t, u) /\ SameRows(t, u) /\ SameTurns(t, u)
        /\ RowInv(u, acc, w, H)
    <3>1. PICK G : G = H \cup {s}
      OBVIOUS
    <3>2. RowInv(t, acc, w, G) /\ s \in G
      BY <1>2, <3>1
    <3>3. RowInv(u, acc, w, G \ {s})
      BY <1>3, <3>2, DmaGoes
    <3>4. /\ u \in Tables /\ u.pool = t.pool /\ u.nvmeDma = Append(t.nvmeDma, s)
          /\ u.nand = t.nand /\ u.blockedByRow = t.blockedByRow
          /\ SameChains(t, u) /\ SameRows(t, u) /\ SameTurns(t, u)
      BY <1>3, IssueNvmeDmaFacts
    <3> QED
      BY <1>2, <3>1, <3>3, <3>4
  <2>2. HeldUp(u) = H
    BY <1>1, <2>1 DEF HeldUp, SameChains
  <2>3. Listed(u, acc) /\ BufQueue(u) /\ RowQueues(u, acc)
    BY <2>1 DEF Listed, BufQueue, RowQueues, OnDie, SameChains
  <2>4. Chains(u, acc)
    BY <2>1, ChainsSame DEF SameChains
  <2>5. ToSet(u.nvmeDma) = ToSet(t.nvmeDma) \cup {s}
    BY <2>1, TableTypes, AppendFacts
  <2>6. KeepsStarted(t, u)
    BY <2>1, <2>5 DEF KeepsStarted
  <2> QED
    BY <2>1, <2>2, <2>3, <2>4, <2>6 DEF Sound
<1>4. CASE /\ ~IsDma(t.pool[s]) /\ Permitted(t, t.pool[s]) /\ LetGo(t, u, s, t.pool[s])
           /\ u.blockedByRow = t.blockedByRow /\ SameChains(t, u) /\ SameTurns(t, u)
  <2>1. /\ u \in Tables /\ u.pool = t.pool /\ u.nvmeDma = t.nvmeDma
        /\ u.nand = [t.nand EXCEPT ![t.pool[s].die] = Append(@, s)]
    BY <1>4 DEF LetGo
  <2>2. RowInv(u, acc, w, H)
    <3>1. RowInv(u, acc, w, (H \cup {s}) \ {s})
      BY <1>2, <1>4, LetGoKeeps
    <3> QED
      BY <1>2, <3>1
  <2>3. HeldUp(u) = H
    BY <1>1, <1>4, <2>1 DEF HeldUp, SameChains
  <2>4. Listed(u, acc) /\ BufQueue(u) /\ RowQueues(u, acc)
    BY <1>4, <2>1 DEF Listed, BufQueue, RowQueues, OnDie, SameChains
  <2>5. Chains(u, acc)
    BY <1>4, <2>1, ChainsSame DEF SameChains
  <2>6. KeepsStarted(t, u)
    <3> SUFFICES ASSUME NEW d \in Die, t.nand[d] # <<>>
                 PROVE  u.nand[d] # <<>> /\ Head(u.nand[d]) = Head(t.nand[d])
      BY <2>1 DEF KeepsStarted
    <3>1. CASE d = t.pool[s].die
      <4>1. u.nand[d] = Append(t.nand[d], s) /\ t.nand[d] \in Seq(Slot)
        BY <2>1, <3>1, TableTypes
      <4> QED
        BY <4>1, HeadOfAppend
    <3>2. CASE d # t.pool[s].die
      <4>1. u.nand[d] = t.nand[d]
        BY <2>1, <3>2, TableTypes
      <4> QED
        BY <4>1
    <3> QED
      BY <3>1, <3>2
  <2> QED
    BY <1>4, <2>1, <2>2, <2>3, <2>4, <2>5, <2>6 DEF Sound
<1>5. CASE ~IsDma(t.pool[s]) /\ u = PutToBlockedByRow(t, s)
  <2>1. PICK d \in Die : d = t.pool[s].die
    BY <1>2, <1>5, RequestParts
  <2>2. /\ u \in Tables /\ u.pool = t.pool
        /\ u.blockedByRow = [t.blockedByRow EXCEPT ![d] = Append(@, s)]
        /\ u.nand = t.nand /\ u.nvmeDma = t.nvmeDma
        /\ SameChains(t, u) /\ SameRows(t, u) /\ SameTurns(t, u)
    BY <1>5, <2>1, RowListFacts
  <2>3. PICK list, new : list = t.blockedByRow[d] /\ new = Append(list, s)
    OBVIOUS
  <2>4. /\ list \in Seq(Slot) /\ t.blockedByRow \in [Die -> Seq(Slot)]
        /\ u.blockedByRow[d] = new /\ \A x \in Die \ {d} : u.blockedByRow[x] = t.blockedByRow[x]
    BY <2>2, <2>3, TableTypes
  <2>5. \A x \in Die : s \notin ToSet(t.blockedByRow[x])
    BY HeldUpParts
  <2>6. ToSet(new) = ToSet(list) \cup {s} /\ Distinct(list) /\ Distinct(new)
    <3>1. Distinct(list) /\ s \notin ToSet(list)
      BY <2>3, <2>5 DEF RowQueues
    <3> QED
      BY <2>3, <2>4, <3>1, AppendFacts
  <2>7. HeldUp(u) = H \cup {s}
    <3>1. u.blockedByBuf = t.blockedByBuf
      BY <2>2 DEF SameChains
    <3>2. \A x : (\E y \in Die : x \in ToSet(u.blockedByRow[y]))
                   <=> x = s \/ \E y \in Die : x \in ToSet(t.blockedByRow[y])
      BY <2>3, <2>4, <2>6
    <3>3. \A x : x \in HeldUp(u) <=> x \in H \cup {s}
      BY <1>1, <3>1, <3>2, HeldUpParts
    <3> QED
      BY <3>3
  <2>8. Listed(u, acc) /\ BufQueue(u)
    BY <2>2 DEF Listed, BufQueue, SameChains
  <2>9. RowQueues(u, acc)
    <3> SUFFICES ASSUME NEW y \in Die
                 PROVE  /\ Distinct(u.blockedByRow[y])
                        /\ \A x \in ToSet(u.blockedByRow[y]) :
                             OnDie(u, acc, y, x) /\ x \notin u.blockedByBuf
      BY DEF RowQueues
    <3>1. /\ Distinct(t.blockedByRow[y])
          /\ \A x \in ToSet(t.blockedByRow[y]) : OnDie(u, acc, y, x) /\ x \notin u.blockedByBuf
      BY <2>2 DEF RowQueues, OnDie, SameChains
    <3>2. CASE y = d
      <4>1. OnDie(u, acc, y, s) /\ s \notin u.blockedByBuf
        BY <1>2, <1>5, <2>1, <2>2, <3>2, HeldUpParts DEF OnDie, SameChains
      <4> QED
        BY <2>3, <2>4, <2>6, <3>1, <3>2, <4>1
    <3>3. CASE y # d
      BY <2>4, <3>1, <3>3
    <3> QED
      BY <3>2, <3>3
  <2>10. Chains(u, acc)
    BY <2>2, ChainsSame DEF SameChains
  <2>11. RowInv(u, acc, w, H \cup {s})
    BY <1>2, <2>2, RowInvSame
  <2>12. KeepsStarted(t, u)
    BY <2>2 DEF KeepsStarted
  <2> QED
    BY <2>2, <2>7, <2>8, <2>9, <2>10, <2>11, <2>12 DEF Sound
<1> QED
  BY <1>3, <1>4, <1>5 DEF GoesOn

\* Submit, for a request that the client may submit.
LEMMA SubmitSound ==
  ASSUME NEW t, NEW acc, NEW w \in [Die -> [Block -> 0..Pages]], Sound(t, acc, w),
         NEW new \in [Die -> [Block -> 0..Pages]], NEW s \in Slot, t.pool[s] = NONE,
         NEW r \in Request, MaySubmit(t, w, r, new),
         NEW t0, t0 = WithPool(t, s, r),
         NEW u, u = SelectLowLevelReqQ(Chain(t0, r, s), s)
  PROVE  /\ Sound(u, Append(acc, s), new) /\ KeepsStarted(t, u) /\ SameTurns(t, u)
         /\ PoolWith(t, u, s, r)
<1>1. t \in Tables /\ Listed(t, acc) /\ Chains(t, acc) /\ BufQueue(t) /\ RowQueues(t, acc)
  BY DEF Sound
<1>2. PICK H : H = HeldUp(t) /\ RowInv(t, acc, w, H)
  BY DEF Sound
<1>3. s \notin ToSet(acc)
  BY <1>1 DEF Listed
<1>4. PICK longer : longer = Append(acc, s)
  OBVIOUS
<1>5. ToSet(longer) = ToSet(acc) \cup {s}
  BY <1>1, <1>4, ListedFacts, AppendFacts
<1>7. /\ t0 \in Tables /\ t0.pool = [t.pool EXCEPT ![s] = r]
      /\ SameQueues(t, t0) /\ SameChains(t, t0) /\ SameRows(t, t0) /\ SameTurns(t, t0)
  BY <1>1, TakeFacts DEF PoolWith
<1>8. t.prev[s] = NONE /\ t0.prev[s] = NONE
  BY <1>1, <1>3, <1>7 DEF Chains, SameChains
<1>9. PICK t1 : t1 = Chain(t0, r, s)
  OBVIOUS
<1>10. /\ t1 \in Tables /\ t1.pool = t0.pool /\ t1.blockedByBuf = t0.blockedByBuf
       /\ SameQueues(t0, t1) /\ SameRows(t0, t1) /\ SameTurns(t0, t1)
       /\ Linked(t0, t1, s, r.entry)
  BY <1>7, <1>8, <1>9, ChainFacts
<1>11. /\ t1.pool = [t.pool EXCEPT ![s] = r] /\ t1.blockedByBuf = t.blockedByBuf
       /\ SameQueues(t, t1) /\ SameRows(t, t1) /\ SameTurns(t, t1)
  BY <1>7, <1>10 DEF SameQueues, SameRows, SameTurns, SameChains
<1>12. Linked(t, t1, s, r.entry)
  BY <1>7, <1>10 DEF Linked, SameChains
<1>13. t1.pool[s] = r /\ \A x \in ToSet(acc) : t1.pool[x] = t.pool[x]
  <2>1. ToSet(acc) \subseteq Slot
    BY <1>1, ListedFacts
  <2> QED
    BY <1>1, <1>3, <1>11, <2>1, TableTypes
<1>14. Chains(t1, longer)
  BY <1>1, <1>3, <1>4, <1>10, <1>12, <1>13, ChainsAppend
<1>15. PICK m : m = HoldUp(t1, r)
  OBVIOUS
<1>16. /\ m \in Tables /\ m.pool = t1.pool
       /\ SameQueues(t1, m) /\ SameChains(t1, m) /\ SameTurns(t1, m)
  BY <1>10, <1>15, HoldUpKeeps
<1>17. Listed(m, longer) /\ RowInv(m, longer, new, H \cup {s})
  BY <1>1, <1>2, <1>3, <1>4, <1>10, <1>11, <1>15, Accepted
<1>18. Chains(m, longer)
  BY <1>14, <1>16, ChainsSame DEF SameChains
<1>19. s \notin H
  BY <1>2, <1>3 DEF RowInv, Placed
<1>20. m.blockedByBuf = t.blockedByBuf /\ m.blockedByRow = t.blockedByRow
  BY <1>11, <1>16 DEF SameChains, SameQueues
<1>21. HeldUp(m) = H
  BY <1>2, <1>20 DEF HeldUp
<1>22. \A x \in Slot : x # s => m.prev[x] = t.prev[x]
  BY <1>12, <1>16 DEF Linked, SameChains
<1>23. s \notin t.blockedByBuf
  BY <1>2, <1>19, HeldUpParts
<1>24. RowQueues(m, longer)
  <2> SUFFICES ASSUME NEW d \in Die
               PROVE  /\ Distinct(m.blockedByRow[d])
                      /\ \A x \in ToSet(m.blockedByRow[d]) :
                           OnDie(m, longer, d, x) /\ x \notin m.blockedByBuf
    BY DEF RowQueues
  <2>1. /\ Distinct(t.blockedByRow[d])
        /\ \A x \in ToSet(t.blockedByRow[d]) : OnDie(t, acc, d, x) /\ x \notin t.blockedByBuf
    BY <1>1 DEF RowQueues
  <2>2. \A x : OnDie(t, acc, d, x) => OnDie(m, longer, d, x)
    BY <1>5, <1>13, <1>16 DEF OnDie
  <2> QED
    BY <1>20, <2>1, <2>2
<1>25. KeepsStarted(t, m) /\ SameTurns(t, m) /\ m.pool = [t.pool EXCEPT ![s] = r]
  BY <1>11, <1>16 DEF KeepsStarted, SameQueues, SameTurns
<1>26. u = SelectLowLevelReqQ(t1, s) /\ m.prev = t1.prev
  BY <1>9, <1>16 DEF SameChains
<1>27. CASE m.prev[s] # NONE
  <2>1. PICK x \in SUBSET Slot : x = m.blockedByBuf \cup {s}
    BY <1>16, TableTypes
  <2>2. u = [m EXCEPT !.blockedByBuf = x]
    BY <1>13, <1>15, <1>26, <1>27, <2>1 DEF SelectLowLevelReqQ
  <2>3. /\ u \in Tables /\ u.pool = m.pool /\ u.blockedByBuf = x
        /\ SameQueues(m, u) /\ SameRows(m, u) /\ SameTurns(m, u)
        /\ u.prev = m.prev /\ u.next = m.next /\ u.tail = m.tail
    BY <1>16, <2>2 DEF Tables, SameQueues, SameRows, SameTurns
  <2>4. HeldUp(u) = H \cup {s}
    BY <1>21, <2>1, <2>3 DEF HeldUp, SameQueues
  <2>5. BufQueue(u)
    BY <1>1, <1>20, <1>22, <1>27, <2>1, <2>3 DEF BufQueue
  <2>6. RowQueues(u, longer)
    <3>1. \A d \in Die : s \notin ToSet(m.blockedByRow[d])
      BY <1>19, <1>21, HeldUpParts
    <3> QED
      <4> SUFFICES ASSUME NEW d \in Die
                   PROVE  /\ Distinct(u.blockedByRow[d])
                          /\ \A y \in ToSet(u.blockedByRow[d]) :
                               OnDie(u, longer, d, y) /\ y \notin u.blockedByBuf
        BY DEF RowQueues
      <4>1. /\ Distinct(m.blockedByRow[d])
            /\ \A y \in ToSet(m.blockedByRow[d]) : OnDie(m, longer, d, y) /\ y \notin m.blockedByBuf
        BY <1>24 DEF RowQueues
      <4>2. u.blockedByRow = m.blockedByRow /\ \A y : OnDie(m, longer, d, y) => OnDie(u, longer, d, y)
        BY <2>3 DEF OnDie, SameQueues
      <4> QED
        BY <2>1, <2>3, <3>1, <4>1, <4>2
  <2>7. Chains(u, longer) /\ Listed(u, longer)
    BY <1>17, <1>18, <2>3, ChainsSame DEF Listed
  <2>8. RowInv(u, longer, new, H \cup {s})
    BY <1>17, <2>3, RowInvSame DEF SameQueues
  <2>9. Sound(u, longer, new)
    BY <2>3, <2>4, <2>5, <2>6, <2>7, <2>8 DEF Sound
  <2>10. KeepsStarted(t, u) /\ SameTurns(t, u)
    BY <1>25, <2>3 DEF KeepsStarted, SameQueues, SameTurns
  <2> QED
    BY <1>4, <1>25, <2>3, <2>9, <2>10 DEF PoolWith
<1>28. CASE m.prev[s] = NONE
  <2>1. BufQueue(m)
    BY <1>1, <1>20, <1>22, <1>23, <1>28 DEF BufQueue
  <2>2. GoesOn(m, u, s)
    <3>1. m.pool[s] = r /\ t1.pool[s] = r /\ m.pool[s] \in Request
      BY <1>13, <1>16
    <3>2. CASE IsDma(r)
      <4>1. m = t1
        BY <1>15, <3>2 DEF HoldUp, IsDma
      <4>2. u = IssueNvmeDma(m, s)
        BY <1>26, <1>28, <3>1, <3>2, <4>1 DEF SelectLowLevelReqQ
      <4> QED
        BY <3>1, <3>2, <4>2 DEF GoesOn
    <3>3. CASE ~IsDma(r) /\ Permitted(t1, r)
      <4>1. u = PutToNandReqQ(LetThrough(t1, r), s)
        BY <1>26, <1>28, <3>1, <3>3 DEF SelectLowLevelReqQ, SelectRow
      <4>2. /\ LetGo(m, u, s, m.pool[s]) /\ Permitted(m, m.pool[s])
            /\ u.blockedByRow = m.blockedByRow /\ SameChains(m, u) /\ SameTurns(m, u)
        BY <1>10, <1>15, <3>1, <3>3, <4>1, SelectLetsGo
      <4> QED
        BY <3>1, <3>3, <4>2 DEF GoesOn
    <3>4. CASE ~IsDma(r) /\ ~Permitted(t1, r)
      <4>1. u = PutToBlockedByRow(m, s)
        BY <1>15, <1>26, <1>28, <3>1, <3>4 DEF SelectLowLevelReqQ, SelectRow
      <4> QED
        BY <3>1, <3>4, <4>1 DEF GoesOn
    <3> QED
      BY <3>2, <3>3, <3>4
  <2>3. Sound(u, longer, new) /\ KeepsStarted(m, u) /\ u.pool = m.pool /\ SameTurns(m, u)
    <3>1. s \notin HeldUp(m) /\ RowInv(m, longer, new, HeldUp(m) \cup {s})
      BY <1>17, <1>19, <1>21
    <3> QED
      BY <1>16, <1>17, <1>18, <1>24, <2>1, <2>2, <3>1, GoesOnSound
  <2>4. KeepsStarted(t, u) /\ SameTurns(t, u)
    BY <1>25, <2>3 DEF KeepsStarted, SameTurns
  <2> QED
    BY <1>4, <1>25, <2>3, <2>4 DEF PoolWith
<1> QED
  BY <1>27, <1>28

-----------------------------------------------------------------------------
\* Slot s is free in u, and out of its chain.
Freed(t, u, s) ==
  /\ u \in Tables /\ u.pool = [t.pool EXCEPT ![s] = NONE]
  /\ u.blockedByBuf = t.blockedByBuf
  /\ SameQueues(t, u) /\ SameRows(t, u) /\ SameTurns(t, u)
  /\ \A x \in Slot : u.prev[x] = IF x = t.next[s] THEN NONE ELSE t.prev[x]
  /\ \A x \in Slot : u.next[x] = IF x = s THEN NONE ELSE t.next[x]
  /\ \A f \in Entry :
       u.tail[f] = IF f = t.pool[s].entry /\ t.tail[f] = s THEN NONE ELSE t.tail[f]

\* Free is what its name says.
LEMMA FreeFacts ==
  ASSUME NEW t \in Tables, NEW s \in Slot, t.pool[s] \in Request, NEW u, u = Free(t, s)
  PROVE  Freed(t, u, s)
<1>0. PICK n : n = t.next[s]
  OBVIOUS
<1>1. NONE \notin Slot /\ NONE \notin Entry
  BY ClientAssumption DEF Slot
<1>2. PICK l : l = Unlink(t, s)
  OBVIOUS
<1>3. /\ l \in Tables /\ l.pool = t.pool /\ l.tail = t.tail /\ l.blockedByBuf = t.blockedByBuf
      /\ SameQueues(t, l) /\ SameRows(t, l) /\ SameTurns(t, l)
      /\ \A x \in Slot : l.prev[x] = IF x = n THEN NONE ELSE t.prev[x]
      /\ \A x \in Slot : l.next[x] = IF x = s THEN NONE ELSE t.next[x]
  <2>1. CASE n = NONE
    <3>1. l = t
      BY <1>0, <1>2, <2>1 DEF Unlink
    <3> QED
      BY <1>0, <1>1, <2>1, <3>1 DEF SameQueues, SameRows, SameTurns
  <2>2. CASE n # NONE
    <3>1. n \in Slot
      BY <1>0, <2>2, TableTypes
    <3>2. PICK prevs \in [Slot -> Slot \cup {NONE}] : prevs = [t.prev EXCEPT ![n] = NONE]
      BY TableTypes
    <3>3. \A x \in Slot : prevs[x] = IF x = n THEN NONE ELSE t.prev[x]
      BY <3>2, TableTypes
    <3>4. PICK nexts \in [Slot -> Slot \cup {NONE}] : nexts = [t.next EXCEPT ![s] = NONE]
      BY TableTypes
    <3>5. \A x \in Slot : nexts[x] = IF x = s THEN NONE ELSE t.next[x]
      BY <3>4, TableTypes
    <3>6. l = [t EXCEPT !.prev = prevs, !.next = nexts]
      BY <1>0, <1>2, <2>2, <3>2, <3>4 DEF Unlink, Tables
    <3>7. /\ l \in Tables /\ l.pool = t.pool /\ l.tail = t.tail /\ l.blockedByBuf = t.blockedByBuf
          /\ SameQueues(t, l) /\ SameRows(t, l) /\ SameTurns(t, l)
          /\ l.prev = prevs /\ l.next = nexts
      BY <3>6 DEF Tables, SameQueues, SameRows, SameTurns
    <3> QED
      BY <3>3, <3>5, <3>7
  <2> QED
    BY <2>1, <2>2
<1>4. PICK e : e = t.pool[s].entry
  OBVIOUS
<1>5. e = NONE \/ e \in Entry
  BY <1>4, RequestParts
<1>6. PICK tails \in [Entry -> Slot \cup {NONE}] : tails = TailWithout(t.tail, e, s)
  <2>1. t.tail \in [Entry -> Slot \cup {NONE}]
    BY TableTypes
  <2> QED
    BY <1>1, <1>5, <2>1 DEF TailWithout
<1>7. \A f \in Entry : tails[f] = IF f = e /\ t.tail[f] = s THEN NONE ELSE t.tail[f]
  <2>1. t.tail \in [Entry -> Slot \cup {NONE}]
    BY TableTypes
  <2> QED
    BY <1>1, <1>5, <1>6, <2>1 DEF TailWithout
<1>8. PICK pool \in [Slot -> Request \cup {NONE}] : pool = [t.pool EXCEPT ![s] = NONE]
  BY TableTypes
<1>9. u = [l EXCEPT !.pool = pool, !.tail = tails]
  BY <1>2, <1>3, <1>4, <1>6, <1>8 DEF Free, Tables
<1>10. /\ u \in Tables /\ u.pool = pool /\ u.tail = tails
       /\ u.blockedByBuf = l.blockedByBuf /\ u.prev = l.prev /\ u.next = l.next
       /\ SameQueues(l, u) /\ SameRows(l, u) /\ SameTurns(l, u)
  <2>1. l \in Tables
    BY <1>3
  <2> QED
    BY <2>1, <1>9 DEF Tables, SameQueues, SameRows, SameTurns
<1>11. SameQueues(t, u) /\ SameRows(t, u) /\ SameTurns(t, u)
  BY <1>3, <1>10 DEF SameQueues, SameRows, SameTurns
<1> QED
  BY <1>0, <1>3, <1>4, <1>7, <1>8, <1>10, <1>11 DEF Freed

\* The request in slot s leaves the queue of its die, or the transfers.
Taken(t, u, s) ==
  /\ Distinct(u.nvmeDma) /\ ToSet(u.nvmeDma) = ToSet(t.nvmeDma) \ {s}
  /\ \A d \in Die :
       \/ u.nand[d] = t.nand[d] /\ s \notin ToSet(t.nand[d])
       \/ t.nand[d] # <<>> /\ s = Head(t.nand[d]) /\ u.nand[d] = Tail(t.nand[d])

\* A request that is done, and was not held up, leaves the rest as it was.
LEMMA Removed ==
  ASSUME NEW t \in Tables, NEW acc, Listed(t, acc), NEW w, NEW H, RowInv(t, acc, w, H),
         NEW s \in ToSet(acc), s \notin H,
         NEW u \in Tables, u.pool = [t.pool EXCEPT ![s] = NONE], SameRows(t, u), Taken(t, u, s)
  PROVE  Listed(u, Without(acc, s)) /\ RowInv(u, Without(acc, s), w, H)
<1>1. PICK new : new = Without(acc, s)
  OBVIOUS
<1>2. /\ acc \in Seq(Slot) /\ Distinct(acc) /\ ToSet(acc) \subseteq Slot
      /\ new \in Seq(Slot) /\ Distinct(new) /\ ToSet(new) = ToSet(acc) \ {s}
  BY <1>1, ListedFacts, WithoutFacts
<1>3. \A a, b : Before(new, a, b) <=> Before(acc, a, b) /\ a # s /\ b # s
  BY <1>1, <1>2, BeforeWithout
<1>4. u.pool[s] = NONE /\ \A x \in Slot : x # s => u.pool[x] = t.pool[x]
  BY <1>2, TableTypes
<1>5. Listed(u, new)
  BY <1>2, <1>4 DEF Listed
<1>6. H \subseteq ToSet(new) /\ H \subseteq Slot
  BY <1>2 DEF RowInv, Placed
<1>7. Counted(u, H) /\ RowsFit(u, new, w, H)
  <2>1. \A x \in H : u.pool[x] = t.pool[x]
    BY <1>4, <1>6
  <2>2. \A x, y \in H : Before(new, x, y) <=> Before(acc, x, y)
    BY <1>3, <1>6
  <2>3. Counted(t, H) /\ RowsFit(t, acc, w, H)
    BY DEF RowInv
  <2> QED
    BY <2>1, <2>2, <2>3, SameHeld
<1>8. ASSUME NEW d \in Die
      PROVE  /\ t.nand[d] \in Seq(Slot) /\ Distinct(t.nand[d])
             /\ \A x \in ToSet(t.nand[d]) : OnDie(t, acc, d, x)
             /\ \A x \in ToSet(acc) : OnDie(t, acc, d, x) => (x \in ToSet(t.nand[d]) <=> x \notin H)
  BY TableTypes DEF RowInv, Placed
<1>9. ASSUME NEW d \in Die
      PROVE  Distinct(u.nand[d]) /\ ToSet(u.nand[d]) = ToSet(t.nand[d]) \ {s}
  <2>1. CASE u.nand[d] = t.nand[d] /\ s \notin ToSet(t.nand[d])
    BY <1>8, <2>1
  <2>2. CASE t.nand[d] # <<>> /\ s = Head(t.nand[d]) /\ u.nand[d] = Tail(t.nand[d])
    BY <1>8, <2>2, TailFacts
  <2> QED
    BY <2>1, <2>2 DEF Taken
<1>10. Placed(u, new, H)
  <2>1. ASSUME NEW d \in Die
        PROVE  /\ Distinct(u.nand[d])
               /\ \A x \in ToSet(u.nand[d]) : OnDie(u, new, d, x)
               /\ \A x \in ToSet(new) : OnDie(u, new, d, x) => (x \in ToSet(u.nand[d]) <=> x \notin H)
    <3>1. \A x : x # s => (OnDie(u, new, d, x) <=> OnDie(t, acc, d, x))
      BY <1>2, <1>4 DEF OnDie
    <3>2. \A x \in ToSet(u.nand[d]) : x # s /\ OnDie(u, new, d, x)
      BY <1>8, <1>9, <3>1
    <3>3. ASSUME NEW x \in ToSet(new), OnDie(u, new, d, x)
          PROVE  x \in ToSet(u.nand[d]) <=> x \notin H
      BY <1>2, <1>8, <1>9, <3>1, <3>3
    <3> QED
      BY <1>9, <3>2, <3>3
  <2>2. Distinct(u.nvmeDma) /\ ToSet(u.nvmeDma) = ToSet(t.nvmeDma) \ {s}
    BY DEF Taken
  <2>3. /\ \A x \in ToSet(t.nvmeDma) : x \in ToSet(acc) /\ IsDma(t.pool[x])
        /\ \A x \in ToSet(acc) : IsDma(t.pool[x]) => (x \in ToSet(t.nvmeDma) <=> x \notin H)
        /\ \A x \in H : t.pool[x].code # "READ_TRANSFER"
    BY DEF RowInv, Placed
  <2>4. \A x \in ToSet(new) : x \in ToSet(acc) /\ x # s /\ u.pool[x] = t.pool[x]
    BY <1>2, <1>4
  <2>5. /\ \A x \in H : u.pool[x].code # "READ_TRANSFER"
        /\ \A x \in ToSet(u.nvmeDma) : x \in ToSet(new) /\ IsDma(u.pool[x])
        /\ \A x \in ToSet(new) : IsDma(u.pool[x]) => (x \in ToSet(u.nvmeDma) <=> x \notin H)
    BY <1>2, <1>6, <2>2, <2>3, <2>4
  <2> QED
    BY <1>6, <2>1, <2>2, <2>5 DEF Placed
<1>11. NandOrdered(u, new)
  <2> SUFFICES ASSUME NEW d \in Die, NEW j \in DOMAIN u.nand[d], NEW x \in ToSet(new),
                      Before(new, x, u.nand[d][j]),
                      RowConflict(u.pool[x], u.pool[u.nand[d][j]])
               PROVE  \E i \in DOMAIN u.nand[d] : i < j /\ u.nand[d][i] = x
    BY DEF NandOrdered
  <2>1. PICK y : y = u.nand[d][j]
    OBVIOUS
  <2>2. y \in ToSet(u.nand[d])
    BY <2>1 DEF ToSet
  <2>3. y \in ToSet(acc) /\ y # s /\ x \in ToSet(acc) /\ x # s
    <3>1. y \in ToSet(t.nand[d]) /\ y # s
      BY <1>9, <2>2
    <3>2. OnDie(t, acc, d, y)
      BY <1>8, <3>1
    <3> QED
      BY <1>2, <3>1, <3>2 DEF OnDie
  <2>4. Before(acc, x, y) /\ RowConflict(t.pool[x], t.pool[y])
    BY <1>2, <1>3, <1>4, <2>1, <2>3
  <2>5. CASE u.nand[d] = t.nand[d]
    BY <2>1, <2>3, <2>4, <2>5 DEF RowInv, NandOrdered
  <2>6. CASE t.nand[d] # <<>> /\ s = Head(t.nand[d]) /\ u.nand[d] = Tail(t.nand[d])
    <3>1. PICK list : list = t.nand[d]
      OBVIOUS
    <3>2. /\ list[1] = s /\ Len(list) \in Nat
          /\ DOMAIN u.nand[d] = 1..Len(list)-1 /\ DOMAIN list = 1..Len(list)
          /\ \A i \in 1..Len(list)-1 : u.nand[d][i] = list[i+1]
      BY <1>8, <2>6, <3>1, TailFacts, LenProperties
    <3>3. j+1 \in DOMAIN list /\ list[j+1] = y
      BY <2>1, <3>2
    <3>4. PICK i \in DOMAIN list : i < j+1 /\ list[i] = x
      BY <2>3, <2>4, <3>1, <3>3 DEF RowInv, NandOrdered
    <3>5. i # 1
      BY <2>3, <3>2, <3>4
    <3>6. i-1 \in 1..Len(list)-1 /\ i-1 < j /\ (i-1)+1 = i
      BY <3>2, <3>4, <3>5
    <3> QED
      BY <3>2, <3>4, <3>6
  <2> QED
    BY <2>5, <2>6 DEF Taken
<1> QED
  BY <1>1, <1>5, <1>7, <1>10, <1>11 DEF RowInv

\* FreeAndRelease: the next request on the entry goes on.
LEMMA FreeSound ==
  ASSUME NEW t, NEW acc, NEW w \in [Die -> [Block -> 0..Pages]], Sound(t, acc, w),
         NEW s \in ToSet(acc), s \notin HeldUp(t),
         NEW v \in Tables, v.pool = t.pool, SameChains(t, v), SameRows(t, v),
         v.blockedByRow = t.blockedByRow, Taken(t, v, s),
         NEW u, u = FreeAndRelease(v, s)
  PROVE  /\ Sound(u, Without(acc, s), w) /\ KeepsStarted(v, u) /\ SameTurns(v, u)
         /\ PoolWith(t, u, s, NONE)
<1>1. t \in Tables /\ Listed(t, acc) /\ Chains(t, acc) /\ BufQueue(t) /\ RowQueues(t, acc)
  BY DEF Sound
<1>2. PICK H : H = HeldUp(t) /\ RowInv(t, acc, w, H)
  BY DEF Sound
<1>3. /\ ToSet(acc) \subseteq Slot /\ s \in Slot /\ t.pool[s] \in Request
      /\ acc \in Seq(Slot) /\ Distinct(acc)
  BY <1>1, ListedFacts
<1>4. PICK new : new = Without(acc, s)
  OBVIOUS
<1>5. ToSet(new) = ToSet(acc) \ {s}
  BY <1>3, <1>4, WithoutFacts
<1>6. t.prev[s] = NONE
  BY <1>1, <1>3, HeldUpParts DEF BufQueue
<1>7. PICK n, f : n = v.next[s] /\ f = Free(v, s)
  OBVIOUS
<1>8. /\ f \in Tables /\ f.pool = [t.pool EXCEPT ![s] = NONE]
      /\ f.blockedByBuf = t.blockedByBuf /\ f.blockedByRow = t.blockedByRow
      /\ SameQueues(v, f) /\ SameRows(t, f) /\ SameTurns(v, f)
      /\ n = t.next[s]
      /\ \A x \in Slot : f.prev[x] = IF x = n THEN NONE ELSE t.prev[x]
      /\ \A x \in Slot : f.next[x] = IF x = s THEN NONE ELSE t.next[x]
      /\ \A e \in Entry : f.tail[e] = IF e = t.pool[s].entry /\ t.tail[e] = s THEN NONE ELSE t.tail[e]
  <2>1. v.pool[s] \in Request
    BY <1>3
  <2>2. n = v.next[s] /\ f = Free(v, s) /\ v \in Tables /\ s \in Slot
    BY <1>3, <1>7
  <2>3. Freed(v, f, s)
    BY <2>1, <2>2, FreeFacts
  <2> QED
    BY <2>2, <2>3 DEF Freed, SameChains, SameQueues, SameRows
<1>9. \A x \in Slot : x # s => f.pool[x] = t.pool[x]
  BY <1>1, <1>8, TableTypes
<1>10. Unlinked(t, f, s)
  <2>1. \A e \in Entry : t.tail[e] = s => t.pool[s].entry = e
    <3>1. s # NONE
      BY <1>3, ClientAssumption DEF Slot
    <3> QED
      BY <1>1, <3>1 DEF Chains
  <2> QED
    BY <1>8, <2>1 DEF Unlinked
<1>11. Chains(f, new)
  <2>1. \A x \in ToSet(acc) \ {s} : f.pool[x] = t.pool[x]
    BY <1>3, <1>9
  <2> QED
    BY <1>1, <1>4, <1>6, <1>10, <2>1, ChainsWithout
<1>12. Listed(f, new) /\ RowInv(f, new, w, H)
  <2>1. Taken(t, f, s)
    BY <1>8 DEF Taken, SameQueues
  <2> QED
    BY <1>1, <1>2, <1>4, <1>8, <2>1, Removed
<1>13. KeepsStarted(v, f)
  BY <1>8 DEF KeepsStarted, SameQueues
<1>14. HeldUp(f) = H
  BY <1>2, <1>8 DEF HeldUp
<1>15. ASSUME NEW d \in Die
       PROVE  /\ Distinct(f.blockedByRow[d])
              /\ \A x \in ToSet(f.blockedByRow[d]) : OnDie(f, new, d, x) /\ x \notin f.blockedByBuf
  <2>1. /\ Distinct(t.blockedByRow[d])
        /\ \A x \in ToSet(t.blockedByRow[d]) : OnDie(t, acc, d, x) /\ x \notin t.blockedByBuf
    BY <1>1 DEF RowQueues
  <2>2. \A x \in ToSet(t.blockedByRow[d]) : x # s
    BY HeldUpParts
  <2>3. \A x : x # s /\ OnDie(t, acc, d, x) => OnDie(f, new, d, x)
    BY <1>3, <1>5, <1>9 DEF OnDie
  <2> QED
    BY <1>8, <2>1, <2>2, <2>3
<1>16. RowQueues(f, new)
  BY <1>15 DEF RowQueues
<1>17. NONE \notin Slot
  BY ClientAssumption DEF Slot
<1>18. CASE n = NONE
  <2>1. n \notin v.blockedByBuf
    BY <1>17, <1>18, TableTypes
  <2>2. u = f
    BY <1>7, <2>1 DEF FreeAndRelease
  <2>3. BufQueue(f)
    BY <1>1, <1>8, <1>17, <1>18 DEF BufQueue
  <2> QED
    BY <1>4, <1>8, <1>11, <1>12, <1>13, <1>14, <1>16, <2>2, <2>3 DEF Sound, PoolWith
<1>19. CASE n # NONE
  <2>1. n \in ToSet(acc) /\ n \in Slot /\ t.prev[n] = s /\ n # s
    BY <1>1, <1>3, <1>6, <1>8, <1>17, <1>19 DEF Chains
  <2>2. n \in t.blockedByBuf
    BY <1>1, <1>3, <1>17, <2>1 DEF BufQueue
  <2>3. n \in v.blockedByBuf
    BY <2>2 DEF SameChains
  <2>4. u = GoOn(f, n)
    BY <1>7, <2>3 DEF FreeAndRelease
  <2>5. PICK rest \in SUBSET Slot : rest = f.blockedByBuf \ {n}
    BY <1>8, TableTypes
  <2>6. PICK m : m = [f EXCEPT !.blockedByBuf = rest]
    OBVIOUS
  <2>7. /\ m \in Tables /\ m.pool = f.pool /\ m.blockedByBuf = rest
        /\ SameQueues(f, m) /\ SameRows(f, m) /\ SameTurns(f, m)
        /\ m.prev = f.prev /\ m.next = f.next /\ m.tail = f.tail
    BY <1>8, <2>6 DEF Tables, SameQueues, SameRows, SameTurns
  <2>8. m = [f EXCEPT !.blockedByBuf = @ \ {n}]
    BY <2>5, <2>6
  <2>9. \A d \in Die : n \notin ToSet(f.blockedByRow[d])
    BY <1>8, <1>15, <2>2
  <2>10. n \notin HeldUp(m) /\ HeldUp(m) \cup {n} = H
    <3>1. \A x : x \in HeldUp(m) <=> x \in rest \/ \E d \in Die : x \in ToSet(f.blockedByRow[d])
      BY <2>7, HeldUpParts DEF SameQueues
    <3>2. \A x : x \in H <=> x \in f.blockedByBuf \/ \E d \in Die : x \in ToSet(f.blockedByRow[d])
      BY <1>14, HeldUpParts
    <3>3. n \notin HeldUp(m)
      BY <2>5, <2>9, <3>1
    <3>4. \A x : x \in HeldUp(m) \cup {n} <=> x \in H
      BY <1>8, <2>2, <2>5, <3>1, <3>2
    <3> QED
      BY <3>3, <3>4
  <2>11. RowInv(m, new, w, HeldUp(m) \cup {n})
    <3>1. RowInv(m, new, w, H)
      BY <1>12, <2>7, RowInvSame DEF SameQueues
    <3> QED
      BY <2>10, <3>1
  <2>12. Listed(m, new) /\ Chains(m, new)
    BY <1>11, <1>12, <2>7, ChainsSame DEF Listed
  <2>13. BufQueue(m)
    BY <1>1, <1>8, <2>5, <2>7 DEF BufQueue
  <2>14. RowQueues(m, new)
    <3> SUFFICES ASSUME NEW d \in Die
                 PROVE  /\ Distinct(m.blockedByRow[d])
                        /\ \A x \in ToSet(m.blockedByRow[d]) :
                             OnDie(m, new, d, x) /\ x \notin m.blockedByBuf
      BY DEF RowQueues
    <3>1. \A x : OnDie(f, new, d, x) => OnDie(m, new, d, x)
      BY <2>7 DEF OnDie
    <3>2. m.blockedByRow = f.blockedByRow
      BY <2>7 DEF SameQueues
    <3> QED
      BY <1>15, <2>5, <2>7, <3>1, <3>2
  <2>15. GoesOn(m, u, n)
    <3>1. m.pool[n] = t.pool[n] /\ f.pool[n] = t.pool[n] /\ t.pool[n] \in Request
      BY <1>1, <1>9, <2>1, <2>7, ListedFacts
    <3>2. CASE IsDma(f.pool[n])
      <4>1. u = IssueNvmeDma(m, n)
        BY <2>4, <2>8, <3>2 DEF GoOn
      <4> QED
        BY <2>7, <3>2, <4>1 DEF GoesOn
    <3>3. CASE ~IsDma(f.pool[n]) /\ Permitted(f, f.pool[n])
      <4>1. u = ReleaseRow(m, n)
        BY <2>4, <2>8, <3>3 DEF GoOn
      <4>2. Permitted(m, m.pool[n]) /\ ~IsDma(m.pool[n])
        BY <2>7, <3>3 DEF Permitted, SameRows
      <4>3. /\ LetGo(m, u, n, m.pool[n]) /\ u.blockedByRow = m.blockedByRow
            /\ SameChains(m, u) /\ SameTurns(m, u)
        BY <2>1, <2>7, <3>1, <4>1, <4>2, ReleaseLetsGo
      <4> QED
        BY <4>2, <4>3 DEF GoesOn
    <3>4. CASE ~IsDma(f.pool[n]) /\ ~Permitted(f, f.pool[n])
      <4>1. u = PutToBlockedByRow(m, n)
        BY <2>4, <2>8, <3>4 DEF GoOn
      <4> QED
        BY <2>7, <3>4, <4>1 DEF GoesOn
    <3> QED
      BY <3>2, <3>3, <3>4
  <2>16. Sound(u, new, w) /\ KeepsStarted(m, u) /\ u.pool = m.pool /\ SameTurns(m, u)
    BY <2>1, <2>7, <2>10, <2>11, <2>12, <2>13, <2>14, <2>15, GoesOnSound
  <2>17. KeepsStarted(v, u) /\ SameTurns(v, u)
    BY <1>8, <2>7, <2>16 DEF KeepsStarted, SameTurns, SameQueues
  <2> QED
    BY <1>4, <1>8, <2>7, <2>16, <2>17 DEF PoolWith
<1> QED
  BY <1>18, <1>19

-----------------------------------------------------------------------------
(***************************************************************************)
(* Looking at the requests that wait for their row.                        *)
(***************************************************************************)
Less == {p \in Nat \X Nat : p[1] < p[2]}

\* The order of the naturals, on which a list is looked through.
LEMMA LessWellFounded == IsWellFoundedOn(Less, Nat)
<1>1. OpToRel(<, Nat) = Less
  BY DEF OpToRel, Less
<1> QED
  BY <1>1, NatLessThanWellFounded

\* A set of naturals has a least element.
LEMMA Least ==
  ASSUME NEW B \in SUBSET Nat, B # {}
  PROVE  \E n \in B : \A m \in B : n <= m
<1>1. PICK n \in B : \A m \in B : ~(<<m, n>> \in Less)
  BY LessWellFounded, WFMin
<1>2. \A m \in B : n \in Nat /\ m \in Nat /\ ~(m < n)
  BY <1>1 DEF Less
<1> QED
  BY <1>1, <1>2

\* One look at one request that waits for its row.
LEMMA LookedAt ==
  ASSUME NEW t, NEW acc, NEW w \in [Die -> [Block -> 0..Pages]], Sound(t, acc, w),
         NEW d \in Die, NEW s \in ToSet(t.blockedByRow[d]),
         NEW u, u = ReleaseIfPermitted(t, s)
  PROVE  /\ Sound(u, acc, w) /\ KeepsStarted(t, u) /\ u.pool = t.pool /\ SameTurns(t, u)
         /\ ToSet(t.blockedByRow[d]) \ {s} \subseteq ToSet(u.blockedByRow[d])
<1>1. t \in Tables /\ Listed(t, acc) /\ Chains(t, acc) /\ BufQueue(t) /\ RowQueues(t, acc)
  BY DEF Sound
<1>2. PICK list : list = t.blockedByRow[d]
  OBVIOUS
<1>3. list \in Seq(Slot) /\ Distinct(list) /\ s \in ToSet(list)
  BY <1>1, <1>2, TableTypes DEF RowQueues
<1>4. OnDie(t, acc, d, s) /\ s \notin t.blockedByBuf
  BY <1>1 DEF RowQueues
<1>5. s \in Slot /\ t.pool[s] \in Request /\ ~IsDma(t.pool[s]) /\ t.pool[s].die = d
  BY <1>1, <1>4, ListedFacts DEF OnDie
<1>6. CASE ~Permitted(t, t.pool[s])
  <2>1. u = t
    BY <1>6 DEF ReleaseIfPermitted
  <2> QED
    BY <2>1 DEF KeepsStarted, SameTurns
<1>7. CASE Permitted(t, t.pool[s])
  <2>1. PICK short \in Seq(Slot) : short = Without(list, s)
    BY <1>3, WithoutFacts
  <2>2. Distinct(short) /\ ToSet(short) = ToSet(list) \ {s}
    BY <1>3, <2>1, WithoutFacts
  <2>3. PICK rows \in [Die -> Seq(Slot)] : rows = [t.blockedByRow EXCEPT ![d] = short]
    BY <1>1, TableTypes
  <2>4. PICK m : m = [t EXCEPT !.blockedByRow = rows]
    OBVIOUS
  <2>5. /\ m \in Tables /\ m.pool = t.pool /\ m.nvmeDma = t.nvmeDma /\ m.nand = t.nand
        /\ m.blockedByRow = rows
        /\ SameChains(t, m) /\ SameRows(t, m) /\ SameTurns(t, m)
    BY <1>1, <2>4 DEF Tables, SameChains, SameRows, SameTurns
  <2>6. u = ReleaseRow(m, s)
    BY <1>1, <1>2, <1>5, <1>7, <2>1, <2>3, <2>4 DEF ReleaseIfPermitted, Tables
  <2>7. rows[d] = short /\ \A x \in Die \ {d} : rows[x] = t.blockedByRow[x]
    BY <1>1, <2>3, TableTypes
  <2>8. \A x \in Die \ {d} : s \notin ToSet(t.blockedByRow[x])
    BY <1>1, <1>5 DEF RowQueues, OnDie
  <2>9. s \notin HeldUp(m) /\ HeldUp(m) \cup {s} = HeldUp(t)
    <3>1. m.blockedByBuf = t.blockedByBuf
      BY <2>5 DEF SameChains
    <3>2. \A y \in Die : ToSet(rows[y]) = ToSet(t.blockedByRow[y]) \ {s}
      BY <1>2, <2>2, <2>7, <2>8
    <3>3. \A x : x \in HeldUp(m) <=>
                   x \in t.blockedByBuf \/ \E y \in Die : x \in ToSet(rows[y])
      BY <2>5, <3>1, HeldUpParts
    <3>4. \A x : x \in HeldUp(t) <=>
                   x \in t.blockedByBuf \/ \E y \in Die : x \in ToSet(t.blockedByRow[y])
      BY HeldUpParts
    <3>5. \A x : x \in HeldUp(m) <=> x \in HeldUp(t) /\ x # s
      BY <1>4, <3>2, <3>3, <3>4
    <3>6. s \in HeldUp(t)
      BY HeldUpParts
    <3>7. \A x : x \in HeldUp(m) \cup {s} <=> x \in HeldUp(t)
      BY <3>5, <3>6
    <3> QED
      BY <3>5, <3>7
  <2>10. RowInv(m, acc, w, HeldUp(m) \cup {s})
    <3>1. RowInv(t, acc, w, HeldUp(t))
      BY DEF Sound
    <3>2. RowInv(m, acc, w, HeldUp(t))
      BY <2>5, <3>1, RowInvSame
    <3> QED
      BY <2>9, <3>2
  <2>11. Listed(m, acc) /\ Chains(m, acc) /\ BufQueue(m)
    BY <1>1, <2>5, ChainsSame DEF Listed, SameChains, BufQueue
  <2>12. RowQueues(m, acc)
    <3> SUFFICES ASSUME NEW x \in Die
                 PROVE  /\ Distinct(m.blockedByRow[x])
                        /\ \A y \in ToSet(m.blockedByRow[x]) :
                             OnDie(m, acc, x, y) /\ y \notin m.blockedByBuf
      BY DEF RowQueues
    <3>1. /\ Distinct(t.blockedByRow[x])
          /\ \A y \in ToSet(t.blockedByRow[x]) : OnDie(m, acc, x, y) /\ y \notin m.blockedByBuf
      BY <1>1, <2>5 DEF RowQueues, OnDie, SameChains
    <3>2. Distinct(m.blockedByRow[x]) /\ ToSet(m.blockedByRow[x]) \subseteq ToSet(t.blockedByRow[x])
      BY <1>2, <2>2, <2>5, <2>7, <3>1
    <3> QED
      BY <3>1, <3>2
  <2>13. GoesOn(m, u, s) /\ u.blockedByRow = m.blockedByRow
    <3>1. /\ m.pool[s] = t.pool[s] /\ m.pool[s] \in Request /\ ~IsDma(m.pool[s])
          /\ Permitted(m, m.pool[s])
      BY <1>5, <1>7, <2>5 DEF Permitted, SameRows
    <3>2. /\ LetGo(m, u, s, m.pool[s]) /\ u.blockedByRow = m.blockedByRow
          /\ SameChains(m, u) /\ SameTurns(m, u)
      BY <1>5, <2>5, <2>6, <3>1, ReleaseLetsGo
    <3> QED
      BY <3>1, <3>2 DEF GoesOn
  <2>14. Sound(u, acc, w) /\ KeepsStarted(m, u) /\ u.pool = m.pool /\ SameTurns(m, u)
    <3>1. m \in Tables /\ s \in Slot /\ s \notin HeldUp(m) /\ GoesOn(m, u, s)
      BY <1>5, <2>5, <2>9, <2>13
    <3> QED
      BY <2>10, <2>11, <2>12, <3>1, GoesOnSound
  <2>15. KeepsStarted(t, u) /\ SameTurns(t, u)
    BY <2>5, <2>14 DEF KeepsStarted, SameTurns
  <2>16. ToSet(t.blockedByRow[d]) \ {s} \subseteq ToSet(u.blockedByRow[d])
    BY <1>2, <2>2, <2>5, <2>7, <2>13
  <2> QED
    BY <2>5, <2>14, <2>15, <2>16
<1> QED
  BY <1>6, <1>7

\* Every element of a list is looked at once, in order.
LookStep(t, list, f, n) == IF n = 0 THEN t ELSE ReleaseIfPermitted(f[n-1], list[n])

LEMMA LookedExists ==
  ASSUME NEW t, NEW list, NEW len \in Nat
  PROVE  \E f : f = [n \in 0..len |-> LookStep(t, list, f, n)]
<1> DEFINE Has(k) == \E f : f = [n \in 0..k |-> LookStep(t, list, f, n)]
           B == {k \in Nat : ~Has(k)}
<1>1. ASSUME B # {}
      PROVE  FALSE
  <2>1. PICK k \in B : \A m \in B : k <= m
    <3>1. B \in SUBSET Nat /\ B # {}
      BY <1>1
    <3> HIDE DEF B
    <3> QED
      BY <3>1, Least
  <2>2. k \in Nat /\ ~Has(k)
    OBVIOUS
  <2>3. CASE k = 0
    <3>1. PICK f : f = [n \in 0..0 |-> t]
      OBVIOUS
    <3>2. \A n \in 0..0 : LookStep(t, list, f, n) = t
      BY DEF LookStep
    <3>3. f = [n \in 0..0 |-> LookStep(t, list, f, n)]
      BY <3>1, <3>2
    <3> QED
      BY <2>2, <2>3, <3>3
  <2>4. CASE k # 0
    <3>1. k-1 \in Nat /\ k-1 \notin B
      BY <2>1, <2>2, <2>4
    <3>2. PICK f : f = [n \in 0..(k-1) |-> LookStep(t, list, f, n)]
      BY <3>1
    <3>3. PICK g : g = [n \in 0..k |-> IF n = k THEN ReleaseIfPermitted(f[k-1], list[k]) ELSE f[n]]
      OBVIOUS
    <3>4. \A n \in 0..k : g[n] = LookStep(t, list, g, n)
      <4> SUFFICES ASSUME NEW n \in 0..k
                   PROVE  g[n] = LookStep(t, list, g, n)
        OBVIOUS
      <4>1. CASE n = k
        <5>1. g[n-1] = f[k-1]
          BY <2>2, <2>4, <3>3, <4>1
        <5> QED
          BY <2>4, <3>3, <4>1, <5>1 DEF LookStep
      <4>2. CASE n # k
        <5>1. n \in 0..(k-1)
          BY <2>2, <4>2
        <5>2. g[n] = LookStep(t, list, f, n)
          BY <3>2, <3>3, <4>2, <5>1
        <5>3. n # 0 => g[n-1] = f[n-1]
          BY <2>2, <3>3, <5>1
        <5> QED
          BY <5>2, <5>3 DEF LookStep
      <4> QED
        BY <4>1, <4>2
    <3>5. g = [n \in 0..k |-> LookStep(t, list, g, n)]
      BY <3>3, <3>4
    <3> QED
      BY <2>2, <3>5
  <2> QED
    BY <2>3, <2>4
<1>2. Has(len)
  BY <1>1
<1> QED
  BY <1>2

\* ReleaseBlockedByRow is the last of these looks.
LEMMA ReleaseIsLooked ==
  ASSUME NEW t, NEW d, Len(t.blockedByRow[d]) \in Nat
  PROVE  \E f : /\ \A n \in 0..Len(t.blockedByRow[d]) : f[n] = LookStep(t, t.blockedByRow[d], f, n)
                /\ ReleaseBlockedByRow(t, d) = f[Len(t.blockedByRow[d])]
<1>1. PICK list, len : list = t.blockedByRow[d] /\ len = Len(list)
  OBVIOUS
<1>2. PICK f : f = CHOOSE g : g = [n \in 0..len |-> LookStep(t, list, g, n)]
  OBVIOUS
<1>3. f = [n \in 0..len |-> LookStep(t, list, f, n)]
  BY <1>1, <1>2, LookedExists
<1>4. \A n \in 0..len : f[n] = LookStep(t, list, f, n)
  BY <1>3
<1>5. ReleaseBlockedByRow(t, d) = f[len]
  BY <1>1, <1>2 DEF ReleaseBlockedByRow, LookStep
<1> QED
  BY <1>1, <1>4, <1>5

\* So it keeps the tables sound: no look is the first one not to.
LEMMA ReleaseSound ==
  ASSUME NEW t, NEW acc, NEW w \in [Die -> [Block -> 0..Pages]], Sound(t, acc, w),
         NEW d \in Die, NEW u, u = ReleaseBlockedByRow(t, d)
  PROVE  Sound(u, acc, w) /\ KeepsStarted(t, u) /\ u.pool = t.pool /\ SameTurns(t, u)
<1>1. PICK list, len : list = t.blockedByRow[d] /\ len = Len(list)
  OBVIOUS
<1>2. list \in Seq(Slot) /\ len \in Nat /\ DOMAIN list = 1..len /\ Distinct(list)
  <2>1. t \in Tables /\ RowQueues(t, acc)
    BY DEF Sound
  <2>2. list \in Seq(Slot) /\ Distinct(list)
    BY <1>1, <2>1, TableTypes DEF RowQueues
  <2> QED
    BY <1>1, <2>2, LenProperties
<1>3. PICK f : /\ \A n \in 0..len : f[n] = LookStep(t, list, f, n)
               /\ u = f[len]
  BY <1>1, <1>2, ReleaseIsLooked
<1> DEFINE Good(n) ==
      /\ Sound(f[n], acc, w) /\ KeepsStarted(t, f[n]) /\ f[n].pool = t.pool /\ SameTurns(t, f[n])
      /\ \A i \in 1..len : n < i => list[i] \in ToSet(f[n].blockedByRow[d])
    B == {n \in 0..len : ~Good(n)}
<1>4. Good(0)
  <2>1. f[0] = t
    BY <1>2, <1>3 DEF LookStep
  <2>2. \A i \in 1..len : list[i] \in ToSet(list)
    BY <1>2 DEF ToSet
  <2> QED
    BY <1>1, <2>1, <2>2 DEF KeepsStarted, SameTurns
<1>5. ASSUME NEW n \in 0..len, n # 0, Good(n-1)
      PROVE  Good(n)
  <2>1. PICK v, s : v = f[n-1] /\ s = list[n]
    OBVIOUS
  <2>2. n \in 1..len /\ n-1 < n
    BY <1>2, <1>5
  <2>3. f[n] = ReleaseIfPermitted(v, s)
    BY <1>3, <1>5, <2>1 DEF LookStep
  <2>4. /\ Sound(v, acc, w) /\ KeepsStarted(t, v) /\ v.pool = t.pool /\ SameTurns(t, v)
        /\ s \in ToSet(v.blockedByRow[d])
    BY <1>5, <2>1, <2>2
  <2>5. PICK x : x = f[n]
    OBVIOUS
  <2>6. /\ Sound(x, acc, w) /\ KeepsStarted(v, x) /\ x.pool = v.pool /\ SameTurns(v, x)
        /\ ToSet(v.blockedByRow[d]) \ {s} \subseteq ToSet(x.blockedByRow[d])
    BY <2>3, <2>4, <2>5, LookedAt
  <2>7. KeepsStarted(t, x) /\ SameTurns(t, x) /\ x.pool = t.pool
    BY <2>4, <2>6 DEF KeepsStarted, SameTurns
  <2>8. ASSUME NEW i \in 1..len, n < i
        PROVE  list[i] \in ToSet(x.blockedByRow[d])
    <3>1. list[i] # s
      <4>1. n \in DOMAIN list /\ i \in DOMAIN list /\ n # i
        BY <1>2, <2>2, <2>8
      <4> QED
        BY <1>2, <2>1, <4>1 DEF Distinct
    <3>2. list[i] \in ToSet(v.blockedByRow[d])
      BY <1>2, <1>5, <2>1, <2>2, <2>8
    <3> QED
      BY <2>6, <3>1, <3>2
  <2> QED
    BY <2>5, <2>6, <2>7, <2>8
<1>6. Good(len)
  <2>1. B \in SUBSET Nat
    BY <1>2
  <2>2. ASSUME B # {}
        PROVE  FALSE
    <3>1. PICK k \in B : \A m \in B : k <= m
      <4> HIDE DEF B
      <4> QED
        BY <2>1, <2>2, Least
    <3>2. k # 0
      BY <1>4
    <3>3. k-1 \in 0..len /\ k-1 \notin B
      BY <1>2, <3>1, <3>2
    <3> QED
      BY <1>5, <3>1, <3>2, <3>3
  <2> QED
    BY <1>2, <2>2
<1> QED
  BY <1>3, <1>6

-----------------------------------------------------------------------------
(***************************************************************************)
(* The dies' turns.                                                        *)
(***************************************************************************)
LEMMA SoundTurned ==
  ASSUME NEW t, NEW acc, NEW w, Sound(t, acc, w), NEW u \in Tables, u.pool = t.pool,
         SameQueues(t, u), SameChains(t, u), SameRows(t, u)
  PROVE  Sound(u, acc, w) /\ KeepsStarted(t, u)
<1>1. /\ t \in Tables /\ Listed(t, acc) /\ Chains(t, acc) /\ BufQueue(t) /\ RowQueues(t, acc)
      /\ RowInv(t, acc, w, HeldUp(t))
  BY DEF Sound
<1>2. HeldUp(u) = HeldUp(t)
  BY DEF HeldUp, SameQueues, SameChains
<1>3. RowInv(u, acc, w, HeldUp(u))
  BY <1>1, <1>2, RowInvSame DEF SameQueues
<1>4. Listed(u, acc) /\ Chains(u, acc) /\ BufQueue(u)
  BY <1>1, ChainsSame DEF Listed, BufQueue, SameChains
<1>5. RowQueues(u, acc)
  BY <1>1 DEF RowQueues, OnDie, SameQueues, SameChains
<1>6. KeepsStarted(t, u)
  BY DEF KeepsStarted, SameQueues
<1> QED
  BY <1>3, <1>4, <1>5, <1>6 DEF Sound

\* A die is in turn with what it has.
WithWay(t, d, way) == [t EXCEPT !.way[d] = way]
WayState == {"idle", "queued", "busy"}

LEMMA WayFacts ==
  ASSUME NEW t \in Tables, NEW d \in Die, NEW way \in WayState,
         NEW u, u = WithWay(t, d, way)
  PROVE  /\ u \in Tables /\ u.pool = t.pool
         /\ SameQueues(t, u) /\ SameChains(t, u) /\ SameRows(t, u)
         /\ u.way[d] = way /\ \A x \in Die \ {d} : u.way[x] = t.way[x]
<1>1. PICK ways \in [Die -> {"idle", "queued", "busy"}] : ways = [t.way EXCEPT ![d] = way]
  BY TableTypes DEF WayState
<1>2. u = [t EXCEPT !.way = ways]
  BY <1>1 DEF WithWay
<1>3. ways[d] = way /\ \A x \in Die \ {d} : ways[x] = t.way[x]
  BY <1>1, TableTypes
<1> QED
  BY <1>2, <1>3 DEF Tables, SameQueues, SameChains, SameRows

\* The dies but d are in turn only with something to do.
OthersTurn(t, d) == \A x \in Die \ {d} : t.way[x] # "idle" => t.nand[x] # <<>>

\* NextTurn leaves a die idle only with nothing to do.
LEMMA TurnSound ==
  ASSUME NEW t, NEW acc, NEW w \in [Die -> [Block -> 0..Pages]], Sound(t, acc, w),
         NEW d \in Die, OthersTurn(t, d), NEW u, u = NextTurn(t, d)
  PROVE  Sound(u, acc, w) /\ Turns(u) /\ KeepsStarted(t, u) /\ u.pool = t.pool
<1>1. PICK n : n = RefillNandReqQ(t, d)
  OBVIOUS
<1>2. Sound(n, acc, w) /\ KeepsStarted(t, n) /\ n.pool = t.pool /\ SameTurns(t, n)
  <2>1. CASE t.nand[d] = <<>>
    <3>1. n = ReleaseBlockedByRow(t, d)
      BY <1>1, <2>1 DEF RefillNandReqQ
    <3> QED
      BY <3>1, ReleaseSound
  <2>2. CASE t.nand[d] # <<>>
    <3>1. n = t
      BY <1>1, <2>2 DEF RefillNandReqQ
    <3> QED
      BY <3>1 DEF KeepsStarted, SameTurns
  <2> QED
    BY <2>1, <2>2
<1>3. PICK way \in WayState : way = IF n.nand[d] = <<>> THEN "idle" ELSE "queued"
  BY DEF WayState
<1>4. u = WithWay(n, d, way)
  BY <1>1, <1>3 DEF NextTurn, WithWay
<1>5. n \in Tables
  BY <1>2 DEF Sound
<1>6. /\ u \in Tables /\ u.pool = n.pool
      /\ SameQueues(n, u) /\ SameChains(n, u) /\ SameRows(n, u)
      /\ u.way[d] = way /\ \A x \in Die \ {d} : u.way[x] = n.way[x]
  BY <1>4, <1>5, WayFacts
<1>7. Sound(u, acc, w) /\ KeepsStarted(n, u)
  BY <1>2, <1>6, SoundTurned
<1>8. KeepsStarted(t, u)
  BY <1>2, <1>7 DEF KeepsStarted
<1>9. Turns(u)
  <2> SUFFICES ASSUME NEW x \in Die, u.way[x] # "idle" PROVE u.nand[x] # <<>>
    BY DEF Turns
  <2>1. CASE x = d
    BY <1>3, <1>6, <2>1 DEF SameQueues
  <2>2. CASE x # d
    <3>1. t.way[x] # "idle"
      BY <1>2, <1>6, <2>2 DEF SameTurns
    <3>2. t.nand[x] # <<>>
      BY <2>2, <3>1 DEF OthersTurn
    <3> QED
      BY <1>8, <3>2 DEF KeepsStarted
  <2> QED
    BY <2>1, <2>2
<1> QED
  BY <1>2, <1>6, <1>7, <1>8, <1>9

\* IssueNandReq gives a die what it is queued for.
LEMMA IssueSound ==
  ASSUME NEW t, NEW acc, NEW w, Sound(t, acc, w), Turns(t),
         NEW d \in Die, t.way[d] = "queued", NEW u, u = WithWay(t, d, "busy")
  PROVE  Sound(u, acc, w) /\ Turns(u) /\ KeepsStarted(t, u) /\ u.pool = t.pool
<1>1. PICK way \in WayState : way = "busy"
  BY DEF WayState
<1>2. t \in Tables /\ u = WithWay(t, d, way)
  BY <1>1 DEF Sound
<1>3. /\ u \in Tables /\ u.pool = t.pool
      /\ SameQueues(t, u) /\ SameChains(t, u) /\ SameRows(t, u)
      /\ u.way[d] = way /\ \A x \in Die \ {d} : u.way[x] = t.way[x]
  BY <1>2, WayFacts
<1>4. Turns(u)
  BY <1>3 DEF Turns, SameQueues
<1> QED
  BY <1>3, <1>4, SoundTurned

\* The outstanding requests use the entries that they used.
SameEntries(t, u, acc) == \A x \in ToSet(acc) : u.pool[x].entry = t.pool[x].entry

\* A read that changes its code stays where it is.
LEMMA ChainsRecoded ==
  ASSUME NEW t, NEW acc, Chains(t, acc), NEW u, SameChains(t, u), SameEntries(t, u, acc)
  PROVE  Chains(u, acc)
<1> USE DEF SameChains, SameEntries
<1>1. \A x \in ToSet(acc) : u.next[x] # NONE =>
        /\ u.next[x] \in ToSet(acc) /\ u.prev[u.next[x]] = x
        /\ u.pool[x].entry # NONE /\ u.pool[u.next[x]].entry = u.pool[x].entry
        /\ \A y \in ToSet(acc) :
             u.pool[y].entry = u.pool[x].entry /\ Before(acc, y, u.next[x])
               => y = x \/ Before(acc, y, x)
  BY DEF Chains
<1>2. \A e \in Entry :
        IF u.tail[e] = NONE THEN \A x \in ToSet(acc) : u.pool[x].entry # e
        ELSE /\ u.tail[e] \in ToSet(acc) /\ u.pool[u.tail[e]].entry = e
             /\ u.next[u.tail[e]] = NONE
             /\ \A y \in ToSet(acc) :
                  u.pool[y].entry = e => y = u.tail[e] \/ Before(acc, y, u.tail[e])
  BY DEF Chains
<1>3. /\ \A x \in Slot \ ToSet(acc) : u.prev[x] = NONE /\ u.next[x] = NONE
      /\ \A x \in ToSet(acc) :
           u.prev[x] # NONE => u.prev[x] \in ToSet(acc) /\ u.next[u.prev[x]] = x
  BY DEF Chains
<1>4. /\ \A x, y \in ToSet(acc) :
           u.pool[x].entry = u.pool[y].entry /\ u.pool[y].entry # NONE /\ Before(acc, x, y)
             => u.prev[y] # NONE
      /\ \A x \in ToSet(acc) :
           u.pool[x].entry # NONE /\ u.next[x] = NONE => u.tail[u.pool[x].entry] = x
  BY DEF Chains
<1> QED
  BY <1>1, <1>2, <1>3, <1>4 DEF Chains

LEMMA OrderRecoded ==
  ASSUME NEW t \in Tables, NEW acc \in Seq(Slot), NandOrdered(t, acc), NEW u, u.nand = t.nand,
         \A x, y \in Slot : RowConflict(u.pool[x], u.pool[y]) <=> RowConflict(t.pool[x], t.pool[y])
  PROVE  NandOrdered(u, acc)
<1> SUFFICES ASSUME NEW x \in Die, NEW j \in DOMAIN t.nand[x], NEW y \in ToSet(acc),
                    Before(acc, y, t.nand[x][j]),
                    RowConflict(u.pool[y], u.pool[t.nand[x][j]])
             PROVE  \E i \in DOMAIN t.nand[x] : i < j /\ t.nand[x][i] = y
  BY DEF NandOrdered
<1>1. t.nand[x][j] \in Slot /\ y \in Slot
  <2>1. t.nand[x] \in Seq(Slot)
    BY TableTypes
  <2>2. t.nand[x][j] \in Slot
    BY <2>1, ElementOfSeq, LenProperties
  <2>3. y \in Slot
    BY ElementOfSeq, LenProperties DEF ToSet
  <2> QED
    BY <2>2, <2>3
<1>2. RowConflict(t.pool[y], t.pool[t.nand[x][j]])
  BY <1>1
<1> QED
  BY <1>2 DEF NandOrdered

\* A read that goes on with its transfer, or starts again.
ReadAgain(r, p) == r = [p EXCEPT !.code = "READ"] \/ r = [p EXCEPT !.code = "READ_TRANSFER"]

\* Neither step of a read is seen by anybody else.
LEMMA Recoded ==
  ASSUME NEW t, NEW acc, NEW w, Sound(t, acc, w), NEW d \in Die, t.nand[d] # <<>>,
         NEW s, s = Head(t.nand[d]), IsRead(t.pool[s]),
         NEW r, ReadAgain(r, t.pool[s]), NEW u \in Tables, PoolWith(t, u, s, r),
         SameQueues(t, u), SameChains(t, u), SameRows(t, u)
  PROVE  /\ Sound(u, acc, w) /\ KeepsStarted(t, u)
         /\ \A x \in Slot : AsSubmitted(u.pool[x]) = AsSubmitted(t.pool[x])
<1>1. /\ t \in Tables /\ Listed(t, acc) /\ Chains(t, acc) /\ BufQueue(t) /\ RowQueues(t, acc)
      /\ RowInv(t, acc, w, HeldUp(t))
  BY DEF Sound
<1>2. PICK H : H = HeldUp(t)
  OBVIOUS
<1>3. s \in ToSet(t.nand[d]) /\ OnDie(t, acc, d, s) /\ s \notin H
  <2>1. t.nand[d] \in Seq(Slot) /\ Distinct(t.nand[d])
    BY <1>1, TableTypes DEF RowInv, Placed
  <2>2. s \in ToSet(t.nand[d])
    BY <2>1, TailFacts
  <2> QED
    BY <1>1, <1>2, <2>2 DEF RowInv, Placed, OnDie
<1>4. s \in ToSet(acc) /\ s \in Slot /\ t.pool[s] \in Request
  BY <1>1, <1>3, ListedFacts DEF OnDie
<1>5. t.pool[s] \in PageRequest
  BY <1>4, ClientAssumption DEF Request, PageRequest, EraseRequest, IsRead
<1>6. /\ r.entry = t.pool[s].entry /\ r.die = t.pool[s].die /\ r.block = t.pool[s].block
      /\ r.page = t.pool[s].page /\ r.code \in {"READ", "READ_TRANSFER"} /\ r # NONE
  <2>1. r \in PageRequest
    BY <1>5 DEF PageRequest, ReadAgain
  <2>2. r # NONE
    BY <2>1, ClientAssumption
  <2> QED
    BY <1>5, <2>2 DEF PageRequest, ReadAgain
<1>7. u.pool[s] = r /\ \A x \in Slot : x # s => u.pool[x] = t.pool[x]
  BY <1>1, <1>4, TableTypes DEF PoolWith
<1>8. t.pool[s].code \in {"READ", "READ_TRANSFER"} /\ t.pool[s] # NONE
  BY <1>1, <1>4, ListedFacts DEF IsRead
<1>9. \A x \in Slot :
        /\ u.pool[x].entry = t.pool[x].entry /\ u.pool[x].die = t.pool[x].die
        /\ u.pool[x].block = t.pool[x].block /\ u.pool[x].page = t.pool[x].page
        /\ IsDma(u.pool[x]) <=> IsDma(t.pool[x])
        /\ IsRead(u.pool[x]) <=> IsRead(t.pool[x])
        /\ u.pool[x].code = "WRITE" <=> t.pool[x].code = "WRITE"
        /\ u.pool[x].code = "ERASE" <=> t.pool[x].code = "ERASE"
        /\ u.pool[x] = NONE <=> t.pool[x] = NONE
  BY <1>6, <1>7, <1>8 DEF IsDma, IsRead
<1>10. ToSet(acc) \subseteq Slot /\ H \subseteq Slot
  BY <1>1, <1>2, ListedFacts DEF RowInv, Placed
<1>11. Listed(u, acc)
  BY <1>1, <1>9 DEF Listed
<1>12. Chains(u, acc)
  <2>1. SameEntries(t, u, acc)
    BY <1>9, <1>10 DEF SameEntries
  <2>2. Chains(t, acc)
    BY <1>1
  <2> QED
    BY <2>1, <2>2, ChainsRecoded
<1>13. BufQueue(u) /\ HeldUp(u) = H
  BY <1>1, <1>2 DEF BufQueue, HeldUp, SameChains, SameQueues
<1>14. \A x, y : OnDie(u, acc, x, y) <=> OnDie(t, acc, x, y)
  BY <1>9, <1>10 DEF OnDie
<1>15. RowQueues(u, acc)
  BY <1>1, <1>14 DEF RowQueues, SameChains, SameQueues
<1>16. Placed(u, acc, H)
  <2>1. \A x \in H : u.pool[x].code # "READ_TRANSFER"
    BY <1>1, <1>2, <1>3, <1>7, <1>10 DEF RowInv, Placed
  <2>2. /\ \A x \in ToSet(u.nvmeDma) : x \in ToSet(acc) /\ IsDma(u.pool[x])
        /\ \A x \in ToSet(acc) : IsDma(u.pool[x]) => (x \in ToSet(u.nvmeDma) <=> x \notin H)
        /\ Distinct(u.nvmeDma) /\ H \subseteq ToSet(acc)
    BY <1>1, <1>2, <1>9, <1>10 DEF RowInv, Placed, SameQueues
  <2>3. ASSUME NEW x \in Die
        PROVE  /\ Distinct(u.nand[x])
               /\ \A y \in ToSet(u.nand[x]) : OnDie(u, acc, x, y)
               /\ \A y \in ToSet(acc) : OnDie(u, acc, x, y) => (y \in ToSet(u.nand[x]) <=> y \notin H)
    BY <1>1, <1>2, <1>14 DEF RowInv, Placed, SameQueues
  <2> QED
    BY <2>1, <2>2, <2>3 DEF Placed
<1>17. NandOrdered(u, acc)
  <2>1. \A x, y \in Slot : RowConflict(u.pool[x], u.pool[y]) <=> RowConflict(t.pool[x], t.pool[y])
    BY <1>9 DEF RowConflict
  <2>2. u.nand = t.nand /\ acc \in Seq(Slot) /\ NandOrdered(t, acc)
    BY <1>1, ListedFacts DEF SameQueues, RowInv
  <2> QED
    BY <1>1, <2>1, <2>2, OrderRecoded
<1>18. Counted(u, H) /\ RowsFit(u, acc, w, H)
  <2>1. \A x \in H : u.pool[x] = t.pool[x]
    BY <1>3, <1>7, <1>10
  <2>2. \A x, y \in H : Before(acc, x, y) <=> Before(acc, x, y)
    OBVIOUS
  <2>3. Counted(t, H) /\ RowsFit(t, acc, w, H)
    BY <1>1, <1>2 DEF RowInv
  <2> QED
    BY <2>1, <2>2, <2>3, SameHeld
<1>19. Sound(u, acc, w)
  BY <1>11, <1>12, <1>13, <1>15, <1>16, <1>17, <1>18 DEF Sound, RowInv
<1>20. AsSubmitted(r) = AsSubmitted(t.pool[s])
  <2>1. PICK p \in PageRequest : p = t.pool[s]
    BY <1>5
  <2>2. r \in PageRequest
    BY <2>1 DEF PageRequest, ReadAgain
  <2>3. AsSubmitted(p) = [p EXCEPT !.code = "READ"]
    BY <1>8, <2>1 DEF AsSubmitted, PageRequest
  <2>4. AsSubmitted(r) = [r EXCEPT !.code = "READ"]
    BY <1>6, <2>2 DEF AsSubmitted, PageRequest
  <2>5. [r EXCEPT !.code = "READ"] = [p EXCEPT !.code = "READ"]
    BY <2>1 DEF PageRequest, ReadAgain
  <2> QED
    BY <2>1, <2>3, <2>4, <2>5
<1>21. \A x \in Slot : AsSubmitted(u.pool[x]) = AsSubmitted(t.pool[x])
  BY <1>7, <1>20
<1>22. KeepsStarted(t, u)
  BY DEF KeepsStarted, SameQueues
<1> QED
  BY <1>19, <1>21, <1>22

-----------------------------------------------------------------------------
(***************************************************************************)
(* A request that is done leaves its slot.                                 *)
(***************************************************************************)
StartedIn(t, s) ==
  s \in ToSet(t.nvmeDma) \/ \E d \in Die : t.nand[d] # <<>> /\ Head(t.nand[d]) = s

LEMMA StaysStarted ==
  ASSUME NEW t, NEW u, KeepsStarted(t, u)
  PROVE  \A x : StartedIn(t, x) => StartedIn(u, x)
BY DEF KeepsStarted, StartedIn

\* Slot s was under way and is free; what else was under way still is.
Ended(t, u, s) ==
  /\ StartedIn(t, s) /\ PoolWith(t, u, s, NONE)
  /\ \A x : x # s /\ StartedIn(t, x) => StartedIn(u, x)

\* The head of a die is done.
WithoutHead(t, d) == [t EXCEPT !.nand[d] = Tail(@), !.retryLimit[d] = RETRY_LIMIT]

LEMMA WithoutHeadFacts ==
  ASSUME NEW t \in Tables, NEW d \in Die, Distinct(t.nand[d]), t.nand[d] # <<>>,
         NEW v, v = WithoutHead(t, d)
  PROVE  /\ v \in Tables /\ v.pool = t.pool /\ SameChains(t, v) /\ SameRows(t, v)
         /\ v.blockedByRow = t.blockedByRow /\ v.nvmeDma = t.nvmeDma /\ v.way = t.way
         /\ v.nand[d] = Tail(t.nand[d]) /\ \A x \in Die : x # d => v.nand[x] = t.nand[x]
<1>1. Tail(t.nand[d]) \in Seq(Slot)
  BY TableTypes, TailFacts
<1>2. PICK nands \in [Die -> Seq(Slot)] : nands = [t.nand EXCEPT ![d] = Tail(@)]
  BY <1>1, TableTypes
<1>3. PICK limits \in [Die -> Nat] : limits = [t.retryLimit EXCEPT ![d] = RETRY_LIMIT]
  BY TableTypes, ClientAssumption
<1>4. v = [t EXCEPT !.nand = nands, !.retryLimit = limits]
  BY <1>2, <1>3 DEF WithoutHead, Tables
<1>5. /\ v \in Tables /\ v.pool = t.pool /\ SameChains(t, v) /\ SameRows(t, v)
      /\ v.blockedByRow = t.blockedByRow /\ v.nvmeDma = t.nvmeDma /\ v.way = t.way
      /\ v.nand = nands
  BY <1>4 DEF Tables, SameChains, SameRows
<1>6. nands[d] = Tail(t.nand[d]) /\ \A x \in Die : x # d => nands[x] = t.nand[x]
  BY <1>2, TableTypes
<1> QED
  BY <1>5, <1>6

\* NandDone without the turn.
LEMMA HeadDone ==
  ASSUME NEW t, NEW acc, NEW w \in [Die -> [Block -> 0..Pages]], Sound(t, acc, w), Turns(t),
         NEW d \in Die, t.nand[d] # <<>>, NEW s, s = Head(t.nand[d]),
         NEW u, u = NextTurn(FreeAndRelease(WithoutHead(t, d), s), d)
  PROVE  s \in ToSet(acc) /\ Sound(u, Without(acc, s), w) /\ Turns(u) /\ Ended(t, u, s)
<1>1. t \in Tables /\ Listed(t, acc) /\ RowInv(t, acc, w, HeldUp(t))
  BY DEF Sound
<1>2. \A x \in Die :
        /\ t.nand[x] \in Seq(Slot) /\ Distinct(t.nand[x])
        /\ \A y \in ToSet(t.nand[x]) : OnDie(t, acc, x, y) /\ y \notin HeldUp(t)
  BY <1>1, TableTypes DEF RowInv, Placed, OnDie
<1>3. s \in ToSet(t.nand[d])
  BY <1>2, TailFacts
<1>4. OnDie(t, acc, d, s) /\ s \notin HeldUp(t)
  BY <1>2, <1>3
<1>5. s \in ToSet(acc) /\ ~IsDma(t.pool[s]) /\ t.pool[s].die = d
  BY <1>4 DEF OnDie
<1>6. PICK v : v = WithoutHead(t, d)
  OBVIOUS
<1>7. /\ v \in Tables /\ v.pool = t.pool /\ SameChains(t, v) /\ SameRows(t, v)
      /\ v.blockedByRow = t.blockedByRow /\ v.nvmeDma = t.nvmeDma /\ v.way = t.way
      /\ v.nand[d] = Tail(t.nand[d]) /\ \A x \in Die : x # d => v.nand[x] = t.nand[x]
  BY <1>1, <1>2, <1>6, WithoutHeadFacts
<1>8. Taken(t, v, s)
  <2>1. Distinct(t.nvmeDma) /\ s \notin ToSet(t.nvmeDma)
    BY <1>1, <1>5 DEF RowInv, Placed
  <2>2. ASSUME NEW x \in Die, x # d
        PROVE  s \notin ToSet(t.nand[x])
    BY <1>2, <1>5, <2>2 DEF OnDie
  <2>3. ASSUME NEW x \in Die
        PROVE  \/ v.nand[x] = t.nand[x] /\ s \notin ToSet(t.nand[x])
               \/ t.nand[x] # <<>> /\ s = Head(t.nand[x]) /\ v.nand[x] = Tail(t.nand[x])
    BY <1>7, <2>2
  <2>4. Distinct(v.nvmeDma) /\ ToSet(v.nvmeDma) = ToSet(t.nvmeDma) \ {s}
    BY <1>7, <2>1
  <2> QED
    BY <2>3, <2>4 DEF Taken
<1>9. PICK f, new : f = FreeAndRelease(v, s) /\ new = Without(acc, s)
  OBVIOUS
<1>10. /\ Sound(f, new, w) /\ KeepsStarted(v, f) /\ SameTurns(v, f)
       /\ PoolWith(t, f, s, NONE)
  BY <1>4, <1>5, <1>7, <1>8, <1>9, FreeSound
<1>11. OthersTurn(f, d)
  <2> SUFFICES ASSUME NEW x \in Die, x # d, f.way[x] # "idle" PROVE f.nand[x] # <<>>
    BY DEF OthersTurn
  <2>1. t.way[x] # "idle"
    BY <1>7, <1>10 DEF SameTurns
  <2>2. v.nand[x] # <<>>
    BY <1>7, <2>1 DEF Turns
  <2> QED
    BY <1>10, <2>2 DEF KeepsStarted
<1>12. Sound(u, new, w) /\ Turns(u) /\ KeepsStarted(f, u) /\ u.pool = f.pool
  <2>1. u = NextTurn(f, d)
    BY <1>6, <1>9
  <2> QED
    BY <1>10, <1>11, <2>1, TurnSound
<1>13. StartedIn(t, s)
  BY DEF StartedIn
<1>14. ASSUME NEW x, x # s, StartedIn(t, x)
       PROVE  StartedIn(u, x)
  <2>1. StartedIn(v, x)
    BY <1>7, <1>14 DEF StartedIn
  <2>2. StartedIn(f, x)
    BY <1>10, <2>1, StaysStarted
  <2> QED
    BY <1>12, <2>2, StaysStarted
<1>15. Ended(t, u, s)
  BY <1>10, <1>12, <1>13, <1>14 DEF Ended, PoolWith
<1> QED
  BY <1>5, <1>9, <1>12, <1>15

\* DmaDone.
LEMMA TransferDone ==
  ASSUME NEW t, NEW acc, NEW w \in [Die -> [Block -> 0..Pages]], Sound(t, acc, w), Turns(t),
         NEW s \in ToSet(t.nvmeDma),
         NEW u, u = FreeAndRelease([t EXCEPT !.nvmeDma = Without(@, s)], s)
  PROVE  s \in ToSet(acc) /\ Sound(u, Without(acc, s), w) /\ Turns(u) /\ Ended(t, u, s)
<1>1. t \in Tables /\ Listed(t, acc) /\ RowInv(t, acc, w, HeldUp(t))
  BY DEF Sound
<1>2. t.nvmeDma \in Seq(Slot) /\ Distinct(t.nvmeDma)
  BY <1>1, TableTypes DEF RowInv, Placed
<1>3. s \in ToSet(acc) /\ IsDma(t.pool[s]) /\ s \notin HeldUp(t)
  BY <1>1 DEF RowInv, Placed
<1>4. PICK short \in Seq(Slot) : short = Without(t.nvmeDma, s)
  BY <1>2, WithoutFacts
<1>5. Distinct(short) /\ ToSet(short) = ToSet(t.nvmeDma) \ {s}
  BY <1>2, <1>4, WithoutFacts
<1>6. PICK v : v = [t EXCEPT !.nvmeDma = short]
  OBVIOUS
<1>7. /\ v \in Tables /\ v.pool = t.pool /\ SameChains(t, v) /\ SameRows(t, v) /\ SameTurns(t, v)
      /\ v.blockedByRow = t.blockedByRow /\ v.nvmeDma = short /\ v.nand = t.nand
  BY <1>1, <1>6 DEF Tables, SameChains, SameRows, SameTurns
<1>8. u = FreeAndRelease(v, s)
  BY <1>4, <1>6
<1>9. Taken(t, v, s)
  <2>1. \A d \in Die : s \notin ToSet(t.nand[d])
    BY <1>1, <1>3 DEF RowInv, Placed, OnDie
  <2> QED
    BY <1>5, <1>7, <2>1 DEF Taken
<1>10. PICK new : new = Without(acc, s)
  OBVIOUS
<1>11. /\ Sound(u, new, w) /\ KeepsStarted(v, u) /\ SameTurns(v, u)
       /\ PoolWith(t, u, s, NONE)
  BY <1>3, <1>7, <1>8, <1>9, <1>10, FreeSound
<1>12. Turns(u)
  BY <1>7, <1>11 DEF Turns, SameTurns, KeepsStarted
<1>13. ASSUME NEW x, x # s, StartedIn(t, x)
       PROVE  StartedIn(u, x)
  <2>1. StartedIn(v, x)
    BY <1>5, <1>7, <1>13 DEF StartedIn
  <2> QED
    BY <1>11, <2>1, StaysStarted
<1>14. Ended(t, u, s)
  BY <1>11, <1>13 DEF Ended, StartedIn
<1> QED
  BY <1>3, <1>10, <1>11, <1>12, <1>14

-----------------------------------------------------------------------------
(***************************************************************************)
(* The steps of RequestClient.                                             *)
(***************************************************************************)
\* What a step does to the list of requests: it takes one, one is done, or
\* neither.
Takes(t, u, acc, new, r) ==
  /\ r \in Request /\ r.code # "READ_TRANSFER" /\ KeepsStarted(t, u)
  /\ \E s \in Slot : t.pool[s] = NONE /\ new = Append(acc, s) /\ PoolWith(t, u, s, r)
TakesOne(t, u, acc, new) == \E r \in Request : Takes(t, u, acc, new, r)

Ends(t, u, acc, new, s) == s \in ToSet(acc) /\ new = Without(acc, s) /\ Ended(t, u, s)
EndsOne(t, u, acc, new) == \E s \in ToSet(acc) : Ends(t, u, acc, new, s)

GoesOnWithAll(t, u, acc, new) ==
  /\ new = acc /\ KeepsStarted(t, u)
  /\ \A x \in Slot : AsSubmitted(u.pool[x]) = AsSubmitted(t.pool[x])

StepOfList(t, u, acc, new) ==
  TakesOne(t, u, acc, new) \/ EndsOne(t, u, acc, new) \/ GoesOnWithAll(t, u, acc, new)

\* ClientInv of tables, list and client.
ClientInvAt(t, acc, w) ==
  Sound(t, acc, w) /\ Turns(t) /\ w \in [Die -> [Block -> 0..Pages]]

\* A submission that the client may make keeps the invariant.
LEMMA Submitted ==
  ASSUME ClientInv, NEW r \in Request, Submit(r), r.code # "READ_TRANSFER",
         NEW new \in [Die -> [Block -> 0..Pages]], MaySubmit(q, written, r, new)
  PROVE  ClientInvAt(q', accepted', new) /\ Takes(q, q', accepted, accepted', r)
<1>1. PICK t, acc, w : t = q /\ acc = accepted /\ w = written
  OBVIOUS
<1>2. Sound(t, acc, w) /\ Turns(t) /\ w \in [Die -> [Block -> 0..Pages]]
  BY <1>1 DEF ClientInv
<1>3. PICK s : s = CHOOSE x \in FreeSlots(q) : \A y \in FreeSlots(q) : x <= y
  OBVIOUS
<1>4. s \in FreeSlots(q)
  <2>1. FreeSlots(q) \in SUBSET Nat
    BY ClientAssumption DEF FreeSlots, Slot
  <2>2. FreeSlots(q) # {}
    BY DEF Submit
  <2>3. PICK x \in FreeSlots(q) : \A y \in FreeSlots(q) : x <= y
    BY <2>1, <2>2, Least
  <2> QED
    BY <1>3, <2>3
<1>5. s \in Slot /\ t.pool[s] = NONE
  BY <1>1, <1>4 DEF FreeSlots
<1>6. PICK u : u = q'
  OBVIOUS
<1>13. PICK t0 : t0 = WithPool(t, s, r)
  OBVIOUS
<1>7. u = SelectLowLevelReqQ(Chain(t0, r, s), s) /\ accepted' = Append(acc, s)
  BY <1>1, <1>3, <1>6, <1>13 DEF Submit, WithPool
<1>8. MaySubmit(t, w, r, new)
  BY <1>1
<1>9. /\ Sound(u, Append(acc, s), new) /\ KeepsStarted(t, u) /\ SameTurns(t, u)
      /\ PoolWith(t, u, s, r)
  BY <1>2, <1>5, <1>7, <1>8, <1>13, SubmitSound
<1>10. Turns(u)
  BY <1>2, <1>9 DEF Turns, SameTurns, KeepsStarted
<1>11. ClientInvAt(u, Append(acc, s), new)
  BY <1>9, <1>10 DEF ClientInvAt
<1>12. Takes(t, u, acc, Append(acc, s), r)
  BY <1>5, <1>9 DEF Takes
<1> QED
  BY <1>1, <1>6, <1>7, <1>11, <1>12

LEMMA WritePageStep ==
  ASSUME ClientInv, NEW e \in Entry, NEW d \in Die, NEW b \in Block, WritePage(e, d, b)
  PROVE  ClientInvAt(q', accepted', written') /\ StepOfList(q, q', accepted, accepted')
<1>1. written \in [Die -> [Block -> 0..Pages]]
  BY DEF ClientInv
<1>2. PICK r : r = Flash("WRITE", e, d, b, written[d][b])
  OBVIOUS
<1>3. written[d][b] \in 0..Pages-1 /\ written[d][b] + 1 \in 0..Pages
  BY <1>1, ClientAssumption DEF WritePage
<1>4. r \in PageRequest /\ r.code = "WRITE" /\ r.die = d /\ r.block = b /\ r.page = written[d][b]
  BY <1>2, <1>3 DEF Flash, PageRequest
<1>5. PICK new : new = written'
  OBVIOUS
<1>6. /\ new \in [Die -> [Block -> 0..Pages]] /\ new[d][b] = written[d][b] + 1
      /\ \A x \in Die, y \in Block : x # d \/ y # b => new[x][y] = written[x][y]
  <2>1. new = [written EXCEPT ![d][b] = written[d][b] + 1]
    BY <1>1, <1>5 DEF WritePage
  <2> QED
    BY <1>1, <1>3, <2>1
<1>7. q.blockedEraseReqFlag[d][b] => q.permittedProgPage[d][b] = Pages
  BY DEF WritePage
<1>8. MaySubmit(q, written, r, new)
  BY <1>4, <1>6, <1>7 DEF MaySubmit, IsDma
<1>9. Submit(r) /\ r \in Request
  BY <1>2, <1>4 DEF WritePage, Request
<1>10. ClientInvAt(q', accepted', new) /\ Takes(q, q', accepted, accepted', r)
  BY <1>4, <1>6, <1>8, <1>9, Submitted
<1> QED
  BY <1>5, <1>9, <1>10 DEF StepOfList, TakesOne

LEMMA ReadPageStep ==
  ASSUME ClientInv, NEW e \in Entry, NEW d \in Die, NEW b \in Block, NEW p \in 0..Pages-1,
         ReadPage(e, d, b, p)
  PROVE  ClientInvAt(q', accepted', written') /\ StepOfList(q, q', accepted, accepted')
<1>1. written \in [Die -> [Block -> 0..Pages]] /\ written' = written
  BY DEF ClientInv, ReadPage
<1>2. PICK r : r = Flash("READ", e, d, b, p)
  OBVIOUS
<1>3. r \in PageRequest /\ r.code = "READ" /\ r.die = d /\ r.block = b /\ r.page = p
  BY <1>2 DEF Flash, PageRequest
<1>4. Submit(r) /\ r \in Request /\ p < written[d][b]
  BY <1>2, <1>3 DEF ReadPage, Request
<1>5. ~q.blockedEraseReqFlag[d][b]
  BY <1>3, <1>4 DEF Submit, WaitsForErase
<1>6. MaySubmit(q, written, r, written)
  BY <1>3, <1>4, <1>5 DEF MaySubmit, IsDma
<1>7. ClientInvAt(q', accepted', written) /\ Takes(q, q', accepted, accepted', r)
  BY <1>1, <1>3, <1>4, <1>6, Submitted
<1> QED
  BY <1>1, <1>4, <1>7 DEF StepOfList, TakesOne

LEMMA EraseStep ==
  ASSUME ClientInv, NEW d \in Die, NEW b \in Block, Erase(d, b)
  PROVE  ClientInvAt(q', accepted', written') /\ StepOfList(q, q', accepted, accepted')
<1>1. written \in [Die -> [Block -> 0..Pages]]
  BY DEF ClientInv
<1>2. PICK r : r = [code |-> "ERASE", entry |-> NONE, die |-> d, block |-> b,
                    programmedPageCnt |-> Pages]
  OBVIOUS
<1>3. r \in EraseRequest /\ r.code = "ERASE" /\ r.die = d /\ r.block = b
  BY <1>2 DEF EraseRequest
<1>4. PICK new : new = written'
  OBVIOUS
<1>5. /\ new \in [Die -> [Block -> 0..Pages]] /\ new[d][b] = 0
      /\ \A x \in Die, y \in Block : x # d \/ y # b => new[x][y] = written[x][y]
  <2>1. new = [written EXCEPT ![d][b] = 0] /\ 0 \in 0..Pages
    BY <1>4, ClientAssumption DEF Erase
  <2> QED
    BY <1>1, <2>1
<1>6. written[d][b] = Pages /\ ~q.blockedEraseReqFlag[d][b]
  BY DEF Erase
<1>7. MaySubmit(q, written, r, new)
  BY <1>3, <1>5, <1>6 DEF MaySubmit, IsDma
<1>8. Submit(r) /\ r \in Request
  BY <1>2, <1>3 DEF Erase, Request
<1>9. ClientInvAt(q', accepted', new) /\ Takes(q, q', accepted, accepted', r)
  BY <1>3, <1>5, <1>7, <1>8, Submitted
<1> QED
  BY <1>4, <1>8, <1>9 DEF StepOfList, TakesOne

LEMMA TransferStep ==
  ASSUME ClientInv, NEW r \in DmaRequest, Transfer(r)
  PROVE  ClientInvAt(q', accepted', written') /\ StepOfList(q, q', accepted, accepted')
<1>1. written \in [Die -> [Block -> 0..Pages]] /\ written' = written
  BY DEF ClientInv, Transfer
<1>3. r.code \in {"RxDMA", "TxDMA"}
  BY ClientAssumption
<1>4. IsDma(r) /\ r.code # "READ_TRANSFER" /\ r \in Request
  BY <1>3 DEF IsDma, Request
<1>5. Submit(r)
  BY DEF Transfer
<1>6. MaySubmit(q, written, r, written)
  BY <1>4 DEF MaySubmit
<1>7. ClientInvAt(q', accepted', written) /\ Takes(q, q', accepted, accepted', r)
  BY <1>1, <1>4, <1>5, <1>6, Submitted
<1> QED
  BY <1>1, <1>4, <1>7 DEF StepOfList, TakesOne

LEMMA DmaDoneStep ==
  ASSUME ClientInv, NEW s \in Slot, DmaDone(s), UNCHANGED written
  PROVE  ClientInvAt(q', accepted', written') /\ Ends(q, q', accepted, accepted', s)
<1>1. PICK t, acc, w, u : t = q /\ acc = accepted /\ w = written /\ u = q'
  OBVIOUS
<1>2. Sound(t, acc, w) /\ Turns(t) /\ w \in [Die -> [Block -> 0..Pages]]
  BY <1>1 DEF ClientInv
<1>3. s \in ToSet(t.nvmeDma)
  BY <1>1 DEF DmaDone, ToSet
<1>4. u = FreeAndRelease([t EXCEPT !.nvmeDma = Without(@, s)], s) /\ accepted' = Without(acc, s)
  BY <1>1 DEF DmaDone, Finish
<1>5. s \in ToSet(acc) /\ Sound(u, Without(acc, s), w) /\ Turns(u) /\ Ended(t, u, s)
  BY <1>2, <1>3, <1>4, TransferDone
<1> QED
  BY <1>1, <1>2, <1>4, <1>5 DEF ClientInvAt, Ends

LEMMA WakeStep ==
  ASSUME ClientInv, NEW d \in Die, Wake(d), UNCHANGED written
  PROVE  ClientInvAt(q', accepted', written') /\ GoesOnWithAll(q, q', accepted, accepted')
<1>1. PICK t, acc, w, u : t = q /\ acc = accepted /\ w = written /\ u = q'
  OBVIOUS
<1>2. Sound(t, acc, w) /\ Turns(t) /\ w \in [Die -> [Block -> 0..Pages]]
  BY <1>1 DEF ClientInv
<1>3. u = NextTurn(t, d) /\ accepted' = acc
  BY <1>1 DEF Wake
<1>4. OthersTurn(t, d)
  BY <1>2 DEF Turns, OthersTurn
<1>5. Sound(u, acc, w) /\ Turns(u) /\ KeepsStarted(t, u) /\ u.pool = t.pool
  BY <1>2, <1>3, <1>4, TurnSound
<1> QED
  BY <1>1, <1>2, <1>3, <1>5 DEF ClientInvAt, GoesOnWithAll

LEMMA IssueNandReqStep ==
  ASSUME ClientInv, NEW d \in Die, IssueNandReq(d), UNCHANGED written
  PROVE  ClientInvAt(q', accepted', written') /\ GoesOnWithAll(q, q', accepted, accepted')
<1>1. PICK t, acc, w, u : t = q /\ acc = accepted /\ w = written /\ u = q'
  OBVIOUS
<1>2. Sound(t, acc, w) /\ Turns(t) /\ w \in [Die -> [Block -> 0..Pages]]
  BY <1>1 DEF ClientInv
<1>3. t.way[d] = "queued" /\ u = WithWay(t, d, "busy") /\ accepted' = acc
  BY <1>1 DEF IssueNandReq, WithWay
<1>4. Sound(u, acc, w) /\ Turns(u) /\ KeepsStarted(t, u) /\ u.pool = t.pool
  BY <1>2, <1>3, IssueSound
<1> QED
  BY <1>1, <1>2, <1>3, <1>4 DEF ClientInvAt, GoesOnWithAll

\* A busy die has a request.
LEMMA BusyHead ==
  ASSUME ClientInv, NEW d \in Die, NEW status \in Statuses(d)
  PROVE  /\ q.nand[d] # <<>> /\ HeadReq(d) \in ToSet(accepted)
         /\ ~IsDma(q.pool[HeadReq(d)]) /\ q.pool[HeadReq(d)] \in Request /\ HeadReq(d) \in Slot
<1>1. /\ q \in Tables /\ Listed(q, accepted) /\ RowInv(q, accepted, written, HeldUp(q))
      /\ Turns(q)
  BY DEF ClientInv, Sound
<1>2. q.nand[d] # <<>>
  BY <1>1 DEF Statuses, Turns
<1>3. q.nand[d] \in Seq(Slot) /\ Distinct(q.nand[d])
  BY <1>1, TableTypes DEF RowInv, Placed
<1>4. HeadReq(d) \in ToSet(q.nand[d])
  BY <1>2, <1>3, TailFacts DEF HeadReq
<1>5. OnDie(q, accepted, d, HeadReq(d))
  BY <1>1, <1>4 DEF RowInv, Placed
<1> QED
  BY <1>1, <1>2, <1>5, ListedFacts DEF OnDie

\* Some die has retried.
WithLimits(t, limits) == [t EXCEPT !.retryLimit = limits]

\* ReadTriggered and ReadRetried put the head of a die back in turn.
LEMMA ReadGoesOn ==
  ASSUME NEW t, NEW acc, NEW w, ClientInvAt(t, acc, w), NEW d \in Die, t.nand[d] # <<>>,
         NEW s \in Slot, s = Head(t.nand[d]), IsRead(t.pool[s]),
         NEW r \in Request, ReadAgain(r, t.pool[s]),
         NEW limits \in [Die -> Nat],
         NEW u, u = NextTurn(WithLimits(WithPool(t, s, r), limits), d)
  PROVE  ClientInvAt(u, acc, w) /\ GoesOnWithAll(t, u, acc, acc)
<1>1. Sound(t, acc, w) /\ Turns(t) /\ w \in [Die -> [Block -> 0..Pages]] /\ t \in Tables
  BY DEF ClientInvAt, Sound
<1>3. PICK v, m : v = WithPool(t, s, r) /\ m = WithLimits(v, limits)
  OBVIOUS
<1>4. /\ v \in Tables /\ PoolWith(t, v, s, r)
      /\ SameQueues(t, v) /\ SameChains(t, v) /\ SameRows(t, v) /\ SameTurns(t, v)
  BY <1>1, <1>3, TakeFacts
<1>5. /\ m \in Tables /\ m.pool = v.pool /\ m.way = v.way
      /\ SameQueues(v, m) /\ SameChains(v, m) /\ SameRows(v, m)
  BY <1>3, <1>4 DEF WithLimits, Tables, SameQueues, SameChains, SameRows
<1>6. /\ PoolWith(t, m, s, r) /\ m.way = t.way
      /\ SameQueues(t, m) /\ SameChains(t, m) /\ SameRows(t, m)
  BY <1>4, <1>5 DEF PoolWith, SameQueues, SameChains, SameRows, SameTurns
<1>8. /\ Sound(m, acc, w) /\ KeepsStarted(t, m)
      /\ \A x \in Slot : AsSubmitted(m.pool[x]) = AsSubmitted(t.pool[x])
  BY <1>1, <1>5, <1>6, Recoded
<1>9. OthersTurn(m, d)
  BY <1>1, <1>6 DEF OthersTurn, Turns, SameQueues
<1>10. Sound(u, acc, w) /\ Turns(u) /\ KeepsStarted(m, u) /\ u.pool = m.pool
  <2>1. u = NextTurn(m, d)
    BY <1>3
  <2> QED
    BY <1>1, <1>8, <1>9, <2>1, TurnSound
<1>11. KeepsStarted(t, u)
  BY <1>8, <1>10 DEF KeepsStarted
<1> QED
  BY <1>1, <1>8, <1>10, <1>11 DEF ClientInvAt, GoesOnWithAll

LEMMA ReadTriggeredStep ==
  ASSUME ClientInv, NEW d \in Die, NEW status \in Statuses(d), ReadTriggered(d, status),
         UNCHANGED written
  PROVE  ClientInvAt(q', accepted', written') /\ GoesOnWithAll(q, q', accepted, accepted')
<1>1. PICK t, acc, w, u : t = q /\ acc = accepted /\ w = written /\ u = q'
  OBVIOUS
<1>2. ClientInvAt(t, acc, w) /\ t \in Tables
  BY <1>1 DEF ClientInv, ClientInvAt, Sound
<1>3. PICK s : s = HeadReq(d)
  OBVIOUS
<1>4. /\ s \in Slot /\ t.nand[d] # <<>> /\ s = Head(t.nand[d]) /\ IsRead(t.pool[s])
      /\ t.pool[s] \in PageRequest
  <2>1. s \in Slot /\ t.nand[d] # <<>> /\ t.pool[s] \in Request /\ ~IsDma(t.pool[s])
    BY <1>1, <1>3, BusyHead
  <2>2. t.pool[s].code = "READ"
    BY <1>1, <1>3 DEF ReadTriggered, Triggered, HeadCode
  <2>3. t.pool[s] \in PageRequest
    BY <2>1, <2>2, RequestParts
  <2> QED
    BY <1>1, <1>3, <2>1, <2>2, <2>3 DEF IsRead, HeadReq
<1>5. PICK c \in {"READ", "READ_TRANSFER"} : c = "READ_TRANSFER"
  OBVIOUS
<1>6. PICK r : r = [t.pool[s] EXCEPT !.code = c]
  OBVIOUS
<1>7. PICK limits \in [Die -> Nat] : limits = t.retryLimit
  BY <1>2, TableTypes
<1>8. r \in Request /\ ReadAgain(r, t.pool[s])
  BY <1>4, <1>5, <1>6 DEF PageRequest, Request, ReadAgain
<1>9. WithLimits(WithPool(t, s, r), limits) = WithPool(t, s, r)
  <2>1. PICK v : v = WithPool(t, s, r)
    OBVIOUS
  <2>2. v \in Tables /\ v.retryLimit = limits
    BY <1>2, <1>4, <1>7, <1>8, <2>1, TakeFacts DEF SameTurns
  <2>3. [v EXCEPT !.retryLimit = limits] = v
    BY <2>2 DEF Tables
  <2> QED
    BY <2>1, <2>3 DEF WithLimits
<1>10. q' = NextTurn(WithPool(t, s, r), d) /\ accepted' = acc
  BY <1>1, <1>2, <1>3, <1>5, <1>6 DEF ReadTriggered, WithPool
<1>11. ClientInvAt(u, acc, w) /\ GoesOnWithAll(t, u, acc, acc)
  <2>1. u = NextTurn(WithLimits(WithPool(t, s, r), limits), d)
    BY <1>1, <1>9, <1>10
  <2> QED
    BY <1>2, <1>4, <1>8, <2>1, ReadGoesOn
<1> QED
  BY <1>1, <1>10, <1>11

LEMMA ReadRetriedStep ==
  ASSUME ClientInv, NEW d \in Die, NEW status \in Statuses(d), ReadRetried(d, status),
         UNCHANGED written
  PROVE  ClientInvAt(q', accepted', written') /\ GoesOnWithAll(q, q', accepted, accepted')
<1>1. PICK t, acc, w, u : t = q /\ acc = accepted /\ w = written /\ u = q'
  OBVIOUS
<1>2. ClientInvAt(t, acc, w) /\ t \in Tables
  BY <1>1 DEF ClientInv, ClientInvAt, Sound
<1>3. PICK s : s = HeadReq(d)
  OBVIOUS
<1>4. /\ s \in Slot /\ t.nand[d] # <<>> /\ s = Head(t.nand[d]) /\ IsRead(t.pool[s])
      /\ t.pool[s] \in PageRequest /\ t.retryLimit[d] # 0
  <2>1. s \in Slot /\ t.nand[d] # <<>> /\ t.pool[s] \in Request /\ ~IsDma(t.pool[s])
    BY <1>1, <1>3, BusyHead
  <2>2. IsRead(t.pool[s]) /\ t.retryLimit[d] # 0
    BY <1>1, <1>3 DEF ReadRetried, Retried, GivesUp
  <2>3. t.pool[s] \in PageRequest
    BY <2>1, <2>2, RequestParts DEF IsRead
  <2> QED
    BY <1>1, <1>3, <2>1, <2>2, <2>3 DEF HeadReq
<1>5. PICK c \in {"READ", "READ_TRANSFER"} : c = "READ"
  OBVIOUS
<1>6. PICK r : r = [t.pool[s] EXCEPT !.code = c]
  OBVIOUS
<1>7. PICK limits \in [Die -> Nat] : limits = [t.retryLimit EXCEPT ![d] = @ - 1]
  <2>1. t.retryLimit \in [Die -> Nat] /\ t.retryLimit[d] - 1 \in Nat
    BY <1>2, <1>4, TableTypes
  <2> QED
    BY <2>1
<1>8. q' = NextTurn(WithLimits(WithPool(t, s, r), limits), d) /\ accepted' = acc
  <2>1. [t EXCEPT !.pool[s].code = "READ", !.retryLimit[d] = @ - 1]
          = WithLimits(WithPool(t, s, r), limits)
    BY <1>2, <1>5, <1>6, <1>7 DEF WithLimits, WithPool, Tables
  <2> QED
    BY <1>1, <1>3, <2>1 DEF ReadRetried
<1>9. ClientInvAt(u, acc, w) /\ GoesOnWithAll(t, u, acc, acc)
  <2>1. u = NextTurn(WithLimits(WithPool(t, s, r), limits), d)
    BY <1>1, <1>8
  <2>2. r \in Request /\ ReadAgain(r, t.pool[s])
    BY <1>4, <1>5, <1>6 DEF PageRequest, Request, ReadAgain
  <2> QED
    BY <1>2, <1>4, <2>1, <2>2, ReadGoesOn
<1> QED
  BY <1>1, <1>8, <1>9

LEMMA NandDoneStep ==
  ASSUME ClientInv, NEW d \in Die, NEW status \in Statuses(d), NandDone(d, status),
         UNCHANGED written
  PROVE  ClientInvAt(q', accepted', written') /\ Ends(q, q', accepted, accepted', HeadReq(d))
<1>1. PICK t, acc, w, u : t = q /\ acc = accepted /\ w = written /\ u = q'
  OBVIOUS
<1>2. Sound(t, acc, w) /\ Turns(t) /\ w \in [Die -> [Block -> 0..Pages]]
  BY <1>1 DEF ClientInv
<1>3. PICK s : s = HeadReq(d)
  OBVIOUS
<1>4. t.nand[d] # <<>> /\ s = Head(t.nand[d])
  BY <1>1, <1>3, BusyHead DEF HeadReq
<1>5. u = NextTurn(FreeAndRelease(WithoutHead(t, d), s), d) /\ accepted' = Without(acc, s)
  BY <1>1, <1>3 DEF NandDone, Finish, WithoutHead
<1>6. s \in ToSet(acc) /\ Sound(u, Without(acc, s), w) /\ Turns(u) /\ Ended(t, u, s)
  BY <1>2, <1>4, <1>5, HeadDone
<1> QED
  BY <1>1, <1>2, <1>3, <1>5, <1>6 DEF ClientInvAt, Ends

LEMMA ClientStep ==
  ASSUME ClientInv, ClientNext
  PROVE  ClientInvAt(q', accepted', written') /\ StepOfList(q, q', accepted, accepted')
<1>1. ASSUME NEW d \in Die, NEW b \in Block, NEW e \in Entry, WritePage(e, d, b)
      PROVE  ClientInvAt(q', accepted', written') /\ StepOfList(q, q', accepted, accepted')
  BY <1>1, WritePageStep
<1>2. ASSUME NEW d \in Die, NEW b \in Block, NEW e \in Entry, NEW p \in 0..Pages-1,
             ReadPage(e, d, b, p)
      PROVE  ClientInvAt(q', accepted', written') /\ StepOfList(q, q', accepted, accepted')
  BY <1>2, ReadPageStep
<1>3. ASSUME NEW d \in Die, NEW b \in Block, Erase(d, b)
      PROVE  ClientInvAt(q', accepted', written') /\ StepOfList(q, q', accepted, accepted')
  BY <1>3, EraseStep
<1>4. ASSUME NEW r \in DmaRequest, Transfer(r)
      PROVE  ClientInvAt(q', accepted', written') /\ StepOfList(q, q', accepted, accepted')
  BY <1>4, TransferStep
<1>5. ASSUME NEW s \in Slot, DmaDone(s), UNCHANGED written
      PROVE  ClientInvAt(q', accepted', written') /\ StepOfList(q, q', accepted, accepted')
  BY <1>5, DmaDoneStep DEF StepOfList, EndsOne, Ends
<1>6. ASSUME NEW d \in Die, Wake(d), UNCHANGED written
      PROVE  ClientInvAt(q', accepted', written') /\ StepOfList(q, q', accepted, accepted')
  BY <1>6, WakeStep DEF StepOfList
<1>7. ASSUME NEW d \in Die, IssueNandReq(d), UNCHANGED written
      PROVE  ClientInvAt(q', accepted', written') /\ StepOfList(q, q', accepted, accepted')
  BY <1>7, IssueNandReqStep DEF StepOfList
<1>8. ASSUME NEW d \in Die, NEW status \in Statuses(d), ReadTriggered(d, status), UNCHANGED written
      PROVE  ClientInvAt(q', accepted', written') /\ StepOfList(q, q', accepted, accepted')
  BY <1>8, ReadTriggeredStep DEF StepOfList
<1>9. ASSUME NEW d \in Die, NEW status \in Statuses(d), ReadRetried(d, status), UNCHANGED written
      PROVE  ClientInvAt(q', accepted', written') /\ StepOfList(q, q', accepted, accepted')
  BY <1>9, ReadRetriedStep DEF StepOfList
<1>10. ASSUME NEW d \in Die, NEW status \in Statuses(d), NandDone(d, status), UNCHANGED written
       PROVE  ClientInvAt(q', accepted', written') /\ StepOfList(q, q', accepted, accepted')
  BY <1>10, NandDoneStep DEF StepOfList, EndsOne, Ends
<1> QED
  BY <1>1, <1>2, <1>3, <1>4, <1>5, <1>6, <1>7, <1>8, <1>9, <1>10 DEF ClientNext, Layer

\* At the start there is no request.
LEMMA ClientInitSound == ClientInit => ClientInv
<1> SUFFICES ASSUME ClientInit PROVE ClientInv
  OBVIOUS
<1>1. /\ accepted = <<>> /\ q = EmptyTables
      /\ written = [d \in Die |-> [b \in Block |-> 0]]
  BY DEF ClientInit, SchedulerInit
<1>2. NONE \notin Slot /\ 0 \in 0..Pages /\ RETRY_LIMIT \in Nat
  BY ClientAssumption DEF Slot
<1>3. PICK t : t = EmptyTables
  OBVIOUS
<1>4. /\ t.pool = [s \in Slot |-> NONE] /\ t.prev = [s \in Slot |-> NONE]
      /\ t.next = [s \in Slot |-> NONE] /\ t.tail = [e \in Entry |-> NONE]
      /\ t.blockedByBuf = {} /\ t.blockedByRow = [d \in Die |-> <<>>]
      /\ t.nvmeDma = <<>> /\ t.nand = [d \in Die |-> <<>>]
      /\ t.permittedProgPage = [d \in Die |-> [b \in Block |-> 0]]
      /\ t.blockedReadReqCnt = [d \in Die |-> [b \in Block |-> 0]]
      /\ t.blockedEraseReqFlag = [d \in Die |-> [b \in Block |-> FALSE]]
      /\ t.way = [d \in Die |-> "idle"] /\ t.retryLimit = [d \in Die |-> RETRY_LIMIT]
  BY <1>3 DEF EmptyTables
<1>5. t \in Tables
  <2>1. /\ t.pool \in [Slot -> Request \cup {NONE}] /\ t.prev \in [Slot -> Slot \cup {NONE}]
        /\ t.next \in [Slot -> Slot \cup {NONE}] /\ t.tail \in [Entry -> Slot \cup {NONE}]
        /\ t.blockedByBuf \in SUBSET Slot /\ t.retryLimit \in [Die -> Nat]
    BY <1>2, <1>4
  <2>2. <<>> \in Seq(Slot)
    BY EmptySeq
  <2>3. /\ t.blockedByRow \in [Die -> Seq(Slot)] /\ t.nvmeDma \in Seq(Slot)
        /\ t.nand \in [Die -> Seq(Slot)]
    BY <1>4, <2>2
  <2>4. /\ t.permittedProgPage \in [Die -> [Block -> 0..Pages]]
        /\ t.blockedReadReqCnt \in [Die -> [Block -> Int]]
    BY <1>2, <1>4
  <2>5. t.blockedEraseReqFlag \in [Die -> [Block -> BOOLEAN]]
    BY <1>4
  <2>6. t.way \in [Die -> {"idle", "queued", "busy"}]
    BY <1>4
  <2>7. t = [pool |-> t.pool, prev |-> t.prev, next |-> t.next, tail |-> t.tail,
             blockedByBuf |-> t.blockedByBuf, blockedByRow |-> t.blockedByRow,
             nvmeDma |-> t.nvmeDma, nand |-> t.nand,
             permittedProgPage |-> t.permittedProgPage,
             blockedReadReqCnt |-> t.blockedReadReqCnt,
             blockedEraseReqFlag |-> t.blockedEraseReqFlag,
             way |-> t.way, retryLimit |-> t.retryLimit]
    BY <1>3, <1>4 DEF EmptyTables
  <2> QED
    BY <2>1, <2>3, <2>4, <2>5, <2>6, <2>7 DEF Tables
<1>6. PICK acc, w : acc = <<>> /\ w = [d \in Die |-> [b \in Block |-> 0]]
  OBVIOUS
<1>7. acc \in Seq(Slot) /\ DOMAIN acc = {} /\ ToSet(acc) = {} /\ Distinct(acc)
  <2>1. acc \in Seq(Slot) /\ DOMAIN acc = {}
    BY <1>6, EmptySeq, LenProperties
  <2> QED
    BY <2>1 DEF ToSet, Distinct
<1>8. \A d \in Die : DOMAIN t.nand[d] = {} /\ ToSet(t.nand[d]) = {} /\ Distinct(t.nand[d])
  BY <1>4, <1>6, <1>7
<1>9. \A d \in Die : ToSet(t.blockedByRow[d]) = {} /\ Distinct(t.blockedByRow[d])
  BY <1>4, <1>6, <1>7
<1>10. HeldUp(t) = {}
  BY <1>4, <1>9 DEF HeldUp
<1>11. Listed(t, acc) /\ Chains(t, acc) /\ BufQueue(t) /\ RowQueues(t, acc)
  <2>1. Listed(t, acc)
    BY <1>4, <1>7 DEF Listed
  <2>2. Chains(t, acc)
    BY <1>2, <1>4, <1>7 DEF Chains
  <2>3. BufQueue(t) /\ RowQueues(t, acc)
    BY <1>4, <1>9 DEF BufQueue, RowQueues
  <2> QED
    BY <2>1, <2>2, <2>3
<1>12. \A c, d, b : HeldOn(t, {}, c, d, b) = {}
  BY DEF HeldOn
<1>13. Placed(t, acc, {}) /\ NandOrdered(t, acc)
  <2>1. ToSet(t.nvmeDma) = {} /\ Distinct(t.nvmeDma)
    BY <1>4, <1>6, <1>7
  <2> QED
    BY <1>7, <1>8, <2>1 DEF Placed, NandOrdered
<1>14. Counted(t, {})
  <2> SUFFICES ASSUME NEW d \in Die, NEW b \in Block
               PROVE  /\ t.blockedReadReqCnt[d][b] = Cardinality(HeldOn(t, {}, "READ", d, b))
                      /\ t.blockedEraseReqFlag[d][b] <=> HeldOn(t, {}, "ERASE", d, b) # {}
                      /\ \A e, f \in HeldOn(t, {}, "ERASE", d, b) : e = f
    BY DEF Counted
  <2>1. t.blockedReadReqCnt[d][b] = Cardinality(HeldOn(t, {}, "READ", d, b))
    <3>1. t.blockedReadReqCnt[d][b] = 0
      BY <1>4
    <3>2. HeldOn(t, {}, "READ", d, b) = {}
      BY <1>12
    <3>3. Cardinality({}) = 0
      BY FS_EmptySet
    <3> QED
      BY <3>1, <3>2, <3>3
  <2>2. ~t.blockedEraseReqFlag[d][b]
    BY <1>4
  <2> QED
    BY <1>12, <2>1, <2>2
<1>15. RowsFit(t, acc, w, {})
  <2> SUFFICES ASSUME NEW d \in Die, NEW b \in Block
               PROVE  /\ WritesAt(t.pool, acc, t.permittedProgPage[d][b], w[d][b], {}, {})
                      /\ ReadsAt(t.pool, acc, w[d][b], {}, {}, {})
    BY <1>12 DEF RowsFit
  <2>1. t.permittedProgPage[d][b] = 0 /\ w[d][b] = 0
    BY <1>4, <1>6
  <2> QED
    BY <2>1 DEF WritesAt, ReadsAt
<1>16. Sound(t, acc, w) /\ Turns(t) /\ w \in [Die -> [Block -> 0..Pages]]
  BY <1>2, <1>4, <1>5, <1>6, <1>10, <1>11, <1>13, <1>14, <1>15 DEF Sound, RowInv, Turns
<1> QED
  BY <1>1, <1>3, <1>6, <1>16 DEF ClientInv

(***************************************************************************)
(* The request layer keeps its tables sound under the client: the chains   *)
(* of requests on an entry, the lists of held-up requests, the row         *)
(* dependency table and the queues of the dies agree with each other and   *)
(* with the order in which the requests were submitted.                    *)
(***************************************************************************)
THEOREM RequestTablesSound == ClientSpec => []ClientInv
<1>1. ClientInit => ClientInv
  BY ClientInitSound
<1>2. ClientInv /\ [ClientNext]_clientVars => ClientInv'
  <2> SUFFICES ASSUME ClientInv, [ClientNext]_clientVars PROVE ClientInv'
    OBVIOUS
  <2>1. CASE ClientNext
    <3>1. ClientInvAt(q', accepted', written')
      BY <2>1, ClientStep
    <3> QED
      BY <3>1 DEF ClientInv, ClientInvAt
  <2>2. CASE UNCHANGED clientVars
    <3>1. q' = q /\ accepted' = accepted /\ written' = written
      BY <2>2 DEF clientVars
    <3>2. ClientInvAt(q, accepted, written)
      BY DEF ClientInv, ClientInvAt
    <3>3. ClientInvAt(q', accepted', written')
      BY <3>1, <3>2
    <3> QED
      BY <3>3 DEF ClientInv, ClientInvAt
  <2> QED
    BY <2>1, <2>2
<1> QED
  BY <1>1, <1>2, PTL DEF ClientSpec

(***************************************************************************)
(* RowTableExact: the row dependency table counts a held-up read of a      *)
(* block once, whichever list it waits in, and takes it off when it is let *)
(* go; the erase flag stands as long as an erase of the block is held up.  *)
(***************************************************************************)
THEOREM RowTableIsExact == ClientSpec => []RowTableExact
<1>1. ClientInv => RowTableExact
  <2> SUFFICES ASSUME ClientInv, NEW d \in Die, NEW b \in Block
               PROVE  /\ q.blockedReadReqCnt[d][b] = Cardinality(HeldUpOn("READ", d, b))
                      /\ q.blockedEraseReqFlag[d][b] <=> HeldUpOn("ERASE", d, b) # {}
    BY DEF RowTableExact
  <2>1. Counted(q, HeldUp(q))
    BY DEF ClientInv, Sound, RowInv
  <2>2. \A c : HeldUpOn(c, d, b) = HeldOn(q, HeldUp(q), c, d, b)
    BY DEF HeldUpOn, HeldOn
  <2>3. q.blockedReadReqCnt[d][b] = Cardinality(HeldOn(q, HeldUp(q), "READ", d, b))
    BY <2>1 DEF Counted
  <2>4. q.blockedEraseReqFlag[d][b] <=> HeldOn(q, HeldUp(q), "ERASE", d, b) # {}
    BY <2>1 DEF Counted
  <2> QED
    BY <2>2, <2>3, <2>4
<1> QED
  BY <1>1, RequestTablesSound, PTL

-----------------------------------------------------------------------------
(***************************************************************************)
(* The refinement: what is under way was let go, and what is let go has no *)
(* earlier request that it conflicts with.                                 *)
(***************************************************************************)
RequestsOf(t, acc) ==
  [i \in DOMAIN acc |-> [request |-> AsSubmitted(t.pool[acc[i]]), started |-> StartedIn(t, acc[i])]]

\* The abstract request has the parts of the concrete one.
LEMMA SubmittedParts ==
  ASSUME NEW r \in Request
  PROVE  /\ AsSubmitted(r).entry = r.entry
         /\ Ordered!IsDmaRequest(AsSubmitted(r)) <=> IsDma(r)
         /\ ~IsDma(r) => /\ AsSubmitted(r).die = r.die /\ AsSubmitted(r).block = r.block
                         /\ AsSubmitted(r).code =
                              IF r.code = "READ_TRANSFER" THEN "READ" ELSE r.code
                         /\ r.code # "ERASE" => AsSubmitted(r).page = r.page
<1>1. CASE r.code = "READ_TRANSFER"
  <2>1. r \in PageRequest
    BY <1>1, RequestParts DEF IsDma
  <2> QED
    BY <1>1, <2>1 DEF AsSubmitted, PageRequest, Ordered!IsDmaRequest, IsDma
<1>2. CASE r.code # "READ_TRANSFER"
  BY <1>2 DEF AsSubmitted, Ordered!IsDmaRequest, IsDma
<1> QED
  BY <1>1, <1>2

\* Conflicts of the abstract layer are those of the rows and entries.
LEMMA ConflictParts ==
  ASSUME NEW r \in Request, NEW s \in Request, Ordered!Conflict(AsSubmitted(r), AsSubmitted(s))
  PROVE  (r.entry = s.entry /\ r.entry # NONE) \/ RowConflict(r, s)
<1>1. PICK a, b : a = AsSubmitted(r) /\ b = AsSubmitted(s)
  OBVIOUS
<1>2. CASE a.entry = b.entry /\ a.entry # NONE
  BY <1>1, <1>2, SubmittedParts
<1>3. CASE ~(a.entry = b.entry /\ a.entry # NONE)
  <2>1. /\ ~Ordered!IsDmaRequest(a) /\ ~Ordered!IsDmaRequest(b)
        /\ a.die = b.die /\ a.block = b.block
        /\ \/ a.code = "ERASE" \/ b.code = "ERASE"
           \/ a.code = "WRITE" /\ b.code = "WRITE"
           \/ a.code # b.code /\ a.page = b.page
    BY <1>1, <1>3 DEF Ordered!Conflict
  <2>2. ~IsDma(r) /\ ~IsDma(s)
    BY <1>1, <2>1, SubmittedParts
  <2>3. /\ a.die = r.die /\ a.block = r.block
        /\ a.code = IF r.code = "READ_TRANSFER" THEN "READ" ELSE r.code
        /\ r.code # "ERASE" => a.page = r.page
    BY <1>1, <2>2, SubmittedParts
  <2>4. /\ b.die = s.die /\ b.block = s.block
        /\ b.code = IF s.code = "READ_TRANSFER" THEN "READ" ELSE s.code
        /\ s.code # "ERASE" => b.page = s.page
    BY <1>1, <2>2, SubmittedParts
  <2>5. /\ r.code \in {"READ", "READ_TRANSFER", "WRITE", "ERASE"}
        /\ s.code \in {"READ", "READ_TRANSFER", "WRITE", "ERASE"}
    BY <2>2, RequestParts
  <2> QED
    BY <2>1, <2>2, <2>3, <2>4, <2>5 DEF RowConflict, IsRead
<1> QED
  BY <1>2, <1>3

\* What is under way has no earlier request that it conflicts with.
LEMMA StartsInOrder ==
  ASSUME NEW t, NEW acc, NEW w, Sound(t, acc, w),
         NEW i \in 1..Len(acc), StartedIn(t, acc[i]), NEW j \in 1..i-1
  PROVE  ~Ordered!Conflict(AsSubmitted(t.pool[acc[j]]), AsSubmitted(t.pool[acc[i]]))
<1>1. /\ t \in Tables /\ Listed(t, acc) /\ Chains(t, acc) /\ BufQueue(t)
      /\ RowInv(t, acc, w, HeldUp(t))
  BY DEF Sound
<1>2. /\ acc \in Seq(Slot) /\ Distinct(acc) /\ ToSet(acc) \subseteq Slot
      /\ \A s \in ToSet(acc) : t.pool[s] \in Request /\ t.pool[s] # NONE
  BY <1>1, ListedFacts
<1>3. DOMAIN acc = 1..Len(acc) /\ Len(acc) \in Nat
  BY <1>2, LenProperties
<1>4. i \in DOMAIN acc /\ j \in DOMAIN acc /\ j < i
  BY <1>3
<1>5. PICK r, s : r = acc[j] /\ s = acc[i]
  OBVIOUS
<1>6. r \in ToSet(acc) /\ s \in ToSet(acc) /\ Before(acc, r, s)
  BY <1>4, <1>5 DEF ToSet, Before
<1>7. t.pool[r] \in Request /\ t.pool[s] \in Request /\ s \in Slot
  BY <1>2, <1>6
<1>8. s \notin HeldUp(t)
  <2>1. CASE s \in ToSet(t.nvmeDma)
    BY <1>1, <1>6, <2>1 DEF RowInv, Placed
  <2>2. ASSUME NEW d \in Die, t.nand[d] # <<>>, Head(t.nand[d]) = s
        PROVE  s \notin HeldUp(t)
    <3>1. t.nand[d] \in Seq(Slot) /\ Distinct(t.nand[d])
      BY <1>1, TableTypes DEF RowInv, Placed
    <3>2. s \in ToSet(t.nand[d])
      BY <2>2, <3>1, TailFacts
    <3> QED
      BY <1>1, <1>6, <3>2 DEF RowInv, Placed
  <2> QED
    BY <1>5, <2>1, <2>2 DEF StartedIn
<1>9. ~(t.pool[r].entry = t.pool[s].entry /\ t.pool[r].entry # NONE)
  <2>1. t.prev[s] = NONE
    BY <1>1, <1>7, <1>8, HeldUpParts DEF BufQueue
  <2> QED
    BY <1>1, <1>6, <2>1 DEF Chains
<1>10. ~RowConflict(t.pool[r], t.pool[s])
  <2> SUFFICES ASSUME RowConflict(t.pool[r], t.pool[s]) PROVE FALSE
    OBVIOUS
  <2>1. ~IsDma(t.pool[s])
    BY DEF RowConflict
  <2>2. s \notin ToSet(t.nvmeDma)
    BY <1>1, <2>1 DEF RowInv, Placed
  <2>3. PICK d \in Die : t.nand[d] # <<>> /\ Head(t.nand[d]) = s
    BY <1>5, <2>2 DEF StartedIn
  <2>4. t.nand[d] \in Seq(Slot) /\ Distinct(t.nand[d])
    BY <1>1, TableTypes DEF RowInv, Placed
  <2>5. /\ DOMAIN t.nand[d] = 1..Len(t.nand[d]) /\ Len(t.nand[d]) \in Nat \ {0}
        /\ t.nand[d][1] = s
    BY <2>3, <2>4, TailFacts, LenProperties, EmptySeq
  <2>6. 1 \in DOMAIN t.nand[d]
    BY <2>5
  <2>7. PICK k \in DOMAIN t.nand[d] : k < 1
    BY <1>1, <1>6, <2>5, <2>6 DEF RowInv, NandOrdered
  <2> QED
    BY <2>5, <2>7
<1> QED
  BY <1>5, <1>7, <1>9, <1>10, ConflictParts

LEMMA RequestsOfFacts ==
  ASSUME NEW t, NEW acc \in Seq(Slot), NEW old, old = RequestsOf(t, acc), NEW x
  PROVE  /\ DOMAIN old = 1..Len(acc) /\ Len(old) = Len(acc) /\ Len(acc) \in Nat
         /\ \A i \in 1..Len(acc) : old[i].request = AsSubmitted(t.pool[acc[i]])
         /\ \A i \in 1..Len(acc) : old[i].started <=> StartedIn(t, acc[i])
         /\ \E S : old \in Seq(S) /\ x \in S
<1>1. DOMAIN acc = 1..Len(acc) /\ Len(acc) \in Nat
  BY LenProperties
<1>2. old = [i \in 1..Len(acc) |->
               [request |-> AsSubmitted(t.pool[acc[i]]), started |-> StartedIn(t, acc[i])]]
  BY <1>1 DEF RequestsOf
<1>3. \A i \in 1..Len(acc) : old[i].request = AsSubmitted(t.pool[acc[i]])
  BY <1>2
<1>4. \A i \in 1..Len(acc) : old[i].started <=> StartedIn(t, acc[i])
  BY <1>2
<1>5. PICK S : S = {old[i] : i \in 1..Len(acc)} \cup {x}
  OBVIOUS
<1>6. old \in [1..Len(acc) -> S]
  BY <1>2, <1>5
<1>7. old \in Seq(S)
  BY <1>1, <1>6, SeqDef
<1>8. Len(old) = Len(acc)
  BY <1>1, <1>2, <1>7, LenProperties
<1> QED
  BY <1>1, <1>2, <1>3, <1>4, <1>5, <1>7, <1>8

LEMMA SomeStartFacts ==
  ASSUME NEW u, NEW new, NEW w, Sound(u, new, w), NEW now, now = RequestsOf(u, new),
         NEW mid, DOMAIN mid = 1..Len(new),
         \A i \in 1..Len(new) : mid[i].request = now[i].request,
         \A i \in 1..Len(new) : mid[i].started => now[i].started
  PROVE  Ordered!SomeStart(mid, now)
<1>1. new \in Seq(Slot)
  BY DEF Sound, Listed
<1>2. /\ DOMAIN now = 1..Len(new) /\ Len(new) \in Nat
      /\ \A i \in 1..Len(new) : now[i].request = AsSubmitted(u.pool[new[i]])
  BY <1>1, RequestsOfFacts
<1>3. \A i \in 1..Len(new) : now[i].started => StartedIn(u, new[i])
  BY <1>1, RequestsOfFacts
<1>4. ASSUME NEW i \in 1..Len(new), now[i].started
      PROVE  Ordered!MayStart(mid, i)
  <2> SUFFICES ASSUME NEW j \in 1..i-1
               PROVE  ~Ordered!Conflict(mid[j].request, mid[i].request)
    BY DEF Ordered!MayStart
  <2>1. StartedIn(u, new[i])
    BY <1>3, <1>4
  <2>2. j \in 1..Len(new)
    BY <1>2
  <2>3. /\ mid[j].request = AsSubmitted(u.pool[new[j]])
        /\ mid[i].request = AsSubmitted(u.pool[new[i]])
    BY <1>2, <2>2
  <2>4. ~Ordered!Conflict(AsSubmitted(u.pool[new[j]]), AsSubmitted(u.pool[new[i]]))
    BY <2>1, StartsInOrder
  <2> QED
    BY <2>3, <2>4
<1>5. \A i \in 1..Len(new) : now[i].started => mid[i].started \/ Ordered!MayStart(mid, i)
  BY <1>4
<1>6. \A i \in 1..Len(new) : now[i].request = mid[i].request
  OBVIOUS
<1> QED
  BY <1>2, <1>5, <1>6 DEF Ordered!SomeStart

\* A step that takes a request is Accept of the abstract layer.
LEMMA TakingAccepts ==
  ASSUME NEW t, NEW acc, NEW w, Sound(t, acc, w), NEW u, NEW new, NEW x, Sound(u, new, x),
         TakesOne(t, u, acc, new), NEW old, old = RequestsOf(t, acc),
         NEW now, now = RequestsOf(u, new)
  PROVE  Ordered!Accept(old, now)
<1>1. t \in Tables /\ Listed(t, acc) /\ new \in Seq(Slot)
  BY DEF Sound, Listed
<1>2. acc \in Seq(Slot) /\ \A y \in ToSet(acc) : t.pool[y] # NONE /\ y \in Slot
  BY <1>1, ListedFacts
<1>3. PICK s \in Slot, r \in Request :
        /\ t.pool[s] = NONE /\ new = Append(acc, s)
        /\ PoolWith(t, u, s, r) /\ KeepsStarted(t, u)
  BY DEF TakesOne, Takes
<1>4. PICK n \in Nat : n = Len(acc)
  BY <1>2, LenProperties
<1>5. /\ DOMAIN acc = 1..n /\ DOMAIN new = 1..n+1 /\ Len(new) = n+1
      /\ \A i \in 1..n : new[i] = acc[i]
  BY <1>1, <1>2, <1>3, <1>4, AppendFacts, LenProperties
<1>6. PICK a : a = [request |-> Last(now).request, started |-> FALSE]
  OBVIOUS
<1>7. /\ DOMAIN old = 1..n /\ Len(old) = n
      /\ \A i \in 1..n : old[i].request = AsSubmitted(t.pool[acc[i]])
      /\ \E S : old \in Seq(S) /\ a \in S
  BY <1>2, <1>4, RequestsOfFacts
<1>8. \A i \in 1..n : old[i].started => StartedIn(t, acc[i])
  BY <1>2, <1>4, RequestsOfFacts
<1>9. /\ DOMAIN now = 1..n+1 /\ Len(now) = n+1
      /\ \A i \in 1..n+1 : now[i].request = AsSubmitted(u.pool[new[i]])
  BY <1>1, <1>5, RequestsOfFacts
<1>10. \A i \in 1..n+1 : StartedIn(u, new[i]) => now[i].started
  BY <1>1, <1>5, RequestsOfFacts
<1>11. PICK mid : mid = Append(old, a)
  OBVIOUS
<1>12. DOMAIN mid = 1..n+1 /\ mid[n+1] = a /\ \A i \in 1..n : mid[i] = old[i]
  BY <1>7, <1>11, AppendFacts
<1>13. \A i \in 1..n+1 : mid[i].request = now[i].request
  <2>1. ASSUME NEW i \in 1..n
        PROVE  mid[i].request = now[i].request
    <3>1. acc[i] \in ToSet(acc)
      BY <1>5 DEF ToSet
    <3>2. u.pool[acc[i]] = t.pool[acc[i]]
      BY <1>1, <1>2, <1>3, <3>1, TableTypes DEF PoolWith
    <3>3. now[i].request = AsSubmitted(u.pool[acc[i]])
      BY <1>5, <1>9
    <3> QED
      BY <1>7, <1>12, <3>2, <3>3
  <2>2. mid[n+1].request = now[n+1].request
    BY <1>6, <1>9, <1>12 DEF Last
  <2> QED
    BY <2>1, <2>2
<1>14. ASSUME NEW i \in 1..n+1, mid[i].started
       PROVE  now[i].started
  <2>1. i \in 1..n
    <3>1. ~mid[n+1].started
      BY <1>6, <1>12
    <3>2. i # n+1
      BY <1>14, <3>1
    <3> QED
      BY <3>2
  <2>2. StartedIn(t, acc[i])
    BY <1>8, <1>12, <1>14, <2>1
  <2>3. StartedIn(u, new[i])
    BY <1>3, <1>5, <2>1, <2>2, StaysStarted
  <2> QED
    BY <1>10, <2>3
<1>15. Ordered!SomeStart(mid, now)
  BY <1>5, <1>12, <1>13, <1>14, SomeStartFacts
<1> QED
  <2>1. Len(now) = Len(old) + 1
    BY <1>7, <1>9
  <2>2. Ordered!SomeStart(Append(old, [request |-> now[Len(now)].request, started |-> FALSE]), now)
    BY <1>6, <1>11, <1>15, Zenon DEF Last
  <2> QED
    BY <2>1, <2>2, Zenon DEF Ordered!Accept, Ordered!Last

\* A step that ends one is Finish.
LEMMA EndingFinishes ==
  ASSUME NEW t, NEW acc, NEW w, Sound(t, acc, w), NEW u, NEW new, NEW x, Sound(u, new, x),
         EndsOne(t, u, acc, new), NEW old, old = RequestsOf(t, acc),
         NEW now, now = RequestsOf(u, new)
  PROVE  Ordered!Finish(old, now)
<1>1. t \in Tables /\ Listed(t, acc) /\ new \in Seq(Slot)
  BY DEF Sound, Listed
<1>2. acc \in Seq(Slot) /\ Distinct(acc) /\ ToSet(acc) \subseteq Slot
  BY <1>1, ListedFacts
<1>3. PICK s \in ToSet(acc) : new = Without(acc, s) /\ Ended(t, u, s)
  BY DEF EndsOne, Ends
<1>4. PICK n \in Nat : n = Len(acc)
  BY <1>2, LenProperties
<1>5. PICK k \in 1..n :
        /\ acc[k] = s /\ DOMAIN new = 1..n-1
        /\ \A i \in 1..n-1 : new[i] = IF i < k THEN acc[i] ELSE acc[i+1]
  BY <1>2, <1>3, <1>4, WithoutFacts
<1>6. ToSet(new) = ToSet(acc) \ {s}
  BY <1>2, <1>3, WithoutFacts
<1>7. Len(new) = n-1
  BY <1>1, <1>5, LenProperties
<1>8. /\ DOMAIN old = 1..n /\ Len(old) = n
      /\ \A i \in 1..n : old[i].request = AsSubmitted(t.pool[acc[i]])
      /\ \E S : old \in Seq(S)
  BY <1>2, <1>4, RequestsOfFacts
<1>9. \A i \in 1..n : old[i].started <=> StartedIn(t, acc[i])
  BY <1>2, <1>4, RequestsOfFacts
<1>10. \A i \in 1..n-1 : now[i].request = AsSubmitted(u.pool[new[i]])
  BY <1>1, <1>7, RequestsOfFacts
<1>11. \A i \in 1..n-1 : StartedIn(u, new[i]) => now[i].started
  BY <1>1, <1>7, RequestsOfFacts
<1>12. PICK mid : mid = RemoveAt(old, k)
  OBVIOUS
<1>13. /\ DOMAIN mid = 1..n-1
       /\ \A i \in 1..n-1 : mid[i] = IF i < k THEN old[i] ELSE old[i+1]
  BY <1>5, <1>8, <1>12, RemoveAtFacts
<1>14. ASSUME NEW i \in 1..n-1
       PROVE  \E m \in 1..n : new[i] = acc[m] /\ mid[i] = old[m]
  <2>1. CASE i < k
    BY <1>5, <1>13, <2>1
  <2>2. CASE ~(i < k)
    <3>1. i+1 \in 1..n
      BY <1>4
    <3> QED
      BY <1>5, <1>13, <2>2, <3>1
  <2> QED
    BY <2>1, <2>2
<1>15. ASSUME NEW i \in 1..n-1
       PROVE  new[i] \in Slot /\ new[i] # s
  <2>1. new[i] \in ToSet(new)
    BY <1>5 DEF ToSet
  <2> QED
    BY <1>2, <1>6, <2>1
<1>16. ASSUME NEW i \in 1..n-1
       PROVE  mid[i].request = now[i].request
  <2>1. PICK m \in 1..n : new[i] = acc[m] /\ mid[i] = old[m]
    BY <1>14
  <2>2. u.pool[new[i]] = t.pool[new[i]]
    BY <1>1, <1>3, <1>15, TableTypes DEF Ended, PoolWith
  <2> QED
    BY <1>8, <1>10, <2>1, <2>2
<1>17. ASSUME NEW i \in 1..n-1, mid[i].started
       PROVE  now[i].started
  <2>1. PICK m \in 1..n : new[i] = acc[m] /\ mid[i] = old[m]
    BY <1>14
  <2>2. StartedIn(t, new[i])
    BY <1>9, <1>17, <2>1
  <2>3. StartedIn(u, new[i])
    BY <1>3, <1>15, <2>2 DEF Ended
  <2> QED
    BY <1>11, <2>3
<1>18. Ordered!SomeStart(mid, now)
  BY <1>7, <1>13, <1>16, <1>17, SomeStartFacts
<1>19. old[k].started
  BY <1>3, <1>5, <1>9 DEF Ended
<1> QED
  <2>1. k \in DOMAIN old
    BY <1>8
  <2>2. Ordered!SomeStart(Ordered!RemoveAt(old, k), now)
    BY <1>12, <1>18 DEF RemoveAt, Ordered!RemoveAt
  <2> QED
    BY <1>19, <2>1, <2>2, Zenon DEF Ordered!Finish

\* Any other step starts requests or is a stutter.
LEMMA GoingOnStarts ==
  ASSUME NEW t, NEW acc, NEW w, Sound(t, acc, w), NEW u, NEW new, NEW x, Sound(u, new, x),
         GoesOnWithAll(t, u, acc, new), NEW old, old = RequestsOf(t, acc),
         NEW now, now = RequestsOf(u, new)
  PROVE  Ordered!SomeStart(old, now)
<1>1. t \in Tables /\ Listed(t, acc) /\ new = acc
  BY DEF Sound, GoesOnWithAll
<1>2. acc \in Seq(Slot) /\ ToSet(acc) \subseteq Slot
  BY <1>1, ListedFacts
<1>3. PICK n \in Nat : n = Len(acc) /\ DOMAIN acc = 1..n
  BY <1>2, LenProperties
<1>4. DOMAIN old = 1..n /\ \A i \in 1..n : old[i].request = AsSubmitted(t.pool[acc[i]])
  BY <1>2, <1>3, RequestsOfFacts
<1>5. \A i \in 1..n : now[i].request = AsSubmitted(u.pool[acc[i]])
  BY <1>1, <1>2, <1>3, RequestsOfFacts
<1>6. \A i \in 1..n : old[i].started => StartedIn(t, acc[i])
  BY <1>2, <1>3, RequestsOfFacts
<1>7. \A i \in 1..n : StartedIn(u, acc[i]) => now[i].started
  BY <1>1, <1>2, <1>3, RequestsOfFacts
<1>8. \A i \in 1..n : acc[i] \in Slot
  BY <1>2, <1>3 DEF ToSet
<1>9. \A i \in 1..n : old[i].request = now[i].request
  BY <1>4, <1>5, <1>8 DEF GoesOnWithAll
<1>10. \A i \in 1..n : old[i].started => now[i].started
  BY <1>6, <1>7, StaysStarted DEF GoesOnWithAll
<1> QED
  BY <1>1, <1>3, <1>4, <1>9, <1>10, SomeStartFacts

(***************************************************************************)
(* ImplementsOrdered: to the translation layer and the data buffer the     *)
(* request layer is a list of requests of which each starts only when no   *)
(* earlier one is left that uses the same buffer entry, programs the same  *)
(* block or the page that it reads, or is about the block that either      *)
(* erases.                                                                 *)
(***************************************************************************)
THEOREM RequestsAreOrdered == ClientSpec => ImplementsOrdered
<1>1. Requests = RequestsOf(q, accepted) /\ Requests' = RequestsOf(q', accepted')
  BY DEF Requests, RequestsOf, UnderWay, StartedIn, HeadReq
<1>2. ClientInit => Ordered!OrderedInit
  <2> SUFFICES ASSUME ClientInit PROVE Requests = <<>>
    BY DEF Ordered!OrderedInit
  <2>1. DOMAIN accepted = {}
    BY EmptySeq, LenProperties DEF ClientInit, SchedulerInit
  <2> QED
    BY <2>1 DEF Requests
<1>3. ClientInv /\ ClientInv' /\ [ClientNext]_clientVars => [Ordered!OrderedNext]_Requests
  <2> SUFFICES ASSUME ClientInv, ClientInv', [ClientNext]_clientVars
               PROVE  [Ordered!OrderedNext]_Requests
    OBVIOUS
  <2>1. PICK old, now : old = Requests /\ now = Requests'
    OBVIOUS
  <2>2. old = RequestsOf(q, accepted) /\ now = RequestsOf(q', accepted')
    BY <1>1, <2>1
  <2>3. Sound(q, accepted, written)
    BY DEF ClientInv
  <2>4. CASE ClientNext
    <3>1. Sound(q', accepted', written') /\ StepOfList(q, q', accepted, accepted')
      BY <2>4, ClientStep DEF ClientInvAt
    <3>2. PICK t, u, acc, new, w, x :
            /\ t = q /\ u = q' /\ acc = accepted /\ new = accepted'
            /\ w = written /\ x = written'
      OBVIOUS
    <3>3. /\ Sound(t, acc, w) /\ Sound(u, new, x) /\ StepOfList(t, u, acc, new)
          /\ old = RequestsOf(t, acc) /\ now = RequestsOf(u, new)
      BY <2>2, <2>3, <3>1, <3>2
    <3>4. Ordered!Accept(old, now) \/ Ordered!Finish(old, now) \/ Ordered!SomeStart(old, now)
      <4>1. CASE TakesOne(t, u, acc, new)
        BY <3>3, <4>1, TakingAccepts
      <4>2. CASE EndsOne(t, u, acc, new)
        BY <3>3, <4>2, EndingFinishes
      <4>3. CASE GoesOnWithAll(t, u, acc, new)
        BY <3>3, <4>3, GoingOnStarts
      <4> QED
        BY <3>3, <4>1, <4>2, <4>3 DEF StepOfList
    <3> QED
      BY <2>1, <3>4 DEF Ordered!OrderedNext
  <2>5. CASE UNCHANGED clientVars
    <3>1. q' = q /\ accepted' = accepted
      BY <2>5 DEF clientVars
    <3> QED
      BY <1>1, <3>1
  <2> QED
    BY <2>4, <2>5
<1> QED
  BY <1>2, <1>3, RequestTablesSound, PTL DEF ClientSpec, ImplementsOrdered, Ordered!OrderedSpec
=============================================================================
