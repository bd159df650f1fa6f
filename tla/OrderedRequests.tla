-------------------------- MODULE OrderedRequests --------------------------
(***************************************************************************)
(* What the request layer promises: requests start and end in any order    *)
(* that keeps apart those that conflict.  A request does not start before  *)
(* an earlier one is done that uses the same buffer entry, programs the    *)
(* same block, programs the page that it reads, or, if either is an erase, *)
(* is about the same block.                                                *)
(***************************************************************************)
EXTENDS Integers, SequencesExt

CONSTANT NONE

VARIABLE outstanding   \* [request, started], in order of submission

IsDmaRequest(r) == r.code \in {"RxDMA", "TxDMA"}

Conflict(r, s) ==
  \/ r.entry = s.entry /\ r.entry # NONE
  \/ /\ ~IsDmaRequest(r) /\ ~IsDmaRequest(s)
     /\ r.die = s.die /\ r.block = s.block
     /\ \/ "ERASE" \in {r.code, s.code}
        \/ r.code = "WRITE" /\ s.code = "WRITE"
        \/ r.code # s.code /\ r.page = s.page

MayStart(list, i) ==
  \A j \in 1..i-1 : ~Conflict(list[j].request, list[i].request)

\* Some of the requests of a list start: it becomes the list new.
SomeStart(list, new) ==
  /\ DOMAIN new = DOMAIN list
  /\ \A i \in DOMAIN list :
       /\ new[i].request = list[i].request
       /\ list[i].started => new[i].started
       /\ new[i].started => list[i].started \/ MayStart(list, i)

Accept(old, new) ==
  /\ Len(new) = Len(old) + 1
  /\ SomeStart(Append(old, [request |-> Last(new).request, started |-> FALSE]), new)

Finish(old, new) ==
  \E i \in DOMAIN old : old[i].started /\ SomeStart(RemoveAt(old, i), new)

OrderedInit == outstanding = <<>>

OrderedNext ==
  \E old \in {outstanding}, new \in {outstanding'} :
    Accept(old, new) \/ Finish(old, new) \/ SomeStart(old, new)

OrderedSpec == OrderedInit /\ [][OrderedNext]_outstanding
=============================================================================
