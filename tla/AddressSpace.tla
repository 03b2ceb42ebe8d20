---------------------------- MODULE AddressSpace ----------------------------
(***************************************************************************)
(* What pet_malloc and pet_free promise a process: a range of virtual      *)
(* pages from which it is given intervals, disjoint from each other, until *)
(* no hole is large enough.  Nothing is said of lists, nodes or the order  *)
(* in which holes are used.                                                *)
(***************************************************************************)
EXTENDS Integers

CONSTANTS
  FirstPage,     (* number of the first page of the range                *)
  NumPages,      (* pages in the range                                   *)
  MaxRequest     (* the largest request, in pages, a process makes       *)

VARIABLE
  owned          (* the intervals <<first page, pages>> given out        *)

Pages == FirstPage .. FirstPage + NumPages - 1

\* The pages from a to a + n - 1 are in the range and nobody's.
Hole(a, n) ==
  /\ a + n =< FirstPage + NumPages
  /\ \A g \in owned : a + n =< g[1] \/ g[1] + g[2] =< a

Init == owned = {}

Grant(n) == \E a \in Pages : Hole(a, n) /\ owned' = owned \cup {<<a, n>>}

GiveBack(g) == owned' = owned \ {g}

Next == \/ \E n \in 1 .. MaxRequest : Grant(n)
        \/ \E g \in owned : GiveBack(g)

Spec == Init /\ [][Next]_owned

\* A request for n pages may be refused.
MayRefuse(n) == \A a \in Pages : ~Hole(a, n)
=============================================================================
