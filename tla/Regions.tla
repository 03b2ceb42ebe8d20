------------------------------ MODULE Regions -------------------------------
(***************************************************************************)
(* The operations of on_demand.c on the list of struct vaddr_reg, as       *)
(* functions of the list: allocate (first fit, splitting), free_address    *)
(* (with coalescing) and check_address_range.  The list is a sequence;     *)
(* page_addr counts pages.                                                 *)
(*                                                                         *)
(* FirstFree, ConsumeWhole, ConsumeOverlapping and NoCoalescing are        *)
(* plausible mistakes that the properties must detect, not part of the     *)
(* specification.                                                          *)
(***************************************************************************)
EXTENDS Integers, Sequences, SequencesExt

CONSTANTS
  RegionStart,   (* PETMEM_REGION_START, in pages                        *)
  RegionPages,   (* pages between PETMEM_REGION_START and _END           *)
  FREE, ALLOCATED

ASSUME RegionAssumption ==
  RegionStart \in Nat /\ RegionPages \in Nat \ {0}

ASSUME StatusAssumption == FREE # ALLOCATED

RegionEnd == RegionStart + RegionPages
Region == [status : {FREE, ALLOCATED}, size : Nat, page_addr : Nat]

FirstFree(s, i, n) ==
  /\ i \in DOMAIN s
  /\ s[i].status = FREE
  /\ \A m \in 1 .. i - 1 : s[m].status # FREE

\* Region i is the first that is free and large enough.
first_fit(s, i, n) ==
  /\ i \in DOMAIN s
  /\ s[i].status = FREE /\ s[i].size >= n
  /\ \A m \in 1 .. i - 1 : ~(s[m].status = FREE /\ s[m].size >= n)

no_fit(s, n) == \A i \in DOMAIN s : ~(s[i].status = FREE /\ s[i].size >= n)

\* allocate once node_to_consume is found: what the request does not need
\* becomes a new free node behind it.
ConsumeWhole(s, i, n) == [s EXCEPT ![i].status = ALLOCATED]
ConsumeOverlapping(s, i, n) ==
  IF s[i].size = n
  THEN [s EXCEPT ![i].status = ALLOCATED]
  ELSE InsertAt([s EXCEPT ![i].status = ALLOCATED, ![i].size = n], i + 1,
                [status |-> FREE, size |-> s[i].size - n, page_addr |-> s[i].page_addr])
allocate(s, i, n) ==
  IF s[i].size = n
  THEN [s EXCEPT ![i].status = ALLOCATED]
  ELSE InsertAt([s EXCEPT ![i].status = ALLOCATED, ![i].size = n], i + 1,
                [status    |-> FREE,
                 size      |-> s[i].size - n,
                 page_addr |-> s[i].page_addr + n])

\* Region i is the one free_address finds: the last that starts at page.
found(s, i, page) ==
  /\ i \in DOMAIN s /\ s[i].page_addr = page
  /\ \A m \in i + 1 .. Len(s) : s[m].page_addr # page

mergeable(r, page) == r.page_addr # page /\ r.status = FREE

NoCoalescing(s, i, page) == s
absorb_next(s, i, page) ==
  IF i < Len(s) /\ mergeable(s[i + 1], page)
  THEN RemoveAt([s EXCEPT ![i].size = @ + s[i + 1].size], i + 1)
  ELSE s
absorb_prev(s, i, page) ==
  IF i > 1 /\ mergeable(s[i - 1], page)
  THEN RemoveAt([s EXCEPT ![i].size = @ + s[i - 1].size,
                          ![i].page_addr = s[i - 1].page_addr], i - 1)
  ELSE s

\* free_address once it has found its region.
free_address(s, i, page) ==
  absorb_prev(absorb_next([s EXCEPT ![i].status = FREE], i, page), i, page)

\* The neighbour of the first or the last node is the list head.  list_entry
\* makes a vaddr_reg of the bytes in front of it, with whatever status and
\* address they hold: if the status is FREE the head is unlinked and freed.
coalesces_head(s, i, st) == (i = 1 \/ i = Len(s)) /\ st = FREE

\* The address is inside an allocated region.
check_address_range(s, page) ==
  \E i \in DOMAIN s : /\ s[i].status = ALLOCATED
                      /\ page >= s[i].page_addr
                      /\ page < s[i].page_addr + s[i].size

\* The list petmem_init_process starts with.
first_node == [status |-> FREE, size |-> RegionPages, page_addr |-> RegionStart]
=============================================================================
