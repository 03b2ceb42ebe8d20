------------------------------ MODULE PoolList ------------------------------
(***************************************************************************)
(* The list of buddy pools in main.c.  ADD_MEMORY cuts a range of pages    *)
(* into pools of a power of two each; petmem_alloc_pages asks the pools in *)
(* list order for a page; petmem_free_pages looks for the pool an address  *)
(* belongs to.  A pool hands out its pages as BlockAllocator says, for     *)
(* blocks of one page, the only size that on_demand.c asks for.            *)
(*                                                                         *)
(* Addresses, sizes and orders count pages, so an order here is the code's *)
(* less PAGE_SHIFT.  Other processes allocate and free between two turns   *)
(* of the loop in ADD_MEMORY; ranges are added one after the other.  What  *)
(* is added must be memory that no pool has: the caller of ADD_MEMORY, the *)
(* control utility of MemOffline, is responsible for that.                 *)
(*                                                                         *)
(* ContainsStrictly, AdvanceByOne and AdvanceTwice are plausible mistakes  *)
(* that the properties must detect, not part of the specification.         *)
(***************************************************************************)
EXTENDS Integers, Sequences, SequencesExt, FiniteSetsExt

CONSTANTS
  Ranges,        (* what ADD_MEMORY may be given: <<base, pages>>        *)
  U32_PAGES,     (* one more than the largest u32                        *)
  INT_ORDER,     (* the order whose size in bytes is the int's sign bit  *)
  MaxHeld        (* bound: pages in the hands of callers at a time       *)

\* A range fits into physical memory, and its pages into num_pages.
ASSUME RangesAssumption ==
  \A r \in Ranges : r[1] \in Nat /\ r[2] \in 0 .. U32_PAGES - 1

ASSUME IntAssumption == U32_PAGES \in Nat \ {0} /\ INT_ORDER \in Nat

\* What the proofs need of powers of two.
ASSUME PowersOfTwo ==
  /\ 2^0 = 1
  /\ \A n \in 0 .. U32_PAGES - 1 : 2^n \in Nat /\ 2^n > n

VARIABLES
  pools,         (* petmem_pool_list: base, order and free pages         *)
  adding,        (* base_addr and num_pages of ADD_MEMORY's loop         *)
  added,         (* the ranges given to ADD_MEMORY                       *)
  held           (* the pages that callers of petmem_alloc_pages have    *)

pool_vars == <<pools, adding, added, held>>

-----------------------------------------------------------------------------

\* The position of the highest bit that is set, counted from 1; 0 for 0.
fls(n) == Min({k \in 0 .. n : 2^k > n})

pages_of(pool) == pool.base .. pool.base + 2^pool.order - 1

\* page_va < base_addr + (0x1 << pool_order): the shift is that of an int.
\* At its sign bit the sum lies below the base; beyond, the processor takes
\* the count modulo 32 and the sum stays inside the first page.
ContainsStrictly(pool, page) ==
  page > pool.base /\ page < pool.base + 2^pool.order
contains(pool, page) ==
  /\ page >= pool.base
  /\ \/ pool.order < INT_ORDER /\ page < pool.base + 2^pool.order
     \/ pool.order > INT_ORDER /\ page = pool.base

-----------------------------------------------------------------------------

PoolInit ==
  /\ pools = << >>
  /\ adding = [base |-> 0, num_pages |-> 0]
  /\ added = {}
  /\ held = {}

\* ADD_MEMORY is entered; num_pages is a u32.
AddMemory(r) ==
  /\ adding.num_pages = 0
  /\ adding' = [base |-> r[1], num_pages |-> r[2] % U32_PAGES]
  /\ added' = added \cup {r}
  /\ UNCHANGED <<pools, held>>

\* The rest of the range, once a pool of order k has been cut off.
AdvanceTwice(a, k) ==
  [base |-> a.base + 2^(k + 1), num_pages |-> a.num_pages - 2^(k + 1)]
AdvanceByOne(a, k) == [base |-> a.base + 1, num_pages |-> a.num_pages - 2^k]
advance(a, k) == [base |-> a.base + 2^k, num_pages |-> a.num_pages - 2^k]

Remaining == adding.base .. adding.base + adding.num_pages - 1

\* One turn of the loop: a pool of the highest order that fits, given its
\* memory by buddy_free before it joins the list at its head.
AddPool ==
  LET k == fls(adding.num_pages) - 1
      pool == [base |-> adding.base, order |-> k,
               free |-> adding.base .. adding.base + 2^k - 1]
  IN  /\ adding.num_pages # 0
      /\ pools' = <<pool>> \o pools
      /\ adding' = advance(adding, k)
      /\ UNCHANGED <<added, held>>

\* Pool i is the first in the list that has a page.
first_with_page(i) ==
  /\ i \in DOMAIN pools
  /\ pools[i].free # {}
  /\ \A m \in 1 .. i - 1 : pools[m].free = {}

\* petmem_alloc_pages(1) finds a page.
AllocPage ==
  \E i \in DOMAIN pools : \E page \in pools[i].free :
    /\ Cardinality(held) < MaxHeld
    /\ first_with_page(i)
    /\ pools' = [pools EXCEPT ![i].free = @ \ {page}]
    /\ held' = held \cup {page}
    /\ UNCHANGED <<adding, added>>

\* petmem_alloc_pages(1) returns NULL.
AllocNull ==
  /\ \A i \in DOMAIN pools : ~first_with_page(i)
  /\ UNCHANGED pool_vars

\* petmem_free_pages(page, 1): the first pool that contains the address, if
\* any does.
FreePage(page) ==
  LET candidates == {i \in DOMAIN pools : contains(pools[i], page)}
  IN  /\ pools' = IF candidates = {} THEN pools
                  ELSE [pools EXCEPT ![Min(candidates)].free = @ \cup {page}]
      /\ held' = held \ {page}
      /\ UNCHANGED <<adding, added>>

\* petmem_exit: the list is gone with the module, and with it all knowledge
\* of the memory, "deinit buddy pools" being only a comment.
Unload ==
  /\ adding.num_pages = 0
  /\ pools' = << >>
  /\ added' = {}
  /\ held' = {}
  /\ UNCHANGED adding

range_pages(r) == r[1] .. r[1] + r[2] - 1
Added == UNION {range_pages(r) : r \in added}

PoolNext ==
  \/ \E r \in Ranges : range_pages(r) \cap Added = {} /\ AddMemory(r)
  \/ AddPool
  \/ AllocPage
  \/ AllocNull
  \/ \E page \in held : FreePage(page)
  \/ Unload

\* The pools with callers that add no memory twice.
PoolSpec == PoolInit /\ [][PoolNext]_pool_vars

-----------------------------------------------------------------------------

\* Pools are numbers and sets of pages of their own.
PoolTypeOK ==
  /\ \A i \in DOMAIN pools : /\ pools[i].base \in Nat /\ pools[i].order \in Nat
                             /\ pools[i].free \subseteq pages_of(pools[i])
  /\ adding.base \in Nat /\ adding.num_pages \in 0 .. U32_PAGES - 1
  /\ added \subseteq Ranges

\* The decomposition into powers of two is exact at every turn of the loop:
\* pools do not overlap, none reaches outside the ranges that were added,
\* and what is in no pool is what the loop has left to do.
PoolsTile ==
  /\ \A i, m \in DOMAIN pools : i # m => pages_of(pools[i]) \cap pages_of(pools[m]) = {}
  /\ UNION {pages_of(pools[i]) : i \in DOMAIN pools} = Added \ Remaining
  /\ Remaining \subseteq Added

\* Every page of a pool is free in it or with a caller, never both: what
\* petmem_free_pages is given comes back to the pool it was taken from,
\* however many pools were added in the meantime.
PagesAccounted ==
  \A i \in DOMAIN pools :
    /\ pools[i].free \cap held = {}
    /\ pools[i].free \cup (held \cap pages_of(pools[i])) = pages_of(pools[i])
=============================================================================
