------------------------------- MODULE VSpace -------------------------------
(***************************************************************************)
(* The virtual address space of one process: LAZY_ALLOC and LAZY_FREE on   *)
(* the region list.  The list head, which is not a node, is read as one by *)
(* free_address, see coalesces_head.  Addresses count pages; the bytes of  *)
(* a request appear only where LAZY_ALLOC rounds them up.                  *)
(*                                                                         *)
(* RoundDown is a plausible mistake in num_pages, not part of the          *)
(* specification.                                                          *)
(***************************************************************************)
EXTENDS Regions

CONSTANTS
  PAGE_SIZE,     (* bytes in a page                                      *)
  WORD,          (* one more than the largest u64                        *)
  Requests,      (* the sizes in bytes that processes ask for            *)
  HeadStatus,    (* what the status of the list head may be read as      *)
  MINUS_ONE      (* (uintptr_t)-1                                        *)

ASSUME WidthAssumption ==
  /\ PAGE_SIZE \in Nat \ {0}
  /\ WORD \in Nat
  /\ (RegionStart + RegionPages) * PAGE_SIZE < WORD
  /\ Requests \subseteq 0 .. WORD - 1

ASSUME MinusOneAssumption == MINUS_ONE \notin Nat

VARIABLES
  regions,       (* map->memory_allocations                              *)
  granted,       (* the address the last LAZY_ALLOC gave its caller      *)
  live,          (* what the process holds: <<address, bytes asked for>> *)
  head_linked    (* the list head has not been taken for a node          *)

vars == <<regions, granted, live, head_linked>>

-----------------------------------------------------------------------------

\* Round up to whole pages, in 64-bit arithmetic.
RoundDown(bytes) == bytes \div PAGE_SIZE
num_pages(bytes) == ((bytes + PAGE_SIZE - 1) % WORD) \div PAGE_SIZE

-----------------------------------------------------------------------------

\* petmem_init_process.
Init ==
  /\ regions = <<first_node>>
  /\ granted = RegionStart
  /\ live = {}
  /\ head_linked = TRUE

\* LAZY_ALLOC that finds a region.
LazyAlloc(bytes) ==
  \E i \in DOMAIN regions :
    /\ head_linked
    /\ first_fit(regions, i, num_pages(bytes))
    /\ regions' = allocate(regions, i, num_pages(bytes))
    /\ granted' = regions[i].page_addr
    /\ live' = live \cup {<<regions[i].page_addr, bytes>>}
    /\ UNCHANGED head_linked

\* allocate returns -1, which is not the 0 that LAZY_ALLOC looks for: the
\* caller is given the address.
LazyAllocFails(bytes) ==
  /\ head_linked
  /\ no_fit(regions, num_pages(bytes))
  /\ granted' = MINUS_ONE
  /\ UNCHANGED <<regions, live, head_linked>>

\* LAZY_FREE of page.
FreePage(page) ==
  \E i \in DOMAIN regions, st \in HeadStatus :
    /\ head_linked
    /\ found(regions, i, page)
    /\ regions' = free_address(regions, i, page)
    /\ head_linked' = ~coalesces_head(regions, i, st)
    /\ UNCHANGED granted

\* A process frees what it holds.
LazyFree(h) ==
  /\ FreePage(h[1])
  /\ live' = live \ {h}

\* A process frees an address it does not hold.
LazyFreeStray(page) ==
  /\ \A h \in live : h[1] # page
  /\ FreePage(page)
  /\ UNCHANGED live

Next ==
  \/ \E bytes \in Requests : LazyAlloc(bytes) \/ LazyAllocFails(bytes)
  \/ \E h \in live : LazyFree(h)
  \/ \E page \in RegionStart .. RegionEnd : LazyFreeStray(page)

Spec == Init /\ [][Next]_vars

-----------------------------------------------------------------------------

\* The list holds regions with the types of struct vaddr_reg.
TypeOK ==
  /\ regions \in Seq(Region)
  /\ regions # << >>
  /\ granted \in Nat \cup {MINUS_ONE}
  /\ live \in SUBSET (Nat \X Requests)
  /\ head_linked \in BOOLEAN

\* Splitting and coalescing neither lose nor duplicate an address: in list
\* order the regions cover the range from end to end.
RegionsTile ==
  /\ regions[1].page_addr = RegionStart
  /\ \A i \in 1 .. Len(regions) - 1 :
       regions[i + 1].page_addr = regions[i].page_addr + regions[i].size
  /\ regions[Len(regions)].page_addr + regions[Len(regions)].size = RegionEnd

\* free_address leaves no two neighbours free, whatever the order in which
\* regions are freed.
NoAdjacentFree ==
  \A i \in 1 .. Len(regions) - 1 :
    ~(regions[i].status = FREE /\ regions[i + 1].status = FREE)

\* The allocated nodes are exactly what processes hold: no pointer loses its
\* region to the free of another, and no region is left without an owner.
AllocatedIsLive ==
  {<<regions[i].page_addr, regions[i].size>> :
     i \in {m \in DOMAIN regions : regions[m].status = ALLOCATED}}
  = {<<h[1], num_pages(h[2])>> : h \in live}

\* allocate and free_address give out and take back intervals of pages.
Space == INSTANCE AddressSpace WITH
  FirstPage <- RegionStart, NumPages <- RegionPages, MaxRequest <- RegionPages,
  owned <- {<<h[1], num_pages(h[2])>> : h \in live}
ImplementsAddressSpace == Space!Spec

\* allocate refuses a request only when no hole in the address space is
\* large enough for it.
RefusesOnlyWhenFull ==
  [][\A bytes \in Requests :
       LazyAllocFails(bytes) => Space!MayRefuse(num_pages(bytes))]_vars

\* A struct vaddr_reg demarcates an allocation, on_demand.h says: requests
\* that are not for 0 bytes never share an address, so that pet_free finds
\* the region that is meant, and the region has room for the bytes that were
\* asked for.
AllocationsDemarcated ==
  \A h \in live :
    /\ \A g \in live : g[1] = h[1] => g = h
    /\ \E i \in DOMAIN regions : /\ regions[i].status = ALLOCATED
                                 /\ regions[i].page_addr = h[1]
                                 /\ regions[i].size * PAGE_SIZE >= h[2]
=============================================================================
