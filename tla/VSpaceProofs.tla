----------------------------- MODULE VSpaceProofs ---------------------------
(***************************************************************************)
(* Proofs about the virtual address space, for every size of it, every     *)
(* size of a page and every set of requests.                               *)
(***************************************************************************)
EXTENDS VSpace, MemMapLemmas

-----------------------------------------------------------------------------
(* The process. *)

\* What processes ask for: at least a byte, and no size that wraps around
\* when it is rounded up.
Sensible == \A bytes \in Requests : bytes >= 1 /\ bytes + PAGE_SIZE - 1 < WORD

\* A request is for a number of pages, whatever wraps around.
LEMMA PagesType ==
  ASSUME NEW bytes \in Requests
  PROVE  num_pages(bytes) \in Nat
<1>1. bytes \in Nat /\ PAGE_SIZE \in Nat \ {0} /\ WORD \in Nat \ {0}
  <2>1. /\ bytes \in Nat /\ PAGE_SIZE \in Nat \ {0} /\ WORD \in Nat
        /\ bytes \in 0 .. WORD - 1
    BY WidthAssumption
  <2> QED
    BY <2>1
<1>2. bytes + PAGE_SIZE - 1 \in Nat
  BY <1>1
<1>3. (bytes + PAGE_SIZE - 1) % WORD \in Nat
  BY <1>1, <1>2, Division
<1> QED
  BY <1>1, <1>3, Division DEF num_pages

\* Sensible requests get the pages they need, and at least one.
LEMMA PagesEnough ==
  ASSUME Sensible, NEW bytes \in Requests
  PROVE  num_pages(bytes) >= 1 /\ num_pages(bytes) * PAGE_SIZE >= bytes
<1> DEFINE x == bytes + PAGE_SIZE - 1
           n == x \div PAGE_SIZE
<1>1. bytes \in Nat /\ bytes >= 1 /\ PAGE_SIZE \in Nat \ {0} /\ x < WORD /\ WORD \in Nat
  BY WidthAssumption DEF Sensible
<1>2. x \in Nat
  BY <1>1
<1>3. x % WORD = x
  BY <1>1, <1>2
<1>4. num_pages(bytes) = n
  BY <1>3 DEF num_pages
<1>5. n \in Nat /\ x % PAGE_SIZE \in 0 .. PAGE_SIZE - 1
      /\ x = PAGE_SIZE * n + (x % PAGE_SIZE)
  BY <1>1, <1>2, Division
<1> HIDE DEF n
<1>6. PAGE_SIZE * n = n * PAGE_SIZE /\ n * PAGE_SIZE \in Nat
  BY <1>1, <1>5
<1>7. n * PAGE_SIZE >= bytes
  BY <1>1, <1>5, <1>6
<1>8. n # 0
  BY <1>1, <1>7
<1> QED
  BY <1>4, <1>5, <1>7, <1>8

\* What the process holds, in pages.
Held == {<<h[1], num_pages(h[2])>> : h \in live}

BaseInv ==
  /\ Tiled(regions)
  /\ granted \in Nat \cup {MINUS_ONE}
  /\ live \in SUBSET (Nat \X Requests)
  /\ head_linked \in BOOLEAN

\* The inductive invariant behind the properties of sensible requests: a
\* region without a page would make addresses ambiguous, and with them what
\* LAZY_FREE finds.
HoldInv ==
  /\ Positive(regions) /\ Quiet(regions, {})
  /\ Alloc(regions) = Held
  /\ \A g, h \in live : g[1] = h[1] => g = h

\* The list petmem_init_process starts with.
LEMMA InitInv ==
  ASSUME Init
  PROVE  BaseInv /\ HoldInv
<1>1. regions = <<first_node>> /\ live = {} /\ granted = RegionStart /\ head_linked = TRUE
  BY DEF Init
<1>2. first_node \in Region
  BY RegionAssumption, NewRegion DEF first_node
<1>3. Len(regions) = 1 /\ regions[1] = first_node /\ regions \in Seq(Region)
  BY <1>1, <1>2
<1>4. first_node.page_addr = RegionStart /\ first_node.size = RegionPages
      /\ first_node.status = FREE
  BY DEF first_node
<1>5. Tiled(regions)
  BY <1>3, <1>4, RegionAssumption DEF Tiled, RegionEnd
<1>6. Positive(regions) /\ Quiet(regions, {})
  BY <1>3, <1>4, RegionAssumption DEF Positive, Quiet
<1>7. Alloc(regions) = {} /\ Held = {}
  BY <1>1, <1>3, <1>4, StatusAssumption DEF Alloc, Held
<1> QED
  BY <1>1, <1>5, <1>6, <1>7, RegionAssumption DEF BaseInv, HoldInv

\* The region that allocate chooses.
LEMMA ChosenRegion ==
  ASSUME BaseInv, NEW i \in DOMAIN regions
  PROVE  /\ i \in 1 .. Len(regions) /\ regions \in Seq(Region) /\ Len(regions) \in Nat
         /\ regions[i].page_addr \in Nat /\ regions[i].size \in Nat
<1>1. regions \in Seq(Region) /\ i \in 1 .. Len(regions)
  BY DEF BaseInv, Tiled
<1> QED
  BY <1>1, NodeTypes

\* LAZY_ALLOC keeps the list.
LEMMA AllocBase ==
  ASSUME BaseInv, NEW bytes \in Requests, LazyAlloc(bytes)
  PROVE  BaseInv'
<1>1. PICK i \in DOMAIN regions :
        /\ regions[i].status = FREE /\ regions[i].size >= num_pages(bytes)
        /\ regions' = allocate(regions, i, num_pages(bytes))
        /\ granted' = regions[i].page_addr
        /\ live' = live \cup {<<regions[i].page_addr, bytes>>}
        /\ head_linked' = head_linked
  BY DEF LazyAlloc, first_fit
<1>2. Tiled(regions')
  BY <1>1, ChosenRegion, PagesType, AllocateKeeps DEF BaseInv
<1> QED
  BY <1>1, <1>2, ChosenRegion DEF BaseInv

\* LAZY_FREE keeps the list.
LEMMA FreeBase ==
  ASSUME BaseInv, NEW page, FreePage(page), live' \subseteq live
  PROVE  BaseInv'
<1>1. PICK i \in DOMAIN regions, st \in HeadStatus :
        /\ regions[i].page_addr = page
        /\ regions' = free_address(regions, i, page)
        /\ head_linked' = ~coalesces_head(regions, i, st)
        /\ granted' = granted
  BY DEF FreePage, found
<1>2. Tiled(regions')
  BY <1>1, ChosenRegion, FreeKeeps DEF BaseInv
<1>3. head_linked' \in BOOLEAN
  BY <1>1 DEF coalesces_head
<1> QED
  BY <1>1, <1>2, <1>3 DEF BaseInv

\* Every step keeps the list.
LEMMA NextBase ==
  ASSUME BaseInv, [Next]_vars
  PROVE  BaseInv'
<1>1. CASE UNCHANGED vars
  BY <1>1 DEF vars, BaseInv
<1>2. ASSUME NEW bytes \in Requests, LazyAlloc(bytes) PROVE BaseInv'
  BY <1>2, AllocBase
<1>3. ASSUME NEW bytes \in Requests, LazyAllocFails(bytes) PROVE BaseInv'
  BY <1>3 DEF LazyAllocFails, BaseInv
<1>4. ASSUME NEW h \in live, LazyFree(h) PROVE BaseInv'
  BY <1>4, FreeBase DEF LazyFree
<1>5. ASSUME NEW page, LazyFreeStray(page) PROVE BaseInv'
  BY <1>5, FreeBase DEF LazyFreeStray
<1> QED
  BY <1>1, <1>2, <1>3, <1>4, <1>5 DEF Next

\* What LAZY_ALLOC gives is nobody's.
LEMMA AllocHold ==
  ASSUME Sensible, BaseInv, HoldInv, NEW bytes \in Requests, LazyAlloc(bytes)
  PROVE  HoldInv' /\ \E i \in 1 .. Len(regions) :
           /\ regions[i].status = FREE /\ regions[i].size >= num_pages(bytes)
           /\ Held' = Held \cup {<<regions[i].page_addr, num_pages(bytes)>>}
<1> DEFINE n == num_pages(bytes)
<1>1. PICK i \in DOMAIN regions :
        /\ regions[i].status = FREE /\ regions[i].size >= n
        /\ regions' = allocate(regions, i, n)
        /\ live' = live \cup {<<regions[i].page_addr, bytes>>}
  BY DEF LazyAlloc, first_fit
<1>2. /\ i \in 1 .. Len(regions) /\ n \in Nat /\ n >= 1 /\ Tiled(regions)
      /\ Positive(regions) /\ Quiet(regions, {})
  BY <1>1, ChosenRegion, PagesType, PagesEnough DEF BaseInv, HoldInv
<1> DEFINE a == regions[i].page_addr
<1>3. /\ Alloc(regions') = Alloc(regions) \cup {<<a, n>>}
      /\ Positive(regions') /\ Quiet(regions', {})
  BY <1>1, <1>2, AllocateKeeps
<1>4. ASSUME NEW h \in live PROVE h[1] # a
  <2>1. <<h[1], num_pages(h[2])>> \in Alloc(regions)
    BY DEF HoldInv, Held
  <2>2. PICK k \in 1 .. Len(regions) :
          /\ regions[k].status = ALLOCATED
          /\ <<h[1], num_pages(h[2])>> = <<regions[k].page_addr, regions[k].size>>
    BY <2>1, AllocMember
  <2>3. k # i /\ h[1] = regions[k].page_addr
    BY <1>1, <2>2, StatusAssumption
  <2> QED
    BY <1>2, <2>3, DistinctStarts
<1>5. \A g, h \in live' : g[1] = h[1] => g = h
  BY <1>1, <1>4 DEF HoldInv
<1>6. Held' = Held \cup {<<a, n>>}
  <2>1. Held' = {<<h[1], num_pages(h[2])>> : h \in live'}
    BY DEF Held
  <2>2. \A h \in live' : h \in live \/ h = <<a, bytes>>
    BY <1>1
  <2>3. live \subseteq live' /\ <<a, bytes>> \in live'
    BY <1>1
  <2>4. <<a, bytes>>[1] = a /\ num_pages(<<a, bytes>>[2]) = n
    OBVIOUS
  <2> HIDE DEF a, n
  <2> QED
    BY <2>1, <2>2, <2>3, <2>4, Zenon DEF Held
<1> QED
  BY <1>1, <1>2, <1>3, <1>5, <1>6 DEF HoldInv

\* LAZY_FREE of what the process holds.
LEMMA FreeHold ==
  ASSUME Sensible, BaseInv, HoldInv, NEW h \in live, LazyFree(h)
  PROVE  HoldInv' /\ Held' = Held \ {<<h[1], num_pages(h[2])>>}
<1> DEFINE g == <<h[1], num_pages(h[2])>>
<1>1. PICK i \in DOMAIN regions :
        regions[i].page_addr = h[1] /\ regions' = free_address(regions, i, h[1])
  BY DEF LazyFree, FreePage, found
<1>2. /\ i \in 1 .. Len(regions) /\ Tiled(regions) /\ Positive(regions) /\ Quiet(regions, {})
  BY ChosenRegion DEF BaseInv, HoldInv
<1>3. /\ Alloc(regions') = Alloc(regions) \ {<<h[1], regions[i].size>>}
      /\ Positive(regions') /\ Quiet(regions', {})
  BY <1>1, <1>2, FreeKeeps
<1>4. regions[i].size = num_pages(h[2])
  <2>1. g \in Alloc(regions)
    BY DEF HoldInv, Held
  <2>2. PICK k \in 1 .. Len(regions) : g = <<regions[k].page_addr, regions[k].size>>
    BY <2>1, AllocMember
  <2>3. k = i
    BY <1>1, <1>2, <2>2, DistinctStarts
  <2> QED
    BY <2>2, <2>3
<1>5. live' = live \ {h}
  BY DEF LazyFree
<1>6. Held' = Held \ {g}
  BY <1>5 DEF Held, HoldInv
<1> QED
  BY <1>3, <1>4, <1>5, <1>6 DEF HoldInv

\* LAZY_FREE of anything else.
LEMMA FreeStrayHold ==
  ASSUME Sensible, BaseInv, HoldInv, NEW page, LazyFreeStray(page)
  PROVE  HoldInv' /\ Held' = Held
<1>1. PICK i \in DOMAIN regions :
        regions[i].page_addr = page /\ regions' = free_address(regions, i, page)
  BY DEF LazyFreeStray, FreePage, found
<1>2. /\ i \in 1 .. Len(regions) /\ Tiled(regions) /\ Positive(regions) /\ Quiet(regions, {})
  BY ChosenRegion DEF BaseInv, HoldInv
<1>3. /\ Alloc(regions') = Alloc(regions) \ {<<page, regions[i].size>>}
      /\ Positive(regions') /\ Quiet(regions', {})
  BY <1>1, <1>2, FreeKeeps
<1>4. live' = live /\ \A h \in live : h[1] # page
  BY DEF LazyFreeStray
<1>5. Held' = Held /\ <<page, regions[i].size>> \notin Held
  BY <1>4 DEF Held
<1> QED
  BY <1>3, <1>4, <1>5 DEF HoldInv

\* Every step keeps what is held, where requests are sensible.
LEMMA NextHold ==
  ASSUME Sensible, BaseInv, HoldInv, [Next]_vars
  PROVE  HoldInv'
<1>1. CASE UNCHANGED vars
  BY <1>1 DEF vars, HoldInv, Held
<1>2. ASSUME NEW bytes \in Requests, LazyAlloc(bytes) PROVE HoldInv'
  BY <1>2, AllocHold
<1>3. ASSUME NEW bytes \in Requests, LazyAllocFails(bytes) PROVE HoldInv'
  BY <1>3 DEF LazyAllocFails, HoldInv, Held
<1>4. ASSUME NEW h \in live, LazyFree(h) PROVE HoldInv'
  BY <1>4, FreeHold
<1>5. ASSUME NEW page, LazyFreeStray(page) PROVE HoldInv'
  BY <1>5, FreeStrayHold
<1> QED
  BY <1>1, <1>2, <1>3, <1>4, <1>5 DEF Next

-----------------------------------------------------------------------------
(* The theorems. *)

\* The list is covered by regions whatever is asked for and freed.
THEOREM VSpaceInvariant == Spec => []BaseInv
<1>1. Init => BaseInv
  BY InitInv
<1>2. BaseInv /\ [Next]_vars => BaseInv'
  BY NextBase
<1> QED
  BY <1>1, <1>2, PTL DEF Spec

\* LAZY_ALLOC and LAZY_FREE keep the types of the list, of what the process
\* holds and of the address it was last given.
THEOREM VSpaceTypes == Spec => []TypeOK
<1>1. BaseInv => TypeOK
  BY DEF BaseInv, Tiled, TypeOK
<1> QED
  BY <1>1, VSpaceInvariant, PTL

\* Splitting in allocate and coalescing in free_address never lose or
\* duplicate an address, even for requests of 0 bytes, for requests whose
\* rounding wraps around and for addresses nobody was given.
THEOREM VSpaceTile == Spec => []RegionsTile
<1>1. BaseInv => RegionsTile
  BY DEF BaseInv, Tiled, RegionsTile
<1> QED
  BY <1>1, VSpaceInvariant, PTL

\* The invariant of sensible requests.
LEMMA VSpaceHolds ==
  ASSUME Sensible
  PROVE  Spec => [](BaseInv /\ HoldInv)
<1>1. Init => BaseInv /\ HoldInv
  BY InitInv
<1>2. BaseInv /\ HoldInv /\ [Next]_vars => (BaseInv /\ HoldInv)'
  BY NextBase, NextHold
<1> QED
  BY <1>1, <1>2, PTL DEF Spec

\* free_address leaves no two neighbours free, whatever the order of the
\* frees.
THEOREM VSpaceCoalesced ==
  ASSUME Sensible
  PROVE  Spec => []NoAdjacentFree
<1>1. HoldInv => NoAdjacentFree
  BY DEF HoldInv, Quiet, NoAdjacentFree
<1> QED
  BY <1>1, VSpaceHolds, PTL

\* The allocated nodes are exactly what the process holds.
THEOREM VSpaceLive ==
  ASSUME Sensible
  PROVE  Spec => []AllocatedIsLive
<1>1. BaseInv /\ HoldInv => AllocatedIsLive
  <2>1. SUFFICES ASSUME BaseInv, HoldInv PROVE AllocatedIsLive
    OBVIOUS
  <2>2. DOMAIN regions = 1 .. Len(regions)
    BY <2>1 DEF BaseInv, Tiled
  <2>3. Alloc(regions) = Held
    BY <2>1 DEF HoldInv
  <2> QED
    BY <2>2, <2>3 DEF Alloc, Held, AllocatedIsLive
<1> QED
  BY <1>1, VSpaceHolds, PTL

\* A struct vaddr_reg demarcates an allocation, as on_demand.h says: no two
\* allocations share an address, and the region has room for the bytes that
\* were asked for.
THEOREM VSpaceDemarcated ==
  ASSUME Sensible
  PROVE  Spec => []AllocationsDemarcated
<1>1. BaseInv /\ HoldInv => AllocationsDemarcated
  <2>1. SUFFICES ASSUME BaseInv, HoldInv, NEW h \in live
                 PROVE  \E i \in DOMAIN regions :
                          /\ regions[i].status = ALLOCATED
                          /\ regions[i].page_addr = h[1]
                          /\ regions[i].size * PAGE_SIZE >= h[2]
    BY DEF HoldInv, AllocationsDemarcated
  <2>2. h[2] \in Requests
    BY <2>1 DEF BaseInv
  <2>3. <<h[1], num_pages(h[2])>> \in Alloc(regions)
    BY <2>1 DEF HoldInv, Held
  <2>4. PICK i \in 1 .. Len(regions) :
          /\ regions[i].status = ALLOCATED
          /\ <<h[1], num_pages(h[2])>> = <<regions[i].page_addr, regions[i].size>>
    BY <2>3, AllocMember
  <2>5. regions[i].page_addr = h[1] /\ regions[i].size = num_pages(h[2])
    BY <2>4
  <2>6. i \in DOMAIN regions
    BY <2>1 DEF BaseInv, Tiled
  <2> QED
    BY <2>2, <2>4, <2>5, <2>6, PagesEnough
<1> QED
  BY <1>1, VSpaceHolds, PTL

-----------------------------------------------------------------------------
(* The list implements AddressSpace. *)

\* The pages of a free region are nobody's.
LEMMA FreeIsHole ==
  ASSUME BaseInv, HoldInv, NEW i \in 1 .. Len(regions), regions[i].status = FREE,
         NEW n \in Nat, n =< regions[i].size, n >= 1
  PROVE  /\ regions[i].page_addr \in RegionStart .. RegionStart + RegionPages - 1
         /\ regions[i].page_addr + n =< RegionStart + RegionPages
         /\ \A g \in Held : \/ regions[i].page_addr + n =< g[1]
                            \/ g[1] + g[2] =< regions[i].page_addr
<1>1. /\ Tiled(regions) /\ regions \in Seq(Region) /\ Len(regions) \in Nat
      /\ Alloc(regions) = Held
  BY DEF BaseInv, HoldInv, Tiled
<1>2. /\ regions[i].page_addr \in Nat /\ regions[i].size \in Nat
      /\ RegionStart \in Nat /\ RegionPages \in Nat
  BY <1>1, NodeTypes, RegionAssumption
<1>3. /\ RegionStart =< regions[i].page_addr
      /\ regions[i].page_addr + regions[i].size =< RegionStart + RegionPages
  BY <1>1, InRange DEF RegionEnd
<1>4. ASSUME NEW g \in Held
      PROVE  \/ regions[i].page_addr + n =< g[1]
             \/ g[1] + g[2] =< regions[i].page_addr
  <2>1. PICK k \in 1 .. Len(regions) :
          regions[k].status = ALLOCATED /\ g = <<regions[k].page_addr, regions[k].size>>
    BY <1>1, AllocMember
  <2>2. /\ g[1] = regions[k].page_addr /\ g[2] = regions[k].size /\ k # i
        /\ regions[k].page_addr \in Nat /\ regions[k].size \in Nat
    BY <1>1, <2>1, StatusAssumption, NodeTypes
  <2>3. CASE i < k
    <3>1. regions[i].page_addr + regions[i].size =< regions[k].page_addr
      BY <1>1, <2>3, Sorted
    <3> QED
      BY <1>2, <2>2, <3>1
  <2>4. CASE k < i
    <3>1. regions[k].page_addr + regions[k].size =< regions[i].page_addr
      BY <1>1, <2>4, Sorted
    <3> QED
      BY <2>2, <3>1
  <2> QED
    BY <1>1, <2>2, <2>3, <2>4
<1> QED
  BY <1>2, <1>3, <1>4

\* LAZY_ALLOC and LAZY_FREE implement the address space that hands out
\* disjoint intervals and takes them back.
THEOREM VSpaceRefines ==
  ASSUME Sensible
  PROVE  Spec => ImplementsAddressSpace
<1>1. Init => Space!Init
  BY DEF Init, Space!Init
<1>2. BaseInv /\ HoldInv /\ [Next]_vars => [Space!Next]_Held
  <2>1. SUFFICES ASSUME BaseInv, HoldInv, [Next]_vars PROVE [Space!Next]_Held
    OBVIOUS
  <2>2. CASE UNCHANGED vars
    BY <2>2 DEF vars, Held
  <2>3. ASSUME NEW bytes \in Requests, LazyAlloc(bytes) PROVE Space!Next
    <3> DEFINE n == num_pages(bytes)
    <3>1. n \in Nat /\ n >= 1
      BY PagesType, PagesEnough
    <3> HIDE DEF n
    <3>2. PICK i \in 1 .. Len(regions) :
            /\ regions[i].status = FREE /\ regions[i].size >= n
            /\ Held' = Held \cup {<<regions[i].page_addr, n>>}
      BY <2>1, <2>3, AllocHold DEF n
    <3> DEFINE a == regions[i].page_addr
    <3>3. regions \in Seq(Region) /\ regions[i].size \in Nat /\ n =< regions[i].size
      BY <2>1, <3>1, <3>2, NodeTypes DEF BaseInv, Tiled
    <3>4. /\ a \in RegionStart .. RegionStart + RegionPages - 1
          /\ a + n =< RegionStart + RegionPages
          /\ \A g \in Held : a + n =< g[1] \/ g[1] + g[2] =< a
      BY <2>1, <3>1, <3>2, <3>3, FreeIsHole
    <3>5. n \in 1 .. RegionPages
      BY <3>1, <3>4, RegionAssumption
    <3>6. Space!Grant(n)
      <4> HIDE DEF a
      <4>1. Space!Hole(a, n)
        BY <3>4 DEF Space!Hole, Held
      <4>2. a \in Space!Pages
        BY <3>4 DEF Space!Pages
      <4>3. Held' = Held \cup {<<a, n>>}
        BY <3>2 DEF a
      <4> QED
        BY <4>1, <4>2, <4>3 DEF Space!Grant, Held
    <3> QED
      BY <3>5, <3>6 DEF Space!Next
  <2>4. ASSUME NEW bytes \in Requests, LazyAllocFails(bytes) PROVE Held' = Held
    BY <2>4 DEF LazyAllocFails, Held
  <2>5. ASSUME NEW h \in live, LazyFree(h) PROVE Space!Next
    <3>1. Held' = Held \ {<<h[1], num_pages(h[2])>>}
      BY <2>1, <2>5, FreeHold
    <3>2. <<h[1], num_pages(h[2])>> \in Held
      BY <2>5 DEF Held
    <3> QED
      BY <3>1, <3>2 DEF Space!Next, Space!GiveBack, Held
  <2>6. ASSUME NEW page, LazyFreeStray(page) PROVE Held' = Held
    BY <2>1, <2>6, FreeStrayHold
  <2> QED
    BY <2>1, <2>2, <2>3, <2>4, <2>5, <2>6 DEF Next
<1> QED
  BY <1>1, <1>2, VSpaceHolds, PTL DEF Spec, ImplementsAddressSpace, Space!Spec, Held

\* allocate refuses a request only when no hole in the address space is large
\* enough for it: first fit over a list without free neighbours misses none.
THEOREM VSpaceRefuses ==
  ASSUME Sensible
  PROVE  Spec => RefusesOnlyWhenFull
<1>1. ASSUME BaseInv, HoldInv, NEW bytes \in Requests, LazyAllocFails(bytes)
      PROVE  Space!MayRefuse(num_pages(bytes))
  <2> DEFINE n == num_pages(bytes)
  <2>1. n \in Nat /\ n >= 1
    BY PagesType, PagesEnough
  <2> HIDE DEF n
  <2>2. SUFFICES ASSUME NEW a \in Space!Pages, Space!Hole(a, n) PROVE FALSE
    BY DEF Space!MayRefuse, n
  <2>3. /\ a \in RegionStart .. RegionStart + RegionPages - 1
        /\ a + n =< RegionStart + RegionPages
        /\ \A g \in Held : a + n =< g[1] \/ g[1] + g[2] =< a
    BY <2>2 DEF Space!Pages, Space!Hole, Held
  <2>4. a \in Nat /\ RegionStart =< a /\ a < RegionEnd /\ a + n =< RegionEnd /\ RegionEnd \in Nat
    BY <2>1, <2>3, RegionAssumption DEF RegionEnd
  <2>5. /\ regions \in Seq(Region) /\ Len(regions) \in Nat /\ Len(regions) >= 1
        /\ regions[1].page_addr = RegionStart
        /\ \A k \in 1 .. Len(regions) - 1 :
             regions[k + 1].page_addr = regions[k].page_addr + regions[k].size
        /\ regions[Len(regions)].page_addr + regions[Len(regions)].size = RegionEnd
    BY <1>1 DEF BaseInv, Tiled
  <2>6. \A k \in 1 .. Len(regions) : regions[k].page_addr \in Nat /\ regions[k].size \in Nat
    BY <2>5, NodeTypes
  <2>7. \A k \in 1 .. Len(regions) : regions[k].size >= 1
    BY <1>1 DEF HoldInv, Positive
  <2>8. ASSUME NEW k \in 1 .. Len(regions), regions[k].status = ALLOCATED
        PROVE  a + n =< regions[k].page_addr \/ regions[k].page_addr + regions[k].size =< a
    <3>1. <<regions[k].page_addr, regions[k].size>> \in Held
      BY <1>1, <2>8, AllocMember DEF HoldInv
    <3> QED
      BY <2>3, <3>1
  <2> DEFINE S == {k \in 1 .. Len(regions) : regions[k].page_addr =< a}
  <2>9. S \in SUBSET Nat /\ 1 \in S /\ \A y \in S : y =< Len(regions)
    BY <2>4, <2>5
  <2>10. Max(S) \in S /\ \A y \in S : Max(S) >= y
    <3> HIDE DEF S
    <3> QED
      BY <2>5, <2>9, MaxOfNaturals
  <2>11. PICK k \in 1 .. Len(regions) :
           /\ regions[k].page_addr =< a
           /\ \A m \in 1 .. Len(regions) : regions[m].page_addr =< a => m =< k
    <3>1. Max(S) \in 1 .. Len(regions) /\ regions[Max(S)].page_addr =< a
      BY <2>10
    <3>2. \A m \in 1 .. Len(regions) : regions[m].page_addr =< a => m =< Max(S)
      BY <2>5, <2>10, <3>1
    <3> QED
      BY <3>1, <3>2
  <2> HIDE DEF S
  <2>12. k < Len(regions) => /\ k \in 1 .. Len(regions) - 1 /\ k + 1 \in 1 .. Len(regions)
                             /\ ~(k + 1 =< k)
    BY <2>5
  <2>13. k < Len(regions) => /\ regions[k + 1].page_addr = regions[k].page_addr + regions[k].size
                             /\ regions[k + 1].page_addr > a
    BY <2>4, <2>5, <2>6, <2>11, <2>12
  <2>14. k < Len(regions) \/ k = Len(regions)
    BY <2>5
  <2>15. a < regions[k].page_addr + regions[k].size
    BY <2>4, <2>5, <2>6, <2>13, <2>14
  <2>16. regions[k].status = FREE
    <3>1. regions[k].status # ALLOCATED
      BY <2>1, <2>4, <2>6, <2>8, <2>11, <2>15
    <3> QED
      BY <2>5, <3>1, NodeTypes
  <2>17. regions[k].size < n
    <3>1. k \in DOMAIN regions
      BY <2>5
    <3>2. ~(regions[k].size >= n)
      BY <1>1, <2>16, <3>1 DEF LazyAllocFails, no_fit, n
    <3> QED
      BY <2>1, <2>6, <3>2
  <2>18. regions[k].page_addr + regions[k].size < a + n
    BY <2>1, <2>4, <2>6, <2>11, <2>17
  <2>19. k < Len(regions)
    BY <2>1, <2>4, <2>5, <2>14, <2>18
  <2>20. regions[k + 1].status = ALLOCATED
    <3>1. regions[k + 1].status # FREE
      BY <1>1, <2>12, <2>16, <2>19 DEF HoldInv, Quiet
    <3> QED
      BY <2>5, <2>12, <2>19, <3>1, NodeTypes
  <2>21. \/ a + n =< regions[k + 1].page_addr
         \/ regions[k + 1].page_addr + regions[k + 1].size =< a
    BY <2>8, <2>12, <2>19, <2>20
  <2>22. regions[k + 1].page_addr \in Nat /\ regions[k + 1].size \in Nat
    BY <2>6, <2>12, <2>19
  <2> QED
    BY <2>1, <2>4, <2>13, <2>18, <2>19, <2>21, <2>22
<1>2. BaseInv /\ HoldInv =>
        [\A bytes \in Requests :
           LazyAllocFails(bytes) => Space!MayRefuse(num_pages(bytes))]_vars
  BY <1>1
<1> QED
  BY <1>2, VSpaceHolds, PTL DEF RefusesOnlyWhenFull
=============================================================================
