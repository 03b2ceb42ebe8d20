------------------------------- MODULE Paging -------------------------------
(***************************************************************************)
(* On-demand paging for one process (on_demand.c): page faults fill page   *)
(* tables and pages from the pool of frames, the clock evicts pages to the *)
(* swap file when the pool is empty, LAZY_FREE and the end of the process  *)
(* take mappings down.  The list of regions and the swap space are those   *)
(* of Regions and SwapSpace; the frames come from petmem_alloc_pages,      *)
(* which behaves as BlockAllocator says for blocks of one page.            *)
(*                                                                         *)
(* Three levels of the page tables are modelled: the PDP entries, each a   *)
(* page directory (pd), its entries, each a page table (pt), and theirs    *)
(* (pte).  The PML4 entry and the PDP table of the range belong to the     *)
(* host: they also map the program itself and are always present.          *)
(*                                                                         *)
(* The process is stopped while a system call of its own runs.  A page     *)
(* fault takes one step for each frame it allocates, each swap and each    *)
(* list entry the clock looks at; the loops of free_address and of         *)
(* petmem_deinit_process take one for each turn.                           *)
(*                                                                         *)
(* EvictDirectly, EvictWithoutFree, EvictPresent, TableOfAnyFrame,         *)
(* SecondChanceAlways and FlushNothing are plausible mistakes that the     *)
(* properties must detect, not part of the specification.                  *)
(***************************************************************************)
EXTENDS Regions, SwapSpace

CONSTANTS
  Sizes,         (* the numbers of pages a process asks for              *)
  Frames,        (* physical page numbers of the pool                    *)
  PAGE_OFFSET,   (* start of the kernel's map of physical memory, pages  *)
  WORD,          (* one more than the largest address, in pages          *)
  PTES, PDES,    (* entries of a page table and of a page directory      *)
  HeadAddrs,     (* what the page_addr of the list head may be read as   *)
  Frees,         (* TRUE if the process frees memory and exits           *)
  UseTLB,        (* TRUE if the processor keeps translations             *)
  NONE           (* no frame, no page, no promise about a content        *)

ASSUME TablesAssumption ==
  PTES \in Nat \ {0} /\ PDES \in Nat \ {0}

ASSUME SizesAssumption == Sizes \subseteq Nat

ASSUME NoneAssumption == NONE \notin Nat

\* The map of physical memory starts in the upper half of the addresses and
\* the pool lies inside it.
ASSUME DirectMapAssumption ==
  /\ PAGE_OFFSET \in Nat /\ WORD \in Nat
  /\ 2 * PAGE_OFFSET >= WORD
  /\ \A f \in Frames : f \in Nat \ {0} /\ f + PAGE_OFFSET < WORD

VARIABLES
  regions,       (* map->memory_allocations                              *)
  clock_hand,    (* map->clock_hand: 0 the list head, i the i-th node    *)
  swap,          (* map->swap: bitmap and file                           *)
  pgt,           (* the page tables [pd, pt, pte] and the free frames    *)
  mem,           (* the contents of the frames, NONE if free             *)
  tlb,           (* translations <<page, frame>> the processor kept      *)
  call,          (* the system call in progress and its local variables  *)
  want           (* what the process last wrote to each page             *)

vars == <<regions, clock_hand, swap, pgt, mem, tlb, call, want>>

-----------------------------------------------------------------------------

VPages == RegionStart .. RegionEnd - 1
pt_of(v) == v \div PTES
pd_of(v) == v \div (PTES * PDES)
PTs == {pt_of(v) : v \in VPages}
PDs == {pd_of(v) : v \in VPages}

zero_entry == [present |-> FALSE, dirty |-> FALSE, accessed |-> FALSE, base |-> 0]

Idle == [pc |-> "user", v |-> NONE, pos |-> 0, i |-> 0, ret |-> "user", buf |-> NONE]

\* The clock hand points into freed memory.
DANGLING == -1

\* The walk from CR3 reaches a present entry for page v.
mapped(t, v) == /\ v \in VPages
                /\ t.pd[pd_of(v)] # NONE
                /\ t.pt[pt_of(v)] # NONE
                /\ t.pte[v].present

\* __va, and petmem_free_pages: a frame joins the free ones if the address,
\* taken for a physical one, leads into the pool.
va(addr) == (addr + PAGE_OFFSET) % WORD
petmem_free_pages(t, addr) ==
  [t EXCEPT !.free = @ \cup {f \in Frames : va(f) = va(addr)}]

\* The present bits of a page table and of a page directory.
pt_in_use(t, p) == \E v \in VPages : pt_of(v) = p /\ t.pte[v].present
pd_in_use(t, d) == \E v \in VPages : pd_of(v) = d /\ t.pt[pt_of(v)] # NONE

\* The three entries of page v are cleared, each if the table below it has
\* become empty; dirty and accessed stay.  The pages are freed by their
\* virtual addresses.
clear_pte(t, v) ==
  [petmem_free_pages(t, va(t.pte[v].base)) EXCEPT
     !.pte[v].present = FALSE, !.pte[v].base = 0]
clear_pde(t, v) ==
  IF pt_in_use(t, pt_of(v))
  THEN t
  ELSE [petmem_free_pages(t, va(t.pt[pt_of(v)])) EXCEPT
          !.pt[pt_of(v)] = NONE,
          !.pte = [u \in VPages |-> IF pt_of(u) = pt_of(v) THEN zero_entry ELSE @[u]]]
clear_pdpe(t, v) ==
  IF t.pt[pt_of(v)] # NONE \/ pd_in_use(t, pd_of(v))
  THEN t
  ELSE [petmem_free_pages(t, va(t.pd[pd_of(v)])) EXCEPT !.pd[pd_of(v)] = NONE]
attempt_free_physical_address(t, v) ==
  IF mapped(t, v) THEN clear_pdpe(clear_pde(clear_pte(t, v), v), v) ELSE t

\* The address that turn i of a loop over the pages of a region computes:
\* the offset is an int and wraps.
loop_page(r, i) == r.page_addr + int_offset(i)

FlushNothing(t, v) == t
invlpg(t, v) == {e \in t : e[1] # v}

-----------------------------------------------------------------------------

Init ==
  /\ regions = <<first_node>>
  /\ clock_hand = 0
  /\ swap = [map  |-> [b \in 0 .. byte_location(SwapPages - 1) |-> 0],
             file |-> [i \in Slots |-> 0]]
  /\ pgt = [pd |-> [d \in PDs |-> NONE], pt |-> [p \in PTs |-> NONE],
            pte |-> [v \in VPages |-> zero_entry], free |-> Frames]
  /\ mem = [f \in Frames |-> NONE]
  /\ tlb = {}
  /\ call = Idle
  /\ want = [v \in VPages |-> NONE]

\* LAZY_ALLOC.  A new node moves the nodes behind it; kmalloc may give it
\* the memory of a freed one, which a dangling clock hand still points to.
PetMalloc(n) ==
  \E i \in DOMAIN regions :
    /\ call.pc = "user"
    /\ first_fit(regions, i, n)
    /\ regions' = allocate(regions, i, n)
    /\ \/ clock_hand' = IF clock_hand > i /\ Len(regions') > Len(regions)
                        THEN clock_hand + 1 ELSE clock_hand
       \/ /\ clock_hand = DANGLING
          /\ Len(regions') > Len(regions)
          /\ clock_hand' = i + 1
    /\ UNCHANGED <<swap, pgt, mem, tlb, call, want>>

\* LAZY_FREE finds its region; what the process wrote there is forgotten.
PetFree(page) ==
  \E i \in DOMAIN regions :
    /\ call.pc = "user"
    /\ Frees
    /\ found(regions, i, page)
    /\ call' = [Idle EXCEPT !.pc = "free", !.pos = i]
    /\ want' = [v \in VPages |->
                  IF v \in page .. page + regions[i].size - 1 THEN NONE ELSE want[v]]
    /\ UNCHANGED <<regions, clock_hand, swap, pgt, mem, tlb>>

\* The pages of the region are freed, by free_address and by
\* petmem_deinit_process.
FreePage ==
  /\ call.pc \in {"free", "release"}
  /\ call.i < regions[call.pos].size
  /\ pgt' = attempt_free_physical_address(pgt, loop_page(regions[call.pos], call.i))
  /\ call' = [call EXCEPT !.i = call.i + 1]
  /\ UNCHANGED <<regions, clock_hand, swap, mem, tlb, want>>

\* Then their translations.  The status, which nobody reads in between, is
\* set with the list.
StartFlush ==
  /\ call.pc = "free"
  /\ call.i = regions[call.pos].size
  /\ call' = [call EXCEPT !.pc = "flush", !.i = 0]
  /\ UNCHANGED <<regions, clock_hand, swap, pgt, mem, tlb, want>>

FlushPage ==
  /\ call.pc = "flush"
  /\ call.i < regions[call.pos].size
  /\ tlb' = invlpg(tlb, loop_page(regions[call.pos], call.i))
  /\ call' = [call EXCEPT !.i = call.i + 1]
  /\ UNCHANGED <<regions, clock_hand, swap, pgt, mem, want>>

\* Then the list: nodes that are merged into the region are freed, and the
\* clock hand may point to one.
Coalesce ==
  LET i == call.pos
      page == regions[i].page_addr
      next == i < Len(regions) /\ mergeable(regions[i + 1], page)
      prev == i > 1 /\ mergeable(regions[i - 1], page)
  IN  /\ call.pc = "flush"
      /\ call.i = regions[i].size
      /\ regions' = free_address(regions, i, page)
      /\ clock_hand' = IF (next /\ clock_hand = i + 1) \/ (prev /\ clock_hand = i - 1)
                       THEN DANGLING
                       ELSE clock_hand - (IF prev /\ clock_hand >= i THEN 1 ELSE 0)
                                       - (IF next /\ clock_hand > i THEN 1 ELSE 0)
      /\ call' = Idle
      /\ UNCHANGED <<swap, pgt, mem, tlb, want>>

\* The processor walks the tables for a load or a store.  Of the
\* translations it keeps, those of stores matter: a later store then needs
\* no walk to set the dirty bit.
UserRead(v) ==
  /\ call.pc = "user"
  /\ mapped(pgt, v)
  /\ pgt' = [pgt EXCEPT !.pte[v].accessed = TRUE]
  /\ UNCHANGED <<regions, clock_hand, swap, mem, tlb, call, want>>

UserWrite(v, x) ==
  /\ call.pc = "user"
  /\ mapped(pgt, v)
  /\ pgt' = [pgt EXCEPT !.pte[v].accessed = TRUE, !.pte[v].dirty = TRUE]
  /\ mem' = [mem EXCEPT ![pgt.pte[v].base] = x]
  /\ want' = [want EXCEPT ![v] = x]
  /\ tlb' = IF UseTLB
            THEN {e \in tlb : e[1] # v} \cup {<<v, pgt.pte[v].base>>}
            ELSE tlb
  /\ UNCHANGED <<regions, clock_hand, swap, call>>

\* The processor still has the translation and does not look at the tables.
TlbWrite(v, x) ==
  \E e \in tlb :
    /\ call.pc = "user"
    /\ e[1] = v
    /\ mem' = [mem EXCEPT ![e[2]] = x]
    /\ want' = [want EXCEPT ![v] = x]
    /\ UNCHANGED <<regions, clock_hand, swap, pgt, tlb, call>>

\* Translations disappear when the processor needs their place, and when the
\* process asks for it with INVALIDATE_PAGE.
TlbForget(e) ==
  /\ call.pc = "user"
  /\ tlb' = tlb \ {e}
  /\ UNCHANGED <<regions, clock_hand, swap, pgt, mem, call, want>>

-----------------------------------------------------------------------------
(* petmem_handle_pagefault *)

\* The signal handler passes the address on; outside every allocated region
\* the handler fails and the process dies of the signal.
Fault(v) ==
  /\ call.pc = "user"
  /\ ~mapped(pgt, v)
  /\ \A e \in tlb : e[1] # v
  /\ call' = [Idle EXCEPT !.pc = IF check_address_range(regions, v) THEN "walk" ELSE "killed",
                          !.v = v]
  /\ UNCHANGED <<regions, clock_hand, swap, pgt, mem, tlb, want>>

\* The level of the walk that has to be filled, for the page call.v.
level == IF pgt.pd[pd_of(call.v)] = NONE THEN "pd"
         ELSE IF pgt.pt[pt_of(call.v)] = NONE THEN "pt"
         ELSE IF pgt.pte[call.v].dirty THEN "swapped" ELSE "new"

\* handle_table_memory for a page directory and for a page table: a frame,
\* cleared, whose entries are therefore all absent.
TableOfAnyFrame(f) ==
  /\ level \in {"pd", "pt"}
  /\ pgt' = IF level = "pd"
            THEN [pgt EXCEPT !.pd[pd_of(call.v)] = f]
            ELSE [pgt EXCEPT !.pt[pt_of(call.v)] = f]
fill_table(f) ==
  /\ level \in {"pd", "pt"}
  /\ pgt' = IF level = "pd"
            THEN [pgt EXCEPT !.pd[pd_of(call.v)] = f, !.free = @ \ {f}]
            ELSE [pgt EXCEPT !.pt[pt_of(call.v)] = f, !.free = @ \ {f}]
WalkTable(f) ==
  /\ call.pc = "walk"
  /\ f \in pgt.free
  /\ fill_table(f)
  /\ mem' = [mem EXCEPT ![f] = 0]
  /\ UNCHANGED <<regions, clock_hand, swap, tlb, call, want>>

\* handle_table_memory for the page itself.
WalkPage(f) ==
  /\ call.pc = "walk"
  /\ level = "new"
  /\ f \in pgt.free
  /\ pgt' = [pgt EXCEPT !.pte[call.v].present = TRUE, !.pte[call.v].base = f, !.free = @ \ {f}]
  /\ mem' = [mem EXCEPT ![f] = 0]
  /\ call' = Idle
  /\ UNCHANGED <<regions, clock_hand, swap, tlb, want>>

\* The page was swapped out: it is read into a buffer and its slot freed,
\* before there is a frame for it.
WalkSwapIn ==
  LET in == swap_in_page(swap, pgt.pte[call.v].base)
  IN  /\ call.pc = "walk"
      /\ level = "swapped"
      /\ swap' = [swap EXCEPT !.map = in.map]
      /\ call' = [call EXCEPT !.pc = "swapin", !.buf = in.page]
      /\ UNCHANGED <<regions, clock_hand, pgt, mem, tlb, want>>

map_page(f) ==
  /\ pgt' = [pgt EXCEPT !.pte[call.v].present = TRUE, !.pte[call.v].dirty = FALSE,
                        !.pte[call.v].base = f, !.free = @ \ {f}]
  /\ mem' = [mem EXCEPT ![f] = call.buf]
SwapInMap(f) ==
  /\ call.pc = "swapin"
  /\ f \in pgt.free
  /\ map_page(f)
  /\ call' = Idle
  /\ UNCHANGED <<regions, clock_hand, swap, tlb, want>>

\* list_for_each_safe goes round the ring of the nodes and the list head,
\* from behind the clock hand up to it, again and again: every entry but the
\* one the hand points to.
ring_next(p) == (p + 1) % (Len(regions) + 1)
scan_next(p) == IF ring_next(p) = clock_hand THEN ring_next(clock_hand) ELSE ring_next(p)

\* petmem_alloc_pages has failed: clear_up_memory starts the clock.
StartClock ==
  /\ call.pc = "swapin" \/ (call.pc = "walk" /\ level # "swapped")
  /\ pgt.free = {}
  /\ call' = IF clock_hand = DANGLING
             THEN [call EXCEPT !.pc = "oops"]
             ELSE [call EXCEPT !.pc = "clock", !.ret = call.pc, !.pos = ring_next(clock_hand)]
  /\ UNCHANGED <<regions, clock_hand, swap, pgt, mem, tlb, want>>

\* What clear_up_memory does with the page v the clock has chosen.  The page
\* is written out before buddy_free puts its list entry into the frame; the
\* write succeeds here, Swap has the other case.
EvictDirectly(v) ==
  /\ pgt' = petmem_free_pages([pgt EXCEPT !.pte[v] = zero_entry], pgt.pte[v].base)
  /\ mem' = [mem EXCEPT ![pgt.pte[v].base] = NONE]
  /\ UNCHANGED swap
EvictWithoutFree(v) ==
  LET out == swap_out_page(swap, mem[pgt.pte[v].base], TRUE)
  IN  /\ pgt' = [pgt EXCEPT !.pte[v] = [@ EXCEPT !.present = FALSE, !.dirty = TRUE,
                                                 !.base = out.index]]
      /\ swap' = [map |-> out.map, file |-> out.file]
      /\ UNCHANGED mem
EvictPresent(v) ==
  LET out == swap_out_page(swap, mem[pgt.pte[v].base], TRUE)
  IN  /\ pgt' = [petmem_free_pages(pgt, pgt.pte[v].base) EXCEPT
                   !.pte[v] = [@ EXCEPT !.dirty = TRUE, !.base = out.index]]
      /\ swap' = [map |-> out.map, file |-> out.file]
      /\ mem' = [mem EXCEPT ![pgt.pte[v].base] = NONE]
evict(v) ==
  LET out == swap_out_page(swap, mem[pgt.pte[v].base], TRUE)
  IN  /\ pgt' = [petmem_free_pages(pgt, pgt.pte[v].base) EXCEPT
                   !.pte[v] = [@ EXCEPT !.present = FALSE, !.dirty = TRUE,
                                        !.base = out.index]]
      /\ swap' = [map |-> out.map, file |-> out.file]
      /\ mem' = [mem EXCEPT ![pgt.pte[v].base] = NONE]

\* A page that was used since the clock last came by is passed over once.
SecondChanceAlways(v) == UNCHANGED pgt
second_chance(v) == pgt' = [pgt EXCEPT !.pte[v].accessed = FALSE]

\* One list entry of page_replacement_clock.  Only the first page of a
\* region is looked at; the list head is read as a region, too.
ClockStep(v) ==
  /\ call.pc = "clock"
  /\ IF call.pos = 0 THEN v \in HeadAddrs ELSE v = regions[call.pos].page_addr
  /\ \/ /\ ~mapped(pgt, v)
        /\ call' = [call EXCEPT !.pos = scan_next(call.pos)]
        /\ UNCHANGED <<clock_hand, swap, pgt, mem>>
     \/ /\ mapped(pgt, v) /\ pgt.pte[v].accessed
        /\ second_chance(v)
        /\ call' = [call EXCEPT !.pos = scan_next(call.pos)]
        /\ UNCHANGED <<clock_hand, swap, mem>>
     \/ /\ mapped(pgt, v) /\ ~pgt.pte[v].accessed
        /\ evict(v)
        /\ clock_hand' = ring_next(call.pos)
        /\ call' = [call EXCEPT !.pc = call.ret, !.pos = 0, !.ret = "user"]
  /\ UNCHANGED <<regions, tlb, want>>

\* petmem_release, when the process has ended: every page of every region,
\* free regions too.
Release ==
  /\ call.pc \in {"user", "killed"}
  /\ Frees
  /\ call' = [Idle EXCEPT !.pc = "release", !.pos = 1]
  /\ tlb' = {}
  /\ want' = [v \in VPages |-> NONE]
  /\ clock_hand' = 0
  /\ UNCHANGED <<regions, swap, pgt, mem>>

\* list_del and kfree of a node whose pages are through.
ReleaseNode ==
  /\ call.pc = "release"
  /\ call.i = regions[1].size
  /\ regions' = Tail(regions)
  /\ call' = IF regions' = << >> THEN [Idle EXCEPT !.pc = "closed"] ELSE [call EXCEPT !.i = 0]
  /\ UNCHANGED <<clock_hand, swap, pgt, mem, tlb, want>>

HandlerStep ==
  \/ \E f \in Frames : WalkTable(f) \/ WalkPage(f) \/ SwapInMap(f)
  \/ WalkSwapIn
  \/ StartClock
  \/ \E v \in VPages \cup HeadAddrs : ClockStep(v)

Next ==
  \/ \E n \in Sizes : PetMalloc(n)
  \/ \E v \in VPages : PetFree(v) \/ UserRead(v) \/ Fault(v)
  \/ \E v \in VPages : \E x \in {0, v} : UserWrite(v, x) \/ TlbWrite(v, x)
  \/ \E e \in tlb : TlbForget(e)
  \/ HandlerStep
  \/ FreePage \/ StartFlush \/ FlushPage \/ Coalesce
  \/ Release \/ ReleaseNode

Spec == Init /\ [][Next]_vars

\* A system call that has been entered runs on: nothing in it waits.
FairSpec == Spec /\ WF_vars(HandlerStep)

-----------------------------------------------------------------------------

\* The state has the types of the C declarations; an entry that is present
\* holds a frame, one that is not holds an index.
TypeOK ==
  /\ regions \in Seq(Region)
  /\ clock_hand \in DANGLING .. Len(regions)
  /\ pgt.pd \in [PDs -> Frames \cup {NONE}]
  /\ pgt.pt \in [PTs -> Frames \cup {NONE}]
  /\ \A v \in VPages : pgt.pte[v].base \in IF pgt.pte[v].present THEN Frames ELSE Nat
  /\ pgt.free \subseteq Frames
  /\ mem \in [Frames -> VPages \cup {0, NONE}]
  /\ call.pc \in {"user", "walk", "swapin", "clock", "killed", "oops",
                  "free", "flush", "release", "closed"}

\* The frames in use, as tables and as pages.
table_frames == {pgt.pd[d] : d \in PDs} \cup {pgt.pt[p] : p \in PTs}
Mapped == {v \in VPages : mapped(pgt, v)}

\* A frame has one use: no frame is mapped at two addresses, mapped and a
\* table at once, or free while something points to it, across evictions,
\* swap-ins and frees.
FrameUsedOnce ==
  /\ \A u, v \in Mapped : pgt.pte[u].base = pgt.pte[v].base => u = v
  /\ \A c, d \in PDs : pgt.pd[c] = pgt.pd[d] /\ pgt.pd[c] # NONE => c = d
  /\ \A p, q \in PTs : pgt.pt[p] = pgt.pt[q] /\ pgt.pt[p] # NONE => p = q
  /\ \A d \in PDs, p \in PTs : pgt.pd[d] = pgt.pt[p] => pgt.pd[d] = NONE
  /\ \A v \in Mapped : pgt.pte[v].base \notin table_frames \cup pgt.free
  /\ table_frames \cap pgt.free = {}

\* No frame is lost: it is free, a table, or mapped.  on_demand.c says that
\* freeing a region removes its allocated pages.
NoFrameLost ==
  Frames = pgt.free \cup {pgt.pte[v].base : v \in Mapped} \cup (table_frames \ {NONE})

\* A page can be reached, through the tables or by a translation that the
\* processor has kept, only inside an allocated region: pet_free and the end
\* of the process take every page down and no fault maps one outside.
MappedOnlyWhereAllocated ==
  call.pc \in {"user", "closed"} =>
    \A v \in Mapped \cup {e[1] : e \in tlb} : check_address_range(regions, v)

\* What a load from page v gives once faults have been served: the frame if
\* it is mapped, the swap file if it was evicted, zeros if it is new.
value(v) == IF mapped(pgt, v) THEN mem[pgt.pte[v].base]
            ELSE IF pgt.pte[v].dirty THEN swap.file[pgt.pte[v].base]
            ELSE 0

\* The process reads what it last wrote, however often the page was evicted
\* and brought back: what the test program prints at its end.
PagesKeepValues ==
  call.pc = "user" =>
    \A v \in VPages : want[v] # NONE =>
      /\ value(v) = want[v]
      /\ \A e \in tlb : e[1] = v => mem[e[2]] = want[v]

Swapped == {v \in VPages : ~pgt.pte[v].present /\ pgt.pte[v].dirty}

\* An entry that is not present but dirty is that of a swapped page, and
\* slots and swapped pages correspond one to one: no slot is lost and none is
\* given to two pages.
SlotsExact ==
  call.pc = "user" =>
    /\ \A u, v \in Swapped : pgt.pte[u].base = pgt.pte[v].base => u = v
    /\ {pgt.pte[v].base : v \in Swapped} = {i \in Slots : check_bitmap(swap.map, i) = 1}

\* The clock goes round for ever: no region but the one its hand points to
\* has its first page present, and it looks at no other page.
Spinning ==
  /\ call.pc = "clock"
  /\ \A i \in DOMAIN regions : i # clock_hand => ~mapped(pgt, regions[i].page_addr)

\* Every page fault in an allocated region is served, unless the clock has no
\* page that it would look at: however pages were accessed, and wherever the
\* hand was left, that is the only way for the fault not to return.
FaultServed == call.pc = "walk" ~> call.pc = "user" \/ Spinning
=============================================================================
