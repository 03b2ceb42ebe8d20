# petmem: a verification project

TLA+ models of *petmem*, a Linux kernel module that takes memory away from
Linux, manages it with a buddy allocator and gives it to processes on demand,
with a swap file behind it. The models are checked with TLC on small instances;
the safety properties that hold in the runs are also proved with TLAPS, for every value of
the constants that meets the hypotheses section 4 names.

## 1. The system

| Component | Source | State | Operations |
| --- | --- | --- | --- |
| Buddy allocator | `buddy.c`, `buddy.h` | free lists `avail`, `tag_bits`, a `struct block` header inside every free block | `buddy_init`, `buddy_alloc`, `buddy_free` |
| Pool list | `main.c` | `petmem_pool_list` | `ADD_MEMORY`, `petmem_alloc_pages`, `petmem_free_pages` |
| Virtual address regions | `on_demand.c`, `on_demand.h`, `main.c` | list of `struct vaddr_reg` per process | `LAZY_ALLOC` / `allocate`, `LAZY_FREE` / `free_address`, `check_address_range` |
| Swap space | `swap.c`, `swap.h` | bitmap `alloc_map`, the swap file | `swap_init`, `check_bitmap`, `put_value`, `swap_out_page`, `swap_in_page` |
| Demand paging | `on_demand.c` | page tables, `clock_hand`, contents of frames | `petmem_handle_pagefault`, `handle_table_memory`, `page_replacement_clock`, `clear_up_memory`, `attempt_free_physical_address`, `petmem_deinit_process` |
| Device interface | `main.c`, `petmem.h` | one `struct mem_map` per open file | `petmem_init`, `petmem_exit`, `open`, `release`, the ioctls |
| User library | `user/harness.c` | file descriptor, signal action | `pet_malloc`, `pet_free`, `pet_invlpg`, `segv_handler` |
| Control utility | `user/petmem.c` | bitmap of removable memory blocks, `reg_start` | scan, search, offline, check, put back, retry, give to the module |
| File access | `file_io.c` | none | open, close, read, write, size, `file_mkdir` |
| Page table formats | `pgtables.h` | none | index and address macros |

How they interact. The control utility takes memory blocks away from Linux through sysfs
and gives them to the module, which cuts them into pools. A process calls `pet_malloc`, which reserves addresses and
nothing else. Its first access to a page raises SIGSEGV; the signal handler
passes the address to the `PAGE_FAULT` ioctl; the fault handler walks the page
tables, takes a frame from the pool list for each table that is missing and for
the page, and returns. When the pool has no frame, the clock goes round the
regions of the faulting process, chooses a page, writes it to the swap file,
remembers the slot in the page table entry (not present, dirty) and frees the
frame. A fault on such an entry reads the page back. `pet_free` and the end of
the process take the pages of regions down again.

What is hard here: the state of the buddy allocator is spread over three
structures, one of them inside memory that callers write; the fault handler
runs out of frames in the middle of a walk and calls the clock, which changes
entries, slots and frames while the walk has a page in its hands; entries use
their bits twice (a page's dirty bit, and "this page is in the swap file");
pointers (the clock hand, translations of the processor) outlive what they point
to; sums and shifts are made in types narrower than the addresses; results of file
operations and of the second allocation are not looked at; Linux may refuse what the
utility asks for; processes share the pools and the swap file; and nothing is locked.

What makes each part correct: the buddy allocator never hands memory out twice,
loses none, and refuses only what it does not have; pools partition the memory
that was added and take back what they gave; Linux and petmem never use the same memory; regions tile the address range and
are what processes hold; a page that was put out comes back with its contents;
a frame has one use at a time and returns to the pool; a process reads what it
wrote, whatever other processes do; a fault is eventually served.

## 2. The modules

| Module | Models | Extends / composes |
| --- | --- | --- |
| `BlockAllocator` | what a power-of-two allocator promises | |
| `Buddy` | `buddy.c` | implements `BlockAllocator` |
| `BuddyProofs` | theorems about `Buddy` | `Buddy` |
| `PoolList` | pools in `main.c` | pools abstracted to `BlockAllocator`'s promise for one page |
| `MemOffline` | `user/petmem.c`, `petmem_init`, `petmem_exit` | extends `PoolList`; implements `PoolSpec`, the pools with callers that add no memory twice |
| `MemOfflineProofs` | theorems about `PoolList` and `MemOffline` | `MemOffline` |
| `AddressSpace` | what an address space allocator promises | |
| `Regions` | operations on the region list, as functions | |
| `VSpace` | `LAZY_ALLOC`, `LAZY_FREE` | `Regions`; implements `AddressSpace` |
| `VSpaceProofs` | theorems about `VSpace` | `VSpace`, `MemMapLemmas` |
| `SwapSpace` | operations of `swap.c` and the file access below them, as functions | |
| `MemMapLemmas` | lemmas about the two parts of `struct mem_map`: the region list and the swap space; naturals and the bits of a byte | `Regions`, `SwapSpace` |
| `Swap` | the life of swapped pages | `SwapSpace` |
| `SwapProofs` | theorems about `Swap` | `Swap`, `MemMapLemmas` |
| `Paging` | fault handler, clock, frees, exit | `Regions`, `SwapSpace`; the pool abstracted to a set of free frames |
| `PagingProofs` | theorems about `Paging` | `Paging`, `MemMapLemmas` |
| `Processes` | several processes over one pool and one swap file | `SwapSpace`; a coarser `Paging` for each process |
| `ProcessesProofs` | theorems about `Processes` | `Processes`, `MemMapLemmas` |
| `Mkdir` | `file_mkdir` and `mkdir_recursive` of `file_io.c` | |
| `MkdirProofs` | theorem about `Mkdir` | `Mkdir` |

An `MC` module and `.cfg` files instantiate each specification but `Mkdir`, which has a proof
only. Definitions keep the
names of the C functions and variables where there is one. Every module with a
run also holds a few definitions in CamelCase that its header lists as plausible
mistakes: replacing the definition that follows by one of them must violate the
property `PROJECT.json` names with it.

**Buddy.** Variables `avail`, `tag_bits`, `hdr` (the `order` field of the header
at each address), `held` (what callers own), and the locals `block`, `order`,
`j` with a program counter. `buddy_alloc` is `BuddyAlloc` (entry and fixup),
`AllocTake` (the scan), `AllocTrim` (one turn of the trimming loop),
`AllocReturn`, `AllocNull`; `buddy_free` is `BuddyFree`, `FreeMerge` (one turn),
`FreeInsert`. A failing `BUG_ON` leads to `pc = "BUG"`. Addresses count
minimum-sized blocks. `CallerWrites` overwrites the headers left in a block that
a caller holds, with anything, a valid order included. One call is active at a
time.

**PoolList.** `AddMemory` and `AddPool` (one turn of `ADD_MEMORY`'s loop, which
other processes' calls may interleave with), `AllocPage`, `AllocNull`, `FreePage`, `Unload`. Addresses count pages. Only single pages
are requested, as `on_demand.c` does. `MaxHeld` bounds the pages callers hold.
`PoolSpec` is also a contract: what is added must be new.

**MemOffline.** `util[u]` holds the locals of one process of the utility and a program
counter; `state` is the `state` file of each block. `ScanRemovable` fills the bitmap with
whatever Linux answers; `SearchHole` and `SearchBlock` are a turn of the scan of the
bitmap, `SearchEnd` its end; `OfflineBlock`, `CheckBlock`, `CheckRefused`,
`OnlineBlock` and `Retry` are the turns of the other loops, `Give` opens the device and
calls `PoolList`'s `AddMemory`. Linux may leave any block as it is. `Kill` stands for a
signal and for every `return -1` after a file that could not be opened or read. `driver`
is the module: `petmem_init` undoes two of its steps when they fail and does not look at
the last two, hence "broken". `seen` and `refused` are history variables.

**Regions, VSpace.** The list is a sequence of records with the fields of `struct
vaddr_reg`; addresses count pages. `LazyAlloc` is the whole ioctl (rounding in
`num_pages`, first fit, split); `LazyAllocFails` is the -1 that passes the test
for 0; `LazyFree` frees what the process holds, `LazyFreeStray` some other
address. The neighbour of the outermost nodes is the list head; what
`list_entry` reads there is the constant `HeadStatus`.

**SwapSpace, Swap.** The bitmap is a function from bytes to 0 .. 255, with the
code's shifts and masks as arithmetic. `char_map_page_size` is the size
`swap_init` allocates. Offsets in the file keep their C types: an int when a page is
written (`int_offset`; the kernel refuses a negative one), a u32 when it is read. A write may
fail without anybody looking (`ok`). `Swap` starts from any of the `StaleBytes`, because the
bitmap is read from the start of a file that holds page contents.

**Paging.** `pgt` holds three levels of tables (`pd`, `pt`, `pte`) and the free
frames; the PML4 entry and the PDP table also map the program itself and never
go. `call` is the system call in progress. A fault is `Fault` (signal handler,
ioctl, range check; otherwise the process is killed), `WalkTable`, `WalkPage`,
`WalkSwapIn` (read into the buffer, free the slot), `SwapInMap`; between them
`StartClock` and `ClockStep` (one list entry of `list_for_each_safe`, the list
head read as a region too). `LAZY_FREE` is `PetFree` (the search), `FreePage` (one turn of
the loop that takes pages and empty tables down with `attempt_free_physical_address`),
`StartFlush`, `FlushPage` (one turn of the `invlpg` loop) and `Coalesce` (status and
list); the end of the process is `Release`, `FreePage` and `ReleaseNode` for each node. Addresses are counted in pages;
`va` is `__va` with wrap-around, so that a virtual address given to
`petmem_free_pages` is translated a second time as in the code. `INT_PAGES`
is where `i * 4096` leaves the range of an int. `want` is a history variable:
what the process last wrote. A page of a swap file or frame is one value, `0`
for zeros, otherwise the number of the page it was written through.

**Processes.** `proc[p]` is one process: its private bitmap, its page table entries, the
frame of its tables, and its system call. `Open` reads the bitmap from the shared file (or
gets NULL if there is no file); a fault is `Fault`, `GetFrame`, `ReadIn`; without a
frame `NoFrame`, `Evict` (the clock's choice, the entry's bits, the slot), then the
write, during which others run, `Written` (the frame freed, the index stored) and `Again`
(the second `petmem_alloc_pages`, after whose NULL the process is no longer followed). A process
may be switched between any two actions, and each action makes at most one call of the pool.
Contents, regions and the clock's order are left to `Paging`; the clock here may choose any page of its
process, which includes every choice of the code, and nothing is said of its progress.

**Mkdir.** One call of `file_mkdir`, name by name, in the version for Linux 3.1 and later.
A path is a sequence of names of which the length and printability matter. `kern_path_create`
may fail because the directory exists, because its parent is missing, or for any reason of its
own, and is taken for success in each case, as in the code. `failed` is a history variable: the names
where it had a reason of its own. Nothing in the repository calls `file_mkdir`.

## 3. Runs

Passing runs:

| Run | Shows |
| --- | --- |
| `MCBuddy` | no overlap, no leak, exact tags, full coalescing, no `BUG_ON`; `Buddy` implements `BlockAllocator`, each call returning; the inductive invariant of the proof |
| `MCMemOffline` | every page of a pool is in a block that is offline, whatever Linux refuses and whenever the utility ends; what is found is a run of removable blocks; it gives up only when no window of blocks is left; the retries and `ADD_MEMORY` end; no memory is added twice (`PoolSpec`); pools tile what was added at every turn of the loop; pages return to their pool |
| `MCVSpace` | regions tile the range, no two free neighbours, allocated regions are the live ones, each at an address of its own and with room for the bytes requested; refused only when no hole fits; implements `AddressSpace` |
| `MCSwap` | swapped pages keep contents and slots under any order of operations; no step touches the bit of another slot; the search for a slot stays inside the bitmap; a failed write costs its own page only |
| `MCPaging` | a frame has one use, none is lost, pages keep their values over evictions, slots are exactly the swapped pages; each fault in an allocated region is served, unless the clock has no page to look at (`Spinning`) |
| `MCPagingFree` | after frees and exit no page and no kept translation outside an allocated region |
| `MCProcesses` | no frame has two users or is free while it is being written, and until a process ends none is lost, wherever processes are switched |

Runs that end with a violation, each with a finding in `PROJECT.json` that
quotes the line of the repository the property comes from:

| Run | Property | What the counterexample shows |
| --- | --- | --- |
| `MCSwapFull` | `SwappedPagesIntact` | a full swap space damages the page in slot 0, not only the page that did not fit |
| `MCPagingLeak` | `NoFrameLost` | `pet_free` returns no frame to the pool: it passes a virtual address where a physical one is expected |
| `MCPagingTlb` | `PagesKeepValues` | eviction leaves the translation in the processor |
| `MCProcessesNull` | `NoNullFrame` | another process takes the frame between the free and the second allocation, whose result is not checked: physical page 0 becomes a table or a page |
| `MCProcessesSwap` | `FreeSlotUnused` | the slot of one process's page is free in the bitmap of another, which writes over it |

### Limits of the passing runs

Some properties hold only for the constants their run uses, and the same module
shows what happens elsewhere:

- `MemOffline` with `OneAtATime = FALSE`: two processes of the utility choose the same blocks,
  both find them offline and both add them; `AddsOnlyNewMemory` and `PoolsTile` fail.
- `MemOffline` with `OfflineRemovable = TRUE`: if the kernel calls an offline block
  removable, the next run of the utility adds memory petmem already has, or puts it back online after a
  refusal; `PooledOffline` fails, too. What the first run of the utility does is safe in either case
  (`UtilityFirstRun`).
- `MemOffline`: blocks after a refused one, those of a utility that ended early or found no
  device, and all of petmem's after the module is unloaded stay offline; a later run does not find
  them. No property asks for them.
- `PoolList` with `INT_ORDER = 2`: a pool whose size is the sign bit of an int (2 GB)
  never takes pages back (`main.c:57`); `PagesAccounted` fails.
- `VSpace` with 0 among `Requests`: `pet_malloc(0)` makes a region without pages
  that shares its address with the next allocation; `AllocationsDemarcated` fails.
- `VSpace`, `LazyAllocFails`: a full address space gives the caller the address -1,
  because `allocate` returns -1 and `LAZY_ALLOC` tests for 0.
- `VSpace`, `coalesces_head`: if the byte in front of `struct mem_map` that is read as the
  status of the list head happens to be FREE (11), the head is unlinked and freed. The
  model stops there (hence `CHECK_DEADLOCK FALSE`).
- `Swap` with `SwapPages = 25`: the bitmap is a byte too short, because `swap_init` takes
  the remainder by 3 (`swap.c:26`); `ReadsInsideMap` fails.
- `Swap` with `SwapPages` above `INT_PAGES`: slots beyond 2 GB are written at a negative offset,
  that is not at all, and read back as something else; `SwappedPagesIntact` fails.
- `Mkdir`: the test `> 1` skips names of one character, although its comment says
  "Ignore empty directories" (`file_io.c:65`), the directories below them then have no parent, and
  `file_mkdir` returns 0 for that, as it does for every other error of `kern_path_create`.
  `ZeroMeansCreated` names both exceptions. Without `recurse`, 0 is also returned when the parent is missing.
- `Paging`, the exception in `FaultServed`: the clock looks at the first page of each region only
  (`on_demand.c:130`) and never at the node its hand points to (`on_demand.c:126`). So a region with more
  pages than there are frames makes the handler spin for ever once its first page is out, although the
  others are in memory; so does a single frame for pages, when the page in it is the hand's; and so does a process
  whose tables take the last frame, or which finds every frame in the hands of others. The first two
  happen in `MCPaging`. Only `ADD_MEMORY` beforehand helps: frames of ended processes do not come back.
- `Paging` with `Frees = TRUE`: freeing the only present page of a table drops the table with the
  entries of other regions' swapped pages, because `is_entire_page_free` looks at present bits
  only (`on_demand.c:319`); `PagesKeepValues` fails.
- `Paging` with `Frees = TRUE`: coalescing frees the node the clock hand points to
  (`on_demand.c:357`), and the next eviction starts from freed memory (`call.pc = "oops"`, where the model
  stops). `MCPagingFree` reaches this; no property of a run is about it.
- `Paging` with `Frees = TRUE`: a freed entry keeps its dirty bit and looks like a swapped
  page, and the slots of freed swapped pages stay taken; `SlotsExact` fails.
- `Paging` with `INT_PAGES = 1` and regions of two pages: the loop of `free_address` wraps
  (at 2 GB) and leaves pages mapped; `MappedOnlyWhereAllocated` fails.
- `Buddy`: `buddy.h` says of `tag_bits` that 1 means available. After a merge the bit of the
  absorbed half stays 1, also when the block is allocated later. Nothing reads it:
  `HeadTagsExact` is the relation that holds.

### Bounds and why they are enough

- `MCBuddy`: orders 1 to 3, four units, base 5. Two levels of splitting and
  merging happen, below, at and above the requested order; order 0 exercises the
  fixup; the base is not aligned to the pool's size. The proofs cover the rest.
- `MCMemOffline`: blocks 0, 1, 2 and 4 of three pages, so that runs of two have two places and a
  gap in the numbers none; requests of no, one and two blocks; pools of orders 1, 0 and 2, 1.
  Two processes of the utility, one after the other: the second meets what the first
  left. One page at a time is with a caller. `INT_ORDER` is 5, above every pool.
- `MCVSpace`: six pages, requests of 1, 1, 2 and 3 pages in bytes that do and do
  not fill their last page. Splits with and without remainder, frees with none,
  one and two free neighbours, exhaustion and fragmentation occur.
- `MCSwap`: ten slots over two bytes; stale marks leave three slots free in the first
  byte, so four pages always spill into the second. `MCSwapFull` has fewer slots than
  pages. `INT_PAGES` is `SwapPages`: the last slot has the largest offset that fits.
  `MCSwap` uses the symmetry of the pages.
- `MCProcesses`: two frames are a table and a page, so the first process evicts at once; two more
  come late, so the second one opens the device before or after slot 0 was written, and both are
  short of a frame at the same time, which is what `MCProcessesNull` needs. Bitmaps read from a page say that nothing or all but
  slot 0 is taken.
- `MCPaging`: three pages as one, two or three regions on two page tables of one directory, five
  frames: three tables and two pages. The pool is exhausted in every phase of a
  walk, at a table, at a new page and at a page being swapped in, and a region of three pages has
  more than there are frames.
- `MCPagingFree`: two pages as one region of two or two of one, four frames, which
  frees lose one by one; regions are allocated again over what frees left behind, the clock hand
  dangles, the processor keeps translations, and `HeadAddrs` lets the clock read the
  list head as one of the pages or as nothing mapped.
- `WORD` and `PAGE_OFFSET` are chosen so that `__va` of a frame is above every
  frame and `__va` applied twice wraps, as with the kernel's direct map.
- `SwapPages` is at least the number of pages in the paging runs: the full swap space is
  `Swap`'s subject. `CHECK_DEADLOCK FALSE` in the paging runs: a closed file or an oops
  really is the end. `UseTLB` is FALSE where the subject is not translations; a
  process is then assumed to have none left, which `MCPagingTlb` shows to be needed.

### Fairness

`Buddy` has weak fairness of the steps of a call, `MemOffline` of the loop of `ADD_MEMORY` and
of each process of the utility, `Paging` of the steps of the fault handler: each is
straight code or a loop with nothing to wait for but system calls that return, and one that is
entered runs on. `Processes` has none. No fairness is assumed of requests, of signals, of loading the
module, or of what Linux grants.

## 4. Proofs

Each theorem holds for every value of the constants that satisfies the assumptions of its
module, which TLC evaluates in every run, and the hypotheses below. Where a hypothesis
is needed, the limits in section 3 show what happens without it.

| Module | Proved | Hypotheses |
| --- | --- | --- |
| `BuddyProofs` | `TypeOK`, `NoBug`, `BlocksDisjoint`, `NoLeak`, `HeadTagsExact`, `FullyCoalesced` | |
| | `BuddyRefines`: every step is one of `BlockAllocator` or changes nothing that callers see (`ImplementsAllocator` without its fairness) | |
| `MemOfflineProofs` | `PoolTypeOK`, `PoolsTile` from `PoolSpec` | |
| | `PagesAccounted` from `PoolSpec` | `BelowSign`: no range is so large that a pool has the order of the int's sign bit |
| | `RunRemovable`, `GivesUpOnlyWhenNone` | |
| | `TypeOK`, `PooledOffline`, `AddsOnlyNewMemory`, and with it `PoolsTile` and `PagesAccounted` of the whole | the utility is not run twice at a time (`OneAtATime`); in no step does Linux call a block removable of whose memory the module has some (`NotReoffered`) |
| | `PooledOffline` as long as one process of the utility was started (`UtilityFirstRun`) | |
| `VSpaceProofs` | `TypeOK`, `RegionsTile` | |
| | `NoAdjacentFree`, `AllocatedIsLive`, `AllocationsDemarcated`, `ImplementsAddressSpace`, `RefusesOnlyWhenFull` | `Sensible`: at least a byte is asked for, and rounding it up does not wrap around |
| `SwapProofs` | `TypeOK`, `OneBitAtATime` | there is a slot |
| | `SlotsMarked` | `RoomForAll`: stale marks leave a slot for every page |
| | `SwappedPagesIntact` | `RoomForAll`, and every offset fits an int |
| | `ReadsInsideMap`; for every other size the last slot's byte is the one behind the bitmap (`SwapReadsBehind`) | `MapLargeEnough`: the number of slots is a multiple of 8, or its quotient by 8 none of 3 |
| `ProcessesProofs` | `TypeOK`, `FrameOwnedOnce`, `FramesAccounted` | there is a slot |
| `PagingProofs` | `TypeOK`, `FrameUsedOnce` | there is a slot |
| | `PagingLeaks`: no step but an eviction gives a frame back | there is a slot |
| | `MappedOnlyWhereAllocated` | there is a slot; no request is for more than `INT_PAGES` pages, 2^19 in the code; the range may be larger |
| | `NoFrameLost` | there is a slot; the process frees nothing (`~Frees`) |
| | `SlotsExact` | there is a slot; `~Frees`; the swap file is not full when the clock evicts (`HasRoom`), which follows if it has a slot for every page of the range (`PagingRoom`) |
| | `PagesKeepValues` | the same; no kept translations (`~UseTLB`); offsets in the swap file fit an int |
| `MkdirProofs` | `ZeroMeansCreated` | |

Most of these are not inductive alone; the invariants that are, and the arguments, follow.

**Buddy.** Assumptions: the orders are naturals with the minimum at most the pool's,
callers ask for orders up to the pool's (the `BUG_ON` at the top of both
functions), the base is positive, the value of a header without an order is no
order, that of no request no order either, and the law of exponents for powers of two up to the pool's order
(`PowersOfTwo`), which the provers do not have. Whether a merge keeps
blocks disjoint depends on the merge condition finding a *free block of the same
order*, but what the code reads is one tag bit and one header field at an address
obtained by exclusive-or. So the invariant `IInv` adds `Aligned` (a block starts
at a multiple of its size from the base) and says that the tag of a block's
first unit and the header of a free block are right, and that the block in
`AllocTrim`'s hands is not tagged. Then:

1. arithmetic: sizes are powers of two, so of two aligned blocks one contains
   the other or they are disjoint, and `find_buddy` gives the other half of the
   aligned block of the next order;
2. the blocks (held, free, in flight) tile the pool; in a tiling, the address of
   a block's buddy is always the *first* unit of some block of at most its order
   (`HeadAtBuddy`). So the stale tag bits and overwritten headers inside blocks are never
   read, and the merge condition holds exactly if the buddy is a free block of
   that order (`MergeFindsFree`);
3. splitting a block into halves and joining two halves keep a tiling a tiling;
4. each action changes the blocks by one of these, or moves one between the three sets;
5. refinement: a grant overlaps nothing held because the blocks tile the pool. A refusal is
   right because of `FullyCoalesced` (`NoRoom`): if an aligned block of the order asked for were
   wholly free although the lists from that order on are empty, only smaller free blocks would lie in it, and the
   buddy of the smallest would be one of them and of the same order.

**Pools.** `PoolInv` adds to `PoolsTile` that callers hold pages of pools only. `fls` gives a power of two that is at most what is left (`Order`, from
`PowersOfTwo`), so a turn of the loop cuts `Remaining` in two parts, one of which is the
new pool. Since pools do not overlap, the first pool that contains a page that is freed is
the one it came from; `HeldInv` says that every pool is one whose pages `contains` recognises.

**Control utility.** `UtilInv` holds the reason why the `reg_start` that is not reset does
no harm: no run of enough candidates starts before it (`NoRun`), because the bitmap
only ever loses candidates, so if the search finds a run before the first hole, `reg_start` is 0.
`Searching` is the loop invariant of the search. `ApartInv` says that everything that was added
lies in offline blocks, that these are not among those a running process was told are removable and so
are no candidates, hence never put back online nor added again, and that what the check has seen
stays offline as nobody else writes to the state files. Its second part is kept by a scan because of
`NotReoffered`, which holds by itself if Linux calls no offline block removable and otherwise is up to Linux:
nothing in the program sees to it. Before a second process is started nothing was added when the
only scan was made, so `UtilityFirstRun` needs no hypothesis.

**Address space.** The proofs rest on lemmas on what `allocate` and `free_address` make of a
list: a node gets a new status (`Marked`), two nodes become one (`Merged`), one becomes
two (`Split`); each keeps a tiled list tiled, and each says which pairs of neighbours may
be both free in between (`Quiet`). With regions of at least a page (`Positive`, where
`Sensible` is needed) starts are distinct, so `free_address` finds the region that is meant. A free
region has allocated or no neighbours, so a hole that is large enough lies in a single
free region, which first fit does not miss.

**Swap.** `IInv` adds to `SlotsMarked` that there are at least as many free slots as pages in
memory (`RoomLeft`), so the search always finds one; `Contents` says what is in the file. The
lemmas in `MemMapLemmas` reduce the masks and shifts to one bit of one byte.

**Processes.** `FrameInv` says that what processes use (tables, mappings, a frame being
written) and the free frames are disjoint; each step keeps these uses, takes a free frame or returns
one (`StepKinds`). `AccountInv` adds that these and the late ones are all frames until a process ends.

**Paging.** Four invariants, each on top of the one before.

1. `PagingInv`, for every process. The list is `Tiled` until the end of the process takes it
   apart, and the tables are `Sound`: entries hold a frame or a slot (`Filled`), a present entry is
   in a table that is there (`Nested`), and `FrameUsedOnce` holds of all entries, not only of
   those the walk reaches (`Exclusive`): an entry that cannot be reached now can be when the
   next fault fills the table above it. Why frees cannot break this is also why they leak:
   `__va` applied to a virtual address leaves the pool, so `petmem_free_pages` finds no frame
   (`FreesNoFrame`); applied to the physical address an eviction passes, it finds exactly that
   one (`FreesTheFrame`). `CallInv` says that the page that faulted is not present, so the
   clock never evicts it in the middle of its own fault.
2. `ReachInv`, for `MappedOnlyWhereAllocated`. During a free or the end of the process
   only pages ahead of the loop (`ahead`) or of other allocated regions (`other`) are mapped, and in
   the second loop likewise for translations. That the turns of the loop visit every page of an
   allocated region is where its size must fit an int's offset, and that size was asked for
   (`Sized`). A free region can be larger and is walked with offsets that wrap, but nothing in
   it is mapped.
3. `Keeping` and `AllUsed`, for a process that frees nothing: the calls that take mappings
   down do not run, and every frame is in an entry or free.
4. `SlotInv` and `ValueInv`. The page being brought back is swapped to look at (not present,
   dirty) but has no slot any more, and an eviction in the same fault may take that
   slot at once. `Out`, the swapped pages without that one, is what the slots correspond to, and the
   buffer holds its content meanwhile. An eviction finds a slot by `HasRoom`; with a slot for every page of
   the range it does because the slots of `Out` are distinct and the evicted page is not in `Out`
   (`RoomToEvict`, by counting). An eviction and a store write to a frame or slot no other page has.

**Mkdir.** `MkdirInv`: the directories of all names the loop has passed exist, unless one before them was
lost, and it stops at names it does not skip. So if nothing was lost the parent of the next one exists, and if
`kern_path_create` fails without a reason of its own it is because the directory is there, too.

The invariants of the last two were checked with TLC on small instances first, that of
`Buddy` is checked by its run.

Only model-checked: termination and progress (the fairness of `ImplementsAllocator`,
`UtilityEnds`, `FaultServed`), which are out of the prover's reach.
`BuddyProofs` and `MemOfflineProofs` each state for themselves that a set of naturals has a least
element, so that they do not depend on the constants of `MemMapLemmas`.

## 5. Not modelled

- Two processors inside one pool, region list or bitmap at once: nothing is locked, and
  every statement of `buddy.c` would have to be a step. `Processes` has a switch
  between any two calls of the pool.
- Several threads of one process, and a device file shared by `fork`.
- Failed and short reads of the swap file (`file_io.c:207`), whose result nobody looks at, and the
  -1 of `file_size` (`file_io.c:188`), which `swap_init` would turn into a huge number of pages.
- The NULL that `ADD_MEMORY` expects of `buddy_init`: it is returned only if the pool is smaller than
  its smallest block, which the loop never asks for; a `kmalloc` that fails there is not noticed.
- What the process does with physical page 0 after `NoNullFrame` is violated.
- Failing `copy_from_user` and `copy_to_user`, and the `kmalloc`s in `on_demand.c` and
  `swap.c`, none of which is checked; debugging output; `petmem_dump_vspace` (empty),
  `buddy_dump_mempool`, `buddy_deinit` (never called), `RELEASE_MEMORY` (unhandled by the
  code); `file_mkdir` for Linux before 3.1; set-up of the signal handler.
- The page table formats of `pgtables.h` that nothing uses. The PML4 entry: its pointer is advanced by
  eight times its index in entries, not bytes (`on_demand.c:99`, `172`), which is harmless
  because the index of the petmem range is 0.
- Permission faults: every page of the range is writable and the process's own.
- What a list head read as a region may name outside the petmem range.
- `petmem_release` runs with the page tables of the process still loaded.
- Build files, `petmem.mod.c` (generated) and `reinsert.sh`: no state of their own.

## 6. Plan

The components are modelled and the safety properties proved. Left over are the cases of
section 5. A first extension would be the frames of several processes with the full `Paging`
for each instead of the coarser tables of `Processes`.
