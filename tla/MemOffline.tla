----------------------------- MODULE MemOffline -----------------------------
(***************************************************************************)
(* Where the pools' memory comes from: the control utility user/petmem.c   *)
(* looks for consecutive memory blocks that Linux can do without, takes    *)
(* them offline through sysfs, checks that Linux obeyed, starts again if   *)
(* it did not, and gives the blocks to the module with ADD_MEMORY.  The    *)
(* module is loaded and unloaded by petmem_init and petmem_exit.           *)
(*                                                                         *)
(* This composes the utility with PoolList: its ADD_MEMORY is that of      *)
(* PoolList, whose pages other processes allocate and free meanwhile.      *)
(* Blocks have numbers, sizes count pages.  A process of the utility is    *)
(* run once; it may end between any two of its writes.                     *)
(*                                                                         *)
(* StartAtHole, SearchAllButLast, GiveOneMore, CheckNothing and            *)
(* ForgetRefused are plausible mistakes that the properties must detect,   *)
(* not part of the specification.                                          *)
(***************************************************************************)
EXTENDS PoolList

CONSTANTS
  Utilities,        (* the processes that run user/petmem.c              *)
  Blocks,           (* the numbers of the memory blocks in sysfs         *)
  BlockPages,       (* block_size_bytes, in pages                        *)
  Sizes,            (* the sizes users ask for, in pages                 *)
  OneAtATime,       (* TRUE if no two processes of the utility overlap   *)
  OfflineRemovable  (* TRUE if sysfs may call an offline block removable *)

ASSUME BlocksAssumption ==
  /\ Blocks \subseteq Nat
  /\ \E last \in Blocks : \A b \in Blocks : b =< last
  /\ BlockPages \in Nat \ {0}
  /\ Sizes \subseteq Nat
  /\ OneAtATime \in BOOLEAN /\ OfflineRemovable \in BOOLEAN

VARIABLES
  state,            (* of each block in sysfs: "online" or "offline"     *)
  util,             (* the local variables of each process               *)
  driver            (* the module: "out", "live", or loaded but "broken" *)

vars == <<pool_vars, state, util, driver>>

-----------------------------------------------------------------------------

\* The highest number plus one; namelist is sorted with dir_cmp.
bitmap_entries == Max(Blocks) + 1

num_blocks(size) == size \div BlockPages + (IF size % BlockPages # 0 THEN 1 ELSE 0)

\* ADD_MEMORY may be given every run of blocks that the utility may find.
ASSUME RunsAssumption ==
  \A b \in 0 .. bitmap_entries, size \in Sizes :
    <<b * BlockPages, num_blocks(size) * BlockPages>> \in Ranges

\* The blocks whose "removable" is read: the loop ends with the last block,
\* and is not entered if that is block 0.
scanned == IF bitmap_entries > 1 THEN Blocks ELSE {}

\* The search goes over all entries.
SearchAllButLast(i) == i < bitmap_entries - 1
more_entries(i) == i < bitmap_entries

\* Where a run starts if block i is not in it: reg_start.
StartAtHole(i) == i
after_hole(i) == i + 1

\* The blocks of the run that was found.
run_blocks(w) == w.reg_start .. w.reg_start + w.n - 1

\* The range for ADD_MEMORY.
GiveOneMore(w) == <<w.reg_start * BlockPages, (w.n + 1) * BlockPages>>
given(w) == <<w.reg_start * BlockPages, w.n * BlockPages>>

\* A process that has not started, or is at its end.
not_started == [pc |-> "none", n |-> 0, bitmap |-> {}, reg_start |-> 0, run_len |-> 0,
                i |-> 0, j |-> 0, seen |-> {}, refused |-> {}]
ended(how) == [not_started EXCEPT !.pc = how]
Active(u) == util[u].pc \notin {"none", "failed", "done", "killed", "nodevice"}

-----------------------------------------------------------------------------

Init ==
  /\ PoolInit
  /\ state = [b \in Blocks |-> "online"]
  /\ util = [u \in Utilities |-> not_started]
  /\ driver = "out"

\* petmem_init.  If the class or the numbers cannot be had, all is undone;
\* cdev_add and device_create are not asked whether they failed.
ModuleInit ==
  /\ driver = "out"
  /\ driver' \in {"out", "live", "broken"}
  /\ UNCHANGED <<pool_vars, state, util>>

\* petmem_exit, which the kernel allows while no file is open.
ModuleExit ==
  /\ driver # "out"
  /\ \A u \in Utilities : util[u].pc # "adding"
  /\ driver' = "out"
  /\ Unload
  /\ UNCHANGED <<state, util>>

-----------------------------------------------------------------------------
(* main of user/petmem.c *)

Start(u, size) ==
  /\ util[u].pc = "none"
  /\ OneAtATime => \A w \in Utilities : ~Active(w)
  /\ util' = [util EXCEPT ![u].pc = "scan", ![u].n = num_blocks(size)]
  /\ UNCHANGED <<pool_vars, state, driver>>

\* The bitmap of removable blocks, whose state the utility does not look at.
\* Linux answers as it likes for a block that it uses, and for one that is
\* offline if OfflineRemovable.
ScanRemovable(u) ==
  \E bitmap \in SUBSET {b \in scanned : state[b] = "online" \/ OfflineRemovable} :
    /\ util[u].pc = "scan"
    /\ util' = [util EXCEPT ![u].pc = "search", ![u].bitmap = bitmap, ![u].seen = bitmap]
    /\ UNCHANGED <<pool_vars, state, driver>>

\* One turn of the search for consecutive blocks, at a block that is no
\* candidate.
SearchHole(u) ==
  LET w == util[u]
  IN  /\ w.pc = "search"
      /\ more_entries(w.i)
      /\ w.i \notin w.bitmap
      /\ util' = [util EXCEPT ![u].reg_start = after_hole(w.i), ![u].run_len = 0, ![u].i = @ + 1]
      /\ UNCHANGED <<pool_vars, state, driver>>

\* One turn at a candidate.  reg_start is only set behind a hole: at the start
\* of a search it is still what the last one left.
SearchBlock(u) ==
  LET w == util[u]
      found == w.run_len + 1 >= w.n
  IN  /\ w.pc = "search"
      /\ more_entries(w.i)
      /\ w.i \in w.bitmap
      /\ util' = [util EXCEPT ![u].run_len = @ + 1, ![u].i = IF found THEN 0 ELSE @ + 1,
                              ![u].pc = IF found THEN "offline" ELSE @]
      /\ UNCHANGED <<pool_vars, state, driver>>

\* The end of the bitmap is the end of the program, unless no block was asked
\* for.
SearchEnd(u) ==
  LET w == util[u]
  IN  /\ w.pc = "search"
      /\ ~more_entries(w.i)
      /\ util' = [util EXCEPT ![u].pc = IF w.run_len < w.n THEN "failed" ELSE "offline",
                              ![u].i = 0]
      /\ UNCHANGED <<pool_vars, state, driver>>

\* "offline" is written to the state of one block; Linux may refuse.
OfflineBlock(u) ==
  LET b == util[u].reg_start + util[u].i
  IN  /\ util[u].pc = "offline"
      /\ util[u].i < util[u].n
      /\ state' \in {state, [state EXCEPT ![b] = "offline"]}
      /\ util' = [util EXCEPT ![u].i = @ + 1]
      /\ UNCHANGED <<pool_vars, driver>>

OfflineEnd(u) ==
  /\ util[u].pc = "offline"
  /\ util[u].i = util[u].n
  /\ util' = [util EXCEPT ![u].pc = "check", ![u].i = 0]
  /\ UNCHANGED <<pool_vars, state, driver>>

\* The state of block i is read back.
CheckNothing(u) == TRUE
is_offline(u) == state[util[u].reg_start + util[u].i] = "offline"

CheckBlock(u) ==
  /\ util[u].pc = "check"
  /\ util[u].i < util[u].n
  /\ is_offline(u)
  /\ util' = [util EXCEPT ![u].i = @ + 1]
  /\ UNCHANGED <<pool_vars, state, driver>>

\* Linux did not obey: the block is no candidate any more.
ForgetRefused(bitmap, b) == bitmap
mark_refused(bitmap, b) == bitmap \ {b}
CheckRefused(u) ==
  LET b == util[u].reg_start + util[u].i
  IN  /\ util[u].pc = "check"
      /\ util[u].i < util[u].n
      /\ ~is_offline(u)
      /\ util' = [util EXCEPT ![u].pc = "online", ![u].bitmap = mark_refused(@, b),
                              ![u].refused = @ \cup {b}, ![u].j = 0]
      /\ UNCHANGED <<pool_vars, state, driver>>

\* The blocks before the refused one, not those after it, go online again if
\* Linux takes them, and the search starts anew.
OnlineBlock(u) ==
  /\ util[u].pc = "online"
  /\ util[u].j < util[u].i
  /\ state' \in {state, [state EXCEPT ![util[u].reg_start + util[u].j] = "online"]}
  /\ util' = [util EXCEPT ![u].j = @ + 1]
  /\ UNCHANGED <<pool_vars, driver>>

Retry(u) ==
  /\ util[u].pc = "online"
  /\ util[u].j = util[u].i
  /\ util' = [util EXCEPT ![u].pc = "search", ![u].i = 0, ![u].run_len = 0]
  /\ UNCHANGED <<pool_vars, state, driver>>

\* mem_ready: the device is opened and the blocks go to the module, if there
\* is one.
Give(u) ==
  /\ util[u].pc = "check"
  /\ util[u].i = util[u].n
  /\ IF driver = "live"
     THEN AddMemory(given(util[u])) /\ util' = [util EXCEPT ![u].pc = "adding"]
     ELSE util' = [util EXCEPT ![u] = ended("nodevice")] /\ UNCHANGED pool_vars
  /\ UNCHANGED <<state, driver>>

\* The ioctl returns.
Done(u) ==
  /\ util[u].pc = "adding"
  /\ adding.num_pages = 0
  /\ util' = [util EXCEPT ![u] = ended("done")]
  /\ UNCHANGED <<pool_vars, state, driver>>

\* A signal, or a file of sysfs that cannot be opened or read, ends the
\* process, unless it is inside the module's loop.
Kill(u) ==
  /\ Active(u)
  /\ util[u].pc # "adding"
  /\ util' = [util EXCEPT ![u] = ended("killed")]
  /\ UNCHANGED <<pool_vars, state, driver>>

UtilityStep(u) ==
  \/ ScanRemovable(u) \/ SearchHole(u) \/ SearchBlock(u) \/ SearchEnd(u)
  \/ OfflineBlock(u) \/ OfflineEnd(u)
  \/ CheckBlock(u) \/ CheckRefused(u)
  \/ OnlineBlock(u) \/ Retry(u)
  \/ Give(u) \/ Done(u)

PoolStep ==
  /\ AddPool \/ AllocPage \/ AllocNull \/ \E page \in held : FreePage(page)
  /\ UNCHANGED <<state, util, driver>>

Next ==
  \/ \E u \in Utilities, size \in Sizes : Start(u, size)
  \/ \E u \in Utilities : UtilityStep(u) \/ Kill(u)
  \/ PoolStep
  \/ ModuleInit
  \/ ModuleExit

Spec == Init /\ [][Next]_vars

\* The utility waits for nothing but its own system calls, and the loop of
\* ADD_MEMORY for nothing at all.
FairSpec ==
  /\ Spec
  /\ \A u \in Utilities : WF_vars(UtilityStep(u))
  /\ WF_vars(AddPool /\ UNCHANGED <<state, util, driver>>)

-----------------------------------------------------------------------------

\* The state of the pools, the blocks and the utility's variables.
TypeOK ==
  /\ PoolTypeOK
  /\ state \in [Blocks -> {"online", "offline"}]
  /\ \A u \in Utilities : /\ util[u].bitmap \subseteq Blocks
                         /\ util[u].reg_start \in 0 .. bitmap_entries
                         /\ util[u].run_len \in 0 .. bitmap_entries
                         /\ util[u].i \in 0 .. IF util[u].pc = "search" THEN bitmap_entries
                                               ELSE util[u].n

\* What the search has found is a run of candidates inside sysfs, though
\* reg_start is not reset when the search starts again.
RunRemovable ==
  \A u \in Utilities :
    util[u].pc \in {"offline", "check"} => run_blocks(util[u]) \subseteq util[u].bitmap

\* Linux and petmem never use the same memory: every page of a pool is in a
\* block that is offline, whatever Linux refused, whatever was put back
\* online and whoever was killed.
PooledOffline ==
  \A i \in DOMAIN pools : \A page \in pages_of(pools[i]) :
    state[page \div BlockPages] = "offline"

\* The utility gives up only if there is no place for the request: every
\* window of n blocks has one that was not removable or that Linux refused.
GivesUpOnlyWhenNone ==
  \A u \in Utilities : util[u].pc = "failed" =>
    \A b \in Blocks : ~(b .. b + util[u].n - 1 \subseteq util[u].seen \ util[u].refused)

\* The retry loop ends, with memory or without, and so does the loop of
\* ADD_MEMORY, whatever Linux refuses and other processes allocate meanwhile.
UtilityEnds == \A u \in Utilities : util[u].pc = "scan" ~> ~Active(u)

\* The utility keeps the contract of ADD_MEMORY: what it adds is in no pool,
\* in the runs of the utility that come later, too.
AddsOnlyNewMemory == PoolSpec
=============================================================================
