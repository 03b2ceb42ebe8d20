------------------------------ MODULE Processes -----------------------------
(***************************************************************************)
(* Several processes with the device open.  Each has its own tables and    *)
(* its own copy of the swap file's bitmap, taken when it opened the        *)
(* device; the pool of frames and the swap file are common to all, and no  *)
(* lock guards them.  A process may be switched between any two actions.   *)
(* An action ends where the handler sleeps or calls petmem_alloc_pages or  *)
(* petmem_free_pages, each of which is a single step.                      *)
(*                                                                         *)
(* Paging has the page tables, the clock and the contents of pages in      *)
(* detail.  Here the tables above a page's entry are one frame and         *)
(* contents are left out.  The clock may choose any page of its process    *)
(* and may also go round for ever: more than the code can do, so that what *)
(* holds here holds of the code's choices, but nothing can be said here of *)
(* its progress.                                                           *)
(*                                                                         *)
(* FreeBeforeWrite, FreedNothing and IndexForgotten are plausible mistakes *)
(* that the properties must detect, not part of the specification.         *)
(***************************************************************************)
EXTENDS SwapSpace

CONSTANTS
  Procs,         (* the processes, each of which opens the device once   *)
  Pages,         (* the pages each has allocated, not 0                  *)
  Frames,        (* the frames of the pools, positive numbers            *)
  LateFrames,    (* those of them that are added later                   *)
  StaleBytes,    (* what the first bytes of a page may be                *)
  NONE           (* no frame, no page, no swap space                     *)

ASSUME ProcessesAssumption ==
  /\ Pages \cup Frames \subseteq Nat \ {0}
  /\ LateFrames \subseteq Frames
  /\ StaleBytes \subseteq 0 .. 255
  /\ NONE \notin Nat

VARIABLES
  free,          (* the frames petmem_alloc_pages can give               *)
  late,          (* the frames that are still to be added                *)
  file,          (* the swap file: whose page is in each slot            *)
  proc           (* each process: its swap map, tables and system call   *)

vars == <<free, late, file, proc>>

-----------------------------------------------------------------------------

Bytes == 0 .. byte_location(SwapPages - 1)
zero_entry == [present |-> FALSE, dirty |-> FALSE, base |-> 0]
NULL == 0

not_open == [pc |-> "out", map |-> NONE, pte |-> [v \in Pages |-> zero_entry],
             table |-> NONE, v |-> NONE, victim |-> NONE, slot |-> NONE, ret |-> "user"]

Init ==
  /\ free = Frames \ LateFrames
  /\ late = LateFrames
  /\ file = [i \in Slots |-> NONE]
  /\ proc = [p \in Procs |-> not_open]

\* petmem_open.  The bitmap is read from the file's first bytes, which are
\* those of slot 0.  If the file cannot be opened swap_init returns NULL,
\* and petmem_init_process does not look.
Open(p) ==
  /\ proc[p].pc = "out"
  /\ \E map \in {NONE} \cup [Bytes -> IF file[0] = NONE THEN {0} ELSE StaleBytes] :
       proc' = [proc EXCEPT ![p].pc = "user", ![p].map = map]
  /\ UNCHANGED <<free, late, file>>

Fault(p, v) ==
  /\ proc[p].pc = "user"
  /\ ~proc[p].pte[v].present
  /\ proc' = [proc EXCEPT ![p].pc = "walk", ![p].v = v]
  /\ UNCHANGED <<free, late, file>>

\* What the walk has to fill next: a table, or the page's entry.
needs_table(w) == w.table = NONE
swapped(w) == ~needs_table(w) /\ w.pte[w.v].dirty /\ w.pc = "walk"

\* The frame f is put where the walk needs it.
place(w, f) ==
  IF needs_table(w)
  THEN [w EXCEPT !.table = f, !.pc = "walk"]
  ELSE [w EXCEPT !.pte[w.v] = [present |-> TRUE, dirty |-> FALSE, base |-> f],
                 !.pc = "user", !.v = NONE]

\* swap_in_page, while others run.
ReadIn(p) ==
  /\ proc[p].pc = "walk"
  /\ swapped(proc[p])
  /\ proc' = [proc EXCEPT ![p].pc = "swapin",
                          ![p].map = put_value(@, proc[p].pte[proc[p].v].base, 0)]
  /\ UNCHANGED <<free, late, file>>

\* petmem_alloc_pages.  Frames differ in nothing, so that which one the pool
\* gives does not matter: here it is the lowest.
petmem_alloc_pages == IF free = {} THEN NULL ELSE Min(free)

\* It finds a frame.
GetFrame(p) ==
  /\ proc[p].pc \in {"walk", "swapin"} /\ ~swapped(proc[p])
  /\ petmem_alloc_pages # NULL
  /\ free' = free \ {petmem_alloc_pages}
  /\ proc' = [proc EXCEPT ![p] = place(@, petmem_alloc_pages)]
  /\ UNCHANGED <<late, file>>

\* It finds none: clear_up_memory.
NoFrame(p) ==
  /\ proc[p].pc \in {"walk", "swapin"} /\ ~swapped(proc[p])
  /\ petmem_alloc_pages = NULL
  /\ proc' = [proc EXCEPT ![p].pc = "clock", ![p].ret = proc[p].pc]
  /\ UNCHANGED <<free, late, file>>

\* The pages the clock may choose from: those that are present.  The code
\* looks at some of them only, see Paging.
evictable(w) == {v \in Pages : w.pte[v].present}

\* clear_up_memory up to the call of file_write: the entry of page v is
\* absent, and swap_out_page has taken a slot.  With a full bitmap there is
\* none and index stays 0; without a swap space this is the end.
start_write(w, v) ==
  LET out == [w EXCEPT !.pte[v].present = FALSE, !.pte[v].dirty = TRUE, !.victim = v]
      slots == free_slots(w.map)
  IN  IF w.map = NONE THEN [out EXCEPT !.pc = "dead"]
      ELSE IF slots = {} THEN [out EXCEPT !.pc = "write"]
      ELSE [out EXCEPT !.pc = "write", !.slot = Min(slots), !.map = put_value(@, Min(slots), 1)]
FreeBeforeWrite(p, v) ==
  /\ proc[p].pc = "clock"
  /\ v \in evictable(proc[p])
  /\ proc' = [proc EXCEPT ![p] = start_write(@, v)]
  /\ free' = free \cup {proc[p].pte[v].base}
  /\ UNCHANGED <<late, file>>
Evict(p, v) ==
  /\ proc[p].pc = "clock"
  /\ v \in evictable(proc[p])
  /\ proc' = [proc EXCEPT ![p] = start_write(@, v)]
  /\ UNCHANGED <<free, late, file>>

\* file_write has returned: the frame is freed, the entry gets the index.
FreedNothing(w) == {}
freed(w) == {w.pte[w.victim].base}
IndexForgotten(w) == [w EXCEPT !.pc = "again", !.victim = NONE, !.slot = NONE]
end_write(w) ==
  [w EXCEPT !.pc = "again", !.victim = NONE, !.slot = NONE,
            !.pte[w.victim].base = IF w.slot = NONE THEN 0 ELSE w.slot]
Written(p) ==
  LET w == proc[p]
  IN  /\ proc[p].pc = "write"
      /\ file' = IF w.slot = NONE THEN file
                 ELSE file_write(file, <<p, w.victim>>, int_offset(w.slot), TRUE)
      /\ free' = free \cup freed(w)
      /\ proc' = [proc EXCEPT ![p] = end_write(w)]
      /\ UNCHANGED late

\* The second petmem_alloc_pages, whose result is not looked at.  If it is
\* NULL, physical page 0 is cleared and becomes a table or a page of the
\* process.  What it does to the machine from there on is not followed.
Again(p) ==
  /\ proc[p].pc = "again"
  /\ free' = free \ {petmem_alloc_pages}
  /\ proc' = [proc EXCEPT ![p] =
                IF petmem_alloc_pages = NULL THEN [@ EXCEPT !.pc = "null"]
                ELSE place([@ EXCEPT !.pc = proc[p].ret, !.ret = "user"], petmem_alloc_pages)]
  /\ UNCHANGED <<late, file>>

\* petmem_release: swap_free, then the pages, none of which comes back to
\* the pool, being freed by virtual addresses.  Without a swap space
\* swap_free is the end.
Close(p) ==
  /\ proc[p].pc = "user"
  /\ proc' = [proc EXCEPT ![p] = IF @.map = NONE THEN [@ EXCEPT !.pc = "dead"]
                                 ELSE [not_open EXCEPT !.pc = "closed"]]
  /\ UNCHANGED <<free, late, file>>

\* ADD_MEMORY.
AddMemory ==
  /\ late # {}
  /\ free' = free \cup late
  /\ late' = {}
  /\ UNCHANGED <<file, proc>>

Handler(p) ==
  \/ ReadIn(p) \/ GetFrame(p) \/ NoFrame(p)
  \/ \E v \in Pages : Evict(p, v)
  \/ Written(p) \/ Again(p)

Next ==
  \/ \E p \in Procs : Open(p) \/ Close(p) \/ Handler(p)
  \/ \E p \in Procs, v \in Pages : Fault(p, v)
  \/ AddMemory

Spec == Init /\ [][Next]_vars

-----------------------------------------------------------------------------

\* An entry that is present holds a frame, as does that of a page that is
\* being written; any other holds the index of a slot.
TypeOK ==
  /\ free \subseteq Frames
  /\ \A p \in Procs :
       /\ proc[p].table \in Frames \cup {NONE}
       /\ \A v \in Pages :
            proc[p].pte[v].base \in IF proc[p].pte[v].present \/ proc[p].victim = v
                                   THEN Frames ELSE Slots

\* Who uses which frame: <<process, page, frame>>, page 0 for the table.
\* The frame of a page that is being written is still in use.
uses(p) ==
  {<<p, v, proc[p].pte[v].base>> :
      v \in {x \in Pages : proc[p].pte[x].present \/ proc[p].victim = x}}
  \cup {<<p, 0, f>> : f \in {proc[p].table} \ {NONE}}

Uses == UNION {uses(p) : p \in Procs}

\* No frame has two users, in one process or in two, and none is free while
\* it is in use or being written to the swap file, though processes allocate
\* and free while another one is in the middle of a page fault.
FrameOwnedOnce ==
  \A a, b \in Uses : (a[3] = b[3] => a = b) /\ a[3] \notin free

\* Until a process ends, no frame is lost between the pool and the processes:
\* whoever is switched in the middle of an eviction, has no swap space or
\* finds its frame taken, a frame that is not free is still somebody's.
FramesAccounted ==
  (\A p \in Procs : proc[p].pc # "closed") =>
    Frames \subseteq free \cup late \cup {a[3] : a \in Uses}

\* handle_table_memory "checks to see if buddy swap returns 0 or not": no
\* process goes on with physical page 0 as one of its tables or pages.
NoNullFrame == \A p \in Procs : proc[p].pc # "null"

\* check_bitmap "Returns 0 if the space is free": no process has a page in a
\* slot that is free for another.
FreeSlotUnused ==
  \A p, q \in Procs : \A v \in Pages :
    proc[p].map # NONE /\ proc[q].pte[v].dirty /\ proc[q].victim # v /\ proc[q].pc = "user"
      => check_bitmap(proc[p].map, proc[q].pte[v].base) = 1
=============================================================================
