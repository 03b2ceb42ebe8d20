-------------------------------- MODULE Swap --------------------------------
(***************************************************************************)
(* The swap space as the on-demand pager uses it: pages are put out, the   *)
(* index they were given is remembered in their page table entry, and with *)
(* that index they are read back.                                          *)
(***************************************************************************)
EXTENDS SwapSpace

CONSTANTS
  Pages,         (* the pages of the process, each its own content       *)
  StaleBytes,    (* what the first bytes of the swap file may hold       *)
  NOWHERE        (* in memory, not in the swap file                      *)

ASSUME ContentAssumption == StaleBytes \subseteq 0 .. 255 /\ NOWHERE \notin Nat

VARIABLES
  swap,          (* the swap space: bitmap and file                      *)
  at,            (* where each page is: an index, or NOWHERE             *)
  lost           (* the pages that had no slot or could not be written   *)

vars == <<swap, at, lost>>

\* The bytes the bits of all slots are in, allocated or not.
Bytes == 0 .. byte_location(SwapPages - 1)

\* swap_init reads the bitmap from the start of the file, where slot 0 is.
Init ==
  /\ swap \in [map : [Bytes -> StaleBytes], file : {[i \in Slots |-> NOWHERE]}]
  /\ at = [p \in Pages |-> NOWHERE]
  /\ lost = {}

\* clear_up_memory, which does not look whether the page was written.
SwapOut(p) ==
  \E ok \in BOOLEAN :
    LET out == swap_out_page(swap, p, ok)
    IN  /\ at[p] = NOWHERE
        /\ swap' = [map |-> out.map, file |-> out.file]
        /\ at' = [at EXCEPT ![p] = out.index]
        /\ lost' = IF ok /\ free_slots(swap.map) # {} THEN lost ELSE lost \cup {p}

\* The swap branch of petmem_handle_pagefault; the slot is free afterwards
\* even if it could not be read.
SwapIn(p) ==
  /\ at[p] # NOWHERE
  /\ swap' = [swap EXCEPT !.map = swap_in_page(swap, at[p]).map]
  /\ at' = [at EXCEPT ![p] = NOWHERE]
  /\ lost' = lost \ {p}

Next == \E p \in Pages : SwapOut(p) \/ SwapIn(p)

Spec == Init /\ [][Next]_vars

-----------------------------------------------------------------------------

\* The bitmap is an array of bytes and an index is a slot of the file.
TypeOK ==
  /\ swap.map \in [Bytes -> 0 .. 255]
  /\ swap.file \in [Slots -> Pages \cup {NOWHERE}]
  /\ at \in [Pages -> Slots \cup {NOWHERE}]
  /\ lost \subseteq Pages

\* A page that swap_out_page found a slot for and wrote is still there,
\* whatever other pages were put out, failed to be written and were read back
\* in the meantime, up to the last slot whose offset fits an int.  With a
\* full swap space this is what the README says: the page that is put out
\* then is removed from existence, and no other.
SwappedPagesIntact ==
  \A p \in Pages \ lost : at[p] # NOWHERE => swap_in_page(swap, at[p]).page = p

\* Reading and writing one bit of a byte touches no other: a step changes
\* the bit of at most one slot, and only that of the page it moves.
OneBitAtATime ==
  [][\A i \in Slots :
       check_bitmap(swap.map', i) # check_bitmap(swap.map, i)
         => \E p \in Pages : at[p] # at'[p] /\ i \in {at[p], at'[p]}]_vars

\* The slot of a page that is swapped out is marked, and is its alone: the
\* next page to be put out goes elsewhere.
SlotsMarked ==
  \A p \in Pages : at[p] # NOWHERE =>
    /\ check_bitmap(swap.map, at[p]) = 1
    /\ \A q \in Pages : at[q] = at[p] => p = q

\* check_bitmap reads no byte outside the map swap_init allocated: the slot
\* the search of swap_out_page comes to has its bit there.
ReadsInsideMap ==
  \A i \in Slots :
    (\A m \in 0 .. i - 1 : check_bitmap(swap.map, m) = 1)
      => byte_location(i) < char_map_page_size
=============================================================================
