--------------------------- MODULE BlockAllocator ---------------------------
(***************************************************************************)
(* What a power-of-two block allocator promises the code that calls it     *)
(* (petmem_alloc_pages and petmem_free_pages in main.c).  It says nothing  *)
(* of free lists, tag bits or coalescing: there is a pool, a set of blocks *)
(* that callers hold, and at most one allocation request in progress.      *)
(*                                                                         *)
(* Addresses and sizes are counted in minimum-sized blocks.                *)
(***************************************************************************)
EXTENDS Integers

CONSTANTS
  BaseAddr,      (* address of the first minimum-sized block of the pool *)
  MinOrder,      (* log2 of the smallest block size                      *)
  PoolOrder,     (* log2 of the size of the whole pool                   *)
  NoRequest      (* value of req when no allocation is in progress       *)

VARIABLES
  held,          (* the blocks <<address, order>> that callers own       *)
  req            (* the order being asked for, or NoRequest              *)

vars == <<held, req>>

Orders == MinOrder .. PoolOrder
Size(k) == 2^(k - MinOrder)
Addr == BaseAddr .. BaseAddr + Size(PoolOrder) - 1

\* Blocks of order k start at multiples of their size, from the pool's base.
Block == {b \in Addr \X Orders : \E q \in 0 .. Size(PoolOrder) :
                                    b[1] = BaseAddr + q * Size(b[2])}

Disjoint(b, c) == \/ b[1] + Size(b[2]) =< c[1]
                  \/ c[1] + Size(c[2]) =< b[1]

\* Block b could be handed out: nobody holds any part of it.
Fits(b) == \A h \in held : Disjoint(b, h)

-----------------------------------------------------------------------------

\* The pool starts in the hands of whoever adds it to the allocator.
Init ==
  /\ held = {<<BaseAddr, PoolOrder>>}
  /\ req = NoRequest

Request(k) ==
  /\ req = NoRequest
  /\ req' = k
  /\ UNCHANGED held

Grant ==
  \E b \in Block :
    /\ b[2] = req
    /\ Fits(b)
    /\ held' = held \cup {b}
    /\ req' = NoRequest

\* A request may be refused only when no block of that size is wholly free.
Refuse ==
  /\ req # NoRequest
  /\ \A b \in Block : b[2] = req => ~Fits(b)
  /\ req' = NoRequest
  /\ UNCHANGED held

Release(b) ==
  /\ req = NoRequest
  /\ held' = held \ {b}
  /\ UNCHANGED req

Next ==
  \/ \E k \in Orders : Request(k)
  \/ Grant
  \/ Refuse
  \/ \E b \in held : Release(b)

Spec == Init /\ [][Next]_vars /\ WF_vars(Grant \/ Refuse)
=============================================================================
