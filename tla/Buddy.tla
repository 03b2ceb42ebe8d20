------------------------------- MODULE Buddy --------------------------------
(***************************************************************************)
(* The buddy allocator of buddy.c: one memory pool (struct buddy_mempool)  *)
(* with its free lists, its tag bits and the block headers that live       *)
(* inside the free memory itself, called by one thread at a time.          *)
(*                                                                         *)
(* An address counts minimum-sized blocks, so the shift in block_to_id     *)
(* disappears and 1UL << order becomes Size(order).  Orders are the code's *)
(* own.  The loops of buddy_alloc and buddy_free are one action for each   *)
(* iteration; pc says which statement comes next, and nothing else can     *)
(* happen until the call has returned.                                     *)
(*                                                                         *)
(* The definitions MarkNothing, UpperHalfTwice, ListReset, MergeNever,     *)
(* MergeWithoutOrder and AllocReturnEarly are not part of the              *)
(* specification: each is a plausible mistake in the definition that       *)
(* follows it, which the invariants must detect.                           *)
(***************************************************************************)
EXTENDS Integers, Sequences, SequencesExt

CONSTANTS
  BaseAddr,      (* mp->base_addr                                        *)
  MinOrder,      (* mp->min_order                                        *)
  PoolOrder,     (* mp->pool_order                                       *)
  CallerOrders,  (* the orders callers of buddy_alloc ask for            *)
  NoRequest,     (* no allocation in progress (refinement mapping only)  *)
  Scribbled      (* header bytes that are not an order                   *)

ASSUME OrdersAssumption ==
  /\ MinOrder \in Nat
  /\ PoolOrder \in Nat
  /\ MinOrder =< PoolOrder

\* BUG_ON(order > mp->pool_order).
ASSUME CallerAssumption == CallerOrders \subseteq 0 .. PoolOrder

\* Address 0 is the NULL that buddy_alloc returns for "no memory".
ASSUME BaseAssumption == BaseAddr \in Nat \ {0}

\* What a header holds when no order was written is no order.
ASSUME ScribbledAssumption == Scribbled \notin 0 .. PoolOrder

\* That no request is in progress is told apart from every request.
ASSUME NoRequestAssumption == NoRequest \notin MinOrder .. PoolOrder

\* The law of exponents for the powers of two that occur in a pool.
ASSUME PowersOfTwo ==
  /\ 2^0 = 1
  /\ 2^1 = 2
  /\ \A m, n \in 0 .. PoolOrder : /\ 2^m \in Nat \ {0}
                                  /\ 2^(m + n) = 2^m * 2^n

VARIABLES
  avail,         (* mp->avail: one free list for each order              *)
  tag_bits,      (* mp->tag_bits: one bit for each minimum-sized block   *)
  hdr,           (* the order field of the struct block at each address  *)
  held,          (* the blocks <<address, order>> that callers own       *)
  pc,            (* the statement the call in progress is at             *)
  block,         (* local variable block                                 *)
  order,         (* local variable order, after the fixup                *)
  j              (* local variable j of buddy_alloc                      *)

vars == <<avail, tag_bits, hdr, held, pc, block, order, j>>

-----------------------------------------------------------------------------

Orders == MinOrder .. PoolOrder
Size(k) == 2^(k - MinOrder)
NumBlocks == Size(PoolOrder)
Addr == BaseAddr .. BaseAddr + NumBlocks - 1

\* The addresses that block b = <<address, order>> occupies.
Span(b) == b[1] .. b[1] + Size(b[2]) - 1

block_to_id(b) == b - BaseAddr

\* The BUG_ON of block_to_id does not trigger.
IsBlockId(b) == block_to_id(b) \in 0 .. NumBlocks - 1

is_available(b) == tag_bits[block_to_id(b)]
MarkNothing(b) == UNCHANGED tag_bits
mark_available(b) == tag_bits' = [tag_bits EXCEPT ![block_to_id(b)] = TRUE]
mark_allocated(b) == tag_bits' = [tag_bits EXCEPT ![block_to_id(b)] = FALSE]

\* Exclusive-or of the block's offset with the one bit 1UL << order.
find_buddy(b, k) ==
  LET offset == b - BaseAddr
  IN  IF (offset \div Size(k)) % 2 = 0 THEN b + Size(k) ELSE b - Size(k)

\* Requests below the minimum order are rounded up to it.
Fixup(k) == IF k < MinOrder THEN MinOrder ELSE k

UpperHalfTwice(b, k) == b + Size(k + 1)

\* The address of the half that is split off, when a block becomes order k.
upper_half(b, k) == b + Size(k)

ListReset(s, b) == <<b>>
list_add(s, b) == <<b>> \o s

\* list_del unlinks a block from whichever list it is in.
unlink(s, b) == IF b \in ToSet(s)
                THEN RemoveAt(s, CHOOSE i \in DOMAIN s : s[i] = b)
                ELSE s
list_del(b) == avail' = [k \in 0 .. PoolOrder |-> unlink(avail[k], b)]

-----------------------------------------------------------------------------

\* buddy_init: all lists empty, all blocks marked allocated; the memory is in
\* the hands of ADD_MEMORY, which gives it to the pool with buddy_free.
Init ==
  /\ avail = [k \in 0 .. PoolOrder |-> << >>]
  /\ tag_bits = [i \in 0 .. NumBlocks - 1 |-> FALSE]
  /\ hdr = [a \in Addr |-> Scribbled]
  /\ held = {<<BaseAddr, PoolOrder>>}
  /\ pc = "idle"
  /\ block = BaseAddr
  /\ order = PoolOrder
  /\ j = PoolOrder

\* A caller enters buddy_alloc(mp, k).
BuddyAlloc(k) ==
  /\ pc = "idle"
  /\ pc' = "scan"
  /\ order' = Fixup(k)
  /\ UNCHANGED <<avail, tag_bits, hdr, held, block, j>>

\* The first block of the first non-empty list is taken.
AllocTake(k) ==
  /\ pc = "scan"
  /\ k >= order
  /\ avail[k] # << >>
  /\ \A i \in order .. k - 1 : avail[i] = << >>
  /\ pc' = "trim"
  /\ j' = k
  /\ block' = Head(avail[k])
  /\ avail' = [avail EXCEPT ![k] = Tail(@)]
  /\ mark_allocated(Head(avail[k]))
  /\ UNCHANGED <<hdr, held, order>>

\* Every list is empty: NULL.
AllocNull ==
  /\ pc = "scan"
  /\ \A i \in order .. PoolOrder : avail[i] = << >>
  /\ pc' = "idle"
  /\ UNCHANGED <<avail, tag_bits, hdr, held, block, order, j>>

\* Trimming stops one order too early.
AllocReturnEarly ==
  /\ pc = "trim"
  /\ j =< order + 1
  /\ pc' = "idle"
  /\ held' = held \cup {<<block, order>>}
  /\ UNCHANGED <<avail, tag_bits, hdr, block, order, j>>

\* The upper half of a block that is too large goes back to the free lists.
AllocTrim ==
  LET buddy_block == upper_half(block, j - 1)
  IN  /\ pc = "trim"
      /\ j > order
      /\ j' = j - 1
      /\ hdr' = [hdr EXCEPT ![buddy_block] = j - 1]
      /\ mark_available(buddy_block)
      /\ avail' = [avail EXCEPT ![j - 1] = list_add(@, buddy_block)]
      /\ UNCHANGED <<held, pc, block, order>>

AllocReturn ==
  /\ pc = "trim"
  /\ j = order
  /\ pc' = "idle"
  /\ held' = held \cup {<<block, order>>}
  /\ UNCHANGED <<avail, tag_bits, hdr, block, order, j>>

\* A caller enters buddy_free(mp, b[1], k) with a block it owns.
BuddyFree(b, k) ==
  /\ pc = "idle"
  /\ Fixup(k) = b[2]
  /\ pc' = IF is_available(b[1]) THEN "BUG" ELSE "coalesce"
  /\ block' = b[1]
  /\ order' = Fixup(k)
  /\ held' = held \ {b}
  /\ UNCHANGED <<avail, tag_bits, hdr, j>>

MergeNever == FALSE
MergeWithoutOrder == /\ order < PoolOrder
                     /\ IsBlockId(find_buddy(block, order))
                     /\ is_available(find_buddy(block, order))

\* The conditions under which the coalescing loop goes on.
CanMerge ==
  LET buddy == find_buddy(block, order)
  IN  /\ order < PoolOrder
      /\ IsBlockId(buddy)
      /\ is_available(buddy)
      /\ hdr[buddy] = order

\* One merge.  The tag bit of the buddy is left as it is.
FreeMerge ==
  LET buddy == find_buddy(block, order)
      merged == IF buddy < block THEN buddy ELSE block
  IN  /\ pc = "coalesce"
      /\ CanMerge
      /\ list_del(buddy)
      /\ block' = merged
      /\ order' = order + 1
      /\ hdr' = [hdr EXCEPT ![merged] = order + 1]
      /\ UNCHANGED <<tag_bits, held, pc, j>>

\* The loop ends and the block joins the list of its order, unless the buddy
\* lay outside the pool, which the BUG_ON of block_to_id would have caught.
FreeInsert ==
  /\ pc = "coalesce"
  /\ ~CanMerge
  /\ pc' = IF order < PoolOrder /\ ~IsBlockId(find_buddy(block, order))
           THEN "BUG" ELSE "idle"
  /\ hdr' = [hdr EXCEPT ![block] = order]
  /\ mark_available(block)
  /\ avail' = [avail EXCEPT ![order] = list_add(@, block)]
  /\ UNCHANGED <<held, block, order, j>>

\* A caller overwrites the memory it owns, headers left there included, with
\* data that may look like an order.
CallerWrites(b, x) ==
  /\ pc = "idle"
  /\ hdr' = [a \in Addr |-> IF a \in Span(b) THEN x ELSE hdr[a]]
  /\ UNCHANGED <<avail, tag_bits, held, pc, block, order, j>>

Next ==
  \/ \E k \in CallerOrders : BuddyAlloc(k)
  \/ \E k \in Orders : AllocTake(k)
  \/ AllocNull
  \/ AllocTrim
  \/ AllocReturn
  \/ \E b \in held, k \in 0 .. PoolOrder : BuddyFree(b, k)
  \/ FreeMerge
  \/ FreeInsert
  \/ \E b \in held, x \in 0 .. PoolOrder \cup {Scribbled} : CallerWrites(b, x)

\* A call that has been entered runs to its end: the loops contain no wait.
CallStep == \/ \E k \in Orders : AllocTake(k)
            \/ AllocNull \/ AllocTrim \/ AllocReturn
            \/ FreeMerge \/ FreeInsert

Spec == Init /\ [][Next]_vars
FairSpec == Spec /\ WF_vars(CallStep)

-----------------------------------------------------------------------------

\* The blocks the free lists hold, and the one the call in progress works on.
FreeBlocks == {b \in Addr \X Orders : b[1] \in ToSet(avail[b[2]])}
InFlight == {b \in {<<block, j>>} : pc = "trim"} \cup
            {b \in {<<block, order>>} : pc = "coalesce"}
Blocks == held \cup FreeBlocks \cup InFlight

Disjoint(b, c) == \/ b[1] + Size(b[2]) =< c[1]
                  \/ c[1] + Size(c[2]) =< b[1]

\* The state has the types of the C declarations: addresses inside the pool,
\* orders up to the pool's.
TypeOK ==
  /\ avail \in [0 .. PoolOrder -> Seq(Addr)]
  /\ tag_bits \in [0 .. NumBlocks - 1 -> BOOLEAN]
  /\ hdr \in [Addr -> 0 .. PoolOrder \cup {Scribbled}]
  /\ held \in SUBSET (Addr \X Orders)
  /\ pc \in {"idle", "scan", "trim", "coalesce", "BUG"}
  /\ block \in Addr
  /\ order \in Orders
  /\ j \in Orders

\* No BUG_ON of buddy.c ever triggers for callers that free what they hold:
\* the block being freed is never tagged available, and no buddy address
\* leaves the pool.
NoBug == pc # "BUG"

\* No memory is in two places: blocks held by callers, blocks on the free
\* lists and the block a call is working on never overlap, and no block is
\* linked twice.
BlocksDisjoint ==
  /\ held \cap FreeBlocks = {}
  /\ (held \cup FreeBlocks) \cap InFlight = {}
  /\ \A b, c \in Blocks : b # c => Disjoint(b, c)
  /\ \A k \in 0 .. PoolOrder : IsInjective(avail[k])

\* No memory is lost: every unit of the pool is held by a caller, free, or
\* part of the block a call is working on, in the middle of a split or a
\* merge too.
NoLeak == \A a \in Addr : \E b \in Blocks : a \in Span(b)

\* Every block starts at a multiple of its size from the pool's base, which
\* is what makes find_buddy's exclusive-or give the other half.
Aligned == \A b \in Blocks : \E q \in 0 .. NumBlocks : b[1] = BaseAddr + q * Size(b[2])

\* The tag bit of a block's first unit says whether the block is free, and
\* the header of a free block says its order.  (Bits inside a block may be
\* stale: FreeMerge does not clear them.)
HeadTagsExact ==
  /\ \A b \in held \cup FreeBlocks : is_available(b[1]) <=> b \in FreeBlocks
  /\ \A b \in FreeBlocks : hdr[b[1]] = b[2]

\* Free memory is coalesced as far as it can be: no free block has a free
\* buddy of its own size.
FullyCoalesced ==
  \A b \in FreeBlocks :
    b[2] < PoolOrder => <<find_buddy(b[1], b[2]), b[2]>> \notin FreeBlocks

\* The inductive invariant.
IInv ==
  /\ TypeOK /\ NoBug /\ Aligned /\ BlocksDisjoint /\ NoLeak
  /\ HeadTagsExact /\ FullyCoalesced
  /\ pc = "trim" => j >= order /\ ~is_available(block)

\* buddy_alloc and buddy_free keep the promise of a block allocator: grants
\* never overlap, a request is refused only when no block of its size is
\* wholly free, and every call returns.
Allocator == INSTANCE BlockAllocator WITH
  req <- IF pc \in {"scan", "trim"} THEN order ELSE NoRequest
ImplementsAllocator == Allocator!Spec
=============================================================================
