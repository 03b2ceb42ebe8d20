------------------------------ MODULE SwapProofs ----------------------------
(***************************************************************************)
(* Proofs about the swap space for every size of the swap file and every   *)
(* number of pages.                                                        *)
(***************************************************************************)
EXTENDS Swap, MemMapLemmas, FiniteSetTheorems

\* Whatever the first bytes of the file hold, they leave as many slots free
\* as there are pages: the swap space cannot become full.
RoomForAll ==
  /\ SwapPages # 0
  /\ IsFiniteSet(Pages)
  /\ \A map \in [Bytes -> StaleBytes] : Cardinality(free_slots(map)) >= Cardinality(Pages)

\* The pages that are in memory.
InMemory == {p \in Pages : at[p] = NOWHERE}

\* There are at least as many free slots as pages that could be put out.
RoomLeft == Cardinality(free_slots(swap.map)) >= Cardinality(InMemory)

\* A page whose write succeeded is in the slot it was given.
Contents == \A p \in Pages \ lost : at[p] # NOWHERE => swap.file[at[p]] = p

-----------------------------------------------------------------------------
(* Types, whether the swap space is full or not. *)

\* The swap space is a record of a bitmap and a file, and where a page is a
\* slot or NOWHERE.
SwapType ==
  /\ swap \in [map : Maps, file : [Slots -> Pages \cup {NOWHERE}]]
  /\ at \in [Pages -> Slots \cup {NOWHERE}]
  /\ lost \subseteq Pages

\* SwapType says a little more than TypeOK.
LEMMA SwapTypeOK == SwapType => TypeOK
BY DEF SwapType, TypeOK, Maps, Bytes

\* The pages put out so far have a slot; initially there are none.
LEMMA InitType == Init => SwapType
<1> SUFFICES ASSUME Init PROVE SwapType
  OBVIOUS
<1>1. /\ swap.map \in [Bytes -> StaleBytes]
      /\ swap.file = [i \in Slots |-> NOWHERE]
      /\ swap = [map |-> swap.map, file |-> swap.file]
  BY DEF Init
<1>2. swap.map \in Maps
  BY <1>1, ContentAssumption DEF Maps, Bytes
<1> QED
  BY <1>1, <1>2 DEF Init, SwapType

\* file_write leaves a file of the same size.
LEMMA FileWriteType ==
  ASSUME NEW file \in [Slots -> Pages \cup {NOWHERE}], NEW p \in Pages,
         NEW offset, NEW ok \in BOOLEAN
  PROVE  file_write(file, p, offset, ok) \in [Slots -> Pages \cup {NOWHERE}]
BY DEF file_write

\* What swap_out_page gives: a bitmap, a file and a slot.
LEMMA SwapOutType ==
  ASSUME SwapType, SwapPages # 0, NEW p \in Pages, NEW ok \in BOOLEAN
  PROVE  /\ swap_out_page(swap, p, ok).map \in Maps
         /\ swap_out_page(swap, p, ok).file \in [Slots -> Pages \cup {NOWHERE}]
         /\ swap_out_page(swap, p, ok).index \in Slots
<1> DEFINE i == Min(free_slots(swap.map))
<1>1. swap.map \in Maps /\ swap.file \in [Slots -> Pages \cup {NOWHERE}]
  BY DEF SwapType
<1>2. CASE free_slots(swap.map) = {}
  <2>1. 0 \in Slots
    BY SwapAssumption DEF Slots
  <2> QED
    BY <1>1, <1>2, <2>1 DEF swap_out_page
<1>3. CASE free_slots(swap.map) # {}
  <2>1. i \in Slots
    BY <1>3, FoundSlotIsFree
  <2>2. put_value(swap.map, i, 1) \in Maps
    BY <1>1, <2>1, PutValue
  <2>3. file_write(swap.file, p, int_offset(i), ok) \in [Slots -> Pages \cup {NOWHERE}]
    BY <1>1, FileWriteType
  <2> HIDE DEF i
  <2>4. swap_out_page(swap, p, ok) =
          [map |-> put_value(swap.map, i, 1),
           file |-> file_write(swap.file, p, int_offset(i), ok), index |-> i]
    BY <1>3 DEF swap_out_page, i
  <2> QED
    BY <2>1, <2>2, <2>3, <2>4
<1> QED
  BY <1>2, <1>3

\* A step keeps the types.
LEMMA NextType ==
  ASSUME SwapType, SwapPages # 0, [Next]_vars
  PROVE  SwapType'
<1>1. CASE UNCHANGED vars
  BY <1>1 DEF SwapType, vars
<1>2. ASSUME NEW p \in Pages, SwapOut(p)
      PROVE  SwapType'
  <2>1. PICK ok \in BOOLEAN :
          /\ swap' = [map |-> swap_out_page(swap, p, ok).map,
                      file |-> swap_out_page(swap, p, ok).file]
          /\ at' = [at EXCEPT ![p] = swap_out_page(swap, p, ok).index]
          /\ lost' = IF ok /\ free_slots(swap.map) # {} THEN lost ELSE lost \cup {p}
    BY <1>2 DEF SwapOut
  <2>2. /\ swap_out_page(swap, p, ok).map \in Maps
        /\ swap_out_page(swap, p, ok).file \in [Slots -> Pages \cup {NOWHERE}]
        /\ swap_out_page(swap, p, ok).index \in Slots
    BY SwapOutType
  <2> QED
    BY <2>1, <2>2 DEF SwapType
<1>3. ASSUME NEW p \in Pages, SwapIn(p)
      PROVE  SwapType'
  <2>1. swap.map \in Maps /\ at[p] \in Slots
    BY <1>3 DEF SwapType, SwapIn
  <2>2. put_value(swap.map, at[p], 0) \in Maps
    BY <2>1, PutValue
  <2> QED
    BY <1>3, <2>2 DEF SwapIn, SwapType, swap_in_page
<1> QED
  BY <1>1, <1>2, <1>3 DEF Next

\* The bitmap stays an array of bytes and every index a slot of the file,
\* whatever is put out, lost or read back, and with a full swap space too.
THEOREM SwapTypes ==
  ASSUME SwapPages # 0
  PROVE  Spec => []TypeOK
<1>1. SwapType /\ [Next]_vars => SwapType'
  BY NextType
<1>2. Spec => []SwapType
  BY <1>1, InitType, PTL DEF Spec
<1> QED
  BY <1>2, SwapTypeOK, PTL

-----------------------------------------------------------------------------
(* One bit at a time. *)

\* The slots whose bit a step may change.
Touched == {i \in Slots : \E p \in Pages : at[p] # at'[p] /\ i \in {at[p], at'[p]}}

\* A step changes the bits of no other slots.
LEMMA StepTouches ==
  ASSUME SwapType, SwapPages # 0, [Next]_vars,
         NEW i \in Slots, check_bitmap(swap.map', i) # check_bitmap(swap.map, i)
  PROVE  i \in Touched
<1>0. swap.map \in Maps /\ NOWHERE \notin Slots
  BY SlotLocation, ContentAssumption DEF SwapType
<1>1. CASE UNCHANGED vars
  BY <1>1 DEF vars
<1>2. ASSUME NEW p \in Pages, SwapOut(p)
      PROVE  i \in Touched
  <2> DEFINE s == Min(free_slots(swap.map))
  <2>1. PICK ok \in BOOLEAN :
          /\ at[p] = NOWHERE
          /\ swap' = [map |-> swap_out_page(swap, p, ok).map,
                      file |-> swap_out_page(swap, p, ok).file]
          /\ at' = [at EXCEPT ![p] = swap_out_page(swap, p, ok).index]
    BY <1>2 DEF SwapOut
  <2>2. free_slots(swap.map) # {}
    BY <2>1 DEF swap_out_page
  <2>3. s \in Slots
    BY <2>2, FoundSlotIsFree
  <2> HIDE DEF s
  <2>4. swap_out_page(swap, p, ok).map = put_value(swap.map, s, 1)
        /\ swap_out_page(swap, p, ok).index = s
    BY <2>2 DEF swap_out_page, s
  <2>5. i = s
    BY <1>0, <2>1, <2>3, <2>4, PutOthers
  <2>6. at[p] # at'[p] /\ i = at'[p]
    BY <1>0, <2>1, <2>3, <2>4, <2>5 DEF SwapType
  <2> QED
    BY <2>6 DEF Touched
<1>3. ASSUME NEW p \in Pages, SwapIn(p)
      PROVE  i \in Touched
  <2>1. at[p] \in Slots /\ at'[p] = NOWHERE
    BY <1>3 DEF SwapIn, SwapType
  <2>2. swap'.map = put_value(swap.map, at[p], 0)
    BY <1>3 DEF SwapIn, SwapType, swap_in_page
  <2>3. i = at[p]
    BY <1>0, <2>1, <2>2, PutOthers
  <2> QED
    BY <1>0, <2>1, <2>3 DEF Touched
<1> QED
  BY <1>1, <1>2, <1>3 DEF Next

\* A step of swap_out_page or swap_in_page changes the bit of the page it
\* moves and no other, in a bitmap of any size.
THEOREM SwapOneBit ==
  ASSUME SwapPages # 0
  PROVE  Spec => OneBitAtATime
<1>1. SwapType /\ [Next]_vars => SwapType'
  BY NextType
<1>2. Spec => []SwapType
  BY <1>1, InitType, PTL DEF Spec
<1>3. SwapType /\ [Next]_vars =>
        [\A i \in Slots :
           check_bitmap(swap.map', i) # check_bitmap(swap.map, i)
             => \E p \in Pages : at[p] # at'[p] /\ i \in {at[p], at'[p]}]_vars
  BY StepTouches DEF Touched
<1> QED
  BY <1>2, <1>3, PTL DEF Spec, OneBitAtATime
-----------------------------------------------------------------------------
(* Slots and contents, where the swap space does not become full. *)

\* The inductive invariant: a page has a slot of its own that is marked, and
\* there is one for every other page.
IInv == SwapType /\ SlotsMarked /\ RoomLeft

\* The cardinalities that RoomLeft compares are numbers.
LEMMA Finite ==
  ASSUME RoomForAll
  PROVE  /\ \A map : IsFiniteSet(free_slots(map)) /\ Cardinality(free_slots(map)) \in Nat
         /\ IsFiniteSet(InMemory) /\ Cardinality(InMemory) \in Nat
<1>1. IsFiniteSet(Slots)
  BY SwapAssumption, FS_Interval DEF Slots
<1>2. \A map : free_slots(map) \in SUBSET Slots
  BY DEF free_slots
<1>3. \A map : IsFiniteSet(free_slots(map))
  BY <1>1, <1>2, FS_Subset
<1>4. IsFiniteSet(Pages) /\ InMemory \in SUBSET Pages
  BY DEF RoomForAll, InMemory
<1>5. IsFiniteSet(InMemory)
  BY <1>4, FS_Subset
<1> QED
  BY <1>3, <1>5, FS_CardinalityType

\* At first every page is in memory.
LEMMA InitIInv ==
  ASSUME RoomForAll, Init
  PROVE  IInv /\ Contents
<1>1. SwapType
  BY InitType
<1>2. InMemory = Pages /\ \A p \in Pages : at[p] = NOWHERE
  BY DEF Init, InMemory
<1>3. swap.map \in [Bytes -> StaleBytes]
  BY DEF Init
<1>4. RoomLeft
  BY <1>2, <1>3 DEF RoomLeft, RoomForAll
<1> QED
  BY <1>1, <1>2, <1>4 DEF IInv, SlotsMarked, Contents

\* swap_out_page: what it does to the state, when there is a free slot i.
LEMMA SwapOutStep ==
  ASSUME RoomForAll, IInv, NEW p \in Pages, SwapOut(p)
  PROVE  \E i \in free_slots(swap.map), ok \in BOOLEAN :
           /\ at[p] = NOWHERE
           /\ i \in Slots
           /\ swap' = [map |-> put_value(swap.map, i, 1),
                       file |-> file_write(swap.file, p, int_offset(i), ok)]
           /\ at' = [at EXCEPT ![p] = i]
           /\ lost' = IF ok THEN lost ELSE lost \cup {p}
<1>1. PICK ok \in BOOLEAN :
        /\ at[p] = NOWHERE
        /\ swap' = [map |-> swap_out_page(swap, p, ok).map,
                    file |-> swap_out_page(swap, p, ok).file]
        /\ at' = [at EXCEPT ![p] = swap_out_page(swap, p, ok).index]
        /\ lost' = IF ok /\ free_slots(swap.map) # {} THEN lost ELSE lost \cup {p}
  BY DEF SwapOut
<1>2. p \in InMemory
  BY <1>1 DEF InMemory
<1>3. Cardinality(InMemory) # 0 /\ Cardinality(InMemory) \in Nat
  BY <1>2, Finite, FS_EmptySet
<1>4. free_slots(swap.map) # {}
  BY <1>3, FS_EmptySet DEF IInv, RoomLeft
<1> DEFINE i == Min(free_slots(swap.map))
<1>5. i \in free_slots(swap.map) /\ i \in Slots
  BY <1>4, FoundSlotIsFree
<1>6. swap_out_page(swap, p, ok) =
        [map |-> put_value(swap.map, i, 1),
         file |-> file_write(swap.file, p, int_offset(i), ok), index |-> i]
  BY <1>4 DEF swap_out_page
<1> HIDE DEF i
<1>7. /\ swap' = [map |-> put_value(swap.map, i, 1),
                  file |-> file_write(swap.file, p, int_offset(i), ok)]
      /\ at' = [at EXCEPT ![p] = i]
      /\ lost' = IF ok THEN lost ELSE lost \cup {p}
  BY <1>1, <1>4, <1>6
<1> QED
  BY <1>1, <1>5, <1>7, Zenon

\* Putting a page out leaves every page with a slot of its own.
LEMMA SwapOutIInv ==
  ASSUME RoomForAll, IInv, NEW p \in Pages, SwapOut(p)
  PROVE  SlotsMarked' /\ RoomLeft'
<1>0. PICK i \in free_slots(swap.map), ok \in BOOLEAN :
        /\ at[p] = NOWHERE
        /\ i \in Slots
        /\ swap' = [map |-> put_value(swap.map, i, 1),
                    file |-> file_write(swap.file, p, int_offset(i), ok)]
        /\ at' = [at EXCEPT ![p] = i]
  BY SwapOutStep
<1>1. /\ swap.map \in Maps /\ at \in [Pages -> Slots \cup {NOWHERE}]
      /\ NOWHERE \notin Slots
  BY SlotLocation, ContentAssumption DEF IInv, SwapType
<1>2. swap'.map = put_value(swap.map, i, 1)
  BY <1>0
<1>3. check_bitmap(swap.map, i) = 0
  BY <1>0 DEF free_slots
<1>4. ASSUME NEW q \in Pages, q # p
      PROVE  at'[q] = at[q] /\ at[q] # i
  BY <1>0, <1>1, <1>3, <1>4 DEF IInv, SlotsMarked
<1>5. at'[p] = i
  BY <1>0, <1>1
<1>6. check_bitmap(swap'.map, i) = 1
  BY <1>0, <1>1, <1>2, PutValue
<1>7. ASSUME NEW q \in Pages, q # p, at'[q] # NOWHERE
      PROVE  check_bitmap(swap'.map, at'[q]) = 1
  <2>1. at[q] \in Slots /\ at[q] # i /\ at'[q] = at[q]
    BY <1>1, <1>4, <1>7
  <2>2. check_bitmap(swap'.map, at[q]) = check_bitmap(swap.map, at[q])
    BY <1>0, <1>1, <1>2, <2>1, PutOthers
  <2> QED
    BY <1>1, <2>1, <2>2 DEF IInv, SlotsMarked
<1>8. SlotsMarked'
  BY <1>4, <1>5, <1>6, <1>7 DEF IInv, SlotsMarked
<1>9. free_slots(swap'.map) = free_slots(swap.map) \ {i}
  BY <1>0, <1>1, <1>2, MarkSlot
<1>10. InMemory' = InMemory \ {p} /\ p \in InMemory
  BY <1>0, <1>1, <1>4, <1>5 DEF InMemory
<1>11. /\ Cardinality(free_slots(swap'.map)) = Cardinality(free_slots(swap.map)) - 1
       /\ Cardinality(InMemory') = Cardinality(InMemory) - 1
  BY <1>9, <1>10, Finite, FS_RemoveElement
<1>12. RoomLeft'
  BY <1>11, Finite DEF IInv, RoomLeft
<1> QED
  BY <1>8, <1>12

\* Reading a page back frees its slot and nobody else's.
LEMMA SwapInIInv ==
  ASSUME RoomForAll, IInv, NEW p \in Pages, SwapIn(p)
  PROVE  SlotsMarked' /\ RoomLeft'
<1>1. /\ swap.map \in Maps /\ at \in [Pages -> Slots \cup {NOWHERE}]
      /\ NOWHERE \notin Slots
  BY SlotLocation, ContentAssumption DEF IInv, SwapType
<1>2. at[p] \in Slots /\ at' = [at EXCEPT ![p] = NOWHERE]
  BY <1>1 DEF SwapIn
<1>3. swap'.map = put_value(swap.map, at[p], 0)
  BY DEF IInv, SwapType, SwapIn, swap_in_page
<1>4. at'[p] = NOWHERE /\ \A q \in Pages \ {p} : at'[q] = at[q]
  BY <1>1, <1>2
<1>5. ASSUME NEW q \in Pages, at'[q] # NOWHERE
      PROVE  at[q] \in Slots /\ at[q] # at[p] /\ at'[q] = at[q] /\ q # p
  BY <1>1, <1>2, <1>4, <1>5 DEF IInv, SlotsMarked
<1>6. ASSUME NEW q \in Pages, at'[q] # NOWHERE
      PROVE  check_bitmap(swap'.map, at'[q]) = 1
  <2>1. check_bitmap(swap'.map, at[q]) = check_bitmap(swap.map, at[q])
    BY <1>1, <1>2, <1>3, <1>5, <1>6, PutOthers
  <2> QED
    BY <1>1, <1>5, <1>6, <2>1 DEF IInv, SlotsMarked
<1>7. SlotsMarked'
  BY <1>4, <1>5, <1>6 DEF IInv, SlotsMarked
<1>8. free_slots(swap'.map) = free_slots(swap.map) \cup {at[p]}
  BY <1>1, <1>2, <1>3, ClearSlot
<1>9. at[p] \notin free_slots(swap.map)
  BY <1>1, <1>2 DEF IInv, SlotsMarked, free_slots
<1>10. InMemory' = InMemory \cup {p} /\ p \notin InMemory
  BY <1>1, <1>2, <1>4 DEF InMemory
<1>11. /\ Cardinality(free_slots(swap'.map)) = Cardinality(free_slots(swap.map)) + 1
       /\ Cardinality(InMemory') = Cardinality(InMemory) + 1
  BY <1>8, <1>9, <1>10, Finite, FS_AddElement
<1>12. RoomLeft'
  BY <1>11, Finite DEF IInv, RoomLeft
<1> QED
  BY <1>7, <1>12

\* Every step keeps the invariant.
LEMMA NextIInv ==
  ASSUME RoomForAll, IInv, [Next]_vars
  PROVE  IInv'
<1>1. SwapType'
  BY NextType DEF IInv, RoomForAll
<1>2. CASE UNCHANGED vars
  BY <1>1, <1>2 DEF IInv, vars, SlotsMarked, RoomLeft, InMemory
<1>3. CASE Next
  BY <1>1, <1>3, SwapOutIInv, SwapInIInv DEF IInv, Next
<1> QED
  BY <1>2, <1>3

\* A page that is put out is written to a slot no other page is in.
LEMMA NextContents ==
  ASSUME RoomForAll, SwapPages =< INT_PAGES, IInv, Contents, [Next]_vars
  PROVE  Contents'
<1>0. /\ swap.file \in [Slots -> Pages \cup {NOWHERE}]
      /\ at \in [Pages -> Slots \cup {NOWHERE}]
      /\ NOWHERE \notin Slots
  BY SlotLocation, ContentAssumption DEF IInv, SwapType
<1>1. CASE UNCHANGED vars
  BY <1>1 DEF vars, Contents
<1>2. ASSUME NEW p \in Pages, SwapOut(p)
      PROVE  Contents'
  <2>1. PICK i \in free_slots(swap.map), ok \in BOOLEAN :
          /\ at[p] = NOWHERE
          /\ i \in Slots
          /\ swap' = [map |-> put_value(swap.map, i, 1),
                      file |-> file_write(swap.file, p, int_offset(i), ok)]
          /\ at' = [at EXCEPT ![p] = i]
          /\ lost' = IF ok THEN lost ELSE lost \cup {p}
    BY <1>2, SwapOutStep
  <2>2. int_offset(i) = i
    BY <2>1, OffsetsExact
  <2>3. swap'.file = IF ok THEN [swap.file EXCEPT ![i] = p] ELSE swap.file
    BY <1>0, <2>1, <2>2 DEF file_write
  <2>4. \A q \in Pages : q # p => at[q] # i /\ at'[q] = at[q]
    BY <1>0, <2>1 DEF IInv, SlotsMarked, free_slots
  <2>5. ASSUME NEW q \in Pages \ lost', at'[q] # NOWHERE
        PROVE  swap'.file[at'[q]] = q
    <3>1. CASE q = p
      BY <1>0, <2>1, <2>3, <2>5, <3>1
    <3>2. CASE q # p
      <4>1. at'[q] = at[q] /\ at[q] # i /\ at[q] \in Slots /\ q \notin lost
        BY <1>0, <2>1, <2>4, <2>5, <3>2
      <4>2. swap.file[at[q]] = q
        BY <1>0, <2>5, <4>1 DEF Contents
      <4> QED
        BY <1>0, <2>3, <4>1, <4>2
    <3> QED
      BY <3>1, <3>2
  <2> QED
    BY <2>5 DEF Contents
<1>3. ASSUME NEW p \in Pages, SwapIn(p)
      PROVE  Contents'
  <2>1. /\ at' = [at EXCEPT ![p] = NOWHERE]
        /\ lost' = lost \ {p}
        /\ swap'.file = swap.file
    BY <1>3 DEF SwapIn, IInv, SwapType
  <2> QED
    BY <1>0, <2>1 DEF Contents
<1> QED
  BY <1>1, <1>2, <1>3 DEF Next

\* The slot of a page in the swap file stays marked and its alone, whatever
\* is put out and read back, if stale marks leave room for all pages.
THEOREM SwapSlotsMarked ==
  ASSUME RoomForAll
  PROVE  Spec => []SlotsMarked
<1>1. Init => IInv
  BY InitIInv
<1>2. IInv /\ [Next]_vars => IInv'
  BY NextIInv
<1>3. IInv => SlotsMarked
  BY DEF IInv
<1> QED
  BY <1>1, <1>2, <1>3, PTL DEF Spec

\* A page that was written is read back as it was, if stale marks leave room
\* for all pages and every offset fits an int.
THEOREM SwapKeepsPages ==
  ASSUME RoomForAll, SwapPages =< INT_PAGES
  PROVE  Spec => []SwappedPagesIntact
<1>1. Init => IInv /\ Contents
  BY InitIInv
<1>2. IInv /\ Contents /\ [Next]_vars => (IInv /\ Contents)'
  BY NextIInv, NextContents
<1>3. IInv /\ Contents => SwappedPagesIntact
  <2> SUFFICES ASSUME IInv, Contents, NEW p \in Pages \ lost, at[p] # NOWHERE
               PROVE  swap_in_page(swap, at[p]).page = p
    BY DEF SwappedPagesIntact
  <2>1. at[p] \in Slots
    BY DEF IInv, SwapType
  <2>2. u32_offset(at[p]) = at[p]
    BY <2>1, OffsetsExact
  <2> QED
    BY <2>2 DEF swap_in_page, file_read, Contents
<1> QED
  BY <1>1, <1>2, <1>3, PTL DEF Spec

-----------------------------------------------------------------------------
(* The size of the bitmap. *)

\* The sizes of the swap file for which swap_init allocates enough bytes,
\* although it takes the remainder of a division by 3: whole bytes of bits,
\* or a number of bytes that 3 does not divide.
MapLargeEnough == SwapPages % 8 = 0 \/ (SwapPages \div 8) % 3 # 0

\* char_map_page_size in plain arithmetic.
LEMMA MapSize ==
  char_map_page_size = IF (SwapPages \div 8) % 3 # 0 THEN (SwapPages \div 8) + 1
                       ELSE SwapPages \div 8
<1>1. 2^3 = 8
  OBVIOUS
<1> QED
  BY <1>1 DEF char_map_page_size, BITS_IN_A_BYTE

\* For those sizes no slot's bit is outside the memory of the bitmap.
THEOREM SwapReadsInside ==
  ASSUME MapLargeEnough
  PROVE  Spec => []ReadsInsideMap
<1>1. ASSUME NEW i \in Slots
      PROVE  byte_location(i) < char_map_page_size
  BY SwapAssumption, MapSize DEF MapLargeEnough, Slots, byte_location
<1>2. ReadsInsideMap
  BY <1>1 DEF ReadsInsideMap
<1> QED
  BY <1>2, PTL

\* For every other size the bit of the last slot is just behind the memory
\* that swap_init allocated.
THEOREM SwapReadsBehind ==
  ASSUME ~MapLargeEnough
  PROVE  SwapPages - 1 \in Slots /\ byte_location(SwapPages - 1) = char_map_page_size
BY SwapAssumption, MapSize DEF MapLargeEnough, Slots, byte_location
=============================================================================
