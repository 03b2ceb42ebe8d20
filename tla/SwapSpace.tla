----------------------------- MODULE SwapSpace ------------------------------
(***************************************************************************)
(* The operations of swap.c on its two data structures: the bitmap         *)
(* alloc_map, an array of bytes with one bit for each page of the swap     *)
(* file, and the file itself, a function from slots to page contents,      *)
(* which file_io.c reads and writes at offsets given in pages here.        *)
(*                                                                         *)
(* MapRoundedDown, BitOfNibble, BitOfWord, PutSwapped, OutWithoutMark and  *)
(* InWithoutClear are plausible mistakes that the properties of Swap and   *)
(* Paging must detect, not part of the specification.                      *)
(***************************************************************************)
EXTENDS Integers, FiniteSetsExt

CONSTANTS
  SwapPages,     (* swap->size: file_size of the swap file, in pages     *)
  INT_PAGES      (* pages at which 4096 * i no longer fits an int        *)

ASSUME SwapAssumption == SwapPages \in Nat /\ INT_PAGES \in Nat \ {0}

\* 4096 * i as an int and as a u32, in pages.
int_offset(i) == ((i + INT_PAGES) % (2 * INT_PAGES)) - INT_PAGES
u32_offset(i) == i % (2 * INT_PAGES)

\* The size of the file is taken as known: the -1 of a file_size that fails
\* and the number of pages swap_init makes of it are left out.
Slots == 0 .. SwapPages - 1

\* The bytes swap_init allocates for the bitmap.  BITS_IN_A_BYTE is 3: the
\* shift is right, the remainder is not that of a division by 8.
BITS_IN_A_BYTE == 3
MapRoundedDown == SwapPages \div 2^BITS_IN_A_BYTE
char_map_page_size ==
  LET bytes == SwapPages \div 2^BITS_IN_A_BYTE
  IN  IF bytes % BITS_IN_A_BYTE # 0 THEN bytes + 1 ELSE bytes

byte_location(index) == index \div 8
BitOfNibble(index) == index % 4
BitOfWord(index) == index % 16
bit_location(index) == index % 8

check_bitmap(map, index) ==
  IF index < SwapPages
  THEN (map[byte_location(index)] \div 2^bit_location(index)) % 2
  ELSE -1

PutSwapped(map, index, value) ==
  [map EXCEPT ![byte_location(index)] = value * 2^bit_location(index)]
put_value(map, index, value) ==
  IF index < SwapPages
  THEN [map EXCEPT ![byte_location(index)] =
          @ + (value - check_bitmap(map, index)) * 2^bit_location(index)]
  ELSE map

\* The kernel refuses a negative offset, and may fail to write (ok).
\* file_write says so in its result, which nobody looks at.
file_write(file, page, offset, ok) ==
  IF ok /\ offset \in DOMAIN file THEN [file EXCEPT ![offset] = page] ELSE file

\* A read that succeeds; failed and short ones, whose result nobody looks at
\* either, are left out.
file_read(file, offset) == file[offset]

\* swap_out_page as a function of the swap space and the page: the new swap
\* space, and what clear_up_memory finds in index afterwards.  index was 0
\* before the call and nothing writes it when every slot is taken.
free_slots(map) == {i \in Slots : check_bitmap(map, i) = 0}
OutWithoutMark(sw, page, ok) ==
  [map   |-> sw.map,
   file  |-> file_write(sw.file, page, int_offset(Min(free_slots(sw.map))), ok),
   index |-> Min(free_slots(sw.map))]
swap_out_page(sw, page, ok) ==
  LET i == Min(free_slots(sw.map))
  IN  IF free_slots(sw.map) = {}
      THEN [map |-> sw.map, file |-> sw.file, index |-> 0]
      ELSE [map   |-> put_value(sw.map, i, 1),
            file  |-> file_write(sw.file, page, int_offset(i), ok),
            index |-> i]

\* swap_in_page: the page that is read, and the bitmap without its slot.
InWithoutClear(sw, index) == [page |-> file_read(sw.file, u32_offset(index)), map |-> sw.map]
swap_in_page(sw, index) ==
  [page |-> file_read(sw.file, u32_offset(index)), map |-> put_value(sw.map, index, 0)]
=============================================================================
