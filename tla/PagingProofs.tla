---------------------------- MODULE PagingProofs ----------------------------
(***************************************************************************)
(* Proofs about on-demand paging, for every address range, pool, shape of  *)
(* the page tables and size of the swap file.                              *)
(***************************************************************************)
EXTENDS Paging, MemMapLemmas, FiniteSetTheorems

-----------------------------------------------------------------------------
(* The page tables. *)

Entry == [present : BOOLEAN, dirty : BOOLEAN, accessed : BOOLEAN, base : Nat]
Tables ==
  [pd   : [PDs -> Frames \cup {NONE}],
   pt   : [PTs -> Frames \cup {NONE}],
   pte  : [VPages -> Entry],
   free : SUBSET Frames]

\* An entry that is present holds a frame, one that is not holds a slot.
Filled(t) == \A v \in VPages : t.pte[v].base \in IF t.pte[v].present THEN Frames ELSE Slots

\* What is present is in a table that is there.
Nested(t) ==
  \A v \in VPages : /\ t.pte[v].present => t.pt[pt_of(v)] # NONE
                    /\ t.pt[pt_of(v)] # NONE => t.pd[pd_of(v)] # NONE

\* FrameUsedOnce of all entries, reachable or not.
Exclusive(t) ==
  /\ \A c, d \in PDs : t.pd[c] = t.pd[d] /\ t.pd[c] # NONE => c = d
  /\ \A p, q \in PTs : t.pt[p] = t.pt[q] /\ t.pt[p] # NONE => p = q
  /\ \A u, v \in VPages :
       t.pte[u].present /\ t.pte[v].present /\ t.pte[u].base = t.pte[v].base => u = v
  /\ \A d \in PDs, p \in PTs : t.pd[d] = t.pt[p] => t.pd[d] = NONE
  /\ \A v \in VPages : t.pte[v].present =>
       /\ \A d \in PDs : t.pd[d] # t.pte[v].base
       /\ \A p \in PTs : t.pt[p] # t.pte[v].base
  /\ \A f \in t.free : /\ \A d \in PDs : t.pd[d] # f
                       /\ \A p \in PTs : t.pt[p] # f
                       /\ \A v \in VPages : t.pte[v].present => t.pte[v].base # f

Sound(t) == t \in Tables /\ Filled(t) /\ Nested(t) /\ Exclusive(t)

\* NoFrameLost of all entries.
AllUsed(t) ==
  \A f \in Frames : \/ f \in t.free
                    \/ \E d \in PDs : t.pd[d] = f
                    \/ \E p \in PTs : t.pt[p] = f
                    \/ \E v \in VPages : t.pte[v].present /\ t.pte[v].base = f

\* The constants, as the proofs need them.
LEMMA Constants ==
  /\ Frames \subseteq Nat /\ 0 \notin Frames /\ NONE \notin Frames /\ NONE \notin Nat
  /\ VPages \subseteq Nat /\ Slots \subseteq Nat
  /\ RegionStart \in Nat /\ RegionPages \in Nat \ {0} /\ RegionEnd \in Nat
  /\ \A v \in VPages : v \in Nat /\ pt_of(v) \in PTs /\ pd_of(v) \in PDs
BY DirectMapAssumption, NoneAssumption, RegionAssumption, SwapAssumption
DEF VPages, RegionEnd, Slots, PTs, PDs

\* A swap file that is not empty has a first slot, the one index 0 means.
LEMMA FirstSlot ==
  ASSUME SwapPages # 0
  PROVE  0 \in Slots
BY SwapAssumption DEF Slots

\* The fields of the tables.
LEMMA TableFields ==
  ASSUME NEW t \in Tables
  PROVE  /\ t.pd \in [PDs -> Frames \cup {NONE}] /\ t.pt \in [PTs -> Frames \cup {NONE}]
         /\ t.pte \in [VPages -> Entry] /\ t.free \in SUBSET Frames
BY DEF Tables

\* Quotients are unique.
LEMMA UniqueQuotient ==
  ASSUME NEW n \in Nat, NEW b \in Nat, NEW c \in Nat,
         NEW x \in 0 .. n - 1, NEW y \in 0 .. n - 1, n * b + x = n * c + y
  PROVE  b = c
<1>1. ASSUME NEW d \in Nat, NEW e \in Nat, d < e
      PROVE  n * e >= n * d + n
  <2>1. PICK k \in Nat : e = d + 1 + k
    <3>1. e - d - 1 \in Nat /\ e = d + 1 + (e - d - 1)
      BY <1>1
    <3> QED
      BY <3>1
  <2>2. n * e = n * d + n + n * k /\ n * k \in Nat
    BY <2>1
  <2>3. n * d \in Nat /\ n * e \in Nat
    OBVIOUS
  <2> QED
    BY <2>2, <2>3
<1>2. n * b \in Nat /\ n * c \in Nat
  OBVIOUS
<1>3. CASE b < c
  <2>1. n * c >= n * b + n
    BY <1>1, <1>3
  <2> QED
    BY <1>2, <2>1
<1>4. CASE c < b
  <2>1. n * b >= n * c + n
    BY <1>1, <1>4
  <2> QED
    BY <1>2, <2>1
<1> QED
  BY <1>3, <1>4

\* Pages of one page table are pages of one page directory.
LEMMA TablesNest ==
  ASSUME NEW u \in VPages, NEW v \in VPages, pt_of(u) = pt_of(v)
  PROVE  pd_of(u) = pd_of(v)
<1> DEFINE P == PTES
           D == PDES
           a == v \div P
           b == a \div D
<1>0. P \in Nat \ {0} /\ D \in Nat \ {0} /\ P * D \in Nat \ {0}
  BY TablesAssumption
<1>1. ASSUME NEW w \in Nat, w \div P = a, a \in Nat
      PROVE  w \div (P * D) = b
  <2>1. PICK r \in 0 .. P - 1 : w = P * a + r
    <3>1. w = P * (w \div P) + (w % P) /\ w % P \in 0 .. P - 1
      BY <1>0, Division
    <3>2. w = P * a + (w % P)
      BY <1>1, <3>1, Zenon
    <3> QED
      BY <3>1, <3>2, Zenon
  <2>2. PICK s \in 0 .. D - 1 : a = D * b + s /\ b \in Nat
    BY <1>0, <1>1, Division
  <2>3. PICK q \in 0 .. P * D - 1 :
          w = (P * D) * (w \div (P * D)) + q /\ w \div (P * D) \in Nat
    BY <1>0, <1>1, Division
  <2> HIDE DEF a, b, P, D
  <2> DEFINE z == w \div (P * D)
  <2> HIDE DEF z
  <2>4. w = (P * D) * b + (P * s + r) /\ P * s \in Nat /\ (P * D) * b \in Nat
    BY <1>0, <2>1, <2>2
  <2>5. P * s =< P * (D - 1) /\ P * (D - 1) = P * D - P /\ P * D \in Nat
    BY <1>0, <2>2
  <2>6. P * s + r \in 0 .. P * D - 1
    BY <1>0, <2>1, <2>4, <2>5
  <2>7. w = (P * D) * z + q /\ z \in Nat
    BY <2>3 DEF z
  <2>8. z = b
    <3> DEFINE n == P * D
               x == P * s + r
    <3>1. n \in Nat /\ b \in Nat /\ z \in Nat /\ x \in 0 .. n - 1 /\ q \in 0 .. n - 1
      BY <1>0, <2>2, <2>3, <2>6, <2>7
    <3>2. n * b + x = n * z + q
      BY <2>4, <2>7
    <3> HIDE DEF n, x
    <3> QED
      BY <3>1, <3>2, UniqueQuotient
  <2> QED
    BY <2>8 DEF z
<1>2. u \in Nat /\ v \in Nat /\ u \div P = a
  BY Constants DEF pt_of
<1>3. a \in Nat
  BY <1>0, <1>2, Division
<1>4. u \div (P * D) = b /\ v \div (P * D) = b
  BY <1>1, <1>2, <1>3
<1> QED
  BY <1>4 DEF pd_of

\* petmem_free_pages finds the frame of a physical address.
LEMMA FreesTheFrame ==
  ASSUME NEW a \in Frames
  PROVE  {f \in Frames : va(f) = va(a)} = {a}
<1>1. \A f \in Frames : va(f) = f + PAGE_OFFSET /\ f \in Nat
  <2> SUFFICES ASSUME NEW f \in Frames
               PROVE  va(f) = f + PAGE_OFFSET /\ f \in Nat
    OBVIOUS
  <2>1. f \in Nat /\ f + PAGE_OFFSET \in Nat /\ f + PAGE_OFFSET < WORD /\ WORD \in Nat
    BY DirectMapAssumption
  <2>2. ASSUME NEW k \in Nat, NEW n \in Nat, k < n
        PROVE  k % n = k
    BY <2>2
  <2> QED
    BY <2>1, <2>2 DEF va
<1> QED
  BY <1>1, DirectMapAssumption

\* Given the kernel's virtual address of a frame instead, it finds none: the
\* second __va leads past the end of the addresses, below the pool.
LEMMA FreesNoFrame ==
  ASSUME NEW a \in Frames
  PROVE  {f \in Frames : va(f) = va(va(a))} = {}
<1>1. ASSUME NEW k \in Nat, NEW n \in Nat, k < n
      PROVE  k % n = k
  BY <1>1
<1>2. ASSUME NEW k \in Nat, NEW n \in Nat, k < n
      PROVE  (k + n) % n = k
  <2>1. n # 0
    BY <1>2
  <2>2. k + n = n * 1 + k
    BY <1>2
  <2>3. PICK q \in Nat, r \in 0 .. n - 1 :
          k + n = n * q + r /\ q = (k + n) \div n /\ r = (k + n) % n
    BY <2>1, Division
  <2>4. q = 1
    BY <1>2, <2>2, <2>3, UniqueQuotient
  <2> QED
    BY <2>2, <2>3, <2>4
<1>3. /\ PAGE_OFFSET \in Nat /\ WORD \in Nat /\ 2 * PAGE_OFFSET >= WORD
      /\ \A f \in Frames : f \in Nat \ {0} /\ f + PAGE_OFFSET < WORD
  BY DirectMapAssumption
<1>4. \A f \in Frames : va(f) = f + PAGE_OFFSET
  <2> SUFFICES ASSUME NEW f \in Frames
               PROVE  va(f) = f + PAGE_OFFSET
    OBVIOUS
  <2>1. f + PAGE_OFFSET \in Nat /\ f + PAGE_OFFSET < WORD
    BY <1>3
  <2> QED
    BY <1>1, <1>3, <2>1 DEF va
<1>5. va(va(a)) = a + 2 * PAGE_OFFSET - WORD
  <2> DEFINE k == a + 2 * PAGE_OFFSET - WORD
  <2>1. k \in Nat /\ k < WORD /\ k + WORD = (a + PAGE_OFFSET) + PAGE_OFFSET
    BY <1>3
  <2> HIDE DEF k
  <2>2. va(va(a)) = (k + WORD) % WORD
    BY <1>4, <2>1 DEF va
  <2>3. (k + WORD) % WORD = k
    BY <1>2, <1>3, <2>1
  <2> QED
    BY <2>2, <2>3 DEF k
<1> QED
  BY <1>3, <1>4, <1>5

\* A free frame becomes a page directory.
LEMMA TakeDirectory ==
  ASSUME NEW t, Sound(t), NEW d \in PDs, t.pd[d] = NONE, NEW f \in t.free,
         NEW u \in Tables, u.pd = [t.pd EXCEPT ![d] = f], u.pt = t.pt, u.pte = t.pte,
         u.free = t.free \ {f}
  PROVE  Sound(u) /\ (AllUsed(t) => AllUsed(u))
<1>0. t \in Tables /\ f \in Frames /\ f # NONE /\ t.pd \in [PDs -> Frames \cup {NONE}]
  BY Constants, TableFields DEF Sound
<1>1. /\ u.pd[d] = f /\ \A c \in PDs \ {d} : u.pd[c] = t.pd[c]
      /\ \A c \in PDs : t.pd[c] # f
  BY <1>0 DEF Sound, Exclusive
<1>2. Filled(u) /\ Nested(u)
  BY <1>0, <1>1 DEF Sound, Filled, Nested
<1>3. Exclusive(u)
  BY <1>0, <1>1 DEF Sound, Exclusive
<1>4. AllUsed(t) => AllUsed(u)
  BY <1>0, <1>1, Constants DEF AllUsed
<1> QED
  BY <1>2, <1>3, <1>4 DEF Sound

\* A free frame becomes a page table.
LEMMA TakeTable ==
  ASSUME NEW t, Sound(t), NEW w \in VPages, t.pd[pd_of(w)] # NONE, t.pt[pt_of(w)] = NONE,
         NEW f \in t.free,
         NEW u \in Tables, u.pd = t.pd, u.pt = [t.pt EXCEPT ![pt_of(w)] = f], u.pte = t.pte,
         u.free = t.free \ {f}
  PROVE  Sound(u) /\ (AllUsed(t) => AllUsed(u))
<1> DEFINE p == pt_of(w)
<1>0. /\ t \in Tables /\ f \in Frames /\ f # NONE /\ p \in PTs
      /\ t.pt \in [PTs -> Frames \cup {NONE}]
  BY Constants, TableFields DEF Sound
<1> HIDE DEF p
<1>1. /\ u.pt[p] = f /\ \A q \in PTs \ {p} : u.pt[q] = t.pt[q]
      /\ \A q \in PTs : t.pt[q] # f
  BY <1>0 DEF Sound, Exclusive, p
<1>2. Filled(u)
  BY DEF Sound, Filled
<1>3. Nested(u)
  <2> SUFFICES ASSUME NEW v \in VPages
               PROVE  /\ u.pte[v].present => u.pt[pt_of(v)] # NONE
                      /\ u.pt[pt_of(v)] # NONE => u.pd[pd_of(v)] # NONE
    BY DEF Nested
  <2>1. CASE pt_of(v) = p
    <3>1. pd_of(v) = pd_of(w)
      BY <2>1, TablesNest DEF p
    <3> QED
      BY <1>0, <1>1, <2>1, <3>1
  <2>2. CASE pt_of(v) # p
    <3>1. pt_of(v) \in PTs \ {p}
      BY <2>2, Constants
    <3> QED
      BY <1>1, <3>1 DEF Sound, Nested
  <2> QED
    BY <2>1, <2>2
<1>4. Exclusive(u)
  BY <1>0, <1>1 DEF Sound, Exclusive
<1>5. AllUsed(t) => AllUsed(u)
  BY <1>0, <1>1, Constants DEF AllUsed, p
<1> QED
  BY <1>2, <1>3, <1>4, <1>5 DEF Sound

\* A free frame becomes a page, in a table that is there.
LEMMA TakePage ==
  ASSUME NEW t, Sound(t), NEW v \in VPages, ~t.pte[v].present, t.pt[pt_of(v)] # NONE,
         NEW f \in t.free, NEW e \in Entry, e.present, e.base = f,
         NEW u \in Tables, u.pd = t.pd, u.pt = t.pt, u.pte = [t.pte EXCEPT ![v] = e],
         u.free = t.free \ {f}
  PROVE  Sound(u) /\ (AllUsed(t) => AllUsed(u))
<1>0. t \in Tables /\ f \in Frames /\ f # NONE /\ t.pte \in [VPages -> Entry]
  BY Constants, TableFields DEF Sound
<1>1. /\ u.pte[v] = e /\ \A w \in VPages \ {v} : u.pte[w] = t.pte[w]
      /\ \A w \in VPages : t.pte[w].present => t.pte[w].base # f
  BY <1>0 DEF Sound, Exclusive
<1>2. Filled(u) /\ Nested(u)
  BY <1>0, <1>1 DEF Sound, Filled, Nested
<1>3. Exclusive(u)
  BY <1>0, <1>1 DEF Sound, Exclusive
<1>4. AllUsed(t) => AllUsed(u)
  BY <1>0, <1>1 DEF AllUsed
<1> QED
  BY <1>2, <1>3, <1>4 DEF Sound

\* A page gives its frame back and its entry holds a slot.
LEMMA GivePage ==
  ASSUME NEW t, Sound(t), NEW v \in VPages, t.pte[v].present,
         NEW e \in Entry, ~e.present, e.base \in Slots,
         NEW u \in Tables, u.pd = t.pd, u.pt = t.pt, u.pte = [t.pte EXCEPT ![v] = e],
         u.free = t.free \cup {t.pte[v].base}
  PROVE  Sound(u) /\ (AllUsed(t) => AllUsed(u))
<1> DEFINE f == t.pte[v].base
<1>0. /\ t \in Tables /\ t.pte \in [VPages -> Entry] /\ f \in Frames
      /\ \A w \in VPages \ {v} : t.pte[w].present => t.pte[w].base # f
      /\ \A d \in PDs : t.pd[d] # f
      /\ \A p \in PTs : t.pt[p] # f
  BY TableFields DEF Sound, Filled, Exclusive
<1>1. u.pte[v] = e /\ \A w \in VPages \ {v} : u.pte[w] = t.pte[w]
  BY <1>0
<1> HIDE DEF f
<1>2. Filled(u) /\ Nested(u)
  BY <1>0, <1>1 DEF Sound, Filled, Nested
<1>3. Exclusive(u)
  <2>1. u.free = t.free \cup {f}
    BY DEF f
  <2>2. \A g \in u.free : /\ \A d \in PDs : u.pd[d] # g
                          /\ \A p \in PTs : u.pt[p] # g
                          /\ \A w \in VPages : u.pte[w].present => u.pte[w].base # g
    BY <1>0, <1>1, <2>1 DEF Sound, Exclusive
  <2>3. /\ \A w \in VPages : u.pte[w].present => w # v /\ u.pte[w] = t.pte[w]
        /\ u.pd = t.pd /\ u.pt = t.pt
    BY <1>1
  <2> QED
    BY <2>2, <2>3 DEF Sound, Exclusive
<1>4. AllUsed(t) => AllUsed(u)
  <2> SUFFICES ASSUME AllUsed(t), NEW g \in Frames
               PROVE  \/ g \in u.free
                      \/ \E d \in PDs : u.pd[d] = g
                      \/ \E p \in PTs : u.pt[p] = g
                      \/ \E w \in VPages : u.pte[w].present /\ u.pte[w].base = g
    BY DEF AllUsed
  <2>1. CASE g = f
    BY <2>1 DEF f
  <2>2. CASE g # f
    BY <1>1, <2>2 DEF AllUsed, f
  <2> QED
    BY <2>1, <2>2
<1> QED
  BY <1>2, <1>3, <1>4 DEF Sound

\* The dirty and accessed bits of an entry change.
LEMMA TouchPage ==
  ASSUME NEW t, Sound(t), NEW v \in VPages,
         NEW e \in Entry, e.present = t.pte[v].present, e.base = t.pte[v].base,
         NEW u \in Tables, u.pd = t.pd, u.pt = t.pt, u.pte = [t.pte EXCEPT ![v] = e],
         u.free = t.free
  PROVE  Sound(u) /\ (AllUsed(t) => AllUsed(u))
<1>0. t \in Tables /\ t.pte \in [VPages -> Entry]
  BY TableFields DEF Sound
<1>1. \A w \in VPages : u.pte[w].present = t.pte[w].present /\ u.pte[w].base = t.pte[w].base
  BY <1>0
<1>2. Filled(u) /\ Nested(u)
  BY <1>1 DEF Sound, Filled, Nested
<1>3. Exclusive(u)
  BY <1>1 DEF Sound, Exclusive
<1>4. AllUsed(t) => AllUsed(u)
  BY <1>1 DEF AllUsed
<1> QED
  BY <1>2, <1>3, <1>4 DEF Sound

\* Entries are cleared and no frame becomes free.
LEMMA DropEntries ==
  ASSUME NEW t, Sound(t), NEW u \in Tables, Filled(u), Nested(u), u.free = t.free,
         \A d \in PDs : u.pd[d] \in {t.pd[d], NONE},
         \A p \in PTs : u.pt[p] \in {t.pt[p], NONE},
         \A v \in VPages : u.pte[v].present => t.pte[v].present /\ u.pte[v].base = t.pte[v].base
  PROVE  Sound(u)
<1>1. NONE \notin Frames /\ u.free \in SUBSET Frames
  BY Constants, TableFields
<1>2. \A v \in VPages : u.pte[v].present => u.pte[v].base # NONE
  BY <1>1 DEF Filled
<1>3. Exclusive(u)
  BY <1>1, <1>2 DEF Sound, Exclusive
<1> QED
  BY <1>3 DEF Sound

\* What attempt_free_physical_address does at each level, given that the
\* tables above are there: the entry is cleared, the frames stay taken.
LEMMA ClearPte ==
  ASSUME SwapPages # 0, NEW t, Sound(t), NEW v \in VPages, t.pte[v].present
  PROVE  LET u == clear_pte(t, v)
         IN  /\ Sound(u) /\ u.free = t.free /\ u.pd = t.pd /\ u.pt = t.pt
             /\ ~u.pte[v].present
             /\ \A w \in VPages \ {v} : u.pte[w] = t.pte[w]
<1> DEFINE u == clear_pte(t, v)
           e == [t.pte[v] EXCEPT !.present = FALSE, !.base = 0]
<1>0. /\ t \in Tables /\ t.pte \in [VPages -> Entry] /\ t.pte[v] \in Entry
      /\ t.pte[v].base \in Frames /\ 0 \in Slots
  BY TableFields, FirstSlot DEF Sound, Filled
<1>1. e \in Entry /\ ~e.present /\ e.base = 0
  BY <1>0 DEF Entry
<1>2. petmem_free_pages(t, va(t.pte[v].base)) = t
  <2>1. t.free \cup {f \in Frames : va(f) = va(va(t.pte[v].base))} = t.free
    BY <1>0, FreesNoFrame
  <2>2. [t EXCEPT !.free = t.free] = t
    BY <1>0 DEF Tables
  <2> QED
    BY <2>1, <2>2, Zenon DEF petmem_free_pages
<1>3. u = [t EXCEPT !.pte = [t.pte EXCEPT ![v] = e]]
  <2>1. u = [t EXCEPT !.pte[v].present = FALSE, !.pte[v].base = 0]
    BY <1>2 DEF clear_pte
  <2> QED
    BY <1>0, <2>1 DEF Tables
<1> HIDE DEF u, e
<1>4. /\ u \in Tables /\ u.pd = t.pd /\ u.pt = t.pt /\ u.free = t.free
      /\ u.pte = [t.pte EXCEPT ![v] = e]
  BY <1>0, <1>1, <1>3 DEF Tables
<1>5. u.pte[v] = e /\ \A w \in VPages \ {v} : u.pte[w] = t.pte[w]
  BY <1>0, <1>4
<1>6. Filled(u) /\ Nested(u)
  BY <1>0, <1>1, <1>4, <1>5 DEF Sound, Filled, Nested
<1>7. Sound(u)
  <2>1. \A w \in VPages : u.pte[w].present =>
          t.pte[w].present /\ u.pte[w].base = t.pte[w].base
    BY <1>1, <1>5
  <2> QED
    BY <1>4, <1>6, <2>1, DropEntries
<1> QED
  BY <1>1, <1>4, <1>5, <1>7 DEF u

\* The page table, when no entry of it is left.
LEMMA ClearPde ==
  ASSUME SwapPages # 0, NEW t, Sound(t), NEW v \in VPages, t.pt[pt_of(v)] # NONE
  PROVE  LET u == clear_pde(t, v)
         IN  /\ Sound(u) /\ u.free = t.free /\ u.pd = t.pd
             /\ \A w \in VPages : u.pte[w].present => t.pte[w].present
<1> DEFINE u == clear_pde(t, v)
           p == pt_of(v)
           c == [w \in VPages |-> IF pt_of(w) = p THEN zero_entry ELSE t.pte[w]]
<1>0. /\ t \in Tables /\ t.pte \in [VPages -> Entry] /\ t.pt \in [PTs -> Frames \cup {NONE}]
      /\ p \in PTs /\ t.pt[p] \in Frames /\ 0 \in Slots
  BY TableFields, FirstSlot, Constants DEF Sound
<1>1. CASE pt_in_use(t, p)
  BY <1>1 DEF clear_pde
<1>2. CASE ~pt_in_use(t, p)
  <2>1. petmem_free_pages(t, va(t.pt[p])) = t
    <3>1. t.free \cup {f \in Frames : va(f) = va(va(t.pt[p]))} = t.free
      BY <1>0, FreesNoFrame
    <3>2. [t EXCEPT !.free = t.free] = t
      BY <1>0 DEF Tables
    <3> QED
      BY <3>1, <3>2, Zenon DEF petmem_free_pages
  <2>2. u = [t EXCEPT !.pt = [t.pt EXCEPT ![p] = NONE], !.pte = c]
    BY <1>2, <2>1 DEF clear_pde
  <2>3. c \in [VPages -> Entry]
    BY <1>0 DEF zero_entry, Entry
  <2>4. \A w \in VPages : c[w] = IF pt_of(w) = p THEN zero_entry ELSE t.pte[w]
    OBVIOUS
  <2>5. \A w \in VPages : pt_of(w) = p => ~t.pte[w].present
    BY <1>2 DEF pt_in_use
  <2> HIDE DEF u, c, p
  <2>6. /\ u \in Tables /\ u.pd = t.pd /\ u.pt = [t.pt EXCEPT ![p] = NONE] /\ u.pte = c
        /\ u.free = t.free
    BY <1>0, <2>2, <2>3 DEF Tables
  <2>7. \A q \in PTs : u.pt[q] = IF q = p THEN NONE ELSE t.pt[q]
    BY <1>0, <2>6
  <2>8. /\ zero_entry.base = 0 /\ ~zero_entry.present
    BY DEF zero_entry
  <2>9. Filled(u)
    BY <1>0, <2>4, <2>6, <2>8 DEF Sound, Filled
  <2>10. Nested(u)
    BY <2>4, <2>6, <2>7, <2>8, Constants DEF Sound, Nested
  <2>11. \A w \in VPages : u.pte[w].present => t.pte[w].present /\ u.pte[w] = t.pte[w]
    BY <2>4, <2>6, <2>8
  <2>12. Sound(u)
    <3>1. /\ \A d \in PDs : u.pd[d] \in {t.pd[d], NONE}
          /\ \A q \in PTs : u.pt[q] \in {t.pt[q], NONE}
          /\ \A w \in VPages :
               u.pte[w].present => t.pte[w].present /\ u.pte[w].base = t.pte[w].base
      BY <2>6, <2>7, <2>11
    <3> QED
      BY <2>6, <2>9, <2>10, <3>1, DropEntries, Zenon
  <2> QED
    BY <2>6, <2>11, <2>12 DEF u
<1> QED
  BY <1>1, <1>2

\* The page directory, when no table of it is left.
LEMMA ClearPdpe ==
  ASSUME NEW t, Sound(t), NEW v \in VPages, t.pd[pd_of(v)] # NONE
  PROVE  LET u == clear_pdpe(t, v)
         IN  Sound(u) /\ u.free = t.free /\ u.pte = t.pte
<1> DEFINE u == clear_pdpe(t, v)
           d == pd_of(v)
<1>0. /\ t \in Tables /\ t.pd \in [PDs -> Frames \cup {NONE}]
      /\ d \in PDs /\ t.pd[d] \in Frames
  BY TableFields, Constants DEF Sound
<1>1. CASE t.pt[pt_of(v)] # NONE \/ pd_in_use(t, d)
  BY <1>1 DEF clear_pdpe
<1>2. CASE ~(t.pt[pt_of(v)] # NONE \/ pd_in_use(t, d))
  <2>1. petmem_free_pages(t, va(t.pd[d])) = t
    <3>1. t.free \cup {f \in Frames : va(f) = va(va(t.pd[d]))} = t.free
      BY <1>0, FreesNoFrame
    <3>2. [t EXCEPT !.free = t.free] = t
      BY <1>0 DEF Tables
    <3> QED
      BY <3>1, <3>2, Zenon DEF petmem_free_pages
  <2>2. u = [t EXCEPT !.pd = [t.pd EXCEPT ![d] = NONE]]
    BY <1>2, <2>1 DEF clear_pdpe
  <2>3. \A w \in VPages : pd_of(w) = d => t.pt[pt_of(w)] = NONE
    BY <1>2 DEF pd_in_use
  <2> HIDE DEF u, d
  <2>4. /\ u \in Tables /\ u.pd = [t.pd EXCEPT ![d] = NONE] /\ u.pt = t.pt /\ u.pte = t.pte
        /\ u.free = t.free
    BY <1>0, <2>2 DEF Tables
  <2>5. \A c \in PDs : u.pd[c] = IF c = d THEN NONE ELSE t.pd[c]
    BY <1>0, <2>4
  <2>6. Filled(u)
    BY <2>4 DEF Sound, Filled
  <2>7. Nested(u)
    BY <2>3, <2>4, <2>5, Constants DEF Sound, Nested
  <2>8. Sound(u)
    BY <2>4, <2>5, <2>6, <2>7, DropEntries
  <2> QED
    BY <2>4, <2>8 DEF u
<1> QED
  BY <1>1, <1>2

\* attempt_free_physical_address takes page v down, maps nothing and gives
\* no frame back.
LEMMA AttemptFree ==
  ASSUME SwapPages # 0, NEW t, Sound(t), NEW v
  PROVE  LET u == attempt_free_physical_address(t, v)
         IN  /\ Sound(u) /\ u.free = t.free
             /\ \A w \in VPages : u.pte[w].present => t.pte[w].present /\ w # v
<1>1. CASE mapped(t, v)
  <2> DEFINE a == clear_pte(t, v)
             b == clear_pde(a, v)
             c == clear_pdpe(b, v)
  <2>0. /\ v \in VPages /\ t.pte[v].present
        /\ t.pd[pd_of(v)] # NONE /\ t.pt[pt_of(v)] # NONE
    BY <1>1 DEF mapped
  <2>1. /\ Sound(a) /\ a.free = t.free /\ a.pd = t.pd /\ a.pt = t.pt
        /\ ~a.pte[v].present
        /\ \A w \in VPages \ {v} : a.pte[w] = t.pte[w]
    BY <2>0, ClearPte
  <2> HIDE DEF a
  <2>2. /\ Sound(b) /\ b.free = a.free /\ b.pd = a.pd
        /\ \A w \in VPages : b.pte[w].present => a.pte[w].present
    BY <2>0, <2>1, ClearPde
  <2> HIDE DEF b
  <2>3. Sound(c) /\ c.free = b.free /\ c.pte = b.pte
    BY <2>0, <2>1, <2>2, ClearPdpe
  <2>4. attempt_free_physical_address(t, v) = c
    BY <1>1 DEF attempt_free_physical_address, a, b
  <2> HIDE DEF c
  <2> QED
    BY <2>1, <2>2, <2>3, <2>4
<1>2. CASE ~mapped(t, v)
  <2>1. attempt_free_physical_address(t, v) = t
    BY <1>2 DEF attempt_free_physical_address
  <2>2. \A w \in VPages : t.pte[w].present => w # v
    BY <1>2 DEF mapped, Sound, Nested
  <2> QED
    BY <2>1, <2>2
<1> QED
  BY <1>1, <1>2

-----------------------------------------------------------------------------
(* The swap space and the list of regions. *)

Values == VPages \cup {0, NONE}
SwapStates == [map : Maps, file : [Slots -> Values]]

\* What swap_out_page gives; when a slot is free it takes one, marks it and
\* writes the page there.
LEMMA SwapOutFacts ==
  ASSUME SwapPages # 0, NEW sw \in SwapStates, NEW x \in Values
  PROVE  LET out == swap_out_page(sw, x, TRUE)
         IN  /\ out.map \in Maps /\ out.file \in [Slots -> Values] /\ out.index \in Slots
             /\ free_slots(sw.map) # {} =>
                  /\ out.index \in free_slots(sw.map)
                  /\ free_slots(out.map) = free_slots(sw.map) \ {out.index}
                  /\ SwapPages =< INT_PAGES => out.file = [sw.file EXCEPT ![out.index] = x]
<1> DEFINE out == swap_out_page(sw, x, TRUE)
           i == Min(free_slots(sw.map))
<1>0. sw.map \in Maps /\ sw.file \in [Slots -> Values]
  BY DEF SwapStates
<1>1. CASE free_slots(sw.map) = {}
  <2>1. out = [map |-> sw.map, file |-> sw.file, index |-> 0]
    BY <1>1 DEF swap_out_page
  <2> HIDE DEF out
  <2>2. out.map = sw.map /\ out.file = sw.file /\ out.index = 0
    BY <2>1
  <2> USE DEF out
  <2> QED
    BY <1>0, <1>1, <2>2, FirstSlot
<1>2. CASE free_slots(sw.map) # {}
  <2> DEFINE file == file_write(sw.file, x, int_offset(i), TRUE)
  <2>1. i \in free_slots(sw.map) /\ i \in Slots
    BY <1>2, FoundSlotIsFree
  <2>2. out = [map |-> put_value(sw.map, i, 1), file |-> file, index |-> i]
    BY <1>2, Zenon DEF swap_out_page
  <2> HIDE DEF i
  <2>3. /\ put_value(sw.map, i, 1) \in Maps
        /\ free_slots(put_value(sw.map, i, 1)) = free_slots(sw.map) \ {i}
    BY <1>0, <2>1, PutValue, MarkSlot
  <2>4. file \in [Slots -> Values]
    BY <1>0 DEF file_write
  <2>5. SwapPages =< INT_PAGES => file = [sw.file EXCEPT ![i] = x]
    <3> SUFFICES ASSUME SwapPages =< INT_PAGES
                 PROVE  file = [sw.file EXCEPT ![i] = x]
      OBVIOUS
    <3>1. int_offset(i) = i
      BY <2>1, OffsetsExact
    <3> QED
      BY <1>0, <2>1, <3>1 DEF file_write
  <2> HIDE DEF file, out
  <2>6. out.map = put_value(sw.map, i, 1) /\ out.file = file /\ out.index = i
    BY <2>2
  <2>7. /\ out.map \in Maps /\ out.file \in [Slots -> Values] /\ out.index \in Slots
        /\ out.index \in free_slots(sw.map)
        /\ free_slots(out.map) = free_slots(sw.map) \ {out.index}
        /\ SwapPages =< INT_PAGES => out.file = [sw.file EXCEPT ![out.index] = x]
    BY <2>1, <2>3, <2>4, <2>5, <2>6, Zenon
  <2> QED
    BY <2>7, Zenon DEF out
<1> QED
  BY <1>1, <1>2, Zenon

\* What swap_in_page gives for an index: the page of some slot, of that one
\* if the offset fits, and the bitmap with that slot free.
LEMMA SwapInFacts ==
  ASSUME NEW sw \in SwapStates, NEW i \in Slots
  PROVE  LET in == swap_in_page(sw, i)
         IN  /\ in.map \in Maps /\ in.page \in Values
             /\ free_slots(in.map) = free_slots(sw.map) \cup {i}
             /\ SwapPages =< INT_PAGES => in.page = sw.file[i]
<1> DEFINE in == swap_in_page(sw, i)
<1>0. sw.map \in Maps /\ sw.file \in [Slots -> Values]
  BY DEF SwapStates
<1>1. u32_offset(i) \in Slots
  <2>1. i \in Nat /\ i < SwapPages /\ SwapPages \in Nat
    BY SwapAssumption DEF Slots
  <2>2. \A m \in Nat, n \in Nat \ {0} : m % n \in Nat /\ m % n =< m
    OBVIOUS
  <2>3. 2 * INT_PAGES \in Nat \ {0}
    BY SwapAssumption
  <2>4. i % (2 * INT_PAGES) \in Nat /\ i % (2 * INT_PAGES) =< i
    BY <2>1, <2>2, <2>3
  <2> QED
    BY <2>1, <2>4 DEF u32_offset, Slots
<1>2. /\ put_value(sw.map, i, 0) \in Maps
      /\ free_slots(put_value(sw.map, i, 0)) = free_slots(sw.map) \cup {i}
  BY <1>0, PutValue, ClearSlot
<1>3. in.map = put_value(sw.map, i, 0) /\ in.page = sw.file[u32_offset(i)]
  BY DEF swap_in_page, file_read
<1>4. SwapPages =< INT_PAGES => u32_offset(i) = i
  BY OffsetsExact
<1> HIDE DEF in
<1>5. /\ in.map \in Maps /\ in.page \in Values
      /\ free_slots(in.map) = free_slots(sw.map) \cup {i}
      /\ SwapPages =< INT_PAGES => in.page = sw.file[i]
  BY <1>0, <1>1, <1>2, <1>3, <1>4, Zenon
<1> QED
  BY <1>5, Zenon DEF in

\* How long the list is after allocate.
LEMMA AllocateLength ==
  ASSUME NEW s \in Seq(Region), NEW i \in 1 .. Len(s), NEW n \in Nat, s[i].size >= n
  PROVE  Len(allocate(s, i, n)) = Len(s) \/ Len(allocate(s, i, n)) = Len(s) + 1
BY AllocateCases DEF Marked, Split

\* And after free_address: as many shorter as nodes were merged.
LEMMA FreeLength ==
  ASSUME NEW s, Tiled(s), NEW i \in 1 .. Len(s)
  PROVE  LET page == s[i].page_addr
             next == i < Len(s) /\ mergeable(s[i + 1], page)
             prev == i > 1 /\ mergeable(s[i - 1], page)
         IN  Len(free_address(s, i, page)) =
               Len(s) - (IF next THEN 1 ELSE 0) - (IF prev THEN 1 ELSE 0)
<1> DEFINE page == s[i].page_addr
           next == i < Len(s) /\ mergeable(s[i + 1], page)
           prev == i > 1 /\ mergeable(s[i - 1], page)
           a == [s EXCEPT ![i].status = FREE]
           b == absorb_next(a, i, page)
           c == absorb_prev(b, i, page)
<1>0. s \in Seq(Region) /\ Len(s) \in Nat
  BY DEF Tiled
<1>1. Marked(s, i, FREE, a)
  BY <1>0, SetStatus
<1>2. Tiled(a) /\ a[i].page_addr = page /\ a[i].status = FREE
  BY FreeMark
<1> HIDE DEF a
<1>3. /\ a \in Seq(Region) /\ Len(a) = Len(s)
      /\ \A k \in (1 .. Len(s)) \ {i} : a[k] = s[k]
  BY <1>1 DEF Marked
<1>4. next <=> i < Len(a) /\ mergeable(a[i + 1], page)
  BY <1>0, <1>3
<1>5. IF next THEN Merged(a, i, b) ELSE b = a
  BY <1>2, <1>3, <1>4, AbsorbNextCases
<1>6. /\ b \in Seq(Region) /\ i \in 1 .. Len(b) /\ b[i].status = FREE
      /\ i > 1 => b[i - 1] = s[i - 1]
      /\ Len(b) = Len(s) - (IF next THEN 1 ELSE 0)
  <2>1. i > 1 => i - 1 \in (1 .. Len(s)) \ {i} /\ i - 1 \in 1 .. i - 1
    BY <1>0
  <2> HIDE DEF b
  <2>2. CASE next
    <3>1. /\ b \in Seq(Region) /\ Len(b) = Len(a) - 1 /\ b[i].status = FREE
          /\ \A k \in 1 .. i - 1 : b[k] = a[k]
      BY <1>5, <2>2 DEF Merged
    <3> HIDE DEF page
    <3> QED
      BY <1>0, <1>3, <2>1, <2>2, <3>1
  <2>3. CASE ~next
    <3> HIDE DEF next, page
    <3> QED
      BY <1>0, <1>2, <1>3, <1>5, <2>1, <2>3
  <2> QED
    BY <2>2, <2>3
<1> HIDE DEF b
<1>7. prev <=> i > 1 /\ mergeable(b[i - 1], page)
  BY <1>6
<1>8. IF prev THEN Merged(b, i - 1, c) ELSE c = b
  BY <1>6, <1>7, AbsorbPrevCases
<1>9. Len(c) = Len(b) - (IF prev THEN 1 ELSE 0)
  <2>0. Len(b) \in Nat
    BY <1>6
  <2> HIDE DEF prev, c
  <2>1. CASE prev
    BY <1>8, <2>1 DEF Merged
  <2>2. CASE ~prev
    BY <1>8, <2>0, <2>2
  <2> QED
    BY <2>1, <2>2
<1>10. free_address(s, i, page) = c
  BY DEF free_address, a, b
<1> HIDE DEF c, prev, next
<1>11. Len(free_address(s, i, page)) =
         Len(s) - (IF next THEN 1 ELSE 0) - (IF prev THEN 1 ELSE 0)
  BY <1>6, <1>9, <1>10
<1> QED
  BY <1>11 DEF next, prev

-----------------------------------------------------------------------------
(* The invariant of every process, whether it frees memory or not. *)

Handling == {"walk", "swapin", "clock"}
Freeing == {"free", "flush"}
Ending == {"release", "closed"}
Calls ==
  [pc  : {"user", "killed", "oops"} \cup Handling \cup Freeing \cup Ending,
   v   : VPages \cup {NONE},
   pos : Nat,
   i   : Nat,
   ret : {"user", "walk", "swapin"},
   buf : Values]

\* The page call.v has left its slot and waits for a frame.
bringing == call.pc = "swapin" \/ (call.pc = "clock" /\ call.ret = "swapin")

\* The list covers the address range until the end of the process empties
\* it, and the clock hand is in it or dangling.
ListInv ==
  /\ call.pc \notin Ending => Tiled(regions)
  /\ call.pc = "release" => /\ regions \in Seq(Region) /\ Len(regions) >= 1
                            /\ \A k \in 1 .. Len(regions) : regions[k].size =< RegionPages
  /\ call.pc = "closed" => regions = << >>
  /\ clock_hand \in DANGLING .. Len(regions)
  /\ call.pc \in Ending => clock_hand = 0

\* The local variables of a call fit where it is: the page that faulted is
\* not present; a loop over a region has not passed its end.
CallInv ==
  /\ call \in Calls
  /\ call.pc \in Handling => call.v \in VPages /\ ~pgt.pte[call.v].present
  /\ bringing => pgt.pt[pt_of(call.v)] # NONE /\ pgt.pte[call.v].dirty
  /\ call.pc = "clock" => /\ call.ret \in {"walk", "swapin"}
                          /\ call.pos \in 0 .. Len(regions) /\ clock_hand # DANGLING
  /\ call.pc \in Freeing => call.pos \in 1 .. Len(regions) /\ call.i =< regions[call.pos].size
  /\ call.pc = "release" => call.pos = 1 /\ call.i =< regions[1].size

DataInv ==
  /\ mem \in [Frames -> Values]
  /\ swap \in SwapStates
  /\ want \in [VPages -> Values]
  /\ tlb \subseteq VPages \X Frames

PagingInv == ListInv /\ Sound(pgt) /\ CallInv /\ DataInv

\* A step changes one entry and the free frames.
EntryStep(v, e, F) ==
  /\ pgt' \in Tables /\ pgt'.pd = pgt.pd /\ pgt'.pt = pgt.pt
  /\ pgt'.pte = [pgt.pte EXCEPT ![v] = e] /\ pgt'.free = F

\* The fields after such a step.
LEMMA OneEntry ==
  ASSUME pgt \in Tables, NEW v \in VPages, NEW e \in Entry, NEW F \in SUBSET Frames,
         pgt' = [pgt EXCEPT !.pte = [pgt.pte EXCEPT ![v] = e], !.free = F]
  PROVE  /\ EntryStep(v, e, F)
         /\ pgt'.pte[v] = e /\ \A w \in VPages \ {v} : pgt'.pte[w] = pgt.pte[w]
<1>1. pgt.pte \in [VPages -> Entry]
  BY TableFields
<1>2. EntryStep(v, e, F)
  BY <1>1 DEF EntryStep, Tables
<1> QED
  BY <1>1, <1>2 DEF EntryStep

\* An entry is a record of its four fields.
LEMMA EntryFields ==
  ASSUME NEW e \in Entry
  PROVE  /\ e = [present |-> e.present, dirty |-> e.dirty, accessed |-> e.accessed,
                 base |-> e.base]
         /\ e.present \in BOOLEAN /\ e.dirty \in BOOLEAN /\ e.accessed \in BOOLEAN
         /\ e.base \in Nat
BY DEF Entry

\* Four fields are an entry.
LEMMA NewEntry ==
  ASSUME NEW p \in BOOLEAN, NEW d \in BOOLEAN, NEW a \in BOOLEAN, NEW b \in Nat
  PROVE  [present |-> p, dirty |-> d, accessed |-> a, base |-> b] \in Entry
BY DEF Entry

\* An entry with other values in some of its fields.
LEMMA ChangedEntry ==
  ASSUME NEW e \in Entry, NEW p \in BOOLEAN, NEW d \in BOOLEAN, NEW a \in BOOLEAN, NEW b \in Nat
  PROVE  /\ [e EXCEPT !.accessed = a] =
              [present |-> e.present, dirty |-> e.dirty, accessed |-> a, base |-> e.base]
         /\ [e EXCEPT !.accessed = a, !.dirty = d] =
              [present |-> e.present, dirty |-> d, accessed |-> a, base |-> e.base]
         /\ [e EXCEPT !.present = p, !.base = b] =
              [present |-> p, dirty |-> e.dirty, accessed |-> e.accessed, base |-> b]
         /\ [e EXCEPT !.present = p, !.dirty = d, !.base = b] =
              [present |-> p, dirty |-> d, accessed |-> e.accessed, base |-> b]
<1>1. [e EXCEPT !.accessed = a] =
        [present |-> e.present, dirty |-> e.dirty, accessed |-> a, base |-> e.base]
  <2> DEFINE u == [e EXCEPT !.accessed = a]
  <2>1. /\ u \in Entry /\ u.present = e.present /\ u.dirty = e.dirty
        /\ u.accessed = a /\ u.base = e.base
    BY DEF Entry
  <2> HIDE DEF u
  <2>2. u = [present |-> u.present, dirty |-> u.dirty, accessed |-> u.accessed, base |-> u.base]
    BY <2>1, EntryFields
  <2> QED
    BY <2>1, <2>2 DEF u
<1>2. [e EXCEPT !.accessed = a, !.dirty = d] =
        [present |-> e.present, dirty |-> d, accessed |-> a, base |-> e.base]
  <2> DEFINE u == [e EXCEPT !.accessed = a, !.dirty = d]
  <2>1. /\ u \in Entry /\ u.present = e.present /\ u.dirty = d
        /\ u.accessed = a /\ u.base = e.base
    BY DEF Entry
  <2> HIDE DEF u
  <2>2. u = [present |-> u.present, dirty |-> u.dirty, accessed |-> u.accessed, base |-> u.base]
    BY <2>1, EntryFields
  <2> QED
    BY <2>1, <2>2 DEF u
<1>3. [e EXCEPT !.present = p, !.base = b] =
        [present |-> p, dirty |-> e.dirty, accessed |-> e.accessed, base |-> b]
  <2> DEFINE u == [e EXCEPT !.present = p, !.base = b]
  <2>1. /\ u \in Entry /\ u.present = p /\ u.dirty = e.dirty
        /\ u.accessed = e.accessed /\ u.base = b
    BY DEF Entry
  <2> HIDE DEF u
  <2>2. u = [present |-> u.present, dirty |-> u.dirty, accessed |-> u.accessed, base |-> u.base]
    BY <2>1, EntryFields
  <2> QED
    BY <2>1, <2>2 DEF u
<1>4. [e EXCEPT !.present = p, !.dirty = d, !.base = b] =
        [present |-> p, dirty |-> d, accessed |-> e.accessed, base |-> b]
  <2> DEFINE u == [e EXCEPT !.present = p, !.dirty = d, !.base = b]
  <2>1. /\ u \in Entry /\ u.present = p /\ u.dirty = d
        /\ u.accessed = e.accessed /\ u.base = b
    BY DEF Entry
  <2> HIDE DEF u
  <2>2. u = [present |-> u.present, dirty |-> u.dirty, accessed |-> u.accessed, base |-> u.base]
    BY <2>1, EntryFields
  <2> QED
    BY <2>1, <2>2 DEF u
<1> QED
  BY <1>1, <1>2, <1>3, <1>4

\* A load sets the accessed bit.
LEMMA UserReadStep ==
  ASSUME PagingInv, NEW v \in VPages, UserRead(v)
  PROVE  LET e == [present |-> TRUE, dirty |-> pgt.pte[v].dirty, accessed |-> TRUE,
                   base |-> pgt.pte[v].base]
         IN  /\ pgt.pte[v].present /\ e \in Entry /\ EntryStep(v, e, pgt.free)
             /\ pgt'.pte[v] = e /\ \A w \in VPages \ {v} : pgt'.pte[w] = pgt.pte[w]
<1> DEFINE e == [present |-> TRUE, dirty |-> pgt.pte[v].dirty, accessed |-> TRUE,
                 base |-> pgt.pte[v].base]
<1>1. pgt \in Tables /\ pgt.pte \in [VPages -> Entry] /\ pgt.pte[v] \in Entry
  BY TableFields DEF PagingInv, Sound
<1>2. pgt.pte[v].present /\ pgt' = [pgt EXCEPT !.pte[v].accessed = TRUE]
  BY DEF UserRead, mapped
<1>3. /\ pgt.pte[v].present = TRUE /\ pgt.pte[v].dirty \in BOOLEAN
      /\ pgt.pte[v].base \in Nat
  BY <1>1, <1>2, EntryFields
<1>4. e \in Entry /\ [pgt.pte[v] EXCEPT !.accessed = TRUE] = e
  BY <1>1, <1>3, NewEntry, ChangedEntry
<1> HIDE DEF e
<1>5. pgt' = [pgt EXCEPT !.pte = [pgt.pte EXCEPT ![v] = e], !.free = pgt.free]
  BY <1>1, <1>2, <1>4 DEF Tables
<1>6. pgt.free \in SUBSET Frames
  BY <1>1, TableFields
<1>7. /\ EntryStep(v, e, pgt.free)
      /\ pgt'.pte[v] = e /\ \A w \in VPages \ {v} : pgt'.pte[w] = pgt.pte[w]
  BY <1>1, <1>2, <1>4, <1>5, <1>6, OneEntry
<1> QED
  BY <1>2, <1>4, <1>7 DEF e

\* A store sets the dirty bit too.
LEMMA UserWriteStep ==
  ASSUME PagingInv, NEW v \in VPages, NEW x, UserWrite(v, x)
  PROVE  LET e == [present |-> TRUE, dirty |-> TRUE, accessed |-> TRUE,
                   base |-> pgt.pte[v].base]
         IN  /\ pgt.pte[v].present /\ e \in Entry /\ EntryStep(v, e, pgt.free)
             /\ pgt'.pte[v] = e /\ \A w \in VPages \ {v} : pgt'.pte[w] = pgt.pte[w]
<1> DEFINE e == [present |-> TRUE, dirty |-> TRUE, accessed |-> TRUE, base |-> pgt.pte[v].base]
<1>1. pgt \in Tables /\ pgt.pte \in [VPages -> Entry] /\ pgt.pte[v] \in Entry
  BY TableFields DEF PagingInv, Sound
<1>2. /\ pgt.pte[v].present
      /\ pgt' = [pgt EXCEPT !.pte[v].accessed = TRUE, !.pte[v].dirty = TRUE]
  BY DEF UserWrite, mapped
<1>3. /\ pgt.pte[v].present = TRUE /\ pgt.pte[v].dirty \in BOOLEAN
      /\ pgt.pte[v].base \in Nat
  BY <1>1, <1>2, EntryFields
<1>4. e \in Entry /\ [pgt.pte[v] EXCEPT !.accessed = TRUE, !.dirty = TRUE] = e
  BY <1>1, <1>3, NewEntry, ChangedEntry
<1> HIDE DEF e
<1>5. pgt' = [pgt EXCEPT !.pte = [pgt.pte EXCEPT ![v] = e], !.free = pgt.free]
  BY <1>1, <1>2, <1>4 DEF Tables
<1>6. pgt.free \in SUBSET Frames
  BY <1>1, TableFields
<1>7. /\ EntryStep(v, e, pgt.free)
      /\ pgt'.pte[v] = e /\ \A w \in VPages \ {v} : pgt'.pte[w] = pgt.pte[w]
  BY <1>1, <1>2, <1>4, <1>5, <1>6, OneEntry
<1> QED
  BY <1>2, <1>4, <1>7 DEF e

\* A new page takes a free frame.
LEMMA WalkPageStep ==
  ASSUME PagingInv, NEW f \in Frames, WalkPage(f)
  PROVE  LET v == call.v
             e == [present |-> TRUE, dirty |-> FALSE, accessed |-> pgt.pte[v].accessed,
                   base |-> f]
         IN  /\ v \in VPages /\ ~pgt.pte[v].present /\ ~pgt.pte[v].dirty
             /\ pgt.pt[pt_of(v)] # NONE
             /\ e \in Entry /\ f \in pgt.free /\ EntryStep(v, e, pgt.free \ {f})
             /\ pgt'.pte[v] = e /\ \A w \in VPages \ {v} : pgt'.pte[w] = pgt.pte[w]
<1> DEFINE v == call.v
           e == [present |-> TRUE, dirty |-> FALSE, accessed |-> pgt.pte[v].accessed,
                 base |-> f]
<1>0. call.pc = "walk" /\ level = "new" /\ f \in pgt.free
  BY DEF WalkPage
<1>1. v \in VPages /\ ~pgt.pte[v].present
  BY <1>0 DEF PagingInv, CallInv, Handling
<1>2. ~pgt.pte[v].dirty /\ pgt.pt[pt_of(v)] # NONE
  BY <1>0 DEF level
<1>3. pgt' = [pgt EXCEPT !.pte[v].present = TRUE, !.pte[v].base = f, !.free = @ \ {f}]
  BY DEF WalkPage
<1>4. pgt \in Tables /\ pgt.pte \in [VPages -> Entry] /\ f \in Nat
  BY TableFields, Constants DEF PagingInv, Sound
<1> HIDE DEF v
<1>5. /\ pgt.pte[v] \in Entry
      /\ pgt.pte[v].dirty = FALSE /\ pgt.pte[v].accessed \in BOOLEAN
  BY <1>1, <1>2, <1>4, EntryFields
<1>6. e \in Entry /\ [pgt.pte[v] EXCEPT !.present = TRUE, !.base = f] = e
  <2>1. e \in Entry
    BY <1>4, <1>5, NewEntry
  <2>2. [pgt.pte[v] EXCEPT !.present = TRUE, !.base = f] =
          [present |-> TRUE, dirty |-> pgt.pte[v].dirty, accessed |-> pgt.pte[v].accessed,
           base |-> f]
    BY <1>4, <1>5, ChangedEntry
  <2> QED
    BY <1>5, <2>1, <2>2
<1> HIDE DEF e
<1>7. pgt' = [pgt EXCEPT !.pte = [pgt.pte EXCEPT ![v] = e], !.free = pgt.free \ {f}]
  BY <1>1, <1>3, <1>4, <1>6 DEF Tables
<1>8. pgt.free \ {f} \in SUBSET Frames
  BY <1>4, TableFields
<1>9. /\ EntryStep(v, e, pgt.free \ {f})
      /\ pgt'.pte[v] = e /\ \A w \in VPages \ {v} : pgt'.pte[w] = pgt.pte[w]
  BY <1>1, <1>4, <1>6, <1>7, <1>8, OneEntry
<1> QED
  BY <1>0, <1>1, <1>2, <1>6, <1>9 DEF e, v

\* So does a page that was swapped in.
LEMMA SwapInMapStep ==
  ASSUME PagingInv, NEW f \in Frames, SwapInMap(f)
  PROVE  LET v == call.v
             e == [present |-> TRUE, dirty |-> FALSE, accessed |-> pgt.pte[v].accessed,
                   base |-> f]
         IN  /\ v \in VPages /\ ~pgt.pte[v].present /\ pgt.pte[v].dirty
             /\ pgt.pt[pt_of(v)] # NONE
             /\ e \in Entry /\ f \in pgt.free /\ EntryStep(v, e, pgt.free \ {f})
             /\ pgt'.pte[v] = e /\ \A w \in VPages \ {v} : pgt'.pte[w] = pgt.pte[w]
<1> DEFINE v == call.v
           e == [present |-> TRUE, dirty |-> FALSE, accessed |-> pgt.pte[v].accessed,
                 base |-> f]
<1>0. call.pc = "swapin" /\ f \in pgt.free
  BY DEF SwapInMap
<1>1. /\ v \in VPages /\ ~pgt.pte[v].present /\ pgt.pte[v].dirty
      /\ pgt.pt[pt_of(v)] # NONE
  BY <1>0 DEF PagingInv, CallInv, Handling, bringing
<1>3. pgt' = [pgt EXCEPT !.pte[v].present = TRUE, !.pte[v].dirty = FALSE,
                         !.pte[v].base = f, !.free = @ \ {f}]
  BY DEF SwapInMap, map_page
<1>4. pgt \in Tables /\ pgt.pte \in [VPages -> Entry] /\ f \in Nat
  BY TableFields, Constants DEF PagingInv, Sound
<1> HIDE DEF v
<1>5. /\ pgt.pte[v] \in Entry
      /\ pgt.pte[v].accessed \in BOOLEAN
  BY <1>1, <1>4, EntryFields
<1>6. e \in Entry /\ [pgt.pte[v] EXCEPT !.present = TRUE, !.dirty = FALSE, !.base = f] = e
  BY <1>4, <1>5, NewEntry, ChangedEntry
<1> HIDE DEF e
<1>7. pgt' = [pgt EXCEPT !.pte = [pgt.pte EXCEPT ![v] = e], !.free = pgt.free \ {f}]
  BY <1>1, <1>3, <1>4, <1>6 DEF Tables
<1>8. pgt.free \ {f} \in SUBSET Frames
  BY <1>4, TableFields
<1>9. /\ EntryStep(v, e, pgt.free \ {f})
      /\ pgt'.pte[v] = e /\ \A w \in VPages \ {v} : pgt'.pte[w] = pgt.pte[w]
  BY <1>1, <1>4, <1>6, <1>7, <1>8, OneEntry
<1> QED
  BY <1>0, <1>1, <1>6, <1>9 DEF e, v

\* The clock clears the accessed bit of a page.
LEMMA ChanceStep ==
  ASSUME PagingInv, NEW v, mapped(pgt, v), second_chance(v)
  PROVE  LET e == [present |-> TRUE, dirty |-> pgt.pte[v].dirty, accessed |-> FALSE,
                   base |-> pgt.pte[v].base]
         IN  /\ v \in VPages /\ pgt.pte[v].present /\ e \in Entry
             /\ EntryStep(v, e, pgt.free)
             /\ pgt'.pte[v] = e /\ \A w \in VPages \ {v} : pgt'.pte[w] = pgt.pte[w]
<1> DEFINE e == [present |-> TRUE, dirty |-> pgt.pte[v].dirty, accessed |-> FALSE,
                 base |-> pgt.pte[v].base]
<1>2. /\ v \in VPages /\ pgt.pte[v].present
      /\ pgt' = [pgt EXCEPT !.pte[v].accessed = FALSE]
  BY DEF second_chance, mapped
<1>1. pgt \in Tables /\ pgt.pte \in [VPages -> Entry] /\ pgt.pte[v] \in Entry
  BY <1>2, TableFields DEF PagingInv, Sound
<1>3. /\ pgt.pte[v].present = TRUE /\ pgt.pte[v].dirty \in BOOLEAN
      /\ pgt.pte[v].base \in Nat
  BY <1>1, <1>2, EntryFields
<1>4. e \in Entry /\ [pgt.pte[v] EXCEPT !.accessed = FALSE] = e
  BY <1>1, <1>3, NewEntry, ChangedEntry
<1> HIDE DEF e
<1>5. pgt' = [pgt EXCEPT !.pte = [pgt.pte EXCEPT ![v] = e], !.free = pgt.free]
  BY <1>1, <1>2, <1>4 DEF Tables
<1>6. pgt.free \in SUBSET Frames
  BY <1>1, TableFields
<1>7. /\ EntryStep(v, e, pgt.free)
      /\ pgt'.pte[v] = e /\ \A w \in VPages \ {v} : pgt'.pte[w] = pgt.pte[w]
  BY <1>1, <1>2, <1>4, <1>5, <1>6, OneEntry
<1> QED
  BY <1>2, <1>4, <1>7 DEF e

\* An evicted page leaves its frame for a slot.
LEMMA EvictStep ==
  ASSUME SwapPages # 0, PagingInv, NEW v, mapped(pgt, v), evict(v)
  PROVE  LET f == pgt.pte[v].base
             out == swap_out_page(swap, mem[f], TRUE)
             e == [present |-> FALSE, dirty |-> TRUE, accessed |-> pgt.pte[v].accessed,
                   base |-> out.index]
         IN  /\ v \in VPages /\ pgt.pte[v].present /\ f \in Frames /\ mem[f] \in Values
             /\ e \in Entry /\ out.index \in Slots
             /\ EntryStep(v, e, pgt.free \cup {f})
             /\ pgt'.pte[v] = e /\ \A w \in VPages \ {v} : pgt'.pte[w] = pgt.pte[w]
             /\ swap' = [map |-> out.map, file |-> out.file]
             /\ mem' = [mem EXCEPT ![f] = NONE]
<1> DEFINE f == pgt.pte[v].base
           out == swap_out_page(swap, mem[f], TRUE)
           e == [present |-> FALSE, dirty |-> TRUE, accessed |-> pgt.pte[v].accessed,
                 base |-> out.index]
<1>0. /\ pgt' = [petmem_free_pages(pgt, f) EXCEPT
                   !.pte[v] = [@ EXCEPT !.present = FALSE, !.dirty = TRUE, !.base = out.index]]
      /\ swap' = [map |-> out.map, file |-> out.file]
      /\ mem' = [mem EXCEPT ![f] = NONE]
  BY DEF evict
<1>1. v \in VPages /\ pgt.pte[v].present
  BY DEF mapped
<1>2. /\ pgt \in Tables /\ pgt.pte \in [VPages -> Entry] /\ pgt.pte[v] \in Entry
      /\ f \in Frames /\ mem \in [Frames -> Values] /\ swap \in SwapStates
  BY <1>1, TableFields DEF PagingInv, Sound, Filled, DataInv
<1>3. mem[f] \in Values
  BY <1>2
<1> HIDE DEF f
<1>4. out.index \in Slots /\ out.index \in Nat
  BY <1>2, <1>3, SwapOutFacts, Constants
<1> HIDE DEF out
<1>5. pgt.pte[v].accessed \in BOOLEAN
  BY <1>2, EntryFields
<1>6. /\ e \in Entry
      /\ [pgt.pte[v] EXCEPT !.present = FALSE, !.dirty = TRUE, !.base = out.index] = e
  BY <1>2, <1>4, <1>5, NewEntry, ChangedEntry
<1> HIDE DEF e
<1>7. petmem_free_pages(pgt, f) = [pgt EXCEPT !.free = pgt.free \cup {f}]
  BY <1>2, FreesTheFrame, Zenon DEF petmem_free_pages
<1>8. pgt' = [pgt EXCEPT !.pte = [pgt.pte EXCEPT ![v] = e], !.free = pgt.free \cup {f}]
  BY <1>0, <1>1, <1>2, <1>6, <1>7 DEF Tables
<1>9. pgt.free \cup {f} \in SUBSET Frames
  BY <1>2, TableFields
<1>10. /\ EntryStep(v, e, pgt.free \cup {f})
       /\ pgt'.pte[v] = e /\ \A w \in VPages \ {v} : pgt'.pte[w] = pgt.pte[w]
  BY <1>1, <1>2, <1>6, <1>8, <1>9, OneEntry
<1> QED
  BY <1>0, <1>1, <1>2, <1>3, <1>4, <1>6, <1>10 DEF e, out, f

\* A new table takes a free frame; no entry of a page changes.
LEMMA WalkTableStep ==
  ASSUME PagingInv, NEW f \in Frames, WalkTable(f)
  PROVE  /\ f \in pgt.free /\ Sound(pgt') /\ pgt'.pte = pgt.pte /\ pgt'.free = pgt.free \ {f}
         /\ AllUsed(pgt) => AllUsed(pgt')
<1> DEFINE v == call.v
<1>0. call.pc = "walk" /\ f \in pgt.free /\ fill_table(f)
  BY DEF WalkTable
<1>1. v \in VPages /\ pd_of(v) \in PDs /\ pt_of(v) \in PTs
  BY <1>0, Constants DEF PagingInv, CallInv, Handling
<1>2. Sound(pgt) /\ pgt \in Tables
  BY DEF PagingInv, Sound
<1>3. CASE level = "pd"
  <2>0. pgt.pd[pd_of(v)] = NONE /\ f \in pgt.free
    BY <1>0, <1>3 DEF level
  <2>1. pgt' = [pgt EXCEPT !.pd[pd_of(v)] = f, !.free = @ \ {f}]
    BY <1>0, <1>3 DEF fill_table
  <2> HIDE DEF v
  <2>2. /\ pgt' \in Tables /\ pgt'.pd = [pgt.pd EXCEPT ![pd_of(v)] = f]
        /\ pgt'.pt = pgt.pt /\ pgt'.pte = pgt.pte /\ pgt'.free = pgt.free \ {f}
    BY <1>1, <1>2, <2>1 DEF Tables
  <2>3. Sound(pgt') /\ (AllUsed(pgt) => AllUsed(pgt'))
    BY <1>1, <1>2, <2>0, <2>2, TakeDirectory, Zenon
  <2> QED
    BY <1>0, <2>2, <2>3
<1>4. CASE level # "pd"
  <2>0. pgt.pd[pd_of(v)] # NONE /\ pgt.pt[pt_of(v)] = NONE /\ f \in pgt.free
    BY <1>0, <1>4 DEF fill_table, level
  <2>1. pgt' = [pgt EXCEPT !.pt[pt_of(v)] = f, !.free = @ \ {f}]
    BY <1>0, <1>4 DEF fill_table
  <2> HIDE DEF v
  <2>2. /\ pgt' \in Tables /\ pgt'.pt = [pgt.pt EXCEPT ![pt_of(v)] = f]
        /\ pgt'.pd = pgt.pd /\ pgt'.pte = pgt.pte /\ pgt'.free = pgt.free \ {f}
    BY <1>1, <1>2, <2>1 DEF Tables
  <2>3. Sound(pgt') /\ (AllUsed(pgt) => AllUsed(pgt'))
    BY <1>1, <1>2, <2>0, <2>2, TakeTable, Zenon
  <2> QED
    BY <1>0, <2>2, <2>3
<1> QED
  BY <1>3, <1>4

\* The fields of a call.
LEMMA CallFields ==
  ASSUME call \in Calls
  PROVE  /\ call.pc \in {"user", "killed", "oops"} \cup Handling \cup Freeing \cup Ending
         /\ call.v \in VPages \cup {NONE} /\ call.pos \in Nat /\ call.i \in Nat
         /\ call.ret \in {"user", "walk", "swapin"} /\ call.buf \in Values
BY DEF Calls

\* The call that is none.
LEMMA IdleCall == Idle \in Calls /\ Idle.pc = "user" /\ Idle.i = 0 /\ Idle.pos = 0
BY DEF Idle, Calls, Values

\* LAZY_ALLOC.
LEMMA PetMallocInv ==
  ASSUME PagingInv, NEW n \in Sizes, PetMalloc(n)
  PROVE  PagingInv'
<1>0. n \in Nat
  BY SizesAssumption
<1>1. PICK i \in DOMAIN regions :
        /\ call.pc = "user"
        /\ first_fit(regions, i, n)
        /\ regions' = allocate(regions, i, n)
        /\ \/ clock_hand' = IF clock_hand > i /\ Len(regions') > Len(regions)
                            THEN clock_hand + 1 ELSE clock_hand
           \/ /\ clock_hand = DANGLING
              /\ Len(regions') > Len(regions)
              /\ clock_hand' = i + 1
        /\ UNCHANGED <<swap, pgt, mem, tlb, call, want>>
  BY DEF PetMalloc
<1>2. /\ Tiled(regions) /\ regions \in Seq(Region) /\ Len(regions) \in Nat
      /\ clock_hand \in DANGLING .. Len(regions)
  BY <1>1 DEF PagingInv, ListInv, Tiled, Ending
<1>3. i \in 1 .. Len(regions) /\ regions[i].status = FREE /\ regions[i].size >= n
  BY <1>1, <1>2 DEF first_fit
<1>4. Tiled(regions')
  BY <1>0, <1>1, <1>2, <1>3, AllocateKeeps
<1>5. Len(regions') = Len(regions) \/ Len(regions') = Len(regions) + 1
  BY <1>0, <1>1, <1>2, <1>3, AllocateLength
<1>6. clock_hand' \in DANGLING .. Len(regions')
  BY <1>1, <1>2, <1>3, <1>5 DEF DANGLING
<1>7. ListInv'
  BY <1>1, <1>4, <1>6 DEF ListInv, Ending
<1>8. CallInv'
  BY <1>1 DEF PagingInv, CallInv, bringing, Handling, Freeing
<1>9. DataInv' /\ Sound(pgt')
  BY <1>1 DEF PagingInv, DataInv
<1> QED
  BY <1>7, <1>8, <1>9 DEF PagingInv

\* LAZY_FREE finds its region.
LEMMA PetFreeInv ==
  ASSUME PagingInv, NEW page \in VPages, PetFree(page)
  PROVE  PagingInv'
<1>1. PICK i \in DOMAIN regions :
        /\ call.pc = "user"
        /\ call' = [Idle EXCEPT !.pc = "free", !.pos = i]
        /\ want' = [v \in VPages |->
                      IF v \in page .. page + regions[i].size - 1 THEN NONE ELSE want[v]]
        /\ UNCHANGED <<regions, clock_hand, swap, pgt, mem, tlb>>
  BY DEF PetFree
<1>2. /\ Tiled(regions) /\ regions \in Seq(Region) /\ Len(regions) \in Nat
      /\ i \in 1 .. Len(regions) /\ regions[i].size \in Nat
  <2>1. Tiled(regions) /\ regions \in Seq(Region) /\ Len(regions) \in Nat
    BY <1>1 DEF PagingInv, ListInv, Tiled, Ending
  <2>2. i \in 1 .. Len(regions)
    BY <1>1, <2>1
  <2> QED
    BY <2>1, <2>2, NodeTypes
<1>3. call' \in Calls /\ call'.pc = "free" /\ call'.pos = i /\ call'.i = 0
  <2>1. call' = [pc |-> "free", v |-> NONE, pos |-> i, i |-> 0, ret |-> "user", buf |-> NONE]
    BY <1>1 DEF Idle
  <2>2. i \in Nat
    BY <1>2
  <2> QED
    BY <2>1, <2>2 DEF Calls, Freeing, Values
<1>4. want' \in [VPages -> Values]
  BY <1>1 DEF PagingInv, DataInv, Values
<1>5. ListInv'
  BY <1>1, <1>2, <1>3 DEF PagingInv, ListInv, Ending
<1>6. CallInv'
  BY <1>1, <1>2, <1>3 DEF CallInv, bringing, Handling, Freeing
<1>7. DataInv' /\ Sound(pgt')
  BY <1>1, <1>4 DEF PagingInv, DataInv
<1> QED
  BY <1>5, <1>6, <1>7 DEF PagingInv

\* One page of a region that is freed, and nothing becomes free by it.
LEMMA FreePageInv ==
  ASSUME SwapPages # 0, PagingInv, FreePage
  PROVE  PagingInv' /\ pgt'.free = pgt.free
<1> DEFINE v == loop_page(regions[call.pos], call.i)
<1>1. /\ call.pc \in {"free", "release"} /\ call.i < regions[call.pos].size
      /\ pgt' = attempt_free_physical_address(pgt, v)
      /\ call' = [call EXCEPT !.i = call.i + 1]
      /\ UNCHANGED <<regions, clock_hand, swap, mem, tlb, want>>
  BY DEF FreePage
<1> HIDE DEF v
<1>2. Sound(pgt') /\ pgt'.free = pgt.free
  BY <1>1, AttemptFree DEF PagingInv
<1>3. /\ call' \in Calls /\ call'.pc = call.pc /\ call'.pos = call.pos
      /\ call'.i = call.i + 1 /\ call.i \in Nat /\ call.pos \in Nat
  BY <1>1 DEF PagingInv, CallInv, Calls
<1>4. call.pos \in 1 .. Len(regions) /\ regions[call.pos].size \in Nat
  <2>1. regions \in Seq(Region) /\ Len(regions) \in Nat /\ Len(regions) >= 1
    BY <1>1 DEF PagingInv, ListInv, Tiled, Ending
  <2>2. call.pos \in 1 .. Len(regions)
    BY <1>1, <2>1 DEF PagingInv, CallInv, Freeing
  <2> QED
    BY <2>1, <2>2, NodeTypes
<1>5. ListInv'
  BY <1>1, <1>3 DEF PagingInv, ListInv
<1>6. CallInv'
  BY <1>1, <1>3, <1>4 DEF PagingInv, CallInv, bringing, Handling, Freeing
<1>7. DataInv'
  BY <1>1 DEF PagingInv, DataInv
<1> QED
  BY <1>2, <1>5, <1>6, <1>7 DEF PagingInv

\* The flush begins.
LEMMA StartFlushInv ==
  ASSUME PagingInv, StartFlush
  PROVE  PagingInv'
<1>1. /\ call.pc = "free" /\ call' = [call EXCEPT !.pc = "flush", !.i = 0]
      /\ UNCHANGED <<regions, clock_hand, swap, pgt, mem, tlb, want>>
  BY DEF StartFlush
<1>2. call' \in Calls /\ call'.pc = "flush" /\ call'.pos = call.pos /\ call'.i = 0
  BY <1>1 DEF PagingInv, CallInv, Calls, Freeing
<1>3. call.pos \in 1 .. Len(regions) /\ regions[call.pos].size \in Nat
  <2>1. regions \in Seq(Region) /\ call.pos \in 1 .. Len(regions)
    BY <1>1 DEF PagingInv, ListInv, CallInv, Freeing, Tiled, Ending
  <2> QED
    BY <2>1, NodeTypes
<1>4. ListInv'
  BY <1>1, <1>2 DEF PagingInv, ListInv, Ending
<1>5. CallInv'
  BY <1>1, <1>2, <1>3 DEF PagingInv, CallInv, bringing, Handling, Freeing
<1>6. DataInv' /\ Sound(pgt')
  BY <1>1 DEF PagingInv, DataInv
<1> QED
  BY <1>4, <1>5, <1>6 DEF PagingInv

\* One translation is flushed.
LEMMA FlushPageInv ==
  ASSUME PagingInv, FlushPage
  PROVE  PagingInv'
<1>1. /\ call.pc = "flush" /\ call.i < regions[call.pos].size
      /\ tlb' \subseteq tlb
      /\ call' = [call EXCEPT !.i = call.i + 1]
      /\ UNCHANGED <<regions, clock_hand, swap, pgt, mem, want>>
  BY DEF FlushPage, invlpg
<1>2. /\ call' \in Calls /\ call'.pc = "flush" /\ call'.pos = call.pos
      /\ call'.i = call.i + 1 /\ call.i \in Nat
  BY <1>1 DEF PagingInv, CallInv, Calls
<1>3. call.pos \in 1 .. Len(regions) /\ regions[call.pos].size \in Nat
  <2>1. regions \in Seq(Region) /\ call.pos \in 1 .. Len(regions)
    BY <1>1 DEF PagingInv, ListInv, CallInv, Freeing, Tiled, Ending
  <2> QED
    BY <2>1, NodeTypes
<1>4. ListInv'
  BY <1>1, <1>2 DEF PagingInv, ListInv, Ending
<1>5. CallInv'
  BY <1>1, <1>2, <1>3 DEF PagingInv, CallInv, bringing, Handling, Freeing
<1>6. DataInv' /\ Sound(pgt')
  BY <1>1 DEF PagingInv, DataInv
<1> QED
  BY <1>4, <1>5, <1>6 DEF PagingInv

\* The region is merged with its neighbours: the clock hand stays inside the
\* list or dangles.
LEMMA CoalesceInv ==
  ASSUME PagingInv, Coalesce
  PROVE  PagingInv'
<1> DEFINE i == call.pos
           page == regions[i].page_addr
           next == i < Len(regions) /\ mergeable(regions[i + 1], page)
           prev == i > 1 /\ mergeable(regions[i - 1], page)
<1>1. /\ call.pc = "flush"
      /\ regions' = free_address(regions, i, page)
      /\ clock_hand' = IF (next /\ clock_hand = i + 1) \/ (prev /\ clock_hand = i - 1)
                       THEN DANGLING
                       ELSE clock_hand - (IF prev /\ clock_hand >= i THEN 1 ELSE 0)
                                       - (IF next /\ clock_hand > i THEN 1 ELSE 0)
      /\ call' = Idle
      /\ UNCHANGED <<swap, pgt, mem, tlb, want>>
  BY DEF Coalesce
<1>2. /\ Tiled(regions) /\ Len(regions) \in Nat /\ i \in 1 .. Len(regions)
      /\ clock_hand \in DANGLING .. Len(regions)
  BY <1>1 DEF PagingInv, ListInv, CallInv, Freeing, Tiled, Ending
<1>3. Tiled(regions')
  BY <1>1, <1>2, FreeKeeps
<1>4. Len(regions') = Len(regions) - (IF next THEN 1 ELSE 0) - (IF prev THEN 1 ELSE 0)
  BY <1>1, <1>2, FreeLength
<1>5. (next => i < Len(regions)) /\ (prev => i > 1)
  OBVIOUS
<1> HIDE DEF next, prev, page, i
<1>6. clock_hand' \in DANGLING .. Len(regions')
  BY <1>1, <1>2, <1>4, <1>5 DEF DANGLING
<1>7. ListInv'
  BY <1>1, <1>3, <1>6, IdleCall DEF ListInv, Ending
<1>8. CallInv'
  BY <1>1, IdleCall DEF CallInv, bringing, Handling, Freeing
<1>9. DataInv' /\ Sound(pgt')
  BY <1>1 DEF PagingInv, DataInv
<1> QED
  BY <1>7, <1>8, <1>9 DEF PagingInv

\* A load.
LEMMA UserReadInv ==
  ASSUME PagingInv, NEW v \in VPages, UserRead(v)
  PROVE  PagingInv' /\ (AllUsed(pgt) => AllUsed(pgt'))
<1> DEFINE e == [present |-> TRUE, dirty |-> pgt.pte[v].dirty, accessed |-> TRUE,
                 base |-> pgt.pte[v].base]
<1>1. /\ pgt.pte[v].present /\ e \in Entry /\ EntryStep(v, e, pgt.free)
  BY UserReadStep
<1>2. e.present = pgt.pte[v].present /\ e.base = pgt.pte[v].base
  BY <1>1, EntryFields, TableFields DEF PagingInv, Sound
<1> HIDE DEF e
<1>3. Sound(pgt') /\ (AllUsed(pgt) => AllUsed(pgt'))
  BY <1>1, <1>2, TouchPage DEF EntryStep, PagingInv
<1>4. call.pc = "user" /\ UNCHANGED <<regions, clock_hand, swap, mem, tlb, call, want>>
  BY DEF UserRead
<1>5. ListInv'
  BY <1>4 DEF PagingInv, ListInv
<1>6. CallInv'
  BY <1>4 DEF PagingInv, CallInv, bringing, Handling, Freeing
<1>7. DataInv'
  BY <1>4 DEF PagingInv, DataInv
<1> QED
  BY <1>3, <1>5, <1>6, <1>7 DEF PagingInv

\* A store.
LEMMA UserWriteInv ==
  ASSUME PagingInv, NEW v \in VPages, NEW x \in {0, v}, UserWrite(v, x)
  PROVE  PagingInv' /\ (AllUsed(pgt) => AllUsed(pgt'))
<1> DEFINE e == [present |-> TRUE, dirty |-> TRUE, accessed |-> TRUE,
                 base |-> pgt.pte[v].base]
<1>1. /\ pgt.pte[v].present /\ e \in Entry /\ EntryStep(v, e, pgt.free)
  BY UserWriteStep
<1>2. e.present = pgt.pte[v].present /\ e.base = pgt.pte[v].base
  BY <1>1, EntryFields, TableFields DEF PagingInv, Sound
<1> HIDE DEF e
<1>3. Sound(pgt') /\ (AllUsed(pgt) => AllUsed(pgt'))
  BY <1>1, <1>2, TouchPage DEF EntryStep, PagingInv
<1>4. /\ call.pc = "user" /\ UNCHANGED <<regions, clock_hand, swap, call>>
      /\ mem' = [mem EXCEPT ![pgt.pte[v].base] = x]
      /\ want' = [want EXCEPT ![v] = x]
      /\ tlb' \subseteq tlb \cup {<<v, pgt.pte[v].base>>}
  BY DEF UserWrite
<1>5. ListInv'
  BY <1>4 DEF PagingInv, ListInv
<1>6. CallInv'
  BY <1>4 DEF PagingInv, CallInv, bringing, Handling, Freeing
<1>7. DataInv'
  <2>1. x \in Values /\ pgt.pte[v].base \in Frames
    BY <1>1 DEF Values, PagingInv, Sound, Filled
  <2> QED
    BY <1>4, <2>1 DEF PagingInv, DataInv
<1> QED
  BY <1>3, <1>5, <1>6, <1>7 DEF PagingInv

\* A store by a translation the processor has kept.
LEMMA TlbWriteInv ==
  ASSUME PagingInv, NEW v \in VPages, NEW x \in {0, v}, TlbWrite(v, x)
  PROVE  PagingInv'
<1>1. PICK e \in tlb : /\ mem' = [mem EXCEPT ![e[2]] = x]
                       /\ want' = [want EXCEPT ![v] = x]
                       /\ UNCHANGED <<regions, clock_hand, swap, pgt, tlb, call>>
  BY DEF TlbWrite
<1>2. ListInv'
  BY <1>1 DEF PagingInv, ListInv
<1>3. CallInv'
  BY <1>1 DEF PagingInv, CallInv, bringing
<1>4. DataInv'
  <2>1. x \in Values
    BY DEF Values
  <2> QED
    BY <1>1, <2>1 DEF PagingInv, DataInv
<1>5. Sound(pgt')
  BY <1>1 DEF PagingInv
<1> QED
  BY <1>2, <1>3, <1>4, <1>5 DEF PagingInv

\* A translation disappears.
LEMMA TlbForgetInv ==
  ASSUME PagingInv, NEW e \in tlb, TlbForget(e)
  PROVE  PagingInv'
<1>1. /\ tlb' \subseteq tlb
      /\ UNCHANGED <<regions, clock_hand, swap, pgt, mem, call, want>>
  BY DEF TlbForget
<1>2. ListInv' /\ CallInv'
  BY <1>1 DEF PagingInv, ListInv, CallInv, bringing
<1>3. DataInv' /\ Sound(pgt')
  BY <1>1 DEF PagingInv, DataInv
<1> QED
  BY <1>2, <1>3 DEF PagingInv

\* The handler is entered, for a page that is not present.
LEMMA FaultInv ==
  ASSUME PagingInv, NEW v \in VPages, Fault(v)
  PROVE  PagingInv'
<1>1. /\ call.pc = "user" /\ ~mapped(pgt, v)
      /\ UNCHANGED <<regions, clock_hand, swap, pgt, mem, tlb, want>>
  BY DEF Fault
<1>2. PICK pc \in {"walk", "killed"} : call' = [Idle EXCEPT !.pc = pc, !.v = v]
  BY DEF Fault
<1>3. ~pgt.pte[v].present
  BY <1>1 DEF mapped, PagingInv, Sound, Nested
<1>4. call' \in Calls /\ call'.pc = pc /\ call'.v = v
  <2>1. call' = [pc |-> pc, v |-> v, pos |-> 0, i |-> 0, ret |-> "user", buf |-> NONE]
    BY <1>2 DEF Idle
  <2> QED
    BY <2>1 DEF Calls, Handling, Values
<1>5. ListInv'
  BY <1>1, <1>4 DEF PagingInv, ListInv, Ending
<1>6. CallInv'
  BY <1>1, <1>3, <1>4 DEF CallInv, bringing, Handling, Freeing
<1>7. DataInv' /\ Sound(pgt')
  BY <1>1 DEF PagingInv, DataInv
<1> QED
  BY <1>5, <1>6, <1>7 DEF PagingInv

\* A table is filled in.
LEMMA WalkTableInv ==
  ASSUME PagingInv, NEW f \in Frames, WalkTable(f)
  PROVE  PagingInv'
<1>1. Sound(pgt') /\ pgt'.pte = pgt.pte
  BY WalkTableStep
<1>2. /\ call.pc = "walk" /\ mem' = [mem EXCEPT ![f] = 0]
      /\ UNCHANGED <<regions, clock_hand, swap, tlb, call, want>>
  BY DEF WalkTable
<1>3. ListInv'
  BY <1>2 DEF PagingInv, ListInv
<1>4. CallInv'
  BY <1>1, <1>2 DEF PagingInv, CallInv, bringing, Handling
<1>5. DataInv'
  BY <1>2 DEF PagingInv, DataInv, Values
<1> QED
  BY <1>1, <1>3, <1>4, <1>5 DEF PagingInv

\* A page is filled in.
LEMMA WalkPageInv ==
  ASSUME PagingInv, NEW f \in Frames, WalkPage(f)
  PROVE  PagingInv' /\ (AllUsed(pgt) => AllUsed(pgt'))
<1> DEFINE v == call.v
           e == [present |-> TRUE, dirty |-> FALSE, accessed |-> pgt.pte[v].accessed,
                 base |-> f]
<1>1. /\ v \in VPages /\ ~pgt.pte[v].present /\ pgt.pt[pt_of(v)] # NONE
      /\ e \in Entry /\ f \in pgt.free /\ EntryStep(v, e, pgt.free \ {f})
  BY WalkPageStep
<1>2. e.present /\ e.base = f
  OBVIOUS
<1> HIDE DEF e, v
<1>3. Sound(pgt') /\ (AllUsed(pgt) => AllUsed(pgt'))
  BY <1>1, <1>2, TakePage DEF EntryStep, PagingInv
<1>4. /\ call.pc = "walk" /\ mem' = [mem EXCEPT ![f] = 0] /\ call' = Idle
      /\ UNCHANGED <<regions, clock_hand, swap, tlb, want>>
  BY DEF WalkPage
<1>5. ListInv'
  BY <1>4, IdleCall DEF PagingInv, ListInv, Ending
<1>6. CallInv'
  BY <1>4, IdleCall DEF CallInv, bringing, Handling, Freeing
<1>7. DataInv'
  BY <1>4 DEF PagingInv, DataInv, Values
<1> QED
  BY <1>3, <1>5, <1>6, <1>7 DEF PagingInv

\* A page that was swapped out is read.
LEMMA WalkSwapInInv ==
  ASSUME PagingInv, WalkSwapIn
  PROVE  PagingInv'
<1> DEFINE v == call.v
           in == swap_in_page(swap, pgt.pte[v].base)
<1>1. /\ call.pc = "walk" /\ level = "swapped"
      /\ swap' = [swap EXCEPT !.map = in.map]
      /\ call' = [call EXCEPT !.pc = "swapin", !.buf = in.page]
      /\ UNCHANGED <<regions, clock_hand, pgt, mem, tlb, want>>
  BY DEF WalkSwapIn
<1>2. v \in VPages /\ ~pgt.pte[v].present /\ call \in Calls /\ swap \in SwapStates
  BY <1>1 DEF PagingInv, CallInv, DataInv, Handling
<1>3. pgt.pte[v].dirty /\ pgt.pt[pt_of(v)] # NONE
  BY <1>1 DEF level
<1>4. pgt.pte[v].base \in Slots
  BY <1>2 DEF PagingInv, Sound, Filled
<1>5. in.map \in Maps /\ in.page \in Values
  BY <1>2, <1>4, SwapInFacts
<1> HIDE DEF in
<1>6. swap' \in SwapStates
  BY <1>1, <1>2, <1>5 DEF SwapStates
<1>7. call' \in Calls /\ call'.pc = "swapin" /\ call'.v = v
  BY <1>1, <1>2, <1>5 DEF Calls, Handling
<1>8. ListInv'
  BY <1>1, <1>7 DEF PagingInv, ListInv, Ending
<1>9. CallInv'
  BY <1>1, <1>2, <1>3, <1>7 DEF CallInv, bringing, Handling, Freeing
<1>10. DataInv' /\ Sound(pgt')
  BY <1>1, <1>6 DEF PagingInv, DataInv
<1> QED
  BY <1>8, <1>9, <1>10 DEF PagingInv

\* It is mapped.
LEMMA SwapInMapInv ==
  ASSUME PagingInv, NEW f \in Frames, SwapInMap(f)
  PROVE  PagingInv' /\ (AllUsed(pgt) => AllUsed(pgt'))
<1> DEFINE v == call.v
           e == [present |-> TRUE, dirty |-> FALSE, accessed |-> pgt.pte[v].accessed,
                 base |-> f]
<1>1. /\ v \in VPages /\ ~pgt.pte[v].present /\ pgt.pt[pt_of(v)] # NONE
      /\ e \in Entry /\ f \in pgt.free /\ EntryStep(v, e, pgt.free \ {f})
  BY SwapInMapStep
<1>2. e.present /\ e.base = f
  OBVIOUS
<1> HIDE DEF e, v
<1>3. Sound(pgt') /\ (AllUsed(pgt) => AllUsed(pgt'))
  BY <1>1, <1>2, TakePage DEF EntryStep, PagingInv
<1>4. /\ call.pc = "swapin" /\ mem' = [mem EXCEPT ![f] = call.buf] /\ call' = Idle
      /\ UNCHANGED <<regions, clock_hand, swap, tlb, want>>
  BY DEF SwapInMap, map_page
<1>5. ListInv'
  BY <1>4, IdleCall DEF PagingInv, ListInv, Ending
<1>6. CallInv'
  BY <1>4, IdleCall DEF CallInv, bringing, Handling, Freeing
<1>7. DataInv'
  BY <1>4, CallFields DEF PagingInv, DataInv, CallInv
<1> QED
  BY <1>3, <1>5, <1>6, <1>7 DEF PagingInv

\* The ring has one entry more than the list has nodes.
LEMMA RingNext ==
  ASSUME Len(regions) \in Nat, NEW p \in 0 .. Len(regions)
  PROVE  ring_next(p) \in 0 .. Len(regions)
<1>1. p + 1 \in Nat /\ Len(regions) + 1 \in Nat \ {0}
  OBVIOUS
<1>2. (p + 1) % (Len(regions) + 1) \in 0 .. (Len(regions) + 1) - 1
  BY <1>1, Division
<1> QED
  BY <1>2 DEF ring_next

\* The clock starts behind its hand.
LEMMA StartClockInv ==
  ASSUME PagingInv, StartClock
  PROVE  PagingInv'
<1>1. /\ call.pc \in {"swapin", "walk"}
      /\ call' = IF clock_hand = DANGLING
                 THEN [call EXCEPT !.pc = "oops"]
                 ELSE [call EXCEPT !.pc = "clock", !.ret = call.pc, !.pos = ring_next(clock_hand)]
      /\ UNCHANGED <<regions, clock_hand, swap, pgt, mem, tlb, want>>
  BY DEF StartClock
<1>2. /\ call \in Calls /\ Len(regions) \in Nat /\ clock_hand \in DANGLING .. Len(regions)
      /\ call.v \in VPages /\ ~pgt.pte[call.v].present
      /\ call.pc = "swapin" => pgt.pt[pt_of(call.v)] # NONE /\ pgt.pte[call.v].dirty
  BY <1>1 DEF PagingInv, ListInv, CallInv, Tiled, Ending, Handling, bringing
<1>3. DataInv' /\ Sound(pgt')
  BY <1>1 DEF PagingInv, DataInv
<1>4. CASE clock_hand = DANGLING
  <2>1. call' \in Calls /\ call'.pc = "oops"
    BY <1>1, <1>2, <1>4 DEF Calls
  <2>2. ListInv'
    BY <1>1, <2>1 DEF PagingInv, ListInv, Ending
  <2>3. CallInv'
    BY <1>1, <2>1 DEF CallInv, bringing, Handling, Freeing
  <2> QED
    BY <1>3, <2>2, <2>3 DEF PagingInv
<1>5. CASE clock_hand # DANGLING
  <2> DEFINE p == ring_next(clock_hand)
  <2>1. p \in 0 .. Len(regions)
    <3>1. clock_hand \in 0 .. Len(regions)
      BY <1>2, <1>5 DEF DANGLING
    <3> QED
      BY <1>2, <3>1, RingNext
  <2> HIDE DEF p
  <2>2. call' = [call EXCEPT !.pc = "clock", !.ret = call.pc, !.pos = p]
    BY <1>1, <1>5 DEF p
  <2>3. /\ call' \in Calls /\ call'.pc = "clock" /\ call'.v = call.v /\ call'.pos = p
        /\ call'.ret = call.pc
    <3>1. call.pc \in {"swapin", "walk"} /\ p \in Nat
      BY <1>1, <2>1
    <3> QED
      BY <1>2, <2>2, <3>1 DEF Calls, Handling
  <2>4. ListInv'
    BY <1>1, <2>3 DEF PagingInv, ListInv, Ending
  <2>5. CallInv'
    BY <1>1, <1>2, <1>5, <2>1, <2>3 DEF CallInv, bringing, Handling, Freeing
  <2> QED
    BY <1>3, <2>4, <2>5 DEF PagingInv
<1> QED
  BY <1>4, <1>5

\* The clock passes an entry over.
LEMMA PassInv ==
  ASSUME PagingInv, call.pc = "clock", Sound(pgt'), pgt'.pt = pgt.pt,
         \A w \in VPages : /\ pgt'.pte[w].present = pgt.pte[w].present
                           /\ pgt'.pte[w].dirty = pgt.pte[w].dirty,
         call' = [call EXCEPT !.pos = scan_next(call.pos)],
         UNCHANGED <<regions, clock_hand, swap, mem, tlb, want>>
  PROVE  PagingInv'
<1> DEFINE p == scan_next(call.pos)
<1>1. /\ call \in Calls /\ call.v \in VPages /\ ~pgt.pte[call.v].present
      /\ bringing => pgt.pt[pt_of(call.v)] # NONE /\ pgt.pte[call.v].dirty
      /\ call.ret \in {"walk", "swapin"} /\ call.pos \in 0 .. Len(regions)
      /\ clock_hand # DANGLING /\ Len(regions) \in Nat /\ clock_hand \in 0 .. Len(regions)
  BY DEF PagingInv, ListInv, CallInv, Tiled, Ending, Handling, DANGLING
<1>2. p \in 0 .. Len(regions)
  BY <1>1, RingNext DEF scan_next
<1> HIDE DEF p
<1>3. /\ call' \in Calls /\ call'.pc = "clock" /\ call'.v = call.v /\ call'.pos = p
      /\ call'.ret = call.ret
  BY <1>1, <1>2 DEF Calls, p
<1>4. ListInv'
  BY <1>3 DEF PagingInv, ListInv, Ending
<1>5. CallInv'
  BY <1>1, <1>2, <1>3 DEF CallInv, bringing, Handling, Freeing
<1>6. DataInv'
  BY DEF PagingInv, DataInv
<1> QED
  BY <1>4, <1>5, <1>6 DEF PagingInv

\* The three cases of a step of the clock.
LEMMA ClockCases ==
  ASSUME NEW v, ClockStep(v)
  PROVE  /\ call.pc = "clock" /\ UNCHANGED <<regions, tlb, want>>
         /\ \/ /\ UNCHANGED <<clock_hand, swap, pgt, mem>>
               /\ call' = [call EXCEPT !.pos = scan_next(call.pos)]
            \/ /\ mapped(pgt, v) /\ second_chance(v)
               /\ UNCHANGED <<clock_hand, swap, mem>>
               /\ call' = [call EXCEPT !.pos = scan_next(call.pos)]
            \/ /\ mapped(pgt, v) /\ evict(v)
               /\ clock_hand' = ring_next(call.pos)
               /\ call' = [call EXCEPT !.pc = call.ret, !.pos = 0, !.ret = "user"]
BY DEF ClockStep

\* The clock gives a page its second chance.
LEMMA ChanceInv ==
  ASSUME PagingInv, NEW v, mapped(pgt, v), second_chance(v), call.pc = "clock",
         call' = [call EXCEPT !.pos = scan_next(call.pos)],
         UNCHANGED <<regions, clock_hand, swap, mem, tlb, want>>
  PROVE  PagingInv' /\ (AllUsed(pgt) => AllUsed(pgt'))
<1> DEFINE e == [present |-> TRUE, dirty |-> pgt.pte[v].dirty, accessed |-> FALSE,
                 base |-> pgt.pte[v].base]
<1>1. /\ v \in VPages /\ pgt.pte[v].present /\ e \in Entry
      /\ EntryStep(v, e, pgt.free)
      /\ pgt'.pte[v] = e /\ \A w \in VPages \ {v} : pgt'.pte[w] = pgt.pte[w]
  BY ChanceStep
<1>2. /\ e.present = pgt.pte[v].present /\ e.base = pgt.pte[v].base
      /\ e.dirty = pgt.pte[v].dirty
  BY <1>1, EntryFields, TableFields DEF PagingInv, Sound
<1> HIDE DEF e
<1>3. Sound(pgt') /\ (AllUsed(pgt) => AllUsed(pgt')) /\ pgt'.pt = pgt.pt
  BY <1>1, <1>2, TouchPage DEF EntryStep, PagingInv
<1>4. \A w \in VPages : /\ pgt'.pte[w].present = pgt.pte[w].present
                        /\ pgt'.pte[w].dirty = pgt.pte[w].dirty
  BY <1>1, <1>2
<1> QED
  BY <1>3, <1>4, PassInv

\* The clock evicts a page, not the one that faulted.
LEMMA EvictInv ==
  ASSUME SwapPages # 0, PagingInv, NEW v, mapped(pgt, v), evict(v), call.pc = "clock",
         clock_hand' = ring_next(call.pos),
         call' = [call EXCEPT !.pc = call.ret, !.pos = 0, !.ret = "user"],
         UNCHANGED <<regions, tlb, want>>
  PROVE  PagingInv' /\ (AllUsed(pgt) => AllUsed(pgt'))
<1> DEFINE f == pgt.pte[v].base
           out == swap_out_page(swap, mem[f], TRUE)
           e == [present |-> FALSE, dirty |-> TRUE, accessed |-> pgt.pte[v].accessed,
                 base |-> out.index]
<1>1. /\ v \in VPages /\ pgt.pte[v].present /\ f \in Frames /\ mem[f] \in Values
      /\ e \in Entry /\ out.index \in Slots
      /\ EntryStep(v, e, pgt.free \cup {f})
      /\ pgt'.pte[v] = e /\ \A w \in VPages \ {v} : pgt'.pte[w] = pgt.pte[w]
      /\ swap' = [map |-> out.map, file |-> out.file]
      /\ mem' = [mem EXCEPT ![f] = NONE]
  BY EvictStep
<1>2. out.map \in Maps /\ out.file \in [Slots -> Values]
  BY <1>1, SwapOutFacts DEF PagingInv, DataInv
<1>3. ~e.present /\ e.base = out.index
  OBVIOUS
<1> HIDE DEF e, out
<1>4. Sound(pgt') /\ (AllUsed(pgt) => AllUsed(pgt')) /\ pgt'.pt = pgt.pt
  BY <1>1, <1>3, GivePage DEF EntryStep, PagingInv
<1> HIDE DEF f
<1>5. /\ call \in Calls /\ call.v \in VPages /\ ~pgt.pte[call.v].present
      /\ bringing => pgt.pt[pt_of(call.v)] # NONE /\ pgt.pte[call.v].dirty
      /\ call.ret \in {"walk", "swapin"} /\ call.pos \in 0 .. Len(regions)
      /\ Len(regions) \in Nat
  BY DEF PagingInv, ListInv, CallInv, Tiled, Ending, Handling
<1>6. clock_hand' \in 0 .. Len(regions)
  BY <1>5, RingNext
<1>7. call' \in Calls /\ call'.pc = call.ret /\ call'.v = call.v
  BY <1>5 DEF Calls, Handling
<1>8. pgt'.pte[call.v] = pgt.pte[call.v]
  BY <1>1, <1>5
<1>9. ListInv'
  BY <1>5, <1>6, <1>7 DEF PagingInv, ListInv, Ending, DANGLING
<1>10. CallInv'
  BY <1>4, <1>5, <1>7, <1>8 DEF CallInv, bringing, Handling, Freeing
<1>11. DataInv'
  <2>1. swap' \in SwapStates
    BY <1>1, <1>2 DEF SwapStates
  <2>2. mem' \in [Frames -> Values]
    BY <1>1 DEF PagingInv, DataInv, Values
  <2> QED
    BY <2>1, <2>2 DEF PagingInv, DataInv
<1> QED
  BY <1>4, <1>9, <1>10, <1>11 DEF PagingInv

\* Every step of the clock.
LEMMA ClockStepInv ==
  ASSUME SwapPages # 0, PagingInv, NEW v, ClockStep(v)
  PROVE  PagingInv' /\ (AllUsed(pgt) => AllUsed(pgt'))
<1>1. call.pc = "clock" /\ UNCHANGED <<regions, tlb, want>>
  BY ClockCases
<1>2. CASE /\ UNCHANGED <<clock_hand, swap, pgt, mem>>
           /\ call' = [call EXCEPT !.pos = scan_next(call.pos)]
  BY <1>1, <1>2, PassInv DEF PagingInv
<1>3. CASE /\ mapped(pgt, v) /\ second_chance(v)
           /\ UNCHANGED <<clock_hand, swap, mem>>
           /\ call' = [call EXCEPT !.pos = scan_next(call.pos)]
  BY <1>1, <1>3, ChanceInv
<1>4. CASE /\ mapped(pgt, v) /\ evict(v)
           /\ clock_hand' = ring_next(call.pos)
           /\ call' = [call EXCEPT !.pc = call.ret, !.pos = 0, !.ret = "user"]
  BY <1>1, <1>4, EvictInv
<1> QED
  BY <1>2, <1>3, <1>4, ClockCases, Zenon

\* The process has ended.
LEMMA ReleaseInv ==
  ASSUME PagingInv, Release
  PROVE  PagingInv'
<1>1. /\ call.pc \in {"user", "killed"}
      /\ call' = [Idle EXCEPT !.pc = "release", !.pos = 1]
      /\ tlb' = {} /\ want' = [v \in VPages |-> NONE] /\ clock_hand' = 0
      /\ UNCHANGED <<regions, swap, pgt, mem>>
  BY DEF Release
<1>2. Tiled(regions) /\ regions \in Seq(Region) /\ Len(regions) \in Nat /\ Len(regions) >= 1
  BY <1>1 DEF PagingInv, ListInv, Tiled, Ending
<1>3. call' \in Calls /\ call'.pc = "release" /\ call'.pos = 1 /\ call'.i = 0
  <2>1. call' = [pc |-> "release", v |-> NONE, pos |-> 1, i |-> 0, ret |-> "user", buf |-> NONE]
    BY <1>1 DEF Idle
  <2> QED
    BY <2>1 DEF Calls, Ending, Values
<1>4. \A k \in 1 .. Len(regions) : regions[k].size \in Nat /\ regions[k].size =< RegionPages
  <2> SUFFICES ASSUME NEW k \in 1 .. Len(regions)
               PROVE  regions[k].size \in Nat /\ regions[k].size =< RegionPages
    OBVIOUS
  <2>1. regions[k].size \in Nat /\ regions[k].page_addr \in Nat
    BY <1>2, NodeTypes
  <2>2. RegionStart =< regions[k].page_addr /\ regions[k].page_addr + regions[k].size =< RegionEnd
    BY <1>2, InRange
  <2> QED
    BY <2>1, <2>2, Constants DEF RegionEnd
<1>5. ListInv'
  BY <1>1, <1>2, <1>3, <1>4 DEF ListInv, Ending, DANGLING
<1>6. CallInv'
  BY <1>1, <1>2, <1>3, <1>4 DEF CallInv, bringing, Handling, Freeing
<1>7. DataInv' /\ Sound(pgt')
  BY <1>1 DEF PagingInv, DataInv, Values
<1> QED
  BY <1>5, <1>6, <1>7 DEF PagingInv

\* A node is freed when its pages are through.
LEMMA ReleaseNodeInv ==
  ASSUME PagingInv, ReleaseNode
  PROVE  PagingInv'
<1>1. /\ call.pc = "release" /\ call.i = regions[1].size /\ regions' = Tail(regions)
      /\ call' = IF regions' = << >> THEN [Idle EXCEPT !.pc = "closed"] ELSE [call EXCEPT !.i = 0]
      /\ UNCHANGED <<clock_hand, swap, pgt, mem, tlb, want>>
  BY DEF ReleaseNode
<1>2. /\ regions \in Seq(Region) /\ Len(regions) \in Nat /\ Len(regions) >= 1
      /\ \A k \in 1 .. Len(regions) : regions[k].size =< RegionPages
      /\ call \in Calls /\ call.pos = 1 /\ clock_hand = 0
  BY <1>1 DEF PagingInv, ListInv, CallInv, Ending
<1>3. /\ regions' \in Seq(Region) /\ Len(regions') = Len(regions) - 1
      /\ \A k \in 1 .. Len(regions) - 1 : regions'[k] = regions[k + 1]
  BY <1>1, <1>2
<1>4. \A k \in 1 .. Len(regions') : regions'[k].size =< RegionPages /\ regions'[k].size \in Nat
  <2> SUFFICES ASSUME NEW k \in 1 .. Len(regions')
               PROVE  regions'[k].size =< RegionPages /\ regions'[k].size \in Nat
    OBVIOUS
  <2>1. k \in 1 .. Len(regions) - 1 /\ k + 1 \in 1 .. Len(regions)
    BY <1>2, <1>3
  <2> QED
    BY <1>2, <1>3, <2>1, NodeTypes
<1>5. DataInv' /\ Sound(pgt')
  BY <1>1 DEF PagingInv, DataInv
<1>6. CASE regions' = << >>
  <2>1. call' \in Calls /\ call'.pc = "closed"
    BY <1>1, <1>6 DEF Idle, Calls, Ending, Values
  <2>2. ListInv'
    BY <1>1, <1>2, <1>6, <2>1 DEF ListInv, Ending, DANGLING
  <2>3. CallInv'
    BY <2>1 DEF CallInv, bringing, Handling, Freeing
  <2> QED
    BY <1>5, <2>2, <2>3 DEF PagingInv
<1>7. CASE regions' # << >>
  <2>1. call' \in Calls /\ call'.pc = "release" /\ call'.pos = 1 /\ call'.i = 0
    BY <1>1, <1>2, <1>7 DEF Calls
  <2>2. Len(regions') >= 1 /\ Len(regions') \in Nat
    BY <1>3, <1>7
  <2>3. ListInv'
    BY <1>1, <1>2, <1>3, <1>4, <2>1, <2>2 DEF ListInv, Ending, DANGLING
  <2>4. CallInv'
    BY <1>4, <2>1, <2>2 DEF CallInv, bringing, Handling, Freeing
  <2> QED
    BY <1>5, <2>3, <2>4 DEF PagingInv
<1> QED
  BY <1>6, <1>7

\* The state at the start.
LEMMA InitInv ==
  ASSUME SwapPages # 0, Init
  PROVE  PagingInv /\ AllUsed(pgt)
<1>1. first_node \in Region /\ first_node.page_addr = RegionStart
      /\ first_node.size = RegionPages
  BY RegionAssumption DEF first_node, Region
<1>2. regions = <<first_node>> /\ Len(regions) = 1 /\ regions[1] = first_node
      /\ regions \in Seq(Region)
  BY <1>1 DEF Init
<1>3. Tiled(regions)
  BY <1>1, <1>2 DEF Tiled, RegionEnd
<1>4. call = Idle /\ clock_hand = 0
  BY DEF Init
<1>5. ListInv
  BY <1>2, <1>3, <1>4, IdleCall DEF ListInv, Ending, DANGLING
<1>6. CallInv
  BY <1>4, IdleCall DEF CallInv, bringing, Handling, Freeing
<1>7. DataInv
  <2>1. byte_location(SwapPages - 1) \in Nat
    BY SwapAssumption DEF byte_location
  <2>2. swap \in SwapStates
    BY <2>1 DEF Init, SwapStates, Maps, Values
  <2> QED
    BY <2>2 DEF Init, DataInv, Values
<1>8. zero_entry \in Entry /\ ~zero_entry.present /\ zero_entry.base \in Slots
  BY FirstSlot DEF zero_entry, Entry
<1>9. /\ pgt \in Tables /\ pgt.free = Frames
      /\ \A d \in PDs : pgt.pd[d] = NONE
      /\ \A p \in PTs : pgt.pt[p] = NONE
      /\ \A v \in VPages : pgt.pte[v] = zero_entry
  BY <1>8 DEF Init, Tables
<1>10. Sound(pgt)
  BY <1>8, <1>9, Constants DEF Sound, Filled, Nested, Exclusive
<1> QED
  BY <1>5, <1>6, <1>7, <1>9, <1>10 DEF PagingInv, AllUsed

\* Every step keeps the invariant.
LEMMA NextInv ==
  ASSUME SwapPages # 0, PagingInv, [Next]_vars
  PROVE  PagingInv'
<1>1. CASE UNCHANGED vars
  BY <1>1 DEF vars, PagingInv, ListInv, CallInv, DataInv, bringing
<1>2. ASSUME NEW n \in Sizes, PetMalloc(n)
      PROVE  PagingInv'
  BY <1>2, PetMallocInv
<1>3. ASSUME NEW v \in VPages, PetFree(v) \/ UserRead(v) \/ Fault(v)
      PROVE  PagingInv'
  BY <1>3, PetFreeInv, UserReadInv, FaultInv
<1>4. ASSUME NEW v \in VPages, NEW x \in {0, v}, UserWrite(v, x) \/ TlbWrite(v, x)
      PROVE  PagingInv'
  BY <1>4, UserWriteInv, TlbWriteInv
<1>5. ASSUME NEW e \in tlb, TlbForget(e)
      PROVE  PagingInv'
  BY <1>5, TlbForgetInv
<1>6. ASSUME NEW f \in Frames, WalkTable(f) \/ WalkPage(f) \/ SwapInMap(f)
      PROVE  PagingInv'
  BY <1>6, WalkTableInv, WalkPageInv, SwapInMapInv
<1>7. ASSUME NEW v, ClockStep(v)
      PROVE  PagingInv'
  BY <1>7, ClockStepInv
<1>8. CASE WalkSwapIn \/ StartClock
  BY <1>8, WalkSwapInInv, StartClockInv
<1>9. CASE FreePage \/ StartFlush \/ FlushPage \/ Coalesce \/ Release \/ ReleaseNode
  BY <1>9, FreePageInv, StartFlushInv, FlushPageInv, CoalesceInv, ReleaseInv, ReleaseNodeInv
<1> QED
  BY <1>1, <1>2, <1>3, <1>4, <1>5, <1>6, <1>7, <1>8, <1>9 DEF Next, HandlerStep

\* In every reachable state, whatever the process allocates, frees and
\* touches, and wherever the clock hand points.
THEOREM PagingInvariant ==
  ASSUME SwapPages # 0
  PROVE  Spec => []PagingInv
<1>1. Init => PagingInv
  BY InitInv
<1>2. PagingInv /\ [Next]_vars => PagingInv'
  BY NextInv
<1> QED
  BY <1>1, <1>2, PTL DEF Spec

\* The state keeps its types: an entry that is present holds a frame of the
\* pool, and the clock hand is in the list or known to dangle.
THEOREM PagingTypes ==
  ASSUME SwapPages # 0
  PROVE  Spec => []TypeOK
<1>1. PagingInv => TypeOK
  <2> SUFFICES ASSUME PagingInv PROVE TypeOK
    OBVIOUS
  <2>1. /\ pgt.pd \in [PDs -> Frames \cup {NONE}] /\ pgt.pt \in [PTs -> Frames \cup {NONE}]
        /\ pgt.free \subseteq Frames
    BY TableFields DEF PagingInv, Sound
  <2>2. \A v \in VPages : pgt.pte[v].base \in IF pgt.pte[v].present THEN Frames ELSE Nat
    BY Constants DEF PagingInv, Sound, Filled
  <2>3. mem \in [Frames -> VPages \cup {0, NONE}]
    BY DEF PagingInv, DataInv, Values
  <2>4. call.pc \in {"user", "killed", "oops"} \cup Handling \cup Freeing \cup Ending
    BY CallFields DEF PagingInv, CallInv
  <2>5. regions \in Seq(Region) /\ clock_hand \in DANGLING .. Len(regions)
    <3>1. CASE call.pc = "closed"
      BY <3>1 DEF PagingInv, ListInv
    <3>2. CASE call.pc # "closed"
      BY <2>4, <3>2 DEF PagingInv, ListInv, Tiled, Ending
    <3> QED
      BY <3>1, <3>2
  <2> QED
    BY <2>1, <2>2, <2>3, <2>4, <2>5 DEF TypeOK, Handling, Freeing, Ending
<1> QED
  BY <1>1, PagingInvariant, PTL

\* No frame has two uses: evictions, swap-ins, page tables and frees never
\* give a frame to two addresses, or a free one away while it is mapped.
THEOREM PagingFrames ==
  ASSUME SwapPages # 0
  PROVE  Spec => []FrameUsedOnce
<1>1. PagingInv => FrameUsedOnce
  <2> SUFFICES ASSUME PagingInv PROVE FrameUsedOnce
    OBVIOUS
  <2>1. Exclusive(pgt) /\ NONE \notin Frames /\ pgt.free \in SUBSET Frames
    BY Constants, TableFields DEF PagingInv, Sound
  <2>2. \A v \in Mapped : v \in VPages /\ pgt.pte[v].present
    BY DEF Mapped, mapped
  <2>3. \A v \in Mapped : pgt.pte[v].base \notin table_frames \cup pgt.free
    BY <2>1, <2>2 DEF Exclusive, table_frames
  <2>4. table_frames \cap pgt.free = {}
    BY <2>1 DEF Exclusive, table_frames
  <2> QED
    BY <2>1, <2>2, <2>3, <2>4 DEF FrameUsedOnce, Exclusive
<1> QED
  BY <1>1, PagingInvariant, PTL

-----------------------------------------------------------------------------
(* What LAZY_FREE and the end of a process achieve. *)

\* Frames become free only when the clock evicts a page: neither LAZY_FREE
\* nor the end of the process gives one back.
FramesComeBackByEvictionOnly ==
  [][call.pc # "clock" => pgt'.free \subseteq pgt.free]_vars

\* This is the leak that MCPagingLeak finds, for every layout of physical
\* memory and every sequence of calls: attempt_free_physical_address passes
\* a virtual address to petmem_free_pages, which takes it for a physical one.
THEOREM PagingLeaks ==
  ASSUME SwapPages # 0
  PROVE  Spec => FramesComeBackByEvictionOnly
<1>1. PagingInv /\ [Next]_vars => [call.pc # "clock" => pgt'.free \subseteq pgt.free]_vars
  <2> SUFFICES ASSUME PagingInv, Next, call.pc # "clock"
               PROVE  pgt'.free \subseteq pgt.free
    OBVIOUS
  <2>1. ASSUME NEW n \in Sizes, PetMalloc(n)
        PROVE  pgt'.free \subseteq pgt.free
    BY <2>1 DEF PetMalloc
  <2>2. ASSUME NEW v \in VPages, PetFree(v) \/ UserRead(v) \/ Fault(v)
        PROVE  pgt'.free \subseteq pgt.free
    <3>1. CASE PetFree(v) \/ Fault(v)
      BY <3>1 DEF PetFree, Fault
    <3>2. CASE UserRead(v)
      BY <3>2, UserReadStep DEF EntryStep
    <3> QED
      BY <2>2, <3>1, <3>2
  <2>3. ASSUME NEW v \in VPages, NEW x \in {0, v}, UserWrite(v, x) \/ TlbWrite(v, x)
        PROVE  pgt'.free \subseteq pgt.free
    <3>1. CASE TlbWrite(v, x)
      BY <3>1 DEF TlbWrite
    <3>2. CASE UserWrite(v, x)
      BY <3>2, UserWriteStep DEF EntryStep
    <3> QED
      BY <2>3, <3>1, <3>2
  <2>4. ASSUME NEW e \in tlb, TlbForget(e)
        PROVE  pgt'.free \subseteq pgt.free
    BY <2>4 DEF TlbForget
  <2>5. ASSUME NEW f \in Frames, WalkTable(f) \/ WalkPage(f) \/ SwapInMap(f)
        PROVE  pgt'.free \subseteq pgt.free
    BY <2>5, WalkTableStep, WalkPageStep, SwapInMapStep DEF EntryStep
  <2>6. ASSUME NEW v, ClockStep(v)
        PROVE  pgt'.free \subseteq pgt.free
    BY <2>6 DEF ClockStep
  <2>7. CASE WalkSwapIn \/ StartClock
    BY <2>7 DEF WalkSwapIn, StartClock
  <2>8. CASE FreePage
    BY <2>8, FreePageInv
  <2>9. CASE StartFlush \/ FlushPage \/ Coalesce \/ Release \/ ReleaseNode
    BY <2>9 DEF StartFlush, FlushPage, Coalesce, Release, ReleaseNode
  <2> QED
    BY <2>1, <2>2, <2>3, <2>4, <2>5, <2>6, <2>7, <2>8, <2>9 DEF Next, HandlerStep
<1> QED
  BY <1>1, PagingInvariant, PTL DEF Spec, FramesComeBackByEvictionOnly

inside(r, v) == r.page_addr =< v /\ v < r.page_addr + r.size

Present == {v \in VPages : pgt.pte[v].present}
TlbPages == {e[1] : e \in tlb}

\* Page v is in an allocated region that is not being freed.
other(v) ==
  \E k \in (1 .. Len(regions)) \ {call.pos} :
    regions[k].status = ALLOCATED /\ inside(regions[k], v)

\* Page v is in the allocated region that is being freed.
within(v) == regions[call.pos].status = ALLOCATED /\ inside(regions[call.pos], v)

\* Page v is one that the loop over that region has yet to reach.
ahead(v) == within(v) /\ v >= regions[call.pos].page_addr + call.i

\* Pages can be reached in allocated regions, and, while a region is freed,
\* ahead of the loops over it.
ReachInv ==
  /\ call.pc \in {"user", "killed", "oops"} \cup Handling =>
       \A v \in Present \cup TlbPages : check_address_range(regions, v)
  /\ call.pc \in Handling => check_address_range(regions, call.v)
  /\ call.pc = "free" => /\ \A v \in Present : other(v) \/ ahead(v)
                         /\ \A v \in TlbPages : other(v) \/ within(v)
  /\ call.pc = "flush" => /\ \A v \in Present : other(v)
                          /\ \A v \in TlbPages : other(v) \/ ahead(v)
  /\ call.pc \in Ending => tlb = {}
  /\ call.pc = "release" =>
       \A v \in Present : \E k \in 1 .. Len(regions) :
         /\ regions[k].status = ALLOCATED /\ inside(regions[k], v)
         /\ k = 1 => v >= regions[1].page_addr + call.i
  /\ call.pc = "closed" => Present = {}

\* Every allocated region has a size that was asked for.
Sized(s) == \A x \in Alloc(s) : x[2] \in Sizes

Calm == {"user", "killed", "oops"} \cup Handling

\* check_address_range in terms of the allocated regions.
LEMMA CoveredByAlloc ==
  ASSUME NEW s \in Seq(Region), NEW v
  PROVE  check_address_range(s, v) <=> \E x \in Alloc(s) : x[1] =< v /\ v < x[1] + x[2]
<1>0. DOMAIN s = 1 .. Len(s)
  OBVIOUS
<1>1. ASSUME check_address_range(s, v)
      PROVE  \E x \in Alloc(s) : x[1] =< v /\ v < x[1] + x[2]
  <2>1. PICK k \in 1 .. Len(s) : /\ s[k].status = ALLOCATED
                                 /\ v >= s[k].page_addr /\ v < s[k].page_addr + s[k].size
    BY <1>0, <1>1 DEF check_address_range
  <2> DEFINE x == <<s[k].page_addr, s[k].size>>
  <2>2. x \in Alloc(s) /\ x[1] = s[k].page_addr /\ x[2] = s[k].size
    BY <2>1, AllocMember
  <2> HIDE DEF x
  <2>3. x[1] =< v /\ v < x[1] + x[2]
    BY <2>1, <2>2
  <2> QED
    BY <2>2, <2>3
<1>2. ASSUME NEW x \in Alloc(s), x[1] =< v, v < x[1] + x[2]
      PROVE  check_address_range(s, v)
  <2>1. PICK k \in 1 .. Len(s) : s[k].status = ALLOCATED /\ x = <<s[k].page_addr, s[k].size>>
    BY AllocMember
  <2>2. x[1] = s[k].page_addr /\ x[2] = s[k].size
    BY <2>1
  <2> QED
    BY <1>0, <1>2, <2>1, <2>2 DEF check_address_range
<1> QED
  BY <1>1, <1>2

\* The size of an allocated region was asked for.
LEMMA SizedNode ==
  ASSUME NEW s, Sized(s), NEW k \in 1 .. Len(s), s[k].status = ALLOCATED
  PROVE  s[k].size \in Sizes
<1> DEFINE x == <<s[k].page_addr, s[k].size>>
<1>1. x \in Alloc(s) /\ x[2] = s[k].size
  BY AllocMember
<1> HIDE DEF x
<1> QED
  BY <1>1 DEF Sized

\* The address of a turn, for a region whose offsets fit an int.
LEMMA LoopPage ==
  ASSUME NEW r \in Region, r.size =< INT_PAGES, NEW i \in Nat, i < r.size
  PROVE  loop_page(r, i) = r.page_addr + i
<1>1. i \in 0 .. INT_PAGES - 1 /\ INT_PAGES \in Nat
  BY RegionFields, SwapAssumption, RegionAssumption
<1>2. ASSUME NEW n \in Nat, NEW k \in Nat, k < n
      PROVE  k % n = k
  BY <1>2
<1>3. (i + INT_PAGES) % (2 * INT_PAGES) = i + INT_PAGES
  <2> DEFINE n == 2 * INT_PAGES
             k == i + INT_PAGES
  <2>1. n \in Nat /\ k \in Nat /\ k < n
    BY <1>1
  <2> HIDE DEF n, k
  <2>2. k % n = k
    BY <1>2, <2>1
  <2> QED
    BY <2>2 DEF n, k
<1>4. int_offset(i) = i
  BY <1>1, <1>3 DEF int_offset
<1> QED
  BY <1>4 DEF loop_page

\* Outside the loops, only what is mapped, what is kept and what is allocated
\* matter.
LEMMA CalmReach ==
  ASSUME call'.pc \in Calm,
         \A v \in Present' \cup TlbPages' : check_address_range(regions', v),
         call'.pc \in Handling => check_address_range(regions', call'.v)
  PROVE  ReachInv'
BY DEF ReachInv, Calm, Handling, Ending

\* So does a step that maps nothing and keeps no translation.
LEMMA CalmReachLess ==
  ASSUME ReachInv, call.pc \in Calm, call'.pc \in Calm, regions' = regions,
         Present' \subseteq Present, TlbPages' \subseteq TlbPages,
         call'.pc \in Handling => check_address_range(regions, call'.v)
  PROVE  ReachInv'
BY CalmReach DEF ReachInv, Calm

\* LAZY_ALLOC allocates more.
LEMMA PetMallocReach ==
  ASSUME PagingInv, ReachInv, NEW n \in Sizes, PetMalloc(n)
  PROVE  ReachInv'
<1>0. n \in Nat
  BY SizesAssumption
<1>1. PICK i \in DOMAIN regions :
        /\ call.pc = "user" /\ first_fit(regions, i, n)
        /\ regions' = allocate(regions, i, n)
        /\ UNCHANGED <<swap, pgt, mem, tlb, call, want>>
  BY DEF PetMalloc
<1>2. Tiled(regions) /\ regions \in Seq(Region) /\ Len(regions) \in Nat
  BY <1>1 DEF PagingInv, ListInv, Tiled, Ending
<1>3. i \in 1 .. Len(regions) /\ regions[i].status = FREE /\ regions[i].size >= n
  BY <1>1, <1>2 DEF first_fit
<1>4. regions' \in Seq(Region) /\ Alloc(regions) \subseteq Alloc(regions')
  <2> DEFINE t == allocate(regions, i, n)
  <2>1. Tiled(t) /\ Alloc(t) = Alloc(regions) \cup {<<regions[i].page_addr, n>>}
    BY <1>0, <1>2, <1>3, AllocateKeeps, Zenon
  <2>2. t = regions'
    BY <1>1
  <2> HIDE DEF t
  <2>3. t \in Seq(Region) /\ Alloc(regions) \subseteq Alloc(t)
    BY <2>1 DEF Tiled
  <2> QED
    BY <2>2, <2>3
<1>5. \A v : check_address_range(regions, v) => check_address_range(regions', v)
  BY <1>2, <1>4, CoveredByAlloc
<1>6. Present' = Present /\ TlbPages' = TlbPages
  BY <1>1 DEF Present, TlbPages
<1> QED
  BY <1>1, <1>5, <1>6, CalmReach DEF ReachInv, Calm, Handling

\* LAZY_FREE begins with every page of the region ahead of it.
LEMMA PetFreeReach ==
  ASSUME PagingInv, ReachInv, NEW page \in VPages, PetFree(page)
  PROVE  ReachInv'
<1>1. PICK i \in DOMAIN regions :
        /\ call.pc = "user"
        /\ call' = [Idle EXCEPT !.pc = "free", !.pos = i]
        /\ UNCHANGED <<regions, clock_hand, swap, pgt, mem, tlb>>
  BY DEF PetFree
<1>2. /\ regions \in Seq(Region) /\ Len(regions) \in Nat /\ i \in 1 .. Len(regions)
      /\ DOMAIN regions = 1 .. Len(regions)
  BY <1>1 DEF PagingInv, ListInv, Tiled, Ending
<1>3. call'.pc = "free" /\ call'.pos = i /\ call'.i = 0
  BY <1>1 DEF Idle
<1>4. regions[i].page_addr \in Nat
  BY <1>2, NodeTypes
<1>5. Present' = Present /\ TlbPages' = TlbPages
  BY <1>1 DEF Present, TlbPages
<1>6. ASSUME NEW v \in Present \cup TlbPages
      PROVE  \/ other(v)'
             \/ /\ regions[i].status = ALLOCATED /\ inside(regions[i], v)
                /\ v >= regions[i].page_addr + 0
  <2>1. check_address_range(regions, v)
    BY <1>1 DEF ReachInv
  <2>2. PICK k \in 1 .. Len(regions) : regions[k].status = ALLOCATED /\ inside(regions[k], v)
    BY <1>2, <2>1 DEF check_address_range, inside
  <2>3. CASE k = i
    BY <1>4, <2>2, <2>3 DEF inside
  <2>4. CASE k # i
    BY <1>1, <1>3, <2>2, <2>4 DEF other
  <2> QED
    BY <2>3, <2>4
<1>7. \A v : /\ regions[i].status = ALLOCATED /\ inside(regions[i], v)
             /\ v >= regions[i].page_addr + 0
             => ahead(v)' /\ within(v)'
  BY <1>1, <1>3 DEF ahead, within
<1> QED
  BY <1>3, <1>5, <1>6, <1>7 DEF ReachInv, Handling, Ending

\* A turn of the loop that takes pages down.
LEMMA FreePageReach ==
  ASSUME SwapPages # 0, \A n \in Sizes : n =< INT_PAGES,
         PagingInv, ReachInv, Sized(regions), FreePage
  PROVE  ReachInv'
<1> DEFINE r == regions[call.pos]
           a == r.page_addr
           page == loop_page(r, call.i)
<1>1. /\ call.pc \in {"free", "release"} /\ call.i < r.size
      /\ pgt' = attempt_free_physical_address(pgt, page)
      /\ call' = [call EXCEPT !.i = call.i + 1]
      /\ UNCHANGED <<regions, clock_hand, swap, mem, tlb, want>>
  BY DEF FreePage
<1>2. /\ call'.pc = call.pc /\ call'.pos = call.pos
      /\ call'.i = call.i + 1 /\ call.i \in Nat
  BY <1>1 DEF PagingInv, CallInv, Calls
<1>3. /\ regions \in Seq(Region) /\ Len(regions) \in Nat /\ call.pos \in 1 .. Len(regions)
      /\ r \in Region /\ a \in Nat
  <2>1. regions \in Seq(Region) /\ Len(regions) \in Nat /\ call.pos \in 1 .. Len(regions)
    BY <1>1 DEF PagingInv, ListInv, CallInv, Tiled, Ending, Freeing
  <2> QED
    BY <2>1, NodeTypes
<1>4. r.status = ALLOCATED => page = a + call.i
  BY <1>1, <1>2, <1>3, SizedNode, LoopPage
<1> HIDE DEF page
<1>5. \A v \in Present' : v \in Present /\ v # page
  <2>1. \A w \in VPages : pgt'.pte[w].present => pgt.pte[w].present /\ w # page
    BY <1>1, AttemptFree DEF PagingInv
  <2> QED
    BY <2>1 DEF Present
<1>6. /\ TlbPages' = TlbPages /\ Present \subseteq Nat
      /\ \A v : other(v)' <=> other(v)
      /\ \A v : within(v)' <=> within(v)
  BY <1>1, <1>2, Constants DEF TlbPages, Present, other, within
<1>7. ASSUME NEW v \in Present', r.status = ALLOCATED, v >= a + call.i
      PROVE  v >= a + (call.i + 1)
  <2>1. v \in Present /\ v # page
    BY <1>5
  <2>2. v \in Nat
    BY <1>6, <2>1
  <2>3. v # a + call.i
    BY <1>4, <1>7, <2>1
  <2>4. \A w \in Nat : w >= a + call.i /\ w # a + call.i => w >= a + (call.i + 1)
    BY <1>2, <1>3
  <2> QED
    BY <1>7, <2>2, <2>3, <2>4
<1>8. CASE call.pc = "free"
  <2>1. \A v \in Present' : other(v)' \/ ahead(v)'
    <3> SUFFICES ASSUME NEW v \in Present' PROVE other(v)' \/ ahead(v)'
      OBVIOUS
    <3>1. other(v) \/ ahead(v)
      BY <1>5, <1>8 DEF ReachInv
    <3>2. ahead(v) => within(v) /\ v >= a + (call.i + 1)
      BY <1>7 DEF ahead, within
    <3> QED
      BY <1>1, <1>2, <1>6, <3>1, <3>2 DEF ahead
  <2>2. \A v \in TlbPages' : other(v)' \/ within(v)'
    BY <1>6, <1>8 DEF ReachInv
  <2> QED
    BY <1>2, <1>8, <2>1, <2>2 DEF ReachInv, Handling, Ending
<1>9. CASE call.pc = "release"
  <2>0. call.pos = 1 /\ tlb = {}
    BY <1>9 DEF PagingInv, CallInv, ReachInv, Ending
  <2>1. \A v \in Present' : \E k \in 1 .. Len(regions') :
          /\ regions'[k].status = ALLOCATED /\ inside(regions'[k], v)
          /\ k = 1 => v >= regions'[1].page_addr + call'.i
    <3> SUFFICES ASSUME NEW v \in Present'
                 PROVE  \E k \in 1 .. Len(regions') :
                          /\ regions'[k].status = ALLOCATED /\ inside(regions'[k], v)
                          /\ k = 1 => v >= regions'[1].page_addr + call'.i
      OBVIOUS
    <3>1. PICK k \in 1 .. Len(regions) :
            /\ regions[k].status = ALLOCATED /\ inside(regions[k], v)
            /\ k = 1 => v >= regions[1].page_addr + call.i
      BY <1>5, <1>9 DEF ReachInv
    <3>2. k = 1 => v >= a + (call.i + 1)
      BY <1>7, <2>0, <3>1
    <3> QED
      BY <1>1, <1>2, <2>0, <3>1, <3>2
  <2>2. tlb' = {}
    BY <1>1, <2>0
  <2> QED
    BY <1>2, <1>9, <2>1, <2>2 DEF ReachInv, Handling, Ending
<1> QED
  BY <1>1, <1>8, <1>9

\* That loop is through: no page of the region is present.
LEMMA StartFlushReach ==
  ASSUME PagingInv, ReachInv, StartFlush
  PROVE  ReachInv'
<1> DEFINE r == regions[call.pos]
<1>1. /\ call.pc = "free" /\ call.i = r.size
      /\ call' = [call EXCEPT !.pc = "flush", !.i = 0]
      /\ UNCHANGED <<regions, clock_hand, swap, pgt, mem, tlb, want>>
  BY DEF StartFlush
<1>2. call'.pc = "flush" /\ call'.pos = call.pos /\ call'.i = 0
  BY <1>1 DEF PagingInv, CallInv, Calls
<1>3. r.size \in Nat /\ r.page_addr \in Nat
  <2>1. regions \in Seq(Region) /\ call.pos \in 1 .. Len(regions)
    BY <1>1 DEF PagingInv, ListInv, CallInv, Freeing, Tiled, Ending
  <2> QED
    BY <2>1, NodeTypes
<1>4. Present' = Present /\ TlbPages' = TlbPages /\ Present \subseteq Nat
      /\ \A v : other(v)' <=> other(v)
  BY <1>1, <1>2, Constants DEF Present, TlbPages, other
<1>5. TlbPages \subseteq Nat
  BY Constants DEF PagingInv, DataInv, TlbPages
<1>6. \A v \in Present' : other(v)'
  <2>1. \A v \in Nat : ~ahead(v)
    BY <1>1, <1>3 DEF ahead, within, inside
  <2> QED
    BY <1>1, <1>4, <2>1 DEF ReachInv
<1>7. \A v \in TlbPages' : other(v)' \/ ahead(v)'
  <2>1. \A v \in Nat : inside(r, v) => v >= r.page_addr + 0
    BY <1>3 DEF inside
  <2>2. \A v \in Nat : within(v) => ahead(v)'
    BY <1>1, <1>2, <2>1 DEF ahead, within
  <2> QED
    BY <1>1, <1>4, <1>5, <2>2 DEF ReachInv
<1> QED
  BY <1>2, <1>6, <1>7 DEF ReachInv, Handling, Ending

\* A turn of the loop that flushes translations.
LEMMA FlushPageReach ==
  ASSUME \A n \in Sizes : n =< INT_PAGES,
         PagingInv, ReachInv, Sized(regions), FlushPage
  PROVE  ReachInv'
<1> DEFINE r == regions[call.pos]
           a == r.page_addr
           page == loop_page(r, call.i)
<1>1. /\ call.pc = "flush" /\ call.i < r.size
      /\ tlb' = {e \in tlb : e[1] # page}
      /\ call' = [call EXCEPT !.i = call.i + 1]
      /\ UNCHANGED <<regions, clock_hand, swap, pgt, mem, want>>
  BY DEF FlushPage, invlpg
<1>2. /\ call'.pc = "flush" /\ call'.pos = call.pos
      /\ call'.i = call.i + 1 /\ call.i \in Nat
  BY <1>1 DEF PagingInv, CallInv, Calls
<1>3. call.pos \in 1 .. Len(regions) /\ r \in Region /\ a \in Nat
  <2>1. regions \in Seq(Region) /\ call.pos \in 1 .. Len(regions)
    BY <1>1 DEF PagingInv, ListInv, CallInv, Tiled, Ending, Freeing
  <2> QED
    BY <2>1, NodeTypes
<1>4. r.status = ALLOCATED => page = a + call.i
  BY <1>1, <1>2, <1>3, SizedNode, LoopPage
<1> HIDE DEF page
<1>5. \A v \in TlbPages' : v \in TlbPages /\ v \in Nat /\ v # page
  <2>1. TlbPages \subseteq Nat
    BY Constants DEF PagingInv, DataInv, TlbPages
  <2>2. \A v \in TlbPages' : v \in TlbPages /\ v # page
    BY <1>1 DEF TlbPages
  <2> QED
    BY <2>1, <2>2
<1>6. Present' = Present /\ \A v : (other(v)' <=> other(v)) /\ (within(v)' <=> within(v))
  BY <1>1, <1>2 DEF Present, other, within
<1>7. \A v \in TlbPages' : other(v)' \/ ahead(v)'
  <2> SUFFICES ASSUME NEW v \in TlbPages' PROVE other(v)' \/ ahead(v)'
    OBVIOUS
  <2>1. other(v) \/ ahead(v)
    BY <1>1, <1>5 DEF ReachInv
  <2>2. ahead(v) => within(v) /\ v >= a + (call.i + 1)
    BY <1>2, <1>3, <1>4, <1>5 DEF ahead, within
  <2> QED
    BY <1>1, <1>2, <1>6, <2>1, <2>2 DEF ahead
<1>8. \A v \in Present' : other(v)'
  BY <1>1, <1>6 DEF ReachInv
<1> QED
  BY <1>2, <1>7, <1>8 DEF ReachInv, Handling, Ending

\* What free_address does to the allocated regions it does with the status.
LEMMA FreeAlloc ==
  ASSUME NEW s, Tiled(s), NEW i \in 1 .. Len(s)
  PROVE  \E a : /\ Marked(s, i, FREE, a)
                /\ Alloc(free_address(s, i, s[i].page_addr)) = Alloc(a)
<1> DEFINE page == s[i].page_addr
           a == [s EXCEPT ![i].status = FREE]
           b == absorb_next(a, i, page)
           c == absorb_prev(b, i, page)
<1>1. Marked(s, i, FREE, a)
  BY SetStatus DEF Tiled
<1>2. Tiled(a) /\ Len(a) = Len(s) /\ a[i].status = FREE /\ a[i].page_addr = page
  BY FreeMark
<1> HIDE DEF a
<1>3. Tiled(b) /\ i \in 1 .. Len(b) /\ b[i].status = FREE /\ b[i].page_addr = page
      /\ Alloc(b) = Alloc(a)
  <2>1. b = absorb_next(a, i, a[i].page_addr) /\ i \in 1 .. Len(a)
    BY <1>2
  <2> HIDE DEF b
  <2> QED
    BY <1>2, <2>1, FreeNext
<1> HIDE DEF b
<1>4. Alloc(c) = Alloc(b)
  <2>1. c = absorb_prev(b, i, b[i].page_addr)
    BY <1>3
  <2> HIDE DEF c
  <2> QED
    BY <1>3, <2>1, FreePrev
<1>5. free_address(s, i, page) = c
  BY DEF free_address, a, b
<1> HIDE DEF c
<1> QED
  BY <1>1, <1>3, <1>4, <1>5

\* The other allocated regions stay allocated when region i is freed.
LEMMA FreeOthers ==
  ASSUME NEW s, Tiled(s), NEW i \in 1 .. Len(s), NEW k \in (1 .. Len(s)) \ {i},
         s[k].status = ALLOCATED
  PROVE  <<s[k].page_addr, s[k].size>> \in Alloc(free_address(s, i, s[i].page_addr))
<1>1. PICK a : /\ Marked(s, i, FREE, a)
               /\ Alloc(free_address(s, i, s[i].page_addr)) = Alloc(a)
  BY FreeAlloc
<1>2. a[k] = s[k] /\ k \in 1 .. Len(a)
  BY <1>1 DEF Marked
<1> QED
  BY <1>1, <1>2, AllocMember

\* No other region becomes allocated by it.
LEMMA FreeSized ==
  ASSUME NEW s, Tiled(s), NEW i \in 1 .. Len(s), Sized(s)
  PROVE  Sized(free_address(s, i, s[i].page_addr))
<1>1. PICK a : /\ Marked(s, i, FREE, a)
               /\ Alloc(free_address(s, i, s[i].page_addr)) = Alloc(a)
  BY FreeAlloc
<1>2. Len(a) = Len(s) /\ a[i].status = FREE /\ \A k \in (1 .. Len(s)) \ {i} : a[k] = s[k]
  BY <1>1 DEF Marked
<1>3. \A x \in Alloc(a) : x \in Alloc(s)
  BY <1>2, AllocMember, StatusAssumption
<1> QED
  BY <1>1, <1>3 DEF Sized

\* Both loops are through: what can be reached is in other regions.
LEMMA CoalesceReach ==
  ASSUME PagingInv, ReachInv, Coalesce
  PROVE  ReachInv'
<1> DEFINE i == call.pos
           r == regions[i]
           page == r.page_addr
<1>1. /\ call.pc = "flush" /\ call.i = r.size
      /\ regions' = free_address(regions, i, page)
      /\ call' = Idle
      /\ UNCHANGED <<swap, pgt, mem, tlb, want>>
  BY DEF Coalesce
<1>2. Tiled(regions) /\ regions \in Seq(Region) /\ i \in 1 .. Len(regions)
  BY <1>1 DEF PagingInv, ListInv, CallInv, Freeing, Tiled, Ending
<1>3. r.size \in Nat /\ page \in Nat
  BY <1>2, NodeTypes
<1>4. regions' \in Seq(Region)
  BY <1>1, <1>2, FreeKeeps DEF Tiled
<1>5. ASSUME NEW v, other(v)
      PROVE  check_address_range(regions', v)
  <2>1. PICK k \in (1 .. Len(regions)) \ {i} :
          regions[k].status = ALLOCATED /\ inside(regions[k], v)
    BY <1>5 DEF other
  <2> DEFINE x == <<regions[k].page_addr, regions[k].size>>
  <2>2. x \in Alloc(regions') /\ x[1] = regions[k].page_addr /\ x[2] = regions[k].size
    BY <1>1, <1>2, <2>1, FreeOthers
  <2> HIDE DEF x
  <2>3. x[1] =< v /\ v < x[1] + x[2]
    BY <2>1, <2>2 DEF inside
  <2> QED
    BY <1>4, <2>2, <2>3, CoveredByAlloc
<1>6. Present' = Present /\ TlbPages' = TlbPages
  BY <1>1 DEF Present, TlbPages
<1>7. \A v \in TlbPages : ~ahead(v)
  <2>1. TlbPages \subseteq Nat
    BY Constants DEF PagingInv, DataInv, TlbPages
  <2> QED
    BY <1>1, <1>3, <2>1 DEF ahead, within, inside
<1>8. \A v \in Present' \cup TlbPages' : check_address_range(regions', v)
  BY <1>1, <1>5, <1>6, <1>7 DEF ReachInv
<1>9. call'.pc = "user"
  BY <1>1, IdleCall
<1> QED
  BY <1>8, <1>9, CalmReach DEF Calm, Handling

\* The end of the process begins with every page ahead of it.
LEMMA ReleaseReach ==
  ASSUME PagingInv, ReachInv, Release
  PROVE  ReachInv'
<1>1. /\ call.pc \in {"user", "killed"}
      /\ call' = [Idle EXCEPT !.pc = "release", !.pos = 1]
      /\ tlb' = {} /\ UNCHANGED <<regions, swap, pgt, mem>>
  BY DEF Release
<1>2. regions \in Seq(Region) /\ Len(regions) \in Nat /\ DOMAIN regions = 1 .. Len(regions)
  BY <1>1 DEF PagingInv, ListInv, Tiled, Ending
<1>3. call'.pc = "release" /\ call'.i = 0
  BY <1>1 DEF Idle
<1>4. Present' = Present
  BY <1>1 DEF Present
<1>5. ASSUME NEW v \in Present
      PROVE  \E k \in 1 .. Len(regions) :
               /\ regions[k].status = ALLOCATED /\ inside(regions[k], v)
               /\ k = 1 => v >= regions[1].page_addr + 0
  <2>1. check_address_range(regions, v)
    BY <1>1 DEF ReachInv
  <2>2. PICK k \in 1 .. Len(regions) : regions[k].status = ALLOCATED /\ inside(regions[k], v)
    BY <1>2, <2>1 DEF check_address_range, inside
  <2>3. regions[k].page_addr \in Nat
    BY <1>2, NodeTypes
  <2> QED
    BY <2>2, <2>3 DEF inside
<1> QED
  BY <1>1, <1>3, <1>4, <1>5 DEF ReachInv, Handling, Ending

\* A node is through: the pages left are in the others.
LEMMA ReleaseNodeReach ==
  ASSUME PagingInv, ReachInv, ReleaseNode
  PROVE  ReachInv'
<1>1. /\ call.pc = "release" /\ call.i = regions[1].size /\ regions' = Tail(regions)
      /\ call' = IF regions' = << >> THEN [Idle EXCEPT !.pc = "closed"] ELSE [call EXCEPT !.i = 0]
      /\ UNCHANGED <<clock_hand, swap, pgt, mem, tlb, want>>
  BY DEF ReleaseNode
<1>2. /\ regions \in Seq(Region) /\ Len(regions) \in Nat /\ Len(regions) >= 1
      /\ call \in Calls /\ tlb = {}
  BY <1>1 DEF PagingInv, ListInv, CallInv, ReachInv, Ending
<1>3. /\ Len(regions') = Len(regions) - 1
      /\ \A k \in 1 .. Len(regions) - 1 : regions'[k] = regions[k + 1]
  BY <1>1, <1>2
<1>4. \A k \in 1 .. Len(regions) : regions[k].page_addr \in Nat /\ regions[k].size \in Nat
  BY <1>2, NodeTypes
<1>5. Present' = Present /\ Present \subseteq Nat /\ tlb' = {}
  BY <1>1, <1>2, Constants DEF Present
<1>6. ASSUME NEW v \in Present
      PROVE  \E k \in 1 .. Len(regions') :
               /\ regions'[k].status = ALLOCATED /\ inside(regions'[k], v)
               /\ k = 1 => v >= regions'[1].page_addr + 0
  <2>1. PICK k \in 1 .. Len(regions) :
          /\ regions[k].status = ALLOCATED /\ inside(regions[k], v)
          /\ k = 1 => v >= regions[1].page_addr + call.i
    BY <1>1 DEF ReachInv
  <2>2. k # 1
    BY <1>1, <1>2, <1>4, <1>5, <2>1 DEF inside
  <2>3. k - 1 \in 1 .. Len(regions) - 1 /\ (k - 1) + 1 = k
    BY <1>2, <2>2
  <2>4. regions'[k - 1] = regions[k]
    BY <1>3, <2>3
  <2>5. /\ regions'[k - 1].status = ALLOCATED /\ inside(regions'[k - 1], v)
        /\ v >= regions'[k - 1].page_addr + 0
    BY <1>4, <1>5, <2>1, <2>4 DEF inside
  <2> QED
    BY <1>3, <2>3, <2>5
<1>7. CASE regions' = << >>
  <2>1. call'.pc = "closed"
    BY <1>1, <1>7 DEF Idle
  <2>2. Present' = {}
    BY <1>5, <1>6, <1>7
  <2> QED
    BY <1>5, <2>1, <2>2 DEF ReachInv, Handling, Ending
<1>8. CASE regions' # << >>
  <2>1. call'.pc = "release" /\ call'.i = 0
    BY <1>1, <1>2, <1>8 DEF Calls
  <2> QED
    BY <1>5, <1>6, <2>1 DEF ReachInv, Handling, Ending
<1> QED
  BY <1>7, <1>8

\* The process touches pages that are there.
LEMMA UserReach ==
  ASSUME PagingInv, ReachInv, NEW v \in VPages, NEW x \in {0, v},
         UserRead(v) \/ UserWrite(v, x) \/ TlbWrite(v, x) \/ \E e \in tlb : TlbForget(e)
  PROVE  ReachInv'
<1>1. call.pc = "user" /\ call' = call /\ regions' = regions
  BY DEF UserRead, UserWrite, TlbWrite, TlbForget
<1>2. Present' \subseteq Present
  <2>1. CASE UserRead(v)
    BY <2>1, UserReadStep DEF Present
  <2>2. CASE UserWrite(v, x)
    BY <2>2, UserWriteStep DEF Present
  <2>3. CASE TlbWrite(v, x) \/ \E e \in tlb : TlbForget(e)
    BY <2>3 DEF Present, TlbWrite, TlbForget
  <2> QED
    BY <2>1, <2>2, <2>3
<1>3. TlbPages' \subseteq TlbPages \cup Present
  <2>1. CASE UserWrite(v, x)
    <3>1. v \in Present /\ tlb' \subseteq tlb \cup {<<v, pgt.pte[v].base>>}
      BY <2>1, UserWriteStep DEF Present, UserWrite
    <3>2. <<v, pgt.pte[v].base>>[1] = v
      OBVIOUS
    <3> QED
      BY <3>1, <3>2 DEF TlbPages
  <2>2. CASE UserRead(v) \/ TlbWrite(v, x) \/ \E e \in tlb : TlbForget(e)
    <3>1. tlb' \subseteq tlb
      BY <2>2 DEF UserRead, TlbWrite, TlbForget
    <3> QED
      BY <3>1 DEF TlbPages
  <2> QED
    BY <2>1, <2>2
<1>4. \A w \in Present' \cup TlbPages' : check_address_range(regions', w)
  BY <1>1, <1>2, <1>3 DEF ReachInv
<1> QED
  BY <1>1, <1>4, CalmReach DEF Calm, Handling

\* The handler maps the page that faulted, and that is in a region.
LEMMA HandlerReach ==
  ASSUME SwapPages # 0, PagingInv, ReachInv, HandlerStep
  PROVE  ReachInv'
<1>0. call.pc \in Handling /\ regions' = regions /\ tlb' = tlb
  BY DEF HandlerStep, WalkTable, WalkPage, SwapInMap, WalkSwapIn, StartClock, ClockStep, Handling
<1>1. /\ \A v \in Present \cup TlbPages : check_address_range(regions, v)
      /\ check_address_range(regions, call.v)
      /\ call \in Calls
  BY <1>0 DEF ReachInv, PagingInv, CallInv
<1>2. TlbPages' = TlbPages
  BY <1>0 DEF TlbPages
<1>3. Present' \subseteq Present \cup {call.v}
  <2>1. ASSUME NEW f \in Frames, WalkTable(f) \/ WalkPage(f) \/ SwapInMap(f)
        PROVE  Present' \subseteq Present \cup {call.v}
    BY <2>1, WalkTableStep, WalkPageStep, SwapInMapStep DEF Present
  <2>2. CASE WalkSwapIn \/ StartClock
    BY <2>2 DEF WalkSwapIn, StartClock, Present
  <2>3. ASSUME NEW v, ClockStep(v)
        PROVE  Present' \subseteq Present \cup {call.v}
    <3>1. CASE UNCHANGED pgt
      BY <3>1 DEF Present
    <3>2. CASE mapped(pgt, v) /\ second_chance(v)
      BY <3>2, ChanceStep DEF Present
    <3>3. CASE mapped(pgt, v) /\ evict(v)
      BY <3>3, EvictStep DEF Present
    <3> QED
      BY <2>3, <3>1, <3>2, <3>3, ClockCases
  <2> QED
    BY <2>1, <2>2, <2>3 DEF HandlerStep
<1>4. call'.pc \in Calm /\ (call'.pc \in Handling => call'.v = call.v)
  <2>1. ASSUME NEW f \in Frames, WalkTable(f) \/ WalkPage(f) \/ SwapInMap(f)
        PROVE  call'.pc \in Calm /\ (call'.pc \in Handling => call'.v = call.v)
    BY <1>0, <2>1, IdleCall DEF WalkTable, WalkPage, SwapInMap, Calm, Handling
  <2>2. CASE WalkSwapIn
    BY <1>1, <2>2 DEF WalkSwapIn, Calls, Calm, Handling
  <2>3. CASE StartClock
    BY <1>1, <2>3 DEF StartClock, Calls, Calm, Handling
  <2>4. ASSUME NEW v, ClockStep(v)
        PROVE  call'.pc \in Calm /\ (call'.pc \in Handling => call'.v = call.v)
    <3>1. call.ret \in {"walk", "swapin"} /\ call.pc = "clock"
      BY <2>4 DEF PagingInv, CallInv, ClockStep
    <3>2. \/ call' = [call EXCEPT !.pos = scan_next(call.pos)]
          \/ call' = [call EXCEPT !.pc = call.ret, !.pos = 0, !.ret = "user"]
      BY <2>4, ClockCases
    <3> QED
      BY <1>1, <3>1, <3>2 DEF Calls, Calm, Handling
  <2> QED
    BY <2>1, <2>2, <2>3, <2>4 DEF HandlerStep
<1> QED
  BY <1>0, <1>1, <1>2, <1>3, <1>4, CalmReach

\* The handler is entered.
LEMMA FaultReach ==
  ASSUME PagingInv, ReachInv, NEW v \in VPages, Fault(v)
  PROVE  ReachInv'
<1>1. /\ call.pc = "user"
      /\ call' = [Idle EXCEPT !.pc = IF check_address_range(regions, v) THEN "walk" ELSE "killed",
                              !.v = v]
      /\ UNCHANGED <<regions, clock_hand, swap, pgt, mem, tlb, want>>
  BY DEF Fault
<1>2. /\ call'.v = v /\ call'.pc \in {"walk", "killed"}
      /\ call'.pc = "walk" => check_address_range(regions, v)
  BY <1>1 DEF Idle
<1>3. Present' = Present /\ TlbPages' = TlbPages
  BY <1>1 DEF Present, TlbPages
<1> QED
  BY <1>1, <1>2, <1>3, CalmReachLess DEF Calm, Handling

\* Every step keeps what can be reached inside allocated regions.
LEMMA NextReach ==
  ASSUME SwapPages # 0, \A n \in Sizes : n =< INT_PAGES,
         PagingInv, ReachInv, Sized(regions), [Next]_vars
  PROVE  ReachInv'
<1>1. CASE UNCHANGED vars
  BY <1>1 DEF vars, ReachInv, Present, TlbPages, other, ahead, within
<1>2. ASSUME NEW n \in Sizes, PetMalloc(n)
      PROVE  ReachInv'
  BY <1>2, PetMallocReach
<1>3. ASSUME NEW v \in VPages, PetFree(v) \/ UserRead(v) \/ Fault(v)
      PROVE  ReachInv'
  BY <1>3, PetFreeReach, UserReach, FaultReach
<1>4. ASSUME NEW v \in VPages, NEW x \in {0, v}, UserWrite(v, x) \/ TlbWrite(v, x)
      PROVE  ReachInv'
  BY <1>4, UserReach
<1>5. ASSUME NEW e \in tlb, TlbForget(e)
      PROVE  ReachInv'
  <2>1. RegionStart \in VPages
    BY Constants DEF VPages, RegionEnd
  <2> QED
    BY <1>5, <2>1, UserReach
<1>6. CASE HandlerStep
  BY <1>6, HandlerReach
<1>7. CASE FreePage \/ StartFlush \/ FlushPage \/ Coalesce \/ Release \/ ReleaseNode
  BY <1>7, FreePageReach, StartFlushReach, FlushPageReach, CoalesceReach, ReleaseReach,
     ReleaseNodeReach
<1> QED
  BY <1>1, <1>2, <1>3, <1>4, <1>5, <1>6, <1>7 DEF Next

\* Only LAZY_ALLOC allocates a region, of the size asked for.
LEMMA NextSized ==
  ASSUME PagingInv, Sized(regions), [Next]_vars
  PROVE  Sized(regions')
<1>1. CASE UNCHANGED regions
  BY <1>1
<1>2. ASSUME NEW n \in Sizes, PetMalloc(n)
      PROVE  Sized(regions')
  <2>1. PICK i \in DOMAIN regions :
          /\ call.pc = "user" /\ first_fit(regions, i, n)
          /\ regions' = allocate(regions, i, n)
    BY <1>2 DEF PetMalloc
  <2>2. Tiled(regions) /\ regions \in Seq(Region)
    BY <2>1 DEF PagingInv, ListInv, Tiled, Ending
  <2>3. /\ i \in 1 .. Len(regions) /\ regions[i].status = FREE /\ regions[i].size >= n
        /\ n \in Nat
    BY <2>1, <2>2, SizesAssumption DEF first_fit
  <2> DEFINE x == <<regions[i].page_addr, n>>
  <2>4. Alloc(allocate(regions, i, n)) = Alloc(regions) \cup {x}
    BY <2>2, <2>3, AllocateKeeps, Zenon
  <2>5. x[2] = n
    OBVIOUS
  <2> HIDE DEF x
  <2> QED
    BY <2>1, <2>4, <2>5 DEF Sized
<1>3. CASE Coalesce
  <2>1. /\ call.pc = "flush"
        /\ regions' = free_address(regions, call.pos, regions[call.pos].page_addr)
    BY <1>3 DEF Coalesce
  <2>2. Tiled(regions) /\ call.pos \in 1 .. Len(regions)
    BY <2>1 DEF PagingInv, ListInv, CallInv, Freeing, Ending
  <2> QED
    BY <2>1, <2>2, FreeSized
<1>4. CASE ReleaseNode
  <2>1. call.pc = "release" /\ regions' = Tail(regions)
    BY <1>4 DEF ReleaseNode
  <2>2. regions \in Seq(Region) /\ Len(regions) \in Nat /\ Len(regions) >= 1
    BY <2>1 DEF PagingInv, ListInv, Ending
  <2>3. /\ Len(regions') = Len(regions) - 1
        /\ \A k \in 1 .. Len(regions) - 1 : regions'[k] = regions[k + 1]
    BY <2>1, <2>2
  <2>4. \A k \in 1 .. Len(regions') : k + 1 \in 1 .. Len(regions) /\ regions'[k] = regions[k + 1]
    BY <2>2, <2>3
  <2>5. \A x \in Alloc(regions') : x \in Alloc(regions)
    BY <2>4, AllocMember
  <2> QED
    BY <2>5 DEF Sized
<1>5. ASSUME NEW v \in VPages, PetFree(v) \/ UserRead(v) \/ Fault(v)
      PROVE  UNCHANGED regions
  BY <1>5 DEF PetFree, UserRead, Fault
<1>6. ASSUME NEW v \in VPages, NEW x \in {0, v}, UserWrite(v, x) \/ TlbWrite(v, x)
      PROVE  UNCHANGED regions
  BY <1>6 DEF UserWrite, TlbWrite
<1>7. ASSUME NEW e \in tlb, TlbForget(e)
      PROVE  UNCHANGED regions
  BY <1>7 DEF TlbForget
<1>8. CASE HandlerStep
  <2>1. UNCHANGED regions
    BY <1>8 DEF HandlerStep, WalkTable, WalkPage, SwapInMap, WalkSwapIn, StartClock, ClockStep
  <2> QED
    BY <1>1, <2>1
<1>9. CASE UNCHANGED vars \/ FreePage \/ StartFlush \/ FlushPage \/ Release
  <2>1. UNCHANGED regions
    BY <1>9 DEF vars, FreePage, StartFlush, FlushPage, Release
  <2> QED
    BY <1>1, <2>1
<1> QED
  BY <1>1, <1>2, <1>3, <1>4, <1>5, <1>6, <1>7, <1>8, <1>9 DEF Next

\* pet_free and the end of the process take every page down and flush its
\* translation, and no fault maps a page outside the allocated regions, as
\* long as no request is for more pages than the int offset of a loop over a
\* region can count, 2^19 of them.  A free region may be larger: the loop of
\* the release runs over it with offsets that wrap, and takes down nothing
\* that has to stay.
THEOREM PagingReach ==
  ASSUME SwapPages # 0, \A n \in Sizes : n =< INT_PAGES
  PROVE  Spec => []MappedOnlyWhereAllocated
<1> DEFINE Inv == PagingInv /\ ReachInv /\ Sized(regions)
<1>1. Init => Inv
  <2> SUFFICES ASSUME Init PROVE ReachInv /\ Sized(regions)
    BY InitInv
  <2>1. Present = {} /\ TlbPages = {} /\ call.pc = "user"
    BY IdleCall DEF Init, Present, TlbPages, zero_entry
  <2>2. ReachInv
    BY <2>1 DEF ReachInv, Handling, Ending
  <2>3. Len(regions) = 1 /\ regions[1].status = FREE
    BY DEF Init, first_node
  <2>4. Alloc(regions) = {}
    BY <2>3, AllocMember, StatusAssumption
  <2> QED
    BY <2>2, <2>4 DEF Sized
<1>2. Inv /\ [Next]_vars => Inv'
  BY NextInv, NextReach, NextSized
<1>3. Inv => MappedOnlyWhereAllocated
  <2> SUFFICES ASSUME ReachInv, call.pc \in {"user", "closed"},
                      NEW v \in Mapped \cup {e[1] : e \in tlb}
               PROVE  check_address_range(regions, v)
    BY DEF MappedOnlyWhereAllocated
  <2>1. v \in Present \cup TlbPages
    BY DEF Mapped, mapped, Present, TlbPages
  <2> QED
    BY <2>1 DEF ReachInv, TlbPages, Ending
<1> QED
  BY <1>1, <1>2, <1>3, PTL DEF Spec

-----------------------------------------------------------------------------
(* A process that does not free memory. *)

\* No call takes mappings down, and the clock hand never dangles.
Keeping == call.pc \in {"user", "killed"} \cup Handling /\ clock_hand # DANGLING

\* Only the other calls would change that.
LEMMA NextKeeping ==
  ASSUME SwapPages # 0, ~Frees, PagingInv, Keeping, [Next]_vars
  PROVE  Keeping'
<1>0. /\ call \in Calls /\ Len(regions) \in Nat /\ clock_hand \in 0 .. Len(regions)
      /\ call.pc \notin Freeing \cup Ending
  BY DEF PagingInv, ListInv, CallInv, Keeping, Tiled, Handling, Freeing, Ending, DANGLING
<1>1. CASE UNCHANGED vars
  BY <1>1 DEF vars, Keeping
<1>2. ASSUME NEW n \in Sizes, PetMalloc(n)
      PROVE  Keeping'
  <2>1. PICK i \in DOMAIN regions :
          /\ call' = call
          /\ \/ clock_hand' = IF clock_hand > i /\ Len(regions') > Len(regions)
                              THEN clock_hand + 1 ELSE clock_hand
             \/ clock_hand = DANGLING
    BY <1>2 DEF PetMalloc
  <2>2. clock_hand' \in {clock_hand, clock_hand + 1}
    BY <2>1 DEF Keeping
  <2> QED
    BY <1>0, <2>1, <2>2 DEF Keeping, DANGLING
<1>3. ASSUME NEW v \in VPages, PetFree(v) \/ UserRead(v)
      PROVE  Keeping'
  BY <1>3 DEF PetFree, UserRead, Keeping
<1>4. ASSUME NEW v \in VPages, Fault(v)
      PROVE  Keeping'
  BY <1>4 DEF Fault, Keeping, Idle, Handling
<1>5. ASSUME NEW v \in VPages, NEW x \in {0, v}, UserWrite(v, x) \/ TlbWrite(v, x)
      PROVE  Keeping'
  BY <1>5 DEF UserWrite, TlbWrite, Keeping
<1>6. ASSUME NEW e \in tlb, TlbForget(e)
      PROVE  Keeping'
  BY <1>6 DEF TlbForget, Keeping
<1>7. ASSUME NEW f \in Frames, WalkTable(f) \/ WalkPage(f) \/ SwapInMap(f)
      PROVE  Keeping'
  BY <1>7, IdleCall DEF WalkTable, WalkPage, SwapInMap, Keeping
<1>8. CASE WalkSwapIn
  BY <1>0, <1>8 DEF WalkSwapIn, Keeping, Calls, Handling
<1>9. CASE StartClock
  BY <1>0, <1>9 DEF StartClock, Keeping, Calls, Handling
<1>10. ASSUME NEW v, ClockStep(v)
       PROVE  Keeping'
  <2>1. call.ret \in {"walk", "swapin"} /\ call.pc = "clock" /\ call.pos \in 0 .. Len(regions)
    BY <1>10 DEF PagingInv, CallInv, ClockStep
  <2>2. \/ call' = [call EXCEPT !.pos = scan_next(call.pos)] /\ clock_hand' = clock_hand
        \/ /\ call' = [call EXCEPT !.pc = call.ret, !.pos = 0, !.ret = "user"]
           /\ clock_hand' = ring_next(call.pos)
    BY <1>10, ClockCases
  <2>3. ring_next(call.pos) \in 0 .. Len(regions)
    BY <1>0, <2>1, RingNext
  <2>4. clock_hand' # DANGLING
    BY <1>0, <2>2, <2>3 DEF DANGLING
  <2>5. call'.pc \in Handling
    BY <1>0, <2>1, <2>2 DEF Calls, Handling
  <2> QED
    BY <2>4, <2>5 DEF Keeping
<1>11. CASE FreePage \/ StartFlush \/ FlushPage \/ Coalesce \/ Release \/ ReleaseNode
  BY <1>0, <1>11 DEF FreePage, StartFlush, FlushPage, Coalesce, Release, ReleaseNode,
                     Freeing, Ending
<1> QED
  BY <1>1, <1>2, <1>3, <1>4, <1>5, <1>6, <1>7, <1>8, <1>9, <1>10, <1>11 DEF Next, HandlerStep

\* Every frame that is taken is put into an entry.
LEMMA NextUsed ==
  ASSUME SwapPages # 0, PagingInv, Keeping, AllUsed(pgt), [Next]_vars
  PROVE  AllUsed(pgt')
<1>1. CASE UNCHANGED pgt
  BY <1>1
<1>2. ASSUME NEW v \in VPages, PetFree(v) \/ UserRead(v) \/ Fault(v)
      PROVE  AllUsed(pgt')
  BY <1>1, <1>2, UserReadInv DEF PetFree, Fault
<1>3. ASSUME NEW v \in VPages, NEW x \in {0, v}, UserWrite(v, x) \/ TlbWrite(v, x)
      PROVE  AllUsed(pgt')
  BY <1>1, <1>3, UserWriteInv DEF TlbWrite
<1>4. ASSUME NEW f \in Frames, WalkTable(f) \/ WalkPage(f) \/ SwapInMap(f)
      PROVE  AllUsed(pgt')
  BY <1>4, WalkTableStep, WalkPageInv, SwapInMapInv
<1>5. ASSUME NEW v, ClockStep(v)
      PROVE  AllUsed(pgt')
  BY <1>5, ClockStepInv
<1>6. ASSUME NEW n \in Sizes, PetMalloc(n)
      PROVE  UNCHANGED pgt
  BY <1>6 DEF PetMalloc
<1>7. ASSUME NEW e \in tlb, TlbForget(e)
      PROVE  UNCHANGED pgt
  BY <1>7 DEF TlbForget
<1>8. CASE \/ UNCHANGED vars \/ WalkSwapIn \/ StartClock
           \/ StartFlush \/ FlushPage \/ Coalesce \/ Release \/ ReleaseNode
  BY <1>1, <1>8 DEF vars, WalkSwapIn, StartClock, StartFlush, FlushPage, Coalesce, Release,
                    ReleaseNode
<1>9. CASE FreePage
  BY <1>9 DEF FreePage, Keeping, Handling
<1> QED
  BY <1>1, <1>2, <1>3, <1>4, <1>5, <1>6, <1>7, <1>8, <1>9 DEF Next, HandlerStep

\* A process that does not free memory loses no frame either, however often
\* its pages are evicted and brought back.
THEOREM PagingLosesNoFrame ==
  ASSUME SwapPages # 0, ~Frees
  PROVE  Spec => []NoFrameLost
<1> DEFINE Inv == PagingInv /\ Keeping /\ AllUsed(pgt)
<1>1. Init => Inv
  <2> SUFFICES ASSUME Init PROVE Keeping
    BY InitInv
  <2> QED
    BY DEF Init, Keeping, Idle, DANGLING
<1>2. Inv /\ [Next]_vars => Inv'
  BY NextInv, NextKeeping, NextUsed
<1>3. Inv => NoFrameLost
  <2> SUFFICES ASSUME PagingInv, AllUsed(pgt) PROVE NoFrameLost
    OBVIOUS
  <2>1. Mapped = {v \in VPages : pgt.pte[v].present}
    BY DEF Mapped, mapped, PagingInv, Sound, Nested
  <2>2. /\ pgt.free \subseteq Frames
        /\ \A d \in PDs : pgt.pd[d] \in Frames \cup {NONE}
        /\ \A p \in PTs : pgt.pt[p] \in Frames \cup {NONE}
        /\ NONE \notin Frames
    BY TableFields, Constants DEF PagingInv, Sound
  <2>3. \A v \in Mapped : pgt.pte[v].base \in Frames
    BY <2>1 DEF PagingInv, Sound, Filled
  <2> DEFINE M == {pgt.pte[v].base : v \in Mapped}
  <2>4. pgt.free \cup M \cup (table_frames \ {NONE}) \subseteq Frames
    BY <2>2, <2>3 DEF table_frames
  <2>5. ASSUME NEW f \in Frames
        PROVE  f \in pgt.free \cup M \cup (table_frames \ {NONE})
    BY <2>1, <2>2 DEF AllUsed, table_frames
  <2> QED
    BY <2>4, <2>5 DEF NoFrameLost
<1> QED
  BY <1>1, <1>2, <1>3, PTL DEF Spec

-----------------------------------------------------------------------------
(* Its slots, while the swap file has room. *)

\* The swapped pages that have a slot: the one that is being brought back
\* has none any more.
Out == {v \in Swapped : ~(bringing /\ v = call.v)}

SlotInv ==
  /\ \A u, v \in Out : pgt.pte[u].base = pgt.pte[v].base => u = v
  /\ \A v \in Out : pgt.pte[v].base \notin free_slots(swap.map)
  /\ \A i \in Slots \ free_slots(swap.map) : \E v \in Out : pgt.pte[v].base = i

\* The swap file is not full when the clock looks for a page to evict.
HasRoom == call.pc = "clock" /\ Mapped # {} => free_slots(swap.map) # {}

\* What is in the frames and the slots of the pages that were written.
ValueInv ==
  \A v \in VPages : want[v] # NONE =>
    /\ pgt.pte[v].present => mem[pgt.pte[v].base] = want[v]
    /\ ~pgt.pte[v].present =>
         /\ pgt.pte[v].dirty
         /\ v \in Out => swap.file[pgt.pte[v].base] = want[v]
         /\ bringing /\ v = call.v => call.buf = want[v]

\* No page leaves or enters memory in the step.
Settled ==
  /\ \A w \in VPages : /\ pgt'.pte[w].present = pgt.pte[w].present
                       /\ pgt'.pte[w].base = pgt.pte[w].base
                       /\ ~pgt.pte[w].present => pgt'.pte[w].dirty = pgt.pte[w].dirty
  /\ swap' = swap
  /\ bringing' <=> bringing
  /\ bringing => call'.v = call.v /\ call'.buf = call.buf

\* Such a step keeps the slots.
LEMMA SettledSlots ==
  ASSUME Settled
  PROVE  Out' = Out /\ (SlotInv => SlotInv')
<1>1. Out' = Out
  BY DEF Out, Swapped, Settled
<1>2. \A v \in Out : v \in VPages
  BY DEF Out, Swapped
<1>3. SlotInv => SlotInv'
  BY <1>1, <1>2 DEF SlotInv, Settled
<1> QED
  BY <1>1, <1>3

\* And the contents, if it writes nothing to mapped frames.
LEMMA SettledValues ==
  ASSUME Settled, want' = want, ValueInv,
         \A w \in VPages : pgt.pte[w].present => mem'[pgt.pte[w].base] = mem[pgt.pte[w].base]
  PROVE  ValueInv'
<1>1. Out' = Out
  BY SettledSlots
<1> QED
  BY <1>1 DEF ValueInv, Settled

\* When a page is in memory not all slots can be taken.
LEMMA RoomToEvict ==
  ASSUME RegionPages =< SwapPages, PagingInv, SlotInv, NEW v \in VPages, pgt.pte[v].present
  PROVE  free_slots(swap.map) # {}
<1> SUFFICES ASSUME free_slots(swap.map) = {}
             PROVE  FALSE
  OBVIOUS
<1> DEFINE f == [u \in Out |-> pgt.pte[u].base]
           S == VPages \ {v}
<1>1. Out \in SUBSET S
  BY DEF Out, Swapped
<1>2. IsFiniteSet(VPages) /\ Cardinality(VPages) = RegionPages
  <2>1. RegionStart \in Int /\ RegionEnd - 1 \in Int /\ RegionStart =< RegionEnd - 1
        /\ (RegionEnd - 1) - RegionStart + 1 = RegionPages
    BY Constants DEF RegionEnd
  <2> QED
    BY <2>1, FS_Interval DEF VPages
<1>3. IsFiniteSet(S) /\ Cardinality(S) = RegionPages - 1
  BY <1>2, FS_RemoveElement
<1>4. IsFiniteSet(Out) /\ Cardinality(Out) =< RegionPages - 1
  BY <1>1, <1>3, FS_Subset
<1>5. f \in Surjection(Out, Slots)
  <2>1. \A u \in Out : pgt.pte[u].base \in Slots
    BY DEF Out, Swapped, PagingInv, Sound, Filled
  <2>2. \A i \in Slots : \E u \in Out : pgt.pte[u].base = i
    BY DEF SlotInv
  <2> QED
    BY <2>1, <2>2 DEF Surjection
<1>6. Cardinality(Slots) =< Cardinality(Out)
  BY <1>4, <1>5, FS_Surjection
<1>7. Cardinality(Slots) = SwapPages
  <2>1. 0 \in Int /\ SwapPages - 1 \in Int
    BY SwapAssumption
  <2> QED
    BY <2>1, SwapAssumption, FS_Interval DEF Slots
<1>8. Cardinality(Out) \in Nat
  BY <1>4, FS_CardinalityType
<1> QED
  BY <1>4, <1>6, <1>7, <1>8, Constants, SwapAssumption

\* The steps that move no page.
LEMMA SettledSteps ==
  ASSUME PagingInv, Keeping,
         \/ UNCHANGED vars
         \/ \E n \in Sizes : PetMalloc(n)
         \/ \E v \in VPages : UserRead(v) \/ Fault(v)
         \/ \E v \in VPages : \E x \in {0, v} : UserWrite(v, x) \/ TlbWrite(v, x)
         \/ \E e \in tlb : TlbForget(e)
         \/ \E f \in Frames : WalkTable(f)
         \/ StartClock
  PROVE  Settled
<1>0. call \in Calls /\ (\A w \in VPages : pgt.pte[w].present \in BOOLEAN)
  BY TableFields, EntryFields DEF PagingInv, CallInv, Sound
<1>1. CASE UNCHANGED <<pgt, swap, call>>
  BY <1>1 DEF Settled, bringing
<1>2. CASE \/ UNCHANGED vars
           \/ \E n \in Sizes : PetMalloc(n)
           \/ \E v \in VPages : \E x \in {0, v} : TlbWrite(v, x)
           \/ \E e \in tlb : TlbForget(e)
  BY <1>1, <1>2 DEF vars, PetMalloc, TlbWrite, TlbForget
<1>3. ASSUME NEW v \in VPages, UserRead(v)
      PROVE  Settled
  <2>1. /\ pgt'.pte[v].present = pgt.pte[v].present /\ pgt'.pte[v].base = pgt.pte[v].base
        /\ pgt.pte[v].present /\ \A w \in VPages \ {v} : pgt'.pte[w] = pgt.pte[w]
    <3>1. /\ pgt'.pte[v] = [present |-> TRUE, dirty |-> pgt.pte[v].dirty, accessed |-> TRUE,
                            base |-> pgt.pte[v].base]
          /\ pgt.pte[v].present /\ \A w \in VPages \ {v} : pgt'.pte[w] = pgt.pte[w]
      BY <1>3, UserReadStep
    <3> QED
      BY <1>0, <3>1
  <2>2. UNCHANGED <<swap, call>>
    BY <1>3 DEF UserRead
  <2> QED
    BY <2>1, <2>2 DEF Settled, bringing
<1>4. ASSUME NEW v \in VPages, NEW x, UserWrite(v, x)
      PROVE  Settled
  <2>1. /\ pgt'.pte[v].present = pgt.pte[v].present /\ pgt'.pte[v].base = pgt.pte[v].base
        /\ pgt.pte[v].present /\ \A w \in VPages \ {v} : pgt'.pte[w] = pgt.pte[w]
    <3>1. /\ pgt'.pte[v] = [present |-> TRUE, dirty |-> TRUE, accessed |-> TRUE,
                            base |-> pgt.pte[v].base]
          /\ pgt.pte[v].present /\ \A w \in VPages \ {v} : pgt'.pte[w] = pgt.pte[w]
      BY <1>4, UserWriteStep
    <3> QED
      BY <1>0, <3>1
  <2>2. UNCHANGED <<swap, call>>
    BY <1>4 DEF UserWrite
  <2> QED
    BY <2>1, <2>2 DEF Settled, bringing
<1>5. ASSUME NEW v \in VPages, Fault(v)
      PROVE  Settled
  <2>1. call.pc = "user" /\ call'.pc \in {"walk", "killed"} /\ UNCHANGED <<pgt, swap>>
    BY <1>5 DEF Fault, Idle
  <2> QED
    BY <2>1 DEF Settled, bringing
<1>6. ASSUME NEW f \in Frames, WalkTable(f)
      PROVE  Settled
  <2>1. pgt'.pte = pgt.pte /\ UNCHANGED <<swap, call>>
    BY <1>6, WalkTableStep DEF WalkTable
  <2> QED
    BY <2>1 DEF Settled, bringing
<1>7. CASE StartClock
  <2>1. /\ call.pc \in {"swapin", "walk"} /\ UNCHANGED <<pgt, swap>>
        /\ call' = [call EXCEPT !.pc = "clock", !.ret = call.pc, !.pos = ring_next(clock_hand)]
    BY <1>7 DEF StartClock, Keeping
  <2>2. /\ call'.pc = "clock" /\ call'.ret = call.pc /\ call'.v = call.v
        /\ call'.buf = call.buf
    BY <1>0, <2>1 DEF Calls
  <2> QED
    BY <2>1, <2>2 DEF Settled, bringing
<1> QED
  BY <1>2, <1>3, <1>4, <1>5, <1>6, <1>7

\* A new page has no slot before and none after.
LEMMA WalkPageOut ==
  ASSUME PagingInv, NEW f \in Frames, WalkPage(f)
  PROVE  Out' = Out /\ call.v \notin Out /\ ~bringing /\ ~bringing'
<1>1. /\ call.v \in VPages /\ ~pgt.pte[call.v].dirty /\ pgt'.pte[call.v].present
      /\ \A w \in VPages \ {call.v} : pgt'.pte[w] = pgt.pte[w]
  <2>1. /\ call.v \in VPages /\ ~pgt.pte[call.v].dirty
        /\ pgt'.pte[call.v] = [present |-> TRUE, dirty |-> FALSE,
                               accessed |-> pgt.pte[call.v].accessed, base |-> f]
        /\ \A w \in VPages \ {call.v} : pgt'.pte[w] = pgt.pte[w]
    BY WalkPageStep
  <2> QED
    BY <2>1
<1>2. call.pc = "walk" /\ call'.pc = "user"
  BY IdleCall DEF WalkPage
<1> QED
  BY <1>1, <1>2 DEF Out, Swapped, bringing

\* A page that is brought back has lost its slot when it was read.
LEMMA SwapInMapOut ==
  ASSUME PagingInv, NEW f \in Frames, SwapInMap(f)
  PROVE  Out' = Out /\ call.v \notin Out /\ bringing /\ ~bringing'
<1>1. /\ call.v \in VPages /\ pgt'.pte[call.v].present
      /\ \A w \in VPages \ {call.v} : pgt'.pte[w] = pgt.pte[w]
  <2>1. /\ call.v \in VPages
        /\ pgt'.pte[call.v] = [present |-> TRUE, dirty |-> FALSE,
                               accessed |-> pgt.pte[call.v].accessed, base |-> f]
        /\ \A w \in VPages \ {call.v} : pgt'.pte[w] = pgt.pte[w]
    BY SwapInMapStep
  <2> QED
    BY <2>1
<1>2. call.pc = "swapin" /\ call'.pc = "user"
  BY IdleCall DEF SwapInMap
<1> QED
  BY <1>1, <1>2 DEF Out, Swapped, bringing

\* Reading it frees its slot and leaves it without one.
LEMMA WalkSwapInOut ==
  ASSUME PagingInv, WalkSwapIn
  PROVE  /\ call.v \in Out /\ Out' = Out \ {call.v} /\ ~bringing /\ bringing'
         /\ call'.v = call.v /\ pgt' = pgt /\ swap'.file = swap.file
         /\ free_slots(swap'.map) = free_slots(swap.map) \cup {pgt.pte[call.v].base}
         /\ SwapPages =< INT_PAGES => call'.buf = swap.file[pgt.pte[call.v].base]
<1> DEFINE v == call.v
           in == swap_in_page(swap, pgt.pte[v].base)
<1>1. /\ call.pc = "walk" /\ level = "swapped"
      /\ swap' = [swap EXCEPT !.map = in.map]
      /\ call' = [call EXCEPT !.pc = "swapin", !.buf = in.page]
      /\ UNCHANGED <<regions, clock_hand, pgt, mem, tlb, want>>
  BY DEF WalkSwapIn
<1>2. v \in VPages /\ ~pgt.pte[v].present /\ call \in Calls /\ swap \in SwapStates
  BY <1>1 DEF PagingInv, CallInv, DataInv, Handling
<1>3. pgt.pte[v].dirty
  BY <1>1 DEF level
<1>4. pgt.pte[v].base \in Slots
  BY <1>2 DEF PagingInv, Sound, Filled
<1>5. /\ free_slots(in.map) = free_slots(swap.map) \cup {pgt.pte[v].base}
      /\ SwapPages =< INT_PAGES => in.page = swap.file[pgt.pte[v].base]
  BY <1>2, <1>4, SwapInFacts
<1> HIDE DEF in
<1>6. /\ swap'.map = in.map /\ swap'.file = swap.file
      /\ call'.pc = "swapin" /\ call'.v = v /\ call'.buf = in.page
  BY <1>1, <1>2 DEF SwapStates, Calls
<1>7. ~bringing /\ bringing'
  BY <1>1, <1>6 DEF bringing
<1>8. v \in Out /\ Out' = Out \ {v}
  BY <1>1, <1>2, <1>3, <1>6, <1>7 DEF Out, Swapped
<1> QED
  BY <1>1, <1>5, <1>6, <1>7, <1>8

\* The clock moves on, with or without a second chance.
LEMMA SettledClock ==
  ASSUME PagingInv, NEW v, call.pc = "clock", UNCHANGED pgt \/ (mapped(pgt, v) /\ second_chance(v)),
         swap' = swap, call' = [call EXCEPT !.pos = scan_next(call.pos)]
  PROVE  Settled
<1>0. call \in Calls /\ (\A w \in VPages : pgt.pte[w] \in Entry)
  BY TableFields DEF PagingInv, CallInv, Sound
<1>1. /\ call'.pc = call.pc /\ call'.ret = call.ret /\ call'.v = call.v
      /\ call'.buf = call.buf
  BY <1>0 DEF Calls
<1>2. bringing' <=> bringing
  BY <1>1 DEF bringing
<1>3. CASE UNCHANGED pgt
  BY <1>1, <1>2, <1>3 DEF Settled
<1>4. CASE mapped(pgt, v) /\ second_chance(v)
  <2>1. /\ v \in VPages /\ pgt.pte[v].present
        /\ pgt'.pte[v] = [present |-> TRUE, dirty |-> pgt.pte[v].dirty, accessed |-> FALSE,
                          base |-> pgt.pte[v].base]
        /\ \A w \in VPages \ {v} : pgt'.pte[w] = pgt.pte[w]
    BY <1>4, ChanceStep
  <2>2. pgt.pte[v].present = TRUE
    BY <1>0, <2>1, EntryFields
  <2>3. pgt'.pte[v].present = pgt.pte[v].present /\ pgt'.pte[v].base = pgt.pte[v].base
    BY <2>1, <2>2
  <2> QED
    BY <1>1, <1>2, <2>1, <2>3 DEF Settled
<1> QED
  BY <1>3, <1>4

\* What the eviction of page v does to slots and frames when a slot is free.
Evicted(v) ==
  /\ v \in VPages /\ v # call.v /\ pgt.pte[v].present /\ v \notin Out
  /\ Out' = Out \cup {v} /\ ~pgt'.pte[v].present /\ pgt'.pte[v].dirty
  /\ \A w \in VPages \ {v} : pgt'.pte[w] = pgt.pte[w]
  /\ bringing' <=> bringing
  /\ call'.v = call.v /\ call'.buf = call.buf
  /\ pgt'.pte[v].base \in free_slots(swap.map)
  /\ free_slots(swap'.map) = free_slots(swap.map) \ {pgt'.pte[v].base}
  /\ mem' = [mem EXCEPT ![pgt.pte[v].base] = NONE]
  /\ SwapPages =< INT_PAGES =>
       swap'.file = [swap.file EXCEPT ![pgt'.pte[v].base] = mem[pgt.pte[v].base]]

\* The page gets a slot nobody has, and the file its content.
LEMMA EvictOut ==
  ASSUME SwapPages # 0, PagingInv, NEW v, mapped(pgt, v), evict(v), call.pc = "clock",
         free_slots(swap.map) # {},
         call' = [call EXCEPT !.pc = call.ret, !.pos = 0, !.ret = "user"]
  PROVE  Evicted(v)
<1> DEFINE f == pgt.pte[v].base
           out == swap_out_page(swap, mem[f], TRUE)
           e == [present |-> FALSE, dirty |-> TRUE, accessed |-> pgt.pte[v].accessed,
                 base |-> out.index]
<1>1. /\ v \in VPages /\ pgt.pte[v].present /\ mem[f] \in Values
      /\ pgt'.pte[v] = e /\ \A w \in VPages \ {v} : pgt'.pte[w] = pgt.pte[w]
      /\ swap' = [map |-> out.map, file |-> out.file]
      /\ mem' = [mem EXCEPT ![f] = NONE]
  BY EvictStep
<1>2. /\ out.index \in free_slots(swap.map)
      /\ free_slots(out.map) = free_slots(swap.map) \ {out.index}
      /\ SwapPages =< INT_PAGES => out.file = [swap.file EXCEPT ![out.index] = mem[f]]
  <2>1. swap \in SwapStates /\ mem[f] \in Values
    BY <1>1 DEF PagingInv, DataInv
  <2> HIDE DEF f
  <2> QED
    BY <2>1, SwapOutFacts, Zenon
<1> HIDE DEF out
<1>3. ~pgt'.pte[v].present /\ pgt'.pte[v].dirty /\ pgt'.pte[v].base = out.index
  BY <1>1
<1>4. swap'.map = out.map /\ swap'.file = out.file
  BY <1>1
<1>5. /\ call \in Calls /\ call.ret \in {"walk", "swapin"}
      /\ ~pgt.pte[call.v].present
  BY DEF PagingInv, CallInv, Handling
<1>6. call'.pc = call.ret /\ call'.v = call.v /\ call'.buf = call.buf
  BY <1>5 DEF Calls
<1>7. (bringing' <=> bringing) /\ v # call.v
  BY <1>1, <1>5, <1>6 DEF bringing
<1> HIDE DEF e
<1>8. v \notin Out /\ Out' = Out \cup {v}
  BY <1>1, <1>3, <1>6, <1>7 DEF Out, Swapped
<1> HIDE DEF f
<1>9. /\ pgt'.pte[v].base \in free_slots(swap.map)
      /\ free_slots(swap'.map) = free_slots(swap.map) \ {pgt'.pte[v].base}
      /\ SwapPages =< INT_PAGES =>
           swap'.file = [swap.file EXCEPT ![pgt'.pte[v].base] = mem[f]]
  BY <1>2, <1>3, <1>4
<1> QED
  BY <1>1, <1>3, <1>6, <1>7, <1>8, <1>9, Zenon DEF Evicted, f

\* Every step of the clock.
LEMMA ClockStepOut ==
  ASSUME SwapPages # 0, HasRoom, PagingInv, NEW v, ClockStep(v)
  PROVE  (Settled /\ mem' = mem) \/ Evicted(v)
<1>0. call.pc = "clock"
  BY ClockCases
<1>1. CASE mapped(pgt, v) /\ evict(v)
           /\ call' = [call EXCEPT !.pc = call.ret, !.pos = 0, !.ret = "user"]
  <2>1. free_slots(swap.map) # {}
    BY <1>0, <1>1 DEF HasRoom, Mapped, mapped
  <2> QED
    BY <1>0, <1>1, <2>1, EvictOut
<1>2. CASE /\ UNCHANGED pgt \/ (mapped(pgt, v) /\ second_chance(v))
           /\ swap' = swap /\ mem' = mem
           /\ call' = [call EXCEPT !.pos = scan_next(call.pos)]
  BY <1>0, <1>2, SettledClock
<1> QED
  BY <1>1, <1>2, ClockCases, Zenon

\* The steps of a process that does not free memory.
LEMMA KeepingSteps ==
  ASSUME ~Frees, Keeping, [Next]_vars
  PROVE  \/ \/ UNCHANGED vars
            \/ \E n \in Sizes : PetMalloc(n)
            \/ \E v \in VPages : UserRead(v) \/ Fault(v)
            \/ \E v \in VPages : \E x \in {0, v} : UserWrite(v, x) \/ TlbWrite(v, x)
            \/ \E e \in tlb : TlbForget(e)
            \/ \E f \in Frames : WalkTable(f)
            \/ StartClock
         \/ \E f \in Frames : WalkPage(f) \/ SwapInMap(f)
         \/ WalkSwapIn
         \/ \E v \in VPages \cup HeadAddrs : ClockStep(v)
<1>1. ~(FreePage \/ StartFlush \/ FlushPage \/ Coalesce \/ Release \/ ReleaseNode)
  BY DEF FreePage, StartFlush, FlushPage, Coalesce, Release, ReleaseNode, Keeping, Handling
<1>2. \A v \in VPages : ~PetFree(v)
  BY DEF PetFree
<1> QED
  BY <1>1, <1>2 DEF Next, HandlerStep

\* Every step of such a process keeps slots and swapped pages one to one.
LEMMA NextSlots ==
  ASSUME SwapPages # 0, ~Frees, HasRoom, PagingInv, Keeping, SlotInv, [Next]_vars
  PROVE  SlotInv'
<1>0. \A v \in Out : v \in VPages
  BY DEF Out, Swapped
<1>1. CASE Settled
  BY <1>1, SettledSlots
<1>2. ASSUME NEW f \in Frames, WalkPage(f) \/ SwapInMap(f)
      PROVE  SlotInv'
  <2>1. Out' = Out /\ call.v \notin Out
    BY <1>2, WalkPageOut, SwapInMapOut
  <2>2. swap' = swap
    BY <1>2 DEF WalkPage, SwapInMap
  <2>3. \A w \in VPages \ {call.v} : pgt'.pte[w] = pgt.pte[w]
    BY <1>2, WalkPageStep, SwapInMapStep
  <2>4. \A w \in Out : pgt'.pte[w] = pgt.pte[w]
    BY <1>0, <2>1, <2>3
  <2> QED
    BY <2>1, <2>2, <2>4 DEF SlotInv
<1>3. CASE WalkSwapIn
  BY <1>3, WalkSwapInOut DEF SlotInv
<1>4. ASSUME NEW v, Evicted(v)
      PROVE  SlotInv'
  <2> DEFINE s == pgt'.pte[v].base
  <2>1. /\ Out' = Out \cup {v} /\ v \notin Out
        /\ s \in free_slots(swap.map) /\ free_slots(swap'.map) = free_slots(swap.map) \ {s}
        /\ \A w \in VPages \ {v} : pgt'.pte[w] = pgt.pte[w]
    BY <1>4 DEF Evicted
  <2>2. \A w \in Out : pgt'.pte[w] = pgt.pte[w]
    BY <1>0, <2>1
  <2> HIDE DEF s
  <2>3. /\ \A w \in Out : pgt'.pte[w].base # s
        /\ \A w \in Out : pgt'.pte[w].base \notin free_slots(swap.map)
        /\ \A u, w \in Out : pgt'.pte[u].base = pgt'.pte[w].base => u = w
        /\ \A i \in Slots \ free_slots(swap.map) : \E w \in Out : pgt'.pte[w].base = i
    BY <2>1, <2>2 DEF SlotInv
  <2>4. pgt'.pte[v].base = s
    BY DEF s
  <2>5. \A u, w \in Out' : pgt'.pte[u].base = pgt'.pte[w].base => u = w
    BY <2>1, <2>3, <2>4
  <2>6. \A w \in Out' : pgt'.pte[w].base \notin free_slots(swap'.map)
    BY <2>1, <2>3, <2>4
  <2>7. \A i \in Slots \ free_slots(swap'.map) : \E w \in Out' : pgt'.pte[w].base = i
    BY <2>1, <2>3, <2>4
  <2> QED
    BY <2>5, <2>6, <2>7 DEF SlotInv
<1>5. ASSUME NEW v, ClockStep(v)
      PROVE  SlotInv'
  BY <1>1, <1>4, <1>5, ClockStepOut
<1> QED
  BY <1>1, <1>2, <1>3, <1>5, KeepingSteps, SettledSteps

\* No bit is set at the start.
LEMMA InitSlots ==
  ASSUME SwapPages # 0, Init
  PROVE  SlotInv
<1>1. Swapped = {}
  BY DEF Init, Swapped, zero_entry
<1>2. Out = {}
  BY <1>1 DEF Out
<1>3. ASSUME NEW i \in Slots
      PROVE  check_bitmap(swap.map, i) = 0
  <2>1. i < SwapPages /\ byte_location(i) \in DOMAIN swap.map
    BY <1>3, SlotLocation, InitInv DEF PagingInv, DataInv, SwapStates, Maps
  <2>2. swap.map[byte_location(i)] = 0
    BY <2>1 DEF Init
  <2>3. bit_location(i) \in 0 .. 7
    BY SlotLocation
  <2>4. \A w \in Weights : (0 \div w) % 2 = 0
    BY DEF Weights
  <2>5. 2^bit_location(i) \in Weights
    BY <2>3, WeightsDiffer, Zenon
  <2> QED
    BY <2>1, <2>2, <2>4, <2>5, Zenon DEF check_bitmap
<1>4. free_slots(swap.map) = Slots
  BY <1>3 DEF free_slots
<1> QED
  BY <1>2, <1>4 DEF SlotInv

\* The slots marked in the bitmap and the swapped pages correspond one to one
\* whenever the process runs, as long as the swap file is not full when a page
\* is evicted: evictions and swap-ins lose no slot and share none.
THEOREM PagingSlots ==
  ASSUME SwapPages # 0, ~Frees
  PROVE  Spec /\ []HasRoom => []SlotsExact
<1> DEFINE Inv == PagingInv /\ Keeping /\ SlotInv
<1>1. Init => Inv
  <2> SUFFICES ASSUME Init PROVE Keeping
    BY InitInv, InitSlots
  <2> QED
    BY DEF Init, Keeping, Idle, DANGLING
<1>2. Inv /\ HasRoom /\ [Next]_vars => Inv'
  BY NextInv, NextKeeping, NextSlots
<1>3. Inv => SlotsExact
  <2> SUFFICES ASSUME PagingInv, SlotInv, call.pc = "user"
               PROVE  SlotsExact
    BY DEF SlotsExact
  <2>1. Out = Swapped
    BY DEF Out, bringing
  <2>2. \A v \in Swapped : pgt.pte[v].base \in Slots
    BY DEF Swapped, PagingInv, Sound, Filled
  <2>3. ASSUME NEW i \in Slots
        PROVE  check_bitmap(swap.map, i) = 1 <=> i \notin free_slots(swap.map)
    BY CheckType DEF free_slots, PagingInv, DataInv, SwapStates
  <2>4. {i \in Slots : check_bitmap(swap.map, i) = 1} = Slots \ free_slots(swap.map)
    BY <2>3
  <2> QED
    BY <2>1, <2>2, <2>4 DEF SlotInv, SlotsExact
<1> QED
  BY <1>1, <1>2, <1>3, PTL DEF Spec

\* A swap file with a slot for every page of the range always has room: two
\* pages never have the same slot, and one page is in memory.
THEOREM PagingRoom ==
  ASSUME ~Frees, RegionPages =< SwapPages
  PROVE  Spec => []HasRoom
<1> DEFINE Inv == PagingInv /\ Keeping /\ SlotInv
<1>0. SwapPages # 0
  BY Constants, SwapAssumption
<1>1. Init => Inv
  <2> SUFFICES ASSUME Init PROVE Keeping
    BY <1>0, InitInv, InitSlots
  <2> QED
    BY DEF Init, Keeping, Idle, DANGLING
<1>2. Inv => HasRoom
  BY RoomToEvict DEF HasRoom, Mapped, mapped
<1>3. Inv /\ [Next]_vars => Inv'
  BY <1>0, <1>2, NextInv, NextKeeping, NextSlots
<1> QED
  BY <1>1, <1>2, <1>3, PTL DEF Spec

\* So slots and swapped pages correspond with such a file, whatever happens.
COROLLARY PagingSlotsOfLargeFile ==
  ASSUME ~Frees, RegionPages =< SwapPages
  PROVE  Spec => []SlotsExact
<1>1. SwapPages # 0
  BY Constants, SwapAssumption
<1> QED
  BY <1>1, PagingRoom, PagingSlots, PTL

-----------------------------------------------------------------------------
(* Its contents, where no translation outlives the entry it was read from. *)

\* A write to the frame of a page reaches no other page.
LEMMA OtherFrames ==
  ASSUME PagingInv, NEW v \in VPages, pgt.pte[v].present
  PROVE  \A w \in VPages \ {v} : pgt.pte[w].present => pgt.pte[w].base # pgt.pte[v].base
BY DEF PagingInv, Sound, Exclusive

\* Nor does a write to a free frame.
LEMMA FreeFrames ==
  ASSUME PagingInv, NEW f \in Frames, f \in pgt.free
  PROVE  \A w \in VPages : pgt.pte[w].present => pgt.pte[w].base # f
BY DEF PagingInv, Sound, Exclusive

\* The frames of the pages in memory are frames, the slots of the others slots.
LEMMA Bases ==
  ASSUME PagingInv
  PROVE  /\ \A w \in VPages : pgt.pte[w].present => pgt.pte[w].base \in Frames
         /\ \A w \in Out : w \in VPages /\ pgt.pte[w].base \in Slots
         /\ mem \in [Frames -> Values] /\ swap.file \in [Slots -> Values]
         /\ want \in [VPages -> Values]
BY DEF PagingInv, Sound, Filled, DataInv, SwapStates, Out, Swapped

\* The steps that neither move nor write a page.
LEMMA QuietValues ==
  ASSUME PagingInv, Keeping, ValueInv, tlb = {},
         \/ UNCHANGED vars
         \/ \E n \in Sizes : PetMalloc(n)
         \/ \E v \in VPages : UserRead(v) \/ Fault(v)
         \/ \E v \in VPages : \E x \in {0, v} : TlbWrite(v, x)
         \/ \E e \in tlb : TlbForget(e)
         \/ \E f \in Frames : WalkTable(f)
         \/ StartClock
  PROVE  ValueInv'
<1>1. Settled
  BY SettledSteps
<1>2. CASE mem' = mem /\ want' = want
  BY <1>1, <1>2, SettledValues
<1>3. ASSUME NEW f \in Frames, WalkTable(f)
      PROVE  ValueInv'
  <2>1. f \in pgt.free /\ mem' = [mem EXCEPT ![f] = 0] /\ want' = want
    BY <1>3 DEF WalkTable
  <2>2. \A w \in VPages : pgt.pte[w].present => mem'[pgt.pte[w].base] = mem[pgt.pte[w].base]
    BY <2>1, FreeFrames, Bases
  <2> QED
    BY <1>1, <2>1, <2>2, SettledValues
<1>4. CASE \/ UNCHANGED vars
           \/ \E n \in Sizes : PetMalloc(n)
           \/ \E v \in VPages : UserRead(v) \/ Fault(v)
           \/ StartClock
  BY <1>2, <1>4 DEF vars, PetMalloc, UserRead, Fault, StartClock
<1>5. CASE \/ \E v \in VPages : \E x \in {0, v} : TlbWrite(v, x)
           \/ \E e \in tlb : TlbForget(e)
  BY <1>5 DEF TlbWrite
<1> QED
  BY <1>3, <1>4, <1>5

\* The process stores to a page in memory.
LEMMA UserWriteValues ==
  ASSUME PagingInv, Keeping, ValueInv, NEW v \in VPages, NEW x \in {0, v}, UserWrite(v, x)
  PROVE  ValueInv'
<1>1. Settled
  BY SettledSteps
<1>2. Out' = Out
  BY <1>1, SettledSlots
<1>3. /\ pgt.pte[v].present
      /\ mem' = [mem EXCEPT ![pgt.pte[v].base] = x]
      /\ want' = [want EXCEPT ![v] = x]
  BY DEF UserWrite, mapped
<1>4. /\ mem'[pgt.pte[v].base] = x /\ want'[v] = x
      /\ \A w \in VPages \ {v} :
           /\ want'[w] = want[w]
           /\ pgt.pte[w].present => mem'[pgt.pte[w].base] = mem[pgt.pte[w].base]
  BY <1>3, OtherFrames, Bases
<1>5. ASSUME NEW w \in VPages \ {v}, want'[w] # NONE
      PROVE  /\ pgt'.pte[w].present => mem'[pgt'.pte[w].base] = want'[w]
             /\ ~pgt'.pte[w].present =>
                  /\ pgt'.pte[w].dirty
                  /\ w \in Out' => swap'.file[pgt'.pte[w].base] = want'[w]
                  /\ bringing' /\ w = call'.v => call'.buf = want'[w]
  BY <1>1, <1>2, <1>4, <1>5 DEF ValueInv, Settled
<1>6. pgt'.pte[v].present /\ mem'[pgt'.pte[v].base] = want'[v]
  BY <1>1, <1>3, <1>4 DEF Settled
<1> QED
  BY <1>5, <1>6 DEF ValueInv

\* A page that enters memory has its content from the file, or no promise.
LEMMA EnterValues ==
  ASSUME PagingInv, ValueInv, NEW f \in Frames, WalkPage(f) \/ SwapInMap(f)
  PROVE  ValueInv'
<1> DEFINE v == call.v
<1>1. /\ v \in VPages /\ ~pgt.pte[v].present /\ f \in pgt.free
      /\ \A w \in VPages \ {v} : pgt'.pte[w] = pgt.pte[w]
  BY WalkPageStep, SwapInMapStep
<1>2. pgt'.pte[v].present /\ pgt'.pte[v].base = f
  <2>1. pgt'.pte[v] = [present |-> TRUE, dirty |-> FALSE, accessed |-> pgt.pte[v].accessed,
                       base |-> f]
    BY WalkPageStep, SwapInMapStep
  <2> QED
    BY <2>1
<1>3. Out' = Out /\ v \notin Out /\ ~bringing' /\ swap' = swap /\ want' = want
  BY WalkPageOut, SwapInMapOut DEF WalkPage, SwapInMap
<1>4. \A w \in VPages : pgt.pte[w].present => mem'[pgt.pte[w].base] = mem[pgt.pte[w].base]
  BY <1>1, FreeFrames, Bases DEF WalkPage, SwapInMap, map_page
<1>5. want[v] # NONE => mem'[f] = want[v]
  <2>1. CASE WalkPage(f)
    <3>1. ~pgt.pte[v].dirty
      BY <2>1, WalkPageStep
    <3> QED
      BY <1>1, <3>1 DEF ValueInv
  <2>2. CASE SwapInMap(f)
    <3>1. mem' = [mem EXCEPT ![f] = call.buf] /\ bringing
      BY <2>2, SwapInMapOut DEF SwapInMap, map_page
    <3>2. mem'[f] = call.buf
      BY <3>1, Bases
    <3> QED
      BY <1>1, <3>1, <3>2 DEF ValueInv
  <2> QED
    BY <2>1, <2>2
<1>6. ASSUME NEW w \in VPages \ {v}, want[w] # NONE
      PROVE  /\ pgt'.pte[w].present => mem'[pgt'.pte[w].base] = want[w]
             /\ ~pgt'.pte[w].present =>
                  /\ pgt'.pte[w].dirty
                  /\ w \in Out => swap.file[pgt'.pte[w].base] = want[w]
  BY <1>1, <1>4, <1>6 DEF ValueInv
<1> QED
  BY <1>2, <1>3, <1>5, <1>6 DEF ValueInv

\* A page that is read from the file is in the buffer.
LEMMA ReadValues ==
  ASSUME SwapPages =< INT_PAGES, PagingInv, ValueInv, WalkSwapIn
  PROVE  ValueInv'
<1>1. /\ call.v \in Out /\ Out' = Out \ {call.v} /\ ~bringing /\ bringing'
      /\ call'.v = call.v /\ pgt' = pgt /\ swap'.file = swap.file
      /\ call'.buf = swap.file[pgt.pte[call.v].base]
  BY WalkSwapInOut
<1>2. mem' = mem /\ want' = want
  BY DEF WalkSwapIn
<1> QED
  BY <1>1, <1>2 DEF ValueInv

\* A page that is evicted is in the file, and no other slot is written.
LEMMA EvictValues ==
  ASSUME SwapPages =< INT_PAGES, PagingInv, SlotInv, ValueInv, NEW v, Evicted(v), want' = want
  PROVE  ValueInv'
<1> DEFINE f == pgt.pte[v].base
           s == pgt'.pte[v].base
<1>1. /\ v \in VPages /\ v # call.v /\ pgt.pte[v].present /\ v \notin Out
      /\ Out' = Out \cup {v} /\ ~pgt'.pte[v].present /\ pgt'.pte[v].dirty
      /\ \A w \in VPages \ {v} : pgt'.pte[w] = pgt.pte[w]
      /\ bringing' <=> bringing
      /\ call'.v = call.v /\ call'.buf = call.buf
  BY DEF Evicted
<1>2. /\ s \in free_slots(swap.map) /\ mem' = [mem EXCEPT ![f] = NONE]
      /\ swap'.file = [swap.file EXCEPT ![s] = mem[f]]
  BY DEF Evicted
<1>3. s \in Slots
  BY <1>2 DEF free_slots
<1>4. swap'.file[s] = mem[f] /\ (\A w \in Out : swap'.file[pgt.pte[w].base] = swap.file[pgt.pte[w].base])
  BY <1>2, <1>3, Bases DEF SlotInv
<1>5. \A w \in VPages \ {v} : pgt.pte[w].present => mem'[pgt.pte[w].base] = mem[pgt.pte[w].base]
  BY <1>1, <1>2, OtherFrames, Bases
<1> HIDE DEF f, s
<1>6. ASSUME NEW w \in VPages \ {v}, want[w] # NONE
      PROVE  /\ pgt'.pte[w].present => mem'[pgt'.pte[w].base] = want[w]
             /\ ~pgt'.pte[w].present =>
                  /\ pgt'.pte[w].dirty
                  /\ w \in Out' => swap'.file[pgt'.pte[w].base] = want[w]
                  /\ bringing' /\ w = call'.v => call'.buf = want[w]
  BY <1>1, <1>4, <1>5, <1>6 DEF ValueInv
<1>7. want[v] # NONE => swap'.file[pgt'.pte[v].base] = want[v]
  BY <1>1, <1>4 DEF ValueInv, f, s
<1> QED
  BY <1>1, <1>6, <1>7 DEF ValueInv

\* Every step of the process.
LEMMA NextValues ==
  ASSUME SwapPages # 0, ~Frees, SwapPages =< INT_PAGES, HasRoom,
         PagingInv, Keeping, SlotInv, ValueInv, tlb = {}, [Next]_vars
  PROVE  ValueInv'
<1>1. ASSUME NEW v \in VPages, NEW x \in {0, v}, UserWrite(v, x)
      PROVE  ValueInv'
  BY <1>1, UserWriteValues
<1>2. ASSUME NEW f \in Frames, WalkPage(f) \/ SwapInMap(f)
      PROVE  ValueInv'
  BY <1>2, EnterValues
<1>3. CASE WalkSwapIn
  BY <1>3, ReadValues
<1>4. ASSUME NEW v, ClockStep(v)
      PROVE  ValueInv'
  <2>1. want' = want
    BY <1>4, ClockCases
  <2>2. CASE Settled /\ mem' = mem
    BY <2>1, <2>2, SettledValues
  <2>3. CASE Evicted(v)
    BY <2>1, <2>3, EvictValues
  <2> QED
    BY <1>4, <2>2, <2>3, ClockStepOut
<1> QED
  BY <1>1, <1>2, <1>3, <1>4, KeepingSteps, QuietValues

\* Without kept translations, and while the swap file is not full when a page
\* is evicted and has no offset an int cannot hold, the process reads what it
\* last wrote, however often the page was evicted and brought back.
THEOREM PagingValues ==
  ASSUME SwapPages # 0, ~Frees, ~UseTLB, SwapPages =< INT_PAGES
  PROVE  Spec /\ []HasRoom => []PagesKeepValues
<1> DEFINE Inv == PagingInv /\ Keeping /\ SlotInv /\ ValueInv /\ tlb = {}
<1>1. Init => Inv
  <2> SUFFICES ASSUME Init PROVE Keeping /\ ValueInv /\ tlb = {}
    BY InitInv, InitSlots
  <2> QED
    BY DEF Init, Keeping, ValueInv, Idle, DANGLING
<1>2. Inv /\ HasRoom /\ [Next]_vars => Inv'
  <2> SUFFICES ASSUME Inv, [Next]_vars PROVE tlb' = {}
    BY NextInv, NextKeeping, NextSlots, NextValues
  <2> QED
    BY DEF Next, HandlerStep, vars, PetMalloc, PetFree, UserRead, Fault, UserWrite, TlbWrite,
           TlbForget, WalkTable, WalkPage, SwapInMap, WalkSwapIn, StartClock, ClockStep,
           FreePage, StartFlush, FlushPage, invlpg, Coalesce, Release, ReleaseNode
<1>3. Inv => PagesKeepValues
  <2> SUFFICES ASSUME PagingInv, ValueInv, tlb = {}, call.pc = "user",
                      NEW v \in VPages, want[v] # NONE
               PROVE  value(v) = want[v]
    BY DEF PagesKeepValues
  <2>1. CASE pgt.pte[v].present
    <3>1. mapped(pgt, v)
      BY <2>1 DEF mapped, PagingInv, Sound, Nested
    <3> QED
      BY <2>1, <3>1 DEF value, ValueInv
  <2>2. CASE ~pgt.pte[v].present
    <3>1. ~mapped(pgt, v) /\ pgt.pte[v].dirty
      BY <2>2 DEF mapped, ValueInv
    <3>2. v \in Out
      BY <2>2, <3>1 DEF Out, Swapped, bringing
    <3> QED
      BY <2>2, <3>1, <3>2 DEF value, ValueInv
  <2> QED
    BY <2>1, <2>2
<1> QED
  BY <1>1, <1>2, <1>3, PTL DEF Spec
=============================================================================
