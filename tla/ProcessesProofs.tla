--------------------------- MODULE ProcessesProofs --------------------------
(***************************************************************************)
(* Proofs about the frames that processes share, for every number of       *)
(* processes, pages and frames, and every size of the swap file.           *)
(***************************************************************************)
EXTENDS Processes, MemMapLemmas

-----------------------------------------------------------------------------
(* One process. *)

\* Where a process can be in its page fault handler.
Handling == {"walk", "swapin", "clock", "write", "again"}
Points == {"out", "user", "dead", "null", "closed"} \cup Handling

ProcRecord ==
  [pc     : Points,
   map    : Maps \cup {NONE},
   pte    : [Pages -> [present : BOOLEAN, dirty : BOOLEAN, base : Nat]],
   table  : Frames \cup {NONE},
   v      : Pages \cup {NONE},
   victim : Pages \cup {NONE},
   slot   : Slots \cup {NONE},
   ret    : {"user", "walk", "swapin"}]

\* Entry v holds a frame: the page is there, or is being written.
InFrame(w, v) == w.pte[v].present \/ w.victim = v

\* A process as the handler leaves it at each of its points: the page that
\* faulted is not present; a page that is being written is no longer present
\* and is remembered until its frame is freed; there is a bitmap where an
\* entry has an index.
Good(w) ==
  /\ w \in ProcRecord
  /\ \A v \in Pages : w.pte[v].base \in IF InFrame(w, v) THEN Frames ELSE Slots
  /\ \A v \in Pages : w.pte[v].dirty => w.map \in Maps \/ w.pc = "dead"
  /\ w.pc \in Handling => w.v \in Pages /\ ~w.pte[w.v].present
  /\ w.pc \in {"clock", "write", "again"} => w.ret \in {"walk", "swapin"}
  /\ w.pc = "write" => w.victim # NONE
  /\ w.victim # NONE => w.pc \in {"write", "dead"} /\ ~w.pte[w.victim].present
  /\ w.pc = "out" => w = not_open

\* What a process can hold: its pages, and its table as number 0.
Holders == Pages \cup {0}

\* The frame that it holds for x, or NONE.
own(w, x) ==
  IF x = 0 THEN w.table ELSE IF InFrame(w, x) THEN w.pte[x].base ELSE NONE

\* The constants, as the proofs need them.
LEMMA Constants ==
  /\ NONE \notin Nat /\ NONE # NULL /\ NULL = 0
  /\ 0 \notin Pages /\ 0 \notin Frames
  /\ Pages \subseteq Nat /\ Frames \subseteq Nat /\ Slots \subseteq Nat
  /\ NONE \notin Pages /\ NONE \notin Frames /\ NONE \notin Slots
  /\ LateFrames \subseteq Frames
BY ProcessesAssumption, SwapAssumption DEF NULL, Slots

\* A swap file that is not empty has a first slot, the one index 0 means.
LEMMA FirstSlot ==
  ASSUME SwapPages # 0
  PROVE  0 \in Slots
BY SwapAssumption DEF Slots

\* A process that has not opened the device.
LEMMA NotOpenGood ==
  ASSUME SwapPages # 0, NEW pc \in {"out", "closed"}
  PROVE  /\ Good([not_open EXCEPT !.pc = pc])
         /\ Good(not_open)
         /\ \A x \in Holders : own([not_open EXCEPT !.pc = pc], x) = NONE
         /\ \A x \in Holders : own(not_open, x) = NONE
<1> DEFINE w == [not_open EXCEPT !.pc = pc]
<1>1. w.pc = pc /\ w.pte = [v \in Pages |-> zero_entry] /\ w.victim = NONE /\ w.table = NONE
      /\ w \in ProcRecord
  BY Constants, FirstSlot DEF not_open, ProcRecord, Points, zero_entry
<1>2. pc = "out" => w = not_open
  BY DEF not_open
<1>3. not_open \in ProcRecord
  BY Constants, FirstSlot DEF not_open, ProcRecord, Points, zero_entry
<1>4. Good(not_open) /\ \A x \in Holders : own(not_open, x) = NONE
  BY <1>3, Constants, FirstSlot
  DEF Good, own, Holders, InFrame, zero_entry, not_open, Handling
<1> HIDE DEF w
<1>5. Good(w) /\ \A x \in Holders : own(w, x) = NONE
  BY <1>1, <1>2, Constants, FirstSlot DEF Good, own, Holders, InFrame, zero_entry, Handling
<1> QED
  BY <1>4, <1>5 DEF w

\* What place fills: a table or the entry of the page that faulted.
target(w) == IF needs_table(w) THEN 0 ELSE w.v

\* Placing a frame in the walk.
LEMMA PlaceGood ==
  ASSUME NEW w, Good(w), w.pc \in {"walk", "swapin"}, NEW f \in Frames
  PROVE  /\ Good(place(w, f)) /\ place(w, f).pc \in {"walk", "user"}
         /\ target(w) \in Holders /\ own(w, target(w)) = NONE
         /\ \A x \in Holders : own(place(w, f), x) = IF x = target(w) THEN f ELSE own(w, x)
<1>0. /\ w \in ProcRecord /\ w.v \in Pages /\ ~w.pte[w.v].present /\ w.victim = NONE
      /\ f \in Nat
  BY Constants DEF Good, Handling
<1>1. CASE needs_table(w)
  <2> DEFINE u == [w EXCEPT !.table = f, !.pc = "walk"]
  <2>1. /\ u \in ProcRecord /\ u.pc = "walk" /\ u.table = f /\ u.pte = w.pte /\ u.map = w.map
        /\ u.v = w.v /\ u.victim = w.victim /\ u.ret = w.ret
    BY <1>0 DEF ProcRecord, Points, Handling
  <2>2. place(w, f) = u
    BY <1>1 DEF place
  <2> HIDE DEF u
  <2>3. Good(u)
    BY <1>0, <2>1 DEF Good, InFrame, Handling
  <2>4. \A x \in Holders : own(u, x) = IF x = 0 THEN f ELSE own(w, x)
    BY <2>1 DEF own, InFrame
  <2>5. target(w) = 0 /\ own(w, 0) = NONE
    BY <1>1 DEF target, own, needs_table
  <2> QED
    BY <2>1, <2>2, <2>3, <2>4, <2>5 DEF Holders
<1>2. CASE ~needs_table(w)
  <2> DEFINE e == [present |-> TRUE, dirty |-> FALSE, base |-> f]
             u == [w EXCEPT !.pte[w.v] = e, !.pc = "user", !.v = NONE]
  <2>1. /\ u \in ProcRecord /\ u.pc = "user" /\ u.table = w.table
        /\ u.pte = [w.pte EXCEPT ![w.v] = e] /\ u.map = w.map
        /\ u.v = NONE /\ u.victim = NONE /\ u.ret = w.ret
    BY <1>0 DEF ProcRecord, Points
  <2>2. place(w, f) = u
    BY <1>2 DEF place
  <2>3. w.pte \in [Pages -> [present : BOOLEAN, dirty : BOOLEAN, base : Nat]]
    BY <1>0 DEF ProcRecord
  <2>4. /\ u.pte[w.v].present /\ ~u.pte[w.v].dirty /\ u.pte[w.v].base = f
        /\ \A x \in Pages \ {w.v} : u.pte[x] = w.pte[x]
    BY <1>0, <2>1, <2>3
  <2> HIDE DEF u
  <2>5. Good(u)
    BY <1>0, <2>1, <2>4, Constants DEF Good, InFrame, Handling
  <2>6. \A x \in Holders : own(u, x) = IF x = w.v THEN f ELSE own(w, x)
    BY <1>0, <2>1, <2>4, Constants DEF own, InFrame, Holders
  <2>7. target(w) = w.v /\ own(w, w.v) = NONE
    BY <1>0, <1>2, Constants DEF target, own, InFrame
  <2> QED
    BY <1>0, <2>1, <2>2, <2>5, <2>6, <2>7 DEF Holders
<1> QED
  BY <1>1, <1>2

\* clear_up_memory before the write: the page is no longer present, and its
\* frame is still held.
LEMMA StartGood ==
  ASSUME NEW w, Good(w), w.pc = "clock", NEW v \in evictable(w)
  PROVE  /\ Good(start_write(w, v)) /\ start_write(w, v).pc \in {"write", "dead"}
         /\ \A x \in Holders : own(start_write(w, v), x) = own(w, x)
<1> DEFINE u == start_write(w, v)
<1>0. /\ w \in ProcRecord /\ w.v \in Pages /\ ~w.pte[w.v].present /\ w.victim = NONE
      /\ v \in Pages /\ w.pte[v].present /\ v # w.v
      /\ w.ret \in {"walk", "swapin"}
  BY DEF Good, Handling, evictable
<1>1. w.pte \in [Pages -> [present : BOOLEAN, dirty : BOOLEAN, base : Nat]]
  BY <1>0 DEF ProcRecord
<1> DEFINE out == [w EXCEPT !.pte[v].present = FALSE, !.pte[v].dirty = TRUE, !.victim = v]
<1>2. /\ out \in ProcRecord /\ out.pc = w.pc /\ out.table = w.table /\ out.map = w.map
      /\ out.v = w.v /\ out.victim = v /\ out.ret = w.ret
      /\ out.pte[v].dirty /\ ~out.pte[v].present /\ out.pte[v].base = w.pte[v].base
      /\ \A x \in Pages \ {v} : out.pte[x] = w.pte[x]
  BY <1>0, <1>1 DEF ProcRecord
<1>3. /\ u \in ProcRecord /\ u.table = out.table /\ u.v = out.v /\ u.victim = out.victim
      /\ u.ret = out.ret /\ u.pte = out.pte
      /\ \/ u.pc = "dead"
         \/ u.pc = "write" /\ u.map \in Maps
  <2>1. CASE w.map = NONE
    <3>1. u = [out EXCEPT !.pc = "dead"]
      BY <2>1 DEF start_write
    <3> HIDE DEF u, out
    <3> QED
      BY <1>2, <3>1 DEF ProcRecord, Points
  <2>2. CASE w.map # NONE /\ free_slots(w.map) = {}
    <3>1. u = [out EXCEPT !.pc = "write"]
      BY <2>2 DEF start_write
    <3>2. w.map \in Maps
      BY <1>0, <2>2 DEF ProcRecord
    <3> HIDE DEF u, out
    <3> QED
      BY <1>2, <3>1, <3>2 DEF ProcRecord, Points, Handling
  <2>3. CASE w.map # NONE /\ free_slots(w.map) # {}
    <3> DEFINE i == Min(free_slots(w.map))
               m == put_value(w.map, i, 1)
    <3>1. i \in Slots
      BY <2>3, FoundSlotIsFree
    <3>2. w.map \in Maps
      BY <1>0, <2>3 DEF ProcRecord
    <3>3. m \in Maps
      BY <3>1, <3>2, PutValue
    <3>4. u = [out EXCEPT !.pc = "write", !.slot = i, !.map = put_value(out.map, i, 1)]
      BY <2>3 DEF start_write
    <3>5. u = [out EXCEPT !.pc = "write", !.slot = i, !.map = m]
      BY <1>2, <3>4
    <3> HIDE DEF u, out, i, m
    <3> QED
      BY <1>2, <3>1, <3>3, <3>5 DEF ProcRecord, Points, Handling
  <2> QED
    BY <2>1, <2>2, <2>3
<1> HIDE DEF u, out
<1>4. /\ \A x \in Pages : (InFrame(u, x) <=> InFrame(w, x))
      /\ \A x \in Pages : u.pte[x].base = w.pte[x].base
  <2>1. NONE \notin Pages
    BY Constants
  <2>2. ASSUME NEW x \in Pages, x # v
        PROVE  (InFrame(u, x) <=> InFrame(w, x)) /\ u.pte[x].base = w.pte[x].base
    <3>1. u.pte[x] = w.pte[x]
      BY <1>2, <1>3, <2>2
    <3>2. u.victim # x /\ w.victim # x
      BY <1>0, <1>2, <1>3, <2>1, <2>2
    <3> QED
      BY <3>1, <3>2 DEF InFrame
  <2>3. (InFrame(u, v) <=> InFrame(w, v)) /\ u.pte[v].base = w.pte[v].base
    BY <1>0, <1>2, <1>3 DEF InFrame
  <2> QED
    BY <2>2, <2>3
<1>5. \A x \in Pages : u.pte[x].base \in IF InFrame(u, x) THEN Frames ELSE Slots
  BY <1>4 DEF Good
<1>6. Good(u)
  <2>1. \A x \in Pages : u.pte[x].dirty => u.map \in Maps \/ u.pc = "dead"
    BY <1>3
  <2>2. u.v \in Pages /\ ~u.pte[u.v].present /\ u.ret \in {"walk", "swapin"}
    BY <1>0, <1>2, <1>3
  <2>3. u.victim = v /\ v # NONE /\ ~u.pte[v].present /\ u.pc \in {"write", "dead"}
    BY <1>0, <1>2, <1>3, Constants
  <2> QED
    BY <1>3, <1>5, <2>1, <2>2, <2>3 DEF Good
<1>7. \A x \in Holders : own(u, x) = own(w, x)
  BY <1>2, <1>3, <1>4 DEF own, Holders
<1> QED
  BY <1>3, <1>6, <1>7 DEF u

\* clear_up_memory after the write: the entry has an index, and the frame,
\* which the process held before, is no longer held.
LEMMA EndGood ==
  ASSUME NEW w, Good(w), w.pc = "write", SwapPages # 0
  PROVE  /\ Good(end_write(w)) /\ end_write(w).pc = "again"
         /\ w.victim \in Pages /\ own(w, w.victim) = w.pte[w.victim].base
         /\ own(w, w.victim) \in Frames
         /\ \A x \in Holders :
              own(end_write(w), x) = IF x = w.victim THEN NONE ELSE own(w, x)
<1> DEFINE u == end_write(w)
           i == IF w.slot = NONE THEN 0 ELSE w.slot
<1>0. /\ w \in ProcRecord /\ w.v \in Pages /\ ~w.pte[w.v].present
      /\ w.victim \in Pages /\ ~w.pte[w.victim].present
      /\ w.ret \in {"walk", "swapin"}
  BY DEF Good, Handling, ProcRecord
<1>1. w.pte \in [Pages -> [present : BOOLEAN, dirty : BOOLEAN, base : Nat]]
  BY <1>0 DEF ProcRecord
<1>2. i \in Slots /\ i \in Nat
  BY <1>0, FirstSlot, Constants DEF ProcRecord
<1>3. u = [w EXCEPT !.pc = "again", !.victim = NONE, !.slot = NONE, !.pte[w.victim].base = i]
  BY DEF end_write
<1> HIDE DEF u, i
<1>4a. /\ u \in ProcRecord /\ u.pc = "again" /\ u.victim = NONE /\ u.table = w.table
       /\ u.map = w.map /\ u.v = w.v /\ u.ret = w.ret
       /\ u.pte = [w.pte EXCEPT ![w.victim].base = i]
  <2> DEFINE n == [w.pte EXCEPT ![w.victim].base = i]
  <2>1. u = [w EXCEPT !.pc = "again", !.victim = NONE, !.slot = NONE, !.pte = n]
    BY <1>3
  <2>2. n \in [Pages -> [present : BOOLEAN, dirty : BOOLEAN, base : Nat]]
    BY <1>0, <1>1, <1>2
  <2> HIDE DEF n
  <2>3. u \in ProcRecord /\ u.pte = n
    BY <1>0, <2>1, <2>2 DEF ProcRecord, Points, Handling
  <2> QED
    BY <1>0, <2>1, <2>3 DEF ProcRecord, n
<1>4. /\ u.pte[w.victim].base = i
      /\ ~u.pte[w.victim].present
      /\ u.pte[w.victim].dirty = w.pte[w.victim].dirty
      /\ \A x \in Pages \ {w.victim} : u.pte[x] = w.pte[x]
  <2>1. u.pte[w.victim] = [w.pte[w.victim] EXCEPT !.base = i]
    BY <1>0, <1>1, <1>4a
  <2>2. w.pte[w.victim] \in [present : BOOLEAN, dirty : BOOLEAN, base : Nat]
    BY <1>0, <1>1
  <2>3. /\ u.pte[w.victim].base = i
        /\ u.pte[w.victim].present = w.pte[w.victim].present
        /\ u.pte[w.victim].dirty = w.pte[w.victim].dirty
    BY <2>1, <2>2
  <2> QED
    BY <1>0, <1>1, <1>4a, <2>3
<1>5. /\ \A x \in Pages \ {w.victim} : (InFrame(u, x) <=> InFrame(w, x))
      /\ ~InFrame(u, w.victim) /\ InFrame(w, w.victim)
  BY <1>0, <1>4a, <1>4, Constants DEF InFrame
<1>6. \A x \in Pages : u.pte[x].base \in IF InFrame(u, x) THEN Frames ELSE Slots
  BY <1>0, <1>2, <1>4a, <1>4, <1>5 DEF Good
<1>7. \A x \in Pages : u.pte[x].dirty => u.map \in Maps
  <2>1. \A x \in Pages : w.pte[x].dirty => w.map \in Maps
    BY DEF Good
  <2> QED
    BY <1>4a, <1>4, <2>1
<1>8. Good(u)
  BY <1>0, <1>4a, <1>4, <1>6, <1>7 DEF Good, Handling
<1>9. \A x \in Holders : own(u, x) = IF x = w.victim THEN NONE ELSE own(w, x)
  BY <1>0, <1>4a, <1>4, <1>5, Constants DEF own, Holders
<1>10. own(w, w.victim) = w.pte[w.victim].base /\ own(w, w.victim) \in Frames
  BY <1>0, <1>5, Constants DEF own, Good
<1> QED
  BY <1>0, <1>4a, <1>4, <1>8, <1>9, <1>10 DEF u

\* Opening the device gives the process a bitmap or none.
LEMMA OpenGood ==
  ASSUME NEW w, Good(w), w.pc = "out", NEW map \in Maps \cup {NONE}
  PROVE  LET u == [w EXCEPT !.pc = "user", !.map = map]
         IN  Good(u) /\ u.pc = "user" /\ \A x \in Holders : own(u, x) = own(w, x)
<1> DEFINE u == [w EXCEPT !.pc = "user", !.map = map]
<1>0. w = not_open /\ w \in ProcRecord
  BY DEF Good
<1>1. /\ u \in ProcRecord /\ u.pc = "user" /\ u.victim = NONE /\ u.pte = w.pte
      /\ u.table = w.table /\ w.victim = NONE
      /\ \A v \in Pages : ~w.pte[v].dirty
  BY <1>0 DEF ProcRecord, Points, not_open, zero_entry
<1> HIDE DEF u
<1>2. Good(u)
  BY <1>1 DEF Good, InFrame, Handling
<1>3. \A x \in Holders : own(u, x) = own(w, x)
  BY <1>1 DEF own, InFrame
<1> QED
  BY <1>1, <1>2, <1>3 DEF u

\* A page fault remembers the page, which is not present.
LEMMA FaultGood ==
  ASSUME NEW w, Good(w), w.pc = "user", NEW v \in Pages, ~w.pte[v].present
  PROVE  LET u == [w EXCEPT !.pc = "walk", !.v = v]
         IN  Good(u) /\ u.pc = "walk" /\ \A x \in Holders : own(u, x) = own(w, x)
<1> DEFINE u == [w EXCEPT !.pc = "walk", !.v = v]
<1>0. w \in ProcRecord
  BY DEF Good
<1>1. /\ u \in ProcRecord /\ u.pc = "walk" /\ u.victim = w.victim /\ u.pte = w.pte
      /\ u.table = w.table /\ u.v = v /\ u.map = w.map
  BY <1>0 DEF ProcRecord, Points, Handling
<1> HIDE DEF u
<1>2. Good(u)
  BY <1>1 DEF Good, InFrame, Handling
<1>3. \A x \in Holders : own(u, x) = own(w, x)
  BY <1>1 DEF own, InFrame
<1> QED
  BY <1>1, <1>2, <1>3 DEF u

\* swap_in_page clears the bit of a slot in a bitmap that is there.
LEMMA ReadInGood ==
  ASSUME NEW w, Good(w), w.pc = "walk", swapped(w)
  PROVE  LET u == [w EXCEPT !.pc = "swapin", !.map = put_value(w.map, w.pte[w.v].base, 0)]
         IN  Good(u) /\ u.pc = "swapin" /\ \A x \in Holders : own(u, x) = own(w, x)
<1> DEFINE m == put_value(w.map, w.pte[w.v].base, 0)
           u == [w EXCEPT !.pc = "swapin", !.map = m]
<1>0. /\ w \in ProcRecord /\ w.map \in Maps /\ w.v \in Pages /\ w.victim = NONE
      /\ ~InFrame(w, w.v)
  BY Constants DEF Good, Handling, swapped, InFrame
<1>1. w.pte[w.v].base \in Slots
  BY <1>0 DEF Good
<1>2. m \in Maps
  BY <1>0, <1>1, PutValue
<1> HIDE DEF m
<1>3. /\ u \in ProcRecord /\ u.pc = "swapin" /\ u.victim = w.victim /\ u.pte = w.pte
      /\ u.table = w.table /\ u.v = w.v /\ u.map = m
  BY <1>0, <1>2 DEF ProcRecord, Points, Handling
<1> HIDE DEF u
<1>4. Good(u)
  BY <1>2, <1>3 DEF Good, InFrame, Handling
<1>5. \A x \in Holders : own(u, x) = own(w, x)
  BY <1>3 DEF own, InFrame
<1> QED
  BY <1>3, <1>4, <1>5 DEF u, m

\* Going to the clock remembers where the handler came from.
LEMMA NoFrameGood ==
  ASSUME NEW w, Good(w), w.pc \in {"walk", "swapin"}
  PROVE  LET u == [w EXCEPT !.pc = "clock", !.ret = w.pc]
         IN  Good(u) /\ u.pc = "clock" /\ \A x \in Holders : own(u, x) = own(w, x)
<1> DEFINE u == [w EXCEPT !.pc = "clock", !.ret = w.pc]
<1>0. w \in ProcRecord
  BY DEF Good
<1>1. /\ u \in ProcRecord /\ u.pc = "clock" /\ u.victim = w.victim /\ u.pte = w.pte
      /\ u.table = w.table /\ u.v = w.v /\ u.map = w.map /\ u.ret = w.pc
  BY <1>0 DEF ProcRecord, Points, Handling
<1> HIDE DEF u
<1>2. Good(u)
  BY <1>1 DEF Good, InFrame, Handling
<1>3. \A x \in Holders : own(u, x) = own(w, x)
  BY <1>1 DEF own, InFrame
<1> QED
  BY <1>1, <1>2, <1>3 DEF u

\* A process without a swap space, or with NULL for a frame, ends with all
\* it holds.
LEMMA DeadGood ==
  ASSUME NEW w, Good(w), w.pc \in {"user", "again"}, NEW pc \in {"dead", "null"}
  PROVE  LET u == [w EXCEPT !.pc = pc]
         IN  Good(u) /\ u.pc = pc /\ \A x \in Holders : own(u, x) = own(w, x)
<1> DEFINE u == [w EXCEPT !.pc = pc]
<1>0. w \in ProcRecord
  BY DEF Good
<1>1. /\ u \in ProcRecord /\ u.pc = pc /\ u.victim = w.victim /\ u.pte = w.pte
      /\ u.table = w.table /\ u.v = w.v /\ u.map = w.map
  BY <1>0 DEF ProcRecord, Points
<1> HIDE DEF u
<1>2. Good(u)
  BY <1>1 DEF Good, InFrame, Handling
<1>3. \A x \in Holders : own(u, x) = own(w, x)
  BY <1>1 DEF own, InFrame
<1> QED
  BY <1>1, <1>2, <1>3 DEF u

\* After the write the handler is back where it found no frame.
LEMMA ReturnGood ==
  ASSUME NEW w, Good(w), w.pc = "again"
  PROVE  LET u == [w EXCEPT !.pc = w.ret, !.ret = "user"]
         IN  /\ Good(u) /\ u.pc \in {"walk", "swapin"}
             /\ \A x \in Holders : own(u, x) = own(w, x)
<1> DEFINE u == [w EXCEPT !.pc = w.ret, !.ret = "user"]
<1>0. w \in ProcRecord /\ w.ret \in {"walk", "swapin"}
  BY DEF Good
<1>1. /\ u \in ProcRecord /\ u.pc = w.ret /\ u.victim = w.victim /\ u.pte = w.pte
      /\ u.table = w.table /\ u.v = w.v /\ u.map = w.map
  BY <1>0 DEF ProcRecord, Points, Handling
<1> HIDE DEF u
<1>2. Good(u)
  BY <1>0, <1>1 DEF Good, InFrame, Handling
<1>3. \A x \in Holders : own(u, x) = own(w, x)
  BY <1>1 DEF own, InFrame
<1> QED
  BY <1>0, <1>1, <1>2, <1>3 DEF u

-----------------------------------------------------------------------------
(* All processes. *)

ProcInv == proc \in [Procs -> ProcRecord] /\ \A p \in Procs : Good(proc[p])

\* A frame has one holder and is not in the pool.
FrameInv ==
  /\ free \subseteq Frames /\ late \subseteq Frames /\ free \cap late = {}
  /\ \A p, q \in Procs : \A x, y \in Holders :
       own(proc[p], x) \in Frames =>
         /\ own(proc[p], x) \notin free \cup late
         /\ own(proc[q], y) = own(proc[p], x) => p = q /\ x = y

\* Somebody holds frame f, or did until it ended.
Held(f) ==
  \/ \E p \in Procs : \E x \in Holders : own(proc[p], x) = f
  \/ \E p \in Procs : proc[p].pc = "closed"

\* No frame is lost until a process ends.
AccountInv == \A f \in Frames \ (free \cup late) : Held(f)

\* What a step does to the frames: process p becomes w, and keeps what it
\* held unless it ends, takes a frame for x, or returns that of x to the
\* pool.
Moves(p, w) ==
  /\ proc' = [proc EXCEPT ![p] = w]
  /\ Good(w)
  /\ proc[p].pc # "closed"
  /\ late' = late

Keeps(p, w) ==
  /\ Moves(p, w)
  /\ \/ \A x \in Holders : own(w, x) = own(proc[p], x)
     \/ w.pc = "closed" /\ \A x \in Holders : own(w, x) = NONE
  /\ free' = free

Takes(p, w, x) ==
  /\ Moves(p, w)
  /\ petmem_alloc_pages \in free
  /\ own(proc[p], x) = NONE
  /\ \A y \in Holders : own(w, y) = IF y = x THEN petmem_alloc_pages ELSE own(proc[p], y)
  /\ free' = free \ {petmem_alloc_pages}

Returns(p, w, x) ==
  /\ Moves(p, w)
  /\ own(proc[p], x) \in Frames
  /\ \A y \in Holders : own(w, y) = IF y = x THEN NONE ELSE own(proc[p], y)
  /\ free' = free \cup {own(proc[p], x)}

\* The pool gives a frame of its own, or NULL when it has none.
LEMMA AllocatedFrame ==
  ASSUME free \subseteq Frames
  PROVE  petmem_alloc_pages # NULL => petmem_alloc_pages \in free
<1>1. free \in SUBSET Nat
  BY Constants
<1>2. free # {} => Min(free) \in free
  BY <1>1, MinOfNaturals
<1> QED
  BY <1>2 DEF petmem_alloc_pages

\* Every step of a process is one of these.
LEMMA StepKinds ==
  ASSUME SwapPages # 0, ProcInv, free \subseteq Frames,
         NEW p \in Procs, Open(p) \/ Close(p) \/ Handler(p) \/ \E v \in Pages : Fault(p, v)
  PROVE  \E w : \/ Keeps(p, w)
                \/ \E x \in Holders : Takes(p, w, x) \/ Returns(p, w, x)
<1>0. /\ Good(proc[p]) /\ proc \in [Procs -> ProcRecord]
      /\ petmem_alloc_pages # NULL => petmem_alloc_pages \in free
  BY AllocatedFrame DEF ProcInv
<1>1. CASE Open(p)
  <2>1. PICK map \in {NONE} \cup [Bytes -> IF file[0] = NONE THEN {0} ELSE StaleBytes] :
          proc' = [proc EXCEPT ![p].pc = "user", ![p].map = map]
    BY <1>1 DEF Open
  <2>2. map \in Maps \cup {NONE}
    <3> DEFINE S == IF file[0] = NONE THEN {0} ELSE StaleBytes
    <3>1. S \subseteq 0 .. 255
      BY ProcessesAssumption
    <3> HIDE DEF S
    <3>2. [Bytes -> S] \subseteq [Bytes -> 0 .. 255]
      BY <3>1
    <3> QED
      BY <2>1, <3>2 DEF Maps, Bytes, S
  <2> DEFINE w == [proc[p] EXCEPT !.pc = "user", !.map = map]
  <2>3. proc' = [proc EXCEPT ![p] = w]
    BY <2>1, <1>0
  <2>4. Good(w) /\ w.pc = "user" /\ \A x \in Holders : own(w, x) = own(proc[p], x)
    BY <1>0, <1>1, <2>2, OpenGood DEF Open
  <2> HIDE DEF w
  <2> QED
    BY <1>1, <2>3, <2>4 DEF Open, Keeps, Moves
<1>2. CASE Close(p) /\ proc[p].map = NONE
  <2> DEFINE w == [proc[p] EXCEPT !.pc = "dead"]
  <2>1. proc' = [proc EXCEPT ![p] = w]
    BY <1>0, <1>2 DEF Close
  <2>2. Good(w) /\ w.pc = "dead" /\ \A x \in Holders : own(w, x) = own(proc[p], x)
    BY <1>0, <1>2, DeadGood DEF Close
  <2> HIDE DEF w
  <2> QED
    BY <1>2, <2>1, <2>2 DEF Close, Keeps, Moves
<1>3. CASE Close(p) /\ proc[p].map # NONE
  <2> DEFINE w == [not_open EXCEPT !.pc = "closed"]
  <2>1. proc' = [proc EXCEPT ![p] = w]
    BY <1>0, <1>3 DEF Close
  <2>2. Good(w) /\ \A x \in Holders : own(w, x) = NONE
    BY NotOpenGood
  <2>3. w.pc = "closed"
    BY DEF not_open
  <2> HIDE DEF w
  <2> QED
    BY <1>3, <2>1, <2>2, <2>3 DEF Close, Keeps, Moves
<1>4. ASSUME NEW v \in Pages, Fault(p, v)
      PROVE  \E w : Keeps(p, w)
  <2> DEFINE w == [proc[p] EXCEPT !.pc = "walk", !.v = v]
  <2>1. proc' = [proc EXCEPT ![p] = w]
    BY <1>0, <1>4 DEF Fault
  <2>2. Good(w) /\ w.pc = "walk" /\ \A x \in Holders : own(w, x) = own(proc[p], x)
    <3>1. proc[p].pc = "user" /\ ~proc[p].pte[v].present
      BY <1>4 DEF Fault
    <3> QED
      BY <1>0, <3>1, FaultGood, Zenon
  <2> HIDE DEF w
  <2> QED
    BY <1>4, <2>1, <2>2 DEF Fault, Keeps, Moves
<1>5. CASE ReadIn(p)
  <2> DEFINE w == [proc[p] EXCEPT !.pc = "swapin",
                     !.map = put_value(proc[p].map, proc[p].pte[proc[p].v].base, 0)]
  <2>1. proc' = [proc EXCEPT ![p] = w]
    BY <1>0, <1>5 DEF ReadIn
  <2>2. Good(w) /\ w.pc = "swapin" /\ \A x \in Holders : own(w, x) = own(proc[p], x)
    BY <1>0, <1>5, ReadInGood DEF ReadIn
  <2> HIDE DEF w
  <2> QED
    BY <1>5, <2>1, <2>2 DEF ReadIn, Keeps, Moves
<1>6. CASE NoFrame(p)
  <2> DEFINE w == [proc[p] EXCEPT !.pc = "clock", !.ret = proc[p].pc]
  <2>1. proc' = [proc EXCEPT ![p] = w]
    BY <1>0, <1>6 DEF NoFrame
  <2>2. Good(w) /\ w.pc = "clock" /\ \A x \in Holders : own(w, x) = own(proc[p], x)
    BY <1>0, <1>6, NoFrameGood DEF NoFrame
  <2> HIDE DEF w
  <2> QED
    BY <1>6, <2>1, <2>2 DEF NoFrame, Keeps, Moves
<1>7. ASSUME NEW v \in Pages, Evict(p, v)
      PROVE  \E w : Keeps(p, w)
  <2> DEFINE w == start_write(proc[p], v)
  <2>1. proc' = [proc EXCEPT ![p] = w]
    BY <1>0, <1>7 DEF Evict
  <2>2. /\ Good(w) /\ w.pc \in {"write", "dead"}
        /\ \A x \in Holders : own(w, x) = own(proc[p], x)
    BY <1>0, <1>7, StartGood DEF Evict
  <2> HIDE DEF w
  <2> QED
    BY <1>7, <2>1, <2>2 DEF Evict, Keeps, Moves
<1>8. CASE GetFrame(p)
  <2> DEFINE w == place(proc[p], petmem_alloc_pages)
             x == target(proc[p])
  <2>1. proc' = [proc EXCEPT ![p] = w]
    BY <1>0, <1>8 DEF GetFrame
  <2>2. /\ Good(w) /\ w.pc \in {"walk", "user"} /\ x \in Holders /\ own(proc[p], x) = NONE
        /\ \A y \in Holders : own(w, y) = IF y = x THEN petmem_alloc_pages ELSE own(proc[p], y)
    BY <1>0, <1>8, PlaceGood DEF GetFrame
  <2> HIDE DEF w, x
  <2>3. Takes(p, w, x)
    BY <1>0, <1>8, <2>1, <2>2 DEF GetFrame, Takes, Moves
  <2> QED
    BY <2>2, <2>3
<1>9. CASE Again(p) /\ petmem_alloc_pages # NULL
  <2> DEFINE u == [proc[p] EXCEPT !.pc = proc[p].ret, !.ret = "user"]
             w == place(u, petmem_alloc_pages)
             x == target(u)
  <2>1. proc' = [proc EXCEPT ![p] = w]
    BY <1>0, <1>9 DEF Again
  <2>2. Good(u) /\ u.pc \in {"walk", "swapin"} /\ \A y \in Holders : own(u, y) = own(proc[p], y)
    BY <1>0, <1>9, ReturnGood DEF Again
  <2> HIDE DEF u
  <2>3. /\ Good(w) /\ w.pc \in {"walk", "user"} /\ x \in Holders /\ own(u, x) = NONE
        /\ \A y \in Holders : own(w, y) = IF y = x THEN petmem_alloc_pages ELSE own(u, y)
    BY <1>0, <1>9, <2>2, PlaceGood
  <2> HIDE DEF w, x
  <2>4. Takes(p, w, x)
    BY <1>0, <1>9, <2>1, <2>2, <2>3 DEF Again, Takes, Moves
  <2> QED
    BY <2>3, <2>4
<1>10. CASE Again(p) /\ petmem_alloc_pages = NULL
  <2> DEFINE w == [proc[p] EXCEPT !.pc = "null"]
  <2>1. proc' = [proc EXCEPT ![p] = w]
    BY <1>0, <1>10 DEF Again
  <2>2. Good(w) /\ \A x \in Holders : own(w, x) = own(proc[p], x)
    BY <1>0, <1>10, DeadGood DEF Again
  <2>3. NULL \notin free
    BY Constants
  <2>4. free' = free
    BY <1>10, <2>3 DEF Again
  <2> HIDE DEF w
  <2> QED
    BY <1>10, <2>1, <2>2, <2>4 DEF Again, Keeps, Moves
<1>11. CASE Written(p)
  <2> DEFINE w == end_write(proc[p])
             x == proc[p].victim
  <2>1. proc' = [proc EXCEPT ![p] = w] /\ free' = free \cup {proc[p].pte[x].base}
    BY <1>11 DEF Written, freed
  <2>2. /\ Good(w) /\ w.pc = "again" /\ x \in Pages
        /\ own(proc[p], x) = proc[p].pte[x].base /\ own(proc[p], x) \in Frames
        /\ \A y \in Holders : own(w, y) = IF y = x THEN NONE ELSE own(proc[p], y)
    BY <1>0, <1>11, EndGood DEF Written
  <2> HIDE DEF w, x
  <2>3. Returns(p, w, x)
    BY <1>11, <2>1, <2>2 DEF Written, Returns, Moves
  <2> QED
    BY <2>2, <2>3 DEF Holders
<1> QED
  BY <1>1, <1>2, <1>3, <1>4, <1>5, <1>6, <1>7, <1>8, <1>9, <1>10, <1>11 DEF Handler

\* A step of one process changes that process only.
LEMMA MovesOne ==
  ASSUME ProcInv, NEW p \in Procs, NEW w, Moves(p, w)
  PROVE  ProcInv' /\ proc'[p] = w /\ \A q \in Procs \ {p} : proc'[q] = proc[q]
<1>1. /\ proc \in [Procs -> ProcRecord] /\ proc' = [proc EXCEPT ![p] = w]
      /\ Good(w) /\ w \in ProcRecord
  BY DEF ProcInv, Moves, Good
<1>2. /\ proc' \in [Procs -> ProcRecord] /\ proc'[p] = w
      /\ \A q \in Procs \ {p} : proc'[q] = proc[q]
  BY <1>1
<1>3. \A q \in Procs : Good(proc'[q])
  BY <1>1, <1>2 DEF ProcInv
<1> QED
  BY <1>2, <1>3 DEF ProcInv

\* A process that keeps what it held, or drops it at its end.
LEMMA KeepsInv ==
  ASSUME ProcInv, FrameInv, NEW p \in Procs, NEW w, Keeps(p, w)
  PROVE  FrameInv' /\ (AccountInv => AccountInv')
<1>1. proc'[p] = w /\ \A q \in Procs \ {p} : proc'[q] = proc[q]
  BY MovesOne DEF Keeps
<1>2. free' = free /\ late' = late /\ proc[p].pc # "closed"
  BY DEF Keeps, Moves
<1>3. \A q \in Procs : \A x \in Holders : own(proc'[q], x) \in {own(proc[q], x), NONE}
  BY <1>1 DEF Keeps
<1>4. FrameInv'
  BY <1>2, <1>3, Constants DEF FrameInv
<1>5. ASSUME NEW f, Held(f) PROVE Held(f)'
  <2>1. CASE \E q \in Procs : proc[q].pc = "closed"
    BY <1>1, <1>2, <2>1 DEF Held
  <2>2. CASE \E q \in Procs : \E x \in Holders : own(proc[q], x) = f
    <3>1. CASE \A x \in Holders : own(w, x) = own(proc[p], x)
      BY <1>1, <2>2, <3>1 DEF Held
    <3>2. CASE w.pc = "closed"
      BY <1>1, <3>2 DEF Held
    <3> QED
      BY <3>1, <3>2 DEF Keeps
  <2> QED
    BY <1>5, <2>1, <2>2 DEF Held
<1> QED
  BY <1>2, <1>4, <1>5 DEF AccountInv

\* A process that takes a frame from the pool.
LEMMA TakesInv ==
  ASSUME ProcInv, FrameInv, NEW p \in Procs, NEW w, NEW z \in Holders, Takes(p, w, z)
  PROVE  FrameInv' /\ (AccountInv => AccountInv')
<1> DEFINE f == petmem_alloc_pages
<1>0. f \in free /\ f \in Frames
  BY DEF FrameInv, Takes
<1>1. proc'[p] = w /\ \A q \in Procs \ {p} : proc'[q] = proc[q]
  BY MovesOne DEF Takes
<1>2. /\ free' = free \ {f} /\ late' = late /\ own(proc[p], z) = NONE
      /\ proc[p].pc # "closed"
      /\ \A y \in Holders : own(w, y) = IF y = z THEN f ELSE own(proc[p], y)
  BY DEF Takes, Moves
<1> HIDE DEF f
<1>3. \A q \in Procs : \A x \in Holders :
        own(proc'[q], x) = IF q = p /\ x = z THEN f ELSE own(proc[q], x)
  BY <1>1, <1>2
<1>4. FrameInv'
  <2>1. free' \subseteq Frames /\ late' \subseteq Frames /\ free' \cap late' = {}
    BY <1>2 DEF FrameInv
  <2>2. ASSUME NEW q \in Procs, NEW r \in Procs, NEW x \in Holders, NEW y \in Holders,
               own(proc'[q], x) \in Frames
        PROVE  /\ own(proc'[q], x) \notin free' \cup late'
               /\ own(proc'[r], y) = own(proc'[q], x) => q = r /\ x = y
    <3>1. CASE q = p /\ x = z
      BY <1>0, <1>2, <1>3, <2>2, <3>1, Constants DEF FrameInv
    <3>2. CASE ~(q = p /\ x = z)
      BY <1>0, <1>2, <1>3, <2>2, <3>2, Constants DEF FrameInv
    <3> QED
      BY <3>1, <3>2
  <2> QED
    BY <2>1, <2>2 DEF FrameInv
<1>5. ASSUME NEW g \in Frames, Held(g) \/ g = f PROVE Held(g)'
  <2>1. CASE g = f
    BY <1>3, <2>1 DEF Held
  <2>2. CASE \E q \in Procs : proc[q].pc = "closed"
    BY <1>1, <1>2, <2>2 DEF Held
  <2>3. CASE \E q \in Procs : \E x \in Holders : own(proc[q], x) = g
    BY <1>2, <1>3, <2>3, Constants DEF Held
  <2> QED
    BY <1>5, <2>1, <2>2, <2>3 DEF Held
<1> QED
  BY <1>2, <1>4, <1>5 DEF AccountInv

\* A process that returns the frame of a page it has written.
LEMMA ReturnsInv ==
  ASSUME ProcInv, FrameInv, NEW p \in Procs, NEW w, NEW z \in Holders, Returns(p, w, z)
  PROVE  FrameInv' /\ (AccountInv => AccountInv')
<1> DEFINE f == own(proc[p], z)
<1>1. proc'[p] = w /\ \A q \in Procs \ {p} : proc'[q] = proc[q]
  BY MovesOne DEF Returns
<1>2. /\ free' = free \cup {f} /\ late' = late /\ f \in Frames /\ proc[p].pc # "closed"
      /\ \A y \in Holders : own(w, y) = IF y = z THEN NONE ELSE own(proc[p], y)
  BY DEF Returns, Moves
<1>3. \A q \in Procs : \A x \in Holders :
        own(proc'[q], x) = IF q = p /\ x = z THEN NONE ELSE own(proc[q], x)
  BY <1>1, <1>2
<1>4. FrameInv'
  <2>1. free' \subseteq Frames /\ late' \subseteq Frames /\ free' \cap late' = {}
    <3>1. f \notin late
      BY <1>2, Constants DEF FrameInv
    <3> HIDE DEF f
    <3> QED
      BY <1>2, <3>1 DEF FrameInv
  <2>2. ASSUME NEW q \in Procs, NEW r \in Procs, NEW x \in Holders, NEW y \in Holders,
               own(proc'[q], x) \in Frames
        PROVE  /\ own(proc'[q], x) \notin free' \cup late'
               /\ own(proc'[r], y) = own(proc'[q], x) => q = r /\ x = y
    BY <1>2, <1>3, <2>2, Constants DEF FrameInv
  <2> QED
    BY <2>1, <2>2 DEF FrameInv
<1>5. ASSUME NEW g \in Frames, Held(g), g # f PROVE Held(g)'
  <2>1. CASE \E q \in Procs : proc[q].pc = "closed"
    BY <1>1, <1>2, <2>1 DEF Held
  <2>2. CASE \E q \in Procs : \E x \in Holders : own(proc[q], x) = g
    BY <1>3, <1>5, <2>2 DEF Held
  <2> QED
    BY <1>5, <2>1, <2>2 DEF Held
<1> QED
  BY <1>2, <1>4, <1>5 DEF AccountInv

\* New memory is nobody's.
LEMMA AddMemoryInv ==
  ASSUME ProcInv, FrameInv, AddMemory
  PROVE  ProcInv' /\ FrameInv' /\ (AccountInv => AccountInv')
BY Constants DEF AddMemory, ProcInv, FrameInv, AccountInv, Held

\* Every step keeps the invariants.
LEMMA NextInv ==
  ASSUME SwapPages # 0, ProcInv, FrameInv, [Next]_vars
  PROVE  ProcInv' /\ FrameInv' /\ (AccountInv => AccountInv')
<1>1. CASE UNCHANGED vars
  BY <1>1 DEF vars, ProcInv, FrameInv, AccountInv, Held
<1>2. CASE AddMemory
  BY <1>2, AddMemoryInv
<1>3. ASSUME NEW p \in Procs,
             Open(p) \/ Close(p) \/ Handler(p) \/ \E v \in Pages : Fault(p, v)
      PROVE  ProcInv' /\ FrameInv' /\ (AccountInv => AccountInv')
  <2>1. PICK w : Keeps(p, w) \/ \E x \in Holders : Takes(p, w, x) \/ Returns(p, w, x)
    BY <1>3, StepKinds DEF FrameInv
  <2>2. ProcInv'
    BY <2>1, MovesOne DEF Keeps, Takes, Returns
  <2> QED
    BY <2>1, <2>2, KeepsInv, TakesInv, ReturnsInv
<1> QED
  BY <1>1, <1>2, <1>3 DEF Next

\* At first nobody holds a frame.
LEMMA InitInv ==
  ASSUME SwapPages # 0, Init
  PROVE  ProcInv /\ FrameInv /\ AccountInv
<1>1. \A p \in Procs : proc[p] = not_open
  BY DEF Init
<1>2. Good(not_open) /\ not_open \in ProcRecord /\ \A x \in Holders : own(not_open, x) = NONE
  BY NotOpenGood DEF Good
<1>3. ProcInv
  BY <1>1, <1>2 DEF Init, ProcInv
<1>4. \A p \in Procs : \A x \in Holders : own(proc[p], x) = NONE
  BY <1>1, <1>2
<1>5. FrameInv
  BY <1>4, Constants DEF Init, FrameInv
<1> QED
  BY <1>3, <1>5 DEF Init, AccountInv

\* uses, which the properties speak of, in terms of own.
LEMMA UsesAreOwn ==
  ASSUME ProcInv, NEW a \in Uses
  PROVE  \E p \in Procs, x \in Holders :
           a = <<p, x, own(proc[p], x)>> /\ own(proc[p], x) \in Frames
<1>1. PICK p \in Procs : a \in uses(p)
  BY DEF Uses
<1>2. Good(proc[p]) /\ proc[p] \in ProcRecord
  BY DEF ProcInv, Good
<1>3. CASE a \in {<<p, v, proc[p].pte[v].base>> :
                     v \in {x \in Pages : proc[p].pte[x].present \/ proc[p].victim = x}}
  <2>1. PICK v \in Pages : InFrame(proc[p], v) /\ a = <<p, v, proc[p].pte[v].base>>
    BY <1>3 DEF InFrame
  <2>2. own(proc[p], v) = proc[p].pte[v].base /\ own(proc[p], v) \in Frames
    BY <1>2, <2>1, Constants DEF own, Good
  <2> QED
    BY <2>1, <2>2 DEF Holders
<1>4. CASE a \in {<<p, 0, f>> : f \in {proc[p].table} \ {NONE}}
  <2>1. a = <<p, 0, proc[p].table>> /\ proc[p].table # NONE
    BY <1>4
  <2>2. own(proc[p], 0) = proc[p].table /\ own(proc[p], 0) \in Frames
    BY <1>2, <2>1 DEF own, ProcRecord
  <2> QED
    BY <2>1, <2>2 DEF Holders
<1> QED
  BY <1>1, <1>3, <1>4 DEF uses

\* The invariants hold in every behaviour.
LEMMA SpecInv ==
  ASSUME SwapPages # 0
  PROVE  Spec => [](ProcInv /\ FrameInv /\ AccountInv)
<1>1. Init => ProcInv /\ FrameInv /\ AccountInv
  BY InitInv
<1>2. ProcInv /\ FrameInv /\ AccountInv /\ [Next]_vars => (ProcInv /\ FrameInv /\ AccountInv)'
  BY NextInv
<1> QED
  BY <1>1, <1>2, PTL DEF Spec

-----------------------------------------------------------------------------
(* The theorems. *)

\* Every entry holds a frame of the pools or the index of a slot, at every
\* point of the page fault handlers of any number of processes, wherever they
\* are switched, if the swap file is not empty.
THEOREM ProcessesTypes ==
  ASSUME SwapPages # 0
  PROVE  Spec => []TypeOK
<1>1. ProcInv /\ FrameInv => TypeOK
  BY DEF ProcInv, FrameInv, TypeOK, Good, InFrame, ProcRecord
<1> QED
  BY <1>1, SpecInv, PTL

\* No frame of the pools is given to two users or back to the pool while it
\* is used or written to the swap file, wherever processes are switched, as
\* long as petmem_alloc_pages and petmem_free_pages are not interrupted.
THEOREM ProcessesOwnFrames ==
  ASSUME SwapPages # 0
  PROVE  Spec => []FrameOwnedOnce
<1>1. ProcInv /\ FrameInv => FrameOwnedOnce
  <2> SUFFICES ASSUME ProcInv, FrameInv, NEW a \in Uses, NEW b \in Uses
               PROVE  (a[3] = b[3] => a = b) /\ a[3] \notin free
    BY DEF FrameOwnedOnce
  <2>1. PICK p \in Procs, x \in Holders :
          a = <<p, x, own(proc[p], x)>> /\ own(proc[p], x) \in Frames
    BY UsesAreOwn
  <2>2. PICK q \in Procs, y \in Holders : b = <<q, y, own(proc[q], y)>>
    BY UsesAreOwn
  <2> QED
    BY <2>1, <2>2 DEF FrameInv
<1> QED
  BY <1>1, SpecInv, PTL

\* What a process holds is one of its uses.
LEMMA OwnIsUsed ==
  ASSUME NEW p \in Procs, NEW x \in Holders, own(proc[p], x) # NONE
  PROVE  \E a \in Uses : a[3] = own(proc[p], x)
<1>1. CASE x = 0
  <2>1. own(proc[p], x) = proc[p].table /\ proc[p].table \in {proc[p].table} \ {NONE}
    BY <1>1 DEF own
  <2>2. <<p, 0, proc[p].table>> \in uses(p)
    BY <2>1 DEF uses
  <2>3. <<p, 0, proc[p].table>> \in Uses
    BY <2>2 DEF Uses
  <2> QED
    BY <2>1, <2>3
<1>2. CASE x # 0
  <2>1. x \in Pages /\ InFrame(proc[p], x) /\ own(proc[p], x) = proc[p].pte[x].base
    BY <1>2 DEF own, Holders
  <2>2. <<p, x, proc[p].pte[x].base>> \in uses(p)
    BY <2>1 DEF uses, InFrame
  <2>3. <<p, x, proc[p].pte[x].base>> \in Uses
    BY <2>2 DEF Uses
  <2> QED
    BY <2>1, <2>3
<1> QED
  BY <1>1, <1>2

\* Until a process ends, every frame is free, still to come, or in use, for
\* any number of processes and wherever they are switched: evictions that
\* others interrupt, missing swap files and second allocations that fail
\* lose none.
THEOREM ProcessesLoseNoFrame ==
  ASSUME SwapPages # 0
  PROVE  Spec => []FramesAccounted
<1>1. AccountInv => FramesAccounted
  <2> SUFFICES ASSUME AccountInv, \A p \in Procs : proc[p].pc # "closed",
                      NEW f \in Frames, f \notin free \cup late
               PROVE  f \in {a[3] : a \in Uses}
    BY DEF FramesAccounted
  <2>1. PICK p \in Procs, x \in Holders : own(proc[p], x) = f
    BY DEF AccountInv, Held
  <2>2. PICK a \in Uses : a[3] = f
    BY <2>1, OwnIsUsed, Constants
  <2> QED
    BY <2>2
<1> QED
  BY <1>1, SpecInv, PTL
=============================================================================
