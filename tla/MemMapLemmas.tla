---------------------------- MODULE MemMapLemmas ----------------------------
(***************************************************************************)
(* What the operations on the two data structures of struct mem_map do,    *)
(* for every size of the address range and of the swap file: the list of   *)
(* regions, and the bitmap and the file of the swap space; and the facts   *)
(* about naturals, bits and sequences that needs.  The proofs about        *)
(* VSpace, Swap, Processes and Paging rest on these lemmas.                *)
(***************************************************************************)
EXTENDS Regions, SwapSpace, SequenceTheorems, WellFoundedInduction, TLAPS

-----------------------------------------------------------------------------
(* Naturals. *)

\* The order of the naturals, as the relation that WFMin is about.
LEMMA LessThanRelation ==
  OpToRel(<, Nat) = {ss \in Nat \X Nat : ss[1] < ss[2]}
BY Zenon DEF OpToRel

\* Every set of naturals that is not empty has a least element.
LEMMA LeastNatural ==
  ASSUME NEW S \in SUBSET Nat, S # {}
  PROVE  \E x \in S : \A y \in S : x =< y
<1> DEFINE R == OpToRel(<, Nat)
<1>1. R = {ss \in Nat \X Nat : ss[1] < ss[2]}
  BY LessThanRelation, Zenon
<1>2. IsWellFoundedOn(R, Nat)
  BY NatLessThanWellFounded
<1> HIDE DEF R
<1>3. PICK x \in S : \A y \in S : ~(<<y, x>> \in R)
  BY <1>2, WFMin
<1>4. ASSUME NEW y \in S, y < x
      PROVE  FALSE
  <2>1. <<y, x>> \in Nat \X Nat /\ <<y, x>>[1] < <<y, x>>[2]
    BY <1>4
  <2>2. <<y, x>> \in R
    BY <1>1, <2>1, Zenon
  <2> QED
    BY <1>3, <2>2
<1> QED
  BY <1>4

\* What Min chooses: free slots, free frames and pools are found by it.
LEMMA MinOfNaturals ==
  ASSUME NEW S \in SUBSET Nat, S # {}
  PROVE  Min(S) \in S /\ \A y \in S : Min(S) =< y
BY LeastNatural DEF Min

\* What Max chooses from a set of naturals with a bound.
LEMMA MaxOfNaturals ==
  ASSUME NEW S \in SUBSET Nat, S # {}, NEW n \in Nat, \A y \in S : y =< n
  PROVE  Max(S) \in S /\ \A y \in S : Max(S) >= y
<1> DEFINE above == {d \in 0 .. n : n - d \in S}
<1>1. above \in SUBSET Nat
  OBVIOUS
<1>2. PICK z \in S : TRUE
  OBVIOUS
<1>3. n - z \in 0 .. n /\ n - (n - z) = z
  BY <1>2
<1>4. n - z \in above
  BY <1>2, <1>3
<1>5. PICK d \in above : \A e \in above : d =< e
  BY <1>1, <1>4, LeastNatural
<1>6. ASSUME NEW y \in S
      PROVE  n - d >= y
  <2>1. n - y \in 0 .. n /\ n - (n - y) = y
    OBVIOUS
  <2>2. n - y \in above
    BY <2>1
  <2>3. d =< n - y /\ d \in 0 .. n
    BY <1>5, <2>2
  <2> QED
    BY <2>3
<1> QED
  BY <1>5, <1>6 DEF Max

\* Induction, for a set instead of a predicate.
LEMMA InductionSet ==
  ASSUME NEW S \in SUBSET Nat, 0 \in S, \A n \in S : n + 1 \in S
  PROVE  S = Nat
<1> SUFFICES ASSUME Nat \ S # {}
             PROVE  FALSE
  OBVIOUS
<1>1. PICK x \in Nat \ S : \A y \in Nat \ S : x =< y
  BY LeastNatural
<1>2. x - 1 \in Nat /\ x - 1 \notin Nat \ S
  BY <1>1
<1> QED
  BY <1>1, <1>2

-----------------------------------------------------------------------------
(* Bytes. *)

\* The weight of each bit of a byte.
LEMMA PowersOfByte ==
  \A c \in 0 .. 7 : \/ c = 0 /\ 2^c = 1
                    \/ c = 1 /\ 2^c = 2
                    \/ c = 2 /\ 2^c = 4
                    \/ c = 3 /\ 2^c = 8
                    \/ c = 4 /\ 2^c = 16
                    \/ c = 5 /\ 2^c = 32
                    \/ c = 6 /\ 2^c = 64
                    \/ c = 7 /\ 2^c = 128
<1>0. ASSUME NEW c, c = 0 PROVE 2^c = 1
  <2>1. 2^0 = 1  OBVIOUS
  <2> QED  BY <1>0, <2>1, Zenon
<1>1. ASSUME NEW c, c = 1 PROVE 2^c = 2
  <2>1. 2^1 = 2  OBVIOUS
  <2> QED  BY <1>1, <2>1, Zenon
<1>2. ASSUME NEW c, c = 2 PROVE 2^c = 4
  <2>1. 2^2 = 4  OBVIOUS
  <2> QED  BY <1>2, <2>1, Zenon
<1>3. ASSUME NEW c, c = 3 PROVE 2^c = 8
  <2>1. 2^3 = 8  OBVIOUS
  <2> QED  BY <1>3, <2>1, Zenon
<1>4. ASSUME NEW c, c = 4 PROVE 2^c = 16
  <2>1. 2^4 = 16  OBVIOUS
  <2> QED  BY <1>4, <2>1, Zenon
<1>5. ASSUME NEW c, c = 5 PROVE 2^c = 32
  <2>1. 2^5 = 32  OBVIOUS
  <2> QED  BY <1>5, <2>1, Zenon
<1>6. ASSUME NEW c, c = 6 PROVE 2^c = 64
  <2>1. 2^6 = 64  OBVIOUS
  <2> QED  BY <1>6, <2>1, Zenon
<1>7. ASSUME NEW c, c = 7 PROVE 2^c = 128
  <2>1. 2^7 = 128  OBVIOUS
  <2> QED  BY <1>7, <2>1, Zenon
<1> QED
  BY <1>0, <1>1, <1>2, <1>3, <1>4, <1>5, <1>6, <1>7

\* The bit of weight w of the byte x, and x with the value v for that bit.
Bit(x, w) == (x \div w) % 2
WithBit(x, v, w) == x + (v - Bit(x, w)) * w
Weights == {1, 2, 4, 8, 16, 32, 64, 128}

\* The weights of the bits are different.
LEMMA WeightsDiffer ==
  ASSUME NEW b \in 0 .. 7, NEW c \in 0 .. 7
  PROVE  2^b \in Weights /\ (2^b = 2^c => b = c)
<1> DEFINE IsWeight(n, w) == \/ n = 0 /\ w = 1
                             \/ n = 1 /\ w = 2
                             \/ n = 2 /\ w = 4
                             \/ n = 3 /\ w = 8
                             \/ n = 4 /\ w = 16
                             \/ n = 5 /\ w = 32
                             \/ n = 6 /\ w = 64
                             \/ n = 7 /\ w = 128
<1>1. IsWeight(b, 2^b) /\ IsWeight(c, 2^c)
  BY PowersOfByte, Zenon
<1>2. ASSUME NEW m, NEW n, NEW w, IsWeight(m, w), IsWeight(n, w)
      PROVE  w \in Weights /\ m = n
  BY <1>2 DEF Weights
<1> HIDE DEF IsWeight
<1> QED
  BY <1>1, <1>2, Zenon

\* Adding the weight of a bit that is not set, or taking away that of one
\* that is, gives a byte again and changes that bit only.
LEMMA SetBitOfWeight ==
  ASSUME NEW x \in 0 .. 255, NEW v \in 0 .. 1, NEW w \in Weights
  PROVE  WithBit(x, v, w) \in 0 .. 255 /\ Bit(WithBit(x, v, w), w) = v
<1>1. \A n \in Weights : w = n => WithBit(x, v, n) \in 0 .. 255 /\ Bit(WithBit(x, v, n), n) = v
  BY DEF WithBit, Bit, Weights
<1> QED
  BY <1>1

\* Writing the bit of one weight leaves the bit of every other alone.
LEMMA OtherBitsOfWeight ==
  ASSUME NEW x \in 0 .. 255, NEW v \in 0 .. 1,
         NEW w \in Weights, NEW u \in Weights, u # w
  PROVE  Bit(WithBit(x, v, w), u) = Bit(x, u)
<1>0. CASE w = 1
  <2>1. Bit(WithBit(x, v, 1), 2) = Bit(x, 2)
    BY DEF WithBit, Bit
  <2>2. Bit(WithBit(x, v, 1), 4) = Bit(x, 4)
    BY DEF WithBit, Bit
  <2>3. Bit(WithBit(x, v, 1), 8) = Bit(x, 8)
    BY DEF WithBit, Bit
  <2>4. Bit(WithBit(x, v, 1), 16) = Bit(x, 16)
    BY DEF WithBit, Bit
  <2>5. Bit(WithBit(x, v, 1), 32) = Bit(x, 32)
    BY DEF WithBit, Bit
  <2>6. Bit(WithBit(x, v, 1), 64) = Bit(x, 64)
    BY DEF WithBit, Bit
  <2>7. Bit(WithBit(x, v, 1), 128) = Bit(x, 128)
    BY DEF WithBit, Bit
  <2> QED
    BY <1>0, <2>1, <2>2, <2>3, <2>4, <2>5, <2>6, <2>7 DEF Weights
<1>1. CASE w = 2
  <2>1. Bit(WithBit(x, v, 2), 1) = Bit(x, 1)
    BY DEF WithBit, Bit
  <2>2. Bit(WithBit(x, v, 2), 4) = Bit(x, 4)
    BY DEF WithBit, Bit
  <2>3. Bit(WithBit(x, v, 2), 8) = Bit(x, 8)
    BY DEF WithBit, Bit
  <2>4. Bit(WithBit(x, v, 2), 16) = Bit(x, 16)
    BY DEF WithBit, Bit
  <2>5. Bit(WithBit(x, v, 2), 32) = Bit(x, 32)
    BY DEF WithBit, Bit
  <2>6. Bit(WithBit(x, v, 2), 64) = Bit(x, 64)
    BY DEF WithBit, Bit
  <2>7. Bit(WithBit(x, v, 2), 128) = Bit(x, 128)
    BY DEF WithBit, Bit
  <2> QED
    BY <1>1, <2>1, <2>2, <2>3, <2>4, <2>5, <2>6, <2>7 DEF Weights
<1>2. CASE w = 4
  <2>1. Bit(WithBit(x, v, 4), 1) = Bit(x, 1)
    BY DEF WithBit, Bit
  <2>2. Bit(WithBit(x, v, 4), 2) = Bit(x, 2)
    BY DEF WithBit, Bit
  <2>3. Bit(WithBit(x, v, 4), 8) = Bit(x, 8)
    BY DEF WithBit, Bit
  <2>4. Bit(WithBit(x, v, 4), 16) = Bit(x, 16)
    BY DEF WithBit, Bit
  <2>5. Bit(WithBit(x, v, 4), 32) = Bit(x, 32)
    BY DEF WithBit, Bit
  <2>6. Bit(WithBit(x, v, 4), 64) = Bit(x, 64)
    BY DEF WithBit, Bit
  <2>7. Bit(WithBit(x, v, 4), 128) = Bit(x, 128)
    BY DEF WithBit, Bit
  <2> QED
    BY <1>2, <2>1, <2>2, <2>3, <2>4, <2>5, <2>6, <2>7 DEF Weights
<1>3. CASE w = 8
  <2>1. Bit(WithBit(x, v, 8), 1) = Bit(x, 1)
    BY DEF WithBit, Bit
  <2>2. Bit(WithBit(x, v, 8), 2) = Bit(x, 2)
    BY DEF WithBit, Bit
  <2>3. Bit(WithBit(x, v, 8), 4) = Bit(x, 4)
    BY DEF WithBit, Bit
  <2>4. Bit(WithBit(x, v, 8), 16) = Bit(x, 16)
    BY DEF WithBit, Bit
  <2>5. Bit(WithBit(x, v, 8), 32) = Bit(x, 32)
    BY DEF WithBit, Bit
  <2>6. Bit(WithBit(x, v, 8), 64) = Bit(x, 64)
    BY DEF WithBit, Bit
  <2>7. Bit(WithBit(x, v, 8), 128) = Bit(x, 128)
    BY DEF WithBit, Bit
  <2> QED
    BY <1>3, <2>1, <2>2, <2>3, <2>4, <2>5, <2>6, <2>7 DEF Weights
<1>4. CASE w = 16
  <2>1. Bit(WithBit(x, v, 16), 1) = Bit(x, 1)
    BY DEF WithBit, Bit
  <2>2. Bit(WithBit(x, v, 16), 2) = Bit(x, 2)
    BY DEF WithBit, Bit
  <2>3. Bit(WithBit(x, v, 16), 4) = Bit(x, 4)
    BY DEF WithBit, Bit
  <2>4. Bit(WithBit(x, v, 16), 8) = Bit(x, 8)
    BY DEF WithBit, Bit
  <2>5. Bit(WithBit(x, v, 16), 32) = Bit(x, 32)
    BY DEF WithBit, Bit
  <2>6. Bit(WithBit(x, v, 16), 64) = Bit(x, 64)
    BY DEF WithBit, Bit
  <2>7. Bit(WithBit(x, v, 16), 128) = Bit(x, 128)
    BY DEF WithBit, Bit
  <2> QED
    BY <1>4, <2>1, <2>2, <2>3, <2>4, <2>5, <2>6, <2>7 DEF Weights
<1>5. CASE w = 32
  <2>1. Bit(WithBit(x, v, 32), 1) = Bit(x, 1)
    BY DEF WithBit, Bit
  <2>2. Bit(WithBit(x, v, 32), 2) = Bit(x, 2)
    BY DEF WithBit, Bit
  <2>3. Bit(WithBit(x, v, 32), 4) = Bit(x, 4)
    BY DEF WithBit, Bit
  <2>4. Bit(WithBit(x, v, 32), 8) = Bit(x, 8)
    BY DEF WithBit, Bit
  <2>5. Bit(WithBit(x, v, 32), 16) = Bit(x, 16)
    BY DEF WithBit, Bit
  <2>6. Bit(WithBit(x, v, 32), 64) = Bit(x, 64)
    BY DEF WithBit, Bit
  <2>7. Bit(WithBit(x, v, 32), 128) = Bit(x, 128)
    BY DEF WithBit, Bit
  <2> QED
    BY <1>5, <2>1, <2>2, <2>3, <2>4, <2>5, <2>6, <2>7 DEF Weights
<1>6. CASE w = 64
  <2>1. Bit(WithBit(x, v, 64), 1) = Bit(x, 1)
    BY DEF WithBit, Bit
  <2>2. Bit(WithBit(x, v, 64), 2) = Bit(x, 2)
    BY DEF WithBit, Bit
  <2>3. Bit(WithBit(x, v, 64), 4) = Bit(x, 4)
    BY DEF WithBit, Bit
  <2>4. Bit(WithBit(x, v, 64), 8) = Bit(x, 8)
    BY DEF WithBit, Bit
  <2>5. Bit(WithBit(x, v, 64), 16) = Bit(x, 16)
    BY DEF WithBit, Bit
  <2>6. Bit(WithBit(x, v, 64), 32) = Bit(x, 32)
    BY DEF WithBit, Bit
  <2>7. Bit(WithBit(x, v, 64), 128) = Bit(x, 128)
    BY DEF WithBit, Bit
  <2> QED
    BY <1>6, <2>1, <2>2, <2>3, <2>4, <2>5, <2>6, <2>7 DEF Weights
<1>7. CASE w = 128
  <2>1. Bit(WithBit(x, v, 128), 1) = Bit(x, 1)
    BY DEF WithBit, Bit
  <2>2. Bit(WithBit(x, v, 128), 2) = Bit(x, 2)
    BY DEF WithBit, Bit
  <2>3. Bit(WithBit(x, v, 128), 4) = Bit(x, 4)
    BY DEF WithBit, Bit
  <2>4. Bit(WithBit(x, v, 128), 8) = Bit(x, 8)
    BY DEF WithBit, Bit
  <2>5. Bit(WithBit(x, v, 128), 16) = Bit(x, 16)
    BY DEF WithBit, Bit
  <2>6. Bit(WithBit(x, v, 128), 32) = Bit(x, 32)
    BY DEF WithBit, Bit
  <2>7. Bit(WithBit(x, v, 128), 64) = Bit(x, 64)
    BY DEF WithBit, Bit
  <2> QED
    BY <1>7, <2>1, <2>2, <2>3, <2>4, <2>5, <2>6, <2>7 DEF Weights
<1> QED
  BY <1>0, <1>1, <1>2, <1>3, <1>4, <1>5, <1>6, <1>7 DEF Weights

\* The same for the bit with number b.
LEMMA SetBit ==
  ASSUME NEW x \in 0 .. 255, NEW v \in 0 .. 1, NEW b \in 0 .. 7
  PROVE  WithBit(x, v, 2^b) \in 0 .. 255 /\ Bit(WithBit(x, v, 2^b), 2^b) = v
<1>1. 2^b \in Weights
  BY WeightsDiffer, Zenon
<1> QED
  BY <1>1, SetBitOfWeight, Zenon

\* Writing bit b of a byte leaves every other bit c alone.
LEMMA OtherBits ==
  ASSUME NEW x \in 0 .. 255, NEW v \in 0 .. 1, NEW b \in 0 .. 7, NEW c \in 0 .. 7, b # c
  PROVE  Bit(WithBit(x, v, 2^b), 2^c) = Bit(x, 2^c)
<1>1. 2^b \in Weights /\ 2^c \in Weights /\ 2^c # 2^b
  BY WeightsDiffer, Zenon
<1> QED
  BY <1>1, OtherBitsOfWeight, Zenon

\* A bit is 0 or 1.
LEMMA BitType ==
  ASSUME NEW x \in 0 .. 255, NEW b \in 0 .. 7
  PROVE  Bit(x, 2^b) \in 0 .. 1
<1> DEFINE w == 2^b
<1>1. w \in Weights
  BY WeightsDiffer, Zenon
<1> HIDE DEF w
<1>2. Bit(x, w) \in 0 .. 1
  BY <1>1 DEF Bit, Weights
<1> QED
  BY <1>2 DEF w

-----------------------------------------------------------------------------
(* Division and sequences. *)

\* Division, in the form the proofs use it.
LEMMA Division ==
  ASSUME NEW x \in Nat, NEW d \in Nat \ {0}
  PROVE  /\ x \div d \in Nat /\ x % d \in 0 .. d - 1
         /\ x = d * (x \div d) + (x % d)
OBVIOUS

\* What two sequences in a row have at each place.
LEMMA Joined ==
  ASSUME NEW S, NEW s \in Seq(S), NEW t \in Seq(S)
  PROVE  /\ s \o t \in Seq(S) /\ Len(s \o t) = Len(s) + Len(t)
         /\ \A k \in 1 .. Len(s) + Len(t) :
              (s \o t)[k] = IF k =< Len(s) THEN s[k] ELSE t[k - Len(s)]
BY ConcatProperties

\* The parts of a sequence up to a place and from a place on.
LEMMA Parts ==
  ASSUME NEW S, NEW s \in Seq(S), NEW i \in 1 .. Len(s) + 1
  PROVE  /\ SubSeq(s, 1, i - 1) \in Seq(S) /\ Len(SubSeq(s, 1, i - 1)) = i - 1
         /\ \A k \in 1 .. i - 1 : SubSeq(s, 1, i - 1)[k] = s[k]
         /\ SubSeq(s, i, Len(s)) \in Seq(S) /\ Len(SubSeq(s, i, Len(s))) = Len(s) - i + 1
         /\ \A k \in 1 .. Len(s) - i + 1 : SubSeq(s, i, Len(s))[k] = s[k + i - 1]
<1>1. /\ 1 \in 1 .. Len(s) + 1 /\ i - 1 \in 1 - 1 .. Len(s) /\ Len(s) \in i - 1 .. Len(s)
      /\ Len(s) \in Nat
  OBVIOUS
<1>2. /\ SubSeq(s, 1, i - 1) \in Seq(S)
      /\ Len(SubSeq(s, 1, i - 1)) = IF 1 <= i - 1 THEN (i - 1) - 1 + 1 ELSE 0
      /\ \A k \in 1 .. (i - 1) - 1 + 1 : SubSeq(s, 1, i - 1)[k] = s[1 + k - 1]
  BY <1>1, SubSeqProperties
<1>3. /\ SubSeq(s, i, Len(s)) \in Seq(S)
      /\ Len(SubSeq(s, i, Len(s))) = IF i <= Len(s) THEN Len(s) - i + 1 ELSE 0
      /\ \A k \in 1 .. Len(s) - i + 1 : SubSeq(s, i, Len(s))[k] = s[i + k - 1]
  BY <1>1, SubSeqProperties
<1>4. \A k \in 1 .. i - 1 : SubSeq(s, 1, i - 1)[k] = s[k]
  BY <1>1, <1>2
<1>5. \A k \in 1 .. Len(s) - i + 1 : SubSeq(s, i, Len(s))[k] = s[k + i - 1]
  BY <1>1, <1>3
<1> QED
  BY <1>1, <1>2, <1>3, <1>4, <1>5

\* The list with a new node at place i.
LEMMA InsertAtFacts ==
  ASSUME NEW s \in Seq(Region), NEW i \in 1 .. Len(s) + 1, NEW e \in Region
  PROVE  /\ InsertAt(s, i, e) \in Seq(Region)
         /\ Len(InsertAt(s, i, e)) = Len(s) + 1
         /\ \A k \in 1 .. i - 1 : InsertAt(s, i, e)[k] = s[k]
         /\ InsertAt(s, i, e)[i] = e
         /\ \A k \in i + 1 .. Len(s) + 1 : InsertAt(s, i, e)[k] = s[k - 1]
<1> DEFINE a == SubSeq(s, 1, i - 1)
           b == SubSeq(s, i, Len(s))
           c == a \o <<e>>
<1>1. /\ a \in Seq(Region) /\ Len(a) = i - 1 /\ \A k \in 1 .. i - 1 : a[k] = s[k]
      /\ b \in Seq(Region) /\ Len(b) = Len(s) - i + 1
      /\ \A k \in 1 .. Len(s) - i + 1 : b[k] = s[k + i - 1]
  BY Parts
<1>2. InsertAt(s, i, e) = c \o b
  BY DEF InsertAt
<1> HIDE DEF a, b
<1>3. <<e>> \in Seq(Region) /\ Len(<<e>>) = 1 /\ <<e>>[1] = e /\ Len(s) \in Nat
  OBVIOUS
<1>4. /\ c \in Seq(Region) /\ Len(c) = i
      /\ \A k \in 1 .. i : c[k] = IF k < i THEN s[k] ELSE e
  BY <1>1, <1>3, Joined
<1> HIDE DEF c
<1>5. /\ c \o b \in Seq(Region) /\ Len(c \o b) = Len(s) + 1
      /\ \A k \in 1 .. Len(s) + 1 : (c \o b)[k] = IF k =< i THEN c[k] ELSE b[k - i]
  <2>1. /\ c \o b \in Seq(Region) /\ Len(c \o b) = Len(c) + Len(b)
        /\ \A k \in 1 .. Len(c) + Len(b) :
             (c \o b)[k] = IF k =< Len(c) THEN c[k] ELSE b[k - Len(c)]
    <3>1. c \in Seq(Region) /\ b \in Seq(Region)
      BY <1>1, <1>4
    <3> QED
      BY <3>1, Joined, Zenon
  <2>2. Len(c) = i /\ Len(c) + Len(b) = Len(s) + 1
    BY <1>1, <1>3, <1>4
  <2> QED
    BY <2>1, <2>2
<1>6. (\A k \in 1 .. i - 1 : (c \o b)[k] = s[k]) /\ (c \o b)[i] = e
  BY <1>3, <1>4, <1>5
<1>7. ASSUME NEW k \in i + 1 .. Len(s) + 1
      PROVE  (c \o b)[k] = s[k - 1]
  <2>1. k \in 1 .. Len(s) + 1 /\ ~(k =< i)
    BY <1>3
  <2>2. k - i \in 1 .. Len(s) - i + 1 /\ (k - i) + i - 1 = k - 1
    BY <1>3
  <2> QED
    BY <1>1, <1>5, <2>1, <2>2
<1> QED
  BY <1>2, <1>5, <1>6, <1>7

\* The list without the node at place i.
LEMMA RemoveAtFacts ==
  ASSUME NEW s \in Seq(Region), NEW i \in 1 .. Len(s)
  PROVE  /\ RemoveAt(s, i) \in Seq(Region)
         /\ Len(RemoveAt(s, i)) = Len(s) - 1
         /\ \A k \in 1 .. Len(s) - 1 : RemoveAt(s, i)[k] = IF k < i THEN s[k] ELSE s[k + 1]
<1> DEFINE a == SubSeq(s, 1, i - 1)
           b == SubSeq(s, i + 1, Len(s))
<1>0. Len(s) \in Nat /\ i + 1 \in 1 .. Len(s) + 1 /\ i \in 1 .. Len(s) + 1
  OBVIOUS
<1>1. a \in Seq(Region) /\ Len(a) = i - 1 /\ \A k \in 1 .. i - 1 : a[k] = s[k]
  BY <1>0, Parts
<1>2. /\ b \in Seq(Region) /\ Len(b) = Len(s) - (i + 1) + 1
      /\ \A k \in 1 .. Len(s) - (i + 1) + 1 : b[k] = s[k + (i + 1) - 1]
  BY <1>0, Parts
<1>3. RemoveAt(s, i) = a \o b
  BY DEF RemoveAt
<1> HIDE DEF a, b
<1>4. /\ a \o b \in Seq(Region) /\ Len(a \o b) = Len(s) - 1
      /\ \A k \in 1 .. Len(s) - 1 : (a \o b)[k] = IF k < i THEN a[k] ELSE b[k - (i - 1)]
  <2>1. /\ a \o b \in Seq(Region) /\ Len(a \o b) = Len(a) + Len(b)
        /\ \A k \in 1 .. Len(a) + Len(b) :
             (a \o b)[k] = IF k =< Len(a) THEN a[k] ELSE b[k - Len(a)]
    BY <1>1, <1>2, Joined
  <2>2. Len(a) = i - 1 /\ Len(a) + Len(b) = Len(s) - 1
    BY <1>0, <1>1, <1>2
  <2> QED
    BY <1>0, <2>1, <2>2
<1>5. ASSUME NEW k \in 1 .. Len(s) - 1
      PROVE  (a \o b)[k] = IF k < i THEN s[k] ELSE s[k + 1]
  <2>1. CASE k < i
    BY <1>0, <1>1, <1>4, <2>1
  <2>2. CASE k >= i
    <3>1. k - (i - 1) \in 1 .. Len(s) - (i + 1) + 1 /\ (k - (i - 1)) + (i + 1) - 1 = k + 1
      BY <1>0, <2>2
    <3>2. b[k - (i - 1)] = s[k + 1]
      BY <1>2, <3>1
    <3> QED
      BY <1>0, <1>4, <2>2, <3>2
  <2>3. k < i \/ k >= i
    BY <1>0
  <2> QED
    BY <2>1, <2>2, <2>3, Zenon
<1> QED
  BY <1>3, <1>4, <1>5

-----------------------------------------------------------------------------
(* Lists of regions: what allocate and free_address do to one. *)

\* RegionsTile and TypeOK of a list.
Tiled(s) ==
  /\ s \in Seq(Region) /\ Len(s) >= 1
  /\ s[1].page_addr = RegionStart
  /\ \A k \in 1 .. Len(s) - 1 : s[k + 1].page_addr = s[k].page_addr + s[k].size
  /\ s[Len(s)].page_addr + s[Len(s)].size = RegionEnd

\* Every region has a page.
Positive(s) == \A k \in 1 .. Len(s) : s[k].size >= 1

\* NoAdjacentFree of a list, but for the pairs whose first place is in K.
Quiet(s, K) ==
  \A k \in (1 .. Len(s) - 1) \ K : ~(s[k].status = FREE /\ s[k + 1].status = FREE)

\* The allocated regions of a list.
Alloc(s) ==
  {<<s[k].page_addr, s[k].size>> : k \in {m \in 1 .. Len(s) : s[m].status = ALLOCATED}}

\* The list t is s with a new status for region i.
Marked(s, i, st, t) ==
  /\ t \in Seq(Region) /\ Len(t) = Len(s)
  /\ \A k \in (1 .. Len(s)) \ {i} : t[k] = s[k]
  /\ t[i] = [status |-> st, size |-> s[i].size, page_addr |-> s[i].page_addr]

\* The list t is s with one free region in place of i and the next.
Merged(s, i, t) ==
  /\ t \in Seq(Region) /\ Len(t) = Len(s) - 1
  /\ \A k \in 1 .. i - 1 : t[k] = s[k]
  /\ t[i] = [status |-> FREE, size |-> s[i].size + s[i + 1].size, page_addr |-> s[i].page_addr]
  /\ \A k \in i + 1 .. Len(s) - 1 : t[k] = s[k + 1]

\* The list t is s with the first n pages of region i allocated and the rest
\* of it free.
Split(s, i, n, t) ==
  /\ t \in Seq(Region) /\ Len(t) = Len(s) + 1
  /\ \A k \in 1 .. i - 1 : t[k] = s[k]
  /\ t[i] = [status |-> ALLOCATED, size |-> n, page_addr |-> s[i].page_addr]
  /\ t[i + 1] = [status |-> FREE, size |-> s[i].size - n, page_addr |-> s[i].page_addr + n]
  /\ \A k \in i + 2 .. Len(s) + 1 : t[k] = s[k - 1]

\* A region is a record of its three fields.
LEMMA RegionFields ==
  ASSUME NEW r \in Region
  PROVE  /\ r = [status |-> r.status, size |-> r.size, page_addr |-> r.page_addr]
         /\ r.status \in {FREE, ALLOCATED} /\ r.size \in Nat /\ r.page_addr \in Nat
BY DEF Region

\* A node is a region.
LEMMA NewRegion ==
  ASSUME NEW st \in {FREE, ALLOCATED}, NEW n \in Nat, NEW a \in Nat
  PROVE  [status |-> st, size |-> n, page_addr |-> a] \in Region
BY DEF Region

\* Nodes that differ from r in one or two fields.
LEMMA ChangedStatus ==
  ASSUME NEW r \in Region, NEW st \in {FREE, ALLOCATED}
  PROVE  [r EXCEPT !.status = st] =
           [status |-> st, size |-> r.size, page_addr |-> r.page_addr]
BY RegionFields

\* allocate changes the status and the size of the node it splits.
LEMMA ChangedStatusSize ==
  ASSUME NEW r \in Region, NEW st \in {FREE, ALLOCATED}, NEW n \in Nat
  PROVE  [r EXCEPT !.status = st, !.size = n] =
           [status |-> st, size |-> n, page_addr |-> r.page_addr]
<1> DEFINE u == [r EXCEPT !.status = st, !.size = n]
<1>1. u \in Region /\ u.status = st /\ u.size = n /\ u.page_addr = r.page_addr
  BY DEF Region
<1> HIDE DEF u
<1>2. u = [status |-> u.status, size |-> u.size, page_addr |-> u.page_addr]
  BY <1>1, RegionFields
<1> QED
  BY <1>1, <1>2 DEF u

\* A node that absorbs the next one changes its size.
LEMMA ChangedSize ==
  ASSUME NEW r \in Region, NEW n \in Nat
  PROVE  [r EXCEPT !.size = n] =
           [status |-> r.status, size |-> n, page_addr |-> r.page_addr]
BY RegionFields

\* A node that absorbs the previous one changes its size and its address.
LEMMA ChangedSizeAddr ==
  ASSUME NEW r \in Region, NEW n \in Nat, NEW a \in Nat
  PROVE  [r EXCEPT !.size = n, !.page_addr = a] =
           [status |-> r.status, size |-> n, page_addr |-> a]
<1> DEFINE u == [r EXCEPT !.size = n, !.page_addr = a]
<1>1. u \in Region /\ u.status = r.status /\ u.size = n /\ u.page_addr = a
  BY DEF Region
<1> HIDE DEF u
<1>2. u = [status |-> u.status, size |-> u.size, page_addr |-> u.page_addr]
  BY <1>1, RegionFields
<1> QED
  BY <1>1, <1>2 DEF u

\* Another node in place i of the list.
LEMMA PutNode ==
  ASSUME NEW s \in Seq(Region), NEW i \in 1 .. Len(s), NEW r \in Region
  PROVE  /\ [s EXCEPT ![i] = r] \in Seq(Region) /\ Len([s EXCEPT ![i] = r]) = Len(s)
         /\ [s EXCEPT ![i] = r][i] = r
         /\ \A k \in (1 .. Len(s)) \ {i} : [s EXCEPT ![i] = r][k] = s[k]
OBVIOUS

\* Setting the status of a node.
LEMMA SetStatus ==
  ASSUME NEW s \in Seq(Region), NEW i \in 1 .. Len(s), NEW st \in {FREE, ALLOCATED}
  PROVE  Marked(s, i, st, [s EXCEPT ![i].status = st])
<1> DEFINE r == [status |-> st, size |-> s[i].size, page_addr |-> s[i].page_addr]
<1>1. s[i] \in Region
  OBVIOUS
<1>2. r \in Region /\ [s[i] EXCEPT !.status = st] = r
  BY <1>1, RegionFields, NewRegion, ChangedStatus
<1>3. [s EXCEPT ![i].status = st] = [s EXCEPT ![i] = r]
  BY <1>2
<1> HIDE DEF r
<1>4. Marked(s, i, st, [s EXCEPT ![i] = r])
  BY <1>2, PutNode DEF Marked, r
<1> QED
  BY <1>3, <1>4

\* allocate takes a region that fits exactly as it is and splits a larger one.
LEMMA AllocateCases ==
  ASSUME NEW s \in Seq(Region), NEW i \in 1 .. Len(s), NEW n \in Nat, s[i].size >= n
  PROVE  \/ s[i].size = n /\ Marked(s, i, ALLOCATED, allocate(s, i, n))
         \/ s[i].size > n /\ Split(s, i, n, allocate(s, i, n))
<1>0. s[i] \in Region /\ s[i].size \in Nat /\ s[i].page_addr \in Nat
  <2>1. s[i] \in Region
    OBVIOUS
  <2> QED
    BY <2>1, RegionFields
<1>1. CASE s[i].size = n
  BY <1>1, SetStatus DEF allocate
<1>2. CASE s[i].size > n
  <2> DEFINE u == [s EXCEPT ![i].status = ALLOCATED, ![i].size = n]
             e == [status |-> FREE, size |-> s[i].size - n, page_addr |-> s[i].page_addr + n]
             t == InsertAt(u, i + 1, e)
  <2>1. /\ u \in Seq(Region) /\ Len(u) = Len(s) /\ \A k \in (1 .. Len(s)) \ {i} : u[k] = s[k]
        /\ u[i] = [status |-> ALLOCATED, size |-> n, page_addr |-> s[i].page_addr]
    <3> DEFINE r == [status |-> ALLOCATED, size |-> n, page_addr |-> s[i].page_addr]
    <3>1. r \in Region /\ [s[i] EXCEPT !.status = ALLOCATED, !.size = n] = r
      BY <1>0, NewRegion, ChangedStatusSize
    <3>2. u = [s EXCEPT ![i] = r]
      BY <3>1
    <3> HIDE DEF r, u
    <3> QED
      BY <3>1, <3>2, PutNode DEF r
  <2>2. e \in Region
    BY <1>0, <1>2 DEF Region
  <2>3. allocate(s, i, n) = t
    BY <1>0, <1>2 DEF allocate
  <2> HIDE DEF u, e
  <2>4. i + 1 \in 1 .. Len(u) + 1 /\ Len(s) \in Nat /\ i \in Nat
    BY <2>1
  <2>5. /\ t \in Seq(Region) /\ Len(t) = Len(u) + 1
        /\ \A k \in 1 .. (i + 1) - 1 : t[k] = u[k]
        /\ t[i + 1] = e
        /\ \A k \in (i + 1) + 1 .. Len(u) + 1 : t[k] = u[k - 1]
    <3>1. u \in Seq(Region) /\ e \in Region /\ i + 1 \in 1 .. Len(u) + 1
      BY <2>1, <2>2, <2>4
    <3>2. ASSUME NEW j \in 1 .. Len(u) + 1
          PROVE  /\ InsertAt(u, j, e) \in Seq(Region)
                 /\ Len(InsertAt(u, j, e)) = Len(u) + 1
                 /\ \A k \in 1 .. j - 1 : InsertAt(u, j, e)[k] = u[k]
                 /\ InsertAt(u, j, e)[j] = e
                 /\ \A k \in j + 1 .. Len(u) + 1 : InsertAt(u, j, e)[k] = u[k - 1]
      BY <3>1, InsertAtFacts
    <3> QED
      BY <3>1, <3>2
  <2> HIDE DEF t
  <2>6. (\A k \in 1 .. i - 1 : t[k] = s[k]) /\ t[i] = u[i]
    <3>1. i \in 1 .. (i + 1) - 1 /\ \A k \in 1 .. i - 1 : k \in 1 .. (i + 1) - 1
      BY <2>4
    <3> QED
      BY <2>1, <2>4, <2>5, <3>1
  <2>7. ASSUME NEW k \in i + 2 .. Len(s) + 1
        PROVE  t[k] = s[k - 1]
    <3>1. k \in (i + 1) + 1 .. Len(u) + 1 /\ k - 1 \in (1 .. Len(s)) \ {i}
      BY <2>1, <2>4, <2>7
    <3> QED
      BY <2>1, <2>5, <3>1
  <2> QED
    BY <1>2, <2>1, <2>3, <2>5, <2>6, <2>7 DEF Split, e
<1> QED
  BY <1>0, <1>1, <1>2

\* What free_address does with the node behind the one it frees.
LEMMA AbsorbNextCases ==
  ASSUME NEW s \in Seq(Region), NEW i \in 1 .. Len(s), s[i].status = FREE, NEW page
  PROVE  IF i < Len(s) /\ mergeable(s[i + 1], page)
         THEN s[i + 1].status = FREE /\ Merged(s, i, absorb_next(s, i, page))
         ELSE absorb_next(s, i, page) = s
<1>1. CASE i < Len(s) /\ mergeable(s[i + 1], page)
  <2> DEFINE u == [s EXCEPT ![i].size = @ + s[i + 1].size]
             t == RemoveAt(u, i + 1)
  <2>0. i + 1 \in 1 .. Len(s) /\ Len(s) \in Nat /\ i \in Nat
    BY <1>1
  <2>1. s[i] \in Region /\ s[i + 1] \in Region
    BY <2>0
  <2>2. /\ u \in Seq(Region) /\ Len(u) = Len(s) /\ \A k \in (1 .. Len(s)) \ {i} : u[k] = s[k]
        /\ u[i] = [status |-> FREE, size |-> s[i].size + s[i + 1].size,
                   page_addr |-> s[i].page_addr]
    <3> DEFINE r == [status |-> FREE, size |-> s[i].size + s[i + 1].size,
                     page_addr |-> s[i].page_addr]
    <3>1. r \in Region /\ [s[i] EXCEPT !.size = s[i].size + s[i + 1].size] = r
      <4>1. /\ s[i].size + s[i + 1].size \in Nat /\ s[i].status = FREE
            /\ s[i].page_addr \in Nat
        BY <2>1, RegionFields
      <4> QED
        BY <2>1, <4>1, NewRegion, ChangedSize
    <3>2. u = [s EXCEPT ![i] = r]
      BY <3>1
    <3> HIDE DEF r, u
    <3> QED
      BY <3>1, <3>2, PutNode DEF r
  <2>3. absorb_next(s, i, page) = t
    BY <1>1 DEF absorb_next
  <2> HIDE DEF u
  <2>4. /\ t \in Seq(Region) /\ Len(t) = Len(s) - 1
        /\ \A k \in 1 .. Len(s) - 1 : t[k] = IF k < i + 1 THEN u[k] ELSE u[k + 1]
    <3>1. /\ t \in Seq(Region) /\ Len(t) = Len(u) - 1
          /\ \A k \in 1 .. Len(u) - 1 : t[k] = IF k < i + 1 THEN u[k] ELSE u[k + 1]
      BY <2>0, <2>2, RemoveAtFacts, Zenon
    <3> QED
      BY <2>2, <3>1
  <2> HIDE DEF t
  <2>5. (\A k \in 1 .. i - 1 : t[k] = s[k]) /\ t[i] = u[i]
    <3>1. i \in 1 .. Len(s) - 1 /\ i < i + 1
      BY <1>1, <2>0
    <3>2. t[i] = u[i]
      BY <2>4, <3>1
    <3> QED
      BY <2>0, <2>2, <2>4, <3>1, <3>2
  <2>6. \A k \in i + 1 .. Len(s) - 1 : t[k] = s[k + 1]
    BY <2>0, <2>2, <2>4
  <2>7. s[i + 1].status = FREE
    BY <1>1 DEF mergeable
  <2> QED
    BY <1>1, <2>2, <2>3, <2>4, <2>5, <2>6, <2>7 DEF Merged
<1>2. CASE ~(i < Len(s) /\ mergeable(s[i + 1], page))
  BY <1>2 DEF absorb_next
<1> QED
  BY <1>1, <1>2

\* What it does with the node in front of it.
LEMMA AbsorbPrevCases ==
  ASSUME NEW s \in Seq(Region), NEW i \in 1 .. Len(s), s[i].status = FREE, NEW page
  PROVE  IF i > 1 /\ mergeable(s[i - 1], page)
         THEN s[i - 1].status = FREE /\ Merged(s, i - 1, absorb_prev(s, i, page))
         ELSE absorb_prev(s, i, page) = s
<1>1. CASE i > 1 /\ mergeable(s[i - 1], page)
  <2> DEFINE u == [s EXCEPT ![i].size = @ + s[i - 1].size, ![i].page_addr = s[i - 1].page_addr]
             t == RemoveAt(u, i - 1)
  <2>0. i - 1 \in 1 .. Len(s) /\ Len(s) \in Nat /\ i \in Nat /\ (i - 1) + 1 = i
    BY <1>1
  <2>1. s[i] \in Region /\ s[i - 1] \in Region
    BY <2>0
  <2>2. /\ u \in Seq(Region) /\ Len(u) = Len(s) /\ \A k \in (1 .. Len(s)) \ {i} : u[k] = s[k]
        /\ u[i] = [status |-> FREE, size |-> s[i - 1].size + s[i].size,
                   page_addr |-> s[i - 1].page_addr]
    <3> DEFINE r == [status |-> FREE, size |-> s[i - 1].size + s[i].size,
                     page_addr |-> s[i - 1].page_addr]
    <3>0. s[i].size + s[i - 1].size = s[i - 1].size + s[i].size
          /\ s[i].size + s[i - 1].size \in Nat
      BY <2>1, RegionFields
    <3>1. /\ r \in Region
          /\ [s[i] EXCEPT !.size = s[i].size + s[i - 1].size,
                          !.page_addr = s[i - 1].page_addr] = r
      <4>1. s[i].status = FREE /\ s[i - 1].page_addr \in Nat
        BY <2>1, RegionFields
      <4> QED
        BY <2>1, <3>0, <4>1, NewRegion, ChangedSizeAddr
    <3>2. u = [s EXCEPT ![i] = r]
      BY <3>1
    <3> HIDE DEF r, u
    <3> QED
      BY <3>1, <3>2, PutNode DEF r
  <2>3. absorb_prev(s, i, page) = t
    BY <1>1 DEF absorb_prev
  <2> HIDE DEF u
  <2>4. /\ t \in Seq(Region) /\ Len(t) = Len(s) - 1
        /\ \A k \in 1 .. Len(s) - 1 : t[k] = IF k < i - 1 THEN u[k] ELSE u[k + 1]
    <3>1. /\ t \in Seq(Region) /\ Len(t) = Len(u) - 1
          /\ \A k \in 1 .. Len(u) - 1 : t[k] = IF k < i - 1 THEN u[k] ELSE u[k + 1]
      BY <2>0, <2>2, RemoveAtFacts, Zenon
    <3> QED
      BY <2>2, <3>1
  <2> HIDE DEF t
  <2>5. (\A k \in 1 .. (i - 1) - 1 : t[k] = s[k]) /\ t[i - 1] = u[i]
    <3>1. i - 1 \in 1 .. Len(s) - 1 /\ ~(i - 1 < i - 1) /\ (i - 1) + 1 = i
      BY <1>1, <2>0
    <3>2. t[i - 1] = u[i]
      BY <2>4, <3>1
    <3> QED
      BY <2>0, <2>2, <2>4, <3>1, <3>2
  <2>6. \A k \in (i - 1) + 1 .. Len(s) - 1 : t[k] = s[k + 1]
    BY <2>0, <2>2, <2>4
  <2>7. s[i - 1].status = FREE
    BY <1>1 DEF mergeable
  <2> QED
    BY <1>1, <2>0, <2>2, <2>3, <2>4, <2>5, <2>6, <2>7 DEF Merged
<1>2. CASE ~(i > 1 /\ mergeable(s[i - 1], page))
  BY <1>2 DEF absorb_prev
<1> QED
  BY <1>1, <1>2

-----------------------------------------------------------------------------
(* Splitting and coalescing keep the range covered. *)

\* The fields of the nodes of a list are numbers.
LEMMA NodeTypes ==
  ASSUME NEW s \in Seq(Region), NEW k \in 1 .. Len(s)
  PROVE  /\ s[k] \in Region /\ s[k].status \in {FREE, ALLOCATED}
         /\ s[k].size \in Nat /\ s[k].page_addr \in Nat
<1>1. s[k] \in Region
  OBVIOUS
<1> QED
  BY <1>1, RegionFields

\* A new status moves no boundary.
LEMMA MarkedTiled ==
  ASSUME NEW s, Tiled(s), NEW i \in 1 .. Len(s), NEW st, NEW t, Marked(s, i, st, t)
  PROVE  Tiled(t) /\ (Positive(s) => Positive(t))
<1>1. s \in Seq(Region) /\ t \in Seq(Region) /\ Len(t) = Len(s) /\ Len(s) >= 1 /\ Len(s) \in Nat
  BY DEF Tiled, Marked
<1>2. \A k \in 1 .. Len(s) : t[k].size = s[k].size /\ t[k].page_addr = s[k].page_addr
  BY <1>1 DEF Marked
<1>3. /\ t[1].page_addr = RegionStart
      /\ t[Len(t)].page_addr + t[Len(t)].size = RegionEnd
  BY <1>1, <1>2 DEF Tiled
<1>4. \A k \in 1 .. Len(t) - 1 : t[k + 1].page_addr = t[k].page_addr + t[k].size
  BY <1>1, <1>2 DEF Tiled
<1>5. Positive(s) => Positive(t)
  BY <1>1, <1>2 DEF Positive
<1> QED
  BY <1>1, <1>3, <1>4, <1>5 DEF Tiled

\* One region in place of two neighbours ends where the second ended.
LEMMA MergedTiled ==
  ASSUME NEW s, Tiled(s), NEW i \in 1 .. Len(s) - 1, NEW t, Merged(s, i, t)
  PROVE  Tiled(t) /\ (Positive(s) => Positive(t))
<1>1. /\ s \in Seq(Region) /\ t \in Seq(Region) /\ Len(t) = Len(s) - 1
      /\ Len(s) \in Nat /\ Len(t) \in Nat /\ i \in Nat /\ Len(t) >= 1
      /\ i \in 1 .. Len(s) /\ i + 1 \in 1 .. Len(s)
  BY DEF Tiled, Merged
<1>2. /\ \A k \in 1 .. Len(s) : s[k].size \in Nat /\ s[k].page_addr \in Nat
      /\ \A k \in 1 .. Len(s) - 1 : s[k + 1].page_addr = s[k].page_addr + s[k].size
  BY <1>1, NodeTypes DEF Tiled
<1>3. /\ \A k \in 1 .. i - 1 : t[k].size = s[k].size /\ t[k].page_addr = s[k].page_addr
      /\ t[i].size = s[i].size + s[i + 1].size /\ t[i].page_addr = s[i].page_addr
      /\ \A k \in i + 1 .. Len(t) : t[k].size = s[k + 1].size
                                    /\ t[k].page_addr = s[k + 1].page_addr
  BY <1>1 DEF Merged
<1>4. t[1].page_addr = RegionStart
  <2>1. CASE i = 1
    BY <1>1, <1>3, <2>1 DEF Tiled
  <2>2. CASE i > 1
    BY <1>1, <1>3, <2>2 DEF Tiled
  <2> QED
    BY <1>1, <2>1, <2>2
<1>5. t[Len(t)].page_addr + t[Len(t)].size = RegionEnd
  <2>0. Len(t) + 1 = Len(s)
    BY <1>1
  <2>1. CASE i = Len(t)
    <3>1. /\ s[i + 1].page_addr = s[i].page_addr + s[i].size
          /\ s[i + 1].page_addr + s[i + 1].size = RegionEnd
      BY <1>2, <2>0, <2>1 DEF Tiled
    <3> QED
      BY <1>1, <1>2, <1>3, <2>1, <3>1
  <2>2. CASE i < Len(t)
    <3>1. Len(t) \in i + 1 .. Len(t)
      BY <1>1, <2>2
    <3> QED
      BY <1>3, <2>0, <3>1 DEF Tiled
  <2> QED
    BY <1>1, <2>1, <2>2
<1>6. ASSUME NEW k \in 1 .. Len(t) - 1
      PROVE  t[k + 1].page_addr = t[k].page_addr + t[k].size
  <2>1. CASE k + 1 < i
    BY <1>1, <1>2, <1>3, <2>1
  <2>2. CASE k + 1 = i
    <3>1. k \in 1 .. i - 1 /\ k \in 1 .. Len(s) - 1
      BY <1>1, <2>2
    <3> QED
      BY <1>2, <1>3, <2>2, <3>1
  <2>3. CASE k = i
    <3>1. /\ k + 1 \in i + 1 .. Len(t) /\ i \in 1 .. Len(s) - 1 /\ i + 1 \in 1 .. Len(s) - 1
          /\ i + 1 \in 1 .. Len(s) /\ i \in 1 .. Len(s)
      BY <1>1, <2>3
    <3>2. /\ s[i + 1].page_addr = s[i].page_addr + s[i].size
          /\ s[(i + 1) + 1].page_addr = s[i + 1].page_addr + s[i + 1].size
      BY <1>2, <3>1
    <3>3. t[k + 1].page_addr = s[(i + 1) + 1].page_addr
      BY <1>3, <2>3, <3>1
    <3> QED
      BY <1>2, <1>3, <2>3, <3>1, <3>2, <3>3
  <2>4. CASE k > i
    <3>1. k \in i + 1 .. Len(t) /\ k + 1 \in i + 1 .. Len(t) /\ k + 1 \in 1 .. Len(s) - 1
      BY <1>1, <2>4
    <3> QED
      BY <1>2, <1>3, <3>1
  <2> QED
    BY <1>1, <2>1, <2>2, <2>3, <2>4
<1>7. ASSUME Positive(s) PROVE Positive(t)
  <2> SUFFICES ASSUME NEW k \in 1 .. Len(t) PROVE t[k].size >= 1
    BY DEF Positive
  <2>1. CASE k < i
    BY <1>1, <1>3, <1>7, <2>1 DEF Positive
  <2>2. CASE k = i
    BY <1>1, <1>2, <1>3, <1>7, <2>2 DEF Positive
  <2>3. CASE k > i
    <3>1. k \in i + 1 .. Len(t) /\ k + 1 \in 1 .. Len(s)
      BY <1>1, <2>3
    <3> QED
      BY <1>3, <1>7, <3>1 DEF Positive
  <2> QED
    BY <1>1, <2>1, <2>2, <2>3
<1> QED
  BY <1>1, <1>4, <1>5, <1>6, <1>7 DEF Tiled

\* The two parts of a region that is split are as large as it was.
LEMMA SplitTiled ==
  ASSUME NEW s, Tiled(s), NEW i \in 1 .. Len(s), NEW n \in Nat, s[i].size > n,
         NEW t, Split(s, i, n, t)
  PROVE  Tiled(t) /\ (Positive(s) /\ n >= 1 => Positive(t))
<1>1. /\ s \in Seq(Region) /\ t \in Seq(Region) /\ Len(t) = Len(s) + 1
      /\ Len(s) \in Nat /\ Len(t) \in Nat /\ i \in Nat /\ Len(t) >= 1
  BY DEF Tiled, Split
<1>2. /\ \A k \in 1 .. Len(s) : s[k].size \in Nat /\ s[k].page_addr \in Nat
      /\ \A k \in 1 .. Len(s) - 1 : s[k + 1].page_addr = s[k].page_addr + s[k].size
  BY <1>1, NodeTypes DEF Tiled
<1>3. /\ \A k \in 1 .. i - 1 : t[k].size = s[k].size /\ t[k].page_addr = s[k].page_addr
      /\ t[i].size = n /\ t[i].page_addr = s[i].page_addr
      /\ t[i + 1].size = s[i].size - n /\ t[i + 1].page_addr = s[i].page_addr + n
      /\ \A k \in i + 2 .. Len(t) : t[k].size = s[k - 1].size
                                    /\ t[k].page_addr = s[k - 1].page_addr
  <2>1. /\ t[i].size = n /\ t[i].page_addr = s[i].page_addr
        /\ t[i + 1].size = s[i].size - n /\ t[i + 1].page_addr = s[i].page_addr + n
    BY DEF Split
  <2>2. \A k \in 1 .. i - 1 : t[k] = s[k]
    BY DEF Split
  <2>3. \A k \in i + 2 .. Len(t) : t[k] = s[k - 1]
    BY <1>1 DEF Split
  <2> QED
    BY <2>1, <2>2, <2>3
<1>4. t[1].page_addr = RegionStart
  <2>1. CASE i = 1
    BY <1>1, <1>3, <2>1 DEF Tiled
  <2>2. CASE i > 1
    BY <1>1, <1>3, <2>2 DEF Tiled
  <2> QED
    BY <1>1, <2>1, <2>2
<1>5. t[Len(t)].page_addr + t[Len(t)].size = RegionEnd
  <2>1. CASE i = Len(s)
    BY <1>1, <1>2, <1>3, <2>1 DEF Tiled
  <2>2. CASE i < Len(s)
    <3>1. Len(t) \in i + 2 .. Len(t) /\ Len(t) - 1 = Len(s)
      BY <1>1, <2>2
    <3> QED
      BY <1>3, <3>1 DEF Tiled
  <2> QED
    BY <1>1, <2>1, <2>2
<1>6. ASSUME NEW k \in 1 .. Len(t) - 1
      PROVE  t[k + 1].page_addr = t[k].page_addr + t[k].size
  <2>1. CASE k + 1 < i
    <3>1. k \in 1 .. i - 1 /\ k + 1 \in 1 .. i - 1 /\ k \in 1 .. Len(s) - 1
      BY <1>1, <2>1
    <3> QED
      BY <1>2, <1>3, <3>1
  <2>2. CASE k + 1 = i
    <3>1. k \in 1 .. i - 1 /\ k \in 1 .. Len(s) - 1
      BY <1>1, <2>2
    <3> QED
      BY <1>2, <1>3, <2>2, <3>1
  <2>3. CASE k = i
    BY <1>3, <2>3
  <2>4. CASE k = i + 1
    <3>1. /\ k + 1 \in i + 2 .. Len(t) /\ i \in 1 .. Len(s) - 1 /\ (k + 1) - 1 = i + 1
      BY <1>1, <2>4
    <3> QED
      BY <1>2, <1>3, <2>4, <3>1
  <2>5. CASE k > i + 1
    <3>1. k \in i + 2 .. Len(t) /\ k + 1 \in i + 2 .. Len(t) /\ k - 1 \in 1 .. Len(s) - 1
          /\ (k + 1) - 1 = (k - 1) + 1
      BY <1>1, <2>5
    <3> QED
      BY <1>2, <1>3, <3>1
  <2> QED
    BY <1>1, <2>1, <2>2, <2>3, <2>4, <2>5
<1>7. ASSUME Positive(s), n >= 1 PROVE Positive(t)
  <2> SUFFICES ASSUME NEW k \in 1 .. Len(t) PROVE t[k].size >= 1
    BY DEF Positive
  <2>1. CASE k < i
    <3>1. k \in 1 .. i - 1 /\ k \in 1 .. Len(s)
      BY <1>1, <2>1
    <3> QED
      BY <1>3, <1>7, <3>1 DEF Positive
  <2>2. CASE k = i \/ k = i + 1
    BY <1>1, <1>2, <1>3, <1>7, <2>2
  <2>3. CASE k > i + 1
    <3>1. k \in i + 2 .. Len(t) /\ k - 1 \in 1 .. Len(s)
      BY <1>1, <2>3
    <3> QED
      BY <1>3, <1>7, <3>1 DEF Positive
  <2> QED
    BY <1>1, <2>1, <2>2, <2>3
<1> QED
  BY <1>1, <1>4, <1>5, <1>6, <1>7 DEF Tiled

\* A region ends before every later one starts.
LEMMA Sorted ==
  ASSUME NEW s, Tiled(s), NEW i \in 1 .. Len(s), NEW m \in 1 .. Len(s), i < m
  PROVE  s[i].page_addr + s[i].size =< s[m].page_addr
<1>1. s \in Seq(Region) /\ Len(s) \in Nat
  BY DEF Tiled
<1>2. \A k \in 1 .. Len(s) : s[k].size \in Nat /\ s[k].page_addr \in Nat
  BY <1>1, NodeTypes
<1>3. \A k \in 1 .. Len(s) - 1 : s[k + 1].page_addr = s[k].page_addr + s[k].size
  BY DEF Tiled
<1> DEFINE D == {d \in Nat : \A k \in 1 .. Len(s) : k + 1 + d \in 1 .. Len(s) =>
                               s[k].page_addr + s[k].size =< s[k + 1 + d].page_addr}
<1>4. 0 \in D
  <2>1. ASSUME NEW k \in 1 .. Len(s), k + 1 + 0 \in 1 .. Len(s)
        PROVE  s[k].page_addr + s[k].size =< s[k + 1 + 0].page_addr
    <3>1. k \in 1 .. Len(s) - 1 /\ k + 1 + 0 = k + 1
      BY <1>1, <2>1
    <3> QED
      BY <1>2, <1>3, <2>1, <3>1
  <2> QED
    BY <2>1
<1>5. ASSUME NEW d \in D PROVE d + 1 \in D
  <2>1. d \in Nat /\ \A k \in 1 .. Len(s) : k + 1 + d \in 1 .. Len(s) =>
                       s[k].page_addr + s[k].size =< s[k + 1 + d].page_addr
    BY <1>5
  <2>0. d \in Nat
    BY <2>1
  <2> HIDE DEF D
  <2>2. ASSUME NEW k \in 1 .. Len(s), k + 1 + (d + 1) \in 1 .. Len(s)
        PROVE  s[k].page_addr + s[k].size =< s[k + 1 + (d + 1)].page_addr
    <3>1. /\ k + 1 + d \in 1 .. Len(s) - 1 /\ k + 1 + d \in 1 .. Len(s)
          /\ k + 1 + (d + 1) = (k + 1 + d) + 1
      BY <1>1, <2>0, <2>2
    <3>2. s[k].page_addr + s[k].size =< s[k + 1 + d].page_addr
      BY <2>1, <3>1
    <3>3. s[k + 1 + (d + 1)].page_addr = s[k + 1 + d].page_addr + s[k + 1 + d].size
      BY <1>3, <3>1
    <3> QED
      <4>1. /\ s[k + 1 + d].page_addr \in Nat /\ s[k + 1 + d].size \in Nat
            /\ s[k].page_addr \in Nat /\ s[k].size \in Nat
        BY <1>2, <2>2, <3>1
      <4>2. \A a, b, c, e \in Nat : a + b =< c => a + b =< c + e
        OBVIOUS
      <4> QED
        BY <3>2, <3>3, <4>1, <4>2
  <2> QED
    BY <2>0, <2>2 DEF D
<1>6. D = Nat
  <2>1. D \in SUBSET Nat /\ \A d \in D : d + 1 \in D
    BY <1>5
  <2> HIDE DEF D
  <2> QED
    BY <1>4, <2>1, InductionSet
<1>7. m - i - 1 \in Nat /\ i + 1 + (m - i - 1) = m
  BY <1>1
<1>8. m - i - 1 \in D
  BY <1>6, <1>7
<1> QED
  BY <1>7, <1>8

\* Regions lie inside the range.
LEMMA InRange ==
  ASSUME NEW s, Tiled(s), NEW k \in 1 .. Len(s)
  PROVE  RegionStart =< s[k].page_addr /\ s[k].page_addr + s[k].size =< RegionEnd
<1>1. s \in Seq(Region) /\ Len(s) \in Nat /\ Len(s) >= 1 /\ 1 \in 1 .. Len(s) /\ Len(s) \in 1 .. Len(s)
  BY DEF Tiled
<1>2. \A j \in 1 .. Len(s) : s[j].size \in Nat /\ s[j].page_addr \in Nat
  BY <1>1, NodeTypes
<1>3. s[1].page_addr = RegionStart /\ s[Len(s)].page_addr + s[Len(s)].size = RegionEnd
  BY DEF Tiled
<1>4. RegionStart =< s[k].page_addr
  <2>1. CASE k = 1
    BY <1>1, <1>2, <1>3, <2>1
  <2>2. CASE 1 < k
    <3>1. s[1].page_addr + s[1].size =< s[k].page_addr
      BY <1>1, <2>2, Sorted
    <3> QED
      BY <1>1, <1>2, <1>3, <3>1
  <2> QED
    BY <1>1, <2>1, <2>2
<1>5. s[k].page_addr + s[k].size =< RegionEnd
  <2>1. CASE k = Len(s)
    BY <1>1, <1>2, <1>3, <2>1
  <2>2. CASE k < Len(s)
    <3>1. s[k].page_addr + s[k].size =< s[Len(s)].page_addr
      BY <1>1, <2>2, Sorted
    <3> QED
      BY <1>1, <1>2, <1>3, <3>1
  <2> QED
    BY <1>1, <2>1, <2>2
<1> QED
  BY <1>4, <1>5

\* Where every region has a page, no two start at the same one.
LEMMA DistinctStarts ==
  ASSUME NEW s, Tiled(s), Positive(s), NEW i \in 1 .. Len(s), NEW m \in 1 .. Len(s), i # m
  PROVE  s[i].page_addr # s[m].page_addr
<1>1. s \in Seq(Region) /\ Len(s) \in Nat
  BY DEF Tiled
<1>2. /\ s[i].size \in Nat /\ s[i].page_addr \in Nat /\ s[i].size >= 1
      /\ s[m].size \in Nat /\ s[m].page_addr \in Nat /\ s[m].size >= 1
  BY <1>1, NodeTypes DEF Positive
<1>3. CASE i < m
  <2>1. s[i].page_addr + s[i].size =< s[m].page_addr
    BY <1>3, Sorted
  <2> QED
    BY <1>2, <2>1
<1>4. CASE m < i
  <2>1. s[m].page_addr + s[m].size =< s[i].page_addr
    BY <1>4, Sorted
  <2> QED
    BY <1>2, <2>1
<1> QED
  BY <1>1, <1>3, <1>4

-----------------------------------------------------------------------------
(* Which regions are allocated. *)

\* Membership in Alloc.
LEMMA AllocMember ==
  ASSUME NEW s, NEW x
  PROVE  x \in Alloc(s) <=> \E k \in 1 .. Len(s) : /\ s[k].status = ALLOCATED
                                                   /\ x = <<s[k].page_addr, s[k].size>>
BY DEF Alloc

\* Allocating a region as it is.
LEMMA MarkedAllocated ==
  ASSUME NEW s, NEW i \in 1 .. Len(s), s[i].status = FREE, NEW t, Marked(s, i, ALLOCATED, t)
  PROVE  Alloc(t) = Alloc(s) \cup {<<s[i].page_addr, s[i].size>>}
<1>1. /\ Len(t) = Len(s) /\ \A k \in (1 .. Len(s)) \ {i} : t[k] = s[k]
      /\ t[i].status = ALLOCATED /\ t[i].size = s[i].size /\ t[i].page_addr = s[i].page_addr
  BY DEF Marked
<1>2. ASSUME NEW x \in Alloc(t)
      PROVE  x \in Alloc(s) \cup {<<s[i].page_addr, s[i].size>>}
  <2>1. PICK k \in 1 .. Len(s) : t[k].status = ALLOCATED /\ x = <<t[k].page_addr, t[k].size>>
    BY <1>1, <1>2, AllocMember
  <2>2. CASE k = i
    BY <1>1, <2>1, <2>2
  <2>3. CASE k # i
    <3>1. s[k].status = ALLOCATED /\ x = <<s[k].page_addr, s[k].size>>
      BY <1>1, <2>1, <2>3
    <3> QED
      BY <3>1, AllocMember
  <2> QED
    BY <2>2, <2>3
<1>3. ASSUME NEW x \in Alloc(s) PROVE x \in Alloc(t)
  <2>1. PICK k \in 1 .. Len(s) : s[k].status = ALLOCATED /\ x = <<s[k].page_addr, s[k].size>>
    BY <1>3, AllocMember
  <2>2. k # i
    BY <2>1, StatusAssumption
  <2>3. t[k].status = ALLOCATED /\ x = <<t[k].page_addr, t[k].size>>
    BY <1>1, <2>1, <2>2
  <2> QED
    BY <1>1, <2>3, AllocMember
<1>4. <<s[i].page_addr, s[i].size>> \in Alloc(t)
  BY <1>1, AllocMember
<1> QED
  BY <1>2, <1>3, <1>4

\* Freeing a region.
LEMMA MarkedFree ==
  ASSUME NEW s, Tiled(s), Positive(s), NEW i \in 1 .. Len(s), NEW t, Marked(s, i, FREE, t)
  PROVE  Alloc(t) = Alloc(s) \ {<<s[i].page_addr, s[i].size>>}
<1>1. /\ Len(t) = Len(s) /\ \A k \in (1 .. Len(s)) \ {i} : t[k] = s[k]
      /\ t[i].status = FREE
  BY DEF Marked
<1>2. ASSUME NEW x \in Alloc(t)
      PROVE  x \in Alloc(s) /\ x # <<s[i].page_addr, s[i].size>>
  <2>1. PICK k \in 1 .. Len(s) : t[k].status = ALLOCATED /\ x = <<t[k].page_addr, t[k].size>>
    BY <1>1, <1>2, AllocMember
  <2>2. k # i
    BY <1>1, <2>1, StatusAssumption
  <2>3. s[k].status = ALLOCATED /\ x = <<s[k].page_addr, s[k].size>>
    BY <1>1, <2>1, <2>2
  <2>4. x \in Alloc(s)
    BY <2>3, AllocMember
  <2>5. s[k].page_addr # s[i].page_addr
    BY <2>2, DistinctStarts
  <2> QED
    BY <2>3, <2>4, <2>5
<1>3. ASSUME NEW x \in Alloc(s), x # <<s[i].page_addr, s[i].size>>
      PROVE  x \in Alloc(t)
  <2>1. PICK k \in 1 .. Len(s) : s[k].status = ALLOCATED /\ x = <<s[k].page_addr, s[k].size>>
    BY <1>3, AllocMember
  <2>2. k # i
    BY <1>3, <2>1
  <2>3. t[k].status = ALLOCATED /\ x = <<t[k].page_addr, t[k].size>>
    BY <1>1, <2>1, <2>2
  <2> QED
    BY <1>1, <2>3, AllocMember
<1> QED
  BY <1>2, <1>3

\* Coalescing two free regions.
LEMMA MergedAlloc ==
  ASSUME NEW s \in Seq(Region), NEW i \in 1 .. Len(s) - 1,
         s[i].status = FREE, s[i + 1].status = FREE, NEW t, Merged(s, i, t)
  PROVE  Alloc(t) = Alloc(s)
<1>1. /\ Len(s) \in Nat /\ Len(t) = Len(s) - 1 /\ t[i].status = FREE
      /\ \A k \in 1 .. i - 1 : t[k] = s[k]
      /\ \A k \in i + 1 .. Len(s) - 1 : t[k] = s[k + 1]
  BY DEF Merged
<1>2. ASSUME NEW x \in Alloc(t) PROVE x \in Alloc(s)
  <2>1. PICK k \in 1 .. Len(s) - 1 : t[k].status = ALLOCATED /\ x = <<t[k].page_addr, t[k].size>>
    BY <1>1, <1>2, AllocMember
  <2>2. k # i
    BY <1>1, <2>1, StatusAssumption
  <2>3. CASE k < i
    <3>1. t[k] = s[k] /\ k \in 1 .. Len(s)
      BY <1>1, <2>3
    <3> QED
      BY <2>1, <3>1, AllocMember
  <2>4. CASE k > i
    <3>1. t[k] = s[k + 1] /\ k + 1 \in 1 .. Len(s)
      BY <1>1, <2>4
    <3> QED
      BY <2>1, <3>1, AllocMember
  <2> QED
    BY <1>1, <2>2, <2>3, <2>4
<1>3. ASSUME NEW x \in Alloc(s) PROVE x \in Alloc(t)
  <2>1. PICK k \in 1 .. Len(s) : s[k].status = ALLOCATED /\ x = <<s[k].page_addr, s[k].size>>
    BY <1>3, AllocMember
  <2>2. k # i /\ k # i + 1
    BY <2>1, StatusAssumption
  <2>3. CASE k < i
    <3>1. t[k] = s[k] /\ k \in 1 .. Len(t)
      BY <1>1, <2>3
    <3> QED
      BY <2>1, <3>1, AllocMember
  <2>4. CASE k > i + 1
    <3>1. k - 1 \in i + 1 .. Len(s) - 1 /\ k - 1 \in 1 .. Len(t) /\ (k - 1) + 1 = k
      BY <1>1, <2>4
    <3>2. t[k - 1] = s[k]
      BY <1>1, <3>1
    <3> QED
      BY <2>1, <3>1, <3>2, AllocMember
  <2> QED
    BY <1>1, <2>2, <2>3, <2>4
<1> QED
  BY <1>2, <1>3

\* Allocating the first pages of a region.
LEMMA SplitAlloc ==
  ASSUME NEW s \in Seq(Region), NEW i \in 1 .. Len(s), s[i].status = FREE,
         NEW n, NEW t, Split(s, i, n, t)
  PROVE  Alloc(t) = Alloc(s) \cup {<<s[i].page_addr, n>>}
<1>1. /\ Len(s) \in Nat /\ Len(t) = Len(s) + 1
      /\ t[i].status = ALLOCATED /\ t[i].size = n /\ t[i].page_addr = s[i].page_addr
      /\ t[i + 1].status = FREE
      /\ \A k \in 1 .. i - 1 : t[k] = s[k]
      /\ \A k \in i + 2 .. Len(s) + 1 : t[k] = s[k - 1]
  BY DEF Split
<1>2. ASSUME NEW x \in Alloc(t)
      PROVE  x \in Alloc(s) \cup {<<s[i].page_addr, n>>}
  <2>1. PICK k \in 1 .. Len(s) + 1 : t[k].status = ALLOCATED /\ x = <<t[k].page_addr, t[k].size>>
    BY <1>1, <1>2, AllocMember
  <2>2. k # i + 1
    BY <1>1, <2>1, StatusAssumption
  <2>3. CASE k < i
    <3>1. t[k] = s[k] /\ k \in 1 .. Len(s)
      BY <1>1, <2>3
    <3> QED
      BY <2>1, <3>1, AllocMember
  <2>4. CASE k = i
    BY <1>1, <2>1, <2>4
  <2>5. CASE k > i + 1
    <3>1. t[k] = s[k - 1] /\ k - 1 \in 1 .. Len(s)
      BY <1>1, <2>5
    <3> QED
      BY <2>1, <3>1, AllocMember
  <2> QED
    BY <1>1, <2>2, <2>3, <2>4, <2>5
<1>3. ASSUME NEW x \in Alloc(s) PROVE x \in Alloc(t)
  <2>1. PICK k \in 1 .. Len(s) : s[k].status = ALLOCATED /\ x = <<s[k].page_addr, s[k].size>>
    BY <1>3, AllocMember
  <2>2. k # i
    BY <2>1, StatusAssumption
  <2>3. CASE k < i
    <3>1. t[k] = s[k] /\ k \in 1 .. Len(t)
      BY <1>1, <2>3
    <3> QED
      BY <2>1, <3>1, AllocMember
  <2>4. CASE k > i
    <3>1. k + 1 \in i + 2 .. Len(s) + 1 /\ k + 1 \in 1 .. Len(t) /\ (k + 1) - 1 = k
      BY <1>1, <2>4
    <3>2. t[k + 1] = s[k]
      BY <1>1, <3>1
    <3> QED
      BY <2>1, <3>1, <3>2, AllocMember
  <2> QED
    BY <1>1, <2>2, <2>3, <2>4
<1>4. <<s[i].page_addr, n>> \in Alloc(t)
  <2>1. i \in 1 .. Len(t)
    BY <1>1
  <2> QED
    BY <1>1, <2>1, AllocMember
<1> QED
  BY <1>2, <1>3, <1>4

-----------------------------------------------------------------------------
(* Free neighbours. *)

\* Allocating a region leaves no more free neighbours than there were.
LEMMA MarkedAllocatedQuiet ==
  ASSUME NEW s \in Seq(Region), NEW i \in 1 .. Len(s), NEW t, Marked(s, i, ALLOCATED, t),
         Quiet(s, {})
  PROVE  Quiet(t, {})
<1>1. /\ Len(s) \in Nat /\ Len(t) = Len(s) /\ \A k \in (1 .. Len(s)) \ {i} : t[k] = s[k]
      /\ t[i].status # FREE
  BY StatusAssumption DEF Marked
<1>2. ASSUME NEW k \in 1 .. Len(s) - 1, t[k].status = FREE, t[k + 1].status = FREE
      PROVE  FALSE
  <2>1. k # i /\ k + 1 # i /\ k \in 1 .. Len(s) /\ k + 1 \in 1 .. Len(s)
    BY <1>1, <1>2
  <2> QED
    BY <1>1, <1>2, <2>1 DEF Quiet
<1> QED
  BY <1>1, <1>2 DEF Quiet

\* What is left of a free region has the neighbour that the region had.
LEMMA SplitQuiet ==
  ASSUME NEW s \in Seq(Region), NEW i \in 1 .. Len(s), s[i].status = FREE,
         NEW n, NEW t, Split(s, i, n, t), Quiet(s, {})
  PROVE  Quiet(t, {})
<1>1. /\ Len(s) \in Nat /\ Len(t) = Len(s) + 1
      /\ t[i].status # FREE
      /\ \A k \in 1 .. i - 1 : t[k] = s[k]
      /\ \A k \in i + 2 .. Len(s) + 1 : t[k] = s[k - 1]
  BY StatusAssumption DEF Split
<1>2. ASSUME NEW k \in 1 .. Len(s), t[k].status = FREE, t[k + 1].status = FREE
      PROVE  FALSE
  <2>1. k # i /\ k + 1 # i
    BY <1>1, <1>2
  <2>2. CASE k + 1 < i
    <3>1. k \in 1 .. i - 1 /\ k + 1 \in 1 .. i - 1 /\ k \in 1 .. Len(s) - 1
      BY <1>1, <2>2
    <3> QED
      BY <1>1, <1>2, <3>1 DEF Quiet
  <2>3. CASE k = i + 1
    <3>1. k + 1 \in i + 2 .. Len(s) + 1 /\ (k + 1) - 1 = i + 1 /\ i \in 1 .. Len(s) - 1
      BY <1>1, <2>3
    <3>2. s[i + 1].status = FREE
      BY <1>1, <1>2, <3>1
    <3> QED
      BY <3>1, <3>2 DEF Quiet
  <2>4. CASE k > i + 1
    <3>1. /\ k \in i + 2 .. Len(s) + 1 /\ k + 1 \in i + 2 .. Len(s) + 1
          /\ k - 1 \in 1 .. Len(s) - 1 /\ (k + 1) - 1 = (k - 1) + 1
      BY <1>1, <2>4
    <3>2. t[k] = s[k - 1] /\ t[k + 1] = s[(k - 1) + 1]
      BY <1>1, <3>1
    <3> QED
      BY <1>2, <3>1, <3>2 DEF Quiet
  <2> QED
    BY <1>1, <2>1, <2>2, <2>3, <2>4
<1> QED
  BY <1>1, <1>2 DEF Quiet

\* Freeing region i can make neighbours free only at i.
LEMMA MarkedFreeQuiet ==
  ASSUME NEW s \in Seq(Region), NEW i \in 1 .. Len(s), NEW t, Marked(s, i, FREE, t),
         Quiet(s, {})
  PROVE  Quiet(t, {i - 1, i})
<1>1. Len(s) \in Nat /\ Len(t) = Len(s) /\ \A k \in (1 .. Len(s)) \ {i} : t[k] = s[k]
  BY DEF Marked
<1>2. ASSUME NEW k \in (1 .. Len(s) - 1) \ {i - 1, i},
             t[k].status = FREE, t[k + 1].status = FREE
      PROVE  FALSE
  <2>1. k # i /\ k + 1 # i /\ k \in 1 .. Len(s) /\ k + 1 \in 1 .. Len(s)
    BY <1>1, <1>2
  <2> QED
    BY <1>1, <1>2, <2>1 DEF Quiet
<1> QED
  BY <1>1, <1>2 DEF Quiet

\* After the node behind it has been absorbed, region i has free neighbours
\* only in front of it.
LEMMA MergedNextQuiet ==
  ASSUME NEW s \in Seq(Region), NEW i \in 1 .. Len(s) - 1,
         s[i + 1].status = FREE, NEW t, Merged(s, i, t), Quiet(s, {i - 1, i})
  PROVE  Quiet(t, {i - 1})
<1>1. /\ Len(s) \in Nat /\ Len(t) = Len(s) - 1
      /\ \A k \in 1 .. i - 1 : t[k] = s[k]
      /\ \A k \in i + 1 .. Len(s) - 1 : t[k] = s[k + 1]
  BY DEF Merged
<1>2. ASSUME NEW k \in (1 .. Len(t) - 1) \ {i - 1}, t[k].status = FREE, t[k + 1].status = FREE
      PROVE  FALSE
  <2>1. CASE k < i
    <3>1. k \in 1 .. i - 1 /\ k + 1 \in 1 .. i - 1 /\ k \in (1 .. Len(s) - 1) \ {i - 1, i}
      BY <1>1, <1>2, <2>1
    <3> QED
      BY <1>1, <1>2, <3>1 DEF Quiet
  <2>2. CASE k = i
    <3>1. /\ k + 1 \in i + 1 .. Len(s) - 1
          /\ i + 1 \in (1 .. Len(s) - 1) \ {i - 1, i}
      BY <1>1, <1>2, <2>2
    <3>2. s[(i + 1) + 1].status = FREE
      BY <1>1, <1>2, <2>2, <3>1
    <3> QED
      BY <3>1, <3>2 DEF Quiet
  <2>3. CASE k > i
    <3>1. /\ k \in i + 1 .. Len(s) - 1 /\ k + 1 \in i + 1 .. Len(s) - 1
          /\ k + 1 \in (1 .. Len(s) - 1) \ {i - 1, i}
      BY <1>1, <1>2, <2>3
    <3>2. t[k] = s[k + 1] /\ t[k + 1] = s[(k + 1) + 1]
      BY <1>1, <3>1
    <3> QED
      BY <1>2, <3>1, <3>2 DEF Quiet
  <2> QED
    BY <1>1, <1>2, <2>1, <2>2, <2>3
<1> QED
  BY <1>2 DEF Quiet

\* After the node in front of it has been absorbed, too, it has none.
LEMMA MergedPrevQuiet ==
  ASSUME NEW s \in Seq(Region), NEW i \in 1 .. Len(s) - 1,
         s[i].status = FREE, s[i + 1].status = FREE,
         NEW t, Merged(s, i, t), Quiet(s, {i})
  PROVE  Quiet(t, {})
<1>1. /\ Len(s) \in Nat /\ Len(t) = Len(s) - 1
      /\ \A k \in 1 .. i - 1 : t[k] = s[k]
      /\ \A k \in i + 1 .. Len(s) - 1 : t[k] = s[k + 1]
  BY DEF Merged
<1>2. ASSUME NEW k \in 1 .. Len(t) - 1, t[k].status = FREE, t[k + 1].status = FREE
      PROVE  FALSE
  <2>1. CASE k + 1 < i
    <3>1. k \in 1 .. i - 1 /\ k + 1 \in 1 .. i - 1 /\ k \in (1 .. Len(s) - 1) \ {i}
      BY <1>1, <1>2, <2>1
    <3> QED
      BY <1>1, <1>2, <3>1 DEF Quiet
  <2>2. CASE k + 1 = i
    <3>1. k \in 1 .. i - 1 /\ k \in (1 .. Len(s) - 1) \ {i}
      BY <1>1, <1>2, <2>2
    <3>2. s[k].status = FREE /\ s[k + 1].status = FREE
      BY <1>1, <1>2, <2>2, <3>1
    <3> QED
      BY <3>1, <3>2 DEF Quiet
  <2>3. CASE k = i
    <3>1. k + 1 \in i + 1 .. Len(s) - 1 /\ i + 1 \in (1 .. Len(s) - 1) \ {i}
      BY <1>1, <1>2, <2>3
    <3>2. s[(i + 1) + 1].status = FREE
      BY <1>1, <1>2, <2>3, <3>1
    <3> QED
      BY <3>1, <3>2 DEF Quiet
  <2>4. CASE k > i
    <3>1. /\ k \in i + 1 .. Len(s) - 1 /\ k + 1 \in i + 1 .. Len(s) - 1
          /\ k + 1 \in (1 .. Len(s) - 1) \ {i}
      BY <1>1, <1>2, <2>4
    <3>2. t[k] = s[k + 1] /\ t[k + 1] = s[(k + 1) + 1]
      BY <1>1, <3>1
    <3> QED
      BY <1>2, <3>1, <3>2 DEF Quiet
  <2> QED
    BY <1>1, <1>2, <2>1, <2>2, <2>3, <2>4
<1> QED
  BY <1>2 DEF Quiet

-----------------------------------------------------------------------------
(* allocate and free_address as a whole. *)

\* allocate on a region that is free and large enough.
LEMMA AllocateKeeps ==
  ASSUME NEW s, Tiled(s), NEW i \in 1 .. Len(s), NEW n \in Nat,
         s[i].status = FREE, s[i].size >= n
  PROVE  /\ Tiled(allocate(s, i, n))
         /\ Alloc(allocate(s, i, n)) = Alloc(s) \cup {<<s[i].page_addr, n>>}
         /\ Positive(s) /\ n >= 1 => Positive(allocate(s, i, n))
         /\ Quiet(s, {}) => Quiet(allocate(s, i, n), {})
<1> DEFINE t == allocate(s, i, n)
<1>0. s \in Seq(Region)
  BY DEF Tiled
<1>1. \/ s[i].size = n /\ Marked(s, i, ALLOCATED, t)
      \/ s[i].size > n /\ Split(s, i, n, t)
  BY <1>0, AllocateCases
<1> HIDE DEF t
<1>2. CASE s[i].size = n /\ Marked(s, i, ALLOCATED, t)
  <2>1. Tiled(t) /\ (Positive(s) => Positive(t))
    BY <1>2, MarkedTiled
  <2>2. Alloc(t) = Alloc(s) \cup {<<s[i].page_addr, n>>}
    BY <1>2, MarkedAllocated
  <2>3. Quiet(s, {}) => Quiet(t, {})
    BY <1>0, <1>2, MarkedAllocatedQuiet
  <2> QED
    BY <2>1, <2>2, <2>3 DEF t
<1>3. CASE s[i].size > n /\ Split(s, i, n, t)
  <2>1. Tiled(t) /\ (Positive(s) /\ n >= 1 => Positive(t))
    BY <1>3, SplitTiled
  <2>2. Alloc(t) = Alloc(s) \cup {<<s[i].page_addr, n>>}
    BY <1>0, <1>3, SplitAlloc
  <2>3. Quiet(s, {}) => Quiet(t, {})
    BY <1>0, <1>3, SplitQuiet
  <2> QED
    BY <2>1, <2>2, <2>3 DEF t
<1> QED
  BY <1>1, <1>2, <1>3

\* The first part of free_address: the region is free.
LEMMA FreeMark ==
  ASSUME NEW s, Tiled(s), NEW i \in 1 .. Len(s)
  PROVE  LET t == [s EXCEPT ![i].status = FREE]
         IN  /\ Tiled(t) /\ Len(t) = Len(s) /\ t[i].status = FREE
             /\ t[i].page_addr = s[i].page_addr
             /\ Positive(s) => /\ Positive(t)
                               /\ Alloc(t) = Alloc(s) \ {<<s[i].page_addr, s[i].size>>}
             /\ Quiet(s, {}) => Quiet(t, {i - 1, i})
<1> DEFINE t == [s EXCEPT ![i].status = FREE]
<1>0. s \in Seq(Region)
  BY DEF Tiled
<1>1. Marked(s, i, FREE, t)
  BY <1>0, SetStatus
<1> HIDE DEF t
<1>2. Tiled(t) /\ (Positive(s) => Positive(t))
  BY <1>1, MarkedTiled
<1>3. Len(t) = Len(s) /\ t[i].status = FREE /\ t[i].page_addr = s[i].page_addr
  BY <1>1 DEF Marked
<1>4. Positive(s) => Alloc(t) = Alloc(s) \ {<<s[i].page_addr, s[i].size>>}
  BY <1>1, MarkedFree
<1>5. Quiet(s, {}) => Quiet(t, {i - 1, i})
  BY <1>0, <1>1, MarkedFreeQuiet
<1> QED
  BY <1>2, <1>3, <1>4, <1>5 DEF t

\* The second part: it absorbs the node behind it.
LEMMA FreeNext ==
  ASSUME NEW s, Tiled(s), NEW i \in 1 .. Len(s), s[i].status = FREE
  PROVE  LET t == absorb_next(s, i, s[i].page_addr)
         IN  /\ Tiled(t) /\ i \in 1 .. Len(t) /\ t[i].status = FREE
             /\ t[i].page_addr = s[i].page_addr
             /\ Alloc(t) = Alloc(s)
             /\ Positive(s) => /\ Positive(t)
                               /\ Quiet(s, {i - 1, i}) => Quiet(t, {i - 1})
<1> DEFINE page == s[i].page_addr
           t == absorb_next(s, i, page)
<1>0. s \in Seq(Region) /\ Len(s) \in Nat /\ i \in Nat
  BY DEF Tiled
<1>1. IF i < Len(s) /\ mergeable(s[i + 1], page)
      THEN s[i + 1].status = FREE /\ Merged(s, i, t) ELSE t = s
  BY <1>0, AbsorbNextCases
<1> HIDE DEF t
<1>2. CASE i < Len(s) /\ mergeable(s[i + 1], page)
  <2>1. i \in 1 .. Len(s) - 1 /\ Merged(s, i, t) /\ s[i + 1].status = FREE
    BY <1>0, <1>1, <1>2
  <2>2. Tiled(t) /\ (Positive(s) => Positive(t))
    BY <2>1, MergedTiled
  <2>3. Alloc(t) = Alloc(s)
    BY <1>0, <2>1, MergedAlloc
  <2>4. Quiet(s, {i - 1, i}) => Quiet(t, {i - 1})
    BY <1>0, <2>1, MergedNextQuiet
  <2>5. i \in 1 .. Len(t) /\ t[i].status = FREE /\ t[i].page_addr = page
    BY <1>0, <2>1 DEF Merged
  <2> QED
    BY <2>2, <2>3, <2>4, <2>5 DEF t
<1>3. CASE ~(i < Len(s) /\ mergeable(s[i + 1], page))
  <2>1. t = s
    BY <1>1, <1>3
  <2>2. ASSUME Positive(s), Quiet(s, {i - 1, i}) PROVE Quiet(s, {i - 1})
    <3>1. i < Len(s) => s[i + 1].page_addr # page
      <4>1. i < Len(s) => i + 1 \in 1 .. Len(s) /\ i # i + 1
        BY <1>0
      <4> QED
        BY <2>2, <4>1, DistinctStarts
    <3>2. i \in 1 .. Len(s) - 1 => s[i + 1].status # FREE
      BY <1>0, <1>3, <3>1 DEF mergeable
    <3> QED
      BY <2>2, <3>2 DEF Quiet
  <2> QED
    BY <2>1, <2>2 DEF t
<1> QED
  BY <1>2, <1>3

\* The third: it absorbs the node in front of it.
LEMMA FreePrev ==
  ASSUME NEW s, Tiled(s), NEW i \in 1 .. Len(s), s[i].status = FREE
  PROVE  LET t == absorb_prev(s, i, s[i].page_addr)
         IN  /\ Tiled(t) /\ Alloc(t) = Alloc(s)
             /\ Positive(s) => /\ Positive(t)
                               /\ Quiet(s, {i - 1}) => Quiet(t, {})
<1> DEFINE page == s[i].page_addr
           t == absorb_prev(s, i, page)
<1>0. s \in Seq(Region) /\ Len(s) \in Nat /\ i \in Nat
  BY DEF Tiled
<1>1. IF i > 1 /\ mergeable(s[i - 1], page)
      THEN s[i - 1].status = FREE /\ Merged(s, i - 1, t) ELSE t = s
  BY <1>0, AbsorbPrevCases
<1> HIDE DEF t
<1>2. CASE i > 1 /\ mergeable(s[i - 1], page)
  <2>1. /\ i - 1 \in 1 .. Len(s) - 1 /\ Merged(s, i - 1, t) /\ s[i - 1].status = FREE
        /\ (i - 1) + 1 = i
    BY <1>0, <1>1, <1>2
  <2> DEFINE j == i - 1
  <2>2. j \in 1 .. Len(s) - 1 /\ Merged(s, j, t) /\ s[j].status = FREE /\ s[j + 1].status = FREE
    BY <2>1
  <2> HIDE DEF j
  <2>3. Tiled(t) /\ (Positive(s) => Positive(t))
    BY <2>2, MergedTiled
  <2>4. Alloc(t) = Alloc(s)
    BY <1>0, <2>2, MergedAlloc
  <2>5. Quiet(s, {j}) => Quiet(t, {})
    BY <1>0, <2>2, MergedPrevQuiet
  <2> QED
    BY <2>3, <2>4, <2>5 DEF t, j
<1>3. CASE ~(i > 1 /\ mergeable(s[i - 1], page))
  <2>1. t = s
    BY <1>1, <1>3
  <2>2. ASSUME Positive(s), Quiet(s, {i - 1}) PROVE Quiet(s, {})
    <3>1. i > 1 => s[i - 1].page_addr # page
      <4>1. i > 1 => i - 1 \in 1 .. Len(s) /\ i # i - 1
        BY <1>0
      <4> QED
        BY <2>2, <4>1, DistinctStarts
    <3>2. i > 1 => s[i - 1].status # FREE
      BY <1>0, <1>3, <3>1 DEF mergeable
    <3>3. i - 1 \in 1 .. Len(s) - 1 => s[i - 1].status # FREE
      BY <1>0, <3>2
    <3> QED
      BY <2>2, <3>3 DEF Quiet
  <2> QED
    BY <2>1, <2>2 DEF t
<1> QED
  BY <1>2, <1>3

\* free_address of a region by its address.
LEMMA FreeKeeps ==
  ASSUME NEW s, Tiled(s), NEW i \in 1 .. Len(s)
  PROVE  LET t == free_address(s, i, s[i].page_addr)
         IN  /\ Tiled(t)
             /\ Positive(s) => /\ Positive(t)
                               /\ Alloc(t) = Alloc(s) \ {<<s[i].page_addr, s[i].size>>}
                               /\ Quiet(s, {}) => Quiet(t, {})
<1> DEFINE page == s[i].page_addr
           a == [s EXCEPT ![i].status = FREE]
           b == absorb_next(a, i, page)
           c == absorb_prev(b, i, page)
<1>1. /\ Tiled(a) /\ Len(a) = Len(s) /\ a[i].status = FREE /\ a[i].page_addr = page
      /\ Positive(s) => /\ Positive(a)
                        /\ Alloc(a) = Alloc(s) \ {<<s[i].page_addr, s[i].size>>}
      /\ Quiet(s, {}) => Quiet(a, {i - 1, i})
  BY FreeMark
<1>2. free_address(s, i, page) = c
  BY DEF free_address
<1> HIDE DEF a
<1>3. /\ Tiled(b) /\ i \in 1 .. Len(b) /\ b[i].status = FREE /\ b[i].page_addr = page
      /\ Alloc(b) = Alloc(a)
      /\ Positive(a) => Positive(b) /\ (Quiet(a, {i - 1, i}) => Quiet(b, {i - 1}))
  <2>1. b = absorb_next(a, i, a[i].page_addr) /\ i \in 1 .. Len(a)
    BY <1>1
  <2> HIDE DEF b
  <2> QED
    BY <1>1, <2>1, FreeNext
<1> HIDE DEF b
<1>4. /\ Tiled(c) /\ Alloc(c) = Alloc(b)
      /\ Positive(b) => Positive(c) /\ (Quiet(b, {i - 1}) => Quiet(c, {}))
  <2>1. c = absorb_prev(b, i, b[i].page_addr)
    BY <1>3
  <2> HIDE DEF c
  <2> QED
    BY <1>3, <2>1, FreePrev
<1> HIDE DEF c
<1> QED
  BY <1>1, <1>2, <1>3, <1>4

-----------------------------------------------------------------------------
(* The swap space. *)

\* The bitmaps: one byte for eight slots.
Maps == [0 .. byte_location(SwapPages - 1) -> 0 .. 255]

\* The byte and the bit of a slot are inside the bitmap.
LEMMA SlotLocation ==
  ASSUME NEW i \in Slots
  PROVE  /\ i \in Nat /\ i < SwapPages
         /\ byte_location(i) \in 0 .. byte_location(SwapPages - 1)
         /\ bit_location(i) \in 0 .. 7
BY SwapAssumption DEF Slots, byte_location, bit_location

\* Two slots differ in their byte or in their bit.
LEMMA SlotsDiffer ==
  ASSUME NEW i \in Slots, NEW m \in Slots, i # m, byte_location(i) = byte_location(m)
  PROVE  bit_location(i) # bit_location(m)
BY SwapAssumption DEF Slots, byte_location, bit_location

\* check_bitmap reads the bit of the slot.
LEMMA CheckIsBit ==
  ASSUME NEW map \in Maps, NEW i \in Slots
  PROVE  /\ map[byte_location(i)] \in 0 .. 255
         /\ check_bitmap(map, i) = Bit(map[byte_location(i)], 2^bit_location(i))
<1>1. map[byte_location(i)] \in 0 .. 255
  BY SlotLocation DEF Maps
<1>2. i < SwapPages
  BY SlotLocation
<1>3. check_bitmap(map, i) = (map[byte_location(i)] \div 2^bit_location(i)) % 2
  BY <1>2, Zenon DEF check_bitmap
<1> QED
  BY <1>1, <1>3, Zenon DEF Bit

\* check_bitmap gives 0 or 1 for a slot of the file.
LEMMA CheckType ==
  ASSUME NEW map \in Maps, NEW i \in Slots
  PROVE  check_bitmap(map, i) \in 0 .. 1
<1>1. /\ map[byte_location(i)] \in 0 .. 255
      /\ check_bitmap(map, i) = Bit(map[byte_location(i)], 2^bit_location(i))
      /\ bit_location(i) \in 0 .. 7
  BY CheckIsBit, SlotLocation, Zenon
<1> QED
  BY <1>1, BitType, Zenon

\* put_value writes one bit of one byte.
LEMMA PutIsSetBit ==
  ASSUME NEW map \in Maps, NEW i \in Slots, NEW v \in 0 .. 1
  PROVE  put_value(map, i, v) =
           [map EXCEPT ![byte_location(i)] =
              WithBit(map[byte_location(i)], v, 2^bit_location(i))]
<1>1. i < SwapPages
  BY SlotLocation
<1>2. check_bitmap(map, i) = Bit(map[byte_location(i)], 2^bit_location(i))
  BY CheckIsBit, Zenon
<1> QED
  BY <1>1, <1>2, Zenon DEF put_value, WithBit

\* put_value gives a bitmap in which the slot has the value.
LEMMA PutValue ==
  ASSUME NEW map \in Maps, NEW i \in Slots, NEW v \in 0 .. 1
  PROVE  put_value(map, i, v) \in Maps /\ check_bitmap(put_value(map, i, v), i) = v
<1> DEFINE x == map[byte_location(i)]
           y == WithBit(x, v, 2^bit_location(i))
           new == put_value(map, i, v)
<1>1. /\ x \in 0 .. 255 /\ bit_location(i) \in 0 .. 7
      /\ byte_location(i) \in 0 .. byte_location(SwapPages - 1)
  BY CheckIsBit, SlotLocation, Zenon
<1>2. y \in 0 .. 255 /\ Bit(y, 2^bit_location(i)) = v
  BY <1>1, SetBit, Zenon
<1>3. new = [map EXCEPT ![byte_location(i)] = y]
  BY PutIsSetBit, Zenon
<1> HIDE DEF x, y, new
<1>4. new \in Maps /\ new[byte_location(i)] = y
  BY <1>1, <1>2, <1>3 DEF Maps
<1>5. check_bitmap(new, i) = Bit(y, 2^bit_location(i))
  BY <1>4, CheckIsBit, Zenon
<1> QED
  BY <1>2, <1>4, <1>5, Zenon DEF new

\* put_value leaves the bits of the other slots as they are, in the same byte
\* and in others.
LEMMA PutOthers ==
  ASSUME NEW map \in Maps, NEW i \in Slots, NEW v \in 0 .. 1, NEW m \in Slots, m # i
  PROVE  check_bitmap(put_value(map, i, v), m) = check_bitmap(map, m)
<1> DEFINE x == map[byte_location(i)]
           y == WithBit(x, v, 2^bit_location(i))
           new == put_value(map, i, v)
<1>1. /\ x \in 0 .. 255 /\ bit_location(i) \in 0 .. 7 /\ bit_location(m) \in 0 .. 7
      /\ byte_location(m) \in 0 .. byte_location(SwapPages - 1)
  BY CheckIsBit, SlotLocation, Zenon
<1>2. new = [map EXCEPT ![byte_location(i)] = y]
  BY PutIsSetBit, Zenon
<1>3. new \in Maps
  BY PutValue, Zenon
<1>4. /\ check_bitmap(new, m) = Bit(new[byte_location(m)], 2^bit_location(m))
      /\ check_bitmap(map, m) = Bit(map[byte_location(m)], 2^bit_location(m))
  BY <1>3, CheckIsBit, Zenon
<1>5. CASE byte_location(m) # byte_location(i)
  <2>1. new[byte_location(m)] = map[byte_location(m)]
    <3> HIDE DEF new, y
    <3> QED
      BY <1>1, <1>2, <1>5 DEF Maps
  <2> QED
    BY <1>4, <2>1, Zenon
<1>6. CASE byte_location(m) = byte_location(i)
  <2>1. bit_location(i) # bit_location(m)
    BY <1>6, SlotsDiffer, Zenon
  <2>2. Bit(y, 2^bit_location(m)) = Bit(x, 2^bit_location(m))
    BY <1>1, <2>1, OtherBits, Zenon
  <2>3. new[byte_location(m)] = y
    <3> HIDE DEF new, y
    <3> QED
      BY <1>1, <1>2, <1>6 DEF Maps
  <2> QED
    BY <1>4, <1>6, <2>2, <2>3, Zenon
<1> QED
  BY <1>5, <1>6

\* Marking a slot takes it, and no other, from the free ones.
LEMMA MarkSlot ==
  ASSUME NEW map \in Maps, NEW i \in Slots
  PROVE  free_slots(put_value(map, i, 1)) = free_slots(map) \ {i}
<1>1. check_bitmap(put_value(map, i, 1), i) = 1
  BY PutValue
<1>2. \A m \in Slots \ {i} : check_bitmap(put_value(map, i, 1), m) = check_bitmap(map, m)
  BY PutOthers
<1> QED
  BY <1>1, <1>2 DEF free_slots

\* Clearing the mark of a slot adds it, and no other, to the free ones.
LEMMA ClearSlot ==
  ASSUME NEW map \in Maps, NEW i \in Slots
  PROVE  free_slots(put_value(map, i, 0)) = free_slots(map) \cup {i}
<1>1. check_bitmap(put_value(map, i, 0), i) = 0
  BY PutValue
<1>2. \A m \in Slots \ {i} : check_bitmap(put_value(map, i, 0), m) = check_bitmap(map, m)
  BY PutOthers
<1> QED
  BY <1>1, <1>2 DEF free_slots

\* The slot swap_out_page finds is free.
LEMMA FoundSlotIsFree ==
  ASSUME NEW map, free_slots(map) # {}
  PROVE  Min(free_slots(map)) \in free_slots(map) /\ Min(free_slots(map)) \in Slots
<1>1. free_slots(map) \in SUBSET Slots /\ Slots \in SUBSET Nat
  BY SwapAssumption DEF free_slots, Slots
<1> QED
  BY <1>1, MinOfNaturals

\* Offsets that fit an int are those that were meant.
LEMMA OffsetsExact ==
  ASSUME NEW i \in Slots, SwapPages =< INT_PAGES
  PROVE  int_offset(i) = i /\ u32_offset(i) = i
<1>1. i \in 0 .. INT_PAGES - 1 /\ INT_PAGES \in Nat
  BY SwapAssumption DEF Slots
<1>2. ASSUME NEW n \in Nat, NEW k \in Nat, k < n
      PROVE  k % n = k
  BY <1>2
<1>3. i % (2 * INT_PAGES) = i /\ (i + INT_PAGES) % (2 * INT_PAGES) = i + INT_PAGES
  BY <1>1, <1>2
<1> QED
  BY <1>1, <1>3 DEF int_offset, u32_offset
=============================================================================
