---------------------------- MODULE BuddyProofs -----------------------------
(***************************************************************************)
(* Proofs about the buddy allocator for every pool size: the inductive     *)
(* invariant IInv of Buddy, the safety properties that follow from it, and *)
(* that every step is one of BlockAllocator or a stuttering step.          *)
(***************************************************************************)
EXTENDS Buddy, SequenceTheorems, WellFoundedInduction, TLAPS

\* The order of the naturals, as the relation that WFMin is about.
LEMMA LessThanRelation ==
  OpToRel(<, Nat) = {ss \in Nat \X Nat : ss[1] < ss[2]}
BY Zenon DEF OpToRel

\* Every set of naturals that is not empty has a least element.
LEMMA LeastNatural ==
  ASSUME NEW S \in SUBSET Nat, S # {}
  PROVE  \E x \in S : \A y \in S : x =< y
<1> DEFINE R == OpToRel(<, Nat)
<1>1. R = {ss \in Nat \X Nat : ss[1] < ss[2]}
  BY LessThanRelation, Zenon
<1>2. IsWellFoundedOn(R, Nat)
  BY NatLessThanWellFounded
<1> HIDE DEF R
<1>3. PICK x \in S : \A y \in S : ~(<<y, x>> \in R)
  BY <1>2, WFMin
<1>4. ASSUME NEW y \in S, y < x
      PROVE  FALSE
  <2>1. <<y, x>> \in Nat \X Nat /\ <<y, x>>[1] < <<y, x>>[2]
    BY <1>4
  <2>2. <<y, x>> \in R
    BY <1>1, <2>1, Zenon
  <2> QED
    BY <1>3, <2>2
<1> QED
  BY <1>4

-----------------------------------------------------------------------------
(* Arithmetic on block sizes. *)

\* The size of a block of any order of the pool is positive.
LEMMA SizeType == \A k \in Orders : Size(k) \in Nat \ {0}
<1> SUFFICES ASSUME NEW k \in Orders PROVE 2^(k - MinOrder) \in Nat \ {0}
  BY DEF Size
<1>1. k - MinOrder \in 0 .. PoolOrder
  BY OrdersAssumption DEF Orders
<1> QED
  BY <1>1, PowersOfTwo

\* The pool has an order of its own and at least one unit.
LEMMA NumBlocksType == PoolOrder \in Orders /\ NumBlocks \in Nat \ {0}
BY OrdersAssumption, SizeType DEF NumBlocks, Orders

\* A block of the minimum order is one unit, the granule of tag_bits.
LEMMA SizeMin == Size(MinOrder) = 1
<1>1. MinOrder - MinOrder = 0
  BY OrdersAssumption
<1> QED
  BY <1>1, PowersOfTwo DEF Size

\* 1UL << (k + 1) is twice 1UL << k, as splitting and merging need.
LEMMA SizeDouble == \A k \in Orders : k < PoolOrder => Size(k + 1) = 2 * Size(k)
<1> SUFFICES ASSUME NEW k \in Orders, k < PoolOrder
             PROVE  Size(k + 1) = 2 * Size(k)
  OBVIOUS
<1> DEFINE n == k - MinOrder
<1>1. n \in 0 .. PoolOrder /\ 1 \in 0 .. PoolOrder /\ k + 1 - MinOrder = n + 1
  BY OrdersAssumption DEF Orders
<1>2. 2^(n + 1) = 2^n * 2^1 /\ 2^n \in Nat
  BY <1>1, PowersOfTwo
<1>3. 2^1 = 2
  BY PowersOfTwo
<1>4. Size(k + 1) = 2^(n + 1) /\ Size(k) = 2^n
  BY OrdersAssumption DEF Size, Orders
<1> HIDE DEF n
<1> QED
  BY <1>2, <1>3, <1>4

\* The size of a block is a multiple of that of every smaller one.
LEMMA SizeMultiple ==
  ASSUME NEW m \in Orders, NEW k \in Orders, m =< k
  PROVE  \E t \in Nat \ {0} : Size(k) = t * Size(m)
<1> DEFINE n == m - MinOrder
           d == k - m
<1>1. n \in 0 .. PoolOrder /\ d \in 0 .. PoolOrder /\ k - MinOrder = n + d
  BY OrdersAssumption DEF Orders
<1>2. 2^(n + d) = 2^n * 2^d /\ 2^n \in Nat \ {0} /\ 2^d \in Nat \ {0}
  BY <1>1, PowersOfTwo
<1>3. Size(k) = 2^(n + d) /\ Size(m) = 2^n
  BY <1>1 DEF Size
<1> HIDE DEF n, d
<1>4. 2^n * 2^d = 2^d * 2^n
  BY <1>2
<1> QED
  BY <1>2, <1>3, <1>4

\* Multiplying by a positive size keeps the order of the integers.
LEMMA MultMonotone ==
  ASSUME NEW p \in Int, NEW q \in Int, NEW s \in Nat \ {0}
  PROVE  /\ p =< q <=> p * s =< q * s
         /\ p < q <=> p * s < q * s
         /\ (p + 1) * s = p * s + s
         /\ (p - 1) * s = p * s - s
OBVIOUS

\* Dividing a multiple by its factor gives the other factor back.
LEMMA DivExact ==
  ASSUME NEW q \in Nat, NEW s \in Nat \ {0}
  PROVE  (q * s) \div s = q
<1> DEFINE d == (q * s) \div s
           r == (q * s) % s
<1>1. q * s \in Nat
  OBVIOUS
<1>2. d \in Int /\ r \in 0 .. s - 1 /\ q * s = s * d + r
  BY <1>1
<1> QED
  BY <1>2, SMTT(30)

\* A number is even or odd, according to its remainder.
LEMMA Halves ==
  ASSUME NEW q \in Nat
  PROVE  /\ q \div 2 \in Nat
         /\ \/ q = 2 * (q \div 2) /\ q % 2 = 0
            \/ q = 2 * (q \div 2) + 1 /\ q % 2 = 1
OBVIOUS

-----------------------------------------------------------------------------
(* A block and its buddy are the two halves of a block of the next order. *)

AlignedBlock(b) == /\ b \in Addr \X Orders
                   /\ \E q \in Nat : b[1] = BaseAddr + q * Size(b[2])

\* A block that starts at a multiple of its size ends inside the pool.
LEMMA AlignedInPool ==
  ASSUME NEW b, AlignedBlock(b)
  PROVE  b[1] + Size(b[2]) =< BaseAddr + NumBlocks
<1>1. PICK q \in Nat : b[1] = BaseAddr + q * Size(b[2])
  BY DEF AlignedBlock
<1>2. b[1] \in Addr /\ b[2] \in Orders /\ PoolOrder \in Orders /\ b[2] =< PoolOrder
  BY OrdersAssumption DEF AlignedBlock, Orders
<1>3. PICK t \in Nat \ {0} : NumBlocks = t * Size(b[2])
  BY <1>2, SizeMultiple DEF NumBlocks
<1> DEFINE s == Size(b[2])
<1>4. s \in Nat \ {0}
  BY <1>2, SizeType
<1> HIDE DEF s
<1>5. q * s < t * s
  BY <1>1, <1>2, <1>3, <1>4, BaseAssumption DEF Addr, s
<1>6. q + 1 =< t
  BY <1>4, <1>5, MultMonotone
<1>7. (q + 1) * s =< t * s /\ (q + 1) * s = q * s + s
  BY <1>4, <1>6, MultMonotone
<1> QED
  BY <1>1, <1>3, <1>4, <1>7, BaseAssumption DEF s

\* The pair of buddies around an aligned block: its lower half starts at
\* pair, and the pair is itself an aligned block.
LEMMA BuddyPair ==
  ASSUME NEW b, AlignedBlock(b), b[2] < PoolOrder
  PROVE  \E pair \in Addr :
           /\ AlignedBlock(<<pair, b[2] + 1>>)
           /\ \/ b[1] = pair /\ find_buddy(b[1], b[2]) = pair + Size(b[2])
              \/ b[1] = pair + Size(b[2]) /\ find_buddy(b[1], b[2]) = pair
<1>1. PICK q \in Nat : b[1] = BaseAddr + q * Size(b[2])
  BY DEF AlignedBlock
<1> DEFINE s == Size(b[2])
           k == b[2]
           u == q \div 2
           pair == BaseAddr + u * Size(k + 1)
<1>2. b[1] \in Addr /\ k \in Orders /\ k + 1 \in Orders
  BY OrdersAssumption DEF AlignedBlock, Orders
<1>3. s \in Nat \ {0} /\ Size(k + 1) = 2 * s
  BY <1>2, SizeType, SizeDouble
<1>4. u \in Nat /\ ((q = 2 * u /\ q % 2 = 0) \/ (q = 2 * u + 1 /\ q % 2 = 1))
  BY Halves
<1>5. (b[1] - BaseAddr) \div s = q
  <2>1. b[1] - BaseAddr = q * s
    BY <1>1, <1>3, BaseAssumption
  <2> QED
    BY <2>1, <1>3, DivExact
<1>6. find_buddy(b[1], b[2]) = IF q % 2 = 0 THEN b[1] + s ELSE b[1] - s
  BY <1>5 DEF find_buddy
<1> HIDE DEF s, u
<1>7. u * (2 * s) = (2 * u) * s /\ (2 * u + 1) * s = (2 * u) * s + s
  BY <1>3, <1>4
<1>8. pair = BaseAddr + (2 * u) * s
  BY <1>3, <1>7
<1>9. (2 * u) * s \in Nat
  BY <1>3, <1>4
<1>10. \/ q % 2 = 0 /\ b[1] = pair
       \/ q % 2 = 1 /\ b[1] = pair + s
  <2>1. \/ q * s = (2 * u) * s /\ q % 2 = 0
        \/ q * s = (2 * u) * s + s /\ q % 2 = 1
    BY <1>4, <1>7
  <2>2. b[1] = BaseAddr + q * s
    BY <1>1 DEF s
  <2> HIDE DEF pair
  <2> QED
    BY <2>1, <2>2, <1>3, <1>8, <1>9, BaseAssumption
<1> HIDE DEF pair
<1>11. pair \in Addr
  BY <1>2, <1>3, <1>8, <1>9, <1>10, BaseAssumption, NumBlocksType DEF Addr
<1>12. AlignedBlock(<<pair, k + 1>>)
  BY <1>2, <1>4, <1>11 DEF AlignedBlock, pair
<1> QED
  BY <1>3, <1>6, <1>8, <1>9, <1>10, <1>11, <1>12, BaseAssumption DEF s

\* Both halves of an aligned block are aligned.
LEMMA HalvesAligned ==
  ASSUME NEW a, NEW k \in Orders, k < PoolOrder, AlignedBlock(<<a, k + 1>>)
  PROVE  AlignedBlock(<<a, k>>) /\ AlignedBlock(<<a + Size(k), k>>)
<1>1. PICK q \in Nat : a = BaseAddr + q * Size(k + 1)
  BY DEF AlignedBlock
<1>2. a \in Addr /\ a + Size(k + 1) =< BaseAddr + NumBlocks
  BY AlignedInPool DEF AlignedBlock
<1> DEFINE s == Size(k)
<1>3. s \in Nat \ {0} /\ Size(k + 1) = 2 * s
  BY SizeType, SizeDouble
<1> HIDE DEF s
<1>4. a = BaseAddr + (2 * q) * s /\ a + s = BaseAddr + (2 * q + 1) * s
  BY <1>1, <1>3, BaseAssumption
<1>5. a + s \in Addr
  BY <1>2, <1>3, NumBlocksType, BaseAssumption DEF Addr
<1>6. 2 * q \in Nat /\ 2 * q + 1 \in Nat
  OBVIOUS
<1> QED
  BY <1>2, <1>4, <1>5, <1>6 DEF AlignedBlock, s

\* Aligned blocks that share a unit are nested: the smaller lies in the larger.
LEMMA Laminar ==
  ASSUME NEW b, NEW c, AlignedBlock(b), AlignedBlock(c), b[2] =< c[2],
         NEW x, x \in Span(b), x \in Span(c)
  PROVE  c[1] =< b[1] /\ b[1] + Size(b[2]) =< c[1] + Size(c[2])
<1>1. b[2] \in Orders /\ c[2] \in Orders
  BY DEF AlignedBlock
<1>2. PICK q \in Nat : b[1] = BaseAddr + q * Size(b[2])
  BY DEF AlignedBlock
<1>3. PICK p \in Nat : c[1] = BaseAddr + p * Size(c[2])
  BY DEF AlignedBlock
<1>4. PICK t \in Nat \ {0} : Size(c[2]) = t * Size(b[2])
  BY <1>1, SizeMultiple
<1> DEFINE S == Size(b[2])
           T == Size(c[2])
           m == p * t
<1>5. S \in Nat \ {0} /\ T \in Nat \ {0}
  BY <1>1, SizeType
<1>6. x \in Int /\ b[1] =< x /\ x < b[1] + S /\ c[1] =< x /\ x < c[1] + T
  BY <1>2, <1>3, <1>5, BaseAssumption DEF Span
<1>7. m \in Nat
  OBVIOUS
<1>8. p * (t * S) = m * S /\ (m + t) * S = m * S + t * S
  BY <1>5
<1> HIDE DEF S, T, m
<1>9. c[1] = BaseAddr + m * S /\ c[1] + T = BaseAddr + (m + t) * S
  <2>1. T = t * S /\ c[1] = BaseAddr + p * T
    BY <1>3, <1>4 DEF S, T
  <2>2. m * S \in Int /\ t * S \in Int
    BY <1>5, <1>7
  <2> QED
    BY <1>8, <2>1, <2>2, BaseAssumption
<1>10. b[1] = BaseAddr + q * S /\ b[1] + S = BaseAddr + (q + 1) * S
  BY <1>2, <1>5, MultMonotone, BaseAssumption DEF S
<1>11. q * S \in Int /\ (q + 1) * S \in Int /\ m * S \in Int /\ (m + t) * S \in Int
  BY <1>5, <1>7
<1>12. m * S < (q + 1) * S /\ q * S < (m + t) * S
  BY <1>6, <1>9, <1>10, <1>11, BaseAssumption
<1>13. m =< q /\ q + 1 =< m + t
  BY <1>5, <1>7, <1>12, MultMonotone
<1>14. m * S =< q * S /\ (q + 1) * S =< (m + t) * S
  BY <1>5, <1>7, <1>13, MultMonotone
<1> QED
  BY <1>9, <1>10, <1>11, <1>14, BaseAssumption DEF S, T

-----------------------------------------------------------------------------
(* The free lists as sets. *)

\* Every element of a list is an element of its set, and conversely.
LEMMA ToSetElement ==
  ASSUME NEW S, NEW s \in Seq(S)
  PROVE  /\ \A i \in 1 .. Len(s) : s[i] \in ToSet(s)
         /\ \A x \in ToSet(s) : x \in S /\ \E i \in 1 .. Len(s) : x = s[i]
BY DEF ToSet

\* list_add adds one element to the list.
LEMMA ListAdd ==
  ASSUME NEW S, NEW s \in Seq(S), NEW b \in S
  PROVE  /\ list_add(s, b) \in Seq(S)
         /\ ToSet(list_add(s, b)) = ToSet(s) \cup {b}
         /\ b \notin ToSet(s) /\ IsInjective(s) => IsInjective(list_add(s, b))
<1> DEFINE t == list_add(s, b)
<1>1. /\ t \in Seq(S)
      /\ Len(t) = Len(s) + 1
      /\ t[1] = b
      /\ \A i \in 2 .. Len(t) : t[i] = s[i - 1]
  BY DEF list_add
<1>2. \A i \in 1 .. Len(s) : s[i] = t[i + 1] /\ i + 1 \in 1 .. Len(t)
  BY <1>1
<1> HIDE DEF t
<1>3. ToSet(t) = ToSet(s) \cup {b}
  <2>1. ASSUME NEW x \in ToSet(t) PROVE x \in ToSet(s) \cup {b}
    <3>1. PICK i \in 1 .. Len(t) : x = t[i]
      BY <1>1, <2>1, ToSetElement
    <3>2. CASE i = 1
      BY <1>1, <3>1, <3>2
    <3>3. CASE i # 1
      <4>1. i \in 2 .. Len(t) /\ i - 1 \in 1 .. Len(s)
        BY <1>1, <3>3
      <4> QED
        BY <1>1, <3>1, <4>1, ToSetElement
    <3> QED
      BY <3>2, <3>3
  <2>2. ASSUME NEW x \in ToSet(s) PROVE x \in ToSet(t)
    <3>1. PICK i \in 1 .. Len(s) : x = s[i]
      BY ToSetElement
    <3> QED
      BY <1>1, <1>2, <3>1, ToSetElement
  <2>3. b \in ToSet(t)
    BY <1>1, ToSetElement
  <2> QED
    BY <2>1, <2>2, <2>3
<1>4. ASSUME b \notin ToSet(s), IsInjective(s) PROVE IsInjective(t)
  <2>1. SUFFICES ASSUME NEW m \in 1 .. Len(t), NEW n \in 1 .. Len(t), t[m] = t[n]
                 PROVE  m = n
    BY <1>1 DEF IsInjective
  <2>2. ASSUME NEW i \in 2 .. Len(t)
        PROVE  i - 1 \in 1 .. Len(s) /\ t[i] = s[i - 1] /\ t[i] # b
    <3>1. i - 1 \in 1 .. Len(s) /\ t[i] = s[i - 1]
      BY <1>1
    <3> QED
      BY <1>4, <3>1, ToSetElement
  <2>3. CASE m = 1 \/ n = 1
    BY <1>1, <2>1, <2>2, <2>3
  <2>4. CASE m # 1 /\ n # 1
    <3>1. m \in 2 .. Len(t) /\ n \in 2 .. Len(t)
      BY <2>4
    <3>2. m - 1 = n - 1
      BY <1>4, <2>1, <2>2, <3>1 DEF IsInjective
    <3> QED
      BY <3>2
  <2> QED
    BY <2>3, <2>4
<1> QED
  BY <1>1, <1>3, <1>4 DEF t

\* Taking the first element of a list without repetitions removes it.
LEMMA TakeFirst ==
  ASSUME NEW S, NEW s \in Seq(S), s # << >>, IsInjective(s)
  PROVE  /\ Head(s) \in ToSet(s)
         /\ Tail(s) \in Seq(S)
         /\ ToSet(Tail(s)) = ToSet(s) \ {Head(s)}
         /\ IsInjective(Tail(s))
<1> DEFINE t == Tail(s)
<1>1. /\ t \in Seq(S)
      /\ Len(s) >= 1
      /\ Len(t) = Len(s) - 1
      /\ Head(s) = s[1]
      /\ \A i \in 1 .. Len(t) : t[i] = s[i + 1]
  OBVIOUS
<1> HIDE DEF t
<1>2. IsInjective(t)
  <2>1. ASSUME NEW a \in 1 .. Len(t), NEW b \in 1 .. Len(t), t[a] = t[b]
        PROVE  a = b
    <3>1. a + 1 \in 1 .. Len(s) /\ b + 1 \in 1 .. Len(s) /\ s[a + 1] = s[b + 1]
      BY <1>1, <2>1
    <3>2. a + 1 = b + 1
      BY <3>1 DEF IsInjective
    <3> QED
      BY <3>2
  <2>2. DOMAIN t = 1 .. Len(t)
    BY <1>1
  <2> QED
    BY <2>1, <2>2 DEF IsInjective
<1>3. ASSUME NEW x \in ToSet(t) PROVE x \in ToSet(s) /\ x # s[1]
  <2>1. PICK i \in 1 .. Len(t) : x = t[i]
    BY <1>1, ToSetElement
  <2>2. x = s[i + 1] /\ i + 1 \in 1 .. Len(s) /\ 1 \in 1 .. Len(s) /\ i + 1 # 1
    BY <1>1, <2>1
  <2> QED
    BY <2>2, ToSetElement DEF IsInjective
<1>4. ASSUME NEW x \in ToSet(s), x # s[1] PROVE x \in ToSet(t)
  <2>1. PICK i \in 1 .. Len(s) : x = s[i]
    BY ToSetElement
  <2>2. i - 1 \in 1 .. Len(t) /\ x = t[i - 1]
    BY <1>1, <1>4, <2>1
  <2> QED
    BY <1>1, <2>2, ToSetElement
<1>5. s[1] \in ToSet(s)
  BY <1>1, ToSetElement
<1>6. ToSet(t) = ToSet(s) \ {s[1]}
  BY <1>3, <1>4
<1> QED
  BY <1>1, <1>2, <1>5, <1>6 DEF t

\* list_del removes its block from a list without repetitions.
LEMMA Unlink ==
  ASSUME NEW S, NEW s \in Seq(S), NEW b, IsInjective(s)
  PROVE  /\ unlink(s, b) \in Seq(S)
         /\ ToSet(unlink(s, b)) = ToSet(s) \ {b}
         /\ IsInjective(unlink(s, b))
<1>1. CASE b \notin ToSet(s)
  BY <1>1 DEF unlink
<1>2. CASE b \in ToSet(s)
  <2> DEFINE n == CHOOSE i \in DOMAIN s : s[i] = b
             t == unlink(s, b)
  <2>1. n \in 1 .. Len(s) /\ s[n] = b
    BY <1>2, ToSetElement
  <2>2. t = SubSeq(s, 1, n - 1) \o SubSeq(s, n + 1, Len(s))
    BY <1>2 DEF unlink, RemoveAt
  <2> HIDE DEF n, t
  <2>3. /\ t \in Seq(S)
        /\ Len(t) = Len(s) - 1
        /\ \A i \in 1 .. Len(t) : t[i] = IF i < n THEN s[i] ELSE s[i + 1]
    <3> DEFINE u == SubSeq(s, 1, n - 1)
               v == SubSeq(s, n + 1, Len(s))
    <3>1. u \in Seq(S) /\ Len(u) = n - 1 /\ \A i \in 1 .. n - 1 : u[i] = s[i]
      BY <2>1
    <3>2. /\ v \in Seq(S) /\ Len(v) = Len(s) - n
          /\ \A i \in 1 .. Len(s) - n : v[i] = s[n + i]
      BY <2>1
    <3> HIDE DEF u, v
    <3>3. /\ t \in Seq(S) /\ Len(t) = Len(u) + Len(v)
          /\ \A i \in 1 .. Len(t) : t[i] = IF i =< Len(u) THEN u[i] ELSE v[i - Len(u)]
      <4>1. t = u \o v
        BY <2>2 DEF u, v
      <4>2. /\ u \o v \in Seq(S) /\ Len(u \o v) = Len(u) + Len(v)
            /\ \A i \in 1 .. Len(u) + Len(v) :
                 (u \o v)[i] = IF i =< Len(u) THEN u[i] ELSE v[i - Len(u)]
        BY <3>1, <3>2, ConcatProperties
      <4> QED
        BY <4>1, <4>2
    <3>4. Len(t) = Len(s) - 1
      BY <2>1, <3>1, <3>2, <3>3
    <3>5. ASSUME NEW i \in 1 .. Len(t), i < n PROVE t[i] = s[i]
      <4>1. i \in 1 .. n - 1 /\ i =< Len(u)
        BY <2>1, <3>1, <3>5
      <4> QED
        BY <3>1, <3>3, <4>1
    <3>6. ASSUME NEW i \in 1 .. Len(t), ~(i < n) PROVE t[i] = s[i + 1]
      <4>1. i - Len(u) \in 1 .. Len(s) - n /\ n + (i - Len(u)) = i + 1
        BY <2>1, <3>1, <3>4, <3>6
      <4>2. t[i] = v[i - Len(u)]
        BY <2>1, <3>1, <3>3, <3>6
      <4> QED
        BY <3>2, <4>1, <4>2
    <3> QED
      BY <3>3, <3>4, <3>5, <3>6
  <2>4. IsInjective(t)
    <3>1. SUFFICES ASSUME NEW l \in 1 .. Len(t), NEW m \in 1 .. Len(t), t[l] = t[m]
                   PROVE  l = m
      BY <2>3 DEF IsInjective
    <3> DEFINE at(i) == IF i < n THEN i ELSE i + 1
    <3>2. at(l) \in 1 .. Len(s) /\ at(m) \in 1 .. Len(s)
      BY <2>1, <2>3
    <3>3. s[at(l)] = s[at(m)]
      BY <2>1, <2>3, <3>1
    <3>4. at(l) = at(m)
      BY <3>2, <3>3 DEF IsInjective
    <3> QED
      BY <2>1, <3>4
  <2>5. ASSUME NEW x \in ToSet(t) PROVE x \in ToSet(s) /\ x # b
    <3>1. PICK i \in 1 .. Len(t) : x = t[i]
      BY <2>3, ToSetElement
    <3>2. PICK m \in 1 .. Len(s) : x = s[m] /\ m # n
      BY <2>1, <2>3, <3>1
    <3> QED
      BY <2>1, <3>2, ToSetElement DEF IsInjective
  <2>6. ASSUME NEW x \in ToSet(s), x # b PROVE x \in ToSet(t)
    <3>1. PICK m \in 1 .. Len(s) : x = s[m]
      BY ToSetElement
    <3>2. \E i \in 1 .. Len(t) : x = t[i]
      <4>1. CASE m < n
        BY <2>1, <2>3, <3>1, <4>1
      <4>2. CASE m > n
        <5>1. m - 1 \in 1 .. Len(t) /\ t[m - 1] = s[m]
          BY <2>1, <2>3, <4>2
        <5> QED
          BY <3>1, <5>1
      <4> QED
        BY <2>1, <2>6, <3>1, <4>1, <4>2
    <3> QED
      BY <2>3, <3>2, ToSetElement
  <2>7. ToSet(t) = ToSet(s) \ {b}
    BY <2>5, <2>6
  <2> QED
    BY <2>3, <2>4, <2>7 DEF t
<1> QED
  BY <1>1, <1>2

-----------------------------------------------------------------------------
(* Sets of blocks that tile the pool. *)

Tiling(B) ==
  /\ \A b \in B : AlignedBlock(b)
  /\ \A b, c \in B : b # c => Disjoint(b, c)
  /\ \A a \in Addr : \E b \in B : a \in Span(b)

\* What the provers need to know of one block.
LEMMA BlockFacts ==
  ASSUME NEW b, AlignedBlock(b)
  PROVE  /\ b = <<b[1], b[2]>> /\ b[1] \in Addr /\ b[2] \in Orders
         /\ b[1] \in Int /\ b[2] \in Int /\ Size(b[2]) \in Nat \ {0}
         /\ b[1] \in Span(b)
<1>1. b = <<b[1], b[2]>> /\ b[1] \in Addr /\ b[2] \in Orders
  BY DEF AlignedBlock
<1>2. Size(b[2]) \in Nat \ {0}
  BY <1>1, SizeType
<1>3. b[1] \in Int /\ b[2] \in Int
  BY <1>1, BaseAssumption, NumBlocksType, OrdersAssumption DEF Addr, Orders
<1> QED
  BY <1>1, <1>2, <1>3 DEF Span

\* Disjoint blocks share no unit.
LEMMA NoSharedUnit ==
  ASSUME NEW b, NEW c, AlignedBlock(b), AlignedBlock(c), Disjoint(b, c)
  PROVE  \A x : ~(x \in Span(b) /\ x \in Span(c))
BY BlockFacts DEF Disjoint, Span

\* Two blocks of a tiling that share a unit are one block.
LEMMA TilingUnique ==
  ASSUME NEW B, Tiling(B), NEW b \in B, NEW c \in B,
         NEW x, x \in Span(b), x \in Span(c)
  PROVE  b = c
BY NoSharedUnit DEF Tiling

\* In a tiling two blocks that start at the same address are one.
LEMMA SameHead ==
  ASSUME NEW B, Tiling(B), NEW b \in B, NEW c \in B, b[1] = c[1]
  PROVE  b = c
<1>1. b[1] \in Span(b) /\ c[1] \in Span(c)
  BY BlockFacts DEF Tiling
<1> QED
  BY <1>1, TilingUnique

\* In a tiling, the address find_buddy computes is the start of some other
\* block, no larger than the first: the tag bit and the header buddy_free reads
\* there belong to a block.
LEMMA HeadAtBuddy ==
  ASSUME NEW B, Tiling(B), NEW b \in B, b[2] < PoolOrder
  PROVE  /\ find_buddy(b[1], b[2]) \in Addr
         /\ \E c \in B : c # b /\ c[1] = find_buddy(b[1], b[2]) /\ c[2] =< b[2]
<1> DEFINE k == b[2]
           x == find_buddy(b[1], b[2])
<1>1. AlignedBlock(b)
  BY DEF Tiling
<1>2. PICK pair \in Addr :
           /\ AlignedBlock(<<pair, k + 1>>)
           /\ \/ b[1] = pair /\ x = pair + Size(k)
              \/ b[1] = pair + Size(k) /\ x = pair
  BY <1>1, BuddyPair
<1>3. /\ k \in Orders /\ k + 1 \in Orders /\ Size(k) \in Nat \ {0}
      /\ Size(k + 1) = 2 * Size(k) /\ pair \in Int
  BY <1>1, BlockFacts, SizeDouble, BaseAssumption, NumBlocksType, OrdersAssumption
  DEF Orders, Addr
<1>4. AlignedBlock(<<pair, k>>) /\ AlignedBlock(<<pair + Size(k), k>>)
  BY <1>2, <1>3, HalvesAligned
<1>5. AlignedBlock(<<x, k>>)
  BY <1>2, <1>4
<1> HIDE DEF x
<1>6. x \in Addr /\ x \in Int /\ x \in Span(<<x, k>>) /\ x \in Span(<<pair, k + 1>>)
  <2>1. x \in Span(<<x, k>>) /\ x \in Addr /\ x \in Int
    BY <1>5, BlockFacts
  <2> QED
    BY <2>1, <1>2, <1>3 DEF Span
<1>7. PICK c \in B : x \in Span(c)
  BY <1>6 DEF Tiling
<1>8. AlignedBlock(c) /\ c[1] \in Int /\ c[2] \in Int /\ Size(c[2]) \in Nat
  BY BlockFacts DEF Tiling
<1>9. x \notin Span(b)
  BY <1>2, <1>3 DEF Span
<1>10. CASE c[2] =< k
  <2>1. x =< c[1]
    BY <1>5, <1>6, <1>7, <1>8, <1>10, Laminar
  <2>2. c[1] =< x
    BY <1>6, <1>7, <1>8 DEF Span
  <2>3. c[1] = x
    BY <2>1, <2>2, <1>6, <1>8
  <2> QED
    BY <2>3, <1>6, <1>7, <1>9, <1>10 DEF x
<1>11. CASE k + 1 =< c[2]
  <2>1. c[1] =< pair /\ pair + Size(k + 1) =< c[1] + Size(c[2])
    BY <1>2, <1>6, <1>7, <1>8, <1>11, Laminar
  <2>2. b[1] \in Span(c)
    BY <2>1, <1>2, <1>3, <1>8 DEF Span
  <2>3. b = c
    BY <2>2, <1>1, BlockFacts, TilingUnique
  <2> QED
    BY <2>3, <1>7, <1>9
<1> QED
  BY <1>3, <1>8, <1>10, <1>11 DEF Orders

\* find_buddy is its own inverse.
LEMMA BuddySymmetric ==
  ASSUME NEW b, NEW c, AlignedBlock(b), AlignedBlock(c),
         b[2] = c[2], b[2] < PoolOrder, c[1] = find_buddy(b[1], b[2])
  PROVE  b[1] = find_buddy(c[1], c[2])
<1> DEFINE k == b[2]
           s == Size(k)
<1>1. PICK p \in Addr :
           /\ AlignedBlock(<<p, k + 1>>)
           /\ \/ b[1] = p /\ c[1] = p + s
              \/ b[1] = p + s /\ c[1] = p
  BY BuddyPair
<1>2. PICK q \in Addr :
           /\ AlignedBlock(<<q, k + 1>>)
           /\ \/ c[1] = q /\ find_buddy(c[1], k) = q + s
              \/ c[1] = q + s /\ find_buddy(c[1], k) = q
  BY BuddyPair
<1>3. k \in Orders /\ s \in Nat \ {0} /\ Size(k + 1) = 2 * s
  BY BlockFacts, SizeDouble
<1>4. p \in Int /\ q \in Int
  BY BaseAssumption, NumBlocksType DEF Addr
<1> HIDE DEF s
<1>5. c[1] \in Span(<<p, k + 1>>) /\ c[1] \in Span(<<q, k + 1>>)
  BY <1>1, <1>2, <1>3, <1>4 DEF Span
<1>6. p =< q /\ q =< p
  BY <1>1, <1>2, <1>3, <1>5, Laminar, OrdersAssumption DEF Orders
<1> QED
  BY <1>1, <1>2, <1>3, <1>4, <1>6

\* Splitting a block of a tiling into its halves gives a tiling.
LEMMA SplitTiling ==
  ASSUME NEW B, Tiling(B), NEW a, NEW k \in Orders, k < PoolOrder,
         <<a, k + 1>> \in B
  PROVE  Tiling((B \ {<<a, k + 1>>}) \cup {<<a, k>>, <<a + Size(k), k>>})
<1> DEFINE w == <<a, k + 1>>
           l == <<a, k>>
           u == <<a + Size(k), k>>
           C == (B \ {w}) \cup {l, u}
<1>1. AlignedBlock(w) /\ AlignedBlock(l) /\ AlignedBlock(u)
  BY HalvesAligned DEF Tiling
<1>2. a \in Int /\ Size(k) \in Nat \ {0} /\ Size(k + 1) = 2 * Size(k)
  BY <1>1, BlockFacts, SizeType, SizeDouble
<1>3. Disjoint(l, u) /\ Disjoint(u, l)
  BY <1>2 DEF Disjoint
<1>4. ASSUME NEW c \in B, c # w
      PROVE  Disjoint(c, l) /\ Disjoint(c, u) /\ Disjoint(l, c) /\ Disjoint(u, c)
  <2>1. Disjoint(c, w) /\ AlignedBlock(c)
    BY <1>4 DEF Tiling
  <2> QED
    BY <2>1, <1>2, BlockFacts DEF Disjoint
<1>5. ASSUME NEW x \in Addr PROVE \E b \in C : x \in Span(b)
  <2>1. PICK c \in B : x \in Span(c)
    BY DEF Tiling
  <2>2. CASE c = w
    <3>1. x \in Span(l) \/ x \in Span(u)
      BY <2>1, <2>2, <1>2 DEF Span
    <3> QED
      BY <3>1
  <2> QED
    BY <2>1, <2>2
<1>6. \A b \in C : AlignedBlock(b)
  BY <1>1 DEF Tiling
<1>7. \A b, c \in C : b # c => Disjoint(b, c)
  BY <1>3, <1>4 DEF Tiling
<1> QED
  BY <1>5, <1>6, <1>7 DEF Tiling

\* Merging two buddies of a tiling gives a tiling.
LEMMA MergeTiling ==
  ASSUME NEW B, Tiling(B), NEW a, NEW k \in Orders, k < PoolOrder,
         AlignedBlock(<<a, k + 1>>),
         <<a, k>> \in B, <<a + Size(k), k>> \in B
  PROVE  Tiling((B \ {<<a, k>>, <<a + Size(k), k>>}) \cup {<<a, k + 1>>})
<1> DEFINE w == <<a, k + 1>>
           l == <<a, k>>
           u == <<a + Size(k), k>>
           C == (B \ {l, u}) \cup {w}
<1>1. AlignedBlock(l) /\ AlignedBlock(u)
  BY DEF Tiling
<1>2. a \in Int /\ Size(k) \in Nat \ {0} /\ Size(k + 1) = 2 * Size(k)
  BY <1>1, BlockFacts, SizeType, SizeDouble
<1>3. ASSUME NEW c \in B, c # l, c # u PROVE Disjoint(c, w) /\ Disjoint(w, c)
  <2>1. Disjoint(c, l) /\ Disjoint(c, u) /\ AlignedBlock(c)
    BY <1>3 DEF Tiling
  <2> QED
    BY <2>1, <1>2, BlockFacts DEF Disjoint
<1>4. ASSUME NEW x \in Addr PROVE \E b \in C : x \in Span(b)
  <2>1. PICK c \in B : x \in Span(c)
    BY DEF Tiling
  <2>2. CASE c = l \/ c = u
    <3>1. x \in Span(w)
      BY <2>1, <2>2, <1>2 DEF Span
    <3> QED
      BY <3>1
  <2> QED
    BY <2>1, <2>2
<1>5. \A b \in C : AlignedBlock(b)
  BY DEF Tiling
<1>6. \A b, c \in C : b # c => Disjoint(b, c)
  BY <1>3 DEF Tiling
<1> QED
  BY <1>4, <1>5, <1>6 DEF Tiling

-----------------------------------------------------------------------------
(* The invariant as a statement about a tiling. *)

\* The parts of IInv that speak of where blocks are.
Layout ==
  /\ Tiling(Blocks)
  /\ held \cap FreeBlocks = {}
  /\ (held \cup FreeBlocks) \cap InFlight = {}
  /\ \A k \in 0 .. PoolOrder : IsInjective(avail[k])

\* The blocks of a well-typed state are addresses with orders.
LEMMA BlocksType ==
  ASSUME TypeOK
  PROVE  Blocks \subseteq Addr \X Orders
BY DEF TypeOK, Blocks, FreeBlocks, InFlight

\* For states of the right type, Layout is the conjunction of three of the
\* named invariants.
LEMMA LayoutIsThree ==
  ASSUME TypeOK
  PROVE  Layout <=> Aligned /\ BlocksDisjoint /\ NoLeak
<1>1. Aligned <=> \A b \in Blocks : AlignedBlock(b)
  <2>1. ASSUME Aligned, NEW b \in Blocks PROVE AlignedBlock(b)
    <3>1. PICK q \in 0 .. NumBlocks : b[1] = BaseAddr + q * Size(b[2])
      BY <2>1 DEF Aligned
    <3>2. q \in Nat
      BY NumBlocksType
    <3> QED
      BY <3>1, <3>2, BlocksType DEF AlignedBlock
  <2>2. ASSUME NEW b \in Blocks, AlignedBlock(b)
        PROVE  \E q \in 0 .. NumBlocks : b[1] = BaseAddr + q * Size(b[2])
    <3>1. PICK q \in Nat : b[1] = BaseAddr + q * Size(b[2])
      BY <2>2 DEF AlignedBlock
    <3> DEFINE s == Size(b[2])
    <3>2. s \in Nat \ {0} /\ b[1] \in Addr
      BY <2>2, BlockFacts
    <3> HIDE DEF s
    <3>3. q * s < NumBlocks
      <4>1. q * s \in Int /\ b[1] = BaseAddr + q * s
        BY <3>1, <3>2 DEF s
      <4> QED
        BY <4>1, <3>2, BaseAssumption, NumBlocksType DEF Addr
    <3>4. q * 1 =< q * s
      BY <3>2
    <3>5. q \in 0 .. NumBlocks
      BY <3>2, <3>3, <3>4, NumBlocksType
    <3> QED
      BY <3>1, <3>5
  <2> QED
    BY <2>1, <2>2 DEF Aligned
<1> QED
  BY <1>1 DEF Layout, Tiling, BlocksDisjoint, NoLeak

\* The two parts of IInv that are about tag bits and headers, together with
\* what the trimming loop of buddy_alloc relies on.
Tags == HeadTagsExact /\ (pc = "trim" => j >= order /\ ~is_available(block))

\* The parts of the inductive invariant that the proofs work with.
LEMMA IInvParts == IInv <=> TypeOK /\ NoBug /\ Layout /\ Tags /\ FullyCoalesced
BY LayoutIsThree DEF IInv, Tags

\* The same parts in the state after a step.
LEMMA IInvPartsPrimed ==
  TypeOK' /\ NoBug' /\ Layout' /\ Tags' /\ FullyCoalesced' => IInv'
BY IInvParts, PTL

\* What the invariant says of one block, wherever it is.
LEMMA InvBlocks ==
  ASSUME TypeOK, Layout
  PROVE  /\ \A b \in Blocks : AlignedBlock(b)
         /\ \A b, c \in Blocks : b[1] = c[1] => b = c
BY SameHead DEF Layout, Tiling

\* FreeBlocks after a step, from the contents of the lists after it.
LEMMA FreeStep ==
  ASSUME NEW N \in SUBSET (Addr \X Orders),
         \A a \in Addr, i \in Orders : a \in ToSet(avail'[i]) <=> <<a, i>> \in N
  PROVE  FreeBlocks' = N
<1>1. FreeBlocks' = {b \in Addr \X Orders : b[1] \in ToSet(avail'[b[2]])}
  BY DEF FreeBlocks, Addr, Orders, NumBlocks, Size
<1>2. ASSUME NEW b \in Addr \X Orders
      PROVE  b[1] \in ToSet(avail'[b[2]]) <=> b \in N
  <2>1. b = <<b[1], b[2]>> /\ b[1] \in Addr /\ b[2] \in Orders
    OBVIOUS
  <2> QED
    BY <2>1, Zenon
<1> QED
  BY <1>1, <1>2

\* Membership in a list avail[i], as membership in FreeBlocks.
LEMMA FreeIff ==
  \A a \in Addr, i \in Orders : a \in ToSet(avail[i]) <=> <<a, i>> \in FreeBlocks
BY DEF FreeBlocks

\* list_add as a step on the set of free blocks.
LEMMA AddToFree ==
  ASSUME TypeOK, Layout, NEW x \in Addr, NEW k \in Orders,
         avail' = [avail EXCEPT ![k] = list_add(@, x)],
         <<x, k>> \notin FreeBlocks
  PROVE  /\ avail' \in [0 .. PoolOrder -> Seq(Addr)]
         /\ FreeBlocks' = FreeBlocks \cup {<<x, k>>}
         /\ \A i \in 0 .. PoolOrder : IsInjective(avail[i])'
<1>1. k \in 0 .. PoolOrder /\ avail \in [0 .. PoolOrder -> Seq(Addr)]
  BY OrdersAssumption DEF Orders, TypeOK
<1>2. x \notin ToSet(avail[k])
  BY DEF FreeBlocks
<1>3. /\ list_add(avail[k], x) \in Seq(Addr)
      /\ ToSet(list_add(avail[k], x)) = ToSet(avail[k]) \cup {x}
      /\ IsInjective(list_add(avail[k], x))
  BY <1>1, <1>2, ListAdd DEF Layout
<1>4. avail'[k] = list_add(avail[k], x) /\ \A i \in 0 .. PoolOrder : i # k => avail'[i] = avail[i]
  BY <1>1
<1>5. avail' \in [0 .. PoolOrder -> Seq(Addr)]
  BY <1>1, <1>3
<1>6. ASSUME NEW a \in Addr, NEW i \in Orders
      PROVE  a \in ToSet(avail'[i]) <=> a \in ToSet(avail[i]) \/ <<a, i>> = <<x, k>>
  <2>1. i \in 0 .. PoolOrder
    BY OrdersAssumption DEF Orders
  <2>2. CASE i = k
    BY <1>3, <1>4, <2>2
  <2>3. CASE i # k
    <3>1. avail'[i] = avail[i]
      BY <1>4, <2>1, <2>3
    <3> QED
      BY <3>1, <2>3
  <2> QED
    BY <2>2, <2>3
<1>7. FreeBlocks' = FreeBlocks \cup {<<x, k>>}
  <2>1. FreeBlocks \cup {<<x, k>>} \in SUBSET (Addr \X Orders)
    BY DEF FreeBlocks
  <2>2. \A a \in Addr, i \in Orders :
          a \in ToSet(avail'[i]) <=> <<a, i>> \in FreeBlocks \cup {<<x, k>>}
    BY <1>6, FreeIff
  <2> QED
    BY <2>1, <2>2, FreeStep
<1>8. ASSUME NEW i \in 0 .. PoolOrder PROVE IsInjective(avail'[i])
  <2>1. CASE i = k
    BY <1>3, <1>4, <2>1
  <2>2. CASE i # k
    BY <1>4, <2>2 DEF Layout
  <2> QED
    BY <2>1, <2>2
<1> QED
  BY <1>5, <1>7, <1>8

\* buddy_alloc's list_del of the first block of a list.
LEMMA TakeFromFree ==
  ASSUME TypeOK, Layout, NEW k \in Orders, avail[k] # << >>,
         avail' = [avail EXCEPT ![k] = Tail(@)]
  PROVE  /\ avail' \in [0 .. PoolOrder -> Seq(Addr)]
         /\ <<Head(avail[k]), k>> \in FreeBlocks
         /\ FreeBlocks' = FreeBlocks \ {<<Head(avail[k]), k>>}
         /\ \A i \in 0 .. PoolOrder : IsInjective(avail[i])'
<1> DEFINE x == Head(avail[k])
<1>1. k \in 0 .. PoolOrder /\ avail \in [0 .. PoolOrder -> Seq(Addr)]
  BY OrdersAssumption DEF Orders, TypeOK
<1>2. IsInjective(avail[k])
  BY <1>1 DEF Layout
<1>3. /\ Tail(avail[k]) \in Seq(Addr)
      /\ ToSet(Tail(avail[k])) = ToSet(avail[k]) \ {x}
      /\ x \in ToSet(avail[k])
      /\ IsInjective(Tail(avail[k]))
  BY <1>1, <1>2, TakeFirst
<1>4. avail'[k] = Tail(avail[k]) /\ \A i \in 0 .. PoolOrder : i # k => avail'[i] = avail[i]
  BY <1>1
<1>5. avail' \in [0 .. PoolOrder -> Seq(Addr)]
  BY <1>1, <1>3
<1>6. x \in Addr
  BY <1>1, <1>3, ToSetElement
<1> HIDE DEF x
<1>7. ASSUME NEW a \in Addr, NEW i \in Orders
      PROVE  a \in ToSet(avail'[i]) <=> a \in ToSet(avail[i]) /\ <<a, i>> # <<x, k>>
  <2>1. i \in 0 .. PoolOrder
    BY OrdersAssumption DEF Orders
  <2>2. CASE i = k
    BY <1>3, <1>4, <2>2
  <2>3. CASE i # k
    <3>1. avail'[i] = avail[i]
      BY <1>4, <2>1, <2>3
    <3> QED
      BY <3>1, <2>3
  <2> QED
    BY <2>2, <2>3
<1>8. FreeBlocks' = FreeBlocks \ {<<x, k>>}
  <2>1. FreeBlocks \ {<<x, k>>} \in SUBSET (Addr \X Orders)
    BY DEF FreeBlocks
  <2>2. \A a \in Addr, i \in Orders :
          a \in ToSet(avail'[i]) <=> <<a, i>> \in FreeBlocks \ {<<x, k>>}
    BY <1>7, FreeIff
  <2> QED
    BY <2>1, <2>2, FreeStep
<1>9. ASSUME NEW i \in 0 .. PoolOrder PROVE IsInjective(avail'[i])
  <2>1. CASE i = k
    BY <1>3, <1>4, <2>1
  <2>2. CASE i # k
    BY <1>4, <2>2 DEF Layout
  <2> QED
    BY <2>1, <2>2
<1>10. <<x, k>> \in FreeBlocks
  BY <1>3, <1>6, FreeIff
<1> QED
  BY <1>5, <1>8, <1>9, <1>10 DEF x

\* buddy_free's list_del: the block leaves the one list it is in, because no
\* other free block starts at its address.
LEMMA DelFromFree ==
  ASSUME TypeOK, Layout, NEW x \in Addr, NEW k \in Orders,
         <<x, k>> \in FreeBlocks, list_del(x)
  PROVE  /\ avail' \in [0 .. PoolOrder -> Seq(Addr)]
         /\ FreeBlocks' = FreeBlocks \ {<<x, k>>}
         /\ \A i \in 0 .. PoolOrder : IsInjective(avail[i])'
<1>1. avail \in [0 .. PoolOrder -> Seq(Addr)] /\ \A i \in 0 .. PoolOrder : IsInjective(avail[i])
  BY DEF TypeOK, Layout
<1>2. avail' = [i \in 0 .. PoolOrder |-> unlink(avail[i], x)]
  BY DEF list_del
<1>3. ASSUME NEW i \in 0 .. PoolOrder
      PROVE  /\ avail'[i] \in Seq(Addr)
             /\ IsInjective(avail'[i])
             /\ \A a : a \in ToSet(avail'[i]) <=> a \in ToSet(avail[i]) /\ a # x
  <2>1. avail[i] \in Seq(Addr) /\ IsInjective(avail[i]) /\ avail'[i] = unlink(avail[i], x)
    BY <1>1, <1>2
  <2>2. /\ unlink(avail[i], x) \in Seq(Addr)
        /\ ToSet(unlink(avail[i], x)) = ToSet(avail[i]) \ {x}
        /\ IsInjective(unlink(avail[i], x))
    BY <2>1, Unlink
  <2> QED
    BY <2>1, <2>2
<1>4. avail' \in [0 .. PoolOrder -> Seq(Addr)]
  BY <1>2, <1>3
<1>5. ASSUME NEW i \in Orders, <<x, i>> \in FreeBlocks PROVE i = k
  <2>1. <<x, i>> \in Blocks /\ <<x, k>> \in Blocks
    BY <1>5 DEF Blocks
  <2> QED
    BY <2>1, InvBlocks
<1>6. ASSUME NEW a \in Addr, NEW i \in Orders
      PROVE  a \in ToSet(avail'[i]) <=> <<a, i>> \in FreeBlocks \ {<<x, k>>}
  <2>1. i \in 0 .. PoolOrder
    BY OrdersAssumption DEF Orders
  <2>2. a \in ToSet(avail'[i]) <=> <<a, i>> \in FreeBlocks /\ a # x
    BY <1>3, <2>1, FreeIff
  <2> QED
    BY <1>5, <2>2
<1>7. FreeBlocks' = FreeBlocks \ {<<x, k>>}
  <2>1. FreeBlocks \ {<<x, k>>} \in SUBSET (Addr \X Orders)
    BY DEF FreeBlocks
  <2> QED
    BY <1>6, <2>1, FreeStep
<1> QED
  BY <1>3, <1>4, <1>7

-----------------------------------------------------------------------------
(* The initial state and each action keep the invariant. *)

\* The block a call works on: that of buddy_alloc while it trims, that of
\* buddy_free while it coalesces, otherwise none.
LEMMA InFlightIs ==
  /\ pc \notin {"trim", "coalesce"} => InFlight = {}
  /\ pc = "trim" => InFlight = {<<block, j>>}
  /\ pc = "coalesce" => InFlight = {<<block, order>>}
BY DEF InFlight

\* The same in the state after a step.
LEMMA InFlightIsPrimed ==
  /\ pc' \notin {"trim", "coalesce"} => InFlight' = {}
  /\ pc' = "trim" => InFlight' = {<<block', j'>>}
  /\ pc' = "coalesce" => InFlight' = {<<block', order'>>}
BY DEF InFlight

\* A step that leaves the lists alone leaves the set of free blocks alone.
LEMMA FreeUnchanged == avail' = avail => FreeBlocks' = FreeBlocks
BY DEF FreeBlocks, Addr, Orders, NumBlocks, Size

\* The layout after a step, from the sets of blocks after it.
LEMMA LayoutStep ==
  ASSUME NEW H, NEW F, NEW W, Tiling(H \cup F \cup W),
         H \cap F = {}, (H \cup F) \cap W = {},
         held' = H, FreeBlocks' = F, InFlight' = W,
         \A i \in 0 .. PoolOrder : IsInjective(avail'[i])
  PROVE  Layout'
<1>1. Blocks' = H \cup F \cup W
  BY DEF Blocks
<1> QED
  BY <1>1 DEF Layout

\* The fixup of buddy_alloc and buddy_free gives an order of the pool.
LEMMA FixupType == \A k \in 0 .. PoolOrder : Fixup(k) \in Orders
BY OrdersAssumption DEF Fixup, Orders

\* What buddy_init sets up satisfies the invariant.
LEMMA InitIInv == Init => IInv
<1> SUFFICES ASSUME Init PROVE IInv
  OBVIOUS
<1> USE DEF Init
<1>1. BaseAddr \in Addr /\ PoolOrder \in Orders
  BY BaseAssumption, NumBlocksType DEF Addr
<1>2. TypeOK
  BY <1>1 DEF TypeOK
<1>3. FreeBlocks = {}
  <2>1. \A i \in Orders : avail[i] = << >>
    BY OrdersAssumption DEF Orders
  <2>2. ASSUME NEW b \in FreeBlocks PROVE FALSE
    <3>1. b[2] \in Orders /\ b[1] \in ToSet(avail[b[2]])
      BY <2>2 DEF FreeBlocks
    <3>2. avail[b[2]] = << >>
      BY <2>1, <3>1
    <3>3. \A x : x \notin ToSet(<< >>)
      BY DEF ToSet
    <3> QED
      BY <3>1, <3>2, <3>3
  <2> QED
    BY <2>2
<1>4. InFlight = {}
  BY InFlightIs
<1>5. Blocks = {<<BaseAddr, PoolOrder>>}
  BY <1>3, <1>4 DEF Blocks
<1>6. AlignedBlock(<<BaseAddr, PoolOrder>>)
  <2>1. 0 * NumBlocks = 0
    BY NumBlocksType
  <2> QED
    BY <2>1, <1>1, BaseAssumption, NumBlocksType DEF AlignedBlock, NumBlocks
<1>7. \A a \in Addr : a \in Span(<<BaseAddr, PoolOrder>>)
  BY DEF Span, Addr, NumBlocks
<1>8. Tiling(Blocks)
  BY <1>5, <1>6, <1>7 DEF Tiling
<1>9. \A i \in 0 .. PoolOrder : IsInjective(avail[i])
  BY DEF IsInjective
<1>10. Layout
  BY <1>3, <1>4, <1>8, <1>9 DEF Layout
<1>11. Tags
  <2>1. block_to_id(BaseAddr) \in 0 .. NumBlocks - 1
    BY BaseAssumption, NumBlocksType DEF block_to_id
  <2>2. ~is_available(BaseAddr)
    BY <2>1 DEF is_available
  <2> QED
    BY <1>3, <2>2 DEF Tags, HeadTagsExact
<1> QED
  BY <1>2, <1>3, <1>10, <1>11, IInvParts DEF NoBug, FullyCoalesced

\* Entering buddy_alloc and returning NULL from it move no block.
LEMMA ScanKeepsIInv ==
  ASSUME IInv, AllocNull \/ \E k \in CallerOrders : BuddyAlloc(k)
  PROVE  IInv'
<1>1. TypeOK /\ NoBug /\ Layout /\ Tags /\ FullyCoalesced
  BY IInvParts
<1>2. /\ pc \in {"idle", "scan"} /\ pc' \in {"idle", "scan"}
      /\ UNCHANGED <<avail, tag_bits, hdr, held, block, j>> /\ order' \in Orders
  BY <1>1, FixupType, CallerAssumption DEF AllocNull, BuddyAlloc, TypeOK
<1>3. FreeBlocks' = FreeBlocks /\ InFlight = {} /\ InFlight' = {}
  BY <1>2, FreeUnchanged, InFlightIs, InFlightIsPrimed
<1>4. TypeOK' /\ NoBug'
  BY <1>1, <1>2 DEF TypeOK, NoBug
<1>5. Layout'
  BY <1>1, <1>2, <1>3, LayoutStep DEF Layout, Blocks
<1>6. Tags'
  BY <1>1, <1>2, <1>3 DEF Tags, HeadTagsExact, is_available
<1>7. FullyCoalesced'
  BY <1>1, <1>3 DEF FullyCoalesced
<1> QED
  BY <1>4, <1>5, <1>6, <1>7, IInvPartsPrimed

\* Each address of the pool has a tag bit of its own.
LEMMA MarkAvailable ==
  ASSUME TypeOK, NEW x \in Addr, mark_available(x)
  PROVE  /\ tag_bits' \in [0 .. NumBlocks - 1 -> BOOLEAN]
         /\ tag_bits'[block_to_id(x)] = TRUE
         /\ \A y \in Addr : y # x => tag_bits'[block_to_id(y)] = tag_bits[block_to_id(y)]
<1>1. \A y \in Addr : block_to_id(y) \in 0 .. NumBlocks - 1
  BY BaseAssumption, NumBlocksType DEF block_to_id, Addr
<1>2. \A y \in Addr : y # x => block_to_id(y) # block_to_id(x)
  BY BaseAssumption, NumBlocksType DEF block_to_id, Addr
<1> QED
  BY <1>1, <1>2 DEF TypeOK, mark_available

\* mark_allocated clears the bit of its block and no other.
LEMMA MarkAllocated ==
  ASSUME TypeOK, NEW x \in Addr, mark_allocated(x)
  PROVE  /\ tag_bits' \in [0 .. NumBlocks - 1 -> BOOLEAN]
         /\ tag_bits'[block_to_id(x)] = FALSE
         /\ \A y \in Addr : y # x => tag_bits'[block_to_id(y)] = tag_bits[block_to_id(y)]
<1>1. \A y \in Addr : block_to_id(y) \in 0 .. NumBlocks - 1
  BY BaseAssumption, NumBlocksType DEF block_to_id, Addr
<1>2. \A y \in Addr : y # x => block_to_id(y) # block_to_id(x)
  BY BaseAssumption, NumBlocksType DEF block_to_id, Addr
<1> QED
  BY <1>1, <1>2 DEF TypeOK, mark_allocated

\* buddy_alloc takes a free block into its hands.
LEMMA TakeKeepsIInv ==
  ASSUME IInv, NEW k \in Orders, AllocTake(k)
  PROVE  IInv'
<1> DEFINE x == Head(avail[k])
           t == <<x, k>>
<1>1. TypeOK /\ NoBug /\ Layout /\ Tags /\ FullyCoalesced
  BY IInvParts
<1>2. /\ avail' \in [0 .. PoolOrder -> Seq(Addr)]
      /\ t \in FreeBlocks
      /\ FreeBlocks' = FreeBlocks \ {t}
      /\ \A i \in 0 .. PoolOrder : IsInjective(avail[i])'
  BY <1>1, TakeFromFree DEF AllocTake
<1>3. x \in Addr
  BY <1>2 DEF FreeBlocks
<1>4. /\ tag_bits' \in [0 .. NumBlocks - 1 -> BOOLEAN]
      /\ tag_bits'[block_to_id(x)] = FALSE
      /\ \A y \in Addr : y # x => tag_bits'[block_to_id(y)] = tag_bits[block_to_id(y)]
  BY <1>1, <1>3, MarkAllocated DEF AllocTake
<1> HIDE DEF x
<1>5. /\ pc = "scan" /\ pc' = "trim" /\ block' = x /\ j' = k /\ k >= order
      /\ UNCHANGED <<hdr, held, order>>
  BY DEF AllocTake, x
<1>6. InFlight = {} /\ InFlight' = {t}
  BY <1>5, InFlightIs, InFlightIsPrimed
<1>7. TypeOK' /\ NoBug'
  BY <1>1, <1>2, <1>3, <1>4, <1>5 DEF TypeOK, NoBug
<1>8. Layout'
  <2>1. held \cup (FreeBlocks \ {t}) \cup {t} = Blocks
    BY <1>2, <1>6 DEF Blocks
  <2>2. Tiling(held \cup (FreeBlocks \ {t}) \cup {t})
    BY <1>1, <2>1 DEF Layout
  <2>3. held \cap (FreeBlocks \ {t}) = {} /\ (held \cup (FreeBlocks \ {t})) \cap {t} = {}
    BY <1>1, <1>2 DEF Layout
  <2> QED
    BY <1>2, <1>5, <1>6, <2>2, <2>3, LayoutStep
<1>9. \A b \in held \cup FreeBlocks' : b[1] \in Addr /\ b[1] # x
  <2>1. SUFFICES ASSUME NEW b \in held \cup (FreeBlocks \ {t}) PROVE b[1] \in Addr /\ b[1] # x
    BY <1>2
  <2>2. b \in Blocks /\ t \in Blocks /\ b # t
    BY <1>1, <1>2 DEF Blocks, Layout
  <2> QED
    BY <1>1, <2>2, InvBlocks, BlockFacts
<1>10. Tags'
  <2>1. ASSUME NEW b \in held \cup FreeBlocks'
        PROVE  tag_bits'[block_to_id(b[1])] <=> b \in FreeBlocks'
    <3>1. b \in held \cup FreeBlocks /\ (b \in FreeBlocks' <=> b \in FreeBlocks)
      BY <1>1, <1>2, <2>1 DEF Layout
    <3>2. tag_bits'[block_to_id(b[1])] = tag_bits[block_to_id(b[1])]
      BY <1>4, <1>9, <2>1
    <3> QED
      BY <1>1, <3>1, <3>2 DEF Tags, HeadTagsExact, is_available
  <2>2. \A b \in FreeBlocks' : hdr'[b[1]] = b[2]
    BY <1>1, <1>2, <1>5 DEF Tags, HeadTagsExact
  <2> QED
    BY <1>4, <1>5, <2>1, <2>2 DEF Tags, HeadTagsExact, is_available, block_to_id
<1>11. FullyCoalesced'
  BY <1>1, <1>2 DEF FullyCoalesced
<1> QED
  BY <1>7, <1>8, <1>10, <1>11, IInvPartsPrimed

\* No block is free twice over, and no free block has its buddy at the start
\* of a block that is not free: what the trimming and inserting steps need to
\* see that a new free block leaves the lists coalesced.
LEMMA CoalescedStep ==
  ASSUME FullyCoalesced, NEW x, NEW k,
         \A b \in FreeBlocks \cup {<<x, k>>} : AlignedBlock(b),
         FreeBlocks' = FreeBlocks \cup {<<x, k>>},
         k < PoolOrder => <<find_buddy(x, k), k>> \notin FreeBlocks
  PROVE  FullyCoalesced'
<1> DEFINE n == <<x, k>>
<1>1. AlignedBlock(n)
  OBVIOUS
<1>2. ASSUME NEW b \in FreeBlocks \cup {n}, b[2] < PoolOrder,
             <<find_buddy(b[1], b[2]), b[2]>> \in FreeBlocks \cup {n}
      PROVE  FALSE
  <2> DEFINE c == <<find_buddy(b[1], b[2]), b[2]>>
  <2>1. AlignedBlock(b) /\ AlignedBlock(c) /\ b = <<b[1], b[2]>>
    BY <1>2, BlockFacts
  <2>2. b[1] = find_buddy(c[1], c[2])
    BY <1>2, <2>1, BuddySymmetric
  <2>3. c # b
    <3>1. PICK pair \in Addr :
             \/ b[1] = pair /\ find_buddy(b[1], b[2]) = pair + Size(b[2])
             \/ b[1] = pair + Size(b[2]) /\ find_buddy(b[1], b[2]) = pair
      BY <1>2, <2>1, BuddyPair
    <3>2. pair \in Int /\ Size(b[2]) \in Nat \ {0}
      BY <2>1, BlockFacts, BaseAssumption, NumBlocksType DEF Addr
    <3> QED
      BY <3>1, <3>2
  <2>4. CASE b = n
    BY <1>2, <2>3, <2>4
  <2>5. CASE c = n
    BY <1>2, <2>1, <2>2, <2>3, <2>5
  <2>6. CASE b # n /\ c # n
    BY <1>2, <2>6 DEF FullyCoalesced
  <2> QED
    BY <2>4, <2>5, <2>6
<1> QED
  BY <1>2 DEF FullyCoalesced

\* One iteration of buddy_alloc's trimming loop splits the block in hand.
LEMMA TrimKeepsIInv ==
  ASSUME IInv, AllocTrim
  PROVE  IInv'
<1> DEFINE k == j - 1
           w == <<block, j>>
           l == <<block, k>>
           x == block + Size(k)
           u == <<x, k>>
<1>1. TypeOK /\ NoBug /\ Layout /\ Tags /\ FullyCoalesced
  BY IInvParts
<1>2. /\ pc = "trim" /\ pc' = "trim" /\ j > order /\ j' = k /\ block' = block
      /\ hdr' = [hdr EXCEPT ![x] = k] /\ mark_available(x)
      /\ avail' = [avail EXCEPT ![k] = list_add(@, x)]
      /\ UNCHANGED <<held, order>>
  BY DEF AllocTrim, upper_half
<1>3. /\ k \in Orders /\ k < PoolOrder /\ k + 1 = j /\ k >= order
      /\ order \in Orders /\ k \in 0 .. PoolOrder
  BY <1>1, <1>2, OrdersAssumption DEF TypeOK, Orders
<1>4. InFlight = {w} /\ w \in Blocks /\ w = <<block, k + 1>>
  BY <1>2, <1>3, InFlightIs DEF Blocks
<1>5. AlignedBlock(w) /\ AlignedBlock(l) /\ AlignedBlock(u)
  BY <1>1, <1>3, <1>4, InvBlocks, HalvesAligned
<1>6. block \in Int /\ Size(k) \in Nat \ {0} /\ Size(j) = 2 * Size(k)
  BY <1>3, <1>5, BlockFacts, SizeDouble, SizeType
<1>7. x \in Addr /\ x # block /\ block \in Addr
  BY <1>5, <1>6, BlockFacts
<1> HIDE DEF k, x
<1>8. Tiling((Blocks \ {w}) \cup {l, u})
  <2>1. Tiling((Blocks \ {<<block, k + 1>>}) \cup {<<block, k>>, <<block + Size(k), k>>})
    BY <1>1, <1>3, <1>4, SplitTiling DEF Layout
  <2> QED
    BY <2>1, <1>4 DEF x
<1>9. ASSUME NEW b \in held \cup FreeBlocks
      PROVE  b[1] \in Addr /\ b[1] # block /\ b[1] # x
  <2>1. b \in Blocks /\ b # w
    BY <1>1, <1>4 DEF Blocks, Layout
  <2>2. AlignedBlock(b) /\ Disjoint(b, w)
    BY <1>1, <1>4, <2>1 DEF Layout, Tiling
  <2>3. b[1] \in Addr /\ b[1] \in Span(b)
    BY <2>2, BlockFacts
  <2>4. b[1] \notin Span(w)
    BY <1>5, <2>2, <2>3, NoSharedUnit
  <2>5. block \in Span(w) /\ x \in Span(w)
    BY <1>6 DEF Span, x
  <2> QED
    BY <2>3, <2>4, <2>5
<1>10. u \notin FreeBlocks /\ u \notin held /\ l \notin FreeBlocks /\ l \notin held /\ l # u
  BY <1>7, <1>9
<1>11. /\ avail' \in [0 .. PoolOrder -> Seq(Addr)]
       /\ FreeBlocks' = FreeBlocks \cup {u}
       /\ \A i \in 0 .. PoolOrder : IsInjective(avail[i])'
  BY <1>1, <1>2, <1>3, <1>7, <1>10, AddToFree
<1>12. InFlight' = {l}
  BY <1>2, InFlightIsPrimed
<1>13. /\ tag_bits' \in [0 .. NumBlocks - 1 -> BOOLEAN]
       /\ tag_bits'[block_to_id(x)] = TRUE
       /\ \A y \in Addr : y # x => tag_bits'[block_to_id(y)] = tag_bits[block_to_id(y)]
  BY <1>1, <1>2, <1>7, MarkAvailable
<1>14. TypeOK' /\ NoBug'
  BY <1>1, <1>2, <1>3, <1>7, <1>11, <1>13 DEF TypeOK, NoBug
<1>15. Layout'
  <2>1. (Blocks \ {w}) \cup {l, u} = held \cup (FreeBlocks \cup {u}) \cup {l}
    BY <1>1, <1>4 DEF Blocks, Layout
  <2>2. Tiling(held \cup (FreeBlocks \cup {u}) \cup {l})
    BY <1>8, <2>1
  <2>3. /\ held \cap (FreeBlocks \cup {u}) = {}
        /\ (held \cup (FreeBlocks \cup {u})) \cap {l} = {}
    BY <1>1, <1>10 DEF Layout
  <2> QED
    BY <1>2, <1>11, <1>12, <2>2, <2>3, LayoutStep
<1>16. Tags'
  <2>1. ASSUME NEW b \in held \cup FreeBlocks'
        PROVE  tag_bits'[block_to_id(b[1])] <=> b \in FreeBlocks'
    <3>1. CASE b = u
      BY <1>11, <1>13, <3>1
    <3>2. CASE b # u
      <4>1. b \in held \cup FreeBlocks /\ (b \in FreeBlocks' <=> b \in FreeBlocks)
        BY <1>11, <2>1, <3>2
      <4>2. tag_bits'[block_to_id(b[1])] = tag_bits[block_to_id(b[1])]
        BY <1>9, <1>13, <4>1
      <4> QED
        BY <1>1, <4>1, <4>2 DEF Tags, HeadTagsExact, is_available
    <3> QED
      BY <3>1, <3>2
  <2>2. ASSUME NEW b \in FreeBlocks' PROVE hdr'[b[1]] = b[2]
    <3>1. CASE b = u
      BY <1>1, <1>2, <1>7, <3>1 DEF TypeOK
    <3>2. CASE b # u
      <4>1. b \in FreeBlocks
        BY <1>11, <2>2, <3>2
      <4> QED
        BY <1>1, <1>2, <1>9, <4>1 DEF TypeOK, Tags, HeadTagsExact
    <3> QED
      BY <3>1, <3>2
  <2>3. ~tag_bits'[block_to_id(block)]
    BY <1>1, <1>2, <1>7, <1>13 DEF Tags, is_available
  <2> QED
    BY <1>2, <1>3, <2>1, <2>2, <2>3 DEF Tags, HeadTagsExact, is_available, block_to_id
<1>17. FullyCoalesced'
  <2>1. \A b \in FreeBlocks \cup {u} : AlignedBlock(b)
    BY <1>1, <1>5, InvBlocks DEF Blocks
  <2>2. find_buddy(x, k) = block
    <3>1. PICK pair \in Addr :
           /\ AlignedBlock(<<pair, k + 1>>)
           /\ \/ block = pair /\ find_buddy(block, k) = pair + Size(k)
              \/ block = pair + Size(k) /\ find_buddy(block, k) = pair
      BY <1>3, <1>5, BuddyPair
    <3>2. pair \in Int
      BY BaseAssumption, NumBlocksType DEF Addr
    <3>3. block \in Span(<<pair, k + 1>>) /\ block \in Span(<<block, k + 1>>)
      BY <1>3, <1>6, <3>1, <3>2 DEF Span
    <3>4. pair =< block /\ block =< pair
      BY <1>3, <1>4, <1>5, <3>1, <3>3, Laminar, OrdersAssumption DEF Orders
    <3>5. find_buddy(block, k) = x
      BY <1>6, <3>1, <3>2, <3>4 DEF x
    <3> QED
      BY <1>3, <1>5, <3>5, BuddySymmetric
  <2> QED
    BY <1>1, <1>10, <1>11, <2>1, <2>2, CoalescedStep
<1> QED
  BY <1>14, <1>15, <1>16, <1>17, IInvPartsPrimed

\* buddy_alloc hands the block to its caller.
LEMMA ReturnKeepsIInv ==
  ASSUME IInv, AllocReturn
  PROVE  IInv'
<1> DEFINE t == <<block, order>>
<1>1. TypeOK /\ NoBug /\ Layout /\ Tags /\ FullyCoalesced
  BY IInvParts
<1>2. /\ pc = "trim" /\ pc' = "idle" /\ j = order /\ held' = held \cup {t}
      /\ UNCHANGED <<avail, tag_bits, hdr, block, order, j>>
  BY DEF AllocReturn
<1>3. FreeBlocks' = FreeBlocks /\ InFlight = {t} /\ InFlight' = {}
  BY <1>2, FreeUnchanged, InFlightIs, InFlightIsPrimed
<1>4. TypeOK' /\ NoBug'
  BY <1>1, <1>2 DEF TypeOK, NoBug
<1>5. Layout'
  <2>1. (held \cup {t}) \cup FreeBlocks \cup {} = Blocks
    BY <1>3 DEF Blocks
  <2>2. Tiling((held \cup {t}) \cup FreeBlocks \cup {})
    BY <1>1, <2>1 DEF Layout
  <2>3. (held \cup {t}) \cap FreeBlocks = {}
    BY <1>1, <1>3 DEF Layout
  <2>4. \A i \in 0 .. PoolOrder : IsInjective(avail'[i])
    BY <1>1, <1>2 DEF Layout
  <2> QED
    BY <1>2, <1>3, <2>2, <2>3, <2>4, LayoutStep
<1>6. Tags'
  <2>1. ASSUME NEW b \in held' \cup FreeBlocks'
        PROVE  tag_bits[block_to_id(b[1])] <=> b \in FreeBlocks
    <3>1. CASE b = t
      BY <1>1, <1>2, <1>3, <3>1 DEF Tags, is_available, Layout
    <3>2. CASE b # t
      BY <1>1, <1>2, <1>3, <2>1, <3>2 DEF Tags, HeadTagsExact, is_available
    <3> QED
      BY <3>1, <3>2
  <2> QED
    BY <1>1, <1>2, <1>3, <2>1 DEF Tags, HeadTagsExact, is_available, block_to_id
<1>7. FullyCoalesced'
  BY <1>1, <1>3 DEF FullyCoalesced
<1> QED
  BY <1>4, <1>5, <1>6, <1>7, IInvPartsPrimed

\* buddy_free takes a block from its caller; its tag bit says allocated, so
\* the BUG_ON does not trigger.
LEMMA FreeKeepsIInv ==
  ASSUME IInv, NEW b \in held, NEW k \in 0 .. PoolOrder, BuddyFree(b, k)
  PROVE  IInv'
<1>1. TypeOK /\ NoBug /\ Layout /\ Tags /\ FullyCoalesced
  BY IInvParts
<1>2. ~is_available(b[1]) /\ b = <<b[1], b[2]>> /\ b[1] \in Addr /\ b[2] \in Orders
  BY <1>1 DEF Tags, HeadTagsExact, Layout, TypeOK
<1>3. /\ pc = "idle" /\ pc' = "coalesce" /\ block' = b[1] /\ order' = b[2]
      /\ held' = held \ {b} /\ UNCHANGED <<avail, tag_bits, hdr, j>>
  BY <1>2 DEF BuddyFree
<1>4. FreeBlocks' = FreeBlocks /\ InFlight = {} /\ InFlight' = {b}
  BY <1>2, <1>3, FreeUnchanged, InFlightIs, InFlightIsPrimed
<1>5. TypeOK' /\ NoBug'
  BY <1>1, <1>2, <1>3 DEF TypeOK, NoBug
<1>6. Layout'
  <2>1. (held \ {b}) \cup FreeBlocks \cup {b} = Blocks
    BY <1>4 DEF Blocks
  <2>2. Tiling((held \ {b}) \cup FreeBlocks \cup {b})
    BY <1>1, <2>1 DEF Layout
  <2>3. (held \ {b}) \cap FreeBlocks = {} /\ ((held \ {b}) \cup FreeBlocks) \cap {b} = {}
    BY <1>1 DEF Layout
  <2>4. \A i \in 0 .. PoolOrder : IsInjective(avail'[i])
    BY <1>1, <1>3 DEF Layout
  <2> QED
    BY <1>3, <1>4, <2>2, <2>3, <2>4, LayoutStep
<1>7. Tags'
  BY <1>1, <1>3, <1>4 DEF Tags, HeadTagsExact, is_available, block_to_id
<1>8. FullyCoalesced'
  BY <1>1, <1>4 DEF FullyCoalesced
<1> QED
  BY <1>5, <1>6, <1>7, <1>8, IInvPartsPrimed

\* A caller's writes stay inside its own block, where no free block has its
\* header.
LEMMA WriteKeepsIInv ==
  ASSUME IInv, NEW b \in held, NEW x \in 0 .. PoolOrder \cup {Scribbled},
         CallerWrites(b, x)
  PROVE  IInv'
<1>1. TypeOK /\ NoBug /\ Layout /\ Tags /\ FullyCoalesced
  BY IInvParts
<1>2. /\ pc = "idle" /\ pc' = "idle"
      /\ hdr' = [a \in Addr |-> IF a \in Span(b) THEN x ELSE hdr[a]]
      /\ UNCHANGED <<avail, tag_bits, held, block, order, j>>
  BY DEF CallerWrites
<1>3. FreeBlocks' = FreeBlocks /\ InFlight = {} /\ InFlight' = {}
  BY <1>2, FreeUnchanged, InFlightIs, InFlightIsPrimed
<1>4. TypeOK' /\ NoBug'
  BY <1>1, <1>2 DEF TypeOK, NoBug
<1>5. Layout'
  BY <1>1, <1>2, <1>3, LayoutStep DEF Layout, Blocks
<1>6. ASSUME NEW c \in FreeBlocks PROVE hdr'[c[1]] = c[2]
  <2>1. b \in Blocks /\ c \in Blocks /\ b # c
    BY <1>1, <1>6 DEF Blocks, Layout
  <2>2. AlignedBlock(b) /\ AlignedBlock(c) /\ Disjoint(b, c)
    BY <1>1, <2>1 DEF Layout, Tiling
  <2>3. c[1] \in Addr /\ c[1] \notin Span(b)
    BY <2>2, BlockFacts, NoSharedUnit
  <2> QED
    BY <1>1, <1>2, <2>3 DEF Tags, HeadTagsExact
<1>7. Tags'
  BY <1>1, <1>2, <1>3, <1>6 DEF Tags, HeadTagsExact, is_available, block_to_id
<1>8. FullyCoalesced'
  BY <1>1, <1>3 DEF FullyCoalesced
<1> QED
  BY <1>4, <1>5, <1>7, <1>8, IInvPartsPrimed

\* The buddy that the coalescing loop finds available, with a header of the
\* right order, is a free block: the tag and the header it reads are those of
\* a block that starts there, never leftovers inside a larger block.
LEMMA MergeFindsFree ==
  ASSUME IInv, pc = "coalesce", order < PoolOrder
  PROVE  /\ find_buddy(block, order) \in Addr
         /\ IsBlockId(find_buddy(block, order))
         /\ CanMerge <=> <<find_buddy(block, order), order>> \in FreeBlocks
<1> DEFINE x == find_buddy(block, order)
           t == <<block, order>>
<1>1. TypeOK /\ NoBug /\ Layout /\ Tags /\ FullyCoalesced
  BY IInvParts
<1>2. InFlight = {t} /\ t \in Blocks
  BY InFlightIs DEF Blocks
<1>3. x \in Addr /\ \E c \in Blocks : c # t /\ c[1] = x
  BY <1>1, <1>2, HeadAtBuddy DEF Layout
<1>4. PICK c \in Blocks : c # t /\ c[1] = x
  BY <1>3
<1> HIDE DEF x
<1>5. c \in held \cup FreeBlocks /\ c = <<x, c[2]>>
  BY <1>1, <1>2, <1>4, InvBlocks, BlockFacts DEF Blocks
<1>6. is_available(x) <=> c \in FreeBlocks
  BY <1>1, <1>4, <1>5 DEF Tags, HeadTagsExact
<1>7. c \in FreeBlocks => hdr[x] = c[2]
  BY <1>1, <1>4 DEF Tags, HeadTagsExact
<1>8. IsBlockId(x)
  BY <1>3, BaseAssumption, NumBlocksType DEF IsBlockId, block_to_id, Addr
<1>9. ASSUME <<x, order>> \in FreeBlocks PROVE c = <<x, order>>
  <2>1. <<x, order>> \in Blocks
    BY <1>9 DEF Blocks
  <2> QED
    BY <1>1, <1>4, <2>1, InvBlocks
<1>10. CanMerge <=> is_available(x) /\ hdr[x] = order
  BY <1>8 DEF CanMerge, x
<1> QED
  BY <1>3, <1>5, <1>6, <1>7, <1>8, <1>9, <1>10 DEF x

\* One iteration of buddy_free's coalescing loop.
LEMMA MergeKeepsIInv ==
  ASSUME IInv, FreeMerge
  PROVE  IInv'
<1> DEFINE k == order
           x == find_buddy(block, order)
           m == IF x < block THEN x ELSE block
           t == <<block, k>>
           f == <<x, k>>
           w == <<m, k + 1>>
<1>1. TypeOK /\ NoBug /\ Layout /\ Tags /\ FullyCoalesced
  BY IInvParts
<1>2. /\ pc = "coalesce" /\ pc' = "coalesce" /\ CanMerge /\ k < PoolOrder
      /\ list_del(x) /\ block' = m /\ order' = k + 1
      /\ hdr' = [hdr EXCEPT ![m] = k + 1]
      /\ UNCHANGED <<tag_bits, held, j>>
  BY DEF FreeMerge, CanMerge
<1>3. x \in Addr /\ f \in FreeBlocks
  BY <1>2, MergeFindsFree
<1>4. InFlight = {t} /\ t \in Blocks /\ f \in Blocks
  BY <1>2, <1>3, InFlightIs DEF Blocks
<1>5. AlignedBlock(t) /\ AlignedBlock(f)
  BY <1>1, <1>4, InvBlocks
<1>6. PICK pair \in Addr :
           /\ AlignedBlock(<<pair, k + 1>>)
           /\ \/ block = pair /\ x = pair + Size(k)
              \/ block = pair + Size(k) /\ x = pair
  BY <1>2, <1>5, BuddyPair
<1>7. k \in Orders /\ k + 1 \in Orders /\ k + 1 \in 0 .. PoolOrder /\ Size(k) \in Nat \ {0}
  BY <1>1, <1>2, SizeType, OrdersAssumption DEF TypeOK, Orders
<1>8. pair \in Int
  BY BaseAssumption, NumBlocksType DEF Addr
<1>9. m = pair /\ m \in Addr /\ (m = block \/ m = x)
  BY <1>6, <1>7, <1>8
<1>10. /\ avail' \in [0 .. PoolOrder -> Seq(Addr)]
       /\ FreeBlocks' = FreeBlocks \ {f}
       /\ \A i \in 0 .. PoolOrder : IsInjective(avail[i])'
  BY <1>1, <1>2, <1>3, <1>7, DelFromFree
<1>11. {t, f} = {<<pair, k>>, <<pair + Size(k), k>>}
  BY <1>6
<1>12. InFlight' = {w}
  BY <1>2, InFlightIsPrimed
<1> HIDE DEF x, m
<1>13. TypeOK' /\ NoBug'
  BY <1>1, <1>2, <1>7, <1>9, <1>10 DEF TypeOK, NoBug
<1>14. ASSUME NEW b \in held \cup (FreeBlocks \ {f}) PROVE b[1] # m
  <2>1. b \in Blocks /\ b # t /\ b # f
    BY <1>1, <1>3, <1>4 DEF Blocks, Layout
  <2>2. b[1] # t[1] /\ b[1] # f[1]
    BY <1>1, <1>4, <2>1, InvBlocks
  <2> QED
    BY <1>9, <2>2
<1>15. Layout'
  <2>1. <<pair, k>> \in Blocks /\ <<pair + Size(k), k>> \in Blocks
    BY <1>4, <1>6
  <2>2. Tiling((Blocks \ {<<pair, k>>, <<pair + Size(k), k>>}) \cup {<<pair, k + 1>>})
    BY <1>1, <1>2, <1>6, <1>7, <2>1, MergeTiling DEF Layout
  <2>3. Tiling((Blocks \ {t, f}) \cup {w})
    BY <1>9, <1>11, <2>2
  <2>4. (Blocks \ {t, f}) \cup {w} = held \cup (FreeBlocks \ {f}) \cup {w}
    BY <1>1, <1>3, <1>4 DEF Blocks, Layout
  <2>5. Tiling(held \cup (FreeBlocks \ {f}) \cup {w})
    BY <2>3, <2>4
  <2>6. held \cap (FreeBlocks \ {f}) = {} /\ (held \cup (FreeBlocks \ {f})) \cap {w} = {}
    BY <1>1, <1>14 DEF Layout
  <2> QED
    BY <1>2, <1>10, <1>12, <2>5, <2>6, LayoutStep
<1>16. Tags'
  <2>1. ASSUME NEW b \in held \cup FreeBlocks'
        PROVE  tag_bits[block_to_id(b[1])] <=> b \in FreeBlocks'
    <3>1. b # f
      BY <1>1, <1>3, <1>10, <2>1 DEF Layout
    <3> QED
      BY <1>1, <1>10, <2>1, <3>1 DEF Tags, HeadTagsExact, is_available
  <2>2. ASSUME NEW b \in FreeBlocks' PROVE hdr'[b[1]] = b[2]
    <3>1. b \in FreeBlocks /\ b[1] # m /\ b[1] \in Addr
      BY <1>10, <1>14, <2>2 DEF FreeBlocks
    <3> QED
      BY <1>1, <1>2, <3>1 DEF TypeOK, Tags, HeadTagsExact
  <2> QED
    BY <1>2, <2>1, <2>2 DEF Tags, HeadTagsExact, is_available, block_to_id
<1>17. FullyCoalesced'
  BY <1>1, <1>10 DEF FullyCoalesced
<1> QED
  BY <1>13, <1>15, <1>16, <1>17, IInvPartsPrimed

\* buddy_free links the coalesced block.
LEMMA InsertKeepsIInv ==
  ASSUME IInv, FreeInsert
  PROVE  IInv'
<1> DEFINE x == block
           k == order
           t == <<x, k>>
<1>1. TypeOK /\ NoBug /\ Layout /\ Tags /\ FullyCoalesced
  BY IInvParts
<1>2. /\ pc = "coalesce" /\ ~CanMerge
      /\ hdr' = [hdr EXCEPT ![x] = k]
      /\ mark_available(x) /\ avail' = [avail EXCEPT ![k] = list_add(@, x)]
      /\ UNCHANGED <<held, block, order, j>>
  BY DEF FreeInsert
<1>3. pc' = "idle"
  BY <1>2, MergeFindsFree DEF FreeInsert
<1>4. x \in Addr /\ k \in Orders /\ k \in 0 .. PoolOrder
  BY <1>1, OrdersAssumption DEF TypeOK, Orders
<1>5. InFlight = {t} /\ InFlight' = {} /\ t \in Blocks
  BY <1>2, <1>3, InFlightIs, InFlightIsPrimed DEF Blocks
<1>6. t \notin FreeBlocks /\ t \notin held
  BY <1>1, <1>5 DEF Layout
<1>7. /\ avail' \in [0 .. PoolOrder -> Seq(Addr)]
      /\ FreeBlocks' = FreeBlocks \cup {t}
      /\ \A i \in 0 .. PoolOrder : IsInjective(avail[i])'
  BY <1>1, <1>2, <1>4, <1>6, AddToFree
<1>8. /\ tag_bits' \in [0 .. NumBlocks - 1 -> BOOLEAN]
      /\ tag_bits'[block_to_id(x)] = TRUE
      /\ \A y \in Addr : y # x => tag_bits'[block_to_id(y)] = tag_bits[block_to_id(y)]
  BY <1>1, <1>2, <1>4, MarkAvailable
<1>9. TypeOK' /\ NoBug'
  BY <1>1, <1>2, <1>3, <1>4, <1>7, <1>8 DEF TypeOK, NoBug
<1>10. Layout'
  <2>1. held \cup (FreeBlocks \cup {t}) \cup {} = Blocks
    BY <1>5 DEF Blocks
  <2>2. Tiling(held \cup (FreeBlocks \cup {t}) \cup {})
    BY <1>1, <2>1 DEF Layout
  <2>3. held \cap (FreeBlocks \cup {t}) = {}
    BY <1>1, <1>6 DEF Layout
  <2> QED
    BY <1>2, <1>5, <1>7, <2>2, <2>3, LayoutStep
<1>11. ASSUME NEW b \in held \cup FreeBlocks PROVE b[1] \in Addr /\ b[1] # x
  <2>1. b \in Blocks /\ b # t
    BY <1>6 DEF Blocks
  <2> QED
    BY <1>1, <1>5, <2>1, InvBlocks, BlockFacts
<1>12. Tags'
  <2>1. ASSUME NEW b \in held \cup FreeBlocks'
        PROVE  tag_bits'[block_to_id(b[1])] <=> b \in FreeBlocks'
    <3>1. CASE b = t
      BY <1>7, <1>8, <3>1
    <3>2. CASE b # t
      <4>1. b \in held \cup FreeBlocks /\ (b \in FreeBlocks' <=> b \in FreeBlocks)
        BY <1>7, <2>1, <3>2
      <4>2. tag_bits'[block_to_id(b[1])] = tag_bits[block_to_id(b[1])]
        BY <1>8, <1>11, <4>1
      <4> QED
        BY <1>1, <4>1, <4>2 DEF Tags, HeadTagsExact, is_available
    <3> QED
      BY <3>1, <3>2
  <2>2. ASSUME NEW b \in FreeBlocks' PROVE hdr'[b[1]] = b[2]
    <3>1. CASE b = t
      BY <1>1, <1>2, <1>4, <3>1 DEF TypeOK
    <3>2. CASE b # t
      <4>1. b \in FreeBlocks
        BY <1>7, <2>2, <3>2
      <4> QED
        BY <1>1, <1>2, <1>11, <4>1 DEF TypeOK, Tags, HeadTagsExact
    <3> QED
      BY <3>1, <3>2
  <2> QED
    BY <1>2, <1>3, <2>1, <2>2 DEF Tags, HeadTagsExact, is_available, block_to_id
<1>13. FullyCoalesced'
  <2>1. \A b \in FreeBlocks \cup {t} : AlignedBlock(b)
    BY <1>1, <1>5, InvBlocks DEF Blocks
  <2>2. k < PoolOrder => <<find_buddy(x, k), k>> \notin FreeBlocks
    BY <1>2, MergeFindsFree
  <2> QED
    BY <1>1, <1>7, <2>1, <2>2, CoalescedStep
<1> QED
  BY <1>9, <1>10, <1>12, <1>13, IInvPartsPrimed

\* A step that changes nothing keeps the invariant.
LEMMA StutterKeepsIInv == IInv /\ UNCHANGED vars => IInv'
<1> SUFFICES ASSUME IInv, UNCHANGED vars PROVE IInv'
  OBVIOUS
<1>1. TypeOK /\ NoBug /\ Layout /\ Tags /\ FullyCoalesced
  BY IInvParts
<1>2. FreeBlocks' = FreeBlocks /\ InFlight' = InFlight
  BY FreeUnchanged DEF vars, InFlight
<1>3. TypeOK' /\ NoBug'
  BY <1>1 DEF TypeOK, NoBug, vars
<1>4. Layout'
  BY <1>1, <1>2, LayoutStep DEF Layout, Blocks, vars
<1>5. Tags' /\ FullyCoalesced'
  BY <1>1, <1>2 DEF Tags, HeadTagsExact, FullyCoalesced, is_available, vars
<1> QED
  BY <1>3, <1>4, <1>5, IInvPartsPrimed

\* Every step of buddy_alloc, buddy_free and their callers keeps the
\* invariant.
LEMMA NextKeepsIInv == IInv /\ [Next]_vars => IInv'
<1> SUFFICES ASSUME IInv, [Next]_vars PROVE IInv'
  OBVIOUS
<1>1. CASE AllocNull \/ \E k \in CallerOrders : BuddyAlloc(k)
  BY <1>1, ScanKeepsIInv
<1>2. CASE \E k \in Orders : AllocTake(k)
  BY <1>2, TakeKeepsIInv
<1>3. CASE AllocTrim
  BY <1>3, TrimKeepsIInv
<1>4. CASE AllocReturn
  BY <1>4, ReturnKeepsIInv
<1>5. CASE \E b \in held, k \in 0 .. PoolOrder : BuddyFree(b, k)
  BY <1>5, FreeKeepsIInv
<1>6. CASE FreeMerge
  BY <1>6, MergeKeepsIInv
<1>7. CASE FreeInsert
  BY <1>7, InsertKeepsIInv
<1>8. CASE \E b \in held, x \in 0 .. PoolOrder \cup {Scribbled} : CallerWrites(b, x)
  BY <1>8, WriteKeepsIInv
<1>9. CASE UNCHANGED vars
  BY <1>9, StutterKeepsIInv
<1> QED
  BY <1>1, <1>2, <1>3, <1>4, <1>5, <1>6, <1>7, <1>8, <1>9 DEF Next

-----------------------------------------------------------------------------
(* The theorems. *)

\* IInv holds in every reachable state of buddy.c's pool, whatever its size,
\* its base and the orders callers ask for.
THEOREM BuddyInvariant == Spec => []IInv
<1>1. Init => IInv
  BY InitIInv
<1>2. IInv /\ [Next]_vars => IInv'
  BY NextKeepsIInv
<1> QED
  BY <1>1, <1>2, PTL DEF Spec

\* The types: every address buddy_alloc and buddy_free compute lies inside
\* the pool.
THEOREM BuddyTypes == Spec => []TypeOK
<1>1. IInv => TypeOK
  BY DEF IInv
<1> QED
  BY <1>1, BuddyInvariant, PTL

\* Callers that free what they hold never trigger a BUG_ON of buddy.c.
THEOREM BuddyNoBug == Spec => []NoBug
<1>1. IInv => NoBug
  BY DEF IInv
<1> QED
  BY <1>1, BuddyInvariant, PTL

\* buddy_alloc never gives out memory that is in use, and nothing is linked
\* twice.
THEOREM BuddyDisjoint == Spec => []BlocksDisjoint
<1>1. IInv => BlocksDisjoint
  BY DEF IInv
<1> QED
  BY <1>1, BuddyInvariant, PTL

\* No unit of the pool is ever lost by a split or a merge.
THEOREM BuddyNoLeak == Spec => []NoLeak
<1>1. IInv => NoLeak
  BY DEF IInv
<1> QED
  BY <1>1, BuddyInvariant, PTL

\* The tag bits and headers buddy_free reads of a block are those of the block.
THEOREM BuddyTags == Spec => []HeadTagsExact
<1>1. IInv => HeadTagsExact
  BY DEF IInv
<1> QED
  BY <1>1, BuddyInvariant, PTL

\* buddy_free leaves no two free buddies unmerged.
THEOREM BuddyCoalesced == Spec => []FullyCoalesced
<1>1. IInv => FullyCoalesced
  BY DEF IInv
<1> QED
  BY <1>1, BuddyInvariant, PTL

-----------------------------------------------------------------------------
(* The buddy allocator implements the block allocator. *)

\* The operators of the two modules are the same.
LEMMA SameOperators ==
  /\ Allocator!Orders = Orders
  /\ \A b, c : Allocator!Disjoint(b, c) <=> Disjoint(b, c)
  /\ \A b : b \in Allocator!Block => AlignedBlock(b)
<1>1. Allocator!Orders = Orders
  BY DEF Allocator!Orders, Orders
<1>2. \A b, c : Allocator!Disjoint(b, c) <=> Disjoint(b, c)
  BY DEF Allocator!Disjoint, Disjoint, Allocator!Size, Size
<1>3. Allocator!Addr = Addr /\ \A k : Allocator!Size(k) = Size(k)
  BY DEF Allocator!Addr, Addr, NumBlocks, Allocator!Size, Size
<1>4. ASSUME NEW b \in Allocator!Block PROVE AlignedBlock(b)
  <2>1. b \in Addr \X Orders /\ \E q \in 0 .. NumBlocks : b[1] = BaseAddr + q * Size(b[2])
    BY <1>1, <1>3 DEF Allocator!Block, NumBlocks
  <2>2. 0 .. NumBlocks \subseteq Nat
    BY NumBlocksType
  <2> QED
    BY <2>1, <2>2 DEF AlignedBlock
<1> QED
  BY <1>1, <1>2, <1>4

\* The argument for a NULL of buddy_alloc: were an aligned block of the order
\* asked for wholly free, the smallest free block inside it would have a free
\* buddy of its size, and buddy_free would have merged the two.
LEMMA NoRoom ==
  ASSUME IInv, pc = "scan", \A i \in order .. PoolOrder : avail[i] = << >>,
         NEW b, AlignedBlock(b), b[2] = order, \A h \in held : Disjoint(b, h)
  PROVE  FALSE
<1>1. TypeOK /\ Layout /\ FullyCoalesced
  BY IInvParts
<1>2. Tiling(Blocks) /\ Blocks = held \cup FreeBlocks
  BY <1>1, InFlightIs DEF Layout, Blocks
<1>3. ASSUME NEW f \in FreeBlocks PROVE f[2] \in Orders /\ f[2] < order
  <2>1. f[2] \in Orders /\ f[1] \in ToSet(avail[f[2]])
    BY DEF FreeBlocks
  <2>2. avail[f[2]] # << >>
    BY <2>1 DEF ToSet
  <2> QED
    BY <2>1, <2>2, <1>1, OrdersAssumption DEF TypeOK, Orders
<1> DEFINE inside == {f \in FreeBlocks : \E x : x \in Span(f) /\ x \in Span(b)}
<1>4. ASSUME NEW c \in Blocks, NEW x, x \in Span(c), x \in Span(b)
      PROVE  c \in inside
  <2>1. AlignedBlock(c)
    BY <1>2 DEF Tiling
  <2>2. ~Disjoint(b, c)
    BY <1>4, <2>1, NoSharedUnit
  <2> QED
    BY <1>2, <1>4, <2>2
<1>5. inside # {}
  <2>1. b[1] \in Addr /\ b[1] \in Span(b)
    BY BlockFacts
  <2>2. PICK c \in Blocks : b[1] \in Span(c)
    BY <1>2, <2>1 DEF Tiling
  <2> QED
    BY <1>4, <2>1, <2>2
<1>6. PICK f \in inside : \A g \in inside : f[2] =< g[2]
  <2> DEFINE S == {g[2] : g \in inside}
  <2>1. S \subseteq Nat /\ S # {}
    BY <1>3, <1>5, OrdersAssumption DEF Orders
  <2>2. PICK m \in S : \A n \in S : m =< n
    BY <2>1, LeastNatural
  <2> QED
    BY <2>2
<1>7. f \in FreeBlocks /\ f \in Blocks /\ AlignedBlock(f) /\ f[2] < order
  BY <1>2, <1>3 DEF Tiling
<1> DEFINE k == f[2]
<1>8. k < PoolOrder /\ k \in Orders /\ k + 1 \in Orders /\ k + 1 =< b[2]
  <2>1. f[2] \in Orders /\ f[2] < order /\ order \in Orders /\ b[2] = order
    BY <1>1, <1>3, <1>7 DEF TypeOK
  <2> QED
    BY <2>1, OrdersAssumption DEF Orders
<1> HIDE DEF inside
<1>9. PICK c \in Blocks : c # f /\ c[1] = find_buddy(f[1], f[2]) /\ c[2] =< f[2]
  BY <1>2, <1>7, <1>8, HeadAtBuddy
<1>10. AlignedBlock(c) /\ c[1] \in Span(c)
  BY <1>2, BlockFacts DEF Tiling
<1>11. c[1] \in Span(b)
  <2>1. PICK pair \in Addr :
           /\ AlignedBlock(<<pair, k + 1>>)
           /\ \/ f[1] = pair /\ c[1] = pair + Size(k)
              \/ f[1] = pair + Size(k) /\ c[1] = pair
    BY <1>7, <1>8, <1>9, BuddyPair
  <2>2. PICK x : x \in Span(f) /\ x \in Span(b)
    BY DEF inside
  <2>3. Size(k) \in Nat \ {0} /\ Size(k + 1) = 2 * Size(k) /\ pair \in Int
    BY <1>8, SizeType, SizeDouble, BaseAssumption, NumBlocksType DEF Addr
  <2>4. x \in Span(<<pair, k + 1>>) /\ c[1] \in Span(<<pair, k + 1>>)
    BY <2>1, <2>2, <2>3 DEF Span
  <2>5. b[1] =< pair /\ pair + Size(k + 1) =< b[1] + Size(b[2])
    BY <1>8, <2>1, <2>2, <2>4, Laminar
  <2>6. b[1] \in Int /\ Size(b[2]) \in Nat
    BY BlockFacts
  <2> QED
    BY <2>1, <2>3, <2>5, <2>6 DEF Span
<1>12. c \in inside
  BY <1>4, <1>10, <1>11
<1>13. c[2] = f[2] /\ c = <<c[1], c[2]>>
  BY <1>6, <1>9, <1>7, <1>10, <1>12, BlockFacts
<1> QED
  BY <1>1, <1>7, <1>8, <1>9, <1>12, <1>13 DEF FullyCoalesced, inside

\* The block that buddy_alloc returns is aligned and overlaps nothing that a
\* caller holds.
LEMMA ReturnGrants ==
  ASSUME IInv, AllocReturn
  PROVE  Allocator!Grant
<1> DEFINE t == <<block, order>>
<1>1. TypeOK /\ Layout /\ Aligned
  BY IInvParts DEF IInv
<1>2. t \in Blocks /\ t \notin held
  BY <1>1, InFlightIs DEF AllocReturn, Blocks, Layout
<1>3. t \in Allocator!Block
  <2>1. t \in Addr \X Orders
    BY <1>1 DEF TypeOK
  <2>2. PICK q \in 0 .. NumBlocks : t[1] = BaseAddr + q * Size(t[2])
    BY <1>1, <1>2 DEF Aligned
  <2> QED
    BY <2>1, <2>2 DEF Allocator!Block, Allocator!Addr, Allocator!Orders, Allocator!Size,
                      Addr, Orders, NumBlocks, Size
<1>4. Allocator!Fits(t)
  <2>1. \A h \in held : Disjoint(t, h)
    BY <1>1, <1>2 DEF Layout, Tiling, Blocks
  <2> QED
    BY <2>1, SameOperators DEF Allocator!Fits
<1> QED
  BY <1>3, <1>4 DEF AllocReturn, Allocator!Grant

\* Each step of buddy.c and its callers is a step of the block allocator, or
\* one that its users cannot see.
LEMMA StepRefines == IInv /\ [Next]_vars => [Allocator!Next]_(Allocator!vars)
<1> SUFFICES ASSUME IInv, [Next]_vars PROVE [Allocator!Next]_(Allocator!vars)
  OBVIOUS
<1> USE DEF Allocator!vars
<1>1. CASE \E k \in CallerOrders : BuddyAlloc(k)
  <2>1. PICK k \in CallerOrders : BuddyAlloc(k)
    BY <1>1
  <2>2. Fixup(k) \in Allocator!Orders
    BY CallerAssumption, FixupType, SameOperators
  <2>3. Allocator!Request(Fixup(k))
    BY <2>1 DEF BuddyAlloc, Allocator!Request
  <2> QED
    BY <2>2, <2>3 DEF Allocator!Next
<1>2. CASE \/ \E k \in Orders : AllocTake(k)
           \/ AllocTrim \/ FreeMerge \/ FreeInsert
           \/ \E b \in held, x \in 0 .. PoolOrder \cup {Scribbled} : CallerWrites(b, x)
           \/ UNCHANGED vars
  BY <1>2 DEF AllocTake, AllocTrim, FreeMerge, FreeInsert, CallerWrites, vars
<1>3. CASE AllocNull
  <2>1. order # NoRequest /\ pc = "scan" /\ pc' = "idle" /\ held' = held
    BY <1>3, NoRequestAssumption DEF AllocNull, IInv, TypeOK, Orders
  <2>2. ASSUME NEW b \in Allocator!Block, b[2] = order, Allocator!Fits(b) PROVE FALSE
    <3>1. AlignedBlock(b) /\ \A h \in held : Disjoint(b, h)
      BY <2>2, SameOperators DEF Allocator!Fits
    <3> QED
      BY <1>3, <2>2, <3>1, NoRoom DEF AllocNull
  <2>3. Allocator!Refuse
    BY <2>1, <2>2 DEF Allocator!Refuse
  <2> QED
    BY <2>3 DEF Allocator!Next
<1>4. CASE AllocReturn
  BY <1>4, ReturnGrants DEF Allocator!Next
<1>5. CASE \E b \in held, k \in 0 .. PoolOrder : BuddyFree(b, k)
  <2>1. PICK b \in held, k \in 0 .. PoolOrder : BuddyFree(b, k)
    BY <1>5
  <2>2. Allocator!Release(b)
    BY <2>1 DEF BuddyFree, Allocator!Release
  <2> QED
    BY <2>2 DEF Allocator!Next
<1> QED
  BY <1>1, <1>2, <1>3, <1>4, <1>5 DEF Next

\* buddy_alloc and buddy_free implement a block allocator: they grant only
\* aligned blocks that overlap nothing held, they return NULL only when no
\* aligned block of the size asked for is wholly free, and nothing else
\* changes what callers hold.
THEOREM BuddyRefines ==
  Spec => Allocator!Init /\ [][Allocator!Next]_(Allocator!vars)
<1>1. Init => Allocator!Init
  BY DEF Init, Allocator!Init
<1>2. IInv /\ [Next]_vars => [Allocator!Next]_(Allocator!vars)
  BY StepRefines
<1> QED
  BY <1>1, <1>2, BuddyInvariant, PTL DEF Spec
=============================================================================
