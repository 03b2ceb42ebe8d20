-------------------------- MODULE MemOfflineProofs ---------------------------
(***************************************************************************)
(* Theorems about the pool list and about the control utility that gives   *)
(* it memory: pools partition what was added and take back what they gave; *)
(* the utility finds only blocks that are removable, gives up only if      *)
(* there are none, and adds only memory that Linux no longer uses and      *)
(* petmem does not have yet.                                               *)
(***************************************************************************)
EXTENDS MemOffline, SequenceTheorems, WellFoundedInduction, TLAPS

\* The order of the naturals, as the relation that WFMin is about.
LEMMA LessThanRelation ==
  OpToRel(<, Nat) = {ss \in Nat \X Nat : ss[1] < ss[2]}
BY Zenon DEF OpToRel

\* Every set of naturals that is not empty has a least element.
LEMMA LeastNatural ==
  ASSUME NEW S \in SUBSET Nat, S # {}
  PROVE  \E x \in S : \A y \in S : x =< y
<1> DEFINE R == OpToRel(<, Nat)
<1>1. R = {ss \in Nat \X Nat : ss[1] < ss[2]}
  BY LessThanRelation, Zenon
<1>2. IsWellFoundedOn(R, Nat)
  BY NatLessThanWellFounded
<1> HIDE DEF R
<1>3. PICK x \in S : \A y \in S : ~(<<y, x>> \in R)
  BY <1>2, WFMin
<1>4. ASSUME NEW y \in S, y < x
      PROVE  FALSE
  <2>1. <<y, x>> \in Nat \X Nat /\ <<y, x>>[1] < <<y, x>>[2]
    BY <1>4
  <2>2. <<y, x>> \in R
    BY <1>1, <2>1, Zenon
  <2> QED
    BY <1>3, <2>2
<1> QED
  BY <1>4

\* What Min chooses: the first pool in the list, and the order of a size, are found by it.
LEMMA MinOfNaturals ==
  ASSUME NEW S \in SUBSET Nat, S # {}
  PROVE  Min(S) \in S /\ \A y \in S : Min(S) =< y
BY LeastNatural DEF Min

-----------------------------------------------------------------------------
(* The decomposition into powers of two. *)

\* The order of the pool that ADD_MEMORY cuts off n pages.
LEMMA Order ==
  ASSUME NEW n \in 1 .. U32_PAGES - 1
  PROVE  /\ fls(n) - 1 \in Nat /\ fls(n) \in 1 .. n
         /\ 2^(fls(n) - 1) \in 1 .. n
<1> DEFINE S == {k \in 0 .. n : 2^k > n}
<1>1. n \in Nat /\ n \in 0 .. U32_PAGES - 1 /\ U32_PAGES \in Nat
  BY IntAssumption
<1>2. S \in SUBSET Nat /\ n \in S
  BY <1>1, PowersOfTwo
<1>3. Min(S) \in S /\ \A y \in S : Min(S) =< y
  <2> HIDE DEF S
  <2> QED
    BY <1>2, MinOfNaturals
<1>4. fls(n) = Min(S)
  BY DEF fls
<1>5. fls(n) \in 0 .. n /\ 2^fls(n) > n
  BY <1>3, <1>4
<1>6. fls(n) # 0
  <2>1. SUFFICES ASSUME fls(n) = 0 PROVE FALSE
    OBVIOUS
  <2>2. 1 > n
    BY <1>5, <2>1, PowersOfTwo, Zenon
  <2> QED
    BY <1>1, <2>2
<1>7. fls(n) - 1 \in 0 .. n /\ fls(n) - 1 \in 0 .. U32_PAGES - 1 /\ fls(n) - 1 < fls(n)
  BY <1>1, <1>5, <1>6
<1>8. ~(2^(fls(n) - 1) > n)
  <2>1. fls(n) - 1 \notin S
    BY <1>3, <1>4, <1>5, <1>7
  <2> QED
    BY <1>7, <2>1
<1>9. 2^(fls(n) - 1) \in Nat /\ 2^(fls(n) - 1) > fls(n) - 1
  BY <1>7, PowersOfTwo
<1> QED
  BY <1>1, <1>5, <1>6, <1>7, <1>8, <1>9

-----------------------------------------------------------------------------
(* The invariant of the pool list. *)

Pool == [base : Nat, order : 0 .. U32_PAGES - 1, free : SUBSET Nat]

\* The pages of all pools.
Pooled == UNION {pages_of(pools[i]) : i \in DOMAIN pools}

Apart == \A i, m \in DOMAIN pools : i # m => pages_of(pools[i]) \cap pages_of(pools[m]) = {}

\* What the types and PoolsTile need to be inductive: callers hold only pages
\* of pools.
PoolInv ==
  /\ pools \in Seq(Pool)
  /\ \A i \in DOMAIN pools : pools[i].free \subseteq pages_of(pools[i])
  /\ adding \in [base : Nat, num_pages : 0 .. U32_PAGES - 1]
  /\ added \subseteq Ranges
  /\ Apart
  /\ Pooled = Added \ Remaining
  /\ Remaining \subseteq Added
  /\ held \subseteq Pooled

\* Ranges of less than the int's sign bit: no pool has that order.
BelowSign == \A r \in Ranges : \A n \in 1 .. r[2] : fls(n) =< INT_ORDER

\* What PagesAccounted needs: every pool is one whose addresses
\* petmem_free_pages recognises.
HeldInv ==
  /\ PagesAccounted
  /\ \A i \in DOMAIN pools : pools[i].order < INT_ORDER
  /\ adding.num_pages # 0 => \E r \in Ranges : adding.num_pages =< r[2]

\* The fields and the pages of a pool.
LEMMA PoolFields ==
  ASSUME NEW p \in Pool
  PROVE  /\ p.base \in Nat /\ p.order \in Nat /\ p.free \subseteq Nat
         /\ 2^p.order \in Nat /\ pages_of(p) \subseteq Nat
         /\ \A x : x \in pages_of(p) <=> x \in Nat /\ p.base =< x /\ x < p.base + 2^p.order
<1>1. p.base \in Nat /\ p.order \in 0 .. U32_PAGES - 1 /\ p.free \subseteq Nat
  BY DEF Pool
<1>2. p.order \in Nat
  BY <1>1, IntAssumption
<1>3. 2^p.order \in Nat
  BY <1>1, PowersOfTwo
<1> DEFINE z == 2^p.order
<1>4. pages_of(p) = p.base .. p.base + z - 1
  BY DEF pages_of
<1>5. z \in Nat /\ (z = 2^p.order)
  BY <1>3
<1> HIDE DEF z
<1>6. \A x : x \in pages_of(p) <=> x \in Nat /\ p.base =< x /\ x < p.base + z
  BY <1>1, <1>4, <1>5
<1> QED
  BY <1>1, <1>2, <1>3, <1>5, <1>6

\* Pages are numbers.
LEMMA PooledNat ==
  ASSUME PoolInv
  PROVE  Pooled \subseteq Nat
<1>1. \A i \in DOMAIN pools : pools[i] \in Pool
  BY DEF PoolInv
<1>2. \A i \in DOMAIN pools : pages_of(pools[i]) \subseteq Nat
  BY <1>1, PoolFields
<1> QED
  BY <1>2, Zenon DEF Pooled

\* A new set of free pages is all that allocation and free change in a pool.
LEMMA PoolWithFree ==
  ASSUME NEW p \in Pool, NEW f \in SUBSET Nat
  PROVE  /\ [p EXCEPT !.free = f] \in Pool
         /\ [p EXCEPT !.free = f].free = f
         /\ [p EXCEPT !.free = f].order = p.order
         /\ pages_of([p EXCEPT !.free = f]) = pages_of(p)
<1>1. /\ [p EXCEPT !.free = f] \in Pool /\ [p EXCEPT !.free = f].free = f
      /\ [p EXCEPT !.free = f].order = p.order /\ [p EXCEPT !.free = f].base = p.base
  BY DEF Pool
<1> QED
  BY <1>1, Zenon DEF pages_of

\* Such a change in the list.
LEMMA PoolsWithFree ==
  ASSUME pools \in Seq(Pool), NEW i \in DOMAIN pools, NEW f \in SUBSET Nat,
         pools' = [pools EXCEPT ![i].free = f]
  PROVE  /\ pools' \in Seq(Pool) /\ DOMAIN pools' = DOMAIN pools
         /\ pools'[i].free = f
         /\ \A m \in DOMAIN pools : m # i => pools'[m] = pools[m]
         /\ \A m \in DOMAIN pools : /\ pages_of(pools'[m]) = pages_of(pools[m])
                                    /\ pools'[m].order = pools[m].order
<1>1. pools[i] \in Pool /\ DOMAIN pools = 1 .. Len(pools) /\ Len(pools) \in Nat
  OBVIOUS
<1> DEFINE p == [pools[i] EXCEPT !.free = f]
<1>2. pools' = [pools EXCEPT ![i] = p]
  OBVIOUS
<1>3. /\ p \in Pool /\ p.free = f /\ p.order = pools[i].order
      /\ pages_of(p) = pages_of(pools[i])
  BY <1>1, PoolWithFree
<1> HIDE DEF p
<1>4. pools' \in Seq(Pool) /\ DOMAIN pools' = DOMAIN pools
  BY <1>1, <1>2, <1>3
<1>5. pools'[i] = p /\ \A m \in DOMAIN pools : m # i => pools'[m] = pools[m]
  BY <1>2
<1> QED
  BY <1>3, <1>4, <1>5

\* The pages of all pools, from those of each.
LEMMA SamePooled ==
  ASSUME DOMAIN pools' = DOMAIN pools,
         \A m \in DOMAIN pools : pages_of(pools'[m]) = pages_of(pools[m])
  PROVE  Pooled' = Pooled
<1> DEFINE before == {pages_of(pools[m]) : m \in DOMAIN pools}
           after == {pages_of(pools'[m]) : m \in DOMAIN pools'}
<1>1. \A s : s \in after <=> s \in before
  BY Zenon
<1> HIDE DEF before, after
<1>2. after = before
  BY <1>1, Zenon
<1>3. Pooled = UNION before /\ Pooled' = UNION after
  BY Zenon DEF Pooled, before, after
<1> QED
  BY <1>2, <1>3, Zenon

\* petmem_alloc_pages and petmem_free_pages change no pool's pages.
LEMMA SamePages ==
  ASSUME PoolInv, NEW i \in DOMAIN pools, NEW f \in SUBSET Nat, f \subseteq pages_of(pools[i]),
         pools' = [pools EXCEPT ![i].free = f], UNCHANGED <<adding, added>>,
         held' \subseteq Pooled
  PROVE  PoolInv' /\ Pooled' = Pooled
<1>1. /\ pools' \in Seq(Pool) /\ DOMAIN pools' = DOMAIN pools /\ pools'[i].free = f
      /\ \A m \in DOMAIN pools : m # i => pools'[m] = pools[m]
      /\ \A m \in DOMAIN pools : pages_of(pools'[m]) = pages_of(pools[m])
  <2>1. pools \in Seq(Pool)
    BY DEF PoolInv
  <2> QED
    BY <2>1, PoolsWithFree, Zenon
<1>2. Pooled' = Pooled
  BY <1>1, SamePooled, Zenon
<1>3. Apart'
  <2>1. \A m, n \in DOMAIN pools : m # n => pages_of(pools[m]) \cap pages_of(pools[n]) = {}
    BY Zenon DEF PoolInv, Apart
  <2>2. ASSUME NEW m \in DOMAIN pools, NEW n \in DOMAIN pools, m # n
        PROVE  pages_of(pools'[m]) \cap pages_of(pools'[n]) = {}
    <3>1. /\ pages_of(pools'[m]) = pages_of(pools[m])
          /\ pages_of(pools'[n]) = pages_of(pools[n])
      BY <1>1, Zenon
    <3> QED
      BY <2>1, <2>2, <3>1, Zenon
  <2>3. DOMAIN pools' = DOMAIN pools
    BY <1>1, Zenon
  <2> QED
    BY <2>2, <2>3, Zenon DEF Apart
<1>4. \A m \in DOMAIN pools' : pools'[m].free \subseteq pages_of(pools'[m])
  BY <1>1 DEF PoolInv
<1>5. Added' = Added /\ Remaining' = Remaining
  BY DEF Added, Remaining
<1> QED
  BY <1>1, <1>2, <1>3, <1>4, <1>5 DEF PoolInv

\* Remaining, as what is left of a range.
LEMMA RemainingPages ==
  ASSUME NEW b \in Nat, NEW n \in Nat
  PROVE  /\ b .. b + n - 1 \subseteq Nat
         /\ n = 0 => b .. b + n - 1 = {}
         /\ \A x : x \in b .. b + n - 1 <=> x \in Nat /\ b =< x /\ x < b + n
OBVIOUS

\* ADD_MEMORY is entered with new memory.
LEMMA AddMemoryKeeps ==
  ASSUME PoolInv, NEW r \in Ranges, range_pages(r) \cap Added = {}, AddMemory(r)
  PROVE  PoolInv' /\ Pooled' = Pooled
<1>1. /\ r[1] \in Nat /\ r[2] \in 0 .. U32_PAGES - 1 /\ r[2] \in Nat
      /\ r[2] % U32_PAGES = r[2]
  BY RangesAssumption, IntAssumption
<1>2. /\ adding' = [base |-> r[1], num_pages |-> r[2]] /\ added' = added \cup {r}
      /\ pools' = pools /\ adding.num_pages = 0 /\ held' = held
  BY <1>1 DEF AddMemory
<1>3. Remaining = {}
  BY <1>2 DEF Remaining, PoolInv
<1>4. Remaining' = range_pages(r)
  BY <1>2 DEF Remaining, range_pages
<1>5. Added' = Added \cup range_pages(r)
  BY <1>2 DEF Added
<1>6. Pooled' = Pooled /\ Apart'
  BY <1>2 DEF Pooled, Apart, PoolInv
<1>7. /\ Pooled' = Added' \ Remaining'
      /\ Remaining' \subseteq Added'
  BY <1>2, <1>3, <1>4, <1>5, <1>6 DEF PoolInv
<1>8. adding' \in [base : Nat, num_pages : 0 .. U32_PAGES - 1] /\ added' \subseteq Ranges
  BY <1>1, <1>2 DEF PoolInv
<1> QED
  BY <1>2, <1>6, <1>7, <1>8 DEF PoolInv

\* What AddPool makes of the list and of the range.
LEMMA NewPool ==
  ASSUME PoolInv, AddPool
  PROVE  \E q \in Pool :
           /\ pools' = <<q>> \o pools
           /\ q.free = pages_of(q) /\ q.order = fls(adding.num_pages) - 1
           /\ adding.num_pages \in 1 .. U32_PAGES - 1
           /\ adding' \in [base : Nat, num_pages : 0 .. U32_PAGES - 1]
           /\ adding'.num_pages =< adding.num_pages
           /\ Remaining = pages_of(q) \cup Remaining'
           /\ pages_of(q) \cap Remaining' = {}
<1> DEFINE k == fls(adding.num_pages) - 1
           z == 2^k
           q == [base |-> adding.base, order |-> k, free |-> adding.base .. adding.base + z - 1]
<1>1. /\ adding.num_pages # 0 /\ pools' = <<q>> \o pools
      /\ adding' = [base |-> adding.base + z, num_pages |-> adding.num_pages - z]
  BY DEF AddPool, advance
<1>2. /\ adding.base \in Nat /\ adding.num_pages \in 1 .. U32_PAGES - 1
      /\ adding.num_pages \in Nat /\ U32_PAGES \in Nat
  BY <1>1, IntAssumption DEF PoolInv
<1>3. k \in Nat /\ k + 1 \in 1 .. adding.num_pages /\ z \in 1 .. adding.num_pages
  BY <1>2, Order
<1>4. pages_of(q) = adding.base .. adding.base + z - 1
  BY DEF pages_of
<1>5. q.free = pages_of(q) /\ q.order = k
  BY <1>4
<1> HIDE DEF z, k
<1>6. q \in Pool
  BY <1>2, <1>3 DEF Pool
<1>7. /\ adding'.base = adding.base + z /\ adding'.num_pages = adding.num_pages - z
      /\ adding' \in [base : Nat, num_pages : 0 .. U32_PAGES - 1]
      /\ adding'.num_pages =< adding.num_pages
  <2>1. adding'.base = adding.base + z /\ adding'.num_pages = adding.num_pages - z
    BY <1>1
  <2>2. /\ adding.base + z \in Nat /\ adding.num_pages - z \in 0 .. U32_PAGES - 1
        /\ adding.num_pages - z =< adding.num_pages
    BY <1>2, <1>3
  <2> QED
    BY <1>1, <2>1, <2>2
<1>8. Remaining' = adding.base + z .. (adding.base + z) + (adding.num_pages - z) - 1
  BY <1>7 DEF Remaining
<1>9. Remaining = pages_of(q) \cup Remaining' /\ pages_of(q) \cap Remaining' = {}
  <2> DEFINE b == adding.base
             n == adding.num_pages
  <2>1. b \in Nat /\ n \in Nat /\ z \in Nat /\ z =< n
    BY <1>2, <1>3
  <2>2. Remaining = b .. b + n - 1
    BY DEF Remaining
  <2> HIDE DEF b, n
  <2>3. \A x : x \in Remaining <=> x \in Nat /\ b =< x /\ x < b + n
    BY <2>1, <2>2
  <2>4. \A x : x \in pages_of(q) <=> x \in Nat /\ b =< x /\ x < b + z
    BY <1>4, <2>1 DEF b
  <2>5. \A x : x \in Remaining' <=> x \in Nat /\ b + z =< x /\ x < b + n
    BY <1>8, <2>1 DEF b, n
  <2> HIDE DEF q
  <2>6. \A x : x \in Remaining <=> x \in pages_of(q) \/ x \in Remaining'
    BY <2>1, <2>3, <2>4, <2>5
  <2>7. \A x : ~(x \in pages_of(q) /\ x \in Remaining')
    BY <2>1, <2>4, <2>5
  <2> QED
    BY <2>6, <2>7, Zenon
<1> HIDE DEF q
<1> QED
  BY <1>1, <1>2, <1>5, <1>6, <1>7, <1>9 DEF k

\* A pool in front of the list.
LEMMA Prepended ==
  ASSUME NEW s \in Seq(Pool), NEW q \in Pool
  PROVE  /\ <<q>> \o s \in Seq(Pool)
         /\ DOMAIN s = 1 .. Len(s) /\ Len(s) \in Nat
         /\ DOMAIN (<<q>> \o s) = 1 .. Len(s) + 1
         /\ (<<q>> \o s)[1] = q
         /\ \A i \in 2 .. Len(s) + 1 : i - 1 \in 1 .. Len(s) /\ (<<q>> \o s)[i] = s[i - 1]
         /\ \A i \in 1 .. Len(s) : i + 1 \in 2 .. Len(s) + 1 /\ (<<q>> \o s)[i + 1] = s[i]
OBVIOUS

\* One turn of ADD_MEMORY's loop.
LEMMA AddPoolKeeps ==
  ASSUME PoolInv, AddPool
  PROVE  PoolInv'
<1>1. PICK q \in Pool :
        /\ pools' = <<q>> \o pools /\ q.free = pages_of(q)
        /\ adding' \in [base : Nat, num_pages : 0 .. U32_PAGES - 1]
        /\ Remaining = pages_of(q) \cup Remaining'
        /\ pages_of(q) \cap Remaining' = {}
  BY NewPool
<1>2. added' = added /\ Added' = Added /\ held' = held
  BY DEF AddPool, Added
<1>3. pools \in Seq(Pool)
  BY DEF PoolInv
<1>4. /\ pools' \in Seq(Pool) /\ DOMAIN pools = 1 .. Len(pools) /\ Len(pools) \in Nat
      /\ DOMAIN pools' = 1 .. Len(pools) + 1 /\ pools'[1] = q
      /\ \A i \in 2 .. Len(pools) + 1 : i - 1 \in DOMAIN pools /\ pools'[i] = pools[i - 1]
      /\ \A i \in DOMAIN pools : i + 1 \in DOMAIN pools' /\ pools'[i + 1] = pools[i]
  BY <1>1, <1>3, Prepended
<1>5. \A i \in DOMAIN pools' : i = 1 \/ i \in 2 .. Len(pools) + 1
  BY <1>4
<1>6. 1 \in DOMAIN pools'
  BY <1>4
<1>7. Pooled' = Pooled \cup pages_of(q)
  <2>1. Pooled' = UNION {pages_of(pools'[i]) : i \in DOMAIN pools'}
    BY DEF Pooled
  <2>2. ASSUME NEW i \in DOMAIN pools' PROVE pages_of(pools'[i]) \subseteq Pooled \cup pages_of(q)
    <3>1. CASE i = 1
      BY <1>4, <3>1
    <3>2. CASE i \in 2 .. Len(pools) + 1
      <4>1. i - 1 \in DOMAIN pools /\ pools'[i] = pools[i - 1]
        BY <1>4, <3>2
      <4>2. pages_of(pools[i - 1]) \subseteq Pooled
        BY <4>1, Zenon DEF Pooled
      <4> QED
        BY <4>1, <4>2
    <3> QED
      BY <1>5, <3>1, <3>2
  <2>3. pages_of(q) \subseteq Pooled'
    <3>1. pages_of(q) = pages_of(pools'[1])
      BY <1>4
    <3> QED
      BY <1>6, <2>1, <3>1, Zenon
  <2>4. ASSUME NEW i \in DOMAIN pools PROVE pages_of(pools[i]) \subseteq Pooled'
    <3>1. i + 1 \in DOMAIN pools' /\ pages_of(pools[i]) = pages_of(pools'[i + 1])
      BY <1>4
    <3> QED
      BY <2>1, <3>1, Zenon
  <2>5. Pooled' \subseteq Pooled \cup pages_of(q)
    BY <2>1, <2>2, Zenon
  <2>6. Pooled \subseteq Pooled'
    BY <2>4, Zenon DEF Pooled
  <2> QED
    BY <2>3, <2>5, <2>6
<1>8. pages_of(q) \cap Pooled = {}
  BY <1>1 DEF PoolInv
<1>9. \A m \in DOMAIN pools : pages_of(pools[m]) \subseteq Pooled
  BY Zenon DEF Pooled
<1>10. Apart'
  <2>1. SUFFICES ASSUME NEW i \in DOMAIN pools', NEW m \in DOMAIN pools', i # m
                 PROVE  pages_of(pools'[i]) \cap pages_of(pools'[m]) = {}
    BY DEF Apart
  <2>2. CASE i = 1
    <3>1. m - 1 \in DOMAIN pools /\ pools'[m] = pools[m - 1]
      BY <1>4, <1>5, <2>1, <2>2
    <3>2. pages_of(pools[m - 1]) \subseteq Pooled
      BY <1>9, <3>1
    <3> QED
      BY <1>4, <1>8, <2>2, <3>1, <3>2
  <2>3. CASE m = 1
    <3>1. i - 1 \in DOMAIN pools /\ pools'[i] = pools[i - 1]
      BY <1>4, <1>5, <2>1, <2>3
    <3>2. pages_of(pools[i - 1]) \subseteq Pooled
      BY <1>9, <3>1
    <3> QED
      BY <1>4, <1>8, <2>3, <3>1, <3>2
  <2>4. CASE i # 1 /\ m # 1
    <3>1. /\ i - 1 \in DOMAIN pools /\ pools'[i] = pools[i - 1]
          /\ m - 1 \in DOMAIN pools /\ pools'[m] = pools[m - 1]
      BY <1>4, <1>5, <2>1, <2>4
    <3>2. i - 1 # m - 1
      BY <1>4, <2>1
    <3>3. pages_of(pools[i - 1]) \cap pages_of(pools[m - 1]) = {}
      BY <3>1, <3>2 DEF PoolInv, Apart
    <3> QED
      BY <3>1, <3>3
  <2> QED
    BY <2>2, <2>3, <2>4
<1>11. \A i \in DOMAIN pools' : pools'[i].free \subseteq pages_of(pools'[i])
  BY <1>1, <1>4, <1>5 DEF PoolInv
<1>12. /\ Pooled' = Added' \ Remaining'
       /\ Remaining' \subseteq Added'
  BY <1>1, <1>2, <1>7 DEF PoolInv
<1>13. added' \subseteq Ranges /\ held' \subseteq Pooled'
  BY <1>2, <1>7 DEF PoolInv
<1> QED
  BY <1>1, <1>4, <1>10, <1>11, <1>12, <1>13 DEF PoolInv

\* petmem_alloc_pages takes a page from a pool.
LEMMA AllocPageKeeps ==
  ASSUME PoolInv, AllocPage
  PROVE  PoolInv' /\ Pooled' = Pooled
<1>1. PICK i \in DOMAIN pools : \E page \in pools[i].free :
        /\ pools' = [pools EXCEPT ![i].free = @ \ {page}]
        /\ held' = held \cup {page}
        /\ UNCHANGED <<adding, added>>
  BY DEF AllocPage
<1>2. PICK page \in pools[i].free :
        /\ pools' = [pools EXCEPT ![i].free = pools[i].free \ {page}]
        /\ held' = held \cup {page}
  BY <1>1
<1>3. pools[i] \in Pool /\ pools[i].free \subseteq pages_of(pools[i])
  BY DEF PoolInv
<1>4. pools[i].free \ {page} \in SUBSET Nat /\ pools[i].free \ {page} \subseteq pages_of(pools[i])
  BY <1>3, PoolFields
<1>5. held' \subseteq Pooled
  <2>1. page \in Pooled
    BY <1>3, Zenon DEF Pooled
  <2> QED
    BY <1>2, <2>1 DEF PoolInv
<1>6. UNCHANGED <<adding, added>>
  BY <1>1
<1> QED
  <2> DEFINE f == pools[i].free \ {page}
  <2>1. /\ f \in SUBSET Nat /\ f \subseteq pages_of(pools[i])
        /\ pools' = [pools EXCEPT ![i].free = f]
    BY <1>2, <1>4
  <2> HIDE DEF f
  <2> QED
    BY <1>5, <1>6, <2>1, SamePages

\* What petmem_free_pages recognises as a page of the pool.
LEMMA ContainsPages ==
  ASSUME NEW p \in Pool, NEW page
  PROVE  /\ contains(p, page) /\ page \in Nat => page \in pages_of(p)
         /\ page \in pages_of(p) /\ p.order < INT_ORDER => contains(p, page)
<1> DEFINE z == 2^p.order
<1>1. /\ p.base \in Nat /\ p.order \in Nat /\ z \in Nat /\ INT_ORDER \in Nat
      /\ page \in pages_of(p) <=> page \in Nat /\ p.base =< page /\ page < p.base + z
  BY PoolFields, IntAssumption
<1>2. contains(p, page) <=> /\ page >= p.base
                            /\ \/ p.order < INT_ORDER /\ page < p.base + z
                               \/ p.order > INT_ORDER /\ page = p.base
  BY DEF contains
<1>3. z >= 1
  BY PowersOfTwo, <1>1, IntAssumption DEF Pool
<1> HIDE DEF z
<1> QED
  BY <1>1, <1>2, <1>3

\* petmem_free_pages: no pool, or one pool that has the page among its own.
LEMMA FreePageCases ==
  ASSUME PoolInv, NEW page \in Nat, FreePage(page)
  PROVE  \/ /\ pools' = pools
            /\ \A i \in DOMAIN pools : ~contains(pools[i], page)
         \/ \E i \in DOMAIN pools :
              /\ page \in pages_of(pools[i])
              /\ pools' = [pools EXCEPT ![i].free = pools[i].free \cup {page}]
<1> DEFINE candidates == {i \in DOMAIN pools : contains(pools[i], page)}
<1>1. pools' = IF candidates = {} THEN pools
               ELSE [pools EXCEPT ![Min(candidates)].free = @ \cup {page}]
  BY DEF FreePage
<1>2. CASE candidates = {}
  BY <1>1, <1>2
<1>3. CASE candidates # {}
  <2>1. candidates \in SUBSET Nat /\ pools \in Seq(Pool)
    BY DEF PoolInv
  <2> DEFINE i == Min(candidates)
  <2>2. i \in candidates
    <3> HIDE DEF candidates
    <3> QED
      BY <1>3, <2>1, MinOfNaturals
  <2>3. i \in DOMAIN pools /\ contains(pools[i], page)
    BY <2>2
  <2>4. page \in pages_of(pools[i])
    BY <2>1, <2>3, ContainsPages
  <2>5. pools' = [pools EXCEPT ![i].free = pools[i].free \cup {page}]
    BY <1>1, <1>3
  <2> HIDE DEF i
  <2> QED
    BY <2>3, <2>4, <2>5
<1> QED
  BY <1>2, <1>3

\* It changes no pool's pages.
LEMMA FreePageKeeps ==
  ASSUME PoolInv, NEW page \in Nat, FreePage(page)
  PROVE  PoolInv' /\ Pooled' = Pooled
<1>1. UNCHANGED <<adding, added>> /\ held' \subseteq held /\ held' \subseteq Pooled
  BY DEF FreePage, PoolInv
<1>2. CASE pools' = pools
  <2>1. Pooled' = Pooled /\ (Apart' <=> Apart)
    BY <1>2 DEF Pooled, Apart
  <2>2. Added' = Added /\ Remaining' = Remaining
    BY <1>1 DEF Added, Remaining
  <2> QED
    BY <1>1, <1>2, <2>1, <2>2 DEF PoolInv
<1>3. ASSUME NEW i \in DOMAIN pools, page \in pages_of(pools[i]),
             pools' = [pools EXCEPT ![i].free = pools[i].free \cup {page}]
      PROVE  PoolInv' /\ Pooled' = Pooled
  <2>1. pools[i] \in Pool /\ pools[i].free \subseteq pages_of(pools[i])
    BY DEF PoolInv
  <2>2. /\ pools[i].free \cup {page} \in SUBSET Nat
        /\ pools[i].free \cup {page} \subseteq pages_of(pools[i])
    BY <1>3, <2>1, PoolFields
  <2> QED
    BY <1>1, <1>3, <2>2, SamePages
<1> QED
  BY <1>2, <1>3, FreePageCases

\* petmem_exit forgets everything.
LEMMA UnloadKeeps ==
  ASSUME PoolInv, Unload
  PROVE  PoolInv' /\ Pooled' = {} /\ Added' = {}
<1>1. /\ pools' = << >> /\ added' = {} /\ held' = {} /\ adding' = adding
      /\ adding.num_pages = 0
  BY DEF Unload
<1>2. DOMAIN pools' = {} /\ pools' \in Seq(Pool)
  BY <1>1
<1>3. Pooled' = {} /\ Added' = {} /\ Apart'
  BY <1>1, <1>2, Zenon DEF Pooled, Added, Apart
<1>4. Remaining' = {}
  BY <1>1 DEF Remaining, PoolInv
<1> QED
  BY <1>1, <1>2, <1>3, <1>4 DEF PoolInv

\* The list starts empty.
LEMMA PoolInitInv ==
  ASSUME PoolInit
  PROVE  PoolInv /\ HeldInv
<1>1. /\ pools = << >> /\ added = {} /\ held = {}
      /\ adding = [base |-> 0, num_pages |-> 0]
  BY DEF PoolInit
<1>2. DOMAIN pools = {} /\ pools \in Seq(Pool)
  BY <1>1
<1>3. Pooled = {} /\ Added = {} /\ Apart
  BY <1>1, <1>2, Zenon DEF Pooled, Added, Apart
<1>4. Remaining = {} /\ adding \in [base : Nat, num_pages : 0 .. U32_PAGES - 1]
      /\ adding.num_pages = 0
  BY <1>1, IntAssumption DEF Remaining
<1>5. HeldInv
  BY <1>1, <1>2, <1>4 DEF HeldInv, PagesAccounted
<1> QED
  BY <1>1, <1>2, <1>3, <1>4, <1>5 DEF PoolInv

-----------------------------------------------------------------------------
(* Every step of the pools. *)

\* Every step of the pools keeps them apart.
LEMMA PoolNextInv ==
  ASSUME PoolInv, [PoolNext]_pool_vars
  PROVE  PoolInv'
<1>1. CASE UNCHANGED pool_vars
  BY <1>1 DEF pool_vars, PoolInv, Apart, Pooled, Added, Remaining
<1>2. ASSUME NEW r \in Ranges, range_pages(r) \cap Added = {}, AddMemory(r) PROVE PoolInv'
  BY <1>2, AddMemoryKeeps
<1>3. CASE AddPool
  BY <1>3, AddPoolKeeps
<1>4. CASE AllocPage
  BY <1>4, AllocPageKeeps
<1>5. CASE AllocNull
  BY <1>1, <1>5 DEF AllocNull
<1>6. ASSUME NEW page \in held, FreePage(page) PROVE PoolInv'
  <2>1. page \in Nat
    BY PooledNat DEF PoolInv
  <2> QED
    BY <1>6, <2>1, FreePageKeeps
<1>7. CASE Unload
  BY <1>7, UnloadKeeps
<1> QED
  BY <1>1, <1>2, <1>3, <1>4, <1>5, <1>6, <1>7 DEF PoolNext

\* The page that a pool has among its own is in no other pool.
LEMMA OnePool ==
  ASSUME PoolInv, NEW i \in DOMAIN pools, NEW m \in DOMAIN pools, NEW page,
         page \in pages_of(pools[i]), page \in pages_of(pools[m])
  PROVE  i = m
BY DEF PoolInv, Apart

\* PagesAccounted of one pool.
Accounted(p) == p.free \cap held = {} /\ p.free \cup (held \cap pages_of(p)) = pages_of(p)

\* petmem_alloc_pages moves a page from its pool to a caller.
LEMMA AllocPageHeld ==
  ASSUME PoolInv, HeldInv, AllocPage
  PROVE  HeldInv'
<1>1. PICK i \in DOMAIN pools : \E page \in pools[i].free :
        /\ pools' = [pools EXCEPT ![i].free = @ \ {page}]
        /\ held' = held \cup {page}
        /\ adding' = adding
  BY DEF AllocPage
<1>2. PICK page \in pools[i].free :
        /\ pools' = [pools EXCEPT ![i].free = pools[i].free \ {page}]
        /\ held' = held \cup {page}
        /\ adding' = adding
  BY <1>1
<1> DEFINE f == pools[i].free \ {page}
<1>3. pools[i] \in Pool /\ pools[i].free \subseteq pages_of(pools[i]) /\ pools \in Seq(Pool)
  BY DEF PoolInv
<1>4. f \in SUBSET Nat /\ pools' = [pools EXCEPT ![i].free = f]
  BY <1>2, <1>3, PoolFields
<1>5. /\ DOMAIN pools' = DOMAIN pools /\ pools'[i].free = f
      /\ \A m \in DOMAIN pools : m # i => pools'[m] = pools[m]
      /\ \A m \in DOMAIN pools : /\ pages_of(pools'[m]) = pages_of(pools[m])
                                 /\ pools'[m].order = pools[m].order
  <2> HIDE DEF f
  <2> QED
    BY <1>3, <1>4, PoolsWithFree
<1>6. \A m \in DOMAIN pools : pools[m].order < INT_ORDER /\ Accounted(pools[m])
  BY DEF HeldInv, PagesAccounted, Accounted
<1>7. ASSUME NEW m \in DOMAIN pools'
      PROVE  /\ pools'[m].free \cap held' = {}
             /\ pools'[m].free \cup (held' \cap pages_of(pools'[m])) = pages_of(pools'[m])
  <2>1. CASE m = i
    BY <1>2, <1>3, <1>5, <1>6, <2>1 DEF Accounted
  <2>2. CASE m # i
    <3>1. page \notin pages_of(pools[m]) /\ m \in DOMAIN pools /\ pools'[m] = pools[m]
      BY <1>3, <1>5, <2>2, OnePool
    <3>2. pools[m].free \subseteq pages_of(pools[m])
      BY <3>1 DEF PoolInv
    <3> QED
      BY <1>2, <1>6, <3>1, <3>2 DEF Accounted
  <2> QED
    BY <2>1, <2>2
<1> QED
  BY <1>2, <1>5, <1>6, <1>7 DEF HeldInv, PagesAccounted

\* petmem_free_pages gives the page back to the pool it came from.
LEMMA FreePageHeld ==
  ASSUME PoolInv, HeldInv, NEW page \in held, FreePage(page)
  PROVE  HeldInv'
<1>1. held' = held \ {page} /\ adding' = adding
  BY DEF FreePage
<1>2. page \in Nat /\ pools \in Seq(Pool)
  BY PooledNat DEF PoolInv
<1>3. PICK k \in DOMAIN pools : page \in pages_of(pools[k])
  BY Zenon DEF PoolInv, Pooled
<1>4. \A m \in DOMAIN pools : pools[m].order < INT_ORDER /\ Accounted(pools[m])
  BY DEF HeldInv, PagesAccounted, Accounted
<1>5. contains(pools[k], page)
  BY <1>2, <1>3, <1>4, ContainsPages
<1>6. PICK i \in DOMAIN pools :
        /\ page \in pages_of(pools[i])
        /\ pools' = [pools EXCEPT ![i].free = pools[i].free \cup {page}]
  BY <1>2, <1>5, FreePageCases
<1> DEFINE f == pools[i].free \cup {page}
<1>7. pools[i] \in Pool /\ pools[i].free \subseteq pages_of(pools[i])
  BY <1>2 DEF PoolInv
<1>8. f \in SUBSET Nat /\ pools' = [pools EXCEPT ![i].free = f]
  BY <1>2, <1>6, <1>7, PoolFields
<1>9. /\ DOMAIN pools' = DOMAIN pools /\ pools'[i].free = f
      /\ \A m \in DOMAIN pools : m # i => pools'[m] = pools[m]
      /\ \A m \in DOMAIN pools : /\ pages_of(pools'[m]) = pages_of(pools[m])
                                 /\ pools'[m].order = pools[m].order
  <2> HIDE DEF f
  <2> QED
    BY <1>2, <1>8, PoolsWithFree
<1>10. ASSUME NEW m \in DOMAIN pools'
       PROVE  /\ pools'[m].free \cap held' = {}
              /\ pools'[m].free \cup (held' \cap pages_of(pools'[m])) = pages_of(pools'[m])
  <2>1. CASE m = i
    <3> DEFINE old == pools[i].free
               all == pages_of(pools[i])
    <3>1. old \cap held = {} /\ old \cup (held \cap all) = all
      BY <1>4 DEF Accounted
    <3>2. pools'[m].free = old \cup {page} /\ pages_of(pools'[m]) = all
      BY <1>9, <2>1
    <3>3. page \in all
      BY <1>6
    <3> HIDE DEF old, all
    <3>4. (old \cup {page}) \cap (held \ {page}) = {}
      BY <3>1
    <3>5. (old \cup {page}) \cup ((held \ {page}) \cap all) = all
      BY <3>1, <3>3
    <3> QED
      BY <1>1, <3>2, <3>4, <3>5
  <2>2. CASE m # i
    <3>1. page \notin pages_of(pools[m]) /\ m \in DOMAIN pools /\ pools'[m] = pools[m]
      BY <1>6, <1>9, <2>2, OnePool
    <3> QED
      BY <1>1, <1>4, <3>1 DEF Accounted
  <2> QED
    BY <2>1, <2>2
<1> QED
  BY <1>1, <1>4, <1>9, <1>10 DEF HeldInv, PagesAccounted

\* A new pool has all its pages, and nobody holds one of them.
LEMMA AddPoolHeld ==
  ASSUME BelowSign, PoolInv, HeldInv, AddPool
  PROVE  HeldInv'
<1>1. PICK q \in Pool :
        /\ pools' = <<q>> \o pools
        /\ q.free = pages_of(q) /\ q.order = fls(adding.num_pages) - 1
        /\ adding.num_pages \in 1 .. U32_PAGES - 1
        /\ adding' \in [base : Nat, num_pages : 0 .. U32_PAGES - 1]
        /\ adding'.num_pages =< adding.num_pages
        /\ Remaining = pages_of(q) \cup Remaining'
  BY NewPool
<1>2. held' = held /\ pools \in Seq(Pool)
  BY DEF AddPool, PoolInv
<1>3. /\ DOMAIN pools' = 1 .. Len(pools) + 1 /\ pools'[1] = q /\ Len(pools) \in Nat
      /\ \A i \in 2 .. Len(pools) + 1 : i - 1 \in DOMAIN pools /\ pools'[i] = pools[i - 1]
  BY <1>1, <1>2, Prepended
<1>4. \A i \in DOMAIN pools' : i = 1 \/ i \in 2 .. Len(pools) + 1
  BY <1>3
<1>5. held \cap pages_of(q) = {}
  BY <1>1 DEF PoolInv
<1>6. PICK r \in Ranges : adding.num_pages =< r[2]
  BY <1>1 DEF HeldInv
<1>7. q.order < INT_ORDER
  <2>1. r[2] \in Nat /\ adding.num_pages \in 1 .. r[2] /\ INT_ORDER \in Nat
    BY <1>1, <1>6, RangesAssumption, IntAssumption
  <2>2. fls(adding.num_pages) =< INT_ORDER
    BY <2>1 DEF BelowSign
  <2>3. fls(adding.num_pages) - 1 \in Nat /\ fls(adding.num_pages) \in Nat
    BY <1>1, Order
  <2> QED
    BY <1>1, <2>1, <2>2, <2>3
<1>8. \A m \in DOMAIN pools : pools[m].order < INT_ORDER /\ Accounted(pools[m])
  BY DEF HeldInv, PagesAccounted, Accounted
<1>9. Accounted(q)
  BY <1>1, <1>5 DEF Accounted
<1>10. ASSUME NEW m \in DOMAIN pools' PROVE Accounted(pools'[m]) /\ pools'[m].order < INT_ORDER
  BY <1>3, <1>4, <1>7, <1>8, <1>9
<1>11. PagesAccounted'
  BY <1>2, <1>10 DEF PagesAccounted, Accounted
<1>12. adding'.num_pages =< r[2]
  BY <1>1, <1>6, RangesAssumption
<1> QED
  BY <1>10, <1>11, <1>12 DEF HeldInv

\* Every step accounts for the pages.
LEMMA PoolNextHeld ==
  ASSUME BelowSign, PoolInv, HeldInv, [PoolNext]_pool_vars
  PROVE  HeldInv'
<1>1. CASE UNCHANGED pool_vars
  BY <1>1 DEF pool_vars, HeldInv, PagesAccounted
<1>2. ASSUME NEW r \in Ranges, AddMemory(r) PROVE HeldInv'
  <2>1. r[2] \in Nat /\ r[2] % U32_PAGES = r[2]
    BY RangesAssumption, IntAssumption
  <2>2. pools' = pools /\ held' = held /\ adding'.num_pages =< r[2]
    BY <1>2, <2>1 DEF AddMemory
  <2> QED
    BY <2>2 DEF HeldInv, PagesAccounted
<1>3. CASE AddPool
  BY <1>3, AddPoolHeld
<1>4. CASE AllocPage
  BY <1>4, AllocPageHeld
<1>5. CASE AllocNull
  BY <1>1, <1>5 DEF AllocNull
<1>6. ASSUME NEW page \in held, FreePage(page) PROVE HeldInv'
  BY <1>6, FreePageHeld
<1>7. CASE Unload
  <2>1. pools' = << >> /\ held' = {} /\ adding' = adding /\ adding.num_pages = 0
    BY <1>7 DEF Unload
  <2>2. DOMAIN pools' = {}
    BY <2>1
  <2> QED
    BY <2>1, <2>2 DEF HeldInv, PagesAccounted
<1> QED
  BY <1>1, <1>2, <1>3, <1>4, <1>5, <1>6, <1>7 DEF PoolNext

-----------------------------------------------------------------------------
(* The theorems about the pool list. *)

\* The invariant of every user of the pools that adds no memory twice.
LEMMA PoolInvariant == PoolSpec => []PoolInv
<1>1. PoolInit => PoolInv
  BY PoolInitInv
<1>2. PoolInv /\ [PoolNext]_pool_vars => PoolInv'
  BY PoolNextInv
<1> QED
  BY <1>1, <1>2, PTL DEF PoolSpec

\* The pools, the loop of ADD_MEMORY and the ranges keep their types.
THEOREM PoolTypes == PoolSpec => []PoolTypeOK
<1>1. PoolInv => PoolTypeOK
  <2>1. SUFFICES ASSUME PoolInv PROVE PoolTypeOK
    OBVIOUS
  <2>2. \A i \in DOMAIN pools : pools[i] \in Pool
    BY <2>1 DEF PoolInv
  <2> QED
    BY <2>1, <2>2, PoolFields DEF PoolInv, PoolTypeOK
<1> QED
  BY <1>1, PoolInvariant, PTL

\* The decomposition of added ranges into powers of two is exact at every turn
\* of ADD_MEMORY's loop, whatever is allocated and freed meanwhile.
THEOREM PoolTiles == PoolSpec => []PoolsTile
<1>1. PoolInv => PoolsTile
  BY DEF PoolInv, PoolsTile, Apart, Pooled
<1> QED
  BY <1>1, PoolInvariant, PTL

\* petmem_free_pages returns every page to the pool it came from, as long as
\* no pool is as large as the sign bit of an int.
THEOREM PoolAccounts ==
  ASSUME BelowSign
  PROVE  PoolSpec => []PagesAccounted
<1>1. PoolInit => PoolInv /\ HeldInv
  BY PoolInitInv
<1>2. PoolInv /\ HeldInv /\ [PoolNext]_pool_vars => (PoolInv /\ HeldInv)'
  BY PoolNextInv, PoolNextHeld
<1>3. PoolInv /\ HeldInv => PagesAccounted
  BY DEF HeldInv
<1> QED
  BY <1>1, <1>2, <1>3, PTL DEF PoolSpec

-----------------------------------------------------------------------------
(* The invariant of the control utility. *)

Util == [pc : {"none", "scan", "search", "offline", "check", "online", "adding",
               "failed", "done", "killed", "nodevice"},
         n : Nat, bitmap : SUBSET Blocks, reg_start : 0 .. bitmap_entries,
         run_len : 0 .. bitmap_entries, i : Nat, j : Nat,
         seen : SUBSET Blocks, refused : SUBSET Nat]

\* No n consecutive candidates start before lim.
NoRun(w, lim) ==
  w.n >= 1 => \A b \in 0 .. lim - 1 : ~(b .. b + w.n - 1 \subseteq w.bitmap)

\* The search has seen the candidates from i - run_len on, and reg_start is
\* where they start, unless reg_start is left over from an earlier search;
\* but then no run starts before it.
Searching(w) ==
  /\ w.i \in 0 .. bitmap_entries /\ w.run_len \in 0 .. w.i
  /\ w.i - w.run_len .. w.i - 1 \subseteq w.bitmap
  /\ w.run_len < w.n \/ w.run_len = 0
  /\ NoRun(w, w.i - w.run_len)
  /\ NoRun(w, w.reg_start)
  /\ w.reg_start = w.i - w.run_len \/ w.run_len = w.i

Found(w) == run_blocks(w) \subseteq w.bitmap /\ NoRun(w, w.reg_start)

\* The blocks to be put back online are those before the refused one.
Undoing(w) ==
  /\ w.j \in 0 .. w.i
  /\ w.reg_start .. w.reg_start + w.i - 1 \subseteq w.bitmap
  /\ NoRun(w, w.reg_start)

Hopeless(w) == \A b \in Blocks : ~(b .. b + w.n - 1 \subseteq w.bitmap)

Good(w) ==
  /\ w.bitmap = w.seen \ w.refused
  /\ w.pc \in {"none", "scan"} => /\ w.i = 0 /\ w.run_len = 0 /\ w.reg_start = 0
                                  /\ w.seen = {} /\ w.refused = {}
  /\ w.pc \notin {"none", "failed", "done", "killed", "nodevice"} =>
       \E size \in Sizes : w.n = num_blocks(size)
  /\ w.pc = "search" => Searching(w)
  /\ w.pc # "search" => w.i \in 0 .. w.n
  /\ w.pc \in {"offline", "check"} => Found(w)
  /\ w.pc = "online" => Undoing(w)
  /\ w.pc = "failed" => Hopeless(w)

UtilInv ==
  /\ state \in [Blocks -> {"online", "offline"}]
  /\ util \in [Utilities -> Util]
  /\ \A u \in Utilities : Good(util[u])

\* What keeps Linux and petmem apart if only one process of the utility runs
\* at a time: all that was added is in blocks that are offline, none of which
\* a process of the utility takes for removable, and what it has checked
\* stays offline.
ApartInv ==
  /\ \A u, v \in Utilities : Active(u) /\ Active(v) => u = v
  /\ \A page \in Added : /\ page \div BlockPages \in Blocks
                         /\ state[page \div BlockPages] = "offline"
  /\ \A u \in Utilities : util[u].pc \in {"search", "offline", "check", "online"} =>
       \A page \in Added : page \div BlockPages \notin util[u].seen
  /\ \A u \in Utilities : util[u].pc = "check" =>
       \A b \in util[u].reg_start .. util[u].reg_start + util[u].i - 1 : state[b] = "offline"

\* A block of which the module has memory is not called removable when the
\* utility is run again.  Nothing in the program sees to that: it is up to
\* Linux, unless Linux calls no offline block removable.
NotReoffered ==
  OfflineRemovable =>
    \A u \in Utilities : ScanRemovable(u) =>
      \A page \in Added : page \div BlockPages \notin util'[u].seen

\* No process of the utility was started but one.
FirstRun ==
  \A u, v \in Utilities : util[u].pc # "none" /\ util[v].pc # "none" => u = v

-----------------------------------------------------------------------------
(* The search. *)

\* The bitmap has an entry for every block.
LEMMA Entries ==
  /\ bitmap_entries \in Nat /\ bitmap_entries >= 1
  /\ \A b \in Blocks : b \in Nat /\ b < bitmap_entries
<1>1. PICK last \in Blocks : \A b \in Blocks : b =< last
  BY BlocksAssumption
<1>2. Blocks \in SUBSET Nat /\ Blocks # {} /\ last \in Nat
  BY <1>1, BlocksAssumption
<1>3. Max(Blocks) \in Blocks /\ \A b \in Blocks : Max(Blocks) >= b
  BY <1>1, <1>2 DEF Max
<1> DEFINE m == Max(Blocks)
<1>4. bitmap_entries = m + 1 /\ m \in Nat /\ \A b \in Blocks : b \in Nat /\ b =< m
  <2>1. m \in Blocks /\ \A b \in Blocks : m >= b
    BY <1>3
  <2>2. bitmap_entries = m + 1
    BY DEF bitmap_entries
  <2> HIDE DEF m
  <2> QED
    BY <1>2, <2>1, <2>2
<1> HIDE DEF m
<1> QED
  BY <1>4

\* A request is for a number of blocks.
LEMMA BlocksType ==
  ASSUME NEW size \in Sizes
  PROVE  num_blocks(size) \in Nat
<1>1. size \in Nat /\ BlockPages \in Nat \ {0}
  BY BlocksAssumption
<1>2. size \div BlockPages \in Nat
  BY <1>1
<1> QED
  BY <1>2 DEF num_blocks

\* The fields of a process of the utility.
LEMMA UtilFields ==
  ASSUME NEW w \in Util
  PROVE  /\ w.n \in Nat /\ w.bitmap \subseteq Blocks /\ w.i \in Nat /\ w.j \in Nat
         /\ w.reg_start \in 0 .. bitmap_entries /\ w.reg_start \in Nat
         /\ w.run_len \in 0 .. bitmap_entries /\ w.run_len \in Nat
         /\ w.seen \subseteq Blocks /\ w.refused \subseteq Nat
BY Entries DEF Util

\* A hole ends the run: every run of n that starts up to it would contain it.
LEMMA HoleFound ==
  ASSUME NEW w \in Util, Searching(w), w.i < bitmap_entries, w.i \notin w.bitmap,
         NEW x \in Util, x.n = w.n, x.bitmap = w.bitmap, x.reg_start = w.i + 1,
         x.run_len = 0, x.i = w.i + 1
  PROVE  Searching(x)
<1>1. /\ w.n \in Nat /\ w.i \in Nat /\ w.run_len \in Nat /\ w.run_len =< w.i
      /\ bitmap_entries \in Nat /\ w.i + 1 \in 0 .. bitmap_entries
  BY UtilFields, Entries DEF Searching
<1>2. NoRun(w, w.i + 1)
  <2>1. SUFFICES ASSUME w.n >= 1, NEW b \in 0 .. w.i, b .. b + w.n - 1 \subseteq w.bitmap
                 PROVE  FALSE
    BY <1>1 DEF NoRun
  <2>2. CASE b < w.i - w.run_len
    <3>1. b \in 0 .. (w.i - w.run_len) - 1
      BY <1>1, <2>2
    <3> QED
      BY <2>1, <3>1 DEF Searching, NoRun
  <2>3. CASE b >= w.i - w.run_len
    <3>1. w.run_len < w.n
      BY <1>1, <2>1 DEF Searching
    <3>2. w.i \in b .. b + w.n - 1
      BY <1>1, <2>1, <2>3, <3>1
    <3> QED
      BY <2>1, <3>2
  <2> QED
    BY <1>1, <2>2, <2>3
<1>3. NoRun(x, x.i - x.run_len) /\ NoRun(x, x.reg_start)
  <2>1. x.i - x.run_len = w.i + 1
    BY <1>1
  <2> QED
    BY <1>2, <2>1 DEF NoRun
<1>4. x.i - x.run_len .. x.i - 1 \subseteq x.bitmap
  BY <1>1
<1> QED
  BY <1>1, <1>3, <1>4 DEF Searching

\* A candidate makes the run longer.
LEMMA CandidateFound ==
  ASSUME NEW w \in Util, Searching(w), w.i < bitmap_entries, w.i \in w.bitmap,
         NEW x \in Util, x.n = w.n, x.bitmap = w.bitmap, x.reg_start = w.reg_start,
         x.run_len = w.run_len + 1, x.i = w.i + 1, ~(w.run_len + 1 >= w.n)
  PROVE  Searching(x)
<1>1. /\ w.n \in Nat /\ w.i \in Nat /\ w.run_len \in Nat /\ w.run_len =< w.i
      /\ bitmap_entries \in Nat /\ w.i + 1 \in 0 .. bitmap_entries /\ w.reg_start \in Nat
  BY UtilFields, Entries DEF Searching
<1>2. x.i - x.run_len = w.i - w.run_len
  BY <1>1
<1>3. NoRun(x, x.i - x.run_len) /\ NoRun(x, x.reg_start)
  BY <1>2 DEF Searching, NoRun
<1>4. ASSUME NEW b \in x.i - x.run_len .. x.i - 1 PROVE b \in x.bitmap
  <2>1. b = w.i \/ b \in w.i - w.run_len .. w.i - 1
    BY <1>1, <1>2
  <2> QED
    BY <2>1 DEF Searching
<1>5. x.run_len \in 0 .. x.i /\ x.run_len < x.n
  BY <1>1
<1>6. x.reg_start = x.i - x.run_len \/ x.run_len = x.i
  BY <1>1, <1>2 DEF Searching
<1> QED
  BY <1>1, <1>3, <1>4, <1>5, <1>6 DEF Searching

\* The run is long enough: it starts at reg_start, though reg_start may be
\* left over from an earlier search.
LEMMA RunFound ==
  ASSUME NEW w \in Util, Searching(w), w.i \in w.bitmap, w.run_len + 1 >= w.n,
         NEW x \in Util, x.n = w.n, x.bitmap = w.bitmap, x.reg_start = w.reg_start
  PROVE  Found(x)
<1>1. /\ w.n \in Nat /\ w.i \in Nat /\ w.run_len \in Nat /\ w.run_len =< w.i
      /\ w.reg_start \in Nat
  BY UtilFields DEF Searching
<1>2. NoRun(x, x.reg_start)
  BY DEF NoRun, Searching
<1>3. CASE w.n = 0
  <2>1. run_blocks(x) = {}
    BY <1>1, <1>3 DEF run_blocks
  <2> QED
    BY <1>2, <2>1 DEF Found
<1>4. CASE w.n # 0
  <2>1. w.run_len + 1 = w.n /\ w.n >= 1
    BY <1>1, <1>4 DEF Searching
  <2>2. ASSUME NEW b \in w.i - w.run_len .. w.i PROVE b \in w.bitmap
    <3>1. b = w.i \/ b \in w.i - w.run_len .. w.i - 1
      BY <1>1
    <3> QED
      BY <3>1 DEF Searching
  <2>3. w.reg_start = w.i - w.run_len
    <3>1. CASE w.run_len = w.i
      <4>1. SUFFICES ASSUME w.reg_start > 0 PROVE FALSE
        BY <1>1, <3>1
      <4>2. 0 \in 0 .. w.reg_start - 1
        BY <1>1, <4>1
      <4>3. ~(0 .. 0 + w.n - 1 \subseteq w.bitmap)
        BY <2>1, <4>2 DEF Searching, NoRun
      <4>4. 0 .. 0 + w.n - 1 = w.i - w.run_len .. w.i
        BY <1>1, <2>1, <3>1
      <4> QED
        BY <2>2, <4>3, <4>4
    <3> QED
      BY <3>1 DEF Searching
  <2>4. run_blocks(x) = w.i - w.run_len .. w.i
    BY <1>1, <2>1, <2>3 DEF run_blocks
  <2> QED
    BY <1>2, <2>2, <2>4 DEF Found
<1> QED
  BY <1>3, <1>4

\* The end of the bitmap: nothing was asked for, or nothing is there.
LEMMA EndFound ==
  ASSUME NEW w \in Util, Searching(w), ~(w.i < bitmap_entries),
         NEW x \in Util, x.n = w.n, x.bitmap = w.bitmap, x.reg_start = w.reg_start
  PROVE  IF w.run_len < w.n THEN Hopeless(x) ELSE Found(x)
<1>1. /\ w.n \in Nat /\ w.run_len \in Nat /\ w.run_len =< w.i /\ w.i = bitmap_entries
      /\ bitmap_entries \in Nat /\ w.reg_start \in Nat /\ w.bitmap \subseteq Blocks
  BY UtilFields, Entries DEF Searching
<1>2. CASE w.run_len < w.n
  <2>1. SUFFICES ASSUME NEW b \in Blocks, b .. b + w.n - 1 \subseteq w.bitmap PROVE FALSE
    BY <1>2 DEF Hopeless
  <2>2. b \in Nat /\ b < bitmap_entries /\ w.n >= 1
    BY <1>1, <1>2, Entries
  <2>3. CASE b < w.i - w.run_len
    <3>1. b \in 0 .. (w.i - w.run_len) - 1
      BY <1>1, <2>2, <2>3
    <3> QED
      BY <2>1, <2>2, <3>1 DEF Searching, NoRun
  <2>4. CASE b >= w.i - w.run_len
    <3>1. bitmap_entries \in b .. b + w.n - 1
      BY <1>1, <1>2, <2>2, <2>4
    <3>2. bitmap_entries \in Blocks
      BY <1>1, <2>1, <3>1
    <3> QED
      BY <1>1, <3>2, Entries
  <2> QED
    BY <1>1, <2>2, <2>3, <2>4
<1>3. CASE ~(w.run_len < w.n)
  <2>1. w.n = 0
    BY <1>1, <1>3 DEF Searching
  <2>2. run_blocks(x) = {}
    BY <1>1, <2>1 DEF run_blocks
  <2>3. NoRun(x, x.reg_start)
    BY DEF NoRun, Searching
  <2> QED
    BY <1>3, <2>2, <2>3 DEF Found
<1> QED
  BY <1>2, <1>3

\* A new search, with a reg_start before which no run starts.
LEMMA SearchStarts ==
  ASSUME NEW x \in Util, x.i = 0, x.run_len = 0, NoRun(x, x.reg_start)
  PROVE  Searching(x)
<1>1. NoRun(x, x.i - x.run_len)
  BY DEF NoRun
<1> QED
  BY <1>1, Entries DEF Searching

\* A refused block is no candidate any more; those before it still are.
LEMMA RefusedFound ==
  ASSUME NEW w \in Util, Found(w), w.i < w.n,
         NEW x \in Util, x.n = w.n, x.bitmap = w.bitmap \ {w.reg_start + w.i},
         x.reg_start = w.reg_start, x.i = w.i, x.j = 0
  PROVE  Undoing(x)
<1>1. w.n \in Nat /\ w.i \in Nat /\ w.reg_start \in Nat
  BY UtilFields
<1>2. NoRun(x, x.reg_start)
  BY DEF NoRun, Found
<1>3. ASSUME NEW b \in w.reg_start .. w.reg_start + w.i - 1 PROVE b \in x.bitmap
  <2>1. b \in w.reg_start .. w.reg_start + w.n - 1 /\ b # w.reg_start + w.i
    BY <1>1
  <2> QED
    BY <2>1 DEF Found, run_blocks
<1> QED
  BY <1>1, <1>2, <1>3 DEF Undoing

-----------------------------------------------------------------------------
(* The steps of the utility. *)

\* A step of process u, as far as the other processes are concerned.
Moves(u, x) ==
  /\ util' \in [Utilities -> Util]
  /\ util'[u] = x /\ x \in Util
  /\ \A v \in Utilities : v # u => util'[v] = util[v]

\* Only the process that steps has to be looked at.
LEMMA OneMoves ==
  ASSUME UtilInv, NEW u \in Utilities, NEW x, Moves(u, x), Good(x),
         state' \in [Blocks -> {"online", "offline"}]
  PROVE  UtilInv'
<1>1. \A v \in Utilities : Good(util'[v])
  BY DEF Moves, UtilInv
<1> QED
  BY <1>1 DEF Moves, UtilInv, Good, Searching, Found, Undoing, Hopeless, NoRun, run_blocks

\* A process of the utility is started.
LEMMA StartInv ==
  ASSUME UtilInv, NEW u \in Utilities, NEW size \in Sizes, Start(u, size)
  PROVE  UtilInv'
<1> DEFINE w == util[u]
           x == [w EXCEPT !.pc = "scan", !.n = num_blocks(size)]
<1>1. w \in Util /\ Good(w) /\ w.pc = "none" /\ num_blocks(size) \in Nat
  BY BlocksType DEF UtilInv, Start
<1>2. util' = [util EXCEPT ![u] = x] /\ state' = state
  BY DEF Start
<1>3. /\ x \in Util /\ x.pc = "scan" /\ x.n = num_blocks(size) /\ x.bitmap = w.bitmap
      /\ x.i = w.i /\ x.run_len = w.run_len /\ x.reg_start = w.reg_start
      /\ x.seen = w.seen /\ x.refused = w.refused
  BY <1>1 DEF Util
<1> HIDE DEF x
<1>4. Moves(u, x)
  BY <1>2, <1>3 DEF Moves, UtilInv
<1>5. Good(x)
  BY <1>1, <1>3 DEF Good
<1> QED
  BY <1>2, <1>4, <1>5, OneMoves DEF UtilInv

\* The bitmap is filled.
LEMMA ScanInv ==
  ASSUME UtilInv, NEW u \in Utilities, ScanRemovable(u)
  PROVE  UtilInv'
<1>1. PICK bitmap \in SUBSET Blocks :
        /\ util' = [util EXCEPT ![u].pc = "search", ![u].bitmap = bitmap, ![u].seen = bitmap]
        /\ util[u].pc = "scan" /\ state' = state
  <2>1. PICK bitmap \in SUBSET {b \in scanned : state[b] = "online" \/ OfflineRemovable} :
          /\ util' = [util EXCEPT ![u].pc = "search", ![u].bitmap = bitmap, ![u].seen = bitmap]
          /\ util[u].pc = "scan" /\ state' = state
    BY Zenon DEF ScanRemovable
  <2>2. bitmap \in SUBSET Blocks
    BY DEF scanned
  <2> QED
    BY <2>1, <2>2
<1> DEFINE w == util[u]
           x == [w EXCEPT !.pc = "search", !.bitmap = bitmap, !.seen = bitmap]
<1>2. w \in Util /\ Good(w) /\ util' = [util EXCEPT ![u] = x]
  BY <1>1 DEF UtilInv
<1>3. /\ x \in Util /\ x.pc = "search" /\ x.n = w.n /\ x.bitmap = bitmap
      /\ x.i = w.i /\ x.run_len = w.run_len /\ x.reg_start = w.reg_start
      /\ x.seen = bitmap /\ x.refused = w.refused
  BY <1>2 DEF Util
<1> HIDE DEF x
<1>4. Moves(u, x)
  BY <1>2, <1>3 DEF Moves, UtilInv
<1>5. x.i = 0 /\ x.run_len = 0 /\ x.reg_start = 0 /\ x.refused = {}
  BY <1>1, <1>2, <1>3 DEF Good
<1>6. NoRun(x, x.reg_start)
  BY <1>5 DEF NoRun
<1>7. Searching(x)
  BY <1>3, <1>5, <1>6, SearchStarts
<1>8. Good(x)
  BY <1>1, <1>2, <1>3, <1>5, <1>7 DEF Good
<1> QED
  BY <1>1, <1>4, <1>8, OneMoves DEF UtilInv

\* The turns of the search.
LEMMA SearchInv ==
  ASSUME UtilInv, NEW u \in Utilities, SearchHole(u) \/ SearchBlock(u) \/ SearchEnd(u)
  PROVE  UtilInv'
<1> DEFINE w == util[u]
<1>1. w \in Util /\ Good(w) /\ w.pc = "search" /\ state' = state /\ Searching(w)
  BY DEF UtilInv, SearchHole, SearchBlock, SearchEnd, Good
<1>2. /\ w.n \in Nat /\ w.i \in 0 .. bitmap_entries /\ w.run_len \in Nat /\ w.i \in Nat
      /\ w.run_len =< w.i /\ bitmap_entries \in Nat
  BY <1>1, UtilFields, Entries DEF Searching
<1>3. CASE SearchHole(u)
  <2> DEFINE x == [w EXCEPT !.reg_start = w.i + 1, !.run_len = 0, !.i = w.i + 1]
  <2>1. w.i < bitmap_entries /\ w.i \notin w.bitmap /\ util' = [util EXCEPT ![u] = x]
    BY <1>3 DEF SearchHole, more_entries, after_hole
  <2>2. w.i + 1 \in 0 .. bitmap_entries /\ w.i + 1 \in Nat /\ 0 \in 0 .. bitmap_entries
    BY <1>2, <2>1
  <2>3. /\ x \in Util /\ x.pc = "search" /\ x.n = w.n /\ x.bitmap = w.bitmap
        /\ x.i = w.i + 1 /\ x.run_len = 0 /\ x.reg_start = w.i + 1
        /\ x.seen = w.seen /\ x.refused = w.refused
    <3> HIDE DEF w
    <3> QED
      BY <1>1, <2>2 DEF Util
  <2> HIDE DEF x
  <2>4. Moves(u, x)
    BY <2>1, <2>3 DEF Moves, UtilInv
  <2>5. Searching(x)
    BY <1>1, <2>1, <2>3, HoleFound
  <2>6. Good(x)
    BY <1>1, <2>3, <2>5 DEF Good
  <2> QED
    BY <1>1, <2>4, <2>6, OneMoves DEF UtilInv
<1>4. CASE SearchBlock(u) /\ ~(w.run_len + 1 >= w.n)
  <2> DEFINE x == [w EXCEPT !.run_len = w.run_len + 1, !.i = w.i + 1]
  <2>1. w.i < bitmap_entries /\ w.i \in w.bitmap /\ util' = [util EXCEPT ![u] = x]
    BY <1>1, <1>4 DEF SearchBlock, more_entries, UtilInv, Util
  <2>2. w.run_len + 1 \in 0 .. bitmap_entries /\ w.i + 1 \in Nat
    BY <1>2, <2>1
  <2>3. /\ x \in Util /\ x.pc = "search" /\ x.n = w.n /\ x.bitmap = w.bitmap
        /\ x.i = w.i + 1 /\ x.run_len = w.run_len + 1 /\ x.reg_start = w.reg_start
        /\ x.seen = w.seen /\ x.refused = w.refused
    <3> HIDE DEF w
    <3> QED
      BY <1>1, <2>2 DEF Util
  <2> HIDE DEF x
  <2>4. Moves(u, x)
    BY <2>1, <2>3 DEF Moves, UtilInv
  <2>5. Searching(x)
    BY <1>1, <1>4, <2>1, <2>3, CandidateFound
  <2>6. Good(x)
    BY <1>1, <2>3, <2>5 DEF Good
  <2> QED
    BY <1>1, <2>4, <2>6, OneMoves DEF UtilInv
<1>5. CASE SearchBlock(u) /\ w.run_len + 1 >= w.n
  <2> DEFINE x == [w EXCEPT !.run_len = w.run_len + 1, !.i = 0, !.pc = "offline"]
  <2>1. w.i < bitmap_entries /\ w.i \in w.bitmap /\ util' = [util EXCEPT ![u] = x]
    BY <1>1, <1>5 DEF SearchBlock, more_entries, UtilInv, Util
  <2>2. w.run_len + 1 \in 0 .. bitmap_entries /\ w.i + 1 \in Nat
    BY <1>2, <2>1
  <2>3. /\ x \in Util /\ x.pc = "offline" /\ x.n = w.n /\ x.bitmap = w.bitmap
        /\ x.i = 0 /\ x.reg_start = w.reg_start /\ x.seen = w.seen /\ x.refused = w.refused
    BY <1>1, <1>2, <2>2 DEF Util
  <2> HIDE DEF x
  <2>4. Moves(u, x)
    BY <2>1, <2>3 DEF Moves, UtilInv
  <2>5. Found(x)
    BY <1>1, <1>5, <2>1, <2>3, RunFound
  <2>6. Good(x)
    BY <1>1, <1>2, <2>3, <2>5 DEF Good
  <2> QED
    BY <1>1, <2>4, <2>6, OneMoves DEF UtilInv
<1>6. CASE SearchEnd(u)
  <2> DEFINE pc == IF w.run_len < w.n THEN "failed" ELSE "offline"
             x == [w EXCEPT !.pc = pc, !.i = 0]
  <2>1. ~(w.i < bitmap_entries) /\ util' = [util EXCEPT ![u] = x]
    BY <1>6 DEF SearchEnd, more_entries
  <2>2. /\ x \in Util /\ x.pc = pc /\ x.n = w.n /\ x.bitmap = w.bitmap
        /\ x.i = 0 /\ x.reg_start = w.reg_start /\ x.seen = w.seen /\ x.refused = w.refused
    BY <1>1, <1>2 DEF Util
  <2> HIDE DEF x
  <2>3. Moves(u, x)
    BY <2>1, <2>2 DEF Moves, UtilInv
  <2>4. IF w.run_len < w.n THEN Hopeless(x) ELSE Found(x)
    BY <1>1, <2>1, <2>2, EndFound
  <2>5. Good(x)
    BY <1>1, <1>2, <2>2, <2>4 DEF Good
  <2> QED
    BY <1>1, <2>3, <2>5, OneMoves DEF UtilInv
<1> QED
  BY <1>3, <1>4, <1>5, <1>6

\* "offline" is written to the state of a block.
LEMMA OfflineBlockInv ==
  ASSUME UtilInv, NEW u \in Utilities, OfflineBlock(u)
  PROVE  UtilInv'
<1> DEFINE w == util[u]
           x == [w EXCEPT !.i = w.i + 1]
<1>1. w \in Util /\ Good(w) /\ w.pc = "offline" /\ w.i < w.n
  BY DEF UtilInv, OfflineBlock
<1>2. /\ w.n \in Nat /\ w.i \in Nat /\ w.j \in Nat /\ w.reg_start \in Nat /\ w.run_len \in Nat
      /\ w.bitmap \subseteq Blocks
  BY <1>1, UtilFields
<1>3. util' = [util EXCEPT ![u] = x]
  BY <1>1 DEF OfflineBlock, UtilInv
<1>4. /\ x \in Util /\ x.pc = "offline" /\ x.i = w.i + 1
      /\ x.n = w.n /\ x.bitmap = w.bitmap /\ x.reg_start = w.reg_start
      /\ x.seen = w.seen /\ x.refused = w.refused
  <2> HIDE DEF w
  <2> QED
    BY <1>1, <1>2 DEF Util
<1> HIDE DEF x
<1>5. Moves(u, x)
  BY <1>3, <1>4 DEF Moves, UtilInv
<1>6. Good(x)
  BY <1>1, <1>2, <1>4 DEF Good, Found, run_blocks, NoRun
<1>7. state' \in [Blocks -> {"online", "offline"}]
  <2>1. \/ state' = state
        \/ state' = [state EXCEPT ![w.reg_start + w.i] = "offline"]
    BY DEF OfflineBlock
  <2> QED
    BY <2>1 DEF UtilInv
<1> QED
  BY <1>5, <1>6, <1>7, OneMoves

\* All blocks of the run were written to.
LEMMA OfflineEndInv ==
  ASSUME UtilInv, NEW u \in Utilities, OfflineEnd(u)
  PROVE  UtilInv'
<1> DEFINE w == util[u]
           x == [w EXCEPT !.pc = "check", !.i = 0]
<1>1. w \in Util /\ Good(w) /\ w.pc = "offline"
  BY DEF UtilInv, OfflineEnd
<1>2. /\ w.n \in Nat /\ w.i \in Nat /\ w.j \in Nat /\ w.reg_start \in Nat /\ w.run_len \in Nat
      /\ w.bitmap \subseteq Blocks
  BY <1>1, UtilFields
<1>3. util' = [util EXCEPT ![u] = x]
  BY <1>1 DEF OfflineEnd, UtilInv
<1>4. /\ x \in Util /\ x.pc = "check" /\ x.i = 0
      /\ x.n = w.n /\ x.bitmap = w.bitmap /\ x.reg_start = w.reg_start
      /\ x.seen = w.seen /\ x.refused = w.refused
  <2> HIDE DEF w
  <2> QED
    BY <1>1, <1>2 DEF Util
<1> HIDE DEF x
<1>5. Moves(u, x)
  BY <1>3, <1>4 DEF Moves, UtilInv
<1>6. Good(x)
  BY <1>1, <1>2, <1>4 DEF Good, Found, run_blocks, NoRun
<1>7. state' \in [Blocks -> {"online", "offline"}]
  BY DEF UtilInv, OfflineEnd
<1> QED
  BY <1>5, <1>6, <1>7, OneMoves

\* A block is offline indeed.
LEMMA CheckBlockInv ==
  ASSUME UtilInv, NEW u \in Utilities, CheckBlock(u)
  PROVE  UtilInv'
<1> DEFINE w == util[u]
           x == [w EXCEPT !.i = w.i + 1]
<1>1. w \in Util /\ Good(w) /\ w.pc = "check" /\ w.i < w.n
  BY DEF UtilInv, CheckBlock
<1>2. /\ w.n \in Nat /\ w.i \in Nat /\ w.j \in Nat /\ w.reg_start \in Nat /\ w.run_len \in Nat
      /\ w.bitmap \subseteq Blocks
  BY <1>1, UtilFields
<1>3. util' = [util EXCEPT ![u] = x]
  BY <1>1 DEF CheckBlock, UtilInv
<1>4. /\ x \in Util /\ x.pc = "check" /\ x.i = w.i + 1
      /\ x.n = w.n /\ x.bitmap = w.bitmap /\ x.reg_start = w.reg_start
      /\ x.seen = w.seen /\ x.refused = w.refused
  <2> HIDE DEF w
  <2> QED
    BY <1>1, <1>2 DEF Util
<1> HIDE DEF x
<1>5. Moves(u, x)
  BY <1>3, <1>4 DEF Moves, UtilInv
<1>6. Good(x)
  BY <1>1, <1>2, <1>4 DEF Good, Found, run_blocks, NoRun
<1>7. state' \in [Blocks -> {"online", "offline"}]
  BY DEF UtilInv, CheckBlock
<1> QED
  BY <1>5, <1>6, <1>7, OneMoves

\* Linux did not obey.
LEMMA CheckRefusedInv ==
  ASSUME UtilInv, NEW u \in Utilities, CheckRefused(u)
  PROVE  UtilInv'
<1> DEFINE w == util[u]
           x == [w EXCEPT !.pc = "online", !.bitmap = w.bitmap \ {w.reg_start + w.i},
                     !.refused = w.refused \cup {w.reg_start + w.i}, !.j = 0]
<1>1. w \in Util /\ Good(w) /\ w.pc = "check" /\ w.i < w.n
  BY DEF UtilInv, CheckRefused, mark_refused
<1>2. /\ w.n \in Nat /\ w.i \in Nat /\ w.j \in Nat /\ w.reg_start \in Nat /\ w.run_len \in Nat
      /\ w.bitmap \subseteq Blocks
  BY <1>1, UtilFields
<1>3. util' = [util EXCEPT ![u] = x]
  BY <1>1 DEF CheckRefused, mark_refused, UtilInv
<1>4. /\ x \in Util /\ x.pc = "online" /\ x.i = w.i /\ x.j = 0
      /\ x.n = w.n /\ x.bitmap = w.bitmap \ {w.reg_start + w.i} /\ x.reg_start = w.reg_start
      /\ x.seen = w.seen /\ x.refused = w.refused \cup {w.reg_start + w.i}
  <2>1. w.refused \cup {w.reg_start + w.i} \in SUBSET Nat
    BY <1>1, <1>2, UtilFields
  <2>2. w.bitmap \ {w.reg_start + w.i} \in SUBSET Blocks
    BY <1>2
  <2> HIDE DEF w
  <2> QED
    BY <1>1, <2>1, <2>2 DEF Util
<1> HIDE DEF x
<1>5. Moves(u, x)
  BY <1>3, <1>4 DEF Moves, UtilInv
<1>6. Good(x)
  <2>1. Undoing(x)
    BY <1>1, <1>4, RefusedFound DEF Good
  <2>2. x.bitmap = x.seen \ x.refused
    BY <1>1, <1>4 DEF Good
  <2> QED
    BY <1>1, <1>2, <1>4, <2>1, <2>2 DEF Good
<1>7. state' \in [Blocks -> {"online", "offline"}]
  BY DEF UtilInv, CheckRefused
<1> QED
  BY <1>5, <1>6, <1>7, OneMoves

\* A block is put back online.
LEMMA OnlineBlockInv ==
  ASSUME UtilInv, NEW u \in Utilities, OnlineBlock(u)
  PROVE  UtilInv'
<1> DEFINE w == util[u]
           x == [w EXCEPT !.j = w.j + 1]
<1>1. w \in Util /\ Good(w) /\ w.pc = "online" /\ w.j < w.i
  BY DEF UtilInv, OnlineBlock
<1>2. /\ w.n \in Nat /\ w.i \in Nat /\ w.j \in Nat /\ w.reg_start \in Nat /\ w.run_len \in Nat
      /\ w.bitmap \subseteq Blocks
  BY <1>1, UtilFields
<1>3. util' = [util EXCEPT ![u] = x]
  BY <1>1 DEF OnlineBlock, UtilInv
<1>4. /\ x \in Util /\ x.pc = "online" /\ x.i = w.i /\ x.j = w.j + 1
      /\ x.n = w.n /\ x.bitmap = w.bitmap /\ x.reg_start = w.reg_start
      /\ x.seen = w.seen /\ x.refused = w.refused
  <2> HIDE DEF w
  <2> QED
    BY <1>1, <1>2 DEF Util
<1> HIDE DEF x
<1>5. Moves(u, x)
  BY <1>3, <1>4 DEF Moves, UtilInv
<1>6. Good(x)
  BY <1>1, <1>2, <1>4 DEF Good, Undoing, NoRun
<1>7. state' \in [Blocks -> {"online", "offline"}]
  <2>1. \/ state' = state
        \/ state' = [state EXCEPT ![w.reg_start + w.j] = "online"]
    BY DEF OnlineBlock
  <2> QED
    BY <2>1 DEF UtilInv
<1> QED
  BY <1>5, <1>6, <1>7, OneMoves

\* The search starts again.
LEMMA RetryInv ==
  ASSUME UtilInv, NEW u \in Utilities, Retry(u)
  PROVE  UtilInv'
<1> DEFINE w == util[u]
           x == [w EXCEPT !.pc = "search", !.i = 0, !.run_len = 0]
<1>1. w \in Util /\ Good(w) /\ w.pc = "online"
  BY DEF UtilInv, Retry
<1>2. /\ w.n \in Nat /\ w.i \in Nat /\ w.j \in Nat /\ w.reg_start \in Nat /\ w.run_len \in Nat
      /\ w.bitmap \subseteq Blocks
  BY <1>1, UtilFields
<1>3. util' = [util EXCEPT ![u] = x]
  BY <1>1 DEF Retry, UtilInv
<1>4. /\ x \in Util /\ x.pc = "search" /\ x.i = 0 /\ x.run_len = 0
      /\ x.n = w.n /\ x.bitmap = w.bitmap /\ x.reg_start = w.reg_start
      /\ x.seen = w.seen /\ x.refused = w.refused
  <2>1. 0 \in 0 .. bitmap_entries
    BY Entries
  <2> HIDE DEF w
  <2> QED
    BY <1>1, <2>1 DEF Util
<1> HIDE DEF x
<1>5. Moves(u, x)
  BY <1>3, <1>4 DEF Moves, UtilInv
<1>6. Good(x)
  <2>1. NoRun(x, x.reg_start)
    BY <1>1, <1>4 DEF Good, Undoing, NoRun
  <2>2. Searching(x)
    BY <1>4, <2>1, SearchStarts
  <2> QED
    BY <1>1, <1>4, <2>2 DEF Good
<1>7. state' \in [Blocks -> {"online", "offline"}]
  BY DEF UtilInv, Retry
<1> QED
  BY <1>5, <1>6, <1>7, OneMoves

\* A process ends.
LEMMA EndInv ==
  ASSUME UtilInv, NEW u \in Utilities, NEW how \in {"done", "killed", "nodevice"},
         util' = [util EXCEPT ![u] = ended(how)], state' = state
  PROVE  UtilInv'
<1>1. /\ ended(how) \in Util /\ ended(how).pc = how /\ ended(how).i = 0 /\ ended(how).n = 0
      /\ ended(how).bitmap = {} /\ ended(how).seen = {} /\ ended(how).refused = {}
  BY Entries DEF ended, not_started, Util
<1>2. Moves(u, ended(how))
  BY <1>1 DEF Moves, UtilInv
<1>3. Good(ended(how))
  BY <1>1 DEF Good
<1> QED
  BY <1>2, <1>3, OneMoves DEF UtilInv

\* The blocks go to the module, if there is one.
LEMMA GiveInv ==
  ASSUME UtilInv, NEW u \in Utilities, Give(u)
  PROVE  UtilInv'
<1> DEFINE w == util[u]
           x == [w EXCEPT !.pc = "adding"]
<1>1. w \in Util /\ Good(w) /\ w.pc = "check" /\ state' = state
  BY DEF UtilInv, Give
<1>2. CASE util' = [util EXCEPT ![u] = ended("nodevice")]
  BY <1>1, <1>2, EndInv
<1>3. CASE util' = [util EXCEPT ![u].pc = "adding"]
  <2>1. util' = [util EXCEPT ![u] = x]
    BY <1>3
  <2>2. /\ x \in Util /\ x.pc = "adding" /\ x.i = w.i
        /\ x.n = w.n /\ x.bitmap = w.bitmap /\ x.reg_start = w.reg_start
        /\ x.seen = w.seen /\ x.refused = w.refused
    <3> HIDE DEF w
    <3> QED
      BY <1>1 DEF Util
  <2> HIDE DEF x
  <2>3. Moves(u, x)
    BY <2>1, <2>2 DEF Moves, UtilInv
  <2>4. Good(x)
    BY <1>1, <2>2 DEF Good
  <2> QED
    BY <1>1, <2>3, <2>4, OneMoves DEF UtilInv
<1> QED
  BY <1>2, <1>3 DEF Give

\* Every step keeps the invariant of the utility.
LEMMA NextUtil ==
  ASSUME UtilInv, [Next]_vars
  PROVE  UtilInv'
<1>1. CASE util' = util /\ state' = state
  BY <1>1 DEF UtilInv, Good, Searching, Found, Undoing, Hopeless, NoRun, run_blocks
<1>2. ASSUME NEW u \in Utilities, NEW size \in Sizes, Start(u, size) PROVE UtilInv'
  BY <1>2, StartInv
<1>3. ASSUME NEW u \in Utilities, UtilityStep(u) PROVE UtilInv'
  <2>1. CASE Done(u)
    BY <2>1, EndInv DEF Done
  <2> QED
    BY <1>3, <2>1, ScanInv, SearchInv, OfflineBlockInv, OfflineEndInv, CheckBlockInv,
       CheckRefusedInv, OnlineBlockInv, RetryInv, GiveInv DEF UtilityStep
<1>4. ASSUME NEW u \in Utilities, Kill(u) PROVE UtilInv'
  BY <1>4, EndInv DEF Kill
<1>5. CASE PoolStep \/ ModuleInit \/ ModuleExit \/ UNCHANGED vars
  BY <1>1, <1>5 DEF PoolStep, ModuleInit, ModuleExit, vars
<1> QED
  BY <1>2, <1>3, <1>4, <1>5 DEF Next

\* The utility starts with nothing.
LEMMA InitUtil ==
  ASSUME Init
  PROVE  UtilInv
<1>1. state = [b \in Blocks |-> "online"] /\ util = [u \in Utilities |-> not_started]
  BY DEF Init
<1>2. /\ not_started \in Util /\ not_started.pc = "none" /\ not_started.i = 0
      /\ not_started.n = 0 /\ not_started.run_len = 0 /\ not_started.reg_start = 0
      /\ not_started.bitmap = {} /\ not_started.seen = {} /\ not_started.refused = {}
  BY Entries DEF not_started, Util
<1>3. Good(not_started)
  BY <1>2 DEF Good
<1> QED
  BY <1>1, <1>2, <1>3 DEF UtilInv

-----------------------------------------------------------------------------
(* Linux and petmem. *)

\* The pages of a run of blocks are in these blocks.
LEMMA PagesOfBlocks ==
  ASSUME NEW b \in Nat, NEW n \in Nat,
         NEW page \in range_pages(<<b * BlockPages, n * BlockPages>>)
  PROVE  page \in Nat /\ page \div BlockPages \in b .. b + n - 1
<1> DEFINE d == BlockPages
           q == page \div d
           r == page % d
<1>1. d \in Nat \ {0}
  BY BlocksAssumption
<1>2. b * d \in Nat /\ n * d \in Nat
  BY <1>1
<1>3. page \in Nat /\ b * d =< page /\ page < b * d + n * d
  BY <1>2 DEF range_pages
<1>4. q \in Nat /\ r \in 0 .. d - 1 /\ page = d * q + r
  BY <1>1, <1>3
<1> HIDE DEF q, r, d
<1>5. q >= b
  <2>1. SUFFICES ASSUME q + 1 =< b PROVE FALSE
    BY <1>4
  <2>2. PICK k \in Nat : b = q + 1 + k
    <3>1. b - (q + 1) \in Nat /\ b = q + 1 + (b - (q + 1))
      BY <1>4, <2>1
    <3> QED
      BY <3>1
  <2>3. b * d = d * q + d + k * d /\ k * d \in Nat /\ d * q \in Nat
    BY <1>1, <1>4, <2>2
  <2> QED
    BY <1>1, <1>2, <1>3, <1>4, <2>3
<1>6. q < b + n
  <2>1. SUFFICES ASSUME q >= b + n PROVE FALSE
    BY <1>4
  <2>2. PICK k \in Nat : q = b + n + k
    <3>1. q - (b + n) \in Nat /\ q = b + n + (q - (b + n))
      BY <1>4, <2>1
    <3> QED
      BY <3>1
  <2>3. d * q = b * d + n * d + k * d /\ k * d \in Nat /\ d * q \in Nat
    BY <1>1, <1>4, <2>2
  <2> QED
    BY <1>1, <1>2, <1>3, <1>4, <2>3
<1>7. q \in b .. b + n - 1
  BY <1>4, <1>5, <1>6
<1> QED
  BY <1>3, <1>7 DEF q, d

\* A step of process u that adds no memory.
LEMMA ApartMoves ==
  ASSUME ApartInv, NEW u \in Utilities, added' = added,
         \A v \in Utilities : v # u => util'[v] = util[v],
         Active(u) \/ \A v \in Utilities : ~Active(v),
         util'[u].pc \in {"search", "offline", "check", "online"} =>
           \A page \in Added : page \div BlockPages \notin util'[u].seen,
         util'[u].pc = "check" =>
           \A b \in util'[u].reg_start .. util'[u].reg_start + util'[u].i - 1 :
             state'[b] = "offline",
         \A page \in Added : state'[page \div BlockPages] = "offline"
  PROVE  ApartInv'
<1>1. Added' = Added
  BY DEF Added
<1>2. \A v \in Utilities : v # u => ~Active(v) /\ ~Active(v)' /\ util'[v] = util[v]
  BY DEF ApartInv, Active
<1>3. \A v, t \in Utilities : Active(v)' /\ Active(t)' => v = t
  BY <1>2
<1>4. \A v \in Utilities : v # u => util'[v].pc \notin {"search", "offline", "check", "online"}
  BY <1>2 DEF Active
<1>5. \A page \in Added' : /\ page \div BlockPages \in Blocks
                           /\ state'[page \div BlockPages] = "offline"
  BY <1>1 DEF ApartInv
<1>6. ASSUME NEW v \in Utilities, util'[v].pc \in {"search", "offline", "check", "online"}
      PROVE  \A page \in Added' : page \div BlockPages \notin util'[v].seen
  BY <1>1, <1>4, <1>6
<1>7. ASSUME NEW v \in Utilities, util'[v].pc = "check"
      PROVE  \A b \in util'[v].reg_start .. util'[v].reg_start + util'[v].i - 1 :
               state'[b] = "offline"
  BY <1>4, <1>7
<1> QED
  BY <1>3, <1>5, <1>6, <1>7 DEF ApartInv

\* A step that leaves the utility and the blocks alone.
LEMMA ApartStays ==
  ASSUME ApartInv, util' = util, state' = state, Added' \subseteq Added
  PROVE  ApartInv'
BY DEF ApartInv, Active

\* A process of the utility starts when no other runs.
LEMMA StartApart ==
  ASSUME UtilInv, ApartInv, NEW u \in Utilities, NEW size \in Sizes, Start(u, size),
         \A v \in Utilities : ~Active(v)
  PROVE  ApartInv'
<1>1. /\ util' = [util EXCEPT ![u].pc = "scan", ![u].n = num_blocks(size)]
      /\ state' = state /\ added' = added
  BY DEF Start, pool_vars
<1>2. util'[u].pc = "scan" /\ \A v \in Utilities : v # u => util'[v] = util[v]
  BY <1>1 DEF UtilInv, Util
<1> QED
  BY <1>1, <1>2, ApartMoves DEF ApartInv

\* What is called removable is not petmem's.
LEMMA ScanApart ==
  ASSUME UtilInv, ApartInv, NotReoffered, NEW u \in Utilities, ScanRemovable(u)
  PROVE  ApartInv'
<1>1. PICK bitmap \in SUBSET {b \in scanned : state[b] = "online" \/ OfflineRemovable} :
        /\ util' = [util EXCEPT ![u].pc = "search", ![u].bitmap = bitmap, ![u].seen = bitmap]
        /\ util[u].pc = "scan" /\ state' = state /\ added' = added
  BY Zenon DEF ScanRemovable, pool_vars
<1>2. /\ util'[u].pc = "search" /\ util'[u].seen = bitmap
      /\ \A v \in Utilities : v # u => util'[v] = util[v]
  BY <1>1 DEF UtilInv, Util
<1>3. \A page \in Added : page \div BlockPages \notin util'[u].seen
  <2>1. CASE OfflineRemovable
    BY <2>1 DEF NotReoffered
  <2>2. CASE ~OfflineRemovable
    BY <1>1, <1>2, <2>2 DEF ApartInv
  <2> QED
    BY <2>1, <2>2
<1>4. Active(u)
  BY <1>1 DEF Active
<1> QED
  BY <1>1, <1>2, <1>3, <1>4, ApartMoves DEF ApartInv

\* The search, and the ends of the loops, change only the process's locals.
LEMMA LocalApart ==
  ASSUME UtilInv, ApartInv, NEW u \in Utilities,
         SearchHole(u) \/ SearchBlock(u) \/ SearchEnd(u) \/ OfflineEnd(u) \/ CheckRefused(u)
           \/ Retry(u)
  PROVE  ApartInv'
<1>1. /\ util[u] \in Util /\ state' = state /\ added' = added
      /\ util[u].pc \in {"search", "offline", "check", "online"}
  BY DEF SearchHole, SearchBlock, SearchEnd, OfflineEnd, CheckRefused, Retry, UtilInv, pool_vars
<1>2. Active(u) /\ \A page \in Added : page \div BlockPages \notin util[u].seen
  BY <1>1 DEF Active, ApartInv
<1>3. \A v \in Utilities : v # u => util'[v] = util[v]
  BY DEF SearchHole, SearchBlock, SearchEnd, OfflineEnd, CheckRefused, Retry, UtilInv
<1>4. util'[u].seen = util[u].seen
  BY <1>1 DEF SearchHole, SearchBlock, SearchEnd, OfflineEnd, CheckRefused, Retry, UtilInv, Util
<1>5. util'[u].pc = "check" => util'[u].i = 0 /\ util'[u].reg_start = util[u].reg_start
  BY <1>1 DEF SearchHole, SearchBlock, SearchEnd, OfflineEnd, CheckRefused, Retry, UtilInv, Util
<1>6. ASSUME util'[u].pc = "check"
      PROVE  \A b \in util'[u].reg_start .. util'[u].reg_start + util'[u].i - 1 :
               state'[b] = "offline"
  BY <1>1, <1>5, <1>6, UtilFields
<1> QED
  BY <1>1, <1>2, <1>3, <1>4, <1>6, ApartMoves DEF ApartInv

\* Taking a block offline takes no block of petmem's online.
LEMMA OfflineApart ==
  ASSUME UtilInv, ApartInv, NEW u \in Utilities, OfflineBlock(u)
  PROVE  ApartInv'
<1>1. /\ util[u] \in Util /\ added' = added /\ util[u].pc = "offline"
      /\ util' = [util EXCEPT ![u].i = @ + 1]
      /\ state' = state \/ state' = [state EXCEPT ![util[u].reg_start + util[u].i] = "offline"]
  BY DEF OfflineBlock, UtilInv, pool_vars
<1>2. Active(u) /\ \A page \in Added : page \div BlockPages \notin util[u].seen
  BY <1>1 DEF Active, ApartInv
<1>3. /\ \A v \in Utilities : v # u => util'[v] = util[v]
      /\ util'[u].seen = util[u].seen /\ util'[u].pc = "offline"
  BY <1>1 DEF UtilInv, Util
<1>4. \A page \in Added : state'[page \div BlockPages] = "offline"
  BY <1>1 DEF ApartInv, UtilInv
<1> QED
  BY <1>1, <1>2, <1>3, <1>4, ApartMoves

\* One more block was seen to be offline.
LEMMA CheckApart ==
  ASSUME UtilInv, ApartInv, NEW u \in Utilities, CheckBlock(u)
  PROVE  ApartInv'
<1>1. /\ util[u] \in Util /\ added' = added /\ util[u].pc = "check" /\ state' = state
      /\ util' = [util EXCEPT ![u].i = @ + 1]
      /\ state[util[u].reg_start + util[u].i] = "offline"
  BY DEF CheckBlock, is_offline, UtilInv, pool_vars
<1>2. /\ Active(u) /\ \A page \in Added : page \div BlockPages \notin util[u].seen
      /\ \A b \in util[u].reg_start .. util[u].reg_start + util[u].i - 1 : state[b] = "offline"
  BY <1>1 DEF Active, ApartInv
<1>3. /\ \A v \in Utilities : v # u => util'[v] = util[v]
      /\ util'[u].seen = util[u].seen /\ util'[u].i = util[u].i + 1
      /\ util'[u].reg_start = util[u].reg_start
  BY <1>1 DEF UtilInv, Util
<1>4. ASSUME NEW b \in util'[u].reg_start .. util'[u].reg_start + util'[u].i - 1
      PROVE  state'[b] = "offline"
  <2>1. util[u].reg_start \in Nat /\ util[u].i \in Nat
    BY <1>1, UtilFields
  <2>2. \/ b \in util[u].reg_start .. util[u].reg_start + util[u].i - 1
        \/ b = util[u].reg_start + util[u].i
    BY <1>3, <2>1
  <2> QED
    BY <1>1, <1>2, <2>2
<1> QED
  BY <1>1, <1>2, <1>3, <1>4, ApartMoves DEF ApartInv

\* What goes back online was a candidate, so it is not petmem's.
LEMMA OnlineApart ==
  ASSUME UtilInv, ApartInv, NEW u \in Utilities, OnlineBlock(u)
  PROVE  ApartInv'
<1>1. /\ util[u] \in Util /\ added' = added /\ util[u].pc = "online" /\ util[u].j < util[u].i
      /\ util' = [util EXCEPT ![u].j = @ + 1]
      /\ state' = state \/ state' = [state EXCEPT ![util[u].reg_start + util[u].j] = "online"]
  BY DEF OnlineBlock, UtilInv, pool_vars
<1>2. Active(u) /\ \A page \in Added : page \div BlockPages \notin util[u].seen
  BY <1>1 DEF Active, ApartInv
<1>3. /\ \A v \in Utilities : v # u => util'[v] = util[v]
      /\ util'[u].seen = util[u].seen /\ util'[u].pc = "online"
  BY <1>1 DEF UtilInv, Util
<1>4. util[u].reg_start + util[u].j \in util[u].seen
  <2>1. util[u].reg_start \in Nat /\ util[u].i \in Nat /\ util[u].j \in Nat
    BY <1>1, UtilFields
  <2>2. Undoing(util[u]) /\ util[u].bitmap \subseteq util[u].seen
    BY <1>1 DEF UtilInv, Good
  <2>3. util[u].reg_start + util[u].j \in util[u].reg_start .. util[u].reg_start + util[u].i - 1
    BY <1>1, <2>1
  <2> QED
    BY <2>2, <2>3 DEF Undoing
<1>5. \A page \in Added : state'[page \div BlockPages] = "offline"
  BY <1>1, <1>2, <1>4 DEF ApartInv, UtilInv
<1> QED
  BY <1>1, <1>2, <1>3, <1>5, ApartMoves

\* A process ends.
LEMMA EndApart ==
  ASSUME UtilInv, ApartInv, NEW u \in Utilities, Active(u), added' = added, state' = state,
         NEW how \in {"done", "killed", "nodevice"}, util' = [util EXCEPT ![u] = ended(how)]
  PROVE  ApartInv'
<1>1. util'[u].pc = how /\ \A v \in Utilities : v # u => util'[v] = util[v]
  BY DEF UtilInv, ended, not_started
<1> QED
  BY <1>1, ApartMoves DEF ApartInv

\* What the utility gives is new, in a range that may be given, and offline.
LEMMA GivenIsNew ==
  ASSUME UtilInv, ApartInv, NEW u \in Utilities, util[u].pc = "check", util[u].i = util[u].n
  PROVE  /\ given(util[u]) \in Ranges /\ range_pages(given(util[u])) \cap Added = {}
         /\ \A page \in range_pages(given(util[u])) : /\ page \div BlockPages \in Blocks
                                                      /\ state[page \div BlockPages] = "offline"
<1> DEFINE w == util[u]
<1>1. w \in Util /\ Good(w)
  BY DEF UtilInv
<1>2. /\ w.n \in Nat /\ w.reg_start \in Nat /\ w.reg_start \in 0 .. bitmap_entries
      /\ w.bitmap \subseteq Blocks /\ w.bitmap \subseteq w.seen
  BY <1>1, UtilFields DEF Good
<1>3. PICK size \in Sizes : w.n = num_blocks(size)
  BY <1>1 DEF Good
<1>4. given(w) \in Ranges
  BY <1>2, <1>3, RunsAssumption DEF given
<1>5. w.reg_start .. w.reg_start + w.n - 1 \subseteq w.bitmap
  BY <1>1 DEF Good, Found, run_blocks
<1>6. ASSUME NEW page \in range_pages(given(w))
      PROVE  page \div BlockPages \in w.reg_start .. w.reg_start + w.n - 1
  BY <1>2, <1>6, PagesOfBlocks DEF given
<1>7. ASSUME NEW page \in range_pages(given(w))
      PROVE  /\ page \notin Added /\ page \div BlockPages \in Blocks
             /\ state[page \div BlockPages] = "offline"
  BY <1>2, <1>5, <1>6, <1>7 DEF ApartInv
<1> QED
  BY <1>4, <1>7

\* The blocks become petmem's.
LEMMA GiveApart ==
  ASSUME UtilInv, ApartInv, NEW u \in Utilities, Give(u)
  PROVE  ApartInv'
<1>1. util[u].pc = "check" /\ state' = state /\ util[u].i = util[u].n /\ Active(u)
  BY DEF Give, Active
<1>2. CASE driver # "live"
  <2>1. util' = [util EXCEPT ![u] = ended("nodevice")] /\ added' = added
    BY <1>2 DEF Give, pool_vars
  <2> QED
    BY <1>1, <2>1, EndApart
<1>3. CASE driver = "live"
  <2>1. AddMemory(given(util[u])) /\ util' = [util EXCEPT ![u].pc = "adding"]
    BY <1>3 DEF Give
  <2>2. Added' = Added \cup range_pages(given(util[u]))
    BY <2>1 DEF AddMemory, Added
  <2>3. \A page \in Added' : /\ page \div BlockPages \in Blocks
                             /\ state'[page \div BlockPages] = "offline"
    BY <1>1, <2>2, GivenIsNew DEF ApartInv
  <2>4. util'[u].pc = "adding" /\ \A v \in Utilities : v # u => util'[v] = util[v]
    BY <2>1 DEF UtilInv, Util
  <2>5. \A v \in Utilities : v # u => ~Active(v) /\ ~Active(v)'
    BY <1>1, <2>4 DEF ApartInv, Active
  <2>6. \A v \in Utilities : util'[v].pc \notin {"search", "offline", "check", "online"}
    BY <2>4, <2>5 DEF Active
  <2>7. \A v, t \in Utilities : Active(v)' /\ Active(t)' => v = t
    BY <2>5
  <2> QED
    BY <2>3, <2>6, <2>7 DEF ApartInv
<1> QED
  BY <1>2, <1>3

\* Every step keeps Linux and petmem apart.
LEMMA NextApart ==
  ASSUME UtilInv, ApartInv, [Next]_vars, [NotReoffered]_vars,
         \A u \in Utilities, size \in Sizes : Start(u, size) => \A v \in Utilities : ~Active(v)
  PROVE  ApartInv'
<1>1. ASSUME NEW u \in Utilities, NEW size \in Sizes, Start(u, size) PROVE ApartInv'
  BY <1>1, StartApart
<1>2. ASSUME NEW u \in Utilities, UtilityStep(u), NotReoffered PROVE ApartInv'
  <2>1. CASE Done(u)
    <3>1. Active(u) /\ added' = added /\ state' = state /\ util' = [util EXCEPT ![u] = ended("done")]
      BY <2>1 DEF Done, Active, pool_vars
    <3> QED
      BY <3>1, EndApart
  <2> QED
    BY <1>2, <2>1, ScanApart, LocalApart, OfflineApart, CheckApart, OnlineApart, GiveApart
       DEF UtilityStep
<1>3. ASSUME NEW u \in Utilities, Kill(u) PROVE ApartInv'
  <2>1. /\ Active(u) /\ added' = added /\ state' = state
        /\ util' = [util EXCEPT ![u] = ended("killed")]
    BY <1>3 DEF Kill, pool_vars
  <2> QED
    BY <2>1, EndApart
<1>4. CASE ModuleExit
  <2>1. util' = util /\ state' = state /\ added' = {}
    BY <1>4 DEF ModuleExit, Unload
  <2>2. Added' \subseteq Added
    BY <2>1 DEF Added
  <2> QED
    BY <2>1, <2>2, ApartStays
<1>5. CASE PoolStep \/ ModuleInit \/ UNCHANGED vars
  <2>1. util' = util /\ state' = state /\ added' = added
    BY <1>5 DEF PoolStep, ModuleInit, vars, pool_vars, AddPool, AllocPage, AllocNull, FreePage
  <2>2. Added' \subseteq Added
    BY <2>1 DEF Added
  <2> QED
    BY <2>1, <2>2, ApartStays
<1> QED
  BY <1>1, <1>2, <1>3, <1>4, <1>5 DEF Next

\* Every step is one of the pools with callers that add no memory twice, or
\* none that the pools see.
LEMMA NextPools ==
  ASSUME UtilInv, ApartInv, [Next]_vars
  PROVE  [PoolNext]_pool_vars
<1>1. ASSUME NEW u \in Utilities, Give(u) PROVE [PoolNext]_pool_vars
  <2>1. CASE driver # "live"
    BY <1>1, <2>1 DEF Give
  <2>2. CASE driver = "live"
    <3>1. AddMemory(given(util[u])) /\ util[u].pc = "check" /\ util[u].i = util[u].n
      BY <1>1, <2>2 DEF Give
    <3>2. given(util[u]) \in Ranges /\ range_pages(given(util[u])) \cap Added = {}
      BY <3>1, GivenIsNew
    <3> QED
      BY <3>1, <3>2 DEF PoolNext
  <2> QED
    BY <2>1, <2>2
<1>2. ASSUME NEW u \in Utilities, UtilityStep(u), ~Give(u) PROVE UNCHANGED pool_vars
  BY <1>2 DEF UtilityStep, ScanRemovable, SearchHole, SearchBlock, SearchEnd, OfflineBlock,
              OfflineEnd, CheckBlock, CheckRefused, OnlineBlock, Retry, Done
<1>3. ASSUME NEW u \in Utilities, NEW size \in Sizes, Start(u, size) PROVE UNCHANGED pool_vars
  BY <1>3 DEF Start
<1>4. ASSUME NEW u \in Utilities, Kill(u) PROVE UNCHANGED pool_vars
  BY <1>4 DEF Kill
<1>5. CASE PoolStep
  BY <1>5 DEF PoolStep, PoolNext
<1>6. CASE ModuleInit \/ UNCHANGED vars
  BY <1>6 DEF ModuleInit, vars
<1>7. CASE ModuleExit
  BY <1>7 DEF ModuleExit, PoolNext
<1> QED
  BY <1>1, <1>2, <1>3, <1>4, <1>5, <1>6, <1>7 DEF Next

-----------------------------------------------------------------------------
(* The theorems about the control utility. *)

\* The invariant of the utility, for any number of its processes at a time.
LEMMA UtilityInvariant == Spec => []UtilInv
<1>1. Init => UtilInv
  BY InitUtil
<1>2. UtilInv /\ [Next]_vars => UtilInv'
  BY NextUtil
<1> QED
  BY <1>1, <1>2, PTL DEF Spec

\* What the search finds is a run of candidates, though reg_start is not reset
\* when the search starts again, and even if processes of the utility overlap.
THEOREM UtilityRunRemovable == Spec => []RunRemovable
<1>1. UtilInv => RunRemovable
  BY DEF UtilInv, RunRemovable, Good, Found
<1> QED
  BY <1>1, UtilityInvariant, PTL

\* The utility gives up only if every window of n blocks has one that was not
\* removable or that Linux refused.
THEOREM UtilityGivesUp == Spec => []GivesUpOnlyWhenNone
<1>1. UtilInv => GivesUpOnlyWhenNone
  BY DEF UtilInv, GivesUpOnlyWhenNone, Good, Hopeless
<1> QED
  BY <1>1, UtilityInvariant, PTL

\* At first nothing was added and nobody runs.
LEMMA InitApart ==
  ASSUME Init
  PROVE  ApartInv /\ PoolInv /\ added = {}
<1>1. \A u \in Utilities : util[u].pc = "none"
  BY DEF Init, not_started
<1>2. added = {} /\ Added = {}
  BY DEF Init, PoolInit, Added
<1> QED
  BY <1>1, <1>2, PoolInitInv DEF Init, ApartInv, Active

\* The whole invariant.
LEMMA WholeInvariant ==
  ASSUME OneAtATime
  PROVE  Spec /\ [][NotReoffered]_vars => [](UtilInv /\ ApartInv /\ PoolInv)
<1>1. Init => UtilInv /\ ApartInv /\ PoolInv
  BY InitUtil, InitApart
<1>2. UtilInv /\ ApartInv /\ PoolInv /\ [Next]_vars /\ [NotReoffered]_vars
        => (UtilInv /\ ApartInv /\ PoolInv)'
  <2>1. \A u \in Utilities, size \in Sizes : Start(u, size) => \A v \in Utilities : ~Active(v)
    BY DEF Start
  <2> QED
    BY <2>1, NextUtil, NextApart, NextPools, PoolNextInv
<1> QED
  BY <1>1, <1>2, PTL DEF Spec

\* The pools, the blocks and the utility's variables keep their types, as long
\* as no two processes of the utility overlap and Linux does not offer again
\* what the module already has.
THEOREM UtilityTypes ==
  ASSUME OneAtATime
  PROVE  Spec /\ [][NotReoffered]_vars => []TypeOK
<1>1. UtilInv /\ PoolInv => TypeOK
  <2>1. SUFFICES ASSUME UtilInv, PoolInv PROVE TypeOK
    OBVIOUS
  <2>2. PoolTypeOK
    <3>1. \A i \in DOMAIN pools : pools[i] \in Pool
      BY <2>1 DEF PoolInv
    <3> QED
      BY <2>1, <3>1, PoolFields DEF PoolInv, PoolTypeOK
  <2>3. ASSUME NEW u \in Utilities
        PROVE  /\ util[u].bitmap \subseteq Blocks /\ util[u].reg_start \in 0 .. bitmap_entries
               /\ util[u].run_len \in 0 .. bitmap_entries
               /\ util[u].i \in 0 .. IF util[u].pc = "search" THEN bitmap_entries ELSE util[u].n
    <3>1. util[u] \in Util /\ Good(util[u])
      BY <2>1 DEF UtilInv
    <3>2. util[u].i \in 0 .. IF util[u].pc = "search" THEN bitmap_entries ELSE util[u].n
      BY <3>1 DEF Good, Searching
    <3> QED
      BY <3>1, <3>2, UtilFields
  <2> QED
    BY <2>1, <2>2, <2>3 DEF UtilInv, TypeOK
<1> QED
  BY <1>1, WholeInvariant, PTL

\* Added memory that is offline is all there is in the pools.
LEMMA ApartMeansOffline ==
  ASSUME ApartInv, PoolInv
  PROVE  PooledOffline
<1>1. SUFFICES ASSUME NEW i \in DOMAIN pools, NEW page \in pages_of(pools[i])
               PROVE  state[page \div BlockPages] = "offline"
  BY DEF PooledOffline
<1>2. page \in Pooled
  BY Zenon DEF Pooled
<1>3. page \in Added
  BY <1>2 DEF PoolInv
<1> QED
  BY <1>3 DEF ApartInv

\* Linux and petmem never use the same memory, whatever Linux refuses,
\* whatever is put back online and whoever is killed, as long as no two
\* processes of the utility overlap and Linux does not offer again what the
\* module already has.
THEOREM UtilityPooledOffline ==
  ASSUME OneAtATime
  PROVE  Spec /\ [][NotReoffered]_vars => []PooledOffline
<1>1. ApartInv /\ PoolInv => PooledOffline
  BY ApartMeansOffline
<1> QED
  BY <1>1, WholeInvariant, PTL

\* Who has given memory to the module stays known.
GivenInv == (\A u \in Utilities : util[u].pc \notin {"adding", "done"}) => added = {}

\* How a step moves the processes of the utility: none is back before its
\* start or forgets that it has given memory, and nobody else adds any.
LEMMA UtilityMoves ==
  ASSUME UtilInv, [Next]_vars
  PROVE  /\ \A u \in Utilities : util[u].pc # "none" => util'[u].pc # "none"
         /\ \A u \in Utilities :
              util[u].pc \in {"adding", "done"} => util'[u].pc \in {"adding", "done"}
         /\ \/ added' = added \/ added' = {}
            \/ \E u \in Utilities : util'[u].pc = "adding"
<1> DEFINE Goal ==
      /\ \A u \in Utilities : util[u].pc # "none" => util'[u].pc # "none"
      /\ \A u \in Utilities :
           util[u].pc \in {"adding", "done"} => util'[u].pc \in {"adding", "done"}
      /\ \/ added' = added \/ added' = {}
         \/ \E u \in Utilities : util'[u].pc = "adding"
<1>0. util \in [Utilities -> Util]
  BY DEF UtilInv
<1>1. CASE PoolStep \/ ModuleInit \/ UNCHANGED vars
  BY <1>1 DEF PoolStep, ModuleInit, vars, pool_vars, AddPool, AllocPage, AllocNull, FreePage
<1>2. CASE ModuleExit
  BY <1>2 DEF ModuleExit, Unload
<1>3. ASSUME NEW u \in Utilities, NEW size \in Sizes, Start(u, size) PROVE Goal
  BY <1>0, <1>3 DEF Start, Util, pool_vars
<1>4. ASSUME NEW u \in Utilities,
             SearchHole(u) \/ SearchBlock(u) \/ SearchEnd(u) \/ OfflineBlock(u) \/ OfflineEnd(u)
      PROVE  Goal
  BY <1>0, <1>4 DEF SearchHole, SearchBlock, SearchEnd, OfflineBlock, OfflineEnd, Util, pool_vars
<1>5. ASSUME NEW u \in Utilities, CheckBlock(u) \/ CheckRefused(u) \/ OnlineBlock(u) \/ Retry(u)
      PROVE  Goal
  BY <1>0, <1>5 DEF CheckBlock, CheckRefused, OnlineBlock, Retry, Util, pool_vars
<1>6. ASSUME NEW u \in Utilities, ScanRemovable(u) PROVE Goal
  <2>1. PICK bitmap :
          /\ util' = [util EXCEPT ![u].pc = "search", ![u].bitmap = bitmap, ![u].seen = bitmap]
          /\ util[u].pc = "scan" /\ added' = added
    BY <1>6, Zenon DEF ScanRemovable, pool_vars
  <2> QED
    BY <1>0, <2>1 DEF Util
<1>7. ASSUME NEW u \in Utilities, NEW how \in {"killed", "nodevice", "done"},
             util' = [util EXCEPT ![u] = ended(how)], added' = added,
             how # "done" => util[u].pc # "adding" /\ util[u].pc # "done"
      PROVE  Goal
  <2>1. util'[u].pc = how /\ \A v \in Utilities : v # u => util'[v] = util[v]
    BY <1>0, <1>7 DEF ended, not_started
  <2> QED
    BY <1>7, <2>1
<1>8. ASSUME NEW u \in Utilities, Give(u) PROVE Goal
  <2>1. CASE driver = "live"
    BY <1>0, <1>8, <2>1 DEF Give, Util
  <2>2. CASE driver # "live"
    BY <1>7, <1>8, <2>2 DEF Give, pool_vars
  <2> QED
    BY <2>1, <2>2
<1>9. ASSUME NEW u \in Utilities, Done(u) \/ Kill(u) PROVE Goal
  BY <1>7, <1>9 DEF Done, Kill, Active, pool_vars
<1> QED
  BY <1>1, <1>2, <1>3, <1>4, <1>5, <1>6, <1>8, <1>9 DEF Next, UtilityStep

\* The first run of the utility never gives the module memory that Linux
\* uses, whatever Linux calls removable and refuses, and whoever is killed.
THEOREM UtilityFirstRun == Spec => [](FirstRun => PooledOffline)
<1>1. Init => UtilInv /\ GivenInv /\ (FirstRun => ApartInv /\ PoolInv)
  BY InitUtil, InitApart DEF GivenInv
<1>2. UtilInv /\ GivenInv /\ (FirstRun => ApartInv /\ PoolInv) /\ [Next]_vars
        => (UtilInv /\ GivenInv /\ (FirstRun => ApartInv /\ PoolInv))'
  <2>1. SUFFICES ASSUME UtilInv, GivenInv, FirstRun => ApartInv /\ PoolInv, [Next]_vars
                 PROVE  (UtilInv /\ GivenInv /\ (FirstRun => ApartInv /\ PoolInv))'
    OBVIOUS
  <2>2. UtilInv'
    BY <2>1, NextUtil
  <2>3. GivenInv'
    BY <2>1, UtilityMoves DEF GivenInv
  <2>4. ASSUME FirstRun' PROVE ApartInv' /\ PoolInv'
    <3>1. FirstRun
      BY <2>1, <2>4, UtilityMoves DEF FirstRun
    <3>2. \A u \in Utilities, size \in Sizes : Start(u, size) => \A v \in Utilities : ~Active(v)
      <4>1. SUFFICES ASSUME NEW u \in Utilities, NEW size \in Sizes, Start(u, size),
                            NEW v \in Utilities
                     PROVE  ~Active(v)
        OBVIOUS
      <4>2. util[u].pc = "none" /\ util'[u].pc = "scan"
        BY <2>1, <4>1 DEF Start, UtilInv, Util
      <4>3. util[v].pc = "none"
        BY <2>1, <2>4, <4>2, UtilityMoves DEF FirstRun
      <4> QED
        BY <4>3 DEF Active
    <3>3. NotReoffered
      <4>1. SUFFICES ASSUME NEW u \in Utilities, util[u].pc = "scan" PROVE Added = {}
        BY DEF NotReoffered, ScanRemovable
      <4>2. \A v \in Utilities : util[v].pc \notin {"adding", "done"}
        BY <3>1, <4>1 DEF FirstRun
      <4> QED
        BY <2>1, <4>2 DEF GivenInv, Added
    <3> QED
      BY <2>1, <3>1, <3>2, <3>3, NextApart, NextPools, PoolNextInv
  <2> QED
    BY <2>2, <2>3, <2>4
<1>3. (FirstRun => ApartInv /\ PoolInv) => (FirstRun => PooledOffline)
  BY ApartMeansOffline
<1> QED
  BY <1>1, <1>2, <1>3, PTL DEF Spec

\* The utility keeps the contract of ADD_MEMORY: what it adds is in no pool.
\* In the runs that come later this, too, needs processes that do not overlap
\* and a Linux that does not offer again what the module already has.
THEOREM UtilityAddsNew ==
  ASSUME OneAtATime
  PROVE  Spec /\ [][NotReoffered]_vars => AddsOnlyNewMemory
<1>1. Init => PoolInit
  BY DEF Init
<1>2. UtilInv /\ ApartInv /\ [Next]_vars => [PoolNext]_pool_vars
  BY NextPools
<1> QED
  BY <1>1, <1>2, WholeInvariant, PTL DEF Spec, AddsOnlyNewMemory, PoolSpec

\* So the pools partition what the utility adds, under these conditions.
THEOREM UtilityPoolsTile ==
  ASSUME OneAtATime
  PROVE  Spec /\ [][NotReoffered]_vars => []PoolsTile
BY UtilityAddsNew, PoolTiles, PTL DEF AddsOnlyNewMemory

\* And every page returns to the pool it came from, if no pool is as large as
\* the sign bit of an int.
THEOREM UtilityPagesAccounted ==
  ASSUME OneAtATime, BelowSign
  PROVE  Spec /\ [][NotReoffered]_vars => []PagesAccounted
BY UtilityAddsNew, PoolAccounts, PTL DEF AddsOnlyNewMemory
=============================================================================
