----------------------------- MODULE MkdirProofs ----------------------------
(***************************************************************************)
(* file_mkdir with recurse, for paths of any length: what a result of 0    *)
(* means.                                                                  *)
(***************************************************************************)
EXTENDS Mkdir, TLAPS

\* The directories of the first k names are there, up to one that was lost.
Made(k) == \A n \in 0 .. k : dir(n) \in exists \/ \E m \in 1 .. n : lost(m)

\* The loop has created all it has passed, and stops at names it creates.
MkdirInv ==
  /\ path \in Seq([len : Nat, printable : BOOLEAN]) /\ Len(path) >= 1
  /\ recurse \in BOOLEAN
  /\ pc \in {"start", "scan", "make", "done"}
  /\ 0 \in exists
  /\ pc = "start" => i = 1
  /\ pc = "scan" => recurse
  /\ recurse /\ pc \in {"scan", "make"} => i \in 1 .. Len(path) /\ Made(i - 1)
  /\ recurse /\ pc = "make" => i \in Names
  /\ recurse /\ pc = "done" /\ ret = 0 => Made(Len(path))

\* What comes before the first name.
LEMMA RootOfPath ==
  ASSUME MkdirInv
  PROVE  Made(0)
<1>1. {0} \cup {m \in Names : m <= 0} = {0}
  BY DEF Names, MkdirInv
<1>2. dir(0) = Max({0})
  BY <1>1 DEF dir
<1>3. Max({0}) = 0
  BY DEF Max
<1> QED
  BY <1>2, <1>3 DEF Made, MkdirInv

\* An empty name leads nowhere.
LEMMA EmptyName ==
  ASSUME MkdirInv, NEW n \in 1 .. Len(path), n \notin Names
  PROVE  dir(n) = dir(n - 1)
<1>1. Names \in SUBSET (1 .. Len(path)) /\ Len(path) \in Nat
  BY DEF Names, MkdirInv
<1>2. \A m \in Names : m <= n <=> m <= n - 1
  BY <1>1
<1>3. {m \in Names : m <= n} = {m \in Names : m <= n - 1}
  BY <1>2
<1> QED
  BY <1>3 DEF dir

\* Any other leads to a directory in the one of the name before.
LEMMA ParentOfName ==
  ASSUME MkdirInv, NEW n \in Names
  PROVE  dir(n) = n /\ parent(n) = dir(n - 1)
<1>1. Names \in SUBSET (1 .. Len(path)) /\ Len(path) \in Nat
  BY DEF Names, MkdirInv
<1> DEFINE S == {0} \cup {m \in Names : m <= n}
<1>2. n \in 1 .. Len(path) /\ \A m \in Names : m \in Nat
  BY <1>1
<1>3. n \in S /\ n \in Nat /\ \A m \in S : m \in Nat /\ m <= n
  BY <1>2
<1>4. dir(n) = Max(S)
  BY DEF dir
<1> HIDE DEF S
<1>5. \A m \in S : n >= m
  BY <1>3
<1>6. Max(S) \in S /\ Max(S) >= n
  BY <1>3, <1>5, Zenon DEF Max
<1>7. \A m \in S : m >= n => m = n
  BY <1>3
<1>8. dir(n) = n
  BY <1>4, <1>6, <1>7, Zenon
<1>9. \A m \in Names : m < n <=> m <= n - 1
  BY <1>2
<1>10. {m \in Names : m < n} = {m \in Names : m <= n - 1}
  BY <1>9
<1> QED
  BY <1>8, <1>10 DEF dir, parent

\* What was made or lost stays so.
LEMMA MadeStays ==
  ASSUME UNCHANGED path, exists \subseteq exists', failed \subseteq failed'
  PROVE  /\ Names' = Names
         /\ \A n : dir(n)' = dir(n)
         /\ \A m : lost(m) => lost(m)'
<1>1. Names' = Names
  BY DEF Names
<1>2. \A n : dir(n)' = dir(n)
  BY <1>1 DEF dir
<1>3. \A m : lost(m) => lost(m)'
  BY DEF lost
<1> QED
  BY <1>1, <1>2, <1>3

\* On to the next name.
LEMMA NextName ==
  ASSUME MkdirInv, recurse, i \in 1 .. Len(path), next_name, UNCHANGED <<path, recurse>>,
         exists \subseteq exists', failed \subseteq failed',
         \A n \in 0 .. i : dir(n) \in exists' \/ \E m \in 1 .. n : lost(m)'
  PROVE  MkdirInv'
<1>1. Len(path) \in Nat /\ \A n : dir(n)' = dir(n)
  BY MadeStays DEF MkdirInv
<1>2. CASE i = Len(path)
  <2>1. pc' = "done" /\ Made(Len(path))'
    BY <1>1, <1>2 DEF next_name, return, Made
  <2> QED
    BY <2>1 DEF MkdirInv
<1>3. CASE i # Len(path)
  <2>1. pc' = "scan" /\ i' = i + 1 /\ i' \in 1 .. Len(path) /\ i' - 1 = i
    BY <1>1, <1>3 DEF next_name
  <2>2. Made(i - 1)'
    BY <1>1, <2>1 DEF Made
  <2> QED
    BY <2>1, <2>2 DEF MkdirInv
<1> QED
  BY <1>2, <1>3

\* The call ends, with an error or without recurse.
LEMMA Returns ==
  ASSUME MkdirInv, NEW r, return(r), ~recurse \/ r # 0, UNCHANGED <<path, recurse>>,
         exists \subseteq exists'
  PROVE  MkdirInv'
BY DEF MkdirInv, return

\* The loop starts with the first name.
LEMMA StartInv ==
  ASSUME MkdirInv, Start
  PROVE  MkdirInv'
<1>0. pc = "start" /\ i = 1 /\ UNCHANGED <<path, recurse, exists, failed>> /\ Len(path) \in Nat
  BY DEF Start, MkdirInv
<1>1. CASE recurse /\ return(-1)
  BY <1>0, <1>1, Returns
<1>2. CASE recurse /\ pc' = "scan" /\ i' = i
  <2>1. Made(i - 1)'
    BY <1>0, <1>2, RootOfPath, MadeStays DEF Made
  <2>2. i' \in 1 .. Len(path)
    BY <1>0, <1>2 DEF MkdirInv
  <2> QED
    BY <1>0, <1>2, <2>1, <2>2 DEF MkdirInv
<1>3. CASE ~recurse /\ pc' = "make"
  BY <1>0, <1>3 DEF MkdirInv
<1> QED
  BY <1>1, <1>2, <1>3 DEF Start

\* A name that is skipped is empty, or its directory may be lost.
LEMMA ScanInv ==
  ASSUME MkdirInv, Scan
  PROVE  MkdirInv'
<1>0. /\ pc = "scan" /\ recurse /\ i \in 1 .. Len(path) /\ Made(i - 1)
      /\ UNCHANGED <<path, recurse, exists, failed>>
      /\ path[i].len \in Nat /\ i \in DOMAIN path
  <2>1. /\ pc = "scan" /\ recurse /\ i \in 1 .. Len(path) /\ Made(i - 1)
        /\ UNCHANGED <<path, recurse, exists, failed>>
    BY DEF Scan, MkdirInv
  <2> DEFINE N == [len : Nat, printable : BOOLEAN]
  <2>2. path \in Seq(N)
    BY DEF MkdirInv
  <2>3. \A e \in N : e.len \in Nat
    OBVIOUS
  <2> HIDE DEF N
  <2>4. i \in DOMAIN path /\ path[i] \in N
    BY <2>1, <2>2
  <2> QED
    BY <2>1, <2>3, <2>4 DEF MkdirInv
<1>1. \A m : lost(m) => lost(m)'
  BY <1>0, MadeStays
<1>2. CASE return(-1)
  BY <1>0, <1>2, Returns
<1>3. CASE ignored(path[i]) /\ next_name
  <2>1. i \notin Names \/ lost(i)
    BY <1>0, <1>3 DEF ignored, Names, lost
  <2>2. \A n \in 0 .. i : n \in 0 .. i - 1 \/ n = i
    BY <1>0
  <2>3. dir(i) \in exists \/ \E m \in 1 .. i : lost(m)
    <3>1. CASE i \notin Names
      <4>1. dir(i) = dir(i - 1) /\ i - 1 \in 0 .. i - 1 /\ 1 .. i - 1 \subseteq 1 .. i
        BY <1>0, <3>1, EmptyName
      <4> QED
        BY <1>0, <4>1 DEF Made
    <3>2. CASE lost(i)
      BY <1>0, <3>2
    <3> QED
      BY <2>1, <3>1, <3>2
  <2>4. \A n \in 0 .. i : dir(n) \in exists' \/ \E m \in 1 .. n : lost(m)'
    BY <1>0, <1>1, <2>2, <2>3 DEF Made
  <2> QED
    BY <1>0, <1>3, <2>4, NextName
<1>4. CASE ~ignored(path[i]) /\ pc' = "make" /\ i' = i
  <2>1. i \in Names
    BY <1>0, <1>4 DEF ignored, Names
  <2>2. Made(i - 1)' /\ Names' = Names
    BY <1>0, <1>1, <1>4, MadeStays DEF Made
  <2> QED
    BY <1>0, <1>4, <2>1, <2>2 DEF MkdirInv
<1> QED
  BY <1>2, <1>3, <1>4 DEF Scan

\* A directory that cannot be created exists, is lost, or is in one that was
\* lost before.
LEMMA MakeInv ==
  ASSUME MkdirInv, Make
  PROVE  MkdirInv'
<1>0. /\ pc = "make" /\ UNCHANGED <<path, recurse>>
      /\ exists \subseteq exists' /\ failed \subseteq failed'
  BY DEF Make
<1>1. PICK r \in {0, -1} :
        made(r) /\ (r = 0 => dir(i) \in exists' \/ i \in failed' \/ parent(i) \notin exists)
  BY DEF Make
<1>2. CASE ~(recurse /\ r = 0)
  <2>1. return(r) /\ (~recurse \/ r # 0)
    BY <1>1, <1>2 DEF made
  <2> QED
    BY <1>0, <2>1, Returns
<1>3. CASE recurse /\ r = 0
  <2>1. i \in Names /\ i \in 1 .. Len(path) /\ Made(i - 1) /\ next_name
    BY <1>0, <1>1, <1>3 DEF MkdirInv, made
  <2>2. /\ parent(i) = dir(i - 1) /\ i - 1 \in 0 .. i - 1
        /\ 1 .. i - 1 \subseteq 1 .. i /\ i \in 1 .. i
    BY <2>1, ParentOfName
  <2>3. \A m : lost(m) => lost(m)'
    BY <1>0, MadeStays
  <2>4. dir(i) \in exists' \/ \E m \in 1 .. i : lost(m)'
    <3>1. CASE i \in failed'
      BY <2>2, <3>1 DEF lost
    <3>2. CASE parent(i) \notin exists
      BY <2>1, <2>2, <2>3, <3>2 DEF Made
    <3> QED
      BY <1>1, <1>3, <3>1, <3>2
  <2>5. \A n \in 0 .. i : n \in 0 .. i - 1 \/ n = i
    BY <2>1
  <2>6. \A n \in 0 .. i : dir(n) \in exists' \/ \E m \in 1 .. n : lost(m)'
    BY <1>0, <2>1, <2>3, <2>4, <2>5 DEF Made
  <2> QED
    BY <1>0, <1>3, <2>1, <2>6, NextName
<1> QED
  BY <1>2, <1>3

\* Directories of others only add to those that exist.
LEMMA OtherMakesInv ==
  ASSUME MkdirInv, NEW m, OtherMakes(m)
  PROVE  MkdirInv'
<1>1. UNCHANGED <<path, recurse, i, pc, ret, failed>> /\ exists \subseteq exists'
  BY DEF OtherMakes
<1>2. Names' = Names /\ \A n : dir(n)' = dir(n) /\ (lost(n) => lost(n)')
  BY <1>1, MadeStays
<1>3. /\ Made(i - 1) => Made(i - 1)'
      /\ Made(Len(path)) => Made(Len(path))'
  BY <1>1, <1>2 DEF Made
<1> QED
  BY <1>1, <1>2, <1>3 DEF MkdirInv

\* With recurse, 0 means that the directory is there with all it is in,
\* unless a name on the way has a single character or kern_path_create failed
\* at it for a reason of its own, though a missing parent alone would give 0,
\* too: whatever the length of the path and whoever creates directories at
\* the same time.
THEOREM MkdirZero ==
  ASSUME Paths \subseteq NamePaths
  PROVE  Spec => []ZeroMeansCreated
<1>1. Init => MkdirInv
  <2>1. SUFFICES ASSUME Init PROVE MkdirInv
    OBVIOUS
  <2>2. path \in Seq([len : Nat, printable : BOOLEAN]) /\ path # << >>
    BY <2>1 DEF Init, NamePaths
  <2>3. Len(path) >= 1
    <3> DEFINE N == [len : Nat, printable : BOOLEAN]
    <3> HIDE DEF N
    <3>1. path \in Seq(N) /\ path # << >>
      BY <2>2 DEF N
    <3> QED
      BY <3>1
  <2> QED
    BY <2>1, <2>2, <2>3 DEF Init, MkdirInv
<1>2. MkdirInv /\ [Next]_vars => MkdirInv'
  <2> SUFFICES ASSUME MkdirInv, [Next]_vars PROVE MkdirInv'
    OBVIOUS
  <2>1. CASE UNCHANGED vars
    BY <2>1 DEF vars, MkdirInv, Made, dir, Names, lost
  <2> QED
    BY <2>1, StartInv, ScanInv, MakeInv, OtherMakesInv DEF Next
<1>3. MkdirInv => ZeroMeansCreated
  BY DEF MkdirInv, ZeroMeansCreated, Made
<1> QED
  BY <1>1, <1>2, <1>3, PTL DEF Spec
=============================================================================
