----------------------------- MODULE Boot_proofs -----------------------------
(***************************************************************************)
(* Proofs about the boot: the tables of KernelMap, the driver of VirtioBlk *)
(* and the volume that Boot finds with both, for every layout of the       *)
(* memory and the image, every queue and every disk.                       *)
(***************************************************************************)
EXTENDS Boot, FiniteSetTheorems, SequenceTheorems, TLAPS

-----------------------------------------------------------------------------
(* Addresses                                                               *)

\* Quotient and remainder, and that there is only one of each.
LEMMA Division ==
  ASSUME NEW a \in Nat, NEW d \in Nat \ {0}
  PROVE  /\ a \div d \in Nat /\ a % d \in 0..(d - 1)
         /\ a = (a \div d) * d + (a % d)
OBVIOUS

LEMMA DivisionUnique ==
  ASSUME NEW d \in Nat \ {0}, NEW q \in Nat, NEW r \in 0..(d - 1)
  PROVE  (q * d + r) \div d = q /\ (q * d + r) % d = r
<1> DEFINE a == q * d + r
<1>1. a \in Nat
  OBVIOUS
<1>2. /\ a \div d \in Nat /\ a % d \in 0..(d - 1)
      /\ a = (a \div d) * d + (a % d)
  BY <1>1, Division
<1>3. ASSUME NEW x \in Nat, NEW y \in Nat, NEW s \in 0..(d - 1), NEW t \in 0..(d - 1),
             x * d + s = y * d + t
      PROVE  x <= y
  <2>1. SUFFICES ASSUME x > y PROVE FALSE
    BY <1>3
  <2>2. x - y - 1 \in Nat /\ (x - y - 1) * d \in Nat
    BY <2>1
  <2>3. x * d = y * d + d + (x - y - 1) * d
    OBVIOUS
  <2> QED BY <1>3, <2>2, <2>3
<1>4. a \div d <= q /\ q <= a \div d
  <2> HIDE DEF a
  <2>1. a = q * d + r
    BY DEF a
  <2> QED BY <1>2, <1>3, <2>1
<1>5. a \div d = q
  BY <1>2, <1>4
<1> QED BY <1>2, <1>5

\* The page behind the image, and the first one that a table may get.
Image == M!Va2Pa(M!Ekernel)
Base == Image + 1

\* The layout of the machine in numbers.
LEMMA Machine ==
  /\ Fan \in Nat \ {0} /\ M!Giant \in Nat \ {0} /\ M!Giant = Fan * Fan
  /\ PhyStart \in Nat /\ VmStart \in Nat /\ PhySize \in Nat /\ OpenSbi \in Nat
  /\ TextPages \in Nat \ {0} /\ RoPages \in Nat /\ DataPages \in Nat /\ DataPages >= 3
  /\ IoStart \in Nat /\ IoPages \in Nat /\ IoOffset \in Nat
  /\ OpenSbi + PhySize <= M!Giant
<1>1. Fan \in Nat \ {0}
  BY LayoutAssumption DEF M!MapAssumption
<1>2. M!Giant \in Nat \ {0}
  <2>1. \A x \in Nat \ {0} : x * x \in Nat \ {0}
    OBVIOUS
  <2> QED BY <1>1, <2>1 DEF M!Giant
<1>3. PhyStart \in Nat /\ VmStart \in Nat
  <2>1. Fan * M!Giant \in Nat
    BY <1>1, <1>2
  <2> QED BY <2>1, LayoutAssumption DEF M!MapAssumption, M!Space
<1> QED BY <1>1, <1>2, <1>3, LayoutAssumption DEF M!MapAssumption, M!Giant

LEMMA Sections ==
  /\ M!Stext = VmStart + OpenSbi
  /\ M!Srodata = VmStart + OpenSbi + TextPages
  /\ M!Sdata = VmStart + OpenSbi + TextPages + RoPages
  /\ M!Ekernel = VmStart + OpenSbi + TextPages + RoPages + DataPages
  /\ Image = PhyStart + OpenSbi + TextPages + RoPages + DataPages
  /\ M!Early = Image - 2 /\ M!Swapper = Image - 1 /\ M!BootStack = M!Ekernel - 3
  /\ \A x \in Int : M!Va2Pa(x) = x - VmStart + PhyStart /\ M!Pa2Va(x) = x + VmStart - PhyStart
  /\ Base = Image + 1 /\ M!Early \in Nat /\ M!Swapper \in Nat
BY Machine DEF M!Stext, M!Srodata, M!Sdata, M!Ekernel, Image, Base, M!Early, M!Swapper,
   M!BootStack, M!Va2Pa, M!Pa2Va, M!Pa2VaOffset

\* A page in the giant page that starts at s.
LEMMA InGiant ==
  ASSUME NEW s \in Nat, s % M!Giant = 0, NEW o \in 0 .. M!Giant - 1
  PROVE  /\ s + o \in Nat /\ M!VpnTop(s + o) = M!VpnTop(s)
         /\ (s + o) % M!Giant = o /\ M!VpnTop(s) \in Nat
         /\ s = (s \div M!Giant) * M!Giant
<1> DEFINE g == M!Giant
           q == s \div g
<1>1. g \in Nat \ {0}
  BY Machine
<1> HIDE DEF g
<1>2. q \in Nat /\ s = q * g + (s % g)
  BY <1>1, Division
<1>3. s % g = 0 /\ o \in 0 .. (g - 1)
  BY DEF g
<1> HIDE DEF q
<1>4. s = q * g
  BY <1>1, <1>2, <1>3
<1>5. (s + o) \div g = q /\ (s + o) % g = o
  BY <1>1, <1>2, <1>3, <1>4, DivisionUnique
<1> QED BY <1>2, <1>3, <1>4, <1>5 DEF g, q, M!VpnTop

\* The three parts of a page number, and back.
LEMMA Vpn ==
  ASSUME NEW va \in Nat
  PROVE  /\ va \div Fan \in Nat /\ M!VpnTop(va) \in Nat
         /\ M!VpnMid(va) \in 0 .. Fan - 1 /\ M!VpnLow(va) \in 0 .. Fan - 1
         /\ va = (va \div Fan) * Fan + M!VpnLow(va)
         /\ va \div Fan = M!VpnTop(va) * Fan + M!VpnMid(va)
         /\ (va \div Fan) \div Fan = M!VpnTop(va)
<1> DEFINE k == va \div Fan
           l == va % Fan
           i == k \div Fan
           j == k % Fan
<1>1. Fan \in Nat \ {0}
  BY Machine
<1>2. k \in Nat /\ l \in 0 .. (Fan - 1) /\ va = k * Fan + l
  BY <1>1, Division
<1> HIDE DEF k, l
<1>3. i \in Nat /\ j \in 0 .. (Fan - 1) /\ k = i * Fan + j
  BY <1>1, <1>2, Division
<1> HIDE DEF i, j
<1>4. va = i * (Fan * Fan) + (j * Fan + l)
  <2>1. (i * Fan + j) * Fan = i * (Fan * Fan) + j * Fan
    BY <1>1, <1>3
  <2> QED BY <1>1, <1>2, <1>3, <2>1
<1>5. j * Fan + l \in 0 .. (Fan * Fan - 1)
  <2>1. (Fan - 1 - j) * Fan \in Nat /\ Fan - 1 - j \in Nat /\ j * Fan \in Nat
    BY <1>1, <1>3
  <2>2. Fan * Fan = (Fan - 1 - j) * Fan + j * Fan + Fan
    BY <1>1, <1>3
  <2> QED BY <1>1, <1>2, <2>1, <2>2
<1>6. va \div (Fan * Fan) = i
  <2>1. Fan * Fan \in Nat \ {0}
    BY Machine
  <2> QED BY <1>3, <1>4, <1>5, <2>1, DivisionUnique
<1>7. M!VpnTop(va) = i /\ M!VpnMid(va) = j /\ M!VpnLow(va) = l
  BY <1>6 DEF M!VpnTop, M!VpnMid, M!VpnLow, M!Giant, i, j, k, l
<1> QED BY <1>1, <1>2, <1>3, <1>7 DEF i, k

\* From the parts to the number.
LEMMA Parts ==
  ASSUME NEW q \in Nat, NEW r \in 0 .. Fan - 1
  PROVE  /\ q * Fan + r \in Nat
         /\ (q * Fan + r) \div Fan = q /\ (q * Fan + r) % Fan = r
<1>1. Fan \in Nat \ {0} /\ r \in 0 .. (Fan - 1)
  BY Machine
<1> QED BY <1>1, DivisionUnique

LEMMA TopBound ==
  ASSUME NEW va \in M!Space
  PROVE  va \in Nat /\ M!VpnTop(va) \in 0 .. Fan - 1
<1> DEFINE g == M!Giant
<1>1. g \in Nat \ {0} /\ Fan \in Nat \ {0}
  BY Machine
<1>2. va \in Nat /\ va < Fan * g
  <2>1. Fan * g \in Nat
    BY <1>1
  <2> QED BY <2>1 DEF M!Space
<1> HIDE DEF g
<1>3. va \div g \in Nat /\ va = (va \div g) * g + (va % g) /\ va % g \in 0 .. (g - 1)
  BY <1>1, <1>2, Division
<1> DEFINE q == va \div g
<1> HIDE DEF q
<1>4. q < Fan
  <2>1. SUFFICES ASSUME q >= Fan PROVE FALSE
    BY <1>1, <1>3 DEF q
  <2>2. q - Fan \in Nat /\ (q - Fan) * g \in Nat
    BY <1>1, <1>3, <2>1 DEF q
  <2>3. q * g = Fan * g + (q - Fan) * g
    BY <1>1, <1>3 DEF q
  <2> QED BY <1>1, <1>2, <1>3, <2>2, <2>3 DEF q
<1> QED BY <1>1, <1>2, <1>3, <1>4 DEF q, g, M!VpnTop

\* Pages of the direct map.
LEMMA DirectPage ==
  ASSUME NEW va \in M!DirectMap
  PROVE  /\ va - VmStart \in 0 .. M!Giant - 1 /\ va - VmStart >= OpenSbi
         /\ va \in M!Space /\ M!VpnTop(va) = M!VpnTop(VmStart)
         /\ M!Va2Pa(va) = PhyStart + (va - VmStart)
<1> DEFINE o == va - VmStart
           g == M!Giant
           q == VmStart \div g
<1>1. o \in 0 .. g - 1 /\ va = VmStart + o /\ o >= OpenSbi
  BY Machine, Sections DEF M!DirectMap
<1>2. VmStart % g = 0 /\ VmStart \in M!Space
  BY LayoutAssumption DEF M!MapAssumption
<1>3. /\ va \in Nat /\ M!VpnTop(va) = M!VpnTop(VmStart) /\ VmStart = q * g
  <2> HIDE DEF o
  <2> QED BY <1>1, <1>2, Machine, InGiant DEF g, q
<1>4. q \in 0 .. Fan - 1
  BY <1>2, TopBound DEF M!VpnTop, q, g
<1>5. va < Fan * g
  <2>1. Fan - 1 - q \in Nat /\ g \in Nat \ {0} /\ Fan \in Nat
    BY <1>4, Machine
  <2> HIDE DEF q, g
  <2>2. q \in Nat /\ (Fan - 1 - q) * g \in Nat
    BY <1>4, <2>1
  <2>3. Fan * g = q * g + (Fan - 1 - q) * g + g
    BY <2>1, <2>2
  <2>4. q * g \in Nat
    BY <2>1, <2>2
  <2> QED BY <1>1, <1>3, <2>1, <2>2, <2>3, <2>4
<1>6. va \in M!Space
  <2>1. Fan * g \in Nat
    BY Machine
  <2> HIDE DEF g
  <2>2. M!Space = 0 .. Fan * g - 1
    BY DEF M!Space, g
  <2> QED BY <1>3, <1>5, <2>1, <2>2
<1> QED BY <1>1, <1>3, <1>6, Machine, Sections

LEMMA MappedPage ==
  ASSUME NEW va \in M!ToMap
  PROVE  /\ va \in M!Space /\ va \in Nat /\ M!VpnTop(va) \in 0 .. Fan - 1
         /\ va >= (Fan * M!Giant) \div 2
<1>1. va \in M!Space
  BY DirectPage, LayoutAssumption DEF M!ToMap, M!MapAssumption
<1> QED BY <1>1, TopBound, LayoutAssumption DEF M!MapAssumption

-----------------------------------------------------------------------------
(* The early table                                                         *)

All == {"R", "W", "X"}

EarlyTable ==
  [i \in 0 .. Fan - 1 |->
     IF i = M!VpnTop(PhyStart) \/ i = M!VpnTop(VmStart)
     THEN [ppn |-> (PhyStart \div M!Giant) * M!Giant, perm |-> All] ELSE M!NoPte]

\* It maps a giant page of memory to itself and to the direct map.
LEMMA EarlyReaches ==
  ASSUME NEW ts, ts[M!Early] = EarlyTable, NEW o \in 0 .. M!Giant - 1,
         NEW start \in {PhyStart, VmStart}, NEW perm \in All
  PROVE  M!Reaches(M!Early, ts, start + o, PhyStart + o, perm)
<1> DEFINE va == start + o
           top == ts[M!Early][M!VpnTop(va)]
<1>1. /\ start \in Nat /\ start % M!Giant = 0 /\ PhyStart % M!Giant = 0 /\ PhyStart \in Nat
      /\ start \in M!Space
  BY Machine, LayoutAssumption DEF M!MapAssumption
<1>2. /\ M!VpnTop(va) = M!VpnTop(start) /\ va % M!Giant = o
      /\ (PhyStart \div M!Giant) * M!Giant = PhyStart
  BY <1>1, InGiant
<1>3. M!VpnTop(start) \in 0 .. Fan - 1
  BY <1>1, TopBound
<1>4. top = [ppn |-> PhyStart, perm |-> All]
  BY <1>2, <1>3 DEF EarlyTable
<1> HIDE DEF va
<1>5. top # M!NoPte /\ top.perm # {}
  BY <1>4 DEF M!NoPte, All
<1>6. M!Walk(M!Early, ts, va) = [top EXCEPT !.ppn = @ + (va % M!Giant)]
  BY <1>5 DEF M!Walk
<1>7. M!Walk(M!Early, ts, va) = [ppn |-> PhyStart + o, perm |-> All]
  BY <1>2, <1>4, <1>6
<1>8. M!Translate(M!Early, ts, va) = [ppn |-> PhyStart + o, perm |-> All]
  BY <1>7, Sections DEF M!Translate
<1> QED BY <1>8 DEF M!Reaches, va

\* Pages of memory at their own addresses and in the direct map.
LEMMA EarlyMemory ==
  ASSUME NEW ts, ts[M!Early] = EarlyTable, NEW pa \in PhyStart .. PhyStart + M!Giant - 1,
         NEW perm \in All
  PROVE  /\ M!Reaches(M!Early, ts, pa, pa, perm)
         /\ M!Reaches(M!Early, ts, M!Pa2Va(pa), pa, perm)
<1> DEFINE o == pa - PhyStart
<1>1. o \in 0 .. M!Giant - 1 /\ pa = PhyStart + o /\ M!Pa2Va(pa) = VmStart + o
  BY Machine, Sections
<1> HIDE DEF o
<1> QED BY <1>1, EarlyReaches

-----------------------------------------------------------------------------
(* The tree of the final table                                             *)

Link(page) == [ppn |-> page, perm |-> {}]

\* What the final table says of a page in the end.
Leaf(va) ==
  IF va \in M!DirectMap
  THEN [ppn |-> M!Va2Pa(va), perm |-> M!PermOf(M!Va2Pa(va))]
  ELSE [ppn |-> va - IoOffset, perm |-> {"R", "W"}]

\* T and P are the entries of the root and of the tables below it that are in
\* use, S the pages that are mapped.
Keys(T, P, S) ==
  /\ T \subseteq 0 .. Fan - 1 /\ P \subseteq Nat /\ S \subseteq Nat
  /\ IsFiniteSet(T) /\ IsFiniteSet(P)
  /\ \A k \in P : k \div Fan \in T
  /\ \A v \in S : v \div Fan \in P

\* mid and low are the pages of the tables that they lead to: the pages given
\* out, each of them once.
PagesOf(nx, T, P, mid, low) ==
  /\ nx \in Nat /\ nx = Base + Cardinality(T) + Cardinality(P)
  /\ mid \in [T -> Base .. nx - 1] /\ low \in [P -> Base .. nx - 1]
  /\ \A i, j \in T : mid[i] = mid[j] => i = j
  /\ \A k, l \in P : low[k] = low[l] => k = l
  /\ \A i \in T, k \in P : mid[i] # low[k]
  /\ \A t \in Base .. nx - 1 : (\E i \in T : t = mid[i]) \/ (\E k \in P : t = low[k])

RootTable(T, mid) ==
  [i \in 0 .. Fan - 1 |-> IF i \in T THEN Link(mid[i]) ELSE M!NoPte]
MidTable(i, P, low) ==
  [j \in 0 .. Fan - 1 |-> IF i * Fan + j \in P THEN Link(low[i * Fan + j]) ELSE M!NoPte]
LowTable(k, S) ==
  [l \in 0 .. Fan - 1 |-> IF k * Fan + l \in S THEN Leaf(k * Fan + l) ELSE M!NoPte]

Contents(ts, nx, T, P, S, mid, low) ==
  /\ DOMAIN ts = {M!Early, M!Swapper} \cup Base .. nx - 1
  /\ ts[M!Early] = EarlyTable
  /\ ts[M!Swapper] = RootTable(T, mid)
  /\ \A i \in T : ts[mid[i]] = MidTable(i, P, low)
  /\ \A k \in P : ts[low[k]] = LowTable(k, S)

Tree(ts, nx, T, P, S, mid, low) ==
  Keys(T, P, S) /\ PagesOf(nx, T, P, mid, low) /\ Contents(ts, nx, T, P, S, mid, low)

\* Adding a key to either set counts one more table.
LEMMA NewKey ==
  ASSUME NEW T, IsFiniteSet(T), NEW i, i \notin T
  PROVE  /\ IsFiniteSet(T \cup {i}) /\ Cardinality(T) \in Nat
         /\ Cardinality(T \cup {i}) = Cardinality(T) + 1
BY FS_AddElement, FS_CardinalityType

\* The entry of the root for i: the table there is, or a new one.
LEMMA RootEntry ==
  ASSUME NEW ts, NEW nx, NEW T, NEW P, NEW S, NEW mid, NEW low,
         Tree(ts, nx, T, P, S, mid, low), NEW i \in 0 .. Fan - 1,
         NEW ts1, ts1 = M!Descend(ts, M!Swapper, i, nx),
         NEW t1, t1 = ts1[M!Swapper][i].ppn,
         NEW nx1, nx1 = M!NextAfter(t1, nx)
  PROVE  \E mid1 : Tree(ts1, nx1, T \cup {i}, P, S, mid1, low) /\ mid1[i] = t1
<1>1. Keys(T, P, S) /\ PagesOf(nx, T, P, mid, low) /\ Contents(ts, nx, T, P, S, mid, low)
  BY DEF Tree
<1>2. ts[M!Swapper][i] = IF i \in T THEN Link(mid[i]) ELSE M!NoPte
  BY <1>1 DEF Contents, RootTable
<1>3. /\ nx \in Nat /\ Base \in Nat /\ M!Early \in Nat /\ M!Swapper \in Nat
      /\ M!Early < Base /\ M!Swapper < Base /\ M!Early # M!Swapper /\ Base <= nx
  <2>1. Cardinality(T) \in Nat /\ Cardinality(P) \in Nat
    BY <1>1, FS_CardinalityType DEF Keys
  <2> QED BY <1>1, <2>1, Sections, Machine DEF PagesOf
<1>4. CASE i \in T
  <2>1. mid[i] \in Base .. nx - 1
    BY <1>1, <1>4 DEF PagesOf
  <2>2. ts[M!Swapper][i] # M!NoPte
    BY <1>2, <1>3, <1>4, <2>1 DEF Link, M!NoPte
  <2>3. ts1 = ts /\ t1 = mid[i]
    BY <1>2, <1>4, <2>2 DEF M!Descend, Link
  <2>4. nx1 = nx
    BY <1>3, <2>1, <2>3 DEF M!NextAfter
  <2>5. T \cup {i} = T
    BY <1>4
  <2> QED BY <2>3, <2>4, <2>5
<1>5. CASE i \notin T
  <2> DEFINE m == [x \in T \cup {i} |-> IF x = i THEN nx ELSE mid[x]]
  <2>1. /\ DOMAIN ts1 = DOMAIN ts \cup {nx} /\ ts1[nx] = M!Empty
        /\ \A u \in DOMAIN ts : u # nx /\ u # M!Swapper => ts1[u] = ts[u]
        /\ ts1[M!Swapper] = [ts[M!Swapper] EXCEPT ![i] = Link(nx)]
    <3>1. ts1 = [u \in (DOMAIN ts) \cup {nx} |->
                   IF u = nx THEN M!Empty
                   ELSE IF u = M!Swapper THEN [ts[M!Swapper] EXCEPT ![i] = Link(nx)]
                   ELSE ts[u]]
      BY <1>2, <1>5 DEF M!Descend, Link
    <3>2. M!Swapper \in DOMAIN ts /\ M!Swapper # nx
      BY <1>1, <1>3 DEF Contents
    <3> QED BY <3>1, <3>2
  <2>2. t1 = nx /\ nx1 = nx + 1
    <3>1. ts1[M!Swapper][i] = Link(nx)
      BY <1>1, <2>1 DEF Contents, RootTable
    <3> QED BY <3>1 DEF Link, M!NextAfter
  <2>3. Keys(T \cup {i}, P, S)
    <3>1. T \cup {i} \subseteq 0 .. Fan - 1 /\ IsFiniteSet(T \cup {i})
      BY <1>1, <1>5, NewKey DEF Keys
    <3> QED BY <1>1, <3>1 DEF Keys
  <2>4. \A x \in T : m[x] = mid[x] /\ m[x] \in Base .. nx - 1 /\ x # i
    BY <1>1, <1>5 DEF PagesOf
  <2>5. m[i] = nx /\ DOMAIN m = T \cup {i} /\ m = [x \in T \cup {i} |-> m[x]]
    OBVIOUS
  <2> HIDE DEF m
  <2>6. PagesOf(nx1, T \cup {i}, P, m, low)
    <3>1. Cardinality(T \cup {i}) = Cardinality(T) + 1 /\ Cardinality(T) \in Nat
          /\ Cardinality(P) \in Nat
      BY <1>1, <1>5, NewKey, FS_CardinalityType DEF Keys
    <3>2. nx1 \in Nat /\ nx1 = Base + Cardinality(T \cup {i}) + Cardinality(P)
      BY <1>1, <1>3, <2>2, <3>1 DEF PagesOf
    <3>3. m \in [T \cup {i} -> Base .. nx1 - 1]
      <4>1. \A x \in T \cup {i} : m[x] \in Base .. nx1 - 1
        BY <1>3, <2>2, <2>4, <2>5
      <4> QED BY <2>5, <4>1
    <3>4. low \in [P -> Base .. nx1 - 1]
      BY <1>1, <1>3, <2>2 DEF PagesOf
    <3>5. \A x, y \in T \cup {i} : m[x] = m[y] => x = y
      BY <1>1, <1>3, <2>4, <2>5 DEF PagesOf
    <3>6. \A k \in P : low[k] \in Base .. nx - 1
      BY <1>1 DEF PagesOf
    <3>7. \A x \in T \cup {i}, k \in P : m[x] # low[k]
      BY <1>1, <1>3, <2>4, <2>5, <3>6 DEF PagesOf
    <3>8. \A t \in Base .. nx1 - 1 :
             (\E x \in T \cup {i} : t = m[x]) \/ (\E k \in P : t = low[k])
      <4>1. TAKE t \in Base .. nx1 - 1
      <4>2. CASE t = nx
        BY <2>5, <4>2
      <4>3. CASE t # nx
        <5>1. t \in Base .. nx - 1
          BY <1>3, <2>2, <4>3
        <5>2. (\E x \in T : t = mid[x]) \/ (\E k \in P : t = low[k])
          BY <1>1, <5>1 DEF PagesOf
        <5> QED BY <2>4, <5>2
      <4> QED BY <4>2, <4>3
    <3>9. \A k, l \in P : low[k] = low[l] => k = l
      BY <1>1 DEF PagesOf
    <3> QED BY <3>2, <3>3, <3>4, <3>5, <3>7, <3>8, <3>9 DEF PagesOf
  <2>7. Contents(ts1, nx1, T \cup {i}, P, S, m, low)
    <3>1. DOMAIN ts1 = {M!Early, M!Swapper} \cup Base .. nx1 - 1
      <4>1. Base .. nx1 - 1 = (Base .. nx - 1) \cup {nx}
        BY <1>3, <2>2
      <4> QED BY <1>1, <2>1, <4>1 DEF Contents
    <3>2. \A t \in Base .. nx - 1 : ts1[t] = ts[t]
      <4>1. \A t \in Base .. nx - 1 : t \in DOMAIN ts /\ t # nx /\ t # M!Swapper
        BY <1>1, <1>3 DEF Contents
      <4> QED BY <2>1, <4>1
    <3>3. ts1[M!Early] = EarlyTable
      BY <1>1, <1>3, <2>1 DEF Contents
    <3>4. ts1[M!Swapper] = RootTable(T \cup {i}, m)
      <4>1. ts1[M!Swapper] = [RootTable(T, mid) EXCEPT ![i] = Link(nx)]
        BY <1>1, <2>1 DEF Contents
      <4>2. \A x \in 0 .. Fan - 1 :
              [RootTable(T, mid) EXCEPT ![i] = Link(nx)][x]
                = IF x \in T \cup {i} THEN Link(m[x]) ELSE M!NoPte
        BY <2>4, <2>5 DEF RootTable
      <4>3. DOMAIN [RootTable(T, mid) EXCEPT ![i] = Link(nx)] = 0 .. Fan - 1
        BY DEF RootTable
      <4> QED BY <4>1, <4>2, <4>3 DEF RootTable
    <3>5. ASSUME NEW x \in T \cup {i} PROVE ts1[m[x]] = MidTable(x, P, low)
      <4>1. CASE x \in T
        BY <1>1, <2>4, <3>2, <4>1 DEF Contents
      <4>2. CASE x = i
        <5>1. \A j \in 0 .. Fan - 1 : i * Fan + j \notin P
          <6>1. \A j \in 0 .. Fan - 1 : (i * Fan + j) \div Fan = i
            BY Parts
          <6> QED BY <1>1, <1>5, <6>1 DEF Keys
        <5>2. MidTable(i, P, low) = M!Empty
          BY <5>1 DEF MidTable, M!Empty
        <5> QED BY <2>1, <2>5, <4>2, <5>2
      <4> QED BY <4>1, <4>2
    <3>6. ASSUME NEW k \in P PROVE ts1[low[k]] = LowTable(k, S)
      <4>1. low[k] \in Base .. nx - 1
        BY <1>1 DEF PagesOf
      <4> QED BY <1>1, <3>2, <4>1 DEF Contents
    <3> QED BY <3>1, <3>3, <3>4, <3>5, <3>6 DEF Contents
  <2> QED BY <2>2, <2>3, <2>5, <2>6, <2>7 DEF Tree
<1> QED BY <1>4, <1>5

\* The entry of the table t1 below the root that covers part k: the table there
\* is, or a new one.
LEMMA MidEntry ==
  ASSUME NEW ts, NEW nx, NEW T, NEW P, NEW S, NEW mid, NEW low,
         Tree(ts, nx, T, P, S, mid, low),
         NEW i \in T, NEW j \in 0 .. Fan - 1, NEW k, k = i * Fan + j,
         NEW ts1, ts1 = M!Descend(ts, mid[i], j, nx),
         NEW t2, t2 = ts1[mid[i]][j].ppn,
         NEW nx1, nx1 = M!NextAfter(t2, nx)
  PROVE  \E low1 : Tree(ts1, nx1, T, P \cup {k}, S, mid, low1) /\ low1[k] = t2
<1>1. Keys(T, P, S) /\ PagesOf(nx, T, P, mid, low) /\ Contents(ts, nx, T, P, S, mid, low)
  BY DEF Tree
<1> DEFINE t1 == mid[i]
<1>2. t1 \in Base .. nx - 1 /\ ts[t1][j] = IF k \in P THEN Link(low[k]) ELSE M!NoPte
  <2>1. mid[i] \in Base .. nx - 1
    BY <1>1 DEF PagesOf
  <2>2. ts[mid[i]] = MidTable(i, P, low)
    BY <1>1 DEF Contents
  <2>3. MidTable(i, P, low)[j] = IF k \in P THEN Link(low[k]) ELSE M!NoPte
    BY DEF MidTable
  <2> QED BY <2>1, <2>2, <2>3
<1>3. /\ nx \in Nat /\ Base \in Nat /\ M!Early \in Nat /\ M!Swapper \in Nat
      /\ M!Early < Base /\ M!Swapper < Base /\ M!Early # M!Swapper /\ Base <= nx
  <2>1. Cardinality(T) \in Nat /\ Cardinality(P) \in Nat
    BY <1>1, FS_CardinalityType DEF Keys
  <2> QED BY <1>1, <2>1, Sections, Machine DEF PagesOf
<1>4. k \in Nat /\ k \div Fan = i /\ i \in Nat
  BY <1>1, Parts DEF Keys
<1> HIDE DEF t1
<1>5. CASE k \in P
  <2>1. low[k] \in Base .. nx - 1
    BY <1>1, <1>5 DEF PagesOf
  <2>2. ts[t1][j] # M!NoPte
    BY <1>2, <1>3, <1>5, <2>1 DEF Link, M!NoPte
  <2>3. ts1 = ts /\ t2 = low[k]
    BY <1>2, <1>5, <2>2 DEF M!Descend, Link, t1
  <2>4. nx1 = nx
    BY <1>3, <2>1, <2>3 DEF M!NextAfter
  <2>5. P \cup {k} = P
    BY <1>5
  <2> QED BY <2>3, <2>4, <2>5
<1>6. CASE k \notin P
  <2> DEFINE m == [x \in P \cup {k} |-> IF x = k THEN nx ELSE low[x]]
  <2>1. /\ DOMAIN ts1 = DOMAIN ts \cup {nx} /\ ts1[nx] = M!Empty
        /\ \A u \in DOMAIN ts : u # nx /\ u # t1 => ts1[u] = ts[u]
        /\ ts1[t1] = [ts[t1] EXCEPT ![j] = Link(nx)]
    <3>1. ts1 = [u \in (DOMAIN ts) \cup {nx} |->
                   IF u = nx THEN M!Empty
                   ELSE IF u = t1 THEN [ts[t1] EXCEPT ![j] = Link(nx)]
                   ELSE ts[u]]
      BY <1>2, <1>6 DEF M!Descend, Link, t1
    <3>2. t1 \in DOMAIN ts /\ t1 # nx
      BY <1>1, <1>2, <1>3 DEF Contents
    <3> QED BY <3>1, <3>2
  <2>2. t2 = nx /\ nx1 = nx + 1
    <3>1. DOMAIN ts[t1] = 0 .. Fan - 1
      BY <1>1 DEF Contents, MidTable, t1
    <3>2. ts1[t1][j] = Link(nx)
      BY <2>1, <3>1
    <3> QED BY <3>2 DEF Link, M!NextAfter, t1
  <2>3. Keys(T, P \cup {k}, S)
    <3>1. P \cup {k} \subseteq Nat /\ IsFiniteSet(P \cup {k})
      BY <1>1, <1>4, <1>6, NewKey DEF Keys
    <3> QED BY <1>1, <1>4, <3>1 DEF Keys
  <2>4. \A x \in P : m[x] = low[x] /\ m[x] \in Base .. nx - 1 /\ x # k
    BY <1>1, <1>6 DEF PagesOf
  <2>5. m[k] = nx /\ DOMAIN m = P \cup {k} /\ m = [x \in P \cup {k} |-> m[x]]
    OBVIOUS
  <2> HIDE DEF m
  <2>6. PagesOf(nx1, T, P \cup {k}, mid, m)
    <3>1. Cardinality(P \cup {k}) = Cardinality(P) + 1 /\ Cardinality(T) \in Nat
          /\ Cardinality(P) \in Nat
      BY <1>1, <1>6, NewKey, FS_CardinalityType DEF Keys
    <3>2. nx1 \in Nat /\ nx1 = Base + Cardinality(T) + Cardinality(P \cup {k})
      BY <1>1, <1>3, <2>2, <3>1 DEF PagesOf
    <3>3. m \in [P \cup {k} -> Base .. nx1 - 1]
      <4>1. \A x \in P \cup {k} : m[x] \in Base .. nx1 - 1
        BY <1>3, <2>2, <2>4, <2>5
      <4> QED BY <2>5, <4>1
    <3>4. mid \in [T -> Base .. nx1 - 1]
      BY <1>1, <1>3, <2>2 DEF PagesOf
    <3>5. \A x, y \in P \cup {k} : m[x] = m[y] => x = y
      BY <1>1, <1>3, <2>4, <2>5 DEF PagesOf
    <3>6. \A x \in T : mid[x] \in Base .. nx - 1
      BY <1>1 DEF PagesOf
    <3>7. \A x \in T, y \in P \cup {k} : mid[x] # m[y]
      BY <1>1, <1>3, <2>4, <2>5, <3>6 DEF PagesOf
    <3>8. \A t \in Base .. nx1 - 1 :
             (\E x \in T : t = mid[x]) \/ (\E y \in P \cup {k} : t = m[y])
      <4>1. TAKE t \in Base .. nx1 - 1
      <4>2. CASE t = nx
        BY <2>5, <4>2
      <4>3. CASE t # nx
        <5>1. t \in Base .. nx - 1
          BY <1>3, <2>2, <4>3
        <5>2. (\E x \in T : t = mid[x]) \/ (\E y \in P : t = low[y])
          BY <1>1, <5>1 DEF PagesOf
        <5> QED BY <2>4, <5>2
      <4> QED BY <4>2, <4>3
    <3>9. \A x, y \in T : mid[x] = mid[y] => x = y
      BY <1>1 DEF PagesOf
    <3> QED BY <3>2, <3>3, <3>4, <3>5, <3>7, <3>8, <3>9 DEF PagesOf
  <2>7. Contents(ts1, nx1, T, P \cup {k}, S, mid, m)
    <3>1. DOMAIN ts1 = {M!Early, M!Swapper} \cup Base .. nx1 - 1
      <4>1. Base .. nx1 - 1 = (Base .. nx - 1) \cup {nx}
        BY <1>3, <2>2
      <4> QED BY <1>1, <2>1, <4>1 DEF Contents
    <3>2. \A t \in Base .. nx - 1 : t # t1 => ts1[t] = ts[t]
      <4>1. \A t \in Base .. nx - 1 : t \in DOMAIN ts /\ t # nx
        BY <1>1, <1>3 DEF Contents
      <4> QED BY <2>1, <4>1
    <3>3. ts1[M!Early] = EarlyTable /\ ts1[M!Swapper] = RootTable(T, mid)
      BY <1>1, <1>2, <1>3, <2>1 DEF Contents
    <3>4. ASSUME NEW x \in T PROVE ts1[mid[x]] = MidTable(x, P \cup {k}, m)
      <4>1. mid[x] \in Base .. nx - 1
        BY <1>1 DEF PagesOf
      <4>2. CASE x # i
        <5>1. mid[x] # t1
          BY <1>1, <4>2 DEF PagesOf, t1
        <5>2. ts1[mid[x]] = MidTable(x, P, low)
          BY <1>1, <3>2, <4>1, <5>1 DEF Contents
        <5>3. \A y \in 0 .. Fan - 1 : x * Fan + y # k
          <6>1. x \in Nat
            BY <1>1 DEF Keys
          <6>2. \A y \in 0 .. Fan - 1 : (x * Fan + y) \div Fan = x
            BY <6>1, Parts
          <6> QED BY <1>4, <4>2, <6>2
        <5>4. MidTable(x, P \cup {k}, m) = MidTable(x, P, low)
          BY <2>4, <5>3 DEF MidTable
        <5> QED BY <5>2, <5>4
      <4>3. CASE x = i
        <5>1. ts1[t1] = [MidTable(i, P, low) EXCEPT ![j] = Link(nx)]
          BY <1>1, <2>1 DEF Contents, t1
        <5>2. \A y \in 0 .. Fan - 1 :
                [MidTable(i, P, low) EXCEPT ![j] = Link(nx)][y]
                  = IF i * Fan + y \in P \cup {k} THEN Link(m[i * Fan + y]) ELSE M!NoPte
          <6>1. TAKE y \in 0 .. Fan - 1
          <6>2. CASE y = j
            BY <2>5, <6>2 DEF MidTable
          <6>3. CASE y # j
            <7>1. i * Fan + y # k
              <8>1. (i * Fan + y) % Fan = y /\ (i * Fan + j) % Fan = j
                BY <1>4, Parts
              <8> QED BY <6>3, <8>1
            <7> QED BY <2>4, <6>3, <7>1 DEF MidTable
          <6> QED BY <6>2, <6>3
        <5>3. DOMAIN [MidTable(i, P, low) EXCEPT ![j] = Link(nx)] = 0 .. Fan - 1
          BY DEF MidTable
        <5> DEFINE r == [MidTable(i, P, low) EXCEPT ![j] = Link(nx)]
        <5>4. r = [y \in 0 .. Fan - 1 |-> r[y]]
          BY DEF MidTable
        <5> HIDE DEF r
        <5>5. r = MidTable(i, P \cup {k}, m)
          BY <5>2, <5>4 DEF r, MidTable
        <5> QED BY <4>3, <5>1, <5>5 DEF r, t1
      <4> QED BY <4>2, <4>3
    <3>5. ASSUME NEW y \in P \cup {k} PROVE ts1[m[y]] = LowTable(y, S)
      <4>1. CASE y \in P
        <5>1. low[y] \in Base .. nx - 1 /\ low[y] # t1
          BY <1>1, <4>1 DEF PagesOf, t1
        <5> QED BY <1>1, <2>4, <3>2, <4>1, <5>1 DEF Contents
      <4>2. CASE y = k
        <5>1. \A l \in 0 .. Fan - 1 : k * Fan + l \notin S
          <6>1. \A l \in 0 .. Fan - 1 : (k * Fan + l) \div Fan = k
            BY <1>4, Parts
          <6> QED BY <1>1, <1>6, <6>1 DEF Keys
        <5>2. LowTable(k, S) = M!Empty
          BY <5>1 DEF LowTable, M!Empty
        <5> QED BY <2>1, <2>5, <4>2, <5>2
      <4> QED BY <4>1, <4>2
    <3> QED BY <3>1, <3>3, <3>4, <3>5 DEF Contents
  <2> QED BY <2>2, <2>3, <2>5, <2>6, <2>7 DEF Tree
<1> QED BY <1>5, <1>6

\* The entry for a page.
LEMMA LeafEntry ==
  ASSUME NEW ts, NEW nx, NEW T, NEW P, NEW S, NEW mid, NEW low,
         Tree(ts, nx, T, P, S, mid, low),
         NEW va \in Nat, va \div Fan \in P, NEW l, l = va % Fan,
         NEW ts1, ts1 = [ts EXCEPT ![low[va \div Fan]][l] = Leaf(va)]
  PROVE  Tree(ts1, nx, T, P, S \cup {va}, mid, low)
<1> DEFINE k == va \div Fan
           t2 == low[k]
<1>1. Keys(T, P, S) /\ PagesOf(nx, T, P, mid, low) /\ Contents(ts, nx, T, P, S, mid, low)
  BY DEF Tree
<1>2. k \in P /\ k \in Nat /\ l \in 0 .. Fan - 1 /\ va = k * Fan + l
  BY Vpn DEF M!VpnLow
<1>3. t2 \in Base .. nx - 1
  BY <1>1, <1>2 DEF PagesOf
<1>4. /\ nx \in Nat /\ Base \in Nat /\ M!Early \in Nat /\ M!Swapper \in Nat
      /\ M!Early < Base /\ M!Swapper < Base
  BY <1>1, Sections, Machine DEF PagesOf
<1>5. /\ DOMAIN ts1 = DOMAIN ts
      /\ ts1[t2] = [ts[t2] EXCEPT ![l] = Leaf(va)]
      /\ \A u \in DOMAIN ts : u # t2 => ts1[u] = ts[u]
  <2>1. t2 \in DOMAIN ts
    BY <1>1, <1>3 DEF Contents
  <2>2. ts1 = [ts EXCEPT ![t2] = [ts[t2] EXCEPT ![l] = Leaf(va)]]
    OBVIOUS
  <2> HIDE DEF t2
  <2> QED BY <2>1, <2>2
<1>6. Keys(T, P, S \cup {va})
  BY <1>1 DEF Keys
<1> HIDE DEF k, t2
<1>7. Contents(ts1, nx, T, P, S \cup {va}, mid, low)
  <2>1. DOMAIN ts1 = {M!Early, M!Swapper} \cup Base .. nx - 1
    BY <1>1, <1>5 DEF Contents
  <2>2. ts1[M!Early] = EarlyTable /\ ts1[M!Swapper] = RootTable(T, mid)
    BY <1>1, <1>3, <1>4, <1>5 DEF Contents
  <2>3. ASSUME NEW i \in T PROVE ts1[mid[i]] = MidTable(i, P, low)
    <3>1. mid[i] \in Base .. nx - 1 /\ mid[i] # t2
      BY <1>1, <1>2 DEF PagesOf, t2
    <3> QED BY <1>1, <1>5, <3>1 DEF Contents
  <2>4. ASSUME NEW x \in P PROVE ts1[low[x]] = LowTable(x, S \cup {va})
    <3>1. low[x] \in DOMAIN ts
      BY <1>1 DEF PagesOf, Contents
    <3>2. CASE x # k
      <4>1. low[x] # t2
        BY <1>1, <1>2, <3>2 DEF PagesOf, t2
      <4>2. ts1[low[x]] = LowTable(x, S)
        BY <1>1, <1>5, <3>1, <4>1 DEF Contents
      <4>3. \A y \in 0 .. Fan - 1 : x * Fan + y # va
        <5>1. x \in Nat
          BY <1>1 DEF Keys
        <5>2. \A y \in 0 .. Fan - 1 : (x * Fan + y) \div Fan = x
          BY <5>1, Parts
        <5> QED BY <3>2, <5>2 DEF k
      <4>4. LowTable(x, S \cup {va}) = LowTable(x, S)
        BY <4>3 DEF LowTable
      <4> QED BY <4>2, <4>4
    <3>3. CASE x = k
      <4> DEFINE r == [LowTable(k, S) EXCEPT ![l] = Leaf(va)]
      <4>1. ts1[t2] = r
        BY <1>1, <1>2, <1>5 DEF Contents, t2
      <4>2. r = [y \in 0 .. Fan - 1 |-> r[y]]
        BY DEF LowTable
      <4>3. \A y \in 0 .. Fan - 1 :
              r[y] = IF k * Fan + y \in S \cup {va} THEN Leaf(k * Fan + y) ELSE M!NoPte
        <5>1. TAKE y \in 0 .. Fan - 1
        <5>2. CASE y = l
          BY <1>2, <5>2 DEF LowTable
        <5>3. CASE y # l
          <6>1. (k * Fan + y) % Fan = y
            BY <1>2, Parts
          <6>2. k * Fan + y # va
            BY <5>3, <6>1
          <6> QED BY <5>3, <6>2 DEF LowTable
        <5> QED BY <5>2, <5>3
      <4> HIDE DEF r
      <4>4. r = LowTable(k, S \cup {va})
        BY <4>2, <4>3 DEF LowTable
      <4> QED BY <3>3, <4>1, <4>4 DEF t2
    <3> QED BY <3>2, <3>3
  <2> QED BY <2>1, <2>2, <2>3, <2>4 DEF Contents
<1> QED BY <1>1, <1>6, <1>7 DEF Tree

\* A walk through the tree finds the leaf of a page that is mapped, and nothing
\* for any other.
LEMMA TreeWalk ==
  ASSUME NEW ts, NEW nx, NEW T, NEW P, NEW S, NEW mid, NEW low,
         Tree(ts, nx, T, P, S, mid, low), NEW va \in M!Space
  PROVE  M!Walk(M!Swapper, ts, va) = IF va \in S THEN Leaf(va) ELSE M!NoPte
<1> DEFINE i == M!VpnTop(va)
           j == M!VpnMid(va)
           l == M!VpnLow(va)
           k == va \div Fan
           top == ts[M!Swapper][i]
           mid1 == ts[top.ppn][j]
           low1 == ts[mid1.ppn][l]
<1>1. Keys(T, P, S) /\ PagesOf(nx, T, P, mid, low) /\ Contents(ts, nx, T, P, S, mid, low)
  BY DEF Tree
<1>2. /\ va \in Nat /\ i \in 0 .. Fan - 1 /\ j \in 0 .. Fan - 1 /\ l \in 0 .. Fan - 1
      /\ va = k * Fan + l /\ k = i * Fan + j /\ k \div Fan = i
  BY TopBound, Vpn
<1> HIDE DEF i, j, l, k
<1>3. top = IF i \in T THEN Link(mid[i]) ELSE M!NoPte
  BY <1>1, <1>2 DEF Contents, RootTable
<1>4. M!Walk(M!Swapper, ts, va) =
        IF top = M!NoPte THEN M!NoPte
        ELSE IF top.perm # {} THEN [top EXCEPT !.ppn = @ + (va % M!Giant)]
        ELSE IF mid1 = M!NoPte THEN M!NoPte ELSE low1
  BY DEF M!Walk, i, j, l
<1>5. Base \in Nat /\ nx \in Nat
  BY <1>1, Sections, Machine DEF PagesOf
<1>6. CASE i \notin T
  <2>1. k \notin P
    BY <1>1, <1>2, <1>6 DEF Keys
  <2>2. va \notin S
    BY <1>1, <2>1 DEF Keys, k
  <2> QED BY <1>3, <1>4, <1>6, <2>2
<1>7. CASE i \in T
  <2>1. mid[i] \in Base .. nx - 1
    BY <1>1, <1>7 DEF PagesOf
  <2>2. top # M!NoPte /\ top.perm = {} /\ top.ppn = mid[i]
    BY <1>3, <1>5, <1>7, <2>1 DEF Link, M!NoPte
  <2>3. mid1 = IF k \in P THEN Link(low[k]) ELSE M!NoPte
    <3>1. ts[mid[i]] = MidTable(i, P, low)
      BY <1>1, <1>7 DEF Contents
    <3>2. MidTable(i, P, low)[j] = IF k \in P THEN Link(low[k]) ELSE M!NoPte
      BY <1>2 DEF MidTable
    <3> QED BY <2>2, <3>1, <3>2
  <2> HIDE DEF top, mid1, low1
  <2>4. CASE k \notin P
    <3>1. va \notin S
      BY <1>1, <2>4 DEF Keys, k
    <3> QED BY <1>4, <2>2, <2>3, <2>4, <3>1
  <2>5. CASE k \in P
    <3>1. low[k] \in Base .. nx - 1
      BY <1>1, <2>5 DEF PagesOf
    <3>2. mid1 # M!NoPte /\ mid1.ppn = low[k]
      BY <1>5, <2>3, <2>5, <3>1 DEF Link, M!NoPte
    <3>3. low1 = IF va \in S THEN Leaf(va) ELSE M!NoPte
      <4>1. ts[low[k]] = LowTable(k, S)
        BY <1>1, <2>5 DEF Contents
      <4>2. LowTable(k, S)[l] = IF va \in S THEN Leaf(va) ELSE M!NoPte
        BY <1>2 DEF LowTable
      <4> QED BY <3>2, <4>1, <4>2 DEF low1
    <3> QED BY <1>4, <2>2, <3>2, <3>3
  <2> QED BY <2>4, <2>5
<1> QED BY <1>6, <1>7

LEMMA LeafPerm ==
  ASSUME NEW va
  PROVE  Leaf(va) # M!NoPte /\ Leaf(va).perm # {}
         /\ Leaf(va) = [ppn |-> Leaf(va).ppn, perm |-> Leaf(va).perm]
<1>1. \A pa : M!PermOf(pa) \in {{"R", "X"}, {"R"}, {"R", "W"}}
  BY DEF M!PermOf
<1> QED BY <1>1 DEF Leaf, M!NoPte

\* The links of the tree lead each to a page of its own.
LEMMA TreeLinks ==
  ASSUME NEW nx, NEW T, NEW P, NEW S, NEW mid, NEW low,
         Tree(tables, nx, T, P, S, mid, low), nx = next
  PROVE  M!TablesApart
<1>1. Keys(T, P, S) /\ PagesOf(nx, T, P, mid, low) /\ Contents(tables, nx, T, P, S, mid, low)
  BY DEF Tree
<1> DEFINE entries == {e \in (DOMAIN tables) \X (0 .. Fan - 1) :
              tables[e[1]][e[2]] # M!NoPte /\ tables[e[1]][e[2]].perm = {}}
<1>2. /\ M!Early # M!Swapper /\ M!Early < Base /\ M!Swapper < Base
      /\ M!Early \in Nat /\ M!Swapper \in Nat /\ Base \in Nat
  BY Sections, Machine
<1>3. ASSUME NEW t \in DOMAIN tables, NEW x \in 0 .. Fan - 1,
             tables[t][x] # M!NoPte, tables[t][x].perm = {}
      PROVE  \/ t = M!Swapper /\ x \in T /\ tables[t][x].ppn = mid[x]
             \/ \E i \in T : /\ t = mid[i] /\ i * Fan + x \in P
                             /\ tables[t][x].ppn = low[i * Fan + x]
  <2>1. CASE t = M!Early
    <3>1. tables[t][x] = M!NoPte \/ tables[t][x].perm = All
      BY <1>1, <2>1 DEF Contents, EarlyTable
    <3> QED BY <1>3, <3>1 DEF All
  <2>2. CASE t = M!Swapper
    <3>1. tables[t][x] = IF x \in T THEN Link(mid[x]) ELSE M!NoPte
      BY <1>1, <2>2 DEF Contents, RootTable
    <3> QED BY <1>3, <2>2, <3>1 DEF Link
  <2>3. CASE t \in Base .. nx - 1
    <3>1. CASE \E i \in T : t = mid[i]
      <4>1. PICK i \in T : t = mid[i]
        BY <3>1
      <4>2. tables[t] = MidTable(i, P, low)
        BY <1>1, <4>1 DEF Contents
      <4>3. tables[t][x] = IF i * Fan + x \in P THEN Link(low[i * Fan + x]) ELSE M!NoPte
        BY <4>2 DEF MidTable
      <4> QED BY <1>3, <4>1, <4>3 DEF Link
    <3>2. CASE \E k \in P : t = low[k]
      <4>1. PICK k \in P : t = low[k]
        BY <3>2
      <4>2. tables[t] = LowTable(k, S)
        BY <1>1, <4>1 DEF Contents
      <4>3. tables[t][x] = Leaf(k * Fan + x) \/ tables[t][x] = M!NoPte
        BY <4>2 DEF LowTable
      <4> QED BY <1>3, <4>3, LeafPerm
    <3> QED BY <1>1, <2>3, <3>1, <3>2 DEF PagesOf
  <2> QED BY <1>1, <2>1, <2>2, <2>3 DEF Contents
<1>4. ASSUME NEW e \in entries, NEW f \in entries,
             tables[e[1]][e[2]].ppn = tables[f[1]][f[2]].ppn
      PROVE  e = f
  <2> DEFINE t == e[1]
             x == e[2]
             u == f[1]
             y == f[2]
  <2>1. /\ t \in DOMAIN tables /\ x \in 0 .. Fan - 1 /\ e = <<t, x>>
        /\ u \in DOMAIN tables /\ y \in 0 .. Fan - 1 /\ f = <<u, y>>
        /\ tables[t][x] # M!NoPte /\ tables[t][x].perm = {}
        /\ tables[u][y] # M!NoPte /\ tables[u][y].perm = {}
        /\ tables[t][x].ppn = tables[u][y].ppn
    BY <1>4
  <2> HIDE DEF t, x, u, y
  <2>2. \/ t = M!Swapper /\ x \in T /\ tables[t][x].ppn = mid[x]
        \/ \E i \in T : /\ t = mid[i] /\ i * Fan + x \in P
                        /\ tables[t][x].ppn = low[i * Fan + x]
    BY <1>3, <2>1
  <2>3. \/ u = M!Swapper /\ y \in T /\ tables[u][y].ppn = mid[y]
        \/ \E i \in T : /\ u = mid[i] /\ i * Fan + y \in P
                        /\ tables[u][y].ppn = low[i * Fan + y]
    BY <1>3, <2>1
  <2>4. CASE t = M!Swapper /\ x \in T /\ tables[t][x].ppn = mid[x]
    <3>1. u = M!Swapper /\ y \in T /\ mid[x] = mid[y]
      BY <1>1, <2>1, <2>3, <2>4 DEF PagesOf
    <3>2. x = y
      BY <1>1, <2>4, <3>1 DEF PagesOf
    <3> QED BY <2>1, <2>4, <3>1, <3>2
  <2>5. CASE \E i \in T : /\ t = mid[i] /\ i * Fan + x \in P
                          /\ tables[t][x].ppn = low[i * Fan + x]
    <3>1. PICK i \in T : /\ t = mid[i] /\ i * Fan + x \in P
                         /\ tables[t][x].ppn = low[i * Fan + x]
      BY <2>5
    <3>2. PICK h \in T : /\ u = mid[h] /\ h * Fan + y \in P
                         /\ tables[u][y].ppn = low[h * Fan + y]
      BY <1>1, <2>1, <2>3, <3>1 DEF PagesOf
    <3>3. i * Fan + x = h * Fan + y
      BY <1>1, <2>1, <3>1, <3>2 DEF PagesOf
    <3>4. /\ (i * Fan + x) \div Fan = i /\ (i * Fan + x) % Fan = x
          /\ (h * Fan + y) \div Fan = h /\ (h * Fan + y) % Fan = y
      <4>1. i \in Nat /\ h \in Nat
        BY <1>1 DEF Keys
      <4> QED BY <2>1, <4>1, Parts
    <3>5. i = h /\ x = y
      BY <3>3, <3>4
    <3> QED BY <2>1, <3>1, <3>2, <3>5
  <2> QED BY <2>2, <2>4, <2>5
<1>5. \A t \in DOMAIN tables \ {M!Early, M!Swapper} : t \in Image + 1 .. next - 1
  BY <1>1 DEF Contents, Base
<1> QED BY <1>4, <1>5 DEF M!TablesApart, Image

-----------------------------------------------------------------------------
(* The kernel's map: the invariant                                         *)

Tops(S) == {M!VpnTop(v) : v \in S}
Mids(S) == {v \div Fan : v \in S}

\* There are pages enough for the tables of the pages to map, behind the image.
LEMMA TablesFit ==
  ASSUME NEW S \in SUBSET M!ToMap
  PROVE  /\ IsFiniteSet(Tops(S)) /\ IsFiniteSet(Mids(S))
         /\ Cardinality(Tops(S)) \in Nat /\ Cardinality(Mids(S)) \in Nat
         /\ Base \in Nat
         /\ Base + Cardinality(Tops(S)) + Cardinality(Mids(S)) <= M!PhyEnd
<1> DEFINE top == Tops(M!ToMap)
           mid == Mids(M!ToMap)
<1>1. IsFiniteSet(top)
  <2>1. top \subseteq 0 .. Fan - 1
    BY MappedPage DEF Tops
  <2>2. IsFiniteSet(0 .. Fan - 1)
    BY Machine, FS_Interval
  <2> HIDE DEF top
  <2> QED BY <2>1, <2>2, FS_Subset
<1>2. IsFiniteSet(mid)
  <2>1. ASSUME NEW v \in M!ToMap PROVE v \div Fan \in Nat /\ v \div Fan <= Fan * M!Giant
    <3>1. v \in Nat /\ v <= Fan * M!Giant
      <4>1. Fan * M!Giant \in Nat
        BY Machine
      <4> QED BY <4>1, MappedPage DEF M!Space
    <3>2. v \div Fan \in Nat /\ M!VpnLow(v) \in Nat /\ v = (v \div Fan) * Fan + M!VpnLow(v)
      BY <3>1, Vpn
    <3> DEFINE k == v \div Fan
    <3>3. k \in Nat /\ k * Fan >= k
      <4> HIDE DEF k
      <4>1. SUFFICES ASSUME k \in Nat PROVE k * Fan >= k
        BY <3>2 DEF k
      <4>2. (Fan - 1) * k \in Nat /\ k * Fan = k + (Fan - 1) * k
        BY <4>1, Machine
      <4> QED BY <4>1, <4>2
    <3>4. k <= v
      <4>1. k * Fan \in Nat /\ v = k * Fan + M!VpnLow(v)
        BY <3>2, Machine
      <4> HIDE DEF k
      <4> QED BY <3>1, <3>2, <3>3, <4>1
    <3>5. Fan * M!Giant \in Nat
      BY Machine
    <3> HIDE DEF k
    <3>6. k <= Fan * M!Giant
      BY <3>1, <3>3, <3>4, <3>5
    <3> QED BY <3>3, <3>6 DEF k
  <2>2. mid \in SUBSET Nat /\ \A k \in mid : k <= Fan * M!Giant
    BY <2>1 DEF Mids
  <2>3. Fan * M!Giant \in Nat
    BY Machine
  <2> HIDE DEF mid
  <2> QED BY <2>2, <2>3, FS_BoundedSetOfNaturals
<1>3. Tops(S) \in SUBSET top /\ Mids(S) \in SUBSET mid
  BY DEF Tops, Mids
<1>4. M!TablesTaken = Cardinality(top) + Cardinality(mid)
  BY DEF M!TablesTaken, Tops, Mids, M!Cardinality, Cardinality
<1> HIDE DEF top, mid
<1>5. /\ IsFiniteSet(Tops(S)) /\ IsFiniteSet(Mids(S))
      /\ Cardinality(Tops(S)) <= Cardinality(top) /\ Cardinality(Mids(S)) <= Cardinality(mid)
  BY <1>1, <1>2, <1>3, FS_Subset
<1>6. /\ Cardinality(Tops(S)) \in Nat /\ Cardinality(Mids(S)) \in Nat
      /\ Cardinality(top) \in Nat /\ Cardinality(mid) \in Nat
  BY <1>1, <1>2, <1>5, FS_CardinalityType
<1>7. Base + M!TablesTaken <= M!PhyEnd
  BY LayoutAssumption DEF M!MapAssumption, Base, Image
<1>8. Base \in Nat /\ M!PhyEnd \in Nat
  BY Machine, Sections DEF M!PhyEnd
<1> QED BY <1>4, <1>5, <1>6, <1>7, <1>8

\* What the four calls of create_mapping have left.
Calls == [va : Nat, pa : Int, left : Nat, perm : SUBSET All]
Left(m) == m.va .. m.va + m.left - 1
Unmapped == {v \in M!ToMap : \E n \in 1 .. Len(todo) : v \in Left(todo[n])}

\* Each call maps the pages it has left to what they shall be in the end.
CallRight(m) ==
  \A v \in Left(m) : v \in M!ToMap /\ Leaf(v) = [ppn |-> m.pa + (v - m.va), perm |-> m.perm]
TodoInv == todo \in Seq(Calls) /\ \A n \in 1 .. Len(todo) : CallRight(todo[n])

\* The tree holds pages of the map in their right places, and the rest of them is
\* still to do.
TreeInv ==
  \E S, mid, low :
     /\ S \in SUBSET M!ToMap
     /\ M!ToMap \subseteq S \cup Unmapped
     /\ Tree(tables, next, Tops(S), Mids(S), S, mid, low)

Before == {"setup_vm", "relocate", "mm_init", "setup_vm_final"}

\* The tables before the final one is begun.
EarlyInv ==
  /\ tables = [t \in {M!Early, M!Swapper} |->
                 IF t = M!Early /\ stage # "setup_vm" THEN EarlyTable ELSE M!Empty]
  /\ next = IF stage = "setup_vm_final" THEN Base ELSE Image
  /\ todo = <<>>

StageInv ==
  /\ stage \in Before \cup {"create_mapping", "mapped"}
  /\ stage \in {"setup_vm", "relocate"} => satp = -1
  /\ stage \in {"mm_init", "setup_vm_final", "create_mapping"} => satp = M!Early
  /\ stage = "mapped" => satp = M!Swapper /\ todo = <<>>
  /\ stage \in Before => EarlyInv
  /\ stage \notin Before => TodoInv /\ TreeInv

KInv == lost = FALSE /\ StageInv

-----------------------------------------------------------------------------
(* The kernel's map: the steps                                             *)

LEMMA MapInit == M!Init => KInv
BY DEF M!Init, KInv, StageInv, EarlyInv, Before, Image

LEMMA SetupVmKInv == KInv /\ M!SetupVm => KInv'
<1>1. SUFFICES ASSUME KInv, M!SetupVm PROVE KInv'
  OBVIOUS
<1>2. stage = "setup_vm" /\ stage' = "relocate" /\ UNCHANGED <<satp, next, todo, lost>>
  BY <1>1 DEF M!SetupVm
<1>3. EarlyInv
  BY <1>1, <1>2 DEF KInv, StageInv, Before
<1> DEFINE giant == [ppn |-> (PhyStart \div M!Giant) * M!Giant, perm |-> All]
           top == [M!Empty EXCEPT ![M!VpnTop(PhyStart)] = giant, ![M!VpnTop(VmStart)] = giant]
<1>4. tables' = [tables EXCEPT ![M!Early] = top]
  BY <1>1 DEF M!SetupVm, All
<1>5. top = EarlyTable
  <2>1. M!VpnTop(PhyStart) \in 0 .. Fan - 1 /\ M!VpnTop(VmStart) \in 0 .. Fan - 1
    BY LayoutAssumption, TopBound DEF M!MapAssumption
  <2> HIDE DEF giant
  <2>2. \A i \in 0 .. Fan - 1 : top[i] = IF i = M!VpnTop(PhyStart) \/ i = M!VpnTop(VmStart)
                                         THEN giant ELSE M!NoPte
    BY <2>1 DEF M!Empty
  <2>3. top = [i \in 0 .. Fan - 1 |-> top[i]]
    BY DEF M!Empty
  <2> HIDE DEF top
  <2> QED BY <2>2, <2>3 DEF EarlyTable, giant
<1> HIDE DEF top
<1>6. tables' = [t \in {M!Early, M!Swapper} |-> IF t = M!Early THEN EarlyTable ELSE M!Empty]
  BY <1>2, <1>3, <1>4, <1>5 DEF EarlyInv
<1>7. EarlyInv'
  BY <1>2, <1>3, <1>6 DEF EarlyInv
<1> QED BY <1>1, <1>2, <1>7 DEF KInv, StageInv, Before

\* While the early table is in use, pages of memory are where the kernel expects them.
LEMMA EarlyPages ==
  ASSUME EarlyInv, stage # "setup_vm"
  PROVE  tables[M!Early] = EarlyTable
BY DEF EarlyInv

LEMMA ImagePages ==
  /\ M!Va2Pa(M!Stext) \in PhyStart .. PhyStart + M!Giant - 1
  /\ M!Pa2Va(M!Va2Pa(M!Stext)) = M!Stext
  /\ M!Va2Pa(M!BootStack) \in PhyStart .. PhyStart + M!Giant - 1
  /\ M!Pa2Va(M!Va2Pa(M!BootStack)) = M!BootStack
  /\ M!Swapper \in PhyStart .. PhyStart + M!Giant - 1
  /\ Image \in PhyStart .. PhyStart + M!Giant - 1
  /\ M!PhyEnd <= PhyStart + M!Giant /\ M!PhyEnd \in Nat
  /\ OpenSbi + TextPages + RoPages + DataPages < PhySize
<1>1. M!PhyEnd <= PhyStart + M!Giant /\ M!PhyEnd \in Nat
  BY Machine DEF M!PhyEnd
<1>2. Base <= M!PhyEnd
  <2>1. {} \in SUBSET M!ToMap
    OBVIOUS
  <2>2. Base + Cardinality(Tops({})) + Cardinality(Mids({})) <= M!PhyEnd
        /\ Cardinality(Tops({})) \in Nat /\ Cardinality(Mids({})) \in Nat /\ Base \in Nat
    BY <2>1, TablesFit
  <2> QED BY <1>1, <2>2
<1> QED BY <1>1, <1>2, Machine, Sections DEF M!PhyEnd

LEMMA RelocateKInv == KInv /\ M!Relocate => KInv'
<1>1. SUFFICES ASSUME KInv, M!Relocate PROVE KInv'
  OBVIOUS
<1>2. /\ stage = "relocate" /\ stage' = "mm_init" /\ satp' = M!Early
      /\ UNCHANGED <<tables, next, todo>>
  BY <1>1 DEF M!Relocate
<1>3. EarlyInv /\ lost = FALSE
  BY <1>1, <1>2 DEF KInv, StageInv, Before
<1>4. tables[M!Early] = EarlyTable
  BY <1>2, <1>3, EarlyPages
<1>5. /\ M!Reaches(M!Early, tables, M!Va2Pa(M!Stext), M!Va2Pa(M!Stext), "X")
      /\ M!Reaches(M!Early, tables, M!Stext, M!Va2Pa(M!Stext), "X")
      /\ M!Reaches(M!Early, tables, M!BootStack, M!Va2Pa(M!BootStack), "W")
  <2>1. "X" \in All /\ "W" \in All
    BY DEF All
  <2> QED BY <1>4, <2>1, EarlyMemory, ImagePages
<1>6. lost' = FALSE
  BY <1>1, <1>3, <1>5 DEF M!Relocate
<1>7. EarlyInv'
  BY <1>2, <1>3 DEF EarlyInv
<1> QED BY <1>2, <1>6, <1>7 DEF KInv, StageInv, Before

LEMMA MmInitKInv == KInv /\ M!MmInit => KInv'
<1>1. SUFFICES ASSUME KInv, M!MmInit PROVE KInv'
  OBVIOUS
<1>2. /\ stage = "mm_init" /\ stage' = "setup_vm_final" /\ next' = next + 1
      /\ UNCHANGED <<satp, tables, todo>>
  BY <1>1 DEF M!MmInit
<1>3. EarlyInv /\ lost = FALSE /\ satp = M!Early
  BY <1>1, <1>2 DEF KInv, StageInv, Before
<1>4. tables[M!Early] = EarlyTable /\ next = Image
  BY <1>2, <1>3, EarlyPages DEF EarlyInv
<1>5. M!Reaches(satp, tables, M!Pa2Va(next), next, "W")
  <2>1. "W" \in All
    BY DEF All
  <2> QED BY <1>3, <1>4, <2>1, EarlyMemory, ImagePages
<1>6. lost' = FALSE
  BY <1>1, <1>3, <1>5 DEF M!MmInit
<1>7. EarlyInv'
  BY <1>2, <1>3, <1>4 DEF EarlyInv, Base
<1> QED BY <1>2, <1>3, <1>6, <1>7 DEF KInv, StageInv, Before

\* The four calls map what belongs to the map, to the places it belongs to.
LEMMA FirstCalls ==
  ASSUME NEW calls,
         calls = << M!Mapping(M!Stext, M!Va2Pa(M!Stext), M!Srodata - M!Stext, {"R", "X"}),
                    M!Mapping(M!Srodata, M!Va2Pa(M!Srodata), M!Sdata - M!Srodata, {"R"}),
                    M!Mapping(M!Sdata, M!Va2Pa(M!Sdata), PhySize - (M!Sdata - M!Stext), {"R", "W"}),
                    M!Mapping(IoStart + IoOffset, IoStart, IoPages, {"R", "W"}) >>
  PROVE  /\ calls \in Seq(Calls) /\ Len(calls) = 4
         /\ \A n \in 1 .. 4 : CallRight(calls[n])
         /\ \A v \in M!ToMap : \E n \in 1 .. 4 : v \in Left(calls[n])
<1> DEFINE m1 == M!Mapping(M!Stext, M!Va2Pa(M!Stext), M!Srodata - M!Stext, {"R", "X"})
           m2 == M!Mapping(M!Srodata, M!Va2Pa(M!Srodata), M!Sdata - M!Srodata, {"R"})
           m3 == M!Mapping(M!Sdata, M!Va2Pa(M!Sdata), PhySize - (M!Sdata - M!Stext), {"R", "W"})
           m4 == M!Mapping(IoStart + IoOffset, IoStart, IoPages, {"R", "W"})
<1>1. m1 \in Calls
  BY Machine, Sections DEF Calls, M!Mapping, All
<1>2. m2 \in Calls
  BY Machine, Sections DEF Calls, M!Mapping, All
<1>3. m3 \in Calls
  BY Machine, Sections, ImagePages DEF Calls, M!Mapping, All
<1>4. m4 \in Calls
  BY Machine DEF Calls, M!Mapping, All
<1>5. /\ Left(m1) = M!Stext .. M!Srodata - 1
      /\ Left(m2) = M!Srodata .. M!Sdata - 1
      /\ Left(m3) = M!Sdata .. M!Stext + PhySize - 1
      /\ Left(m4) = M!IoMap
  <2>1. Left(m1) = M!Stext .. M!Srodata - 1
    BY Machine, Sections DEF Left, M!Mapping
  <2>2. Left(m2) = M!Srodata .. M!Sdata - 1
    BY Machine, Sections DEF Left, M!Mapping
  <2>3. Left(m3) = M!Sdata .. M!Stext + PhySize - 1
    BY Machine, Sections DEF Left, M!Mapping
  <2>4. Left(m4) = M!IoMap
    BY Machine DEF Left, M!Mapping, M!IoMap
  <2> QED BY <2>1, <2>2, <2>3, <2>4
<1>6. ASSUME NEW v \in M!DirectMap
      PROVE  /\ v \in M!ToMap /\ v \in Nat
             /\ Leaf(v) = [ppn |-> M!Va2Pa(v), perm |->
                  IF v < M!Srodata THEN {"R", "X"} ELSE IF v < M!Sdata THEN {"R"} ELSE {"R", "W"}]
  <2>1. v \in M!ToMap /\ v \in Nat
    BY MappedPage DEF M!ToMap
  <2>2. /\ M!Va2Pa(v) = v - VmStart + PhyStart
        /\ M!Va2Pa(M!Srodata) = M!Srodata - VmStart + PhyStart
        /\ M!Va2Pa(M!Sdata) = M!Sdata - VmStart + PhyStart
        /\ M!Srodata \in Nat /\ M!Sdata \in Nat /\ M!Srodata <= M!Sdata
    BY <2>1, Machine, Sections
  <2>3. M!PermOf(M!Va2Pa(v)) =
          IF v < M!Srodata THEN {"R", "X"} ELSE IF v < M!Sdata THEN {"R"} ELSE {"R", "W"}
    <3>1. M!Va2Pa(v) < M!Va2Pa(M!Srodata) <=> v < M!Srodata
      BY <2>1, <2>2, Machine
    <3>2. M!Va2Pa(v) \in M!Va2Pa(M!Srodata) .. M!Va2Pa(M!Sdata) - 1 <=>
            v >= M!Srodata /\ v < M!Sdata
      BY <2>1, <2>2, Machine
    <3> QED BY <2>1, <2>2, <3>1, <3>2 DEF M!PermOf
  <2> QED BY <2>1, <2>3 DEF Leaf
<1>7. M!Stext <= M!Srodata /\ M!Srodata <= M!Sdata /\ M!Sdata <= M!Stext + PhySize
      /\ M!Stext \in Nat /\ M!Srodata \in Nat /\ M!Sdata \in Nat /\ M!Stext + PhySize \in Nat
  BY Machine, Sections, ImagePages
<1>8. CallRight(m1)
  <2>1. SUFFICES ASSUME NEW v \in M!Stext .. M!Srodata - 1
                 PROVE  v \in M!ToMap /\ Leaf(v) = [ppn |-> m1.pa + (v - m1.va), perm |-> m1.perm]
    BY <1>5 DEF CallRight
  <2>2. v \in M!DirectMap /\ v < M!Srodata
    BY <1>7, Machine DEF M!DirectMap
  <2>3. m1.pa + (v - m1.va) = M!Va2Pa(v) /\ m1.perm = {"R", "X"}
    BY <1>7, Machine, Sections DEF M!Mapping
  <2> QED BY <1>6, <2>2, <2>3
<1>9. CallRight(m2)
  <2>1. SUFFICES ASSUME NEW v \in M!Srodata .. M!Sdata - 1
                 PROVE  v \in M!ToMap /\ Leaf(v) = [ppn |-> m2.pa + (v - m2.va), perm |-> m2.perm]
    BY <1>5 DEF CallRight
  <2>2. v \in M!DirectMap /\ ~(v < M!Srodata) /\ v < M!Sdata
    BY <1>7, Machine DEF M!DirectMap
  <2>3. m2.pa + (v - m2.va) = M!Va2Pa(v) /\ m2.perm = {"R"}
    BY <1>7, Machine, Sections DEF M!Mapping
  <2> QED BY <1>6, <2>2, <2>3
<1>10. CallRight(m3)
  <2>1. SUFFICES ASSUME NEW v \in M!Sdata .. M!Stext + PhySize - 1
                 PROVE  v \in M!ToMap /\ Leaf(v) = [ppn |-> m3.pa + (v - m3.va), perm |-> m3.perm]
    BY <1>5 DEF CallRight
  <2>2. v \in M!DirectMap /\ ~(v < M!Srodata) /\ ~(v < M!Sdata)
    BY <1>7, Machine DEF M!DirectMap
  <2>3. m3.pa + (v - m3.va) = M!Va2Pa(v) /\ m3.perm = {"R", "W"}
    BY <1>7, Machine, Sections DEF M!Mapping
  <2> QED BY <1>6, <2>2, <2>3
<1>11. CallRight(m4)
  <2>1. SUFFICES ASSUME NEW v \in M!IoMap
                 PROVE  v \in M!ToMap /\ Leaf(v) = [ppn |-> m4.pa + (v - m4.va), perm |-> m4.perm]
    BY <1>5 DEF CallRight
  <2>2. v \in M!ToMap /\ v \in Nat
    BY MappedPage DEF M!ToMap
  <2>3. v \notin M!DirectMap
    BY DirectPage, LayoutAssumption DEF M!MapAssumption
  <2>4. m4.pa + (v - m4.va) = v - IoOffset /\ m4.perm = {"R", "W"}
    BY <2>2, Machine DEF M!Mapping
  <2> QED BY <2>2, <2>3, <2>4 DEF Leaf
<1>12. ASSUME NEW v \in M!ToMap
       PROVE  v \in Left(m1) \/ v \in Left(m2) \/ v \in Left(m3) \/ v \in Left(m4)
  <2>1. CASE v \in M!IoMap
    BY <1>5, <2>1
  <2>2. CASE v \in M!DirectMap
    <3>1. v \in M!Stext .. M!Srodata - 1 \/ v \in M!Srodata .. M!Sdata - 1
          \/ v \in M!Sdata .. M!Stext + PhySize - 1
      BY <1>7, <2>2, Machine DEF M!DirectMap
    <3> QED BY <1>5, <3>1
  <2> QED BY <2>1, <2>2 DEF M!ToMap
<1>13. calls = <<m1, m2, m3, m4>>
  OBVIOUS
<1> HIDE DEF m1, m2, m3, m4
<1>14. calls \in Seq(Calls) /\ Len(calls) = 4
  BY <1>1, <1>2, <1>3, <1>4, <1>13
<1>15. calls[1] = m1 /\ calls[2] = m2 /\ calls[3] = m3 /\ calls[4] = m4
  BY <1>13
<1>16. \A n \in 1 .. 4 : n = 1 \/ n = 2 \/ n = 3 \/ n = 4
  OBVIOUS
<1> QED BY <1>8, <1>9, <1>10, <1>11, <1>12, <1>14, <1>15, <1>16

LEMMA SetupVmFinalKInv == KInv /\ M!SetupVmFinal => KInv'
<1>1. SUFFICES ASSUME KInv, M!SetupVmFinal PROVE KInv'
  OBVIOUS
<1>2. /\ stage = "setup_vm_final" /\ stage' = "create_mapping"
      /\ tables' = [tables EXCEPT ![M!Swapper] = M!Empty]
      /\ UNCHANGED <<satp, next, lost>>
  BY <1>1 DEF M!SetupVmFinal
<1>3. EarlyInv /\ lost = FALSE /\ satp = M!Early
  BY <1>1, <1>2 DEF KInv, StageInv, Before
<1>4. /\ todo' \in Seq(Calls) /\ Len(todo') = 4
      /\ \A n \in 1 .. 4 : CallRight(todo'[n])
      /\ \A v \in M!ToMap : \E n \in 1 .. 4 : v \in Left(todo'[n])
  BY <1>1, FirstCalls DEF M!SetupVmFinal
<1>5. TodoInv' /\ M!ToMap \subseteq Unmapped'
  BY <1>4 DEF TodoInv, Unmapped
<1>6. Tree(tables', next', {}, {}, {}, [x \in {} |-> 0], [x \in {} |-> 0])
  <2>1. Keys({}, {}, {})
    BY FS_EmptySet DEF Keys
  <2>2. next' = Base /\ Base \in Nat
    BY <1>2, <1>3, Machine, Sections DEF EarlyInv
  <2>3. PagesOf(next', {}, {}, [x \in {} |-> 0], [x \in {} |-> 0])
    <3>1. Cardinality({}) = 0
      BY FS_EmptySet
    <3>2. Base .. next' - 1 = {}
      BY <2>2
    <3> QED BY <2>2, <3>1, <3>2 DEF PagesOf
  <2>4. Contents(tables', next', {}, {}, {}, [x \in {} |-> 0], [x \in {} |-> 0])
    <3>1. Base .. next' - 1 = {}
      BY <2>2
    <3>2. RootTable({}, [x \in {} |-> 0]) = M!Empty
      BY DEF RootTable, M!Empty
    <3>3. M!Early # M!Swapper
      BY Sections, Machine
    <3>4. /\ DOMAIN tables' = {M!Early, M!Swapper}
          /\ tables'[M!Early] = EarlyTable /\ tables'[M!Swapper] = M!Empty
      BY <1>2, <1>3, <3>3 DEF EarlyInv
    <3> QED BY <3>1, <3>2, <3>4 DEF Contents
  <2> QED BY <2>1, <2>3, <2>4 DEF Tree
<1>7. Tops({}) = {} /\ Mids({}) = {}
  BY DEF Tops, Mids
<1>8. TreeInv'
  <2>1. {} \in SUBSET M!ToMap /\ M!ToMap \subseteq {} \cup Unmapped'
    BY <1>5
  <2> QED BY <1>6, <1>7, <2>1 DEF TreeInv
<1> QED BY <1>2, <1>3, <1>5, <1>8 DEF KInv, StageInv, Before

\* One page of a call done: the rest of the call is still right.
LEMMA CallRound ==
  ASSUME NEW m \in Calls, m.left > 0, CallRight(m),
         NEW rest, rest = [m EXCEPT !.va = @ + 1, !.pa = @ + 1, !.left = @ - 1]
  PROVE  /\ m.va \in M!ToMap /\ m.va \in Nat /\ Leaf(m.va) = [ppn |-> m.pa, perm |-> m.perm]
         /\ rest \in Calls /\ Left(rest) = Left(m) \ {m.va} /\ CallRight(rest)
<1>1. m.va \in Nat /\ m.pa \in Int /\ m.left \in Nat /\ m.perm \in SUBSET All
  BY DEF Calls
<1>2. m.va \in Left(m)
  BY <1>1 DEF Left
<1>3. m.va \in M!ToMap /\ Leaf(m.va) = [ppn |-> m.pa, perm |-> m.perm]
  <2>1. m.pa + (m.va - m.va) = m.pa
    BY <1>1
  <2> QED BY <1>2, <2>1 DEF CallRight
<1>4. /\ rest.va = m.va + 1 /\ rest.pa = m.pa + 1 /\ rest.left = m.left - 1
      /\ rest.perm = m.perm
      /\ rest = [va |-> m.va + 1, pa |-> m.pa + 1, left |-> m.left - 1, perm |-> m.perm]
  BY DEF Calls
<1>5. rest \in Calls
  <2>1. m.va + 1 \in Nat /\ m.pa + 1 \in Int /\ m.left - 1 \in Nat
    BY <1>1
  <2> QED BY <1>1, <1>4, <2>1 DEF Calls
<1>6. Left(rest) = Left(m) \ {m.va}
  <2> DEFINE x == m.va
             y == m.left
  <2>1. Left(rest) = x + 1 .. (x + 1) + (y - 1) - 1 /\ Left(m) = x .. x + y - 1
    BY <1>4 DEF Left
  <2>2. x \in Nat /\ y \in Nat
    BY <1>1
  <2> HIDE DEF x, y
  <2>3. Left(rest) = Left(m) \ {x}
    BY <2>1, <2>2
  <2> QED BY <2>3 DEF x
<1>7. ASSUME NEW v \in Left(rest)
      PROVE  v \in M!ToMap /\ Leaf(v) = [ppn |-> rest.pa + (v - rest.va), perm |-> rest.perm]
  <2>1. v \in M!ToMap /\ Leaf(v) = [ppn |-> m.pa + (v - m.va), perm |-> m.perm]
    BY <1>6, <1>7 DEF CallRight
  <2>2. v \in Int
    BY <2>1, MappedPage
  <2>3. rest.pa + (v - rest.va) = m.pa + (v - m.va)
    BY <1>1, <1>4, <2>2
  <2> QED BY <1>4, <2>1, <2>3
<1> QED BY <1>1, <1>3, <1>5, <1>6, <1>7 DEF CallRight

LEMMA NewHead ==
  ASSUME NEW X, NEW s \in Seq(X), s # <<>>, NEW e \in X, NEW t, t = <<e>> \o Tail(s)
  PROVE  /\ t \in Seq(X) /\ Len(t) = Len(s)
         /\ t[1] = e /\ \A n \in 2 .. Len(s) : t[n] = s[n]
<1>1. /\ Tail(s) \in Seq(X) /\ Len(Tail(s)) = Len(s) - 1
      /\ \A n \in 1 .. Len(Tail(s)) : Tail(s)[n] = s[n + 1]
  BY HeadTailProperties
<1>2. Len(s) \in Nat \ {0}
  BY EmptySeq
<1>3. <<e>> \in Seq(X) /\ Len(<<e>>) = 1 /\ <<e>>[1] = e
  OBVIOUS
<1> DEFINE one == <<e>>
           rest == Tail(s)
<1> HIDE DEF one, rest
<1>4. /\ t \in Seq(X) /\ Len(t) = Len(one) + Len(rest)
      /\ \A n \in 1 .. Len(one) + Len(rest) : t[n] = IF n <= Len(one) THEN one[n] ELSE rest[n - Len(one)]
  BY <1>1, <1>3, ConcatProperties DEF one, rest
<1>5. Len(one) = 1 /\ one[1] = e /\ Len(rest) = Len(s) - 1
      /\ \A n \in 1 .. Len(s) - 1 : rest[n] = s[n + 1]
  BY <1>1, <1>3 DEF one, rest
<1>6. Len(t) = Len(s) /\ t[1] = e
  BY <1>2, <1>4, <1>5
<1>7. ASSUME NEW n \in 2 .. Len(s) PROVE t[n] = s[n]
  <2>1. n - 1 \in 1 .. Len(s) - 1 /\ (n - 1) + 1 = n /\ n \in 1 .. 1 + (Len(s) - 1) /\ ~(n <= 1)
    BY <1>2
  <2>2. t[n] = rest[n - 1]
    BY <1>4, <1>5, <2>1
  <2> QED BY <1>5, <2>1, <2>2
<1> QED BY <1>4, <1>6, <1>7

\* One round of create_mapping: the tables on the way to the page are there or
\* come from the pages behind the image, and the early table reaches them all.
LEMMA MapPageKInv == KInv /\ M!MapPage => KInv'
<1>1. SUFFICES ASSUME KInv, M!MapPage PROVE KInv'
  OBVIOUS
<1> DEFINE m == Head(todo)
           va == m.va
           i == M!VpnTop(va)
           j == M!VpnMid(va)
           k == va \div Fan
           ts1 == M!Descend(tables, M!Swapper, i, next)
           t1 == ts1[M!Swapper][i].ppn
           nx1 == M!NextAfter(t1, next)
           ts2 == M!Descend(ts1, t1, j, nx1)
           t2 == ts2[t1][j].ppn
           nx2 == M!NextAfter(t2, nx1)
           rest == [m EXCEPT !.va = @ + 1, !.pa = @ + 1, !.left = @ - 1]
<1>2. /\ stage = "create_mapping" /\ todo # <<>> /\ m.left > 0
      /\ tables' = [ts2 EXCEPT ![t2][M!VpnLow(va)] = [ppn |-> m.pa, perm |-> m.perm]]
      /\ next' = nx2
      /\ todo' = <<rest>> \o Tail(todo)
      /\ lost' = (lost \/ ~(/\ M!Reaches(satp, tables, M!Pa2Va(M!Swapper), M!Swapper, "W")
                            /\ M!Reaches(satp, tables, t1, t1, "W")
                            /\ M!Reaches(satp, tables, t2, t2, "W")))
      /\ UNCHANGED <<stage, satp>>
  BY <1>1 DEF M!MapPage
<1>3. lost = FALSE /\ satp = M!Early /\ TodoInv /\ TreeInv
  BY <1>1, <1>2 DEF KInv, StageInv, Before
<1>4. /\ Len(todo) \in Nat \ {0} /\ m = todo[1] /\ m \in Calls /\ 1 \in 1 .. Len(todo)
  <2>1. todo \in Seq(Calls) /\ todo # <<>>
    BY <1>2, <1>3 DEF TodoInv
  <2>2. m = todo[1] /\ m \in Calls /\ Len(todo) \in Nat \ {0}
    BY <2>1, HeadTailProperties, EmptySeq
  <2> QED BY <2>2
<1>5. CallRight(m)
  BY <1>3, <1>4 DEF TodoInv
<1>6. /\ va \in M!ToMap /\ va \in Nat /\ Leaf(va) = [ppn |-> m.pa, perm |-> m.perm]
      /\ rest \in Calls /\ Left(rest) = Left(m) \ {va} /\ CallRight(rest)
  <2> HIDE DEF m
  <2> QED BY <1>2, <1>4, <1>5, CallRound
<1> HIDE DEF rest
<1>10. /\ todo' \in Seq(Calls) /\ Len(todo') = Len(todo)
       /\ todo'[1] = rest /\ \A n \in 2 .. Len(todo) : todo'[n] = todo[n]
  <2>1. todo \in Seq(Calls) /\ todo # <<>>
    BY <1>2, <1>3 DEF TodoInv
  <2>2. rest \in Calls /\ todo' = <<rest>> \o Tail(todo)
    BY <1>2, <1>6
  <2> DEFINE t == todo'
  <2>3. t = <<rest>> \o Tail(todo)
    BY <2>2
  <2> HIDE DEF t
  <2>4. t \in Seq(Calls) /\ Len(t) = Len(todo) /\ t[1] = rest /\ \A n \in 2 .. Len(todo) : t[n] = todo[n]
    BY <2>1, <2>2, <2>3, NewHead
  <2> QED BY <2>4 DEF t
<1> HIDE DEF m
<1>11. \A n \in 1 .. Len(todo) : n = 1 \/ n \in 2 .. Len(todo)
  BY <1>4
<1>12. TodoInv'
  BY <1>3, <1>6, <1>10, <1>11 DEF TodoInv
<1>13. Unmapped \subseteq Unmapped' \cup {va}
  BY <1>4, <1>6, <1>10, <1>11 DEF Unmapped
<1>14. PICK S, mid, low :
         /\ S \in SUBSET M!ToMap
         /\ M!ToMap \subseteq S \cup Unmapped
         /\ Tree(tables, next, Tops(S), Mids(S), S, mid, low)
  BY <1>3 DEF TreeInv
<1>15. /\ i \in 0 .. Fan - 1 /\ j \in 0 .. Fan - 1 /\ k = i * Fan + j
  BY <1>6, MappedPage, Vpn
<1> DEFINE T == Tops(S) \cup {i}
           P == Mids(S) \cup {k}
           Z == S \cup {va}
<1>16. PICK mid1 : Tree(ts1, nx1, T, Mids(S), S, mid1, low) /\ mid1[i] = t1
  <2>1. Tree(tables, next, Tops(S), Mids(S), S, mid, low)
    BY <1>14
  <2> HIDE DEF i, ts1, t1, nx1
  <2>2. /\ i \in 0 .. Fan - 1 /\ ts1 = M!Descend(tables, M!Swapper, i, next)
        /\ t1 = ts1[M!Swapper][i].ppn /\ nx1 = M!NextAfter(t1, next)
    BY <1>15 DEF ts1, t1, nx1
  <2> DEFINE tops == Tops(S)
             mids == Mids(S)
  <2>3. T = tops \cup {i} /\ Tree(tables, next, tops, mids, S, mid, low)
    BY <2>1
  <2> HIDE DEF T, tops, mids
  <2>4. \E mid1 : Tree(ts1, nx1, tops \cup {i}, mids, S, mid1, low) /\ mid1[i] = t1
    BY <2>2, <2>3, RootEntry
  <2> QED BY <2>3, <2>4 DEF mids
<1>17. PICK low1 : Tree(ts2, nx2, T, P, S, mid1, low1) /\ low1[k] = t2
  <2> HIDE DEF i, j, k, ts1, t1, nx1
  <2>1. i \in T
    OBVIOUS
  <2> HIDE DEF T
  <2> USE DEF ts2, t2, nx2
  <2> QED BY <1>15, <1>16, <2>1, MidEntry
<1>18. Tree(tables', nx2, T, P, Z, mid1, low1)
  <2>1. tables' = [ts2 EXCEPT ![low1[k]][M!VpnLow(va)] = Leaf(va)]
    BY <1>2, <1>6, <1>17
  <2>2. k \in P /\ M!VpnLow(va) = va % Fan
    BY DEF M!VpnLow
  <2> HIDE DEF i, j, ts1, t1, nx1, ts2, t2, nx2, T, P, va
  <2> QED BY <1>6, <1>17, <2>1, <2>2, LeafEntry
<1>19. T = Tops(Z) /\ P = Mids(Z) /\ Z \in SUBSET M!ToMap
  BY <1>6, <1>14 DEF Tops, Mids
<1> HIDE DEF va, i, j, k, ts1, t1, nx1, ts2, t2, nx2
<1>20. TreeInv'
  <2>1. M!ToMap \subseteq Z \cup Unmapped'
    BY <1>13, <1>14
  <2>2. Tree(tables', next', Tops(Z), Mids(Z), Z, mid1, low1)
    BY <1>2, <1>18, <1>19
  <2> HIDE DEF Z
  <2> QED BY <1>19, <2>1, <2>2 DEF TreeInv
<1>21. t1 \in PhyStart .. PhyStart + M!Giant - 1 /\ t2 \in PhyStart .. PhyStart + M!Giant - 1
  <2>1. nx2 \in Nat /\ nx2 <= M!PhyEnd
    <3>1. nx2 = Base + Cardinality(T) + Cardinality(P) /\ nx2 \in Nat
      BY <1>18 DEF Tree, PagesOf
    <3>2. Base + Cardinality(T) + Cardinality(P) <= M!PhyEnd
      <4> HIDE DEF T, P, Z
      <4> QED BY <1>19, TablesFit
    <3> QED BY <3>1, <3>2
  <2>2. i \in T /\ k \in P
    OBVIOUS
  <2>3. t1 \in Base .. nx2 - 1 /\ t2 \in Base .. nx2 - 1
    BY <1>16, <1>17, <2>2 DEF Tree, PagesOf
  <2>4. PhyStart <= Base /\ Base \in Nat
    BY Machine, Sections
  <2> QED BY <2>1, <2>3, <2>4, ImagePages, Machine
<1>22. lost' = FALSE
  <2>1. tables[M!Early] = EarlyTable
    BY <1>14 DEF Tree, Contents
  <2>2. "W" \in All
    BY DEF All
  <2>3. /\ M!Reaches(satp, tables, M!Pa2Va(M!Swapper), M!Swapper, "W")
        /\ M!Reaches(satp, tables, t1, t1, "W")
        /\ M!Reaches(satp, tables, t2, t2, "W")
    BY <1>3, <1>21, <2>1, <2>2, EarlyMemory, ImagePages
  <2> QED BY <1>2, <1>3, <2>3
<1> QED BY <1>2, <1>3, <1>12, <1>20, <1>22 DEF KInv, StageInv, Before

LEMMA NextMappingKInv == KInv /\ M!NextMapping => KInv'
<1>1. SUFFICES ASSUME KInv, M!NextMapping PROVE KInv'
  OBVIOUS
<1>2. /\ stage = "create_mapping" /\ todo # <<>> /\ Head(todo).left = 0 /\ todo' = Tail(todo)
      /\ UNCHANGED <<stage, satp, tables, next, lost>>
  BY <1>1 DEF M!NextMapping
<1>3. lost = FALSE /\ satp = M!Early /\ TodoInv /\ TreeInv
  BY <1>1, <1>2 DEF KInv, StageInv, Before
<1>4. /\ todo' \in Seq(Calls) /\ Len(todo') = Len(todo) - 1
      /\ Len(todo) \in Nat \ {0} /\ Head(todo) = todo[1] /\ Head(todo) \in Calls
      /\ \A n \in 1 .. Len(todo) - 1 : todo'[n] = todo[n + 1]
  <2>1. todo \in Seq(Calls) /\ todo # <<>>
    BY <1>2, <1>3 DEF TodoInv
  <2>2. /\ Tail(todo) \in Seq(Calls) /\ Len(Tail(todo)) = Len(todo) - 1 /\ Head(todo) \in Calls
        /\ \A n \in 1 .. Len(Tail(todo)) : Tail(todo)[n] = todo[n + 1]
    BY <2>1, HeadTailProperties
  <2>3. Len(todo) \in Nat \ {0}
    BY <2>1, EmptySeq
  <2>4. Head(todo) = todo[1]
    BY <2>1
  <2> QED BY <1>2, <2>2, <2>3, <2>4
<1>5. Left(todo[1]) = {}
  BY <1>2, <1>4 DEF Calls, Left
<1>6. \A n \in 1 .. Len(todo) - 1 : n + 1 \in 1 .. Len(todo)
  BY <1>4
<1>7. TodoInv'
  BY <1>3, <1>4, <1>6 DEF TodoInv
<1>8. Unmapped \subseteq Unmapped'
  <2>1. SUFFICES ASSUME NEW v \in M!ToMap, NEW n \in 1 .. Len(todo), v \in Left(todo[n])
                 PROVE  \E p \in 1 .. Len(todo') : v \in Left(todo'[p])
    BY DEF Unmapped
  <2>2. n # 1
    BY <1>5, <2>1
  <2>3. n - 1 \in 1 .. Len(todo) - 1 /\ (n - 1) + 1 = n
    BY <1>4, <2>2
  <2>4. todo'[n - 1] = todo[n]
    BY <1>4, <2>3
  <2> QED BY <1>4, <2>1, <2>3, <2>4
<1>9. TreeInv'
  BY <1>2, <1>3, <1>8 DEF TreeInv
<1> QED BY <1>2, <1>3, <1>7, <1>9 DEF KInv, StageInv, Before

LEMMA ActivateKInv == KInv /\ M!Activate => KInv'
<1>1. SUFFICES ASSUME KInv, M!Activate PROVE KInv'
  OBVIOUS
<1>2. /\ stage = "create_mapping" /\ todo = <<>> /\ stage' = "mapped" /\ satp' = M!Swapper
      /\ UNCHANGED <<tables, next, todo>>
  BY <1>1 DEF M!Activate
<1>3. lost = FALSE /\ TodoInv /\ TreeInv
  BY <1>1, <1>2 DEF KInv, StageInv, Before
<1>4. PICK S, mid, low :
         /\ S \in SUBSET M!ToMap
         /\ M!ToMap \subseteq S \cup Unmapped
         /\ Tree(tables, next, Tops(S), Mids(S), S, mid, low)
  BY <1>3 DEF TreeInv
<1>5. S = M!ToMap
  <2>1. Len(todo) = 0
    BY <1>2
  <2>2. Unmapped = {}
    BY <2>1 DEF Unmapped
  <2> QED BY <1>4, <2>2
<1>6. /\ M!Stext \in M!DirectMap /\ M!BootStack \in M!DirectMap
      /\ M!Va2Pa(M!Stext) < M!Va2Pa(M!Srodata)
      /\ M!Va2Pa(M!BootStack) >= M!Va2Pa(M!Sdata)
      /\ M!Va2Pa(M!Stext) \in Nat /\ M!Va2Pa(M!BootStack) \in Nat
      /\ M!Va2Pa(M!Srodata) \in Nat /\ M!Va2Pa(M!Sdata) \in Nat
      /\ M!Va2Pa(M!Srodata) <= M!Va2Pa(M!Sdata)
  BY Machine, Sections, ImagePages DEF M!DirectMap
<1>7. "X" \in M!PermOf(M!Va2Pa(M!Stext)) /\ "W" \in M!PermOf(M!Va2Pa(M!BootStack))
  BY <1>6 DEF M!PermOf
<1>8. ASSUME NEW va \in M!DirectMap, NEW p \in M!PermOf(M!Va2Pa(va))
      PROVE  M!Reaches(M!Swapper, tables, va, M!Va2Pa(va), p)
  <2>1. va \in M!Space /\ va \in M!ToMap
    BY DirectPage DEF M!ToMap
  <2>2. M!Walk(M!Swapper, tables, va) = Leaf(va)
    BY <1>4, <1>5, <2>1, TreeWalk
  <2>3. M!Translate(M!Swapper, tables, va) = Leaf(va)
    BY <2>2, Sections DEF M!Translate
  <2> QED BY <2>3 DEF M!Reaches, Leaf
<1>9. lost' = FALSE
  BY <1>1, <1>3, <1>6, <1>7, <1>8 DEF M!Activate
<1>10. TodoInv' /\ TreeInv'
  BY <1>2, <1>3 DEF TodoInv, TreeInv, Unmapped
<1> QED BY <1>2, <1>9, <1>10 DEF KInv, StageInv, Before

LEMMA MapNextKInv == KInv /\ M!Next => KInv'
BY SetupVmKInv, RelocateKInv, MmInitKInv, SetupVmFinalKInv, MapPageKInv, NextMappingKInv,
   ActivateKInv DEF M!Next

LEMMA MapStutter == KInv /\ UNCHANGED mapVars => KInv'
BY DEF mapVars, KInv, StageInv, Before, EarlyInv, TodoInv, TreeInv, Unmapped

-----------------------------------------------------------------------------
(* The kernel's map: what the invariant says                               *)

LEMMA ApartKInv == KInv => M!TablesApart
<1>1. SUFFICES ASSUME KInv PROVE M!TablesApart
  OBVIOUS
<1>2. CASE stage \notin Before
  <2>1. PICK S, mid, low : Tree(tables, next, Tops(S), Mids(S), S, mid, low)
    BY <1>1, <1>2 DEF KInv, StageInv, TreeInv
  <2> QED BY <2>1, TreeLinks
<1>3. CASE stage \in Before
  <2>1. EarlyInv
    BY <1>1, <1>3 DEF KInv, StageInv
  <2>2. DOMAIN tables = {M!Early, M!Swapper}
    BY <2>1 DEF EarlyInv
  <2>3. ASSUME NEW t \in DOMAIN tables, NEW x \in 0 .. Fan - 1
        PROVE  tables[t][x] = M!NoPte \/ tables[t][x].perm = All
    <3>1. tables[t] = EarlyTable \/ tables[t] = M!Empty
      BY <2>1 DEF EarlyInv
    <3>2. EarlyTable[x] = M!NoPte \/ EarlyTable[x] = [ppn |-> (PhyStart \div M!Giant) * M!Giant, perm |-> All]
      BY DEF EarlyTable
    <3>3. M!Empty[x] = M!NoPte
      BY DEF M!Empty
    <3> QED BY <3>1, <3>2, <3>3
  <2>4. All # {}
    BY DEF All
  <2> QED BY <2>2, <2>3, <2>4 DEF M!TablesApart
<1> QED BY <1>2, <1>3

\* Once the final table is on, a walk finds what it shall, and only that.
LEMMA MappedWalk ==
  ASSUME KInv, stage = "mapped", NEW va \in M!Space
  PROVE  M!Walk(satp, tables, va) = IF va \in M!ToMap THEN Leaf(va) ELSE M!NoPte
<1>1. satp = M!Swapper /\ todo = <<>> /\ TreeInv
  BY DEF KInv, StageInv, Before
<1>2. PICK S, mid, low :
         /\ S \in SUBSET M!ToMap
         /\ M!ToMap \subseteq S \cup Unmapped
         /\ Tree(tables, next, Tops(S), Mids(S), S, mid, low)
  BY <1>1 DEF TreeInv
<1>3. S = M!ToMap
  <2>1. Len(todo) = 0
    BY <1>1
  <2>2. Unmapped = {}
    BY <2>1 DEF Unmapped
  <2> QED BY <1>2, <2>2
<1> QED BY <1>1, <1>2, <1>3, TreeWalk

LEMMA IoPage ==
  ASSUME NEW va \in M!IoMap
  PROVE  /\ va \in M!ToMap /\ va \in M!Space /\ va \in Nat
         /\ Leaf(va) = [ppn |-> va - IoOffset, perm |-> {"R", "W"}]
<1>1. va \in M!ToMap
  BY DEF M!ToMap
<1>2. va \notin M!DirectMap
  BY DirectPage, LayoutAssumption DEF M!MapAssumption
<1> QED BY <1>1, <1>2, MappedPage DEF Leaf

LEMMA MappedKInv == KInv => M!KernelMapped
<1>1. SUFFICES ASSUME KInv, stage = "mapped" PROVE M!KernelMapped
  BY DEF M!KernelMapped
<1>2. ASSUME NEW pa \in M!Va2Pa(M!Stext) .. M!PhyEnd - 1
      PROVE  M!Walk(satp, tables, M!Pa2Va(pa)) = [ppn |-> pa, perm |-> M!PermOf(pa)]
  <2> DEFINE va == M!Pa2Va(pa)
  <2>1. va \in M!DirectMap /\ M!Va2Pa(va) = pa
    BY Machine, Sections, ImagePages DEF M!DirectMap, M!PhyEnd
  <2> HIDE DEF va
  <2>2. va \in M!ToMap /\ va \in M!Space
    BY <2>1, MappedPage DEF M!ToMap
  <2>3. M!Walk(satp, tables, va) = Leaf(va)
    BY <1>1, <2>2, MappedWalk
  <2> QED BY <2>1, <2>3 DEF Leaf, va
<1>3. ASSUME NEW pa \in IoStart .. IoStart + IoPages - 1
      PROVE  M!Walk(satp, tables, pa + IoOffset) = [ppn |-> pa, perm |-> {"R", "W"}]
  <2> DEFINE va == pa + IoOffset
  <2>1. va \in M!IoMap /\ va - IoOffset = pa
    BY Machine DEF M!IoMap
  <2> HIDE DEF va
  <2>2. va \in M!ToMap /\ va \in M!Space /\ Leaf(va) = [ppn |-> pa, perm |-> {"R", "W"}]
    BY <2>1, IoPage
  <2>3. M!Walk(satp, tables, va) = Leaf(va)
    BY <1>1, <2>2, MappedWalk
  <2> QED BY <2>2, <2>3 DEF va
<1>4. ASSUME NEW va \in M!Space, M!Walk(satp, tables, va) # M!NoPte
      PROVE  /\ va >= (Fan * M!Giant) \div 2
             /\ M!Walk(satp, tables, va).ppn \in {M!Va2Pa(va), va - IoOffset}
  <2>1. va \in M!ToMap /\ M!Walk(satp, tables, va) = Leaf(va)
    BY <1>1, <1>4, MappedWalk
  <2> QED BY <2>1, MappedPage DEF Leaf
<1> QED BY <1>2, <1>3, <1>4 DEF M!KernelMapped

-----------------------------------------------------------------------------
(* The driver of the disk, for every size of the queue and width of the    *)
(* indices, every disk and any number of buffers.                          *)

USE QueueAssumption, DiskAssumption, BlkAssumption, StaleAssumption

\* All heads in the available ring are the one the driver uses.
RingClear == \A i \in Places : avail.ring[i] = 0

\* From the moment the request is filled until the loop ends, the descriptors
\* are the chain that virtio_blk_cmd built.
Built ==
  driver \in {"filled", "published", "wait"} =>
    /\ desc[0] = [addr |-> "req", flags |-> {"next"}, next |-> 1]
    /\ desc[1].addr \in Buffers
    /\ desc[1].next = 2
    /\ req.sector \in SectorNos

\* Where the device is with the request of the call that runs.
DeviceAt ==
  /\ driver \in {"probe", "idle", "filled"} => work = NoWork
  /\ driver = "filled" => used.idx = original
  /\ driver \in {"published", "wait"} =>
       \/ taken = original /\ used.idx = original /\ work = NoWork
       \/ taken = avail.idx /\ used.idx = original /\ work # NoWork
       \/ taken = avail.idx /\ used.idx = avail.idx /\ work = NoWork

IInv == TypeOK /\ RingClear /\ Built /\ DeviceAt /\ IndicesAgree /\ WorkIsRequest

\* An index moves to another one when it is incremented, also where it wraps.
LEMMA IndexMoves ==
  ASSUME NEW x \in Indices
  PROVE  (x + 1) % IdxMod \in Indices /\ (x + 1) % IdxMod # x
<1>1. CASE x + 1 < IdxMod
  <2>1. (x + 1) % IdxMod = x + 1
    BY <1>1, SMT DEF Indices
  <2>2. QED
    BY <2>1, <1>1 DEF Indices
<1>2. CASE x + 1 = IdxMod
  <2>1. (x + 1) % IdxMod = 0
    BY <1>2, SMT DEF Indices
  <2>2. QED
    BY <2>1, <1>2 DEF Indices
<1>3. QED
  BY <1>1, <1>2 DEF Indices

\* The place an index names is one of the ring.
LEMMA PlaceOfIndex ==
  ASSUME NEW x \in Nat
  PROVE  x % QueueSize \in Places
BY SMT DEF Places

\* The places of the three descriptors.
LEMMA Three == 0 \in Places /\ 1 \in Places /\ 2 \in Places
BY DEF Places

LEMMA InitInv == Init => IInv
<1>1. SUFFICES ASSUME Init PROVE IInv
  OBVIOUS
<1>2. TypeOK
  <2>1. desc \in [Places -> Descriptors]
    <3>1. [addr |-> "none", flags |-> {}, next |-> 0] \in Descriptors
      BY Three DEF Descriptors, Addresses, Flags
    <3>2. QED
      BY <1>1, <3>1 DEF Init
  <2>2. /\ avail \in [idx : Indices, ring : [Places -> Places]]
        /\ used \in [idx : Indices, ring : [Places -> Places]]
    BY <1>1, Three DEF Init, Indices
  <2>3. req \in [type : Types, sector : SectorNos \cup {0}]
    BY <1>1 DEF Init, Types
  <2>4. /\ regs \in {-1} \cup BlkAt /\ probed \in 0 .. Transports
        /\ original \in Indices /\ taken \in Indices
    BY <1>1 DEF Init, Indices
  <2>5. disk \in [0 .. Capacity - 1 -> Data]
    BY <1>1 DEF Init
  <2>6. QED
    BY <1>1, <2>1, <2>2, <2>3, <2>4, <2>5 DEF Init, TypeOK
<1>3. RingClear /\ Built /\ DeviceAt /\ IndicesAgree /\ WorkIsRequest
  BY <1>1 DEF Init, RingClear, Built, DeviceAt, IndicesAgree, WorkIsRequest
<1>4. QED
  BY <1>2, <1>3 DEF IInv

-----------------------------------------------------------------------------
(* One lemma for each step. *)

LEMMA ProbeInv == IInv /\ Probe => IInv'
BY DEF IInv, TypeOK, RingClear, Built, DeviceAt, IndicesAgree, WorkIsRequest, Probe, deviceVars

LEMMA BlkInitInv == IInv /\ BlkInit => IInv'
<1>1. SUFFICES ASSUME IInv, BlkInit PROVE IInv'
  OBVIOUS
<1>2. desc' \in [Places -> Descriptors]
  <2>1. DEFINE f(i) == [addr |-> desc[i].addr, flags |-> desc[i].flags,
                        next |-> IF i + 1 \in Places THEN i + 1 ELSE desc[i].next]
  <2>2. ASSUME NEW i \in Places PROVE f(i) \in Descriptors
    <3>1. desc[i] \in Descriptors
      BY <1>1 DEF IInv, TypeOK
    <3>2. QED
      BY <3>1 DEF Descriptors
  <2>3. desc' = [i \in Places |-> f(i)]
    BY <1>1 DEF BlkInit
  <2> HIDE DEF f
  <2>4. QED
    BY <2>2, <2>3
<1>3. QED
  BY <1>1, <1>2 DEF IInv, TypeOK, RingClear, Built, DeviceAt, IndicesAgree, WorkIsRequest,
     BlkInit, deviceVars

LEMMA CallInv ==
  ASSUME NEW type \in Types, NEW s \in SectorNos, NEW b \in Buffers, IInv, Call(type, s, b)
  PROVE  IInv'
<1>1. /\ desc' \in [Places -> Descriptors]
      /\ desc'[0] = [addr |-> "req", flags |-> {"next"}, next |-> 1]
      /\ desc'[1].addr = b /\ desc'[1].next = 2
  <2>1. DEFINE d0 == [addr |-> "req", flags |-> {"next"}, next |-> 1]
               d1 == [addr |-> b, flags |-> IF type = "in" THEN {"write", "next"} ELSE {"next"},
                      next |-> 2]
               d2 == [addr |-> "status", flags |-> {"write"}, next |-> desc[2].next]
  <2>2. d0 \in Descriptors
    BY Three DEF Descriptors, Addresses, Flags
  <2>3. d1 \in Descriptors
    BY Three DEF Descriptors, Addresses, Flags
  <2>4. d2 \in Descriptors
    <3>1. desc[2] \in Descriptors
      BY Three DEF IInv, TypeOK
    <3>2. {"write"} \in SUBSET Flags /\ "status" \in Addresses
      BY DEF Flags, Addresses
    <3>3. QED
      BY <3>1, <3>2 DEF Descriptors
  <2>5. desc \in [Places -> Descriptors]
    BY DEF IInv, TypeOK
  <2>6. desc' = [desc EXCEPT ![0] = d0, ![1] = d1, ![2] = d2]
    BY DEF Call
  <2> HIDE DEF d0, d1, d2
  <2>7. /\ desc' \in [Places -> Descriptors]
        /\ desc'[0] = d0 /\ desc'[1] = d1
    BY <2>2, <2>3, <2>4, <2>5, <2>6, Three
  <2>8. QED
    BY <2>7 DEF d0, d1
<1>2. TypeOK'
  BY <1>1 DEF IInv, TypeOK, Call, deviceVars, Types
<1>3. Built'
  BY <1>1 DEF Call, Built
<1>4. RingClear' /\ DeviceAt' /\ IndicesAgree' /\ WorkIsRequest'
  BY DEF IInv, RingClear, DeviceAt, IndicesAgree, WorkIsRequest, Call, deviceVars, TypeOK
<1>5. QED
  BY <1>2, <1>3, <1>4 DEF IInv

LEMMA PublishInv == IInv /\ Publish => IInv'
<1>1. SUFFICES ASSUME IInv, Publish PROVE IInv'
  OBVIOUS
<1>2. /\ avail'.idx = (avail.idx + 1) % IdxMod
      /\ avail'.ring = [avail.ring EXCEPT ![(avail.idx + 1) % QueueSize] = 0]
  BY <1>1 DEF Publish
<1>3. avail.idx \in Indices /\ avail.ring \in [Places -> Places]
  BY <1>1 DEF IInv, TypeOK
<1>4. avail'.idx \in Indices /\ avail'.idx # avail.idx
  BY <1>2, <1>3, IndexMoves
<1>5. avail'.ring \in [Places -> Places] /\ RingClear'
  <2> DEFINE p == (avail.idx + 1) % QueueSize
  <2>1. avail'.ring = [avail.ring EXCEPT ![p] = 0] /\ \A i \in Places : avail.ring[i] = 0
    BY <1>1, <1>2 DEF IInv, RingClear
  <2> HIDE DEF p
  <2>2. \A i \in Places : avail'.ring[i] = 0
    BY <1>3, <2>1
  <2> DEFINE ring == avail.ring
             ring1 == avail'.ring
  <2>3. ring \in [Places -> Places] /\ ring1 = [ring EXCEPT ![p] = 0] /\ 0 \in Places
    BY <1>3, <2>1, Three
  <2> HIDE DEF ring, ring1
  <2>4. ring1 \in [Places -> Places]
    BY <2>3
  <2> QED BY <2>2, <2>4 DEF RingClear, ring1
<1>6. TypeOK'
  <2>1. avail' \in [idx : Indices, ring : [Places -> Places]]
    BY <1>1, <1>4, <1>5 DEF Publish
  <2>2. QED
    BY <1>1, <2>1 DEF IInv, TypeOK, Publish, deviceVars
<1>7. Built' /\ DeviceAt' /\ IndicesAgree' /\ WorkIsRequest'
  BY <1>1, <1>2, <1>4 DEF IInv, Built, DeviceAt, IndicesAgree, WorkIsRequest, Publish, deviceVars, TypeOK
<1>8. QED
  BY <1>5, <1>6, <1>7 DEF IInv

LEMMA NotifyInv == IInv /\ Notify => IInv'
BY DEF IInv, TypeOK, RingClear, Built, DeviceAt, IndicesAgree, WorkIsRequest, Notify, deviceVars

LEMMA ReturnInv == IInv /\ Return => IInv'
BY DEF IInv, TypeOK, RingClear, Built, DeviceAt, IndicesAgree, WorkIsRequest, Return, deviceVars

LEMMA UseInv ==
  ASSUME NEW b \in Buffers, NEW d \in Data, IInv, Use(b, d)
  PROVE  IInv'
BY DEF IInv, TypeOK, RingClear, Built, DeviceAt, IndicesAgree, WorkIsRequest, Use,
   deviceVars, driverVars

LEMMA TakeInv == IInv /\ DeviceTake => IInv'
<1>1. SUFFICES ASSUME IInv, DeviceTake PROVE IInv'
  OBVIOUS
<1>2. avail.ring[taken % QueueSize] = 0
  <2>1. taken \in Nat
    BY <1>1 DEF IInv, TypeOK, Indices
  <2>2. taken % QueueSize \in Places
    BY <2>1, PlaceOfIndex
  <2>3. QED
    BY <1>1, <2>2 DEF IInv, RingClear
<1>3. driver \in {"published", "wait"} /\ taken = original /\ used.idx = original
  BY <1>1 DEF IInv, TypeOK, DeviceAt, IndicesAgree, DeviceTake
<1>4. work' = [head |-> 0, type |-> req.type, sector |-> req.sector,
               buffer |-> desc[1].addr, moved |-> FALSE]
  <2>1. desc[0].next = 1
    BY <1>1, <1>3 DEF IInv, Built
  <2>2. QED
    BY <1>1, <1>2, <2>1 DEF DeviceTake
<1>5. work' \in Works /\ work' # NoWork
  <2>1. req.type \in Types /\ req.sector \in SectorNos /\ desc[1].addr \in Buffers
    BY <1>1, <1>3 DEF IInv, TypeOK, Built
  <2>2. 0 \in Places /\ FALSE \in BOOLEAN
    BY Three
  <2>3. work' \in Works
    BY <1>4, <2>1, <2>2 DEF Works
  <2>4. work'.head = 0 /\ NoWork.head = -1
    BY <1>4 DEF NoWork
  <2> QED BY <2>3, <2>4
<1>6. taken' = avail.idx
  BY <1>1, <1>3 DEF DeviceTake, IInv, IndicesAgree
<1>7. TypeOK'
  BY <1>1, <1>5, <1>6 DEF IInv, TypeOK, DeviceTake, driverVars
<1>8. RingClear' /\ Built' /\ DeviceAt' /\ WorkIsRequest'
  <2>1. UNCHANGED <<driver, avail, desc, req, used, original>>
    BY <1>1 DEF DeviceTake, driverVars
  <2>2. RingClear' /\ Built'
    BY <1>1, <2>1 DEF IInv, RingClear, Built
  <2>3. DeviceAt'
    BY <1>3, <1>5, <1>6, <2>1 DEF DeviceAt
  <2>4. WorkIsRequest'
    BY <1>3, <1>4, <2>1 DEF WorkIsRequest
  <2> QED BY <2>2, <2>3, <2>4
<1>9. IndicesAgree'
  <2>1. avail.idx # original
    BY <1>1, <1>3, IndexMoves DEF IInv, IndicesAgree, TypeOK
  <2>2. QED
    BY <1>1, <1>3, <1>6, <2>1 DEF IInv, IndicesAgree, DeviceTake, driverVars
<1>10. QED
  BY <1>7, <1>8, <1>9 DEF IInv

LEMMA SleepInv == IInv /\ DeviceSleep => IInv'
BY DEF IInv, TypeOK, RingClear, Built, DeviceAt, IndicesAgree, WorkIsRequest, DeviceSleep,
   deviceVars, driverVars

LEMMA MoveInv == IInv /\ DeviceMove => IInv'
<1>1. SUFFICES ASSUME IInv, DeviceMove PROVE IInv'
  OBVIOUS
<1>2. work \in Works
  BY <1>1 DEF IInv, TypeOK, DeviceMove
<1>3. /\ work' \in Works /\ work' # NoWork
      /\ work'.type = work.type /\ work'.sector = work.sector /\ work'.buffer = work.buffer
  BY <1>1, <1>2, Three DEF DeviceMove, Works, NoWork, Places
<1>4. disk' \in [0 .. Capacity - 1 -> Data] /\ memory' \in [Buffers -> Data]
  <2>1. work.sector \in Nat /\ work.buffer \in Buffers
    BY <1>2 DEF Works
  <2>2. QED
    <3>1. \/ UNCHANGED <<disk, memory>>
          \/ /\ work.sector \in 0 .. Capacity - 1
             /\ memory' = [memory EXCEPT ![work.buffer] = disk[work.sector]]
             /\ UNCHANGED disk
          \/ /\ disk' = [disk EXCEPT ![work.sector] = memory[work.buffer]]
             /\ UNCHANGED memory
      BY <1>1, <2>1 DEF DeviceMove
    <3>2. disk \in [0 .. Capacity - 1 -> Data] /\ memory \in [Buffers -> Data]
      BY <1>1 DEF IInv, TypeOK
    <3>3. QED
      BY <2>1, <3>1, <3>2
<1>5. TypeOK'
  BY <1>1, <1>3, <1>4 DEF IInv, TypeOK, DeviceMove, driverVars
<1>6. RingClear' /\ Built' /\ DeviceAt' /\ IndicesAgree' /\ WorkIsRequest'
  BY <1>1, <1>3 DEF IInv, RingClear, Built, DeviceAt, IndicesAgree, WorkIsRequest, DeviceMove, driverVars
<1>7. QED
  BY <1>5, <1>6 DEF IInv

LEMMA DoneInv == IInv /\ DeviceDone => IInv'
<1>1. SUFFICES ASSUME IInv, DeviceDone PROVE IInv'
  OBVIOUS
<1>2. /\ work \in Works /\ used.idx \in Indices
      /\ used.ring \in [Places -> Places] /\ work.head \in Places
  BY <1>1 DEF IInv, TypeOK, DeviceDone, Works
<1>3. /\ driver \in {"published", "wait"} /\ taken = avail.idx /\ used.idx = original
  BY <1>1 DEF IInv, TypeOK, DeviceAt, WorkIsRequest, DeviceDone
<1>4. used'.idx = avail.idx /\ used'.idx \in Indices /\ used'.idx # original
  BY <1>1, <1>2, <1>3, IndexMoves DEF DeviceDone, IInv, IndicesAgree
<1>5. used' \in [idx : Indices, ring : [Places -> Places]]
  BY <1>1, <1>2, <1>4 DEF DeviceDone
<1>6. TypeOK'
  BY <1>1, <1>5 DEF IInv, TypeOK, DeviceDone, driverVars
<1>7. RingClear' /\ Built' /\ DeviceAt' /\ IndicesAgree' /\ WorkIsRequest'
  BY <1>1, <1>3, <1>4 DEF IInv, RingClear, Built, DeviceAt, IndicesAgree, WorkIsRequest,
     DeviceDone, driverVars
<1>8. QED
  BY <1>6, <1>7 DEF IInv

LEMMA StutterInv == IInv /\ UNCHANGED vars => IInv'
BY DEF IInv, TypeOK, RingClear, Built, DeviceAt, IndicesAgree, WorkIsRequest, vars,
   deviceVars, driverVars

LEMMA NextInv == IInv /\ [Next]_vars => IInv'
BY ProbeInv, BlkInitInv, CallInv, PublishInv, NotifyInv, ReturnInv, UseInv, TakeInv,
   SleepInv, MoveInv, DoneInv, StutterInv DEF Next, Driver, Device

LEMMA Invariant == Spec => []IInv
BY InitInv, NextInv, PTL DEF Spec

-----------------------------------------------------------------------------
\* The indices of the driver and of the device count the same requests, wherever
\* they wrap, and the device works on the request of the call that runs
\* (avail->idx += 1 of virtio_blk_cmd, the wait for used->idx).
THEOREM QueueStaysInOrder == Spec => []QueueInOrder
BY Invariant, PTL DEF IInv, QueueInOrder

\* While the device has a request, the driver keeps off its descriptors and
\* its buffer.
Owned == work # NoWork =>
           /\ UNCHANGED <<desc, req>>
           /\ UNCHANGED memory \/ work' = [work EXCEPT !.moved = TRUE]

LEMMA OwnedStep == IInv /\ [Next]_vars => [Owned]_vars
<1>1. SUFFICES ASSUME IInv, Next, work # NoWork
      PROVE  Owned
  BY DEF IInv, Owned
<1>2. driver \in {"published", "wait"}
  BY <1>1 DEF IInv, WorkIsRequest
<1>3. ~Probe /\ ~BlkInit /\ \A t \in Types, s \in SectorNos, b \in Buffers : ~Call(t, s, b)
  BY <1>2 DEF Probe, BlkInit, Call
<1>4. \A b \in Buffers, d \in Data : ~Use(b, d)
  BY <1>2 DEF Use
<1>5. CASE Publish \/ Notify \/ Return
  BY <1>5 DEF Publish, Notify, Return, Owned
<1>6. CASE DeviceTake \/ DeviceSleep \/ DeviceDone
  BY <1>6 DEF DeviceTake, DeviceSleep, DeviceDone, driverVars, deviceVars, Owned
<1>7. CASE DeviceMove
  BY <1>7 DEF DeviceMove, driverVars, Owned
<1> QED BY <1>1, <1>3, <1>4, <1>5, <1>6, <1>7 DEF Next, Driver, Device

\* Nobody changes what a request names while the device has it (the spinning
\* loops of virtio_blk_read_sector and _write_sector).
THEOREM DeviceOwns == Spec => DeviceOwnsRequest
<1>1. IInv /\ [Next]_vars => [work # NoWork =>
             /\ UNCHANGED <<desc, req>>
             /\ UNCHANGED memory \/ work' = [work EXCEPT !.moved = TRUE]]_vars
  BY OwnedStep DEF Owned
<1> QED BY <1>1, Invariant, PTL DEF Spec, DeviceOwnsRequest

-----------------------------------------------------------------------------
(* The refinement. *)

\* Between calls nothing is asked for.
LEMMA AskedOutside == driver \in {"probe", "idle"} => Asked = D!None
BY DEF Asked, D!None

\* In a call, what was asked for is in the request and in the second descriptor.
LEMMA AskedInside ==
  driver \notin {"probe", "idle"} =>
    Asked = [type |-> req.type, sector |-> req.sector, buffer |-> desc[1].addr,
             served |-> IF work = NoWork THEN used.idx # original ELSE work.moved]
BY DEF Asked

LEMMA AskedIsNot == driver \notin {"probe", "idle"} => Asked # D!None
BY AskedInside DEF D!None

LEMMA DiskInit == Init => D!Init
BY AskedOutside DEF Init, D!Init

\* Steps that keep the descriptors, the request and the progress of the
\* device are not seen from outside.
LEMMA Unseen ==
  ASSUME UNCHANGED <<disk, memory>>, Asked' = Asked
  PROVE  UNCHANGED D!vars
BY DEF D!vars

LEMMA CallAsks ==
  ASSUME NEW type \in Types, NEW s \in SectorNos, NEW b \in Buffers, IInv, Call(type, s, b)
  PROVE  D!Ask(type, s, b)
<1>1. driver = "idle" /\ driver' = "filled" /\ work = NoWork
  BY DEF Call, IInv, DeviceAt
<1>2. /\ req' = [type |-> type, sector |-> s] /\ desc'[1].addr = b
      /\ original' = used.idx /\ UNCHANGED <<work, used, disk, memory>>
  BY Three DEF Call, IInv, TypeOK, deviceVars
<1>3. Asked' = [type |-> type, sector |-> s, buffer |-> b, served |-> FALSE]
  BY <1>1, <1>2 DEF Asked
<1>4. QED
  BY <1>1, <1>2, <1>3, AskedOutside DEF D!Ask, D!Request

LEMMA MoveServes == IInv /\ DeviceMove => D!Serve
<1>1. SUFFICES ASSUME IInv, DeviceMove PROVE D!Serve
  OBVIOUS
<1>2. /\ driver \in {"published", "wait"} /\ work \in Works
      /\ work.type = req.type /\ work.sector = req.sector /\ work.buffer = desc[1].addr
  BY <1>1 DEF IInv, TypeOK, WorkIsRequest, DeviceMove
<1>3. work' # NoWork /\ work'.moved = TRUE
  BY <1>1, <1>2, Three DEF DeviceMove, Works, NoWork, Places
<1>4. Asked = [type |-> req.type, sector |-> req.sector, buffer |-> desc[1].addr, served |-> FALSE]
  BY <1>1, <1>2, AskedInside DEF DeviceMove, Works
<1>5. Asked' = [type |-> req.type, sector |-> req.sector, buffer |-> desc[1].addr, served |-> TRUE]
  BY <1>1, <1>2, <1>3 DEF Asked, DeviceMove, driverVars
<1>6. Asked # D!None
  BY <1>2, AskedIsNot
<1>7. Asked' = D!Request(Asked.type, Asked.sector, Asked.buffer, TRUE)
  BY <1>4, <1>5 DEF D!Request
<1>8. QED
  BY <1>1, <1>2, <1>4, <1>6, <1>7 DEF D!Serve, DeviceMove

LEMMA ReturnReturns == IInv /\ Return => D!Return
<1>1. SUFFICES ASSUME IInv, Return PROVE D!Return
  OBVIOUS
<1>2. driver = "wait" /\ driver' = "idle" /\ used.idx # original
  BY <1>1 DEF Return
<1>3. work = NoWork
  BY <1>1, <1>2 DEF IInv, DeviceAt
<1>4. Asked # D!None /\ Asked.served
  <2>1. Asked = [type |-> req.type, sector |-> req.sector, buffer |-> desc[1].addr,
                 served |-> TRUE]
    BY <1>2, <1>3, AskedInside
  <2>2. QED
    BY <1>2, <2>1, AskedIsNot
<1>5. Asked' = D!None
  BY <1>2 DEF Asked, D!None
<1>6. QED
  BY <1>1, <1>4, <1>5 DEF D!Return, Return, deviceVars

\* Every step of the driver and the device is one of the abstract disk or a stutter.
LEMMA DiskStep == IInv /\ [Next]_vars => [D!Next]_(D!vars)
<1>1. SUFFICES ASSUME IInv, [Next]_vars PROVE [D!Next]_(D!vars)
  OBVIOUS
<1>2. CASE Probe \/ BlkInit
  <2>1. driver \in {"probe", "idle"} /\ driver' \in {"probe", "idle"} /\ UNCHANGED <<disk, memory>>
    BY <1>2 DEF Probe, BlkInit, deviceVars
  <2>2. QED
    BY <2>1, Unseen DEF Asked
<1>3. CASE \E type \in Types, s \in SectorNos, b \in Buffers : Call(type, s, b)
  BY <1>1, <1>3, CallAsks DEF D!Next, Types, D!Types
<1>4. CASE Publish \/ Notify
  <2>1. /\ driver \in {"filled", "published"} /\ driver' \in {"published", "wait"}
        /\ UNCHANGED <<disk, memory, desc, req, work, used, original>>
    BY <1>4 DEF Publish, Notify, deviceVars
  <2>2. QED
    BY <2>1, Unseen DEF Asked
<1>5. CASE Return
  BY <1>1, <1>5, ReturnReturns DEF D!Next
<1>6. CASE DeviceTake
  <2>1. /\ driver \in {"published", "wait"} /\ work = NoWork
        /\ used.idx = original
    BY <1>1, <1>6 DEF IInv, TypeOK, DeviceAt, IndicesAgree, DeviceTake
  <2>2. work' # NoWork /\ work'.moved = FALSE
    BY <1>6 DEF DeviceTake, NoWork
  <2>3. UNCHANGED <<driver, disk, memory, desc, req, used, original>>
    BY <1>6 DEF DeviceTake, driverVars
  <2>4. QED
    BY <2>1, <2>2, <2>3, Unseen DEF Asked
<1>7. CASE DeviceSleep
  BY <1>7, Unseen DEF DeviceSleep, Asked, driverVars, deviceVars
<1>8. CASE DeviceMove
  BY <1>1, <1>8, MoveServes DEF D!Next
<1>9. CASE DeviceDone
  <2>1. /\ driver \in {"published", "wait"} /\ work # NoWork /\ work.moved = TRUE
        /\ used.idx = original /\ original \in Indices
    BY <1>1, <1>9 DEF IInv, TypeOK, DeviceAt, WorkIsRequest, DeviceDone, Works
  <2>2. work' = NoWork /\ used'.idx # original
    BY <1>9, <2>1, IndexMoves DEF DeviceDone
  <2>3. UNCHANGED <<driver, disk, memory, desc, req, original>>
    BY <1>9 DEF DeviceDone, driverVars
  <2>4. QED
    BY <2>1, <2>2, <2>3, Unseen DEF Asked
<1>10. CASE \E b \in Buffers, d \in Data : Use(b, d)
  <2>1. ASSUME NEW b \in Buffers, NEW d \in Data, Use(b, d) PROVE D!Use(b, d)
    BY <2>1 DEF Use, D!Use, Asked, D!None, driverVars, deviceVars
  <2>2. QED
    BY <1>10, <2>1 DEF D!Next
<1>11. CASE UNCHANGED vars
  BY <1>11, Unseen DEF vars, driverVars, deviceVars, Asked
<1>12. QED
  BY <1>1, <1>2, <1>3, <1>4, <1>5, <1>6, <1>7, <1>8, <1>9, <1>10, <1>11 DEF Next, Driver, Device

\* The driver and the device together are the disk that fat32.c relies on:
\* every request is served once, on its own sector and buffer, before the
\* call returns, for every width of the indices.
THEOREM ImplementsDisk == Spec => RefinesDisk
BY DiskInit, DiskStep, Invariant, PTL DEF Spec, RefinesDisk, D!Spec

-----------------------------------------------------------------------------
(* The boot: the invariant                                                 *)

\* The boot goes on with the driver when the kernel is mapped, and the driver
\* has its device before it is asked for anything.
OrderInv ==
  /\ at \in {"map", "virtio_dev_init", "mbr_init", "partitions", "is_fat32", "fat32_init", "running"}
  /\ at # "map" => stage = "mapped"
  /\ at = "map" => driver = "probe"
  /\ driver = "probe" => status = {} /\ at \in {"map", "virtio_dev_init"}
  /\ driver # "probe" => regs # -1

\* The entry of the partition table that the boot looks at.
EntryInv ==
  /\ entry \in 1 .. 5
  /\ at \in {"map", "virtio_dev_init", "mbr_init"} => entry = 1
  /\ at \in {"is_fat32", "fat32_init"} => entry \in 1 .. 4 /\ Lba # -1
  /\ at = "running" => entry = 5

\* The buffer of the request in progress, one that the boot has not read from yet.
BufferInv ==
  driver # "idle" =>
    /\ at = "partitions" => entry = 1 /\ desc[1].addr = "mbr"
    /\ at \in {"is_fat32", "fat32_init"} => desc[1].addr = "header"
    /\ at = "running" => desc[1].addr \in {"sector", "table"}

\* The entries before the n-th that are partitions of the type.
LinuxBefore(n) == {i \in 1 .. 4 : i < n /\ Linux[memory["mbr"]][i] # -1}

\* VolumeWhole for the entries before the n-th.
WholeAt(n) ==
  \/ LinuxBefore(n) = {}
  \/ memory["header"] \notin Signed
  \/ \E i \in LinuxBefore(n) :
        /\ \A j \in LinuxBefore(n) : j <= i
        /\ volume = [lba |-> Linux[memory["mbr"]][i], header |-> memory["header"]]

BInv ==
  /\ OrderInv /\ EntryInv /\ BufferInv
  /\ at \in {"partitions", "running"} => WholeAt(entry)

LEMMA BootStart == BootInit => IInv /\ KInv /\ BInv
<1>1. SUFFICES ASSUME BootInit PROVE IInv /\ KInv /\ BInv
  OBVIOUS
<1>2. IInv /\ KInv
  BY <1>1, InitInv, MapInit DEF BootInit
<1>3. at = "map" /\ entry = 1 /\ driver = "probe" /\ status = {}
  BY <1>1 DEF BootInit, Init
<1> QED BY <1>2, <1>3 DEF BInv, OrderInv, EntryInv, BufferInv

-----------------------------------------------------------------------------
(* The boot: its steps are steps of the driver, the device and their callers *)

\* What the partition table says of an entry is a sector callers may ask for.
LEMMA LbaSector ==
  ASSUME IInv, BInv, entry \in 1 .. 4
  PROVE  Lba \in SectorNos \cup {-1}
<1>1. memory["mbr"] \in Data
  BY BootAssumption DEF IInv, TypeOK
<1> QED BY <1>1, BootAssumption DEF Lba

LEMMA BootCalls ==
  ASSUME IInv, BInv
  PROVE  /\ ReadSignature => \E s \in SectorNos : Call("in", s, "boot")
         /\ ReadMbr => \E s \in SectorNos : Call("in", s, "mbr")
         /\ ReadHeader => \E s \in SectorNos : Call("in", s, "header")
         /\ IsFat32 => \E s \in SectorNos : Call("in", s, "header")
<1>1. 0 \in SectorNos
  BY BootAssumption
<1>2. ReadSignature => \E s \in SectorNos : Call("in", s, "boot")
  BY <1>1 DEF ReadSignature
<1>3. ReadMbr => \E s \in SectorNos : Call("in", s, "mbr")
  BY <1>1 DEF ReadMbr
<1>4. ReadHeader => \E s \in SectorNos : Call("in", s, "header")
  <2>1. SUFFICES ASSUME ReadHeader PROVE \E s \in SectorNos : Call("in", s, "header")
    OBVIOUS
  <2>2. entry \in 1 .. 4 /\ Lba # -1 /\ Call("in", Lba, "header")
    BY <2>1 DEF ReadHeader, Entries, BInv, EntryInv
  <2> QED BY <2>2, LbaSector
<1>5. IsFat32 => \E s \in SectorNos : Call("in", s, "header")
  <2>1. SUFFICES ASSUME IsFat32 PROVE \E s \in SectorNos : Call("in", s, "header")
    OBVIOUS
  <2>2. entry \in 1 .. 4 /\ Lba # -1 /\ Call("in", Lba, "header")
    BY <2>1 DEF IsFat32, BInv, EntryInv
  <2> QED BY <2>2, LbaSector
<1> QED BY <1>2, <1>3, <1>4, <1>5

LEMMA BootVirtio == IInv /\ BInv /\ [BootNext]_allVars => [Next]_vars
<1>1. SUFFICES ASSUME IInv, BInv, [BootNext]_allVars PROVE [Next]_vars
  OBVIOUS
<1>2. "in" \in Types /\ "out" \in Types
  BY DEF Types
<1>3. "boot" \in Buffers /\ "mbr" \in Buffers /\ "header" \in Buffers /\ "sector" \in Buffers
      /\ "table" \in Buffers /\ FileSectors \subseteq SectorNos
  BY BootAssumption
<1>4. CASE MapKernel \/ SkipPartition \/ NotFat32 \/ Fat32Init \/ StartKernel
  BY <1>4 DEF MapKernel, SkipPartition, NotFat32, Fat32Init, StartKernel
<1>5. CASE VirtioDevInit \/ InRequest
  BY <1>5 DEF VirtioDevInit, InRequest, Next, Driver
<1>6. CASE DeviceRuns
  BY <1>6 DEF DeviceRuns, Next
<1>7. CASE ReadSignature \/ ReadMbr \/ ReadHeader \/ IsFat32
  <2>1. \E s \in SectorNos, b \in Buffers : Call("in", s, b)
    BY <1>1, <1>3, <1>7, BootCalls
  <2> QED BY <1>2, <2>1 DEF Next
<1>8. CASE \E s \in FileSectors : \/ FileRequest("in", s, "sector")
                                  \/ FileRequest("out", s, "sector")
                                  \/ FileRequest("in", s, "table")
  <2>1. \E type \in Types, s \in SectorNos, b \in Buffers : Call(type, s, b)
    BY <1>2, <1>3, <1>8 DEF FileRequest
  <2> QED BY <2>1 DEF Next
<1>9. CASE \E d \in Data : FileUse(d)
  <2>1. \E b \in Buffers, d \in Data : Use(b, d)
    BY <1>3, <1>9 DEF FileUse
  <2> QED BY <2>1 DEF Next
<1>10. CASE UNCHANGED allVars
  BY <1>10 DEF allVars
<1> QED BY <1>1, <1>4, <1>5, <1>6, <1>7, <1>8, <1>9, <1>10 DEF BootNext, Hart, Mbr

\* They are steps of the kernel's map too, or leave it.
LEMMA BootMap == KInv /\ [BootNext]_allVars => KInv'
<1>1. [BootNext]_allVars => M!Next \/ UNCHANGED mapVars
  BY DEF BootNext, Hart, Mbr, MapKernel, VirtioDevInit, ReadSignature, ReadMbr, SkipPartition,
     ReadHeader, NotFat32, IsFat32, Fat32Init, StartKernel, InRequest, DeviceRuns, FileRequest,
     FileUse, allVars
<1> QED BY <1>1, MapNextKInv, MapStutter

-----------------------------------------------------------------------------
(* The boot: the steps                                                     *)

LEMMA CallFills ==
  ASSUME IInv, NEW type \in Types, NEW s \in SectorNos, NEW b \in Buffers, Call(type, s, b)
  PROVE  /\ driver = "idle" /\ driver' = "filled" /\ desc'[1].addr = b
         /\ UNCHANGED <<memory, regs>>
<1>1. desc'[1].addr = b
  BY Three DEF Call, IInv, TypeOK
<1> QED BY <1>1 DEF Call

LEMMA MapKernelBInv == KInv /\ BInv /\ MapKernel => BInv'
<1>1. SUFFICES ASSUME KInv, BInv, MapKernel PROVE BInv'
  OBVIOUS
<1>2. /\ at = "map" /\ at' = IF stage' = "mapped" THEN "virtio_dev_init" ELSE "map"
      /\ UNCHANGED <<driver, status, regs, entry>>
  BY <1>1 DEF MapKernel, vars, driverVars
<1>3. driver = "probe" /\ status = {} /\ entry = 1
  BY <1>1, <1>2 DEF BInv, OrderInv, EntryInv
<1> QED BY <1>2, <1>3 DEF BInv, OrderInv, EntryInv, BufferInv

LEMMA DevInitBInv == BInv /\ VirtioDevInit => BInv'
<1>1. SUFFICES ASSUME BInv, VirtioDevInit PROVE BInv'
  OBVIOUS
<1>2. at = "virtio_dev_init" /\ UNCHANGED <<stage, at, entry, volume, memory>>
  BY <1>1 DEF VirtioDevInit, Probe, BlkInit, mapVars, bootVars
<1>3. \/ driver' = "probe" /\ driver = "probe" /\ UNCHANGED status
      \/ driver' = "idle" /\ regs' # -1
  BY <1>1 DEF VirtioDevInit, Probe, BlkInit
<1> QED BY <1>1, <1>2, <1>3 DEF BInv, OrderInv, EntryInv, BufferInv

\* The calls of the boot, and those of fat32.c later.
LEMMA ReadSignatureBInv == IInv /\ BInv /\ ReadSignature => BInv'
<1>1. SUFFICES ASSUME IInv, BInv, ReadSignature PROVE BInv'
  OBVIOUS
<1>2. at = "virtio_dev_init" /\ at' = "mbr_init" /\ UNCHANGED <<stage, entry>>
  BY <1>1 DEF ReadSignature, mapVars
<1>3. driver = "idle" /\ driver' = "filled" /\ UNCHANGED regs
  BY <1>1 DEF ReadSignature, Call
<1> QED BY <1>1, <1>2, <1>3 DEF BInv, OrderInv, EntryInv, BufferInv

LEMMA ReadMbrBInv == IInv /\ BInv /\ ReadMbr => BInv'
<1>1. SUFFICES ASSUME IInv, BInv, ReadMbr PROVE BInv'
  OBVIOUS
<1>2. at = "mbr_init" /\ at' = "partitions" /\ UNCHANGED <<stage, entry>>
  BY <1>1 DEF ReadMbr, mapVars
<1>3. driver = "idle" /\ driver' = "filled" /\ UNCHANGED regs /\ desc'[1].addr = "mbr"
  <2>1. \E s \in SectorNos : Call("in", s, "mbr")
    BY <1>1, BootCalls
  <2>2. "in" \in Types /\ "mbr" \in Buffers
    BY BootAssumption DEF Types
  <2> QED BY <1>1, <2>1, <2>2, CallFills
<1>4. entry' = 1
  BY <1>1, <1>2 DEF BInv, EntryInv
<1>5. LinuxBefore(entry)' = {}
  BY <1>4 DEF LinuxBefore
<1> QED BY <1>1, <1>2, <1>3, <1>4, <1>5 DEF BInv, OrderInv, EntryInv, BufferInv, WholeAt

LEMMA ReadHeaderBInv == IInv /\ BInv /\ (ReadHeader \/ IsFat32) => BInv'
<1>1. SUFFICES ASSUME IInv, BInv, ReadHeader \/ IsFat32 PROVE BInv'
  OBVIOUS
<1>2. /\ at \in {"partitions", "is_fat32"} /\ at' \in {"is_fat32", "fat32_init"}
      /\ UNCHANGED <<stage, entry>>
  BY <1>1 DEF ReadHeader, IsFat32, mapVars
<1>3. /\ driver = "idle" /\ driver' = "filled" /\ UNCHANGED <<regs, memory>>
      /\ desc'[1].addr = "header"
  <2>1. \E s \in SectorNos : Call("in", s, "header")
    BY <1>1, BootCalls
  <2>2. "in" \in Types /\ "header" \in Buffers
    BY BootAssumption DEF Types
  <2> QED BY <1>1, <2>1, <2>2, CallFills
<1>4. entry \in 1 .. 4 /\ Lba # -1
  BY <1>1 DEF ReadHeader, IsFat32, Entries, BInv, EntryInv
<1>5. Lba' = Lba
  BY <1>2, <1>3 DEF Lba
<1> QED BY <1>1, <1>2, <1>3, <1>4, <1>5 DEF BInv, OrderInv, EntryInv, BufferInv

LEMMA FileRequestBInv ==
  ASSUME IInv, BInv, NEW type \in Types, NEW s \in FileSectors, NEW b \in {"sector", "table"},
         FileRequest(type, s, b)
  PROVE  BInv'
<1>1. at = "running" /\ UNCHANGED <<stage, at, entry, volume>>
  BY DEF FileRequest, mapVars, bootVars
<1>2. /\ driver = "idle" /\ driver' = "filled" /\ UNCHANGED <<regs, memory>>
      /\ desc'[1].addr = b
  <2>1. s \in SectorNos /\ b \in Buffers
    BY BootAssumption
  <2> QED BY <2>1, CallFills DEF FileRequest
<1>3. Lba' = Lba /\ WholeAt(entry)' = WholeAt(entry)
  BY <1>1, <1>2 DEF Lba, WholeAt, LinuxBefore
<1> QED BY <1>1, <1>2, <1>3 DEF BInv, OrderInv, EntryInv, BufferInv

LEMMA FileUseBInv ==
  ASSUME IInv, BInv, NEW d \in Data, FileUse(d)
  PROVE  BInv'
<1>1. at = "running" /\ UNCHANGED <<stage, at, entry, volume, driver, regs, status>>
  BY DEF FileUse, Use, mapVars, bootVars, driverVars
<1>2. memory'["mbr"] = memory["mbr"] /\ memory'["header"] = memory["header"]
  BY BootAssumption DEF FileUse, Use, IInv, TypeOK
<1>3. Lba' = Lba /\ WholeAt(entry)' = WholeAt(entry)
  BY <1>1, <1>2 DEF Lba, WholeAt, LinuxBefore
<1>4. driver = "idle"
  BY DEF FileUse, Use
<1> QED BY <1>1, <1>3, <1>4 DEF BInv, OrderInv, EntryInv, BufferInv

\* A request in progress changes no buffer but its own.
LEMMA RequestBInv == IInv /\ BInv /\ (InRequest \/ DeviceRuns) => BInv'
<1>1. SUFFICES ASSUME IInv, BInv, InRequest \/ DeviceRuns PROVE BInv'
  OBVIOUS
<1>2. UNCHANGED <<stage, at, entry, volume>>
  BY <1>1 DEF InRequest, DeviceRuns, mapVars, bootVars
<1>3. /\ UNCHANGED <<desc, regs, status>>
      /\ driver' # "idle" => driver # "idle"
      /\ driver' = "probe" <=> driver = "probe"
  BY <1>1 DEF InRequest, DeviceRuns, Publish, Notify, Return, Device, DeviceTake, DeviceSleep,
     DeviceMove, DeviceDone, driverVars
<1>4. \/ UNCHANGED memory
      \/ /\ driver \in {"published", "wait"}
         /\ \A b \in Buffers : b # desc[1].addr => memory'[b] = memory[b]
  <2>1. CASE InRequest
    BY <2>1 DEF InRequest, Publish, Notify, Return
  <2>2. CASE DeviceTake \/ DeviceSleep \/ DeviceDone
    BY <2>2 DEF DeviceTake, DeviceSleep, DeviceDone
  <2>3. CASE DeviceMove
    <3>1. memory \in [Buffers -> Data]
      BY <1>1 DEF IInv, TypeOK
    <3>2. driver \in {"published", "wait"} /\ work.buffer = desc[1].addr
      BY <1>1, <2>3 DEF DeviceMove, IInv, WorkIsRequest
    <3>3. UNCHANGED memory \/ memory' = [memory EXCEPT ![work.buffer] = disk[work.sector]]
      BY <2>3 DEF DeviceMove
    <3> QED BY <3>1, <3>2, <3>3
  <2> QED BY <1>1, <2>1, <2>2, <2>3 DEF DeviceRuns, Device
<1>5. OrderInv' /\ BufferInv'
  BY <1>1, <1>2, <1>3 DEF BInv, OrderInv, BufferInv
<1>6. CASE UNCHANGED memory
  <2>1. Lba' = Lba /\ WholeAt(entry)' = WholeAt(entry)
    BY <1>2, <1>6 DEF Lba, WholeAt, LinuxBefore
  <2> QED BY <1>1, <1>2, <1>5, <2>1 DEF BInv, EntryInv
<1>7. CASE ~UNCHANGED memory
  <2>1. driver # "idle" /\ driver # "probe" /\ \A b \in Buffers : b # desc[1].addr => memory'[b] = memory[b]
    BY <1>4, <1>7
  <2>2. "mbr" \in Buffers /\ "header" \in Buffers
    BY BootAssumption
  <2>3. CASE at = "partitions"
    <3>1. entry = 1
      BY <1>1, <2>1, <2>3 DEF BInv, BufferInv
    <3>2. LinuxBefore(entry)' = {}
      BY <1>2, <3>1 DEF LinuxBefore
    <3> QED BY <1>1, <1>2, <1>5, <2>3, <3>2 DEF BInv, EntryInv, WholeAt
  <2>4. CASE at \in {"is_fat32", "fat32_init"}
    <3>1. memory'["mbr"] = memory["mbr"]
      BY <1>1, <2>1, <2>2, <2>4 DEF BInv, BufferInv
    <3>2. Lba' = Lba
      BY <1>2, <3>1 DEF Lba
    <3> QED BY <1>1, <1>2, <1>5, <2>4, <3>2 DEF BInv, EntryInv
  <2>5. CASE at = "running"
    <3>1. memory'["mbr"] = memory["mbr"] /\ memory'["header"] = memory["header"]
      BY <1>1, <2>1, <2>2, <2>5 DEF BInv, BufferInv
    <3>2. WholeAt(entry)' = WholeAt(entry)
      BY <1>2, <3>1 DEF WholeAt, LinuxBefore
    <3> QED BY <1>1, <1>2, <1>5, <2>5, <3>2 DEF BInv, EntryInv
  <2>6. CASE at \in {"map", "virtio_dev_init", "mbr_init"}
    BY <1>1, <1>2, <1>5, <2>6 DEF BInv, EntryInv
  <2> QED BY <1>1, <2>3, <2>4, <2>5, <2>6 DEF BInv, OrderInv
<1> QED BY <1>6, <1>7

\* The entries of the partition table, one after the other.
LEMMA SkipBInv == BInv /\ SkipPartition => BInv'
<1>1. SUFFICES ASSUME BInv, SkipPartition PROVE BInv'
  OBVIOUS
<1>2. /\ at = "partitions" /\ driver = "idle" /\ entry \in 1 .. 4 /\ Lba = -1 /\ entry' = entry + 1
      /\ UNCHANGED <<memory, driver, regs, status, stage, at, volume>>
  BY <1>1 DEF SkipPartition, Entries, BInv, EntryInv, vars, driverVars, mapVars
<1>3. WholeAt(entry)'
  <2>1. WholeAt(entry)
    BY <1>1, <1>2 DEF BInv
  <2>2. LinuxBefore(entry)' = LinuxBefore(entry)
    <3>1. \A i \in 1 .. 4 : i < entry + 1 <=> i < entry \/ i = entry
      BY <1>2
    <3> QED BY <1>2, <3>1 DEF LinuxBefore, Lba
  <2> QED BY <1>2, <2>1, <2>2 DEF WholeAt
<1> QED BY <1>1, <1>2, <1>3 DEF BInv, OrderInv, EntryInv, BufferInv

LEMMA NotFat32BInv == BInv /\ NotFat32 => BInv'
<1>1. SUFFICES ASSUME BInv, NotFat32 PROVE BInv'
  OBVIOUS
<1>2. /\ at = "is_fat32" /\ at' = "partitions" /\ driver = "idle" /\ entry' = entry + 1
      /\ memory["header"] \notin Signed
      /\ UNCHANGED <<memory, driver, regs, status, stage>>
  BY <1>1 DEF NotFat32, vars, driverVars, mapVars
<1>3. entry \in 1 .. 4
  BY <1>1, <1>2 DEF BInv, EntryInv
<1>4. WholeAt(entry)'
  BY <1>2 DEF WholeAt
<1> QED BY <1>1, <1>2, <1>3, <1>4 DEF BInv, OrderInv, EntryInv, BufferInv

LEMMA Fat32InitBInv == BInv /\ Fat32Init => BInv'
<1>1. SUFFICES ASSUME BInv, Fat32Init PROVE BInv'
  OBVIOUS
<1>2. /\ at = "fat32_init" /\ at' = "partitions" /\ driver = "idle" /\ entry' = entry + 1
      /\ volume' = [lba |-> Lba, header |-> memory["header"]]
      /\ UNCHANGED <<memory, driver, regs, status, stage>>
  BY <1>1 DEF Fat32Init, vars, driverVars, mapVars
<1>3. entry \in 1 .. 4 /\ Lba # -1
  BY <1>1, <1>2 DEF BInv, EntryInv
<1>4. entry \in LinuxBefore(entry)' /\ \A j \in LinuxBefore(entry)' : j <= entry
  BY <1>2, <1>3 DEF LinuxBefore, Lba
<1>5. WholeAt(entry)'
  BY <1>2, <1>4 DEF WholeAt, Lba
<1> QED BY <1>1, <1>2, <1>3, <1>5 DEF BInv, OrderInv, EntryInv, BufferInv

LEMMA StartKernelBInv == BInv /\ StartKernel => BInv'
<1>1. SUFFICES ASSUME BInv, StartKernel PROVE BInv'
  OBVIOUS
<1>2. /\ at = "partitions" /\ at' = "running" /\ driver = "idle" /\ entry = 5
      /\ UNCHANGED <<memory, driver, regs, status, stage, entry, volume>>
  BY <1>1 DEF StartKernel, Entries, vars, driverVars, mapVars
<1>3. WholeAt(entry)'
  BY <1>1, <1>2 DEF BInv, WholeAt, LinuxBefore
<1> QED BY <1>1, <1>2, <1>3 DEF BInv, OrderInv, EntryInv, BufferInv

LEMMA BootStutter == BInv /\ UNCHANGED allVars => BInv'
BY DEF allVars, vars, driverVars, mapVars, bootVars, BInv, OrderInv, EntryInv, BufferInv,
   WholeAt, LinuxBefore, Lba

LEMMA BootBInv == IInv /\ KInv /\ BInv /\ [BootNext]_allVars => BInv'
<1>1. SUFFICES ASSUME IInv, KInv, BInv, [BootNext]_allVars PROVE BInv'
  OBVIOUS
<1>2. CASE Hart
  BY <1>1, <1>2, MapKernelBInv, DevInitBInv, ReadSignatureBInv, ReadMbrBInv, SkipBInv,
     ReadHeaderBInv, NotFat32BInv, Fat32InitBInv, StartKernelBInv, RequestBInv DEF Hart, Mbr
<1>3. CASE DeviceRuns
  BY <1>1, <1>3, RequestBInv
<1>4. CASE \E s \in FileSectors : \/ FileRequest("in", s, "sector")
                                  \/ FileRequest("out", s, "sector")
                                  \/ FileRequest("in", s, "table")
  <2>1. "in" \in Types /\ "out" \in Types
    BY DEF Types
  <2> QED BY <1>1, <1>4, <2>1, FileRequestBInv
<1>5. CASE \E d \in Data : FileUse(d)
  BY <1>1, <1>5, FileUseBInv
<1> QED BY <1>1, <1>2, <1>3, <1>4, <1>5, BootStutter DEF BootNext

LEMMA BootInvariant == BootSpec => [](IInv /\ KInv /\ BInv)
<1>1. IInv /\ KInv /\ BInv /\ [BootNext]_allVars => (IInv /\ KInv /\ BInv)'
  BY BootVirtio, NextInv, BootMap, BootBInv
<1> QED BY <1>1, BootStart, PTL DEF BootSpec

-----------------------------------------------------------------------------
(* The boot: its properties                                                *)

\* From the first instruction the table in use maps what the step touches, for
\* every layout in which the memory holds the image and the tables.
THEOREM NeverFaults == BootSpec => []BootNeverFaults
<1>1. KInv => BootNeverFaults
  BY DEF KInv, BootNeverFaults, M!BootNeverFaults
<1> QED BY <1>1, BootInvariant, PTL

\* The window of the device that virtio_dev_init chose is mapped where the
\* driver looks for it.
LEMMA DeviceReached == IInv /\ KInv /\ BInv => DriverReachesDevice
<1>1. SUFFICES ASSUME IInv, KInv, BInv, status # {} PROVE DriverReachesDevice
  BY DEF DriverReachesDevice
<1>2. stage = "mapped" /\ regs # -1
  BY <1>1 DEF BInv, OrderInv
<1>3. regs \in 0 .. IoPages - 1
  BY <1>1, <1>2, BootAssumption DEF IInv, TypeOK
<1> DEFINE va == IoStart + IoOffset + regs
<1>4. va \in M!IoMap /\ va - IoOffset = IoStart + regs
  BY <1>3, Machine DEF M!IoMap
<1> HIDE DEF va
<1>5. /\ va \in M!ToMap /\ va \in M!Space
      /\ Leaf(va) = [ppn |-> IoStart + regs, perm |-> {"R", "W"}]
  BY <1>4, IoPage
<1>6. M!Walk(satp, tables, va) = Leaf(va) /\ satp # -1
  <2>1. M!Walk(satp, tables, va) = Leaf(va)
    BY <1>1, <1>2, <1>5, MappedWalk
  <2>2. satp = M!Swapper
    BY <1>1, <1>2 DEF KInv, StageInv
  <2>3. satp \in Nat
    BY <2>2, Sections
  <2> QED BY <2>1, <2>3
<1>7. M!Reaches(satp, tables, va, IoStart + regs, "W")
  BY <1>5, <1>6 DEF M!Reaches, M!Translate
<1> QED BY <1>7 DEF DriverReachesDevice, va

\* The final table maps the image, the memory and the windows of the devices,
\* each page to its own place and with its own rights, and nothing else; no
\* page is taken for two tables.
THEOREM MapsKernel == BootSpec => []KernelMapped
<1>1. IInv /\ KInv /\ BInv => KernelMapped
  BY ApartKInv, MappedKInv, DeviceReached DEF KernelMapped
<1> QED BY <1>1, BootInvariant, PTL

\* The header in memory is the one the numbers of the volume come from, unless
\* the last partition of the type is no FAT32 volume: for every partition table.
THEOREM KeepsVolume == BootSpec => []VolumeWhole
<1>1. BInv => VolumeWhole
  <2>1. SUFFICES ASSUME BInv, at = "running", LinuxEntries # {}, memory["header"] \in Signed
                 PROVE  volume = [lba |-> Linux[memory["mbr"]][LastEntry], header |-> memory["header"]]
    BY DEF VolumeWhole
  <2>2. WholeAt(5)
    BY <2>1 DEF BInv, EntryInv
  <2>3. LinuxBefore(5) = LinuxEntries
    BY DEF LinuxBefore, LinuxEntries
  <2>4. PICK i \in LinuxEntries :
          /\ \A j \in LinuxEntries : j <= i
          /\ volume = [lba |-> Linux[memory["mbr"]][i], header |-> memory["header"]]
    BY <2>1, <2>2, <2>3 DEF WholeAt
  <2>5. LastEntry \in LinuxEntries /\ \A j \in LinuxEntries : j <= LastEntry
    BY <2>4 DEF LastEntry
  <2>6. LastEntry = i
    <3>1. LastEntry <= i /\ i <= LastEntry
      BY <2>4, <2>5
    <3>2. LastEntry \in 1 .. 4 /\ i \in 1 .. 4
      BY <2>4, <2>5 DEF LinuxEntries
    <3> QED BY <3>1, <3>2
  <2> QED BY <2>4, <2>6
<1> QED BY <1>1, BootInvariant, PTL

\* The boot and fat32.c are callers that the driver was built for: with them,
\* too, the queue stays in order.
THEOREM BootKeepsQueue == BootSpec => []QueueInOrder
<1>1. IInv => QueueInOrder
  BY DEF IInv, QueueInOrder
<1> QED BY <1>1, BootInvariant, PTL

\* Nor does the boot touch what the device works on.
THEOREM BootLeavesRequests == BootSpec => DeviceOwnsRequest
<1>1. IInv /\ BInv /\ [BootNext]_allVars =>
        [work # NoWork => /\ UNCHANGED <<desc, req>>
                          /\ UNCHANGED memory \/ work' = [work EXCEPT !.moved = TRUE]]_vars
  BY BootVirtio, OwnedStep DEF Owned
<1> QED BY <1>1, BootInvariant, PTL DEF BootSpec, DeviceOwnsRequest

\* For the boot and for fat32.c the driver and the device are a disk that
\* serves each request once, before the call returns.
THEOREM BootUsesDisk == BootSpec => RefinesDisk
<1>1. BootInit => D!Init
  BY DiskInit DEF BootInit
<1>2. IInv /\ BInv /\ [BootNext]_allVars => [D!Next]_(D!vars)
  BY BootVirtio, DiskStep
<1> QED BY <1>1, <1>2, BootInvariant, PTL DEF BootSpec, RefinesDisk, D!Spec
=============================================================================
