--------------------------- MODULE Resources_proofs ---------------------------
(***************************************************************************)
(* Theorems about what the kernel deals out, pages and the processor.      *)
(* Buddy, for every number of pages that is a power of two: the tree is    *)
(* exact, and the allocator is the one FrameAllocator describes.           *)
(* Scheduler, for every number of tasks and every range of priorities that *)
(* its assumption allows.                                                  *)
(***************************************************************************)
EXTENDS Buddy, Scheduler, WellFoundedInduction, TLAPS

-----------------------------------------------------------------------------
(* Numbers                                                                 *)

\* A set of numbers that is not empty has a least one.
LessThan == {ss \in Nat \X Nat : ss[1] < ss[2]}

LEMMA LeastNumber ==
  ASSUME NEW T \in SUBSET Nat, T # {}
  PROVE  \E x \in T : \A y \in T : x <= y
<1>1. IsWellFoundedOn(LessThan, Nat)
  BY NatLessThanWellFounded DEF OpToRel, LessThan
<1>2. PICK x \in T : \A y \in T : ~(<<y, x>> \in LessThan)
  BY <1>1, WFMin
<1>3. ASSUME NEW y \in T PROVE x <= y
  <2>1. x \in Nat /\ y \in Nat /\ ~(<<y, x>> \in LessThan)
    BY <1>2
  <2> QED BY <2>1 DEF LessThan
<1> QED BY <1>3

\* Induction, for a set of numbers.
LEMMA AllNumbers ==
  ASSUME NEW T, 0 \in T, \A n \in Nat : n \in T => n + 1 \in T
  PROVE  Nat \subseteq T
<1>1. SUFFICES ASSUME Nat \ T # {} PROVE FALSE
  OBVIOUS
<1>2. PICK x \in Nat \ T : \A y \in Nat \ T : x <= y
  BY <1>1, LeastNumber
<1>3. x # 0 /\ x - 1 \in Nat /\ x - 1 \in T
  BY <1>2
<1>4. x \in T
  BY <1>3
<1> QED BY <1>2, <1>4

\* F[j][f] is the value at j that a recursive definition asks of the function f; it
\* looks at values of f at places of lower rank only.
Ranked(S, V, N, rank, F) ==
  /\ V # {} /\ N \in Nat /\ rank \in [S -> 0..N] /\ F \in [S -> [[S -> V] -> V]]
  /\ \A j \in S, f, g \in [S -> V] :
       (\A k \in S : rank[k] < rank[j] => f[k] = g[k]) => F[j][f] = F[j][g]

\* Then there is such a function.
LEMMA RankedExists ==
  ASSUME NEW S, NEW V, NEW N, NEW rank, NEW F, Ranked(S, V, N, rank, F)
  PROVE  \E f \in [S -> V] : \A j \in S : f[j] = F[j][f]
<1> DEFINE Meets(f, n) == \A j \in S : rank[j] < n => f[j] = F[j][f]
           T == {n \in Nat : \E f \in [S -> V] : Meets(f, n)}
<1>0. /\ V # {} /\ N \in Nat /\ rank \in [S -> 0..N] /\ F \in [S -> [[S -> V] -> V]]
      /\ \A j \in S, f, g \in [S -> V] :
           (\A k \in S : rank[k] < rank[j] => f[k] = g[k]) => F[j][f] = F[j][g]
  BY DEF Ranked
<1>1. 0 \in T
  <2>0. PICK v \in V : TRUE
    BY <1>0
  <2>1. [j \in S |-> v] \in [S -> V] /\ Meets([j \in S |-> v], 0)
    BY <1>0
  <2> QED BY <2>1
<1>2. ASSUME NEW n \in Nat, n \in T PROVE n + 1 \in T
  <2>1. PICK f \in [S -> V] : Meets(f, n)
    BY <1>2
  <2> DEFINE g == [j \in S |-> IF rank[j] = n THEN F[j][f] ELSE f[j]]
  <2>2. g \in [S -> V]
    BY <1>0
  <2>3. ASSUME NEW j \in S, rank[j] < n + 1 PROVE g[j] = F[j][g]
    <3>1. ASSUME NEW k \in S, rank[k] < rank[j] PROVE f[k] = g[k]
      <4>1. rank[k] \in 0..N /\ rank[j] \in 0..N
        BY <1>0
      <4>2. rank[k] # n
        BY <2>3, <3>1, <4>1
      <4> QED BY <4>2
    <3> HIDE DEF g
    <3>2. F[j][f] = F[j][g]
      BY <1>0, <2>2, <3>1
    <3>3. g[j] = F[j][f]
      <4>1. CASE rank[j] = n
        BY <4>1 DEF g
      <4>2. CASE rank[j] # n
        <5>1. rank[j] \in 0..N
          BY <1>0
        <5>2. rank[j] < n
          <6>1. \A x \in 0..N : x < n + 1 /\ x # n => x < n
            BY <1>0
          <6> QED BY <2>3, <4>2, <5>1, <6>1
        <5>3. g[j] = f[j]
          BY <4>2 DEF g
        <5> QED BY <2>1, <5>2, <5>3
      <4> QED BY <4>1, <4>2
    <3> QED BY <3>2, <3>3
  <2> HIDE DEF g
  <2>4. Meets(g, n + 1)
    BY <2>3
  <2> QED BY <2>2, <2>4
<1> HIDE DEF T
<1>3. N + 1 \in T
  BY <1>0, <1>1, <1>2, AllNumbers
<1>4. PICK f \in [S -> V] : Meets(f, N + 1)
  BY <1>3 DEF T
<1>5. \A j \in S : rank[j] < N + 1
  BY <1>0
<1> QED BY <1>4, <1>5

-----------------------------------------------------------------------------
(* Powers of two                                                           *)

IsPow(h, n) ==
  /\ h \in [0..n -> Nat] /\ h[0] = 1
  /\ \A k \in 1..n : h[k] = 2 * h[k - 1]

LEMMA PowsAgree ==
  ASSUME NEW m \in Nat, NEW n \in Nat, NEW g, NEW h, IsPow(g, m), IsPow(h, n),
         NEW i \in Nat, i <= m, i <= n
  PROVE  g[i] = h[i]
<1> DEFINE T == {k \in Nat : k <= m /\ k <= n => g[k] = h[k]}
<1>1. 0 \in T
  BY DEF IsPow
<1>2. ASSUME NEW k \in Nat, k \in T PROVE k + 1 \in T
  <2>1. SUFFICES ASSUME k + 1 <= m, k + 1 <= n PROVE g[k + 1] = h[k + 1]
    OBVIOUS
  <2>2. g[k] = h[k]
    BY <1>2, <2>1
  <2>3. k + 1 \in 1..m /\ k + 1 \in 1..n /\ (k + 1) - 1 = k
    BY <2>1
  <2> QED BY <2>2, <2>3 DEF IsPow
<1> HIDE DEF T
<1>3. Nat \subseteq T
  BY <1>1, <1>2, AllNumbers
<1> QED BY <1>3 DEF T

LEMMA PowsExist == \A n \in Nat : \E h : IsPow(h, n)
<1> DEFINE T == {n \in Nat : \E h : IsPow(h, n)}
<1>1. 0 \in T
  <2>1. IsPow([k \in 0..0 |-> 1], 0)
    BY DEF IsPow
  <2> QED BY <2>1
<1>2. ASSUME NEW n \in Nat, n \in T PROVE n + 1 \in T
  <2>1. PICK g : IsPow(g, n)
    BY <1>2
  <2> DEFINE h == [k \in 0..(n + 1) |-> IF k = n + 1 THEN 2 * g[n] ELSE g[k]]
  <2>2. g \in [0..n -> Nat] /\ g[0] = 1 /\ \A k \in 1..n : g[k] = 2 * g[k - 1]
    BY <2>1 DEF IsPow
  <2>3. h \in [0..(n + 1) -> Nat] /\ h[0] = 1
    BY <2>2
  <2>4. ASSUME NEW k \in 1..(n + 1) PROVE h[k] = 2 * h[k - 1]
    <3>1. k - 1 \in 0..n /\ h[k - 1] = g[k - 1]
      BY <2>4
    <3>2. CASE k = n + 1
      BY <3>1, <3>2
    <3>3. CASE k # n + 1
      BY <2>2, <3>1, <3>3
    <3> QED BY <3>2, <3>3
  <2> HIDE DEF h
  <2>5. IsPow(h, n + 1)
    BY <2>3, <2>4 DEF IsPow
  <2> QED BY <2>5
<1> HIDE DEF T
<1>3. Nat \subseteq T
  BY <1>1, <1>2, AllNumbers
<1> QED BY <1>3 DEF T

\* The recursive definition has a value, and the value its equations.
LEMMA PowFacts ==
  /\ Pow2[0] = 1
  /\ \A k \in Nat : Pow2[k] \in Nat /\ Pow2[k] >= 1 /\ Pow2[k + 1] = 2 * Pow2[k]
<1> DEFINE H(n) == CHOOSE h : IsPow(h, n)
           g == [k \in Nat |-> H(k)[k]]
           a == CHOOSE f : f = [k \in Nat |-> IF k = 0 THEN 1 ELSE 2 * f[k - 1]]
<1>1. \A n \in Nat : IsPow(H(n), n)
  BY PowsExist
<1> HIDE DEF H
<1>2. g[0] = 1
  BY <1>1 DEF IsPow
<1>3. ASSUME NEW k \in Nat, k # 0 PROVE g[k] = 2 * g[k - 1]
  <2>1. k - 1 \in Nat /\ k - 1 <= k /\ k \in 1..k
    BY <1>3
  <2>2. H(k)[k] = 2 * H(k)[k - 1]
    BY <1>1, <2>1 DEF IsPow
  <2>3. H(k)[k - 1] = H(k - 1)[k - 1]
    BY <1>1, <2>1, PowsAgree
  <2> QED BY <2>1, <2>2, <2>3
<1>4. g = [k \in Nat |-> IF k = 0 THEN 1 ELSE 2 * g[k - 1]]
  BY <1>2, <1>3
<1>5. a = [k \in Nat |-> IF k = 0 THEN 1 ELSE 2 * a[k - 1]]
  <2> HIDE DEF g
  <2> QED BY <1>4
<1>6. Pow2 = a
  BY DEF Pow2
<1> HIDE DEF a, g
<1>7. \A k \in Nat : Pow2[k] = IF k = 0 THEN 1 ELSE 2 * Pow2[k - 1]
  BY <1>5, <1>6
<1>8. \A k \in Nat : Pow2[k + 1] = 2 * Pow2[k]
  <2> TAKE k \in Nat
  <2>1. k + 1 \in Nat /\ k + 1 # 0 /\ (k + 1) - 1 = k
    OBVIOUS
  <2> QED BY <1>7, <2>1
<1> DEFINE T == {k \in Nat : Pow2[k] \in Nat /\ Pow2[k] >= 1}
<1>9. 0 \in T
  BY <1>7
<1>10. ASSUME NEW k \in Nat, k \in T PROVE k + 1 \in T
  BY <1>8, <1>10
<1> HIDE DEF T
<1>11. Nat \subseteq T
  BY <1>9, <1>10, AllNumbers
<1> QED BY <1>7, <1>8, <1>11 DEF T

LEMMA PowSum ==
  ASSUME NEW a \in Nat, NEW b \in Nat
  PROVE  Pow2[a + b] = Pow2[a] * Pow2[b]
<1> DEFINE T == {k \in Nat : Pow2[a + k] = Pow2[a] * Pow2[k]}
<1>1. 0 \in T
  BY PowFacts
<1>2. ASSUME NEW k \in Nat, k \in T PROVE k + 1 \in T
  <2>1. Pow2[a + k] = Pow2[a] * Pow2[k] /\ Pow2[a] \in Nat /\ Pow2[k] \in Nat
    BY <1>2, PowFacts
  <2>2. a + (k + 1) = (a + k) + 1 /\ a + k \in Nat
    OBVIOUS
  <2>3. Pow2[a + (k + 1)] = 2 * Pow2[a + k] /\ Pow2[k + 1] = 2 * Pow2[k]
    BY <2>2, PowFacts
  <2>4. \A x, y \in Nat : 2 * (x * y) = x * (2 * y)
    OBVIOUS
  <2> QED BY <2>1, <2>3, <2>4
<1> HIDE DEF T
<1>3. Nat \subseteq T
  BY <1>1, <1>2, AllNumbers
<1> QED BY <1>3 DEF T

\* Of two powers the smaller divides the larger.
LEMMA PowOrder ==
  ASSUME NEW a \in Nat, NEW b \in Nat
  PROVE  /\ a <= b => b - a \in Nat /\ Pow2[b] = Pow2[b - a] * Pow2[a] /\ Pow2[a] <= Pow2[b]
         /\ a < b => 2 * Pow2[a] <= Pow2[b]
         /\ Pow2[a] < Pow2[b] => a < b
         /\ Pow2[a] = Pow2[b] => a = b
<1>1. ASSUME NEW x \in Nat, NEW y \in Nat, x <= y
      PROVE  y - x \in Nat /\ Pow2[y] = Pow2[y - x] * Pow2[x] /\ Pow2[x] <= Pow2[y]
  <2>1. y - x \in Nat /\ y = (y - x) + x
    BY <1>1
  <2>2. Pow2[y] = Pow2[y - x] * Pow2[x]
    BY <2>1, PowSum
  <2>3. Pow2[x] \in Nat /\ Pow2[y - x] \in Nat /\ Pow2[y - x] >= 1
    BY <2>1, PowFacts
  <2>4. \A p, q \in Nat : q >= 1 => p <= q * p
    <3> TAKE p, q \in Nat
    <3> HAVE q >= 1
    <3>1. q - 1 \in Nat /\ q * p = (q - 1) * p + p /\ (q - 1) * p \in Nat
      OBVIOUS
    <3> QED BY <3>1
  <2> QED BY <2>1, <2>2, <2>3, <2>4
<1>2. ASSUME NEW x \in Nat, NEW y \in Nat, x < y PROVE 2 * Pow2[x] <= Pow2[y]
  <2>1. x + 1 \in Nat /\ x + 1 <= y
    BY <1>2
  <2> QED BY <1>1, <2>1, PowFacts
<1>3. Pow2[a] \in Nat /\ Pow2[b] \in Nat /\ Pow2[a] >= 1 /\ Pow2[b] >= 1
  BY PowFacts
<1>4. Pow2[a] < Pow2[b] => a < b
  BY <1>1, <1>3
<1>5. Pow2[a] = Pow2[b] => a = b
  <2>1. CASE a < b
    BY <1>2, <1>3, <2>1
  <2>2. CASE b < a
    BY <1>2, <1>3, <2>2
  <2> QED BY <2>1, <2>2
<1> QED BY <1>1, <1>2, <1>4, <1>5

LEMMA PowLarge == \A k \in Nat : Pow2[k] > k
<1> DEFINE T == {k \in Nat : Pow2[k] > k}
<1>1. 0 \in T
  BY PowFacts
<1>2. ASSUME NEW k \in Nat, k \in T PROVE k + 1 \in T
  BY <1>2, PowFacts
<1> HIDE DEF T
<1>3. Nat \subseteq T
  BY <1>1, <1>2, AllNumbers
<1> QED BY <1>3 DEF T

\* A number lies between a power and the next.
LEMMA PowBelow ==
  ASSUME NEW n \in Nat, n >= 1
  PROVE  \E l \in Nat : Pow2[l] <= n /\ n < 2 * Pow2[l]
<1> DEFINE T == {k \in Nat : n < Pow2[k]}
<1>1. T \in SUBSET Nat /\ n \in T
  BY PowLarge
<1>2. PICK k \in T : \A y \in T : k <= y
  BY <1>1, LeastNumber
<1>3. k \in Nat /\ n < Pow2[k] /\ k # 0
  BY <1>2, PowFacts
<1>4. k - 1 \in Nat /\ k - 1 \notin T /\ (k - 1) + 1 = k
  BY <1>2, <1>3
<1>5. Pow2[k - 1] <= n /\ Pow2[k] = 2 * Pow2[k - 1]
  BY <1>4, PowFacts
<1> QED BY <1>3, <1>4, <1>5

-----------------------------------------------------------------------------
(* The nodes of the tree as aligned blocks                                 *)

LEMMA Times ==
  ASSUME NEW x \in Nat, NEW y \in Nat, NEW u \in Nat
  PROVE  /\ x * u \in Nat /\ (x + y) * u = x * u + y * u
         /\ x <= y => x * u <= y * u
         /\ x < y => x * u + u <= y * u
<1>1. x * u \in Nat /\ (x + y) * u = x * u + y * u
  OBVIOUS
<1>2. ASSUME x <= y PROVE x * u <= y * u
  <2>1. y - x \in Nat /\ (y - x) * u \in Nat /\ y * u = x * u + (y - x) * u
    BY <1>2
  <2> QED BY <2>1
<1>3. ASSUME x < y PROVE x * u + u <= y * u
  <2>1. y - x - 1 \in Nat /\ (y - x - 1) * u \in Nat /\ y * u = x * u + u + (y - x - 1) * u
    BY <1>3
  <2> QED BY <2>1
<1> QED BY <1>1, <1>2, <1>3

Depth == CHOOSE k \in Nat : SIZE = Pow2[k]

LEMMA PageCount ==
  /\ Depth \in Nat /\ SIZE = Pow2[Depth] /\ SIZE \in Nat /\ SIZE >= 1 /\ Depth < SIZE
<1>1. \E k \in Nat : SIZE = Pow2[k]
  BY BuddyAssumption
<1>2. Depth \in Nat /\ SIZE = Pow2[Depth]
  BY <1>1 DEF Depth
<1> QED BY <1>2, PowFacts, PowLarge

\* NodeSize is the power of two that its definition asks for.
LEMMA SizeIs ==
  ASSUME NEW i \in Nodes, NEW a \in 0..Depth,
         SIZE <= (i + 1) * Pow2[a], (i + 1) * Pow2[a] < 2 * SIZE
  PROVE  NodeSize[i] = Pow2[a]
<1> DEFINE Fits(len) == SIZE <= (i + 1) * len /\ (i + 1) * len < 2 * SIZE
           Lens == {Pow2[k] : k \in 0..SIZE}
<1>1. Pow2[a] \in Lens /\ Fits(Pow2[a]) /\ i + 1 \in Nat
  BY PageCount DEF Nodes
<1>2. ASSUME NEW x \in Nat, NEW y \in Nat, Fits(Pow2[x]), Fits(Pow2[y]) PROVE ~(x < y)
  <2>1. SUFFICES ASSUME x < y PROVE FALSE
    OBVIOUS
  <2>2. Pow2[x] \in Nat /\ Pow2[y] \in Nat /\ 2 * Pow2[x] <= Pow2[y]
    BY <2>1, PowOrder, PowFacts
  <2>3. \A p, q, r \in Nat : 2 * p <= q => 2 * (r * p) <= r * q
    <3> TAKE p, q, r \in Nat
    <3> HAVE 2 * p <= q
    <3>1. q - 2 * p \in Nat /\ r * (q - 2 * p) \in Nat /\ r * q = 2 * (r * p) + r * (q - 2 * p)
      OBVIOUS
    <3> QED BY <3>1
  <2>4. 2 * ((i + 1) * Pow2[x]) <= (i + 1) * Pow2[y]
    BY <1>1, <2>2, <2>3
  <2>5. (i + 1) * Pow2[x] \in Nat /\ (i + 1) * Pow2[y] \in Nat
    BY <1>1, <2>2
  <2> QED BY <1>2, <2>4, <2>5, PageCount
<1>3. NodeSize[i] = CHOOSE len \in Lens : Fits(len)
  BY DEF NodeSize
<1>4. NodeSize[i] \in Lens /\ Fits(NodeSize[i])
  <2> HIDE DEF Lens, Fits
  <2> QED BY <1>1, <1>3
<1>5. PICK b \in 0..SIZE : NodeSize[i] = Pow2[b]
  BY <1>4
<1>6. ~(a < b) /\ ~(b < a)
  <2>1. a \in Nat /\ b \in Nat /\ Fits(Pow2[a]) /\ Fits(Pow2[b])
    BY <1>1, <1>4, <1>5, PageCount
  <2> HIDE DEF Fits
  <2> QED BY <1>2, <2>1
<1>7. a = b
  BY <1>6, PageCount
<1> QED BY <1>5, <1>7

\* The m-th block of 2^a pages has a node.
At(a, m) == Pow2[Depth - a] + m - 1

LEMMA Split ==
  ASSUME NEW a \in 0..Depth
  PROVE  /\ Depth - a \in Nat /\ Pow2[a] \in Nat /\ Pow2[a] >= 1
         /\ Pow2[Depth - a] \in Nat /\ Pow2[Depth - a] >= 1
         /\ SIZE = Pow2[Depth - a] * Pow2[a] /\ Pow2[a] <= SIZE
<1>1. a \in Nat /\ a <= Depth /\ Depth \in Nat /\ Depth - a \in Nat
  BY PageCount
<1>2. SIZE = Pow2[Depth - a] * Pow2[a] /\ Pow2[a] <= SIZE
  BY <1>1, PageCount, PowOrder
<1> QED BY <1>1, <1>2, PowFacts

LEMMA BlockHasNode ==
  ASSUME NEW a \in 0..Depth, NEW m \in Nat, m < Pow2[Depth - a]
  PROVE  /\ At(a, m) \in Nodes /\ NodeSize[At(a, m)] = Pow2[a]
         /\ FirstPage(At(a, m)) = m * Pow2[a]
<1> DEFINE q == Pow2[Depth - a]
           u == Pow2[a]
           i == At(a, m)
<1>1. q \in Nat /\ q >= 1 /\ u \in Nat /\ u >= 1 /\ SIZE = q * u
  BY Split
<1>2. i + 1 = q + m /\ i \in Nat /\ m < q
  BY <1>1 DEF At
<1> HIDE DEF q, u, i
<1>3. (i + 1) * u = SIZE + m * u /\ m * u \in Nat
  BY <1>1, <1>2, Times
<1>4. m * u + u <= SIZE
  BY <1>1, <1>2, Times
<1>5. q <= SIZE
  <2>1. 1 * q <= u * q /\ u * q = q * u
    BY <1>1, Times
  <2> QED BY <1>1, <2>1
<1>6. i \in Nodes
  BY <1>1, <1>2, <1>5, PageCount DEF Nodes
<1>7. SIZE <= (i + 1) * u /\ (i + 1) * u < 2 * SIZE
  BY <1>1, <1>3, <1>4, PageCount
<1>8. NodeSize[i] = u
  BY <1>6, <1>7, SizeIs DEF u
<1> QED BY <1>3, <1>6, <1>8, PageCount DEF FirstPage, u, i

\* And every node is such a block.
LEMMA NodeIsBlock ==
  ASSUME NEW i \in Nodes
  PROVE  \E a \in 0..Depth, m \in Nat :
           /\ m < Pow2[Depth - a] /\ i = At(a, m) /\ NodeSize[i] = Pow2[a]
           /\ FirstPage(i) = m * Pow2[a]
<1>1. i + 1 \in Nat /\ i + 1 >= 1 /\ i + 1 < 2 * SIZE
  BY PageCount DEF Nodes
<1>2. PICK l \in Nat : Pow2[l] <= i + 1 /\ i + 1 < 2 * Pow2[l]
  BY <1>1, PowBelow
<1>3. l <= Depth
  <2>1. SUFFICES ASSUME Depth < l PROVE FALSE
    BY PageCount
  <2>2. 2 * SIZE <= Pow2[l]
    BY <2>1, PageCount, PowOrder
  <2> QED BY <1>1, <1>2, <2>2, PageCount, PowFacts
<1> DEFINE a == Depth - l
           m == i + 1 - Pow2[l]
<1>4. a \in 0..Depth /\ Depth - a = l
  BY <1>3, PageCount
<1>5. Pow2[l] \in Nat
  BY PowFacts
<1>6. m \in Nat /\ m < Pow2[l] /\ i = Pow2[l] + m - 1
  BY <1>1, <1>2, <1>5 DEF Nodes
<1> HIDE DEF a, m
<1>7. i = At(a, m)
  BY <1>4, <1>6 DEF At
<1> QED BY <1>4, <1>6, <1>7, BlockHasNode

LEMMA NodeFacts ==
  ASSUME NEW i \in Nodes
  PROVE  /\ NodeSize[i] \in 1..SIZE /\ FirstPage(i) \in Nat
         /\ FirstPage(i) + NodeSize[i] <= SIZE
         /\ Span[i] = FirstPage(i)..(FirstPage(i) + NodeSize[i] - 1)
         /\ Span[i] \subseteq Pages /\ FirstPage(i) \in Span[i]
<1>1. PICK a \in 0..Depth, m \in Nat :
        m < Pow2[Depth - a] /\ NodeSize[i] = Pow2[a] /\ FirstPage(i) = m * Pow2[a]
  BY NodeIsBlock
<1> DEFINE q == Pow2[Depth - a]
           u == Pow2[a]
<1>2. q \in Nat /\ u \in Nat /\ u >= 1 /\ u <= SIZE /\ SIZE = q * u
  BY Split
<1>3. m < q /\ NodeSize[i] = u /\ FirstPage(i) = m * u
  BY <1>1
<1> HIDE DEF q, u
<1>4. m * u \in Nat /\ m * u + u <= SIZE
  BY <1>2, <1>3, Times
<1>5. Span[i] = FirstPage(i)..(FirstPage(i) + NodeSize[i] - 1)
  BY DEF Span, Block
<1> QED BY <1>2, <1>3, <1>4, <1>5, PageCount DEF Pages

LEMMA SameNode ==
  ASSUME NEW i \in Nodes, NEW j \in Nodes, NodeSize[i] = NodeSize[j],
         FirstPage(i) = FirstPage(j)
  PROVE  i = j
<1> DEFINE u == NodeSize[i]
<1>1. u \in Nat /\ u >= 1 /\ i + 1 \in Nat /\ j + 1 \in Nat
  BY NodeFacts, PageCount DEF Nodes
<1>2. (i + 1) * u - SIZE = (j + 1) * u - SIZE
  BY DEF FirstPage
<1> HIDE DEF u
<1>3. (i + 1) * u \in Nat /\ (j + 1) * u \in Nat
  BY <1>1, Times
<1>4. (i + 1) * u = (j + 1) * u
  BY <1>2, <1>3, PageCount
<1>5. ~(i + 1 < j + 1) /\ ~(j + 1 < i + 1)
  BY <1>1, <1>3, <1>4, Times
<1> QED BY <1>1, <1>5 DEF Nodes

\* Two blocks of the tree are one inside the other, or apart.
LEMMA Nested ==
  ASSUME NEW i \in Nodes, NEW j \in Nodes, NodeSize[i] <= NodeSize[j]
  PROVE  Span[i] \subseteq Span[j] \/ Span[i] \cap Span[j] = {}
<1>1. PICK a \in 0..Depth, m \in Nat :
        NodeSize[i] = Pow2[a] /\ FirstPage(i) = m * Pow2[a]
  BY NodeIsBlock
<1>2. PICK b \in 0..Depth, n \in Nat :
        NodeSize[j] = Pow2[b] /\ FirstPage(j) = n * Pow2[b]
  BY NodeIsBlock
<1> DEFINE u == Pow2[a]
           c == Pow2[b - a]
<1>3. a \in Nat /\ b \in Nat /\ a <= b
  <2>1. a \in Nat /\ b \in Nat /\ Pow2[a] <= Pow2[b] /\ Pow2[a] \in Nat /\ Pow2[b] \in Nat
    BY <1>1, <1>2, PageCount, PowFacts
  <2>2. ~(Pow2[b] < Pow2[a])
    BY <2>1
  <2>3. b < a => 2 * Pow2[b] <= Pow2[a] /\ Pow2[b] >= 1
    BY <2>1, PowOrder, PowFacts
  <2> QED BY <2>1, <2>2, <2>3
<1>4. u \in Nat /\ u >= 1 /\ c \in Nat /\ Pow2[b] = c * u
  BY <1>3, PowOrder, PowFacts
<1>5. NodeSize[i] = u /\ FirstPage(i) = m * u /\ NodeSize[j] = c * u /\ FirstPage(j) = n * (c * u)
  BY <1>1, <1>2, <1>4
<1> HIDE DEF u, c
<1> DEFINE k == n * c
<1>6. k \in Nat /\ n * (c * u) = k * u /\ k * u \in Nat /\ c * u \in Nat /\ m * u \in Nat
      /\ k + c \in Nat /\ (k + c) * u = k * u + c * u
  <2>1. \A x, y, z \in Nat : x * (y * z) = (x * y) * z /\ x * y \in Nat
    OBVIOUS
  <2>2. k \in Nat /\ n * (c * u) = k * u
    BY <1>4, <2>1
  <2> HIDE DEF k
  <2> QED BY <1>4, <2>1, <2>2, Times
<1> HIDE DEF k
<1> DEFINE f == m * u
           g == k * u
           w == c * u
<1>7. /\ f \in Nat /\ g \in Nat /\ w \in Nat
      /\ Span[i] = f .. (f + u - 1) /\ Span[j] = g .. (g + w - 1)
  BY <1>5, <1>6, NodeFacts
<1>8. CASE m < k
  <2>1. f + u <= g
    BY <1>4, <1>6, <1>8, Times
  <2> HIDE DEF f, g, w
  <2> QED BY <1>4, <1>7, <2>1
<1>9. CASE k + c <= m
  <2>1. g + w <= f
    BY <1>4, <1>6, <1>9, Times
  <2> HIDE DEF f, g, w
  <2> QED BY <1>4, <1>7, <2>1
<1>10. CASE k <= m /\ m < k + c
  <2>1. g <= f /\ f + u <= g + w
    BY <1>4, <1>6, <1>10, Times
  <2> HIDE DEF f, g, w
  <2> QED BY <1>4, <1>7, <2>1
<1> QED BY <1>4, <1>6, <1>8, <1>9, <1>10

\* A block inside another is the same or at most half as long.
LEMMA InsideSize ==
  ASSUME NEW i \in Nodes, NEW j \in Nodes, Span[i] \subseteq Span[j]
  PROVE  /\ NodeSize[i] <= NodeSize[j]
         /\ i # j => 2 * NodeSize[i] <= NodeSize[j] /\ NodeSize[i] < NodeSize[j]
<1> DEFINE f == FirstPage(i)
           g == FirstPage(j)
           u == NodeSize[i]
           w == NodeSize[j]
<1>1. /\ u \in Nat /\ u >= 1 /\ w \in Nat /\ w >= 1 /\ f \in Nat /\ g \in Nat
      /\ Span[i] = f..(f + u - 1) /\ Span[j] = g..(g + w - 1)
  <2>1. u \in 1..SIZE /\ f \in Nat /\ Span[i] = f..(f + u - 1)
    BY NodeFacts
  <2>2. w \in 1..SIZE /\ g \in Nat /\ Span[j] = g..(g + w - 1)
    BY NodeFacts
  <2> QED BY <2>1, <2>2
<1>2. u = w /\ f = g => i = j
  BY SameNode
<1>3. \E a \in 0..Depth : u = Pow2[a]
  BY NodeIsBlock
<1>4. \E b \in 0..Depth : w = Pow2[b]
  BY NodeIsBlock
<1> HIDE DEF f, g, u, w
<1>5. f \in Span[j] /\ f + u - 1 \in Span[j]
  BY <1>1
<1>6. g <= f /\ f + u <= g + w
  BY <1>1, <1>5
<1>7. u <= w
  BY <1>1, <1>6
<1>8. ASSUME i # j PROVE 2 * u <= w /\ u < w
  <2>1. u # w
    BY <1>1, <1>2, <1>6, <1>8
  <2>2. u < w
    BY <1>1, <1>7, <2>1
  <2>3. PICK a \in 0..Depth : u = Pow2[a]
    BY <1>3
  <2>4. PICK b \in 0..Depth : w = Pow2[b]
    BY <1>4
  <2>5. a \in Nat /\ b \in Nat
    BY PageCount
  <2>6. 2 * u <= w
    BY <2>2, <2>3, <2>4, <2>5, PowOrder
  <2> QED BY <2>2, <2>6
<1> QED BY <1>7, <1>8 DEF u, w

LEMMA RootNode ==
  0 \in Nodes /\ NodeSize[0] = SIZE /\ FirstPage(0) = 0 /\ Span[0] = Pages
<1>1. Pow2[Depth - Depth] = 1 /\ Depth \in 0..Depth
  BY PowFacts, PageCount
<1>2. At(Depth, 0) = 0
  BY <1>1 DEF At
<1>3. 0 \in Nodes /\ NodeSize[0] = Pow2[Depth] /\ FirstPage(0) = 0 * Pow2[Depth]
  BY <1>1, <1>2, BlockHasNode
<1>4. NodeSize[0] = SIZE /\ FirstPage(0) = 0
  BY <1>3, PageCount
<1> QED BY <1>3, <1>4, NodeFacts, PageCount DEF Pages

LEMMA LeafNode ==
  ASSUME NEW p \in Pages
  PROVE  /\ LeafOf(p) \in Nodes /\ NodeSize[LeafOf(p)] = 1
         /\ FirstPage(LeafOf(p)) = p /\ Span[LeafOf(p)] = {p}
<1>1. p \in Nat /\ p < SIZE /\ 0 \in 0..Depth /\ Depth - 0 = Depth
  BY PageCount DEF Pages
<1>2. At(0, p) = LeafOf(p)
  BY <1>1, PageCount DEF At, LeafOf
<1>3. LeafOf(p) \in Nodes /\ NodeSize[LeafOf(p)] = 1 /\ FirstPage(LeafOf(p)) = p * 1
  BY <1>1, <1>2, BlockHasNode, PageCount, PowFacts
<1>4. FirstPage(LeafOf(p)) = p
  BY <1>1, <1>3
<1> QED BY <1>1, <1>3, <1>4, NodeFacts

\* The halves of a block.
LEMMA Children ==
  ASSUME NEW i \in Nodes, NodeSize[i] # 1
  PROVE  /\ Left(i) \in Nodes /\ Right(i) \in Nodes
         /\ 2 * NodeSize[Left(i)] = NodeSize[i] /\ NodeSize[Right(i)] = NodeSize[Left(i)]
         /\ FirstPage(Left(i)) = FirstPage(i)
         /\ FirstPage(Right(i)) = FirstPage(i) + NodeSize[Left(i)]
         /\ Span[i] = Span[Left(i)] \cup Span[Right(i)]
         /\ Span[Left(i)] \cap Span[Right(i)] = {}
<1>1. PICK a \in 0..Depth, m \in Nat :
        /\ m < Pow2[Depth - a] /\ i = At(a, m) /\ NodeSize[i] = Pow2[a]
        /\ FirstPage(i) = m * Pow2[a]
  BY NodeIsBlock
<1> DEFINE b == a - 1
           q == Pow2[Depth - a]
           u == Pow2[b]
<1>2. a # 0
  BY <1>1, PowFacts
<1>3. b \in 0..Depth /\ b \in Nat /\ a = b + 1 /\ Depth - b = (Depth - a) + 1 /\ Depth - a \in Nat
  BY <1>2, PageCount
<1>4. Pow2[a] = 2 * u /\ Pow2[Depth - b] = 2 * q /\ u \in Nat /\ u >= 1 /\ q \in Nat /\ q >= 1
  BY <1>3, PowFacts
<1>5. i = q + m - 1 /\ m < q /\ NodeSize[i] = 2 * u /\ FirstPage(i) = m * (2 * u)
  BY <1>1, <1>4 DEF At
<1>6. At(b, 2 * m) = 2 * q + 2 * m - 1 /\ At(b, 2 * m + 1) = 2 * q + 2 * m
  BY <1>4 DEF At
<1>7. 2 * m \in Nat /\ 2 * m < Pow2[Depth - b] /\ 2 * m + 1 \in Nat /\ 2 * m + 1 < Pow2[Depth - b]
  BY <1>4, <1>5
<1>8. /\ At(b, 2 * m) \in Nodes /\ NodeSize[At(b, 2 * m)] = u
      /\ FirstPage(At(b, 2 * m)) = (2 * m) * u
  BY <1>3, <1>7, BlockHasNode
<1>9. /\ At(b, 2 * m + 1) \in Nodes /\ NodeSize[At(b, 2 * m + 1)] = u
      /\ FirstPage(At(b, 2 * m + 1)) = (2 * m + 1) * u
  BY <1>3, <1>7, BlockHasNode
<1> HIDE DEF b, q, u
<1>10. Left(i) = At(b, 2 * m) /\ Right(i) = At(b, 2 * m + 1)
  BY <1>4, <1>5, <1>6 DEF Left, Right
<1>11. (2 * m) * u = m * (2 * u) /\ (2 * m + 1) * u = (2 * m) * u + u /\ (2 * m) * u \in Nat
  BY <1>4
<1> DEFINE f == FirstPage(i)
<1>12. f \in Nat /\ FirstPage(Left(i)) = f /\ FirstPage(Right(i)) = f + u
  BY <1>5, <1>8, <1>9, <1>10, <1>11
<1>13. Left(i) \in Nodes /\ Right(i) \in Nodes /\ NodeSize[Left(i)] = u /\ NodeSize[Right(i)] = u
  BY <1>8, <1>9, <1>10
<1>14. /\ Span[Left(i)] = f..(f + u - 1) /\ Span[Right(i)] = (f + u)..((f + u) + u - 1)
       /\ Span[i] = f..(f + 2 * u - 1)
  BY <1>5, <1>12, <1>13, NodeFacts
<1> HIDE DEF f
<1>15. /\ f..(f + 2 * u - 1) = (f..(f + u - 1)) \cup ((f + u)..((f + u) + u - 1))
       /\ (f..(f + u - 1)) \cap ((f + u)..((f + u) + u - 1)) = {}
  BY <1>4, <1>12
<1> QED BY <1>5, <1>12, <1>13, <1>14, <1>15 DEF f

LEMMA ParentNode ==
  ASSUME NEW i \in Nodes, i # 0
  PROVE  /\ Parent(i) \in Nodes /\ NodeSize[Parent(i)] # 1 /\ Parent(i) < i
         /\ i = Left(Parent(i)) \/ i = Right(Parent(i))
<1> DEFINE p == Parent(i)
<1>1. i \in Nat /\ i >= 1 /\ i <= 2 * SIZE - 2
  BY PageCount DEF Nodes
<1>2. p \in Nat /\ (i = 2 * p + 1 \/ i = 2 * p + 2)
  BY <1>1 DEF Parent
<1>3. p \in Nodes /\ p < i
  BY <1>1, <1>2, PageCount DEF Nodes
<1>4. i = Left(p) \/ i = Right(p)
  BY <1>2 DEF Left, Right
<1> HIDE DEF p
<1>5. NodeSize[p] # 1
  <2>1. SUFFICES ASSUME NodeSize[p] = 1 PROVE FALSE
    OBVIOUS
  <2>2. FirstPage(p) = (p + 1) * 1 - SIZE /\ FirstPage(p) >= 0
    BY <1>3, <2>1, NodeFacts DEF FirstPage
  <2> QED BY <1>1, <1>2, <2>2, PageCount
<1> QED BY <1>3, <1>4, <1>5 DEF p

\* What is strictly inside a block is inside one of its halves.
LEMMA InHalf ==
  ASSUME NEW i \in Nodes, NEW j \in Nodes, Span[i] \subseteq Span[j], i # j
  PROVE  /\ NodeSize[j] # 1
         /\ Span[i] \subseteq Span[Left(j)] \/ Span[i] \subseteq Span[Right(j)]
<1>1. 2 * NodeSize[i] <= NodeSize[j] /\ NodeSize[i] \in 1..SIZE /\ FirstPage(i) \in Span[i]
  BY InsideSize, NodeFacts
<1>2. NodeSize[j] # 1
  BY <1>1
<1>3. /\ Left(j) \in Nodes /\ Right(j) \in Nodes
      /\ 2 * NodeSize[Left(j)] = NodeSize[j] /\ NodeSize[Right(j)] = NodeSize[Left(j)]
      /\ Span[j] = Span[Left(j)] \cup Span[Right(j)]
  BY <1>2, Children
<1>4. NodeSize[Left(j)] \in 1..SIZE
  BY <1>3, NodeFacts
<1>5. NodeSize[i] <= NodeSize[Left(j)] /\ NodeSize[i] <= NodeSize[Right(j)]
  BY <1>1, <1>3, <1>4
<1>6. FirstPage(i) \in Span[Left(j)] \/ FirstPage(i) \in Span[Right(j)]
  BY <1>1, <1>3
<1>7. CASE FirstPage(i) \in Span[Left(j)]
  BY <1>1, <1>2, <1>3, <1>5, <1>7, Nested
<1>8. CASE FirstPage(i) \in Span[Right(j)]
  BY <1>1, <1>2, <1>3, <1>5, <1>8, Nested
<1> QED BY <1>6, <1>7, <1>8

LEMMA AboveIs ==
  ASSUME NEW i \in Nodes
  PROVE  Above[i] = {j \in Nodes : j # i /\ Span[i] \subseteq Span[j]}
<1>1. ASSUME NEW j \in Nodes, Span[i] \subseteq Span[j]
      PROVE  NodeSize[j] > NodeSize[i] <=> j # i
  <2>1. NodeSize[i] \in 1..SIZE /\ NodeSize[j] \in 1..SIZE
    BY NodeFacts
  <2>2. j # i => NodeSize[i] < NodeSize[j]
    BY <1>1, InsideSize
  <2> QED BY <2>1, <2>2
<1>2. Above[i] = {j \in Nodes : NodeSize[j] > NodeSize[i] /\ Span[i] \subseteq Span[j]}
  BY DEF Above
<1> QED BY <1>1, <1>2

\* Of some nodes one has the shortest block, and one the longest.
LEMMA ShortestNode ==
  ASSUME NEW S \in SUBSET Nodes, S # {}
  PROVE  \E j \in S : \A k \in S : NodeSize[j] <= NodeSize[k]
<1> DEFINE T == {NodeSize[j] : j \in S}
<1>1. \A j \in S : NodeSize[j] \in Nat
  BY NodeFacts
<1>2. T \in SUBSET Nat /\ T # {}
  BY <1>1
<1>3. PICK x \in T : \A y \in T : x <= y
  BY <1>2, LeastNumber
<1> QED BY <1>3

LEMMA LongestNode ==
  ASSUME NEW S \in SUBSET Nodes, S # {}
  PROVE  \E j \in S : \A k \in S : NodeSize[k] <= NodeSize[j]
<1> DEFINE T == {SIZE - NodeSize[j] : j \in S}
<1>1. \A j \in S : NodeSize[j] \in Nat /\ SIZE - NodeSize[j] \in Nat
  BY NodeFacts, PageCount
<1>2. T \in SUBSET Nat /\ T # {}
  BY <1>1
<1>3. PICK x \in T : \A y \in T : x <= y
  BY <1>2, LeastNumber
<1>4. PICK j \in S : x = SIZE - NodeSize[j]
  BY <1>3
<1>5. ASSUME NEW k \in S PROVE NodeSize[k] <= NodeSize[j]
  <2>1. x <= SIZE - NodeSize[k]
    BY <1>3
  <2> QED BY <1>1, <1>4, <2>1, PageCount
<1> QED BY <1>5

-----------------------------------------------------------------------------
(* What the tree holds                                                     *)

\* B are the nodes that are allocated.
Covered(B) == UNION {Span[b] : b \in B}
Outside(i, B) == \A b \in B : ~(Span[i] \subseteq Span[b])

Merged(i, l, r) == IF l + r = NodeSize[i] THEN NodeSize[i] ELSE Larger(l, r)
Sound(t, i) ==
  t[i] = IF NodeSize[i] = 1 THEN 1 ELSE Merged(i, t[Left(i)], t[Right(i)])

\* Allocated blocks are apart and marked; below them the nodes are as they were
\* when the block was whole, and everywhere else they follow from their halves.
TreeInv(t, B) ==
  /\ t \in [Nodes -> Nat] /\ B \subseteq Nodes
  /\ \A b, c \in B : b # c => Span[b] \cap Span[c] = {}
  /\ \A b \in B : t[b] = 0
  /\ \A b \in B, i \in Nodes : Span[i] \subseteq Span[b] /\ i # b => t[i] = NodeSize[i]
  /\ \A i \in Nodes : Outside(i, B) => Sound(t, i)

\* n is the length of the longest block of the tree in node i that is free.
Longest(i, used, n) ==
  /\ \A j \in Nodes : Span[j] \subseteq Span[i] \ used => NodeSize[j] <= n
  /\ n = 0 \/ \E j \in Nodes : Span[j] \subseteq Span[i] \ used /\ NodeSize[j] = n

LEMMA ChildOutside ==
  ASSUME NEW B \in SUBSET Nodes, NEW i \in Nodes, Outside(i, B), NodeSize[i] # 1,
         NEW c \in {Left(i), Right(i)}
  PROVE  Outside(c, B) \/ c \in B
<1>1. SUFFICES ASSUME NEW b \in B, Span[c] \subseteq Span[b] PROVE c = b
  BY DEF Outside
<1>2. /\ c \in Nodes /\ b \in Nodes /\ 2 * NodeSize[c] = NodeSize[i] /\ Span[c] \subseteq Span[i]
  BY Children
<1>3. NodeSize[c] \in 1..SIZE /\ FirstPage(c) \in Span[c]
  BY <1>2, NodeFacts
<1>4. NodeSize[b] \in 1..SIZE /\ NodeSize[i] \in 1..SIZE
  BY <1>2, NodeFacts
<1>5. ~(Span[i] \subseteq Span[b]) /\ FirstPage(c) \in Span[i] \cap Span[b]
  BY <1>1, <1>2, <1>3 DEF Outside
<1>6. NodeSize[b] < NodeSize[i]
  BY <1>2, <1>4, <1>5, Nested
<1>7. Span[b] \subseteq Span[i] /\ b # i
  BY <1>2, <1>4, <1>5, <1>6, Nested
<1>8. 2 * NodeSize[b] <= NodeSize[i]
  BY <1>2, <1>7, InsideSize
<1>9. c # b => 2 * NodeSize[c] <= NodeSize[b]
  BY <1>1, <1>2, InsideSize
<1> QED BY <1>2, <1>3, <1>4, <1>8, <1>9

LEMMA LongestBound ==
  ASSUME NEW i \in Nodes, NEW used, NEW n \in Nat, Longest(i, used, n)
  PROVE  /\ n <= NodeSize[i]
         /\ n = NodeSize[i] <=> Span[i] \cap used = {}
<1>1. NodeSize[i] \in 1..SIZE
  BY NodeFacts
<1>2. n <= NodeSize[i]
  <2>1. CASE n = 0
    BY <1>1, <2>1
  <2>2. CASE n # 0
    <3>1. PICK j \in Nodes : Span[j] \subseteq Span[i] \ used /\ NodeSize[j] = n
      BY <2>2 DEF Longest
    <3> QED BY <3>1, InsideSize
  <2> QED BY <2>1, <2>2
<1>3. ASSUME n = NodeSize[i] PROVE Span[i] \cap used = {}
  <2>1. PICK j \in Nodes : Span[j] \subseteq Span[i] \ used /\ NodeSize[j] = n
    BY <1>1, <1>3 DEF Longest
  <2>2. j = i
    BY <1>1, <1>3, <2>1, InsideSize
  <2> QED BY <2>1, <2>2
<1>4. ASSUME Span[i] \cap used = {} PROVE n = NodeSize[i]
  <2>1. Span[i] \subseteq Span[i] \ used
    BY <1>4
  <2>2. NodeSize[i] <= n
    BY <2>1 DEF Longest
  <2> QED BY <1>1, <1>2, <2>2
<1> QED BY <1>2, <1>3, <1>4

\* From the two halves of a block to the whole.
LEMMA LongestMerged ==
  ASSUME NEW i \in Nodes, NodeSize[i] # 1, NEW used, NEW l \in Nat, NEW r \in Nat,
         Longest(Left(i), used, l), Longest(Right(i), used, r)
  PROVE  Longest(i, used, Merged(i, l, r))
<1> DEFINE h == NodeSize[Left(i)]
<1>1. /\ Left(i) \in Nodes /\ Right(i) \in Nodes /\ NodeSize[i] = 2 * h /\ NodeSize[Right(i)] = h
      /\ Span[i] = Span[Left(i)] \cup Span[Right(i)]
  BY Children
<1>2. h \in 1..SIZE
  BY <1>1, NodeFacts
<1>3. /\ l <= h /\ (l = h <=> Span[Left(i)] \cap used = {})
      /\ r <= h /\ (r = h <=> Span[Right(i)] \cap used = {})
  BY <1>1, LongestBound
<1> HIDE DEF h
<1>4. CASE l + r = NodeSize[i]
  <2>1. l = h /\ r = h
    BY <1>1, <1>2, <1>3, <1>4
  <2>2. Span[i] \cap used = {}
    BY <1>1, <1>3, <2>1
  <2>3. Span[i] \subseteq Span[i] \ used
    BY <2>2
  <2>4. \A j \in Nodes : Span[j] \subseteq Span[i] \ used => NodeSize[j] <= NodeSize[i]
    BY InsideSize
  <2>5. Merged(i, l, r) = NodeSize[i]
    BY <1>4 DEF Merged
  <2> QED BY <2>3, <2>4, <2>5 DEF Longest
<1>5. CASE l + r # NodeSize[i]
  <2> DEFINE n == Larger(l, r)
  <2>1. n \in {l, r} /\ l <= n /\ r <= n
    BY DEF Larger
  <2>2. Merged(i, l, r) = n
    BY <1>5 DEF Merged
  <2> HIDE DEF n
  <2>3. ASSUME NEW j \in Nodes, Span[j] \subseteq Span[i] \ used PROVE NodeSize[j] <= n
    <3>0. NodeSize[j] \in 1..SIZE /\ n \in Nat
      BY <2>1, NodeFacts
    <3>1. j # i
      <4>1. SUFFICES ASSUME j = i PROVE FALSE
        OBVIOUS
      <4>2. Span[Left(i)] \cap used = {} /\ Span[Right(i)] \cap used = {}
        BY <1>1, <2>3, <4>1
      <4> QED BY <1>1, <1>2, <1>3, <1>5, <4>2
    <3>2. Span[j] \subseteq Span[Left(i)] \/ Span[j] \subseteq Span[Right(i)]
      BY <2>3, <3>1, InHalf
    <3>3. Span[j] \subseteq Span[Left(i)] \ used \/ Span[j] \subseteq Span[Right(i)] \ used
      BY <2>3, <3>2
    <3>4. NodeSize[j] <= l \/ NodeSize[j] <= r
      BY <3>3 DEF Longest
    <3> QED BY <2>1, <3>0, <3>4
  <2>4. ASSUME n # 0 PROVE \E j \in Nodes : Span[j] \subseteq Span[i] \ used /\ NodeSize[j] = n
    <3>1. CASE n = l
      BY <1>1, <2>4, <3>1 DEF Longest
    <3>2. CASE n = r
      BY <1>1, <2>4, <3>2 DEF Longest
    <3> QED BY <2>1, <3>1, <3>2
  <2> QED BY <2>2, <2>3, <2>4 DEF Longest
<1> QED BY <1>4, <1>5

\* The tree is right wherever buddy_alloc looks.
LEMMA TreeLongest ==
  ASSUME NEW t, NEW B, TreeInv(t, B), NEW i \in Nodes, Outside(i, B) \/ i \in B
  PROVE  Longest(i, Covered(B), t[i])
<1> DEFINE Bad == {j \in Nodes : (Outside(j, B) \/ j \in B) /\ ~Longest(j, Covered(B), t[j])}
<1>1. SUFFICES ASSUME Bad # {} PROVE FALSE
  OBVIOUS
<1>2. PICK j \in Bad : \A k \in Bad : NodeSize[j] <= NodeSize[k]
  BY <1>1, ShortestNode
<1>3. j \in Nodes /\ (Outside(j, B) \/ j \in B) /\ ~Longest(j, Covered(B), t[j])
  BY <1>2
<1>4. t \in [Nodes -> Nat] /\ B \in SUBSET Nodes
  BY DEF TreeInv
<1>5. FirstPage(j) \in Span[j] /\ \A k \in Nodes : FirstPage(k) \in Span[k]
  BY <1>3, NodeFacts
<1>6. CASE j \in B
  <2>1. t[j] = 0 /\ Span[j] \subseteq Covered(B)
    BY <1>6 DEF TreeInv, Covered
  <2>2. \A k \in Nodes : ~(Span[k] \subseteq Span[j] \ Covered(B))
    BY <1>5, <2>1
  <2>3. Longest(j, Covered(B), t[j])
    BY <2>1, <2>2 DEF Longest
  <2> QED BY <1>3, <2>3
<1>7. CASE Outside(j, B) /\ NodeSize[j] = 1
  <2>1. t[j] = 1
    BY <1>3, <1>7 DEF TreeInv, Sound
  <2>2. Span[j] \cap Covered(B) = {}
    <3>1. Span[j] = {FirstPage(j)}
      BY <1>3, <1>7, NodeFacts
    <3> QED BY <1>7, <3>1 DEF Covered, Outside
  <2>3. Span[j] \subseteq Span[j] \ Covered(B)
    BY <2>2
  <2>4. \A k \in Nodes : Span[k] \subseteq Span[j] \ Covered(B) => NodeSize[k] <= 1
    BY <1>3, <1>7, InsideSize
  <2>5. Longest(j, Covered(B), 1)
    BY <1>3, <1>7, <2>3, <2>4 DEF Longest
  <2> QED BY <1>3, <2>1, <2>5
<1>8. CASE Outside(j, B) /\ NodeSize[j] # 1
  <2>1. /\ Left(j) \in Nodes /\ Right(j) \in Nodes
        /\ 2 * NodeSize[Left(j)] = NodeSize[j] /\ NodeSize[Right(j)] = NodeSize[Left(j)]
    BY <1>3, <1>8, Children
  <2>2. NodeSize[Left(j)] \in 1..SIZE
    BY <2>1, NodeFacts
  <2>3. NodeSize[Left(j)] < NodeSize[j] /\ NodeSize[Right(j)] < NodeSize[j]
    BY <2>1, <2>2
  <2>4. Left(j) \notin Bad /\ Right(j) \notin Bad
    <3>1. \A k \in Bad : ~(NodeSize[k] < NodeSize[j])
      <4> TAKE k \in Bad
      <4>1. NodeSize[j] <= NodeSize[k] /\ NodeSize[j] \in 1..SIZE /\ NodeSize[k] \in 1..SIZE
        BY <1>2, <1>3, NodeFacts
      <4> QED BY <4>1
    <3> QED BY <2>3, <3>1
  <2>5. (Outside(Left(j), B) \/ Left(j) \in B) /\ (Outside(Right(j), B) \/ Right(j) \in B)
    BY <1>3, <1>4, <1>8, ChildOutside
  <2>6. Longest(Left(j), Covered(B), t[Left(j)]) /\ Longest(Right(j), Covered(B), t[Right(j)])
    BY <2>1, <2>4, <2>5
  <2>7. t[Left(j)] \in Nat /\ t[Right(j)] \in Nat
    BY <1>4, <2>1
  <2>8. Longest(j, Covered(B), Merged(j, t[Left(j)], t[Right(j)]))
    BY <1>3, <1>8, <2>6, <2>7, LongestMerged
  <2>9. t[j] = Merged(j, t[Left(j)], t[Right(j)])
    BY <1>3, <1>8 DEF TreeInv, Sound
  <2> QED BY <1>3, <2>8, <2>9
<1> QED BY <1>3, <1>6, <1>7, <1>8

LEMMA FreeIsFull ==
  ASSUME NEW t, NEW B, TreeInv(t, B), NEW i \in Nodes, Span[i] \cap Covered(B) = {}
  PROVE  Outside(i, B) /\ t[i] = NodeSize[i]
<1>1. Outside(i, B)
  BY NodeFacts DEF Outside, Covered
<1>2. Longest(i, Covered(B), t[i]) /\ t[i] \in Nat
  BY <1>1, TreeLongest DEF TreeInv
<1> QED BY <1>1, <1>2, LongestBound

LEMMA TreeBound ==
  ASSUME NEW t, NEW B, TreeInv(t, B), NEW i \in Nodes
  PROVE  t[i] \in Nat /\ t[i] <= NodeSize[i]
<1>1. t[i] \in Nat /\ NodeSize[i] \in 1..SIZE
  BY NodeFacts DEF TreeInv
<1>2. CASE Outside(i, B) \/ i \in B
  BY <1>1, <1>2, TreeLongest, LongestBound
<1>3. CASE ~Outside(i, B) /\ i \notin B
  <2>1. PICK b \in B : Span[i] \subseteq Span[b]
    BY <1>3 DEF Outside
  <2>2. t[i] = NodeSize[i]
    BY <1>3, <2>1 DEF TreeInv
  <2> QED BY <1>1, <2>2
<1> QED BY <1>1, <1>2, <1>3

-----------------------------------------------------------------------------
(* The descent of buddy_alloc                                              *)

\* The nodes that are at least n pages long.
Wide(n) == {j \in Nodes : NodeSize[j] >= n}

\* Above a length there is at least twice the length.
LEMMA WideChildren ==
  ASSUME NEW k \in 0..Depth, NEW n, n = Pow2[k], NEW j \in Wide(n), NodeSize[j] # n,
         NEW c \in {Left(j), Right(j)}
  PROVE  NodeSize[j] # 1 /\ c \in Wide(n) /\ NodeSize[c] < NodeSize[j] /\ 2 * NodeSize[c] = NodeSize[j]
<1>1. PICK a \in 0..Depth : NodeSize[j] = Pow2[a]
  BY NodeIsBlock DEF Wide
<1>2. /\ a \in Nat /\ k \in Nat /\ Pow2[a] \in Nat /\ n \in Nat /\ n >= 1 /\ n < Pow2[a]
  <2>1. a \in Nat /\ k \in Nat
    BY PageCount
  <2>2. Pow2[a] \in Nat /\ n \in Nat /\ n >= 1
    BY <2>1, PowFacts
  <2>3. n <= Pow2[a] /\ n # Pow2[a]
    BY <1>1 DEF Wide
  <2> QED BY <2>1, <2>2, <2>3
<1>3. 2 * n <= NodeSize[j]
  <2>1. k < a
    BY <1>2, PowOrder
  <2> QED BY <1>1, <1>2, <2>1, PowOrder
<1>4. NodeSize[j] # 1 /\ j \in Nodes
  BY <1>2, <1>3 DEF Wide
<1>5. c \in Nodes /\ 2 * NodeSize[c] = NodeSize[j]
  BY <1>4, Children
<1>6. NodeSize[c] \in 1..SIZE
  BY <1>5, NodeFacts
<1>7. n <= NodeSize[c] /\ NodeSize[c] < NodeSize[j]
  BY <1>2, <1>3, <1>5, <1>6
<1> QED BY <1>4, <1>5, <1>7 DEF Wide

\* The loop ends: each turn halves the block.
LEMMA DescendDefined ==
  ASSUME NEW t, NEW k \in 0..Depth, NEW n, n = Pow2[k]
  PROVE  \E from : /\ Descend(t, n) = from[0]
                   /\ \A i \in Wide(n) :
                        from[i] = IF NodeSize[i] = n THEN i
                                  ELSE IF t[Left(i)] >= n THEN from[Left(i)] ELSE from[Right(i)]
<1> DEFINE D == Wide(n)
           rank == [i \in D |-> NodeSize[i]]
           Value(i, f) == IF NodeSize[i] = n THEN i
                          ELSE IF t[Left(i)] >= n THEN f[Left(i)] ELSE f[Right(i)]
           F == [i \in D |-> [f \in [D -> Nodes] |-> Value(i, f)]]
           from == CHOOSE f : f = [i \in D |-> Value(i, f)]
<1>1. \A i \in D : i \in Nodes
  BY DEF Wide
<1>2. \A i \in D : NodeSize[i] # n =>
        /\ Left(i) \in D /\ NodeSize[Left(i)] < NodeSize[i]
        /\ Right(i) \in D /\ NodeSize[Right(i)] < NodeSize[i]
  BY WideChildren
<1>3. rank \in [D -> 0..SIZE]
  BY <1>1, NodeFacts
<1> HIDE DEF D
<1>4. F \in [D -> [[D -> Nodes] -> Nodes]]
  <2>1. \A i \in D, f \in [D -> Nodes] : Value(i, f) \in Nodes
    BY <1>1, <1>2
  <2> HIDE DEF Value
  <2> QED BY <2>1
<1>5. ASSUME NEW i \in D, NEW f \in [D -> Nodes], NEW g \in [D -> Nodes],
             \A j \in D : rank[j] < rank[i] => f[j] = g[j]
      PROVE  F[i][f] = F[i][g]
  <2>1. NodeSize[i] # n => f[Left(i)] = g[Left(i)] /\ f[Right(i)] = g[Right(i)]
    BY <1>2, <1>5
  <2>2. Value(i, f) = Value(i, g)
    BY <2>1
  <2> HIDE DEF Value
  <2> QED BY <2>2
<1>6. SIZE \in Nat /\ 0 \in Nodes
  BY PageCount, RootNode
<1>7. \E f \in [D -> Nodes] : \A i \in D : f[i] = F[i][f]
  <2> HIDE DEF F, rank
  <2>1. Ranked(D, Nodes, SIZE, rank, F)
    BY <1>3, <1>4, <1>5, <1>6 DEF Ranked
  <2> QED BY <2>1, RankedExists
<1>8. PICK f \in [D -> Nodes] : \A i \in D : f[i] = Value(i, f)
  <2> HIDE DEF Value
  <2> QED BY <1>7
<1>9. f = [i \in D |-> Value(i, f)]
  <2> HIDE DEF Value
  <2> QED BY <1>8
<1>10. from = [i \in D |-> Value(i, from)]
  <2> HIDE DEF Value
  <2> QED BY <1>9
<1>11. Descend(t, n) = from[0]
  BY DEF Descend, D, Wide
<1>12. \A i \in D : from[i] = Value(i, from)
  <2> HIDE DEF from, Value
  <2> QED BY <1>10
<1> HIDE DEF from
<1> QED BY <1>11, <1>12 DEF D

\* It ends at the lowest block of its length that is free.
LEMMA DescendFinds ==
  ASSUME NEW t, NEW B, TreeInv(t, B), NEW k \in 0..Depth, NEW n, n = Pow2[k], t[0] >= n,
         NEW i, i = Descend(t, n)
  PROVE  /\ i \in Nodes /\ NodeSize[i] = n /\ Span[i] \cap Covered(B) = {}
         /\ \A j \in Nodes : NodeSize[j] = n /\ Span[j] \cap Covered(B) = {}
                               => FirstPage(i) <= FirstPage(j)
<1>1. PICK from :
        /\ Descend(t, n) = from[0]
        /\ \A j \in Wide(n) :
             from[j] = IF NodeSize[j] = n THEN j
                       ELSE IF t[Left(j)] >= n THEN from[Left(j)] ELSE from[Right(j)]
  BY DescendDefined
<1> DEFINE U == Covered(B)
           Found(x, j) ==
             /\ x \in Nodes /\ NodeSize[x] = n /\ Span[x] \subseteq Span[j] \ U
             /\ \A y \in Nodes : NodeSize[y] = n /\ Span[y] \subseteq Span[j] \ U
                                   => FirstPage(x) <= FirstPage(y)
           Bad == {j \in Wide(n) : Outside(j, B) /\ t[j] >= n /\ ~Found(from[j], j)}
<1>2. n \in Nat /\ n >= 1
  BY PageCount, PowFacts
<1>3. t \in [Nodes -> Nat] /\ B \in SUBSET Nodes
  BY DEF TreeInv
<1>4. \A j \in Nodes : t[j] >= n /\ (Outside(j, B) \/ j \in B) => Outside(j, B)
  BY <1>2 DEF TreeInv
<1>5. Bad = {}
  <2>1. SUFFICES ASSUME Bad # {} PROVE FALSE
    OBVIOUS
  <2>2. Bad \in SUBSET Nodes
    BY DEF Wide
  <2>3. PICK j \in Bad : \A m \in Bad : NodeSize[j] <= NodeSize[m]
    BY <2>1, <2>2, ShortestNode
  <2>4. j \in Wide(n) /\ j \in Nodes /\ Outside(j, B) /\ t[j] >= n /\ ~Found(from[j], j)
    BY <2>3 DEF Wide
  <2>5. Longest(j, U, t[j]) /\ t[j] \in Nat /\ t[j] <= NodeSize[j]
    BY <1>3, <2>4, TreeLongest, TreeBound
  <2>6. CASE NodeSize[j] = n
    <3>1. from[j] = j
      BY <1>1, <2>4, <2>6
    <3>2. t[j] = NodeSize[j]
      BY <1>2, <2>4, <2>5, <2>6
    <3>3. Span[j] \cap U = {}
      BY <2>4, <2>5, <3>2, LongestBound
    <3>4. \A y \in Nodes : NodeSize[y] = n /\ Span[y] \subseteq Span[j] \ U => y = j
      <4> TAKE y \in Nodes
      <4> HAVE NodeSize[y] = n /\ Span[y] \subseteq Span[j] \ U
      <4>1. Span[y] \subseteq Span[j]
        OBVIOUS
      <4>2. y # j => NodeSize[y] < NodeSize[j]
        BY <2>4, <4>1, InsideSize
      <4> QED BY <1>2, <2>6, <4>2
    <3>5. FirstPage(j) \in Nat
      BY <2>4, NodeFacts
    <3>6. Found(j, j)
      BY <2>4, <2>6, <3>3, <3>4, <3>5
    <3> HIDE DEF Found
    <3> QED BY <2>4, <3>1, <3>6
  <2>7. CASE NodeSize[j] # n
    <3> DEFINE l == Left(j)
               r == Right(j)
               h == NodeSize[l]
    <3>1. /\ l \in Wide(n) /\ r \in Wide(n) /\ l \in Nodes /\ r \in Nodes /\ NodeSize[j] # 1
          /\ NodeSize[l] < NodeSize[j] /\ NodeSize[r] < NodeSize[j]
      BY <2>4, <2>7, WideChildren DEF Wide
    <3>2. /\ 2 * h = NodeSize[j] /\ NodeSize[r] = h /\ FirstPage(l) = FirstPage(j)
          /\ FirstPage(r) = FirstPage(j) + h /\ Span[j] = Span[l] \cup Span[r]
      BY <2>4, <3>1, Children
    <3>3. h \in 1..SIZE /\ NodeSize[r] \in 1..SIZE /\ h >= n
      BY <3>1, NodeFacts DEF Wide
    <3>4. (Outside(l, B) \/ l \in B) /\ (Outside(r, B) \/ r \in B)
      BY <1>3, <2>4, <3>1, ChildOutside
    <3>5. l \notin Bad /\ r \notin Bad
      <4>1. \A m \in Bad : ~(NodeSize[m] < NodeSize[j])
        <5> TAKE m \in Bad
        <5>1. m \in Nodes /\ NodeSize[j] <= NodeSize[m]
          BY <2>2, <2>3
        <5>2. NodeSize[m] \in 1..SIZE /\ NodeSize[j] \in 1..SIZE
          BY <2>4, <5>1, NodeFacts
        <5> QED BY <5>1, <5>2
      <4> QED BY <3>1, <4>1
    <3>6. /\ t[l] \in Nat /\ t[r] \in Nat /\ Longest(l, U, t[l]) /\ Longest(r, U, t[r])
          /\ t[l] <= h /\ t[r] <= h
      BY <1>3, <3>1, <3>2, <3>4, TreeLongest, TreeBound
    <3>7. ASSUME NEW y \in Nodes, NodeSize[y] = n, Span[y] \subseteq Span[j] \ U
          PROVE  Span[y] \subseteq Span[l] \ U \/ Span[y] \subseteq Span[r] \ U
      <4>1. y # j
        BY <2>7, <3>7
      <4> QED BY <2>4, <3>7, <4>1, InHalf
    <3>8. CASE t[l] >= n
      <4>1. Outside(l, B)
        BY <1>4, <3>1, <3>4, <3>8
      <4>2. Found(from[l], l)
        BY <3>1, <3>5, <3>8, <4>1
      <4>3. from[j] = from[l]
        BY <1>1, <2>4, <2>7, <3>8
      <4> DEFINE x == from[l]
      <4>4. x \in Nodes /\ NodeSize[x] = n /\ Span[x] \subseteq Span[l] \ U
        BY <4>2
      <4>5. Span[x] \subseteq Span[j] \ U
        BY <3>2, <4>4
      <4>6. ASSUME NEW y \in Nodes, NodeSize[y] = n, Span[y] \subseteq Span[j] \ U
            PROVE  FirstPage(x) <= FirstPage(y)
        <5>1. CASE Span[y] \subseteq Span[l] \ U
          BY <4>2, <4>6, <5>1
        <5>2. CASE Span[y] \subseteq Span[r] \ U
          <6>1. FirstPage(y) \in Span[r] /\ FirstPage(x) \in Span[l]
            BY <4>4, <5>2, NodeFacts
          <6>2. /\ Span[l] = FirstPage(l)..(FirstPage(l) + h - 1)
                /\ Span[r] = FirstPage(r)..(FirstPage(r) + NodeSize[r] - 1)
                /\ FirstPage(l) \in Nat
            BY <3>1, NodeFacts
          <6>3. FirstPage(r) = FirstPage(l) + h
            BY <3>2
          <6> HIDE DEF h, l, r, x
          <6> QED BY <3>3, <6>1, <6>2, <6>3
        <5> QED BY <3>7, <4>6, <5>1, <5>2
      <4>7. Found(x, j)
        BY <4>4, <4>5, <4>6
      <4> HIDE DEF Found
      <4> QED BY <2>4, <4>3, <4>7
    <3>9. CASE ~(t[l] >= n)
      <4>1. t[r] >= n
        <5>1. t[j] = Merged(j, t[l], t[r])
          BY <2>4, <3>1 DEF TreeInv, Sound
        <5>2. CASE t[l] + t[r] = NodeSize[j]
          BY <1>2, <3>2, <3>3, <3>6, <3>9, <5>2
        <5>3. CASE t[l] + t[r] # NodeSize[j]
          <6>1. t[j] = Larger(t[l], t[r])
            BY <5>1, <5>3 DEF Merged
          <6> QED BY <2>4, <3>9, <6>1 DEF Larger
        <5> QED BY <5>2, <5>3
      <4>2. Outside(r, B)
        BY <1>4, <3>1, <3>4, <4>1
      <4>3. Found(from[r], r)
        BY <3>1, <3>5, <4>1, <4>2
      <4>4. from[j] = from[r]
        BY <1>1, <2>4, <2>7, <3>9
      <4>5. ASSUME NEW y \in Nodes, NodeSize[y] = n, Span[y] \subseteq Span[j] \ U
            PROVE  Span[y] \subseteq Span[r] \ U
        <5>1. SUFFICES ASSUME Span[y] \subseteq Span[l] \ U PROVE FALSE
          BY <3>7, <4>5
        <5>2. n <= t[l]
          BY <3>6, <4>5, <5>1 DEF Longest
        <5> QED BY <1>2, <3>6, <3>9, <5>2
      <4>6. Found(from[r], j)
        BY <3>2, <4>3, <4>5
      <4> HIDE DEF Found
      <4> QED BY <2>4, <4>4, <4>6
    <3> QED BY <3>8, <3>9
  <2> QED BY <2>6, <2>7
<1>6. 0 \in Nodes /\ Span[0] = Pages /\ NodeSize[0] = SIZE
  BY RootNode
<1>7. 0 \in Wide(n)
  <2>1. n <= SIZE
    BY Split
  <2> QED BY <1>2, <1>6, <2>1, PageCount DEF Wide
<1>8. Outside(0, B)
  <2>1. SUFFICES ASSUME NEW b \in B, Span[0] \subseteq Span[b] PROVE FALSE
    BY DEF Outside
  <2>2. b \in Nodes /\ NodeSize[b] \in 1..SIZE
    BY <1>3, NodeFacts
  <2>3. b = 0
    <3>1. b # 0 => NodeSize[0] < NodeSize[b]
      BY <1>6, <2>1, <2>2, InsideSize
    <3> QED BY <1>6, <2>2, <3>1, PageCount
  <2>4. t[0] = 0
    BY <2>3 DEF TreeInv
  <2> QED BY <1>2, <2>4
<1>9. Found(i, 0)
  <2> HIDE DEF Found
  <2> QED BY <1>1, <1>5, <1>7, <1>8
<1>10. \A j \in Nodes : Span[j] \cap U = {} => Span[j] \subseteq Span[0] \ U
  BY <1>6, NodeFacts
<1> QED BY <1>9, <1>10

-----------------------------------------------------------------------------
(* The updates of buddy_alloc and buddy_free                               *)

LEMMA AboveInner ==
  ASSUME NEW i \in Nodes, NEW j \in Above[i]
  PROVE  /\ j \in Nodes /\ j # i /\ Span[i] \subseteq Span[j] /\ NodeSize[j] # 1
         /\ \E c \in {Left(j), Right(j)} : c = i \/ c \in Above[i]
<1>1. j \in Nodes /\ j # i /\ Span[i] \subseteq Span[j]
  BY AboveIs
<1>2. NodeSize[j] # 1 /\ (Span[i] \subseteq Span[Left(j)] \/ Span[i] \subseteq Span[Right(j)])
  BY <1>1, InHalf
<1>3. Left(j) \in Nodes /\ Right(j) \in Nodes
  BY <1>1, <1>2, Children
<1> QED BY <1>1, <1>2, <1>3, AboveIs

\* The halves of a node that is not above i are not either.
LEMMA NotAboveChild ==
  ASSUME NEW i \in Nodes, NEW j \in Nodes, j \notin Above[i], NodeSize[j] # 1,
         NEW c \in {Left(j), Right(j)}, j # i
  PROVE  c \in Nodes /\ c # i /\ c \notin Above[i]
<1>1. c \in Nodes /\ Span[c] \subseteq Span[j]
  BY Children
<1>2. ~(Span[i] \subseteq Span[j])
  BY AboveIs
<1> QED BY <1>1, <1>2, AboveIs

LEMMA Halved ==
  ASSUME NEW j \in Nodes, NodeSize[j] # 1, NEW c \in {Left(j), Right(j)}
  PROVE  /\ c \in Nodes /\ NodeSize[c] \in Nat /\ NodeSize[c] >= 1
         /\ NodeSize[j] = NodeSize[c] + NodeSize[c]
         /\ NodeSize[c] < NodeSize[j] /\ ~(NodeSize[j] <= NodeSize[c])
<1>1. c \in Nodes /\ 2 * NodeSize[c] = NodeSize[j]
  BY Children
<1>2. NodeSize[c] \in 1..SIZE /\ NodeSize[j] \in 1..SIZE
  BY <1>1, NodeFacts
<1> QED BY <1>1, <1>2

\* Both updates give node i the value v and each node above it one that follows
\* from its halves; buddy_free also merges them.
Joined(merge, j, l, r) == IF merge THEN Merged(j, l, r) ELSE Larger(l, r)
Updated(t, i, v, merge, new, j) ==
  IF j = i THEN v
  ELSE IF j \in Above[i] THEN Joined(merge, j, new[Left(j)], new[Right(j)])
  ELSE t[j]

LEMMA JoinedType ==
  ASSUME NEW merge \in BOOLEAN, NEW j \in Nodes, NEW l \in Nat, NEW r \in Nat
  PROVE  Joined(merge, j, l, r) \in Nat
<1>1. NodeSize[j] \in 1..SIZE
  BY NodeFacts
<1>2. NodeSize[j] \in Nat
  BY <1>1
<1> QED BY <1>2 DEF Joined, Merged, Larger

LEMMA UpdateExists ==
  ASSUME NEW t \in [Nodes -> Nat], NEW i \in Nodes, NEW v \in Nat, NEW merge \in BOOLEAN
  PROVE  \E new \in [Nodes -> Nat] : \A j \in Nodes : new[j] = Updated(t, i, v, merge, new, j)
<1> DEFINE F == [j \in Nodes |-> [f \in [Nodes -> Nat] |-> Updated(t, i, v, merge, f, j)]]
<1>1. \A j \in Above[i] :
        /\ Left(j) \in Nodes /\ NodeSize[Left(j)] < NodeSize[j]
        /\ Right(j) \in Nodes /\ NodeSize[Right(j)] < NodeSize[j]
  BY AboveInner, Halved
<1>2. F \in [Nodes -> [[Nodes -> Nat] -> Nat]]
  <2>1. ASSUME NEW j \in Nodes, NEW f \in [Nodes -> Nat] PROVE Updated(t, i, v, merge, f, j) \in Nat
    <3>1. CASE j = i
      BY <3>1 DEF Updated
    <3>2. CASE j # i /\ j \in Above[i]
      BY <1>1, <3>2, JoinedType DEF Updated
    <3>3. CASE j # i /\ j \notin Above[i]
      BY <3>3 DEF Updated
    <3> QED BY <3>1, <3>2, <3>3
  <2> QED BY <2>1
<1>3. ASSUME NEW j \in Nodes, NEW f \in [Nodes -> Nat], NEW g \in [Nodes -> Nat],
             \A k \in Nodes : NodeSize[k] < NodeSize[j] => f[k] = g[k]
      PROVE  F[j][f] = F[j][g]
  <2>1. j \in Above[i] => f[Left(j)] = g[Left(j)] /\ f[Right(j)] = g[Right(j)]
    BY <1>1, <1>3
  <2>2. Updated(t, i, v, merge, f, j) = Updated(t, i, v, merge, g, j)
    BY <2>1 DEF Updated
  <2> QED BY <2>2
<1>4. NodeSize \in [Nodes -> 0..SIZE]
  <2>1. \A j \in Nodes : NodeSize[j] \in 1..SIZE
    BY NodeFacts
  <2>2. NodeSize = [j \in Nodes |-> NodeSize[j]]
    BY DEF NodeSize
  <2>3. \A j \in Nodes : NodeSize[j] \in 0..SIZE
    BY <2>1, PageCount
  <2> QED BY <2>2, <2>3
<1>5. Ranked(Nodes, Nat, SIZE, NodeSize, F)
  <2> HIDE DEF F
  <2> QED BY <1>2, <1>3, <1>4, PageCount DEF Ranked
<1>6. PICK f \in [Nodes -> Nat] : \A j \in Nodes : f[j] = F[j][f]
  <2> HIDE DEF F
  <2> QED BY <1>5, RankedExists
<1>7. \A j \in Nodes : f[j] = Updated(t, i, v, merge, f, j)
  BY <1>6
<1> QED BY <1>7

\* Whatever function it is, its values are numbers.
LEMMA UpdateTypes ==
  ASSUME NEW t \in [Nodes -> Nat], NEW i \in Nodes, NEW v \in Nat, NEW merge \in BOOLEAN,
         NEW new, \A j \in Nodes : new[j] = Updated(t, i, v, merge, new, j)
  PROVE  \A j \in Nodes : new[j] \in Nat
<1> DEFINE Bad == {j \in Nodes : new[j] \notin Nat}
<1>1. SUFFICES ASSUME Bad # {} PROVE FALSE
  OBVIOUS
<1>2. PICK j \in Bad : \A k \in Bad : NodeSize[j] <= NodeSize[k]
  BY <1>1, ShortestNode
<1>3. j \in Nodes /\ new[j] \notin Nat
  BY <1>2
<1>4. j \in Above[i] /\ new[j] = Joined(merge, j, new[Left(j)], new[Right(j)])
  <2>1. new[j] = Updated(t, i, v, merge, new, j)
    OBVIOUS
  <2> QED BY <1>3, <2>1 DEF Updated
<1>5. NodeSize[j] # 1
  BY <1>4, AboveInner
<1>6. \A c \in {Left(j), Right(j)} : c \in Nodes /\ c \notin Bad
  BY <1>2, <1>3, <1>5, Halved
<1>7. new[Left(j)] \in Nat /\ new[Right(j)] \in Nat
  BY <1>6
<1>8. Joined(merge, j, new[Left(j)], new[Right(j)]) \in Nat
  BY <1>3, <1>7, JoinedType, Zenon
<1> QED BY <1>3, <1>4, <1>8

LEMMA TakeNodeIs ==
  ASSUME NEW t \in [Nodes -> Nat], NEW i \in Nodes, NEW new, new = TakeNode(t, i)
  PROVE  new \in [Nodes -> Nat] /\ \A j \in Nodes : new[j] = Updated(t, i, 0, FALSE, new, j)
<1> DEFINE Value(f, j) == IF j = i THEN 0
                          ELSE IF j \in Above[i] THEN Larger(f[Left(j)], f[Right(j)]) ELSE t[j]
           chosen == CHOOSE f : f = [j \in Nodes |-> Value(f, j)]
<1>0. 0 \in Nat /\ FALSE \in BOOLEAN
  OBVIOUS
<1>1. \A f, j : Value(f, j) = Updated(t, i, 0, FALSE, f, j)
  BY DEF Updated, Joined
<1>2. new = chosen
  BY DEF TakeNode
<1> HIDE DEF Value, chosen
<1>3. PICK f \in [Nodes -> Nat] : \A j \in Nodes : f[j] = Updated(t, i, 0, FALSE, f, j)
  BY <1>0, UpdateExists
<1>4. f = [j \in Nodes |-> Value(f, j)]
  BY <1>1, <1>3
<1>5. chosen = [j \in Nodes |-> Value(chosen, j)]
  BY <1>4 DEF chosen
<1>6. \A j \in Nodes : chosen[j] = Updated(t, i, 0, FALSE, chosen, j)
  BY <1>1, <1>5
<1>7. \A j \in Nodes : chosen[j] \in Nat
  BY <1>0, <1>6, UpdateTypes, Zenon
<1>8. chosen = [j \in Nodes |-> chosen[j]]
  BY <1>5
<1> QED BY <1>2, <1>6, <1>7, <1>8

LEMMA GiveNodeIs ==
  ASSUME NEW t \in [Nodes -> Nat], NEW i \in Nodes, t[i] = 0, NEW new, new = GiveNode(t, i)
  PROVE  /\ new \in [Nodes -> Nat]
         /\ \A j \in Nodes : new[j] = Updated(t, i, NodeSize[i], TRUE, new, j)
<1> DEFINE Value(f, j) ==
             IF j = i THEN IF t[i] = 0 THEN NodeSize[i] ELSE 2 * NodeSize[i]
             ELSE IF j \in Above[i]
                  THEN LET l == f[Left(j)]  r == f[Right(j)] IN
                       IF l + r = NodeSize[j] THEN NodeSize[j] ELSE Larger(l, r)
                  ELSE t[j]
           chosen == CHOOSE f : f = [j \in Nodes |-> Value(f, j)]
<1>0. NodeSize[i] \in Nat
  BY NodeFacts
<1>1. \A f, j : Value(f, j) = Updated(t, i, NodeSize[i], TRUE, f, j)
  BY DEF Updated, Joined, Merged
<1>2. new = chosen
  BY DEF GiveNode
<1> HIDE DEF Value
<1>3. PICK f \in [Nodes -> Nat] : \A j \in Nodes : f[j] = Updated(t, i, NodeSize[i], TRUE, f, j)
  BY <1>0, UpdateExists
<1>4. f = [j \in Nodes |-> Value(f, j)]
  BY <1>1, <1>3
<1>5. chosen = [j \in Nodes |-> Value(chosen, j)]
  BY <1>4
<1> HIDE DEF chosen
<1>6. \A j \in Nodes : chosen[j] = Updated(t, i, NodeSize[i], TRUE, chosen, j)
  BY <1>1, <1>5
<1>7. \A j \in Nodes : chosen[j] \in Nat
  BY <1>0, <1>6, UpdateTypes
<1>8. chosen = [j \in Nodes |-> chosen[j]]
  BY <1>5
<1> QED BY <1>2, <1>6, <1>7, <1>8

\* What is strictly inside a block is not above what is at the block or apart from it.
LEMMA NotAbove ==
  ASSUME NEW i \in Nodes, NEW b \in Nodes, ~(Span[i] \subseteq Span[b]), NEW k \in Nodes,
         Span[k] \subseteq Span[b]
  PROVE  k # i /\ k \notin Above[i]
BY AboveIs

LEMMA NotAboveInside ==
  ASSUME NEW i \in Nodes, NEW k \in Nodes, Span[k] \subseteq Span[i]
  PROVE  k \notin Above[i]
<1>1. SUFFICES ASSUME k \in Above[i] PROVE FALSE
  OBVIOUS
<1>2. k # i /\ Span[i] \subseteq Span[k]
  BY <1>1, AboveIs
<1>3. NodeSize[k] < NodeSize[i] /\ NodeSize[i] <= NodeSize[k]
  BY <1>2, InsideSize
<1>4. NodeSize[k] \in 1..SIZE /\ NodeSize[i] \in 1..SIZE
  BY NodeFacts
<1> QED BY <1>3, <1>4

\* Taking a free block allocates its node and nothing else.
LEMMA TakeKeeps ==
  ASSUME NEW t, NEW B, TreeInv(t, B), NEW i \in Nodes, Span[i] \cap Covered(B) = {},
         NEW new, new = TakeNode(t, i)
  PROVE  TreeInv(new, B \cup {i})
<1>1. t \in [Nodes -> Nat] /\ B \in SUBSET Nodes
  BY DEF TreeInv
<1>2. new \in [Nodes -> Nat] /\ \A j \in Nodes : new[j] = Updated(t, i, 0, FALSE, new, j)
  BY <1>1, TakeNodeIs
<1>3. /\ new[i] = 0
      /\ \A j \in Nodes : j \in Above[i] => new[j] = Larger(new[Left(j)], new[Right(j)])
      /\ \A j \in Nodes : j # i /\ j \notin Above[i] => new[j] = t[j]
  <2>1. \A j \in Above[i] : j # i
    BY AboveIs
  <2> QED BY <1>2, <2>1 DEF Updated, Joined
<1>4. \A b \in B : Span[b] \cap Span[i] = {} /\ b # i /\ ~(Span[i] \subseteq Span[b])
  BY <1>1, NodeFacts DEF Covered
<1>5. \A j \in Nodes : Span[j] \subseteq Span[i] => t[j] = NodeSize[j]
  BY FreeIsFull
\* Nothing on the way up is whole any more.
<1>6. \A j \in Nodes : /\ new[j] <= NodeSize[j]
                       /\ j = i \/ j \in Above[i] => new[j] < NodeSize[j]
  <2> DEFINE Bad == {j \in Nodes : ~(/\ new[j] <= NodeSize[j]
                                     /\ j = i \/ j \in Above[i] => new[j] < NodeSize[j])}
  <2>1. SUFFICES ASSUME Bad # {} PROVE FALSE
    OBVIOUS
  <2>2. PICK j \in Bad : \A k \in Bad : NodeSize[j] <= NodeSize[k]
    BY <2>1, ShortestNode
  <2>3. /\ j \in Nodes
        /\ ~(new[j] <= NodeSize[j] /\ (j = i \/ j \in Above[i] => new[j] < NodeSize[j]))
    BY <2>2
  <2>4. NodeSize[j] \in Nat /\ NodeSize[j] >= 1
    <3>1. NodeSize[j] \in 1..SIZE
      BY <2>3, NodeFacts
    <3> QED BY <3>1
  <2>5. j # i
    BY <1>3, <2>3, <2>4
  <2>6. j \in Above[i]
    <3>1. SUFFICES ASSUME j \notin Above[i] PROVE FALSE
      OBVIOUS
    <3>2. new[j] = t[j] /\ t[j] <= NodeSize[j]
      BY <1>3, <2>3, <2>5, <3>1, TreeBound
    <3> QED BY <2>3, <2>5, <3>1, <3>2
  <2>7. NodeSize[j] # 1
    BY <2>6, AboveInner
  <2>8. \A c \in {Left(j), Right(j)} :
          /\ c \in Nodes /\ new[c] \in Nat /\ new[c] <= NodeSize[c] /\ NodeSize[c] < NodeSize[j]
          /\ NodeSize[c] \in Nat
    <3> TAKE c \in {Left(j), Right(j)}
    <3>1. c \in Nodes /\ NodeSize[c] < NodeSize[j] /\ NodeSize[c] \in Nat /\ ~(NodeSize[j] <= NodeSize[c])
      BY <2>3, <2>7, Halved
    <3>2. c \notin Bad
      BY <2>2, <3>1
    <3> QED BY <1>2, <3>1, <3>2
  <2>9. new[j] = Larger(new[Left(j)], new[Right(j)])
    BY <1>3, <2>3, <2>6
  <2>10. new[j] \in {new[Left(j)], new[Right(j)]}
    BY <2>9 DEF Larger
  <2>11. PICK c \in {Left(j), Right(j)} : new[j] = new[c]
    BY <2>10
  <2>12. new[j] < NodeSize[j]
    BY <2>4, <2>8, <2>11
  <2> QED BY <2>3, <2>4, <2>8, <2>11, <2>12
<1>7. ASSUME NEW k \in Nodes, Outside(k, B \cup {i}) PROVE Sound(new, k)
  <2>1. Outside(k, B) /\ ~(Span[k] \subseteq Span[i]) /\ k # i
    BY <1>7 DEF Outside
  <2>2. Sound(t, k)
    BY <2>1 DEF TreeInv
  <2>3. CASE k \in Above[i]
    <3>1. NodeSize[k] # 1 /\ \E c \in {Left(k), Right(k)} : c = i \/ c \in Above[i]
      BY <2>3, AboveInner
    <3>2. PICK c \in {Left(k), Right(k)} : c = i \/ c \in Above[i]
      BY <3>1
    <3>3. \A d \in {Left(k), Right(k)} :
            /\ d \in Nodes /\ new[d] \in Nat /\ new[d] <= NodeSize[d] /\ NodeSize[d] \in Nat
            /\ NodeSize[k] = NodeSize[d] + NodeSize[d]
      BY <1>2, <1>6, <3>1, Halved
    <3>4. new[c] < NodeSize[c]
      BY <1>6, <3>2, <3>3
    <3>5. new[Left(k)] + new[Right(k)] # NodeSize[k]
      <4>1. CASE c = Left(k)
        BY <3>3, <3>4, <4>1
      <4>2. CASE c = Right(k)
        BY <3>3, <3>4, <4>2
      <4> QED BY <3>2, <4>1, <4>2
    <3>6. new[k] = Larger(new[Left(k)], new[Right(k)])
      BY <1>3, <2>3
    <3> QED BY <3>1, <3>5, <3>6 DEF Sound, Merged
  <2>4. CASE k \notin Above[i]
    <3>1. new[k] = t[k]
      BY <1>3, <2>1, <2>4
    <3>2. NodeSize[k] # 1 => new[Left(k)] = t[Left(k)] /\ new[Right(k)] = t[Right(k)]
      BY <1>3, <2>1, <2>4, NotAboveChild
    <3> QED BY <2>2, <3>1, <3>2 DEF Sound
  <2> QED BY <2>3, <2>4
<1>8. \A b \in B \cup {i} : new[b] = 0
  <2>1. ASSUME NEW b \in B PROVE new[b] = 0
    <3>1. b \in Nodes /\ b # i /\ b \notin Above[i]
      BY <1>1, <1>4, NotAbove
    <3>2. t[b] = 0
      BY DEF TreeInv
    <3> QED BY <1>3, <3>1, <3>2
  <2> QED BY <1>3, <2>1
<1>9. ASSUME NEW b \in B \cup {i}, NEW k \in Nodes, Span[k] \subseteq Span[b], k # b
      PROVE  new[k] = NodeSize[k]
  <2>1. CASE b = i
    BY <1>3, <1>5, <1>9, <2>1, NotAboveInside
  <2>2. CASE b \in B
    <3>1. k # i /\ k \notin Above[i]
      BY <1>1, <1>4, <1>9, <2>2, NotAbove
    <3>2. t[k] = NodeSize[k]
      BY <1>9, <2>2 DEF TreeInv
    <3> QED BY <1>3, <3>1, <3>2
  <2> QED BY <2>1, <2>2
<1>10. \A b, c \in B \cup {i} : b # c => Span[b] \cap Span[c] = {}
  BY <1>4 DEF TreeInv
<1> QED BY <1>1, <1>2, <1>7, <1>8, <1>9, <1>10 DEF TreeInv

\* Giving a block back frees its node and nothing else.
LEMMA GiveKeeps ==
  ASSUME NEW t, NEW B, TreeInv(t, B), NEW b \in B, NEW new, new = GiveNode(t, b)
  PROVE  TreeInv(new, B \ {b})
<1>1. t \in [Nodes -> Nat] /\ B \in SUBSET Nodes /\ b \in Nodes /\ t[b] = 0
  BY DEF TreeInv
<1>2. /\ new \in [Nodes -> Nat]
      /\ \A j \in Nodes : new[j] = Updated(t, b, NodeSize[b], TRUE, new, j)
  BY <1>1, GiveNodeIs
<1>3. /\ new[b] = NodeSize[b]
      /\ \A j \in Nodes : j \in Above[b] => new[j] = Merged(j, new[Left(j)], new[Right(j)])
      /\ \A j \in Nodes : j # b /\ j \notin Above[b] => new[j] = t[j]
  <2>1. \A j \in Above[b] : j # b
    BY <1>1, AboveIs
  <2> QED BY <1>1, <1>2, <2>1 DEF Updated, Joined
<1>4. \A c \in B : c # b => Span[c] \cap Span[b] = {} /\ ~(Span[b] \subseteq Span[c])
  BY <1>1, NodeFacts DEF TreeInv
<1>5. \A k \in Nodes : Span[k] \subseteq Span[b] => new[k] = NodeSize[k]
  <2> TAKE k \in Nodes
  <2> HAVE Span[k] \subseteq Span[b]
  <2>1. CASE k = b
    BY <1>3, <2>1
  <2>2. CASE k # b
    <3>1. k \notin Above[b]
      BY <1>1, NotAboveInside
    <3>2. t[k] = NodeSize[k]
      BY <2>2 DEF TreeInv
    <3> QED BY <1>3, <2>2, <3>1, <3>2
  <2> QED BY <2>1, <2>2
<1>6. ASSUME NEW k \in Nodes, Outside(k, B \ {b}) PROVE Sound(new, k)
  <2>1. CASE Span[k] \subseteq Span[b]
    <3>1. new[k] = NodeSize[k]
      BY <1>5, <2>1
    <3>2. CASE NodeSize[k] = 1
      BY <3>1, <3>2 DEF Sound
    <3>3. CASE NodeSize[k] # 1
      <4>1. \A c \in {Left(k), Right(k)} : c \in Nodes /\ Span[c] \subseteq Span[k] /\ 2 * NodeSize[c] = NodeSize[k]
        BY <3>3, Children
      <4>2. \A c \in {Left(k), Right(k)} : new[c] = NodeSize[c] /\ NodeSize[c] \in Nat
                                           /\ NodeSize[k] = NodeSize[c] + NodeSize[c]
        BY <1>5, <2>1, <3>3, <4>1, Halved
      <4>3. new[Left(k)] + new[Right(k)] = NodeSize[k]
        BY <4>2
      <4> QED BY <3>1, <3>3, <4>3 DEF Sound, Merged
    <3> QED BY <3>2, <3>3
  <2>2. CASE ~(Span[k] \subseteq Span[b]) /\ k \in Above[b]
    <3>1. NodeSize[k] # 1
      BY <1>1, <2>2, AboveInner
    <3> QED BY <1>3, <2>2, <3>1 DEF Sound
  <2>3. CASE ~(Span[k] \subseteq Span[b]) /\ k \notin Above[b]
    <3>1. k # b /\ Outside(k, B)
      BY <1>6, <2>3 DEF Outside
    <3>2. Sound(t, k) /\ new[k] = t[k]
      BY <1>3, <2>3, <3>1 DEF TreeInv
    <3>3. NodeSize[k] # 1 => new[Left(k)] = t[Left(k)] /\ new[Right(k)] = t[Right(k)]
      BY <1>1, <1>3, <2>3, <3>1, NotAboveChild
    <3> QED BY <3>2, <3>3 DEF Sound
  <2> QED BY <2>1, <2>2, <2>3
<1>7. ASSUME NEW c \in B \ {b}, NEW k \in Nodes, Span[k] \subseteq Span[c]
      PROVE  new[k] = t[k]
  BY <1>1, <1>3, <1>4, <1>7, NotAbove
<1>8. \A c \in B \ {b} : new[c] = 0
  BY <1>1, <1>7 DEF TreeInv
<1>9. \A c \in B \ {b}, k \in Nodes : Span[k] \subseteq Span[c] /\ k # c => new[k] = NodeSize[k]
  BY <1>7 DEF TreeInv
<1>10. \A c, d \in B \ {b} : c # d => Span[c] \cap Span[d] = {}
  BY DEF TreeInv
<1> QED BY <1>1, <1>2, <1>6, <1>8, <1>9, <1>10 DEF TreeInv

\* From any page of a block the climb stops at its node.
LEMMA ClimbDefined ==
  ASSUME NEW t, NEW p
  PROVE  \E from : /\ Climb(t, p) = from[LeafOf(p)]
                   /\ \A i \in Nodes : from[i] = IF t[i] = 0 \/ i = 0 THEN i ELSE from[Parent(i)]
<1> DEFINE rank == [i \in Nodes |-> i]
           Value(i, f) == IF t[i] = 0 \/ i = 0 THEN i ELSE f[Parent(i)]
           F == [i \in Nodes |-> [f \in [Nodes -> Nodes] |-> Value(i, f)]]
           from == CHOOSE f : f = [i \in Nodes |-> Value(i, f)]
<1>1. \A i \in Nodes : i # 0 => Parent(i) \in Nodes /\ Parent(i) < i
  BY ParentNode
<1>2. F \in [Nodes -> [[Nodes -> Nodes] -> Nodes]]
  <2>1. \A i \in Nodes, f \in [Nodes -> Nodes] : Value(i, f) \in Nodes
    BY <1>1
  <2> HIDE DEF Value
  <2> QED BY <2>1
<1>3. ASSUME NEW i \in Nodes, NEW f \in [Nodes -> Nodes], NEW g \in [Nodes -> Nodes],
             \A j \in Nodes : rank[j] < rank[i] => f[j] = g[j]
      PROVE  F[i][f] = F[i][g]
  <2>1. i # 0 => f[Parent(i)] = g[Parent(i)]
    BY <1>1, <1>3
  <2>2. Value(i, f) = Value(i, g)
    BY <2>1
  <2> HIDE DEF Value
  <2> QED BY <2>2
<1>4. rank \in [Nodes -> 0..2 * SIZE] /\ 2 * SIZE \in Nat /\ Nodes # {}
  BY PageCount, RootNode DEF Nodes
<1>5. Ranked(Nodes, Nodes, 2 * SIZE, rank, F)
  <2> HIDE DEF F, rank
  <2> QED BY <1>2, <1>3, <1>4 DEF Ranked
<1>6. \E f \in [Nodes -> Nodes] : \A j \in Nodes : f[j] = F[j][f]
  <2> HIDE DEF F, rank
  <2> QED BY <1>5, RankedExists
<1>7. PICK f \in [Nodes -> Nodes] : \A i \in Nodes : f[i] = Value(i, f)
  <2> HIDE DEF Value
  <2> QED BY <1>6
<1>8. f = [i \in Nodes |-> Value(i, f)]
  <2> HIDE DEF Value
  <2> QED BY <1>7
<1>9. from = [i \in Nodes |-> Value(i, from)]
  <2> HIDE DEF Value
  <2> QED BY <1>8
<1>10. Climb(t, p) = from[LeafOf(p)]
  BY DEF Climb
<1>11. \A i \in Nodes : from[i] = Value(i, from)
  <2> HIDE DEF from, Value
  <2> QED BY <1>9
<1> HIDE DEF from
<1> QED BY <1>10, <1>11

LEMMA ClimbIs ==
  ASSUME NEW t, NEW B, TreeInv(t, B), NEW b \in B, NEW p \in Span[b]
  PROVE  Climb(t, p) = b
<1>1. PICK from :
        /\ Climb(t, p) = from[LeafOf(p)]
        /\ \A i \in Nodes : from[i] = IF t[i] = 0 \/ i = 0 THEN i ELSE from[Parent(i)]
  BY ClimbDefined
<1>2. b \in Nodes /\ t[b] = 0 /\ p \in Pages
  BY NodeFacts DEF TreeInv
<1> DEFINE Bad == {k \in Nodes : p \in Span[k] /\ Span[k] \subseteq Span[b] /\ from[k] # b}
<1>3. Bad = {}
  <2>1. SUFFICES ASSUME Bad # {} PROVE FALSE
    OBVIOUS
  <2>2. PICK k \in Bad : \A j \in Bad : NodeSize[j] <= NodeSize[k]
    BY <2>1, LongestNode
  <2>3. k \in Nodes /\ p \in Span[k] /\ Span[k] \subseteq Span[b] /\ from[k] # b
    BY <2>2
  <2>4. k # b
    BY <1>1, <1>2, <2>3
  <2>5. t[k] = NodeSize[k] /\ NodeSize[k] \in 1..SIZE /\ NodeSize[b] \in 1..SIZE
    BY <1>2, <2>3, <2>4, NodeFacts DEF TreeInv
  <2>6. 2 * NodeSize[k] <= NodeSize[b] /\ NodeSize[k] < NodeSize[b]
    BY <1>2, <2>3, <2>4, InsideSize
  <2>7. k # 0
    BY <2>5, <2>6, RootNode
  <2> DEFINE j == Parent(k)
  <2>8. j \in Nodes /\ NodeSize[j] # 1 /\ k \in {Left(j), Right(j)}
    BY <2>3, <2>7, ParentNode
  <2>9. Span[k] \subseteq Span[j] /\ 2 * NodeSize[k] = NodeSize[j]
    BY <2>8, Children
  <2>10. NodeSize[j] \in 1..SIZE
    BY <2>8, NodeFacts
  <2>11. NodeSize[j] <= NodeSize[b] /\ ~(NodeSize[j] <= NodeSize[k])
    BY <2>5, <2>6, <2>9, <2>10
  <2>12. p \in Span[j] /\ Span[j] \subseteq Span[b]
    BY <1>2, <2>3, <2>8, <2>9, <2>11, Nested
  <2>13. j \notin Bad
    BY <2>2, <2>11
  <2>14. from[j] = b
    BY <2>8, <2>12, <2>13
  <2>15. from[k] = from[j]
    BY <1>1, <2>3, <2>5, <2>7
  <2> QED BY <2>3, <2>14, <2>15
<1>4. LeafOf(p) \in Nodes /\ Span[LeafOf(p)] = {p}
  BY <1>2, LeafNode
<1>5. LeafOf(p) \notin Bad
  BY <1>3
<1> QED BY <1>1, <1>4, <1>5

-----------------------------------------------------------------------------
(* The invariant                                                           *)

\* The pages with references are those where the allocated blocks start.
Owns(rc, B) ==
  /\ rc \in [Pages -> 0..MaxRef]
  /\ \A p \in Pages : rc[p] > 0 <=> \E b \in B : FirstPage(b) = p

BInv ==
  /\ \E B : TreeInv(bitmap, B) /\ Owns(ref_cnt, B)
  /\ answer \in {-1} \cup Pages /\ off \in BOOLEAN

\* Requests are rounded up to powers of two.
LEMMA RoundedPower ==
  ASSUME NEW n \in Nat
  PROVE  \E k \in Nat : Rounded(n) = Pow2[k]
<1>1. CASE n = 0
  BY <1>1, PowFacts DEF Rounded
<1>2. CASE n # 0
  <2> DEFINE T == {k \in 0..n : Pow2[k] >= n}
             S == {Pow2[k] : k \in 0..n}
             Least(m) == m >= n /\ \A k \in 0..n : Pow2[k] >= n => m <= Pow2[k]
  <2>1. n \in T /\ T \in SUBSET Nat
    BY PowLarge, PowFacts
  <2>2. PICK k \in T : \A y \in T : k <= y
    BY <2>1, LeastNumber
  <2>3. Pow2[k] \in S /\ Least(Pow2[k])
    <3>1. \A y \in T : Pow2[k] <= Pow2[y]
      BY <2>1, <2>2, PowOrder
    <3> QED BY <2>2, <3>1
  <2>4. FixSize(n) = CHOOSE m \in S : Least(m)
    BY DEF FixSize
  <2>5. FixSize(n) \in S
    <3> HIDE DEF S, Least
    <3> QED BY <2>3, <2>4
  <2> QED BY <1>2, <2>5 DEF Rounded
<1> QED BY <1>1, <1>2

\* Two blocks that start at the same page are one.
LEMMA OneBlock ==
  ASSUME NEW t, NEW B, TreeInv(t, B), NEW b \in B, NEW c \in B, FirstPage(b) = FirstPage(c)
  PROVE  b = c
<1>1. b \in Nodes /\ c \in Nodes
  BY DEF TreeInv
<1>2. FirstPage(b) \in Span[b] \cap Span[c]
  BY <1>1, NodeFacts
<1> QED BY <1>2 DEF TreeInv

LEMMA AllocKeeps ==
  ASSUME NEW t, NEW B, NEW rc, TreeInv(t, B), Owns(rc, B), NEW nr \in Nat, t[0] >= Rounded(nr),
         NEW i, i = Descend(t, Rounded(nr)), MaxRef \in Nat \ {0}
  PROVE  /\ i \in Nodes /\ NodeSize[i] = Rounded(nr) /\ Span[i] \cap Covered(B) = {}
         /\ \A j \in Nodes : NodeSize[j] = Rounded(nr) /\ Span[j] \cap Covered(B) = {}
                               => FirstPage(i) <= FirstPage(j)
         /\ FirstPage(i) \in Pages /\ rc[FirstPage(i)] = 0
         /\ TreeInv(TakeNode(t, i), B \cup {i})
         /\ Owns([rc EXCEPT ![FirstPage(i)] = 1], B \cup {i})
<1>1. PICK k \in Nat : Rounded(nr) = Pow2[k]
  BY RoundedPower
<1>2. t[0] \in Nat /\ t[0] <= SIZE
  BY RootNode, TreeBound
<1>3. k \in 0..Depth
  <2>1. ~(Depth < k)
    <3>1. Depth < k => 2 * SIZE <= Pow2[k]
      BY PageCount, PowOrder
    <3>2. Pow2[k] \in Nat
      BY PowFacts
    <3> QED BY <1>1, <1>2, <3>1, <3>2, PageCount
  <2> QED BY <2>1, PageCount
<1>4. /\ i \in Nodes /\ NodeSize[i] = Rounded(nr) /\ Span[i] \cap Covered(B) = {}
      /\ \A j \in Nodes : NodeSize[j] = Rounded(nr) /\ Span[j] \cap Covered(B) = {}
                            => FirstPage(i) <= FirstPage(j)
  BY <1>1, <1>3, DescendFinds
<1>5. FirstPage(i) \in Span[i] /\ FirstPage(i) \in Pages
  BY <1>4, NodeFacts
<1>6. rc[FirstPage(i)] = 0
  <2>1. ~(\E b \in B : FirstPage(b) = FirstPage(i))
    <3>1. \A b \in B : FirstPage(b) \in Covered(B)
      BY NodeFacts DEF Covered, TreeInv
    <3> QED BY <1>4, <1>5, <3>1
  <2>2. rc[FirstPage(i)] \in 0..MaxRef /\ ~(rc[FirstPage(i)] > 0)
    BY <1>5, <2>1 DEF Owns
  <2> QED BY <2>2
<1>7. TreeInv(TakeNode(t, i), B \cup {i})
  BY <1>4, TakeKeeps
<1>8. Owns([rc EXCEPT ![FirstPage(i)] = 1], B \cup {i})
  <2> DEFINE new == [rc EXCEPT ![FirstPage(i)] = 1]
  <2>0. 1 \in 0..MaxRef /\ rc \in [Pages -> 0..MaxRef]
    BY DEF Owns
  <2>1. new \in [Pages -> 0..MaxRef]
    BY <1>5, <2>0
  <2>2. \A p \in Pages : new[p] = IF p = FirstPage(i) THEN 1 ELSE rc[p]
    BY DEF Owns
  <2> HIDE DEF new
  <2>3. \A p \in Pages : new[p] > 0 <=> \E b \in B \cup {i} : FirstPage(b) = p
    BY <2>2 DEF Owns
  <2>4. Owns(new, B \cup {i})
    BY <2>1, <2>3 DEF Owns
  <2> QED BY <2>4 DEF new
<1> QED BY <1>4, <1>5, <1>6, <1>7, <1>8

\* Counts new are rc with v at page p.
Changed(rc, p, v, new) ==
  /\ new \in [Pages -> 0..MaxRef] /\ new[p] = v
  /\ \A q \in Pages : q # p => new[q] = rc[q]

LEMMA ChangedIs ==
  ASSUME NEW rc \in [Pages -> 0..MaxRef], NEW p \in Pages, NEW v \in 0..MaxRef
  PROVE  Changed(rc, p, v, [rc EXCEPT ![p] = v])
BY DEF Changed

\* The last reference gives exactly the block back that starts at the page.
LEMMA DropKeeps ==
  ASSUME NEW t, NEW B, NEW rc, TreeInv(t, B), Owns(rc, B), NEW b \in B, NEW p, p = FirstPage(b),
         NEW new, Changed(rc, p, 0, new)
  PROVE  BuddyFree(t, new, p) = GiveNode(t, b) /\ TreeInv(GiveNode(t, b), B \ {b})
         /\ Owns(new, B \ {b})
<1>1. b \in Nodes /\ p \in Pages /\ p \in Span[b]
  BY NodeFacts DEF TreeInv
<1>2. new \in [Pages -> 0..MaxRef] /\ new[p] = 0 /\ \A q \in Pages : q # p => new[q] = rc[q]
  BY DEF Changed
<1>3. BuddyFree(t, new, p) = GiveNode(t, b)
  BY <1>1, <1>2, ClimbIs DEF BuddyFree
<1>4. \A c \in B : FirstPage(c) = p <=> c = b
  BY OneBlock
<1>5. ASSUME NEW q \in Pages PROVE new[q] > 0 <=> \E c \in B \ {b} : FirstPage(c) = q
  <2>1. CASE q = p
    BY <1>2, <1>4, <2>1
  <2>2. CASE q # p
    BY <1>2, <2>2 DEF Owns
  <2> QED BY <2>1, <2>2
<1> QED BY <1>2, <1>3, <1>5, GiveKeeps DEF Owns

\* Changing a count that stays positive changes no block.
LEMMA CountKeeps ==
  ASSUME NEW rc, NEW B, Owns(rc, B), NEW p \in Pages, rc[p] > 0, NEW v \in 1..MaxRef
  PROVE  Owns([rc EXCEPT ![p] = v], B)
<1> DEFINE new == [rc EXCEPT ![p] = v]
<1>0. v > 0 /\ v \in 0..MaxRef
  OBVIOUS
<1>1. new \in [Pages -> 0..MaxRef] /\ \A q \in Pages : new[q] = IF q = p THEN v ELSE rc[q]
  BY <1>0 DEF Owns
<1> HIDE DEF new
<1>2. \A q \in Pages : new[q] > 0 <=> rc[q] > 0
  BY <1>0, <1>1
<1>3. Owns(new, B)
  BY <1>1, <1>2 DEF Owns
<1> QED BY <1>3 DEF new

-----------------------------------------------------------------------------
(* Boot                                                                    *)

Leaves(k) == {LeafOf(p) : p \in 0..(k - 1)}

LEMMA WholeTree == TreeInv(NodeSize, {})
<1>1. NodeSize \in [Nodes -> Nat]
  <2>1. \A j \in Nodes : NodeSize[j] \in 1..SIZE
    BY NodeFacts
  <2>2. NodeSize = [j \in Nodes |-> NodeSize[j]]
    BY DEF NodeSize
  <2>3. \A j \in Nodes : NodeSize[j] \in Nat
    BY <2>1
  <2> QED BY <2>2, <2>3
<1>2. ASSUME NEW i \in Nodes PROVE Sound(NodeSize, i)
  <2>1. CASE NodeSize[i] = 1
    BY <2>1 DEF Sound
  <2>2. CASE NodeSize[i] # 1
    <3>1. 2 * NodeSize[Left(i)] = NodeSize[i] /\ NodeSize[Right(i)] = NodeSize[Left(i)]
      BY <2>2, Children
    <3>2. NodeSize[Left(i)] \in Nat /\ NodeSize[i] = NodeSize[Left(i)] + NodeSize[Left(i)]
      BY <2>2, Halved
    <3>3. NodeSize[Left(i)] + NodeSize[Right(i)] = NodeSize[i]
      BY <3>1, <3>2
    <3> QED BY <2>2, <3>3 DEF Sound, Merged
  <2> QED BY <2>1, <2>2
<1> QED BY <1>1, <1>2 DEF TreeInv

\* One turn of the loop takes the next page.
LEMMA BootTurn ==
  ASSUME NEW t, NEW k \in 0..(SIZE - 1), TreeInv(t, Leaves(k))
  PROVE  TreeInv(TakeNode(t, Descend(t, 1)), Leaves(k + 1))
<1>1. k \in Nat /\ k \in Pages /\ \A p \in 0..(k - 1) : p \in Pages
  BY PageCount DEF Pages
<1>2. Covered(Leaves(k)) = 0..(k - 1)
  BY <1>1, LeafNode DEF Covered, Leaves
<1> DEFINE j == LeafOf(k)
           i == Descend(t, 1)
<1>3. j \in Nodes /\ NodeSize[j] = 1 /\ FirstPage(j) = k /\ Span[j] = {k}
  BY <1>1, LeafNode
<1>4. Span[j] \cap Covered(Leaves(k)) = {}
  BY <1>1, <1>2, <1>3
<1>5. Outside(0, Leaves(k))
  <2>1. \A b \in Leaves(k) : ~(k \in Span[b])
    BY <1>1, LeafNode DEF Leaves
  <2>2. k \in Span[0]
    BY <1>1, RootNode
  <2> QED BY <2>1, <2>2 DEF Outside
<1>6. t[0] >= 1
  <2>1. Longest(0, Covered(Leaves(k)), t[0])
    BY <1>5, RootNode, TreeLongest
  <2>2. Span[j] \subseteq Span[0] \ Covered(Leaves(k))
    BY <1>1, <1>3, <1>4, RootNode
  <2>3. NodeSize[j] <= t[0] /\ t[0] \in Nat
    BY <1>3, <2>1, <2>2, RootNode, TreeBound DEF Longest
  <2> QED BY <1>3, <2>3
<1>7. 0 \in 0..Depth /\ 1 = Pow2[0]
  BY PageCount, PowFacts
<1>8. /\ i \in Nodes /\ NodeSize[i] = 1 /\ Span[i] \cap Covered(Leaves(k)) = {}
      /\ \A m \in Nodes : NodeSize[m] = 1 /\ Span[m] \cap Covered(Leaves(k)) = {}
                            => FirstPage(i) <= FirstPage(m)
  BY <1>6, <1>7, DescendFinds
<1>9. FirstPage(i) \in Nat /\ FirstPage(i) \in Span[i] /\ FirstPage(i) <= k
  BY <1>3, <1>4, <1>8, NodeFacts
<1>10. FirstPage(i) = k
  BY <1>1, <1>2, <1>8, <1>9
<1>11. i = j
  BY <1>3, <1>8, <1>10, SameNode
<1>12. Leaves(k + 1) = Leaves(k) \cup {j}
  <2>1. 0..((k + 1) - 1) = 0..(k - 1) \cup {k}
    BY <1>1
  <2> QED BY <2>1 DEF Leaves
<1>13. TreeInv(TakeNode(t, j), Leaves(k) \cup {j})
  BY <1>3, <1>4, TakeKeeps
<1> QED BY <1>11, <1>12, <1>13

LEMMA BootTree == TreeInv(Boot[Reserved], Leaves(Reserved))
<1>1. Reserved \in Nat /\ Reserved <= SIZE
  BY BuddyAssumption, PageCount
<1> DEFINE Turn(t) == TakeNode(t, Descend(t, 1))
           Booted(g, n) == /\ DOMAIN g = 0..n /\ g[0] = NodeSize
                           /\ \A k \in 1..n : g[k] = Turn(g[k - 1])
           T == {n \in Nat : \E g : Booted(g, n)}
<1> HIDE DEF Turn
<1>2. 0 \in T
  <2>1. Booted([k \in 0..0 |-> NodeSize], 0)
    OBVIOUS
  <2> QED BY <2>1
<1>3. ASSUME NEW n \in Nat, n \in T PROVE n + 1 \in T
  <2>1. PICK g : Booted(g, n)
    BY <1>3
  <2> DEFINE h == [k \in 0..(n + 1) |-> IF k = n + 1 THEN Turn(g[n]) ELSE g[k]]
  <2>2. DOMAIN h = 0..(n + 1) /\ h[0] = NodeSize
    BY <2>1
  <2>3. ASSUME NEW k \in 1..(n + 1) PROVE h[k] = Turn(h[k - 1])
    <3>1. k - 1 \in 0..n /\ h[k - 1] = g[k - 1]
      BY <2>3
    <3>2. CASE k = n + 1
      BY <3>1, <3>2
    <3>3. CASE k # n + 1
      <4>1. k \in 1..n /\ h[k] = g[k]
        BY <2>3, <3>3
      <4> QED BY <2>1, <3>1, <4>1
    <3> QED BY <3>2, <3>3
  <2> HIDE DEF h
  <2>4. Booted(h, n + 1)
    BY <2>2, <2>3
  <2> QED BY <2>4
<1> HIDE DEF T
<1>4. Reserved \in T
  BY <1>1, <1>2, <1>3, AllNumbers
<1> DEFINE Value(f, k) == IF k = 0 THEN NodeSize ELSE Turn(f[k - 1])
           a == CHOOSE f : f = [k \in 0..Reserved |-> Value(f, k)]
<1>5. PICK g : Booted(g, Reserved) /\ g = [k \in 0..Reserved |-> g[k]]
  <2>1. PICK h : Booted(h, Reserved)
    BY <1>4 DEF T
  <2> DEFINE g == [k \in 0..Reserved |-> h[k]]
  <2>2. Booted(g, Reserved)
    <3>1. DOMAIN g = 0..Reserved /\ g[0] = NodeSize
      BY <1>1, <2>1
    <3>2. ASSUME NEW k \in 1..Reserved PROVE g[k] = Turn(g[k - 1])
      <4>1. g[k] = h[k] /\ g[k - 1] = h[k - 1]
        BY <1>1
      <4> QED BY <2>1, <4>1
    <3> HIDE DEF g
    <3> QED BY <3>1, <3>2
  <2>3. g = [k \in 0..Reserved |-> g[k]]
    OBVIOUS
  <2> QED BY <2>2, <2>3
<1>6. g = [k \in 0..Reserved |-> Value(g, k)]
  <2>1. \A k \in 0..Reserved : g[k] = Value(g, k)
    BY <1>1, <1>5
  <2> HIDE DEF Value
  <2> QED BY <1>5, <2>1
<1>7. a = [k \in 0..Reserved |-> Value(a, k)]
  <2> HIDE DEF Value
  <2> QED BY <1>6
<1>8. Boot = a
  BY DEF Boot, Turn
<1>9. \A k \in 0..Reserved : Boot[k] = IF k = 0 THEN NodeSize ELSE Turn(Boot[k - 1])
  <2> HIDE DEF a
  <2> QED BY <1>7, <1>8
<1> DEFINE U == {k \in Nat : k <= Reserved => TreeInv(Boot[k], Leaves(k))}
<1>10. 0 \in U
  <2>1. Boot[0] = NodeSize /\ Leaves(0) = {}
    BY <1>1, <1>9 DEF Leaves
  <2> QED BY <2>1, WholeTree
<1>11. ASSUME NEW k \in Nat, k \in U PROVE k + 1 \in U
  <2>1. SUFFICES ASSUME k + 1 <= Reserved PROVE TreeInv(Boot[k + 1], Leaves(k + 1))
    OBVIOUS
  <2>2. k \in 0..(SIZE - 1) /\ TreeInv(Boot[k], Leaves(k))
    BY <1>1, <1>11, <2>1, PageCount
  <2>3. Boot[k + 1] = TakeNode(Boot[k], Descend(Boot[k], 1))
    <3>1. k + 1 \in 0..Reserved /\ k + 1 # 0 /\ (k + 1) - 1 = k
      BY <1>1, <2>1
    <3> QED BY <1>9, <3>1 DEF Turn
  <2> QED BY <2>2, <2>3, BootTurn
<1> HIDE DEF U
<1>12. Nat \subseteq U
  BY <1>10, <1>11, AllNumbers
<1> QED BY <1>1, <1>12 DEF U

-----------------------------------------------------------------------------
(* The invariant holds                                                     *)

LEMMA InitBlocks ==
  ASSUME Init
  PROVE  TreeInv(bitmap, Leaves(Reserved)) /\ Owns(ref_cnt, Leaves(Reserved))
<1> DEFINE B == Leaves(Reserved)
<1>1. Reserved \in Nat /\ Reserved <= SIZE /\ MaxRef \in Nat \ {0} /\ SIZE \in Nat /\ SIZE >= 1
  BY BuddyAssumption, PageCount
<1>2. TreeInv(bitmap, B)
  BY BootTree DEF Init
<1>3. Owns(ref_cnt, B)
  <2>1. ref_cnt = [p \in Pages |-> IF p < Reserved THEN 1 ELSE 0] /\ 0 \in 0..MaxRef /\ 1 \in 0..MaxRef
    BY <1>1 DEF Init
  <2>2. ref_cnt \in [Pages -> 0..MaxRef]
    BY <2>1
  <2>3. ASSUME NEW p \in Pages PROVE ref_cnt[p] > 0 <=> \E b \in B : FirstPage(b) = p
    <3>1. p \in Nat /\ (ref_cnt[p] > 0 <=> p < Reserved)
      BY <1>1, <2>1 DEF Pages
    <3>2. \A q \in 0..(Reserved - 1) : FirstPage(LeafOf(q)) = q
      BY <1>1, LeafNode DEF Pages
    <3>3. (\E b \in B : FirstPage(b) = p) <=> p \in 0..(Reserved - 1)
      BY <3>2 DEF Leaves
    <3> QED BY <1>1, <3>1, <3>3
  <2> QED BY <2>2, <2>3 DEF Owns
<1> QED BY <1>2, <1>3

LEMMA InitBInv == Init => BInv
<1> SUFFICES ASSUME Init PROVE BInv
  OBVIOUS
<1>1. SIZE \in Nat /\ SIZE >= 1
  BY PageCount
<1>2. answer \in {-1} \cup Pages /\ off \in BOOLEAN
  <2>1. 0 \in Pages
    BY <1>1 DEF Pages
  <2> QED BY <2>1 DEF Init
<1> QED BY <1>2, InitBlocks DEF BInv

\* One reference less: the block stays, or it goes back whole.
LEMMA DerefKeeps ==
  ASSUME NEW t, NEW B, NEW rc, TreeInv(t, B), Owns(rc, B), NEW b \in B, NEW p, p = FirstPage(b),
         NEW new, Changed(rc, p, rc[p] - 1, new),
         NEW t2, t2 = BuddyFree(t, new, p), NEW B2, B2 = IF rc[p] = 1 THEN B \ {b} ELSE B
  PROVE  TreeInv(t2, B2) /\ Owns(new, B2)
<1>1. b \in Nodes /\ p \in Pages
  BY NodeFacts DEF TreeInv
<1>2. rc[p] \in 0..MaxRef /\ rc[p] > 0
  BY <1>1 DEF Owns
<1>3. CASE rc[p] = 1
  <2>1. Changed(rc, p, 0, new)
    BY <1>3
  <2>2. t2 = GiveNode(t, b) /\ TreeInv(GiveNode(t, b), B \ {b}) /\ Owns(new, B \ {b})
    BY <2>1, DropKeeps
  <2> QED BY <1>3, <2>2
<1>4. CASE rc[p] # 1
  <2>1. rc[p] - 1 \in 1..MaxRef
    BY <1>2, <1>4, BuddyAssumption
  <2>2. Owns(new, B)
    <3>1. \A q \in Pages : new[q] > 0 <=> rc[q] > 0
      BY <1>2, <2>1 DEF Changed
    <3> QED BY <3>1 DEF Owns, Changed
  <2>3. new[p] # 0
    BY <2>1 DEF Changed
  <2>4. t2 = t
    BY <2>3 DEF BuddyFree
  <2> QED BY <1>4, <2>2, <2>4
<1> QED BY <1>3, <1>4

LEMMA NextBInv == BInv /\ [Next]_vars => BInv'
<1> SUFFICES ASSUME BInv, [Next]_vars PROVE BInv'
  OBVIOUS
<1> USE DEF BInv
<1>0. MaxRef \in Nat \ {0} /\ Requests \subseteq Nat
  BY BuddyAssumption
<1>1. PICK B : TreeInv(bitmap, B) /\ Owns(ref_cnt, B)
  OBVIOUS
<1>2. 0 \in Pages /\ Given \subseteq Pages
  BY BuddyAssumption, PageCount DEF Pages, Given
<1>3. ASSUME NEW n \in Requests, AllocPages(n) PROVE BInv'
  <2> DEFINE i == Descend(bitmap, Rounded(n))
  <2>1. /\ bitmap[0] >= Rounded(n) /\ bitmap' = TakeNode(bitmap, i)
        /\ ref_cnt' = [ref_cnt EXCEPT ![FirstPage(i)] = 1] /\ answer' = FirstPage(i) /\ off' = off
    BY <1>3 DEF AllocPages, Returns
  <2> HIDE DEF i
  <2>2. FirstPage(i) \in Pages /\ TreeInv(bitmap', B \cup {i}) /\ Owns(ref_cnt', B \cup {i})
    BY <1>0, <1>1, <2>1, AllocKeeps DEF i
  <2> QED BY <2>1, <2>2
<1>4. ASSUME NEW n \in Requests, OutOfMemory(n) PROVE BInv'
  BY <1>4 DEF OutOfMemory
<1>5. ASSUME NEW p \in Given, RefPage(p) PROVE BInv'
  <2>1. CASE ref_cnt[p] = 0
    BY <1>5, <2>1 DEF RefPage, Returns
  <2>2. CASE ref_cnt[p] > 0
    <3>1. ref_cnt[p] < MaxRef /\ ref_cnt' = [ref_cnt EXCEPT ![p] = ref_cnt[p] + 1]
          /\ bitmap' = bitmap /\ answer' = 0 /\ off' = off
      BY <1>5, <2>2 DEF RefPage, Returns
    <3>2. p \in Pages /\ ref_cnt[p] \in 0..MaxRef
      BY <1>1, <1>2 DEF Owns
    <3>3. ref_cnt[p] + 1 \in 1..MaxRef
      BY <1>0, <2>2, <3>1, <3>2
    <3>4. Owns(ref_cnt', B)
      BY <1>1, <2>2, <3>1, <3>2, <3>3, CountKeeps
    <3> QED BY <1>1, <1>2, <3>1, <3>4
  <2>3. p \in Pages /\ ref_cnt[p] \in 0..MaxRef
    BY <1>1, <1>2 DEF Owns
  <2> QED BY <2>1, <2>2, <2>3
<1>6. ASSUME NEW p \in Given, DerefPage(p) PROVE BInv'
  <2>1. CASE ref_cnt[p] = 0
    BY <1>6, <2>1 DEF DerefPage, Returns
  <2>2. CASE ref_cnt[p] > 0
    <3>1. ref_cnt' = [ref_cnt EXCEPT ![p] = ref_cnt[p] - 1]
          /\ bitmap' = BuddyFree(bitmap, ref_cnt', p) /\ answer' = 0 /\ off' = off
      BY <1>6, <2>2 DEF DerefPage, Returns
    <3>2. PICK b \in B : FirstPage(b) = p
      BY <1>1, <1>2, <2>2 DEF Owns
    <3>3. \E B2 : TreeInv(bitmap', B2) /\ Owns(ref_cnt', B2)
      <4> DEFINE B2 == IF ref_cnt[p] = 1 THEN B \ {b} ELSE B
      <4>1. Changed(ref_cnt, p, ref_cnt[p] - 1, ref_cnt')
        <5>1. p \in Pages /\ ref_cnt \in [Pages -> 0..MaxRef]
          BY <1>1, <1>2 DEF Owns
        <5>2. ref_cnt[p] - 1 \in 0..MaxRef
          BY <1>0, <2>2, <5>1
        <5> QED BY <3>1, <5>1, <5>2, ChangedIs
      <4>2. TreeInv(bitmap', B2) /\ Owns(ref_cnt', B2)
        BY <1>1, <3>1, <3>2, <4>1, DerefKeeps
      <4> QED BY <4>2
    <3> QED BY <1>2, <3>1, <3>3
  <2>3. p \in Pages /\ ref_cnt[p] \in 0..MaxRef
    BY <1>1, <1>2 DEF Owns
  <2> QED BY <2>1, <2>2, <2>3
<1>7. ASSUME NEW p \in Given, FreePages(p) PROVE BInv'
  <2>1. p \in Pages /\ ref_cnt[p] \in 0..MaxRef
    BY <1>1, <1>2 DEF Owns
  <2>2. bitmap' = bitmap /\ UNCHANGED <<ref_cnt, answer, off>>
    BY <1>7, <2>1 DEF FreePages, BuddyFree
  <2> QED BY <1>1, <2>2
<1>8. CASE UNCHANGED vars
  BY <1>8 DEF vars
<1> QED BY <1>3, <1>4, <1>5, <1>6, <1>7, <1>8 DEF Next, PoweredOff

LEMMA Invariant == Spec => []BInv
BY InitBInv, NextBInv, PTL DEF Spec

-----------------------------------------------------------------------------
(* What the invariant says of the blocks                                   *)

\* What FrameAllocator is told is held: Abstract's held, for a tree and counts.
HeldOf(t, rc) ==
  [p \in Pages |-> IF p \in {q \in Pages : rc[q] > 0}
     THEN [len |-> NodeSize[Climb(t, p)], refs |-> rc[p]]
     ELSE [len |-> 0, refs |-> 0]]

LEMMA BlockAt ==
  ASSUME NEW t, NEW B, NEW rc, TreeInv(t, B), Owns(rc, B), NEW b \in B
  PROVE  FirstPage(b) \in Pages /\ rc[FirstPage(b)] > 0 /\ Climb(t, FirstPage(b)) = b
<1> DEFINE p == FirstPage(b)
<1>1. p \in Pages /\ p \in Span[b]
  BY NodeFacts DEF TreeInv
<1> HIDE DEF p
<1>2. rc[p] > 0
  BY <1>1 DEF Owns, p
<1>3. Climb(t, p) = b
  BY <1>1, ClimbIs
<1> QED BY <1>1, <1>2, <1>3 DEF p

LEMMA HeldIs ==
  ASSUME NEW t, NEW B, NEW rc, TreeInv(t, B), Owns(rc, B), NEW h, h = HeldOf(t, rc)
  PROVE  /\ h = [p \in Pages |-> h[p]]
         /\ \A b \in B : /\ FirstPage(b) \in Pages /\ rc[FirstPage(b)] > 0
                         /\ NodeSize[Climb(t, FirstPage(b))] = NodeSize[b]
                         /\ h[FirstPage(b)] = [len |-> NodeSize[b], refs |-> rc[FirstPage(b)]]
         /\ \A p \in Pages : rc[p] = 0 => h[p] = [len |-> 0, refs |-> 0]
<1>1. h = [p \in Pages |-> h[p]]
  BY DEF HeldOf
<1>2. ASSUME NEW b \in B
      PROVE  /\ FirstPage(b) \in Pages /\ rc[FirstPage(b)] > 0
             /\ NodeSize[Climb(t, FirstPage(b))] = NodeSize[b]
             /\ h[FirstPage(b)] = [len |-> NodeSize[b], refs |-> rc[FirstPage(b)]]
  <2> DEFINE p == FirstPage(b)
  <2>1. p \in Pages /\ rc[p] > 0 /\ Climb(t, p) = b
    BY BlockAt
  <2> HIDE DEF p
  <2>2. h[p] = [len |-> NodeSize[Climb(t, p)], refs |-> rc[p]]
    BY <2>1 DEF HeldOf
  <2> QED BY <2>1, <2>2 DEF p
<1>3. ASSUME NEW p \in Pages, rc[p] = 0 PROVE h[p] = [len |-> 0, refs |-> 0]
  BY <1>3 DEF HeldOf
<1> QED BY <1>1, <1>2, <1>3

\* The blocks of the held pages are those of the tree.
LEMMA HeldCovers ==
  ASSUME NEW t, NEW B, NEW rc, TreeInv(t, B), Owns(rc, B), NEW h, h = HeldOf(t, rc)
  PROVE  UNION {p..(p + h[p].len - 1) : p \in Pages} = Covered(B)
<1>1. ASSUME NEW b \in B PROVE Span[b] = FirstPage(b)..(FirstPage(b) + h[FirstPage(b)].len - 1)
  <2>1. h[FirstPage(b)] = [len |-> NodeSize[b], refs |-> rc[FirstPage(b)]]
    BY HeldIs
  <2> QED BY <2>1, NodeFacts DEF TreeInv
<1>2. ASSUME NEW p \in Pages, rc[p] = 0 PROVE p..(p + h[p].len - 1) = {}
  <2>1. h[p].len = 0
    BY <1>2, HeldIs
  <2>2. p \in Nat
    BY DEF Pages
  <2> QED BY <2>1, <2>2
<1>3. ASSUME NEW p \in Pages, rc[p] # 0 PROVE \E b \in B : FirstPage(b) = p
  <2>1. rc[p] \in 0..MaxRef
    BY DEF Owns
  <2>2. rc[p] > 0
    BY <1>3, <2>1, BuddyAssumption
  <2> QED BY <2>2 DEF Owns
<1>4. \A b \in B : FirstPage(b) \in Pages
  BY HeldIs
<1>5. Covered(B) \subseteq UNION {p..(p + h[p].len - 1) : p \in Pages}
  BY <1>1, <1>4 DEF Covered
<1>6. ASSUME NEW p \in Pages, NEW x \in p..(p + h[p].len - 1) PROVE x \in Covered(B)
  <2>1. rc[p] # 0
    BY <1>2
  <2>2. PICK b \in B : FirstPage(b) = p
    BY <1>3, <2>1
  <2>3. x \in Span[b]
    BY <1>1, <2>2
  <2> QED BY <2>3 DEF Covered
<1> QED BY <1>5, <1>6

\* TreeExact in terms of the blocks.
LEMMA BlocksAre ==
  ASSUME NEW B, TreeInv(bitmap, B), Owns(ref_cnt, B)
  PROVE  /\ InUse = Covered(B)
         /\ {Block(p, BlockLen(p)) : p \in Held} = {Span[b] : b \in B}
<1>1. ASSUME NEW b \in B
      PROVE  FirstPage(b) \in Held /\ Block(FirstPage(b), BlockLen(FirstPage(b))) = Span[b]
  <2>1. FirstPage(b) \in Held /\ BlockLen(FirstPage(b)) = NodeSize[b]
    BY BlockAt DEF Held, BlockLen
  <2> QED BY <2>1, NodeFacts DEF Block, TreeInv
<1>2. \A p \in Held : \E b \in B : FirstPage(b) = p
  BY DEF Held, Owns
<1>3. {Block(p, BlockLen(p)) : p \in Held} = {Span[b] : b \in B}
  BY <1>1, <1>2
<1> QED BY <1>3 DEF InUse, Covered

LEMMA LongestIs ==
  ASSUME NEW i \in Nodes, NEW used, NEW n \in Nat, Longest(i, used, n)
  PROVE  LongestFree(i, used) = n
<1> DEFINE free == {j \in Nodes : Span[j] \subseteq Span[i] \ used}
<1>1. CASE free = {}
  <2>1. n = 0
    BY <1>1 DEF Longest
  <2> QED BY <1>1, <2>1 DEF LongestFree
<1>2. CASE free # {}
  <2> DEFINE m == CHOOSE j \in free : \A k \in free : NodeSize[k] <= NodeSize[j]
  <2>1. \E j \in free : \A k \in free : NodeSize[k] <= NodeSize[j]
    BY <1>2, LongestNode
  <2>2. m \in free /\ \A k \in free : NodeSize[k] <= NodeSize[m]
    BY <2>1
  <2>3. LongestFree(i, used) = NodeSize[m]
    BY <1>2 DEF LongestFree
  <2> HIDE DEF m
  <2>4. NodeSize[m] \in 1..SIZE /\ NodeSize[m] <= n /\ SIZE \in Nat
    BY <2>2, NodeFacts, PageCount DEF Longest
  <2>5. PICK j \in free : NodeSize[j] = n
    BY <2>4 DEF Longest
  <2>6. n <= NodeSize[m]
    BY <2>2, <2>5
  <2> QED BY <2>3, <2>4, <2>6
<1> QED BY <1>1, <1>2

\* The tree tells the truth at every node that is not inside an allocated
\* block, so that buddy_alloc may decide on it alone.
THEOREM TreeStaysExact == Spec => []TreeExact
<1>1. BInv => TreeExact
  <2> SUFFICES ASSUME BInv PROVE TreeExact
    OBVIOUS
  <2>1. PICK B : TreeInv(bitmap, B) /\ Owns(ref_cnt, B)
    BY DEF BInv
  <2>2. TypeOK
    <3>1. \A i \in Nodes : bitmap[i] \in Nat /\ bitmap[i] <= NodeSize[i] /\ NodeSize[i] \in 1..SIZE
      BY <2>1, TreeBound, NodeFacts
    <3>2. \A i \in Nodes : bitmap[i] \in 0..SIZE
      BY <3>1, PageCount
    <3>3. bitmap \in [Nodes -> 0..SIZE]
      BY <2>1, <3>2 DEF TreeInv
    <3> QED BY <2>1, <3>1, <3>3 DEF TypeOK, BInv, Owns
  <2>3. ASSUME NEW i \in Nodes, \A b \in B : ~(Span[i] \subseteq Span[b])
        PROVE  bitmap[i] = LongestFree(i, Covered(B))
    <3>1. Longest(i, Covered(B), bitmap[i])
      BY <2>1, <2>3, TreeLongest DEF Outside
    <3>2. bitmap[i] \in Nat
      BY <2>1, TreeBound
    <3> QED BY <3>1, <3>2, LongestIs
  <2>4. /\ InUse = Covered(B)
        /\ {Block(p, BlockLen(p)) : p \in Held} = {Span[b] : b \in B}
    BY <2>1, BlocksAre
  <2>5. ASSUME NEW i \in Nodes,
               \A block \in {Block(p, BlockLen(p)) : p \in Held} : ~(Span[i] \subseteq block)
        PROVE  bitmap[i] = LongestFree(i, InUse)
    BY <2>3, <2>4, <2>5
  <2> QED BY <2>2, <2>5 DEF TreeExact
<1> QED BY <1>1, Invariant, PTL

-----------------------------------------------------------------------------
(* The allocator is the one FrameAllocator describes                       *)

\* A product with u is a multiple of u, and the only one with that quotient.
LEMMA Multiple ==
  ASSUME NEW u \in Nat \ {0}
  PROVE  /\ \A a \in Nat : a \div u \in Nat /\ a % u \in 0..(u - 1)
                           /\ a = (a \div u) * u + (a % u)
         /\ \A m \in Nat : (m * u) % u = 0
<1>1. ASSUME NEW a \in Nat
      PROVE  a \div u \in Nat /\ a % u \in 0..(u - 1) /\ a = (a \div u) * u + (a % u)
  OBVIOUS
<1>2. ASSUME NEW m \in Nat PROVE (m * u) % u = 0
  <2> DEFINE a == m * u
             q == a \div u
             r == a % u
  <2>1. a \in Nat
    OBVIOUS
  <2>2. q \in Nat /\ r \in 0..(u - 1) /\ a = q * u + r
    BY <1>1, <2>1
  <2> HIDE DEF q, r
  <2>3. m * u \in Nat /\ q * u \in Nat /\ m * u = q * u + r
    BY <2>2, Times
  <2> HIDE DEF a
  <2>4. ~(m < q)
    <3>1. m < q => m * u + u <= q * u
      BY <2>2, Times
    <3> QED BY <2>2, <2>3, <3>1
  <2>5. ~(q < m)
    <3>1. q < m => q * u + u <= m * u
      BY <2>2, Times
    <3> QED BY <2>2, <2>3, <3>1
  <2>6. q = m
    BY <2>2, <2>4, <2>5
  <2>7. r = 0
    BY <2>2, <2>3, <2>6
  <2> QED BY <2>7 DEF r, a
<1> QED BY <1>1, <1>2

\* Where a block of len pages fits beside the used pages: Abstract!Fits.
FitsOf(len, used) == {p \in Pages : p % len = 0 /\ p..(p + len - 1) \subseteq Pages \ used}

\* An aligned run of free pages is the span of a free node.
LEMMA FitsIs ==
  ASSUME NEW k \in Nat, NEW used, NEW p
  PROVE  p \in FitsOf(Pow2[k], used) <=>
           \E j \in Nodes : NodeSize[j] = Pow2[k] /\ FirstPage(j) = p /\ Span[j] \cap used = {}
<1> DEFINE u == Pow2[k]
<1>1. u \in Nat \ {0} /\ u >= 1 /\ SIZE \in Nat /\ Depth \in Nat
  BY PowFacts, PageCount
<1>2. ASSUME p \in FitsOf(u, used)
      PROVE  \E j \in Nodes : NodeSize[j] = u /\ FirstPage(j) = p /\ Span[j] \cap used = {}
  <2>1. p \in Pages /\ p \in Nat /\ p % u = 0 /\ p..(p + u - 1) \subseteq Pages \ used
    BY <1>2 DEF FitsOf, Pages
  <2> HIDE DEF u
  <2> DEFINE m == p \div u
  <2>2. m \in Nat /\ p = m * u + (p % u)
    BY <1>1, <2>1, Multiple
  <2> HIDE DEF m
  <2>3. m * u \in Nat /\ p = m * u
    BY <1>1, <2>1, <2>2, Times
  <2>4. p + u <= SIZE
    <3>1. p + u - 1 \in p..(p + u - 1)
      BY <1>1, <2>1
    <3>2. p + u - 1 \in Pages
      BY <2>1, <3>1
    <3> QED BY <1>1, <2>1, <3>2 DEF Pages
  <2>5. k \in 0..Depth
    <3>1. Depth < k => 2 * SIZE <= u
      BY PageCount, PowOrder DEF u
    <3> QED BY <1>1, <2>1, <2>4, <3>1
  <2>6. SIZE = Pow2[Depth - k] * u /\ Pow2[Depth - k] \in Nat
    BY <2>5, Split DEF u
  <2>7. m < Pow2[Depth - k]
    <3>1. Pow2[Depth - k] <= m => Pow2[Depth - k] * u <= m * u
      BY <1>1, <2>2, <2>6, Times
    <3> QED BY <1>1, <2>2, <2>3, <2>4, <2>6, <3>1
  <2> DEFINE j == At(k, m)
  <2>8. j \in Nodes /\ NodeSize[j] = u /\ FirstPage(j) = p
    BY <2>2, <2>3, <2>5, <2>7, BlockHasNode DEF u
  <2> HIDE DEF j
  <2>9. Span[j] = p..(p + u - 1)
    BY <2>8, NodeFacts
  <2> QED BY <2>1, <2>8, <2>9
<1>3. ASSUME NEW j \in Nodes, NodeSize[j] = u, FirstPage(j) = p, Span[j] \cap used = {}
      PROVE  p \in FitsOf(u, used)
  <2>1. PICK a \in 0..Depth, m \in Nat : NodeSize[j] = Pow2[a] /\ FirstPage(j) = m * Pow2[a]
    BY NodeIsBlock
  <2>2. p = m * u
    BY <1>3, <2>1
  <2> HIDE DEF u
  <2>3. p % u = 0
    BY <1>1, <2>2, Multiple
  <2>4. p \in Pages /\ p..(p + u - 1) \subseteq Pages \ used
    BY <1>3, NodeFacts
  <2> QED BY <2>3, <2>4 DEF FitsOf
<1> QED BY <1>2, <1>3

\* The two ways to write one change of what is held.
LEMMA HeldChange ==
  ASSUME NEW t, NEW B, NEW rc, TreeInv(t, B), Owns(rc, B),
         NEW t2, NEW B2, NEW rc2, TreeInv(t2, B2), Owns(rc2, B2),
         NEW p \in Pages, \A q \in Pages : q # p => rc2[q] = rc[q],
         \A b : FirstPage(b) # p => (b \in B2 <=> b \in B)
  PROVE  HeldOf(t2, rc2) = [HeldOf(t, rc) EXCEPT ![p] = HeldOf(t2, rc2)[p]]
<1> DEFINE h == HeldOf(t, rc)
           h2 == HeldOf(t2, rc2)
<1>0. h = HeldOf(t, rc) /\ h2 = HeldOf(t2, rc2)
  OBVIOUS
<1> HIDE DEF h, h2
<1>1. h = [q \in Pages |-> h[q]] /\ h2 = [q \in Pages |-> h2[q]]
  BY <1>0, HeldIs
<1>2. ASSUME NEW q \in Pages, q # p PROVE h2[q] = h[q]
  <2>1. rc2[q] = rc[q] /\ rc[q] \in 0..MaxRef
    BY <1>2 DEF Owns
  <2>2. CASE rc[q] = 0
    BY <1>0, <2>1, <2>2, HeldIs
  <2>3. CASE rc[q] # 0
    <3>1. rc[q] > 0
      BY <2>1, <2>3, BuddyAssumption
    <3>2. PICK b \in B : FirstPage(b) = q
      BY <3>1 DEF Owns
    <3>3. b \in B2
      BY <1>2, <3>2
    <3>4. h[q] = [len |-> NodeSize[b], refs |-> rc[q]]
      BY <1>0, <3>2, HeldIs
    <3>5. h2[q] = [len |-> NodeSize[b], refs |-> rc2[q]]
      BY <1>0, <3>2, <3>3, HeldIs
    <3> QED BY <2>1, <3>4, <3>5
  <2> QED BY <2>2, <2>3
<1>3. h2 = [h EXCEPT ![p] = h2[p]]
  BY <1>1, <1>2
<1> QED BY <1>0, <1>3

\* Its actions, in terms of HeldOf and FitsOf.
Hd == HeldOf(bitmap, ref_cnt)

LEMMA AbstractFits ==
  ASSUME NEW B, TreeInv(bitmap, B), Owns(ref_cnt, B), NEW len
  PROVE  Abstract!Fits(len) = FitsOf(len, Covered(B))
<1>1. Abstract!Fits(len) = FitsOf(len, UNION {p..(p + Hd[p].len - 1) : p \in Pages})
  BY DEF Abstract!Fits, Abstract!InUse, Abstract!BlockAt, Abstract!Pages, Pages, Hd, HeldOf,
         Held, BlockLen, FitsOf
<1>2. UNION {p..(p + Hd[p].len - 1) : p \in Pages} = Covered(B)
  BY HeldCovers DEF Hd
<1> QED BY <1>1, <1>2

LEMMA AbstractAlloc ==
  ASSUME NEW len, ~off, off' = off, NEW p \in Abstract!Fits(len),
         \A q \in Abstract!Fits(len) : p <= q,
         Hd' = [Hd EXCEPT ![p] = [len |-> len, refs |-> 1]], answer' = p
  PROVE  Abstract!Alloc(len)
BY DEF Abstract!Alloc, Hd, HeldOf, Held, BlockLen

LEMMA AbstractRefuse ==
  ASSUME NEW len, ~off, Abstract!Fits(len) = {}, Hd' = Hd, answer' = answer, off' = TRUE
  PROVE  Abstract!Refuse(len)
BY DEF Abstract!Refuse, Hd, HeldOf, Held, BlockLen

LEMMA AbstractRef ==
  ASSUME NEW p, ~off, off' = off, Hd[p] # [len |-> 0, refs |-> 0],
         Hd' = [Hd EXCEPT ![p].refs = @ + 1], answer' = 0
  PROVE  Abstract!Ref(p)
BY DEF Abstract!Ref, Abstract!None, Hd, HeldOf, Held, BlockLen

LEMMA AbstractDeref ==
  ASSUME NEW p, ~off, off' = off, Hd[p] # [len |-> 0, refs |-> 0],
         Hd' = [Hd EXCEPT ![p] = IF @.refs = 1 THEN [len |-> 0, refs |-> 0]
                                 ELSE [len |-> @.len, refs |-> @.refs - 1]],
         answer' = 0
  PROVE  Abstract!Deref(p)
BY DEF Abstract!Deref, Abstract!None, Hd, HeldOf, Held, BlockLen

LEMMA AbstractInvalid ==
  ASSUME NEW p, ~off, off' = off, Hd[p] = [len |-> 0, refs |-> 0], Hd' = Hd, answer' = -1
  PROVE  Abstract!Invalid(p)
BY DEF Abstract!Invalid, Abstract!None, Hd, HeldOf, Held, BlockLen

LEMMA AbstractInit ==
  Init => Abstract!Init
<1> SUFFICES ASSUME Init PROVE Abstract!Init
  OBVIOUS
<1> DEFINE B == Leaves(Reserved)
           free == [len |-> 0, refs |-> 0]
<1>1. TreeInv(bitmap, B) /\ Owns(ref_cnt, B)
  BY InitBlocks
<1>2. Reserved \in Nat /\ ref_cnt = [p \in Pages |-> IF p < Reserved THEN 1 ELSE 0]
  BY BuddyAssumption, PageCount DEF Init
<1> HIDE DEF B
<1>3. Hd = [p \in Pages |-> Hd[p]]
  BY <1>1, HeldIs DEF Hd
<1>4. ASSUME NEW p \in Pages, p < Reserved PROVE Hd[p] = [len |-> 1, refs |-> 1]
  <2>1. p \in 0..(Reserved - 1)
    BY <1>2, <1>4 DEF Pages
  <2>2. LeafOf(p) \in B
    BY <2>1 DEF B, Leaves
  <2>3. FirstPage(LeafOf(p)) = p /\ NodeSize[LeafOf(p)] = 1
    BY LeafNode
  <2>4. Hd[FirstPage(LeafOf(p))] = [len |-> NodeSize[LeafOf(p)], refs |-> ref_cnt[FirstPage(LeafOf(p))]]
    BY <1>1, <2>2, HeldIs DEF Hd
  <2> QED BY <1>2, <1>4, <2>3, <2>4
<1>5. ASSUME NEW p \in Pages, ~(p < Reserved) PROVE Hd[p] = free
  BY <1>1, <1>2, <1>5, HeldIs DEF Hd
<1>6. Hd = [p \in Pages |-> IF p < Reserved THEN [len |-> 1, refs |-> 1] ELSE free]
  BY <1>3, <1>4, <1>5
<1> QED BY <1>6 DEF Init, Abstract!Init, Abstract!None, Abstract!Pages, Pages, Hd, HeldOf, Held,
                    BlockLen

\* A page whose count is not zero is held; taking or giving one reference
\* changes that count, and the last one gives the block back.
LEMMA CountOf ==
  ASSUME BInv, NEW p \in Given
  PROVE  p \in Pages /\ ref_cnt[p] \in Nat /\ (ref_cnt[p] = 0 => Hd[p] = [len |-> 0, refs |-> 0])
<1>1. PICK B : TreeInv(bitmap, B) /\ Owns(ref_cnt, B)
  BY DEF BInv
<1>2. p \in Pages
  BY BuddyAssumption, PageCount DEF Pages, Given
<1>3. ref_cnt[p] \in Nat
  BY <1>1, <1>2, BuddyAssumption DEF Owns
<1>4. ref_cnt[p] = 0 => Hd[p] = [len |-> 0, refs |-> 0]
  BY <1>1, <1>2, HeldIs DEF Hd
<1> QED BY <1>2, <1>3, <1>4

LEMMA AllocStep ==
  ASSUME BInv, NEW n \in Requests, AllocPages(n)
  PROVE  Abstract!Alloc(Rounded(n))
<1>1. PICK B : TreeInv(bitmap, B) /\ Owns(ref_cnt, B)
  BY DEF BInv
<1>2. MaxRef \in Nat \ {0} /\ n \in Nat
  BY BuddyAssumption
<1> DEFINE len == Rounded(n)
           i == Descend(bitmap, len)
           p == FirstPage(i)
           B2 == B \cup {i}
<1>3. /\ ~off /\ off' = off /\ bitmap[0] >= len /\ bitmap' = TakeNode(bitmap, i)
      /\ ref_cnt' = [ref_cnt EXCEPT ![p] = 1] /\ answer' = p
  BY DEF AllocPages, Returns
<1> HIDE DEF i
<1>4. /\ i \in Nodes /\ NodeSize[i] = len /\ Span[i] \cap Covered(B) = {}
      /\ \A j \in Nodes : NodeSize[j] = len /\ Span[j] \cap Covered(B) = {} => p <= FirstPage(j)
      /\ p \in Pages /\ ref_cnt[p] = 0
      /\ TreeInv(bitmap', B2) /\ Owns(ref_cnt', B2)
  <2>1. i = Descend(bitmap, Rounded(n)) /\ bitmap[0] >= Rounded(n)
    BY <1>3 DEF i
  <2>2. /\ i \in Nodes /\ NodeSize[i] = Rounded(n) /\ Span[i] \cap Covered(B) = {}
        /\ \A j \in Nodes : NodeSize[j] = Rounded(n) /\ Span[j] \cap Covered(B) = {}
                              => FirstPage(i) <= FirstPage(j)
        /\ FirstPage(i) \in Pages /\ ref_cnt[FirstPage(i)] = 0
        /\ TreeInv(TakeNode(bitmap, i), B \cup {i})
        /\ Owns([ref_cnt EXCEPT ![FirstPage(i)] = 1], B \cup {i})
    BY <1>1, <1>2, <2>1, AllocKeeps
  <2> QED BY <1>3, <2>2
<1>5. PICK k \in Nat : len = Pow2[k]
  BY <1>2, RoundedPower
<1> HIDE DEF len
<1>6. \A q : q \in Abstract!Fits(len) <=>
               \E j \in Nodes : NodeSize[j] = len /\ FirstPage(j) = q /\ Span[j] \cap Covered(B) = {}
  <2>1. Abstract!Fits(len) = FitsOf(Pow2[k], Covered(B))
    BY <1>1, <1>5, AbstractFits
  <2> QED BY <1>5, <2>1, FitsIs
<1> HIDE DEF p
<1>7. p \in Abstract!Fits(len) /\ \A q \in Abstract!Fits(len) : p <= q
  BY <1>4, <1>6 DEF p
<1>8. Hd' = [Hd EXCEPT ![p] = Hd'[p]]
  <2>1. \A q \in Pages : q # p => ref_cnt'[q] = ref_cnt[q]
    BY <1>1, <1>3 DEF Owns
  <2>2. \A b : FirstPage(b) # p => (b \in B2 <=> b \in B)
    BY DEF p
  <2> HIDE DEF B2
  <2> QED BY <1>1, <1>4, <2>1, <2>2, HeldChange DEF Hd
<1>9. Hd'[p] = [len |-> len, refs |-> 1]
  <2>1. Hd'[FirstPage(i)] = [len |-> NodeSize[i], refs |-> ref_cnt'[FirstPage(i)]]
    <3>1. i \in B2
      OBVIOUS
    <3> HIDE DEF B2
    <3> QED BY <1>4, <3>1, HeldIs DEF Hd
  <2>2. ref_cnt'[p] = 1
    BY <1>1, <1>3, <1>4 DEF Owns
  <2> QED BY <1>4, <2>1, <2>2 DEF p
<1>10. Hd' = [Hd EXCEPT ![p] = [len |-> len, refs |-> 1]]
  BY <1>8, <1>9
<1>11. Abstract!Alloc(len)
  BY <1>3, <1>7, <1>10, AbstractAlloc
<1> QED BY <1>11 DEF len

LEMMA RefuseStep ==
  ASSUME BInv, NEW n \in Requests, OutOfMemory(n)
  PROVE  Abstract!Refuse(Rounded(n))
<1>1. PICK B : TreeInv(bitmap, B) /\ Owns(ref_cnt, B)
  BY DEF BInv
<1>2. n \in Nat
  BY BuddyAssumption
<1>3. /\ ~off /\ off' = TRUE /\ bitmap[0] < Rounded(n)
      /\ bitmap' = bitmap /\ ref_cnt' = ref_cnt /\ answer' = answer
  BY DEF OutOfMemory
<1>4. PICK k \in Nat : Rounded(n) = Pow2[k]
  BY <1>2, RoundedPower
<1>5. Outside(0, B) \/ 0 \in B
  <2>1. SUFFICES ASSUME NEW b \in B, Span[0] \subseteq Span[b] PROVE b = 0
    BY DEF Outside
  <2>2. b \in Nodes /\ Span[b] \subseteq Span[0]
    BY <1>1, NodeFacts, RootNode DEF TreeInv
  <2>3. ~(NodeSize[0] < NodeSize[b])
    BY <2>2, RootNode, NodeFacts, PageCount
  <2> QED BY <2>1, <2>2, <2>3, RootNode, InsideSize
<1>6. Longest(0, Covered(B), bitmap[0])
  BY <1>1, <1>5, RootNode, TreeLongest
<1>7. ASSUME NEW j \in Nodes, NodeSize[j] = Rounded(n), Span[j] \cap Covered(B) = {}
      PROVE  FALSE
  <2>1. Span[j] \subseteq Span[0] \ Covered(B)
    BY <1>7, NodeFacts, RootNode
  <2>2. NodeSize[j] <= bitmap[0]
    BY <1>6, <2>1 DEF Longest
  <2>3. bitmap[0] \in Nat /\ NodeSize[j] \in 1..SIZE /\ SIZE \in Nat
    BY <1>1, RootNode, TreeBound, NodeFacts, PageCount
  <2> QED BY <1>3, <1>7, <2>2, <2>3
<1>8. Abstract!Fits(Rounded(n)) = {}
  <2>1. ASSUME NEW q PROVE q \notin FitsOf(Pow2[k], Covered(B))
    <3>1. q \in FitsOf(Pow2[k], Covered(B)) =>
            \E j \in Nodes : NodeSize[j] = Pow2[k] /\ Span[j] \cap Covered(B) = {}
      BY FitsIs
    <3> QED BY <1>4, <1>7, <3>1
  <2> QED BY <1>1, <1>4, <2>1, AbstractFits
<1>9. Hd' = Hd
  BY <1>3 DEF Hd
<1> QED BY <1>3, <1>8, <1>9, AbstractRefuse

LEMMA CountStep ==
  ASSUME BInv, NEW p \in Given, ref_cnt[p] > 0, RefPage(p)
  PROVE  Abstract!Ref(p)
<1>1. PICK B : TreeInv(bitmap, B) /\ Owns(ref_cnt, B)
  BY DEF BInv
<1>2. MaxRef \in Nat /\ p \in Pages /\ ref_cnt[p] \in 0..MaxRef
  BY <1>1, CountOf, BuddyAssumption DEF Owns
<1>3. /\ ~off /\ off' = off /\ bitmap' = bitmap /\ ref_cnt[p] < MaxRef
      /\ ref_cnt' = [ref_cnt EXCEPT ![p] = ref_cnt[p] + 1] /\ answer' = 0
  BY <1>2 DEF RefPage, Returns
<1>4. PICK b \in B : FirstPage(b) = p
  BY <1>1, <1>2 DEF Owns
<1>5. TreeInv(bitmap', B) /\ Owns(ref_cnt', B)
  <2>1. ref_cnt[p] + 1 \in 1..MaxRef
    BY <1>2, <1>3
  <2> QED BY <1>1, <1>2, <1>3, <2>1, CountKeeps
<1>6. ref_cnt'[p] = ref_cnt[p] + 1 /\ \A q \in Pages : q # p => ref_cnt'[q] = ref_cnt[q]
  BY <1>1, <1>2, <1>3 DEF Owns
<1>7. Hd' = [Hd EXCEPT ![p] = Hd'[p]]
  <2>1. \A c : FirstPage(c) # p => (c \in B <=> c \in B)
    OBVIOUS
  <2> QED BY <1>1, <1>2, <1>5, <1>6, <2>1, HeldChange DEF Hd
<1>8. Hd[p] = [len |-> NodeSize[b], refs |-> ref_cnt[p]]
  BY <1>1, <1>4, HeldIs DEF Hd
<1>9. Hd'[p] = [len |-> NodeSize[b], refs |-> ref_cnt[p] + 1]
  <2>1. Hd'[FirstPage(b)] = [len |-> NodeSize[b], refs |-> ref_cnt'[FirstPage(b)]]
    BY <1>5, HeldIs DEF Hd
  <2> QED BY <1>4, <1>6, <2>1
<1>10. Hd' = [Hd EXCEPT ![p].refs = @ + 1]
  BY <1>7, <1>8, <1>9
<1>11. Hd[p] # [len |-> 0, refs |-> 0]
  BY <1>2, <1>8
<1> QED BY <1>3, <1>10, <1>11, AbstractRef

LEMMA DropStep ==
  ASSUME BInv, NEW p \in Given, ref_cnt[p] > 0, DerefPage(p)
  PROVE  Abstract!Deref(p)
<1>1. PICK B : TreeInv(bitmap, B) /\ Owns(ref_cnt, B)
  BY DEF BInv
<1>2. MaxRef \in Nat /\ p \in Pages /\ ref_cnt[p] \in 0..MaxRef
  BY <1>1, CountOf, BuddyAssumption DEF Owns
<1>3. /\ ~off /\ off' = off /\ bitmap' = BuddyFree(bitmap, ref_cnt', p)
      /\ ref_cnt' = [ref_cnt EXCEPT ![p] = ref_cnt[p] - 1] /\ answer' = 0
  BY <1>2 DEF DerefPage, Returns
<1>4. PICK b \in B : FirstPage(b) = p
  BY <1>1, <1>2 DEF Owns
<1> DEFINE B2 == IF ref_cnt[p] = 1 THEN B \ {b} ELSE B
<1>5. Changed(ref_cnt, p, ref_cnt[p] - 1, ref_cnt')
  <2>1. ref_cnt \in [Pages -> 0..MaxRef]
    BY <1>1 DEF Owns
  <2>2. ref_cnt[p] - 1 \in 0..MaxRef
    BY <1>2
  <2> QED BY <1>2, <1>3, <2>1, <2>2, ChangedIs
<1>6. TreeInv(bitmap', B2) /\ Owns(ref_cnt', B2)
  BY <1>1, <1>3, <1>4, <1>5, DerefKeeps
<1>7. ref_cnt'[p] = ref_cnt[p] - 1 /\ \A q \in Pages : q # p => ref_cnt'[q] = ref_cnt[q]
  BY <1>5 DEF Changed
<1>8. Hd' = [Hd EXCEPT ![p] = Hd'[p]]
  <2>1. \A c : FirstPage(c) # p => (c \in B2 <=> c \in B)
    BY <1>4
  <2> HIDE DEF B2
  <2> QED BY <1>1, <1>2, <1>6, <1>7, <2>1, HeldChange DEF Hd
<1>9. Hd[p] = [len |-> NodeSize[b], refs |-> ref_cnt[p]]
  BY <1>1, <1>4, HeldIs DEF Hd
<1>10. Hd'[p] = IF ref_cnt[p] = 1 THEN [len |-> 0, refs |-> 0]
                ELSE [len |-> NodeSize[b], refs |-> ref_cnt[p] - 1]
  <2>1. CASE ref_cnt[p] = 1
    <3>1. ref_cnt'[p] = 0
      BY <1>7, <2>1
    <3>2. Hd'[p] = [len |-> 0, refs |-> 0]
      BY <1>2, <1>6, <3>1, HeldIs DEF Hd
    <3> QED BY <2>1, <3>2
  <2>2. CASE ref_cnt[p] # 1
    <3>1. b \in B2
      BY <2>2
    <3>2. Hd'[FirstPage(b)] = [len |-> NodeSize[b], refs |-> ref_cnt'[FirstPage(b)]]
      BY <1>6, <3>1, HeldIs DEF Hd
    <3> QED BY <1>4, <1>7, <2>2, <3>2
  <2> QED BY <2>1, <2>2
<1>11. Hd' = [Hd EXCEPT ![p] = IF @.refs = 1 THEN [len |-> 0, refs |-> 0]
                               ELSE [len |-> @.len, refs |-> @.refs - 1]]
  <2>1. Hd'[p] = IF Hd[p].refs = 1 THEN [len |-> 0, refs |-> 0]
                 ELSE [len |-> Hd[p].len, refs |-> Hd[p].refs - 1]
    BY <1>9, <1>10
  <2> QED BY <1>8, <2>1
<1>12. Hd[p] # [len |-> 0, refs |-> 0]
  BY <1>2, <1>9
<1> QED BY <1>3, <1>11, <1>12, AbstractDeref

\* A call for a page where no block starts is refused.
LEMMA InvalidStep ==
  ASSUME BInv, NEW p \in Given, ref_cnt[p] = 0, RefPage(p) \/ DerefPage(p)
  PROVE  Abstract!Invalid(p)
<1>1. ~off /\ off' = off /\ bitmap' = bitmap /\ ref_cnt' = ref_cnt /\ answer' = -1
  BY DEF RefPage, DerefPage, Returns
<1>2. Hd' = Hd
  BY <1>1 DEF Hd
<1> QED BY <1>1, <1>2, CountOf, AbstractInvalid

LEMMA AbstractStutter ==
  ASSUME Hd' = Hd, answer' = answer, off' = off
  PROVE  UNCHANGED Abstract!vars
BY DEF Abstract!vars, Hd, HeldOf, Held, BlockLen

\* Every block is given out, counted and given back as FrameAllocator says.
THEOREM ImplementsFrameAllocator == Spec => RefinesFrameAllocator
<1>1. Init => Abstract!Init
  BY AbstractInit
<1>2. BInv /\ [Next]_vars => [Abstract!Next]_(Abstract!vars)
  <2> SUFFICES ASSUME BInv, [Next]_vars PROVE [Abstract!Next]_(Abstract!vars)
    OBVIOUS
  <2>1. ASSUME NEW n \in Requests, AllocPages(n) PROVE Abstract!Next
    BY <2>1, AllocStep DEF Abstract!Next
  <2>2. ASSUME NEW n \in Requests, OutOfMemory(n) PROVE Abstract!Next
    BY <2>2, RefuseStep DEF Abstract!Next
  <2>3. ASSUME NEW p \in Given, RefPage(p) \/ DerefPage(p) PROVE Abstract!Next
    <3>1. p \in Abstract!Pages /\ ref_cnt[p] \in Nat
      BY CountOf DEF Pages, Abstract!Pages
    <3>2. CASE ref_cnt[p] = 0
      BY <2>3, <3>1, <3>2, InvalidStep DEF Abstract!Next
    <3>3. CASE ref_cnt[p] > 0
      BY <2>3, <3>1, <3>3, CountStep, DropStep DEF Abstract!Next
    <3> QED BY <3>1, <3>2, <3>3
  <2>4. ASSUME NEW p \in Given, FreePages(p) PROVE UNCHANGED Abstract!vars
    <3>1. ref_cnt[p] \in Nat
      BY CountOf
    <3>2. bitmap' = bitmap /\ ref_cnt' = ref_cnt /\ answer' = answer /\ off' = off
      BY <2>4, <3>1 DEF FreePages, BuddyFree
    <3>3. Hd' = Hd
      BY <3>2 DEF Hd
    <3> QED BY <3>2, <3>3, AbstractStutter
  <2>5. CASE UNCHANGED vars
    <3>1. Hd' = Hd
      BY <2>5 DEF Hd, vars
    <3> QED BY <2>5, <3>1, AbstractStutter DEF vars
  <2> QED BY <2>1, <2>2, <2>3, <2>4, <2>5 DEF Next, PoweredOff
<1> QED BY <1>1, <1>2, Invariant, PTL DEF Spec, RefinesFrameAllocator, Abstract!Spec

-----------------------------------------------------------------------------
(* The choice of schedule                                                  *)

\* The loop of schedule finds a task: there is a largest counter, and a first
\* task that has it.
LEMMA BestIsLargest ==
  ASSUME NEW c, task_num \in Tasks, \A p \in Existing : c[p] \in 0..PRIORITY_MAX
  PROVE  /\ Best(c) \in Existing
         /\ \A q \in Existing : c[q] <= c[Best(c)]
<1>1. MaxTasks \in Nat /\ PRIORITY_MAX \in Nat
  BY SchedulerAssumption
<1> DEFINE lack(p) == PRIORITY_MAX - c[p]
           Lacks == {lack(p) : p \in Existing}
<1>2. task_num \in Nat /\ 1 \in Existing
  BY <1>1 DEF Tasks, Existing
<1>3. Lacks \subseteq Nat /\ Lacks # {}
  BY <1>1, <1>2
<1>4. PICK d \in Lacks : \A e \in Lacks : d <= e
  <2> HIDE DEF Lacks
  <2> QED BY <1>3, LeastNumber
<1> DEFINE Firsts == {p \in Existing : lack(p) = d}
<1>5. Firsts \subseteq Nat /\ Firsts # {}
  BY <1>1, <1>4 DEF Existing
<1>6. PICK p \in Firsts : \A q \in Firsts : p <= q
  <2> HIDE DEF Firsts
  <2> QED BY <1>5, LeastNumber
<1>7. p \in Existing /\ lack(p) = d
  BY <1>6
<1>8. ASSUME NEW q \in Existing
      PROVE  c[q] < c[p] \/ (c[q] = c[p] /\ p <= q)
  <2>1. c[q] \in Nat /\ c[p] \in Nat /\ lack(p) <= lack(q)
    BY <1>4, <1>7
  <2>2. CASE c[q] = c[p]
    <3>1. q \in Firsts
      BY <1>7, <2>2
    <3> QED BY <1>6, <2>2, <3>1
  <2>3. CASE c[q] # c[p]
    BY <1>1, <2>1, <2>3
  <2> QED BY <2>2, <2>3
<1>9. /\ Best(c) \in Existing
      /\ \A q \in Existing : c[q] < c[Best(c)] \/ (c[q] = c[Best(c)] /\ Best(c) <= q)
  BY <1>7, <1>8 DEF Best
<1>10. \A q \in Existing : c[q] \in Nat
  OBVIOUS
<1> QED BY <1>9, <1>10

-----------------------------------------------------------------------------
(* The invariant                                                           *)

\* What do_fork sets for a task: its priority, and no ticks before.
Enrolled ==
  /\ current \in {0} \cup Existing
  /\ \A p \in Tasks : (p \in Existing) <=> (priority[p] > 0)
  /\ \A p \in Tasks : p \notin Existing => counter[p] = 0

\* Nothing has been recharged before the first schedule.
BootHasNoTicks == current = 0 => \A p \in Tasks : counter[p] = 0

SInv == SchedulerTypeOK /\ RunnerHasTicks /\ NoTicksSaved /\ Enrolled /\ BootHasNoTicks

\* What may be handed to schedule: ticks of tasks that exist, none saved.
Owing(c) ==
  /\ c \in [Tasks -> 0..PRIORITY_MAX]
  /\ \A p \in Existing : c[p] <= priority[p]
  /\ \A p \in Tasks : p \notin Existing => c[p] = 0

LEMMA TaskFacts ==
  ASSUME SchedulerTypeOK
  PROVE  /\ Tasks \subseteq Nat \ {0} /\ 1 \in Tasks /\ MaxTasks \in Nat
         /\ Priorities \subseteq Nat \ {0} /\ Priorities \subseteq 0..PRIORITY_MAX
         /\ task_num \in Nat \ {0}
         /\ Existing \subseteq Tasks /\ 1 \in Existing
         /\ PRIORITY_MAX \in Nat
  BY SchedulerAssumption DEF Tasks, Priorities, Existing, SchedulerTypeOK

\* The counters that the loop of schedule ends with.
LEMMA RefilledOwes ==
  ASSUME SchedulerTypeOK, Enrolled, NEW c, Owing(c)
  PROVE  /\ Owing(Refilled(c))
         /\ \E p \in Existing : Refilled(c)[p] > 0
         /\ (\E p \in Existing : c[p] > 0) => Refilled(c) = c
         /\ (~ \E p \in Existing : c[p] > 0) => Refilled(c) = priority
<1>1. CASE \E p \in Existing : c[p] > 0
  BY <1>1 DEF Refilled
<1>2. CASE ~ \E p \in Existing : c[p] > 0
  <2>1. \A p \in Existing : c[p] = 0
    BY <1>2, TaskFacts DEF Owing
  <2>2. priority \in [Tasks -> 0..PRIORITY_MAX]
    BY TaskFacts DEF SchedulerTypeOK
  <2>3. \A p \in Tasks : p \notin Existing => priority[p] = 0
    BY <2>2 DEF Enrolled
  <2>4. ASSUME NEW p \in Existing
        PROVE  (c[p] \div 2) + priority[p] = priority[p]
    <3>1. c[p] = 0 /\ priority[p] \in Nat
      BY <2>1, <2>2, TaskFacts
    <3> QED BY <3>1
  <2>5. Recharged(c) = priority
    BY <2>2, <2>3, <2>4, TaskFacts DEF Recharged, Owing
  <2>6. Refilled(c) = priority
    BY <1>2, <2>5 DEF Refilled
  <2>7. Owing(priority)
    BY <2>2, <2>3, TaskFacts DEF Owing
  <2>8. priority[1] > 0
    BY TaskFacts DEF Enrolled
  <2> QED BY <1>2, <2>6, <2>7, <2>8, TaskFacts
<1> QED BY <1>1, <1>2

\* schedule leaves a runner with ticks, and is a Pass of the rounds.
LEMMA SchedulePasses ==
  ASSUME SchedulerTypeOK, Enrolled, NEW c, Owing(c), Schedule(c)
  PROVE  /\ Owing(counter')
         /\ current' \in Existing
         /\ counter'[current'] > 0
         /\ Rounds!Pass(c)
<1>1. counter' = Refilled(c) /\ current' = Best(counter')
  BY DEF Schedule
<1>2. Owing(counter') /\ \E p \in Existing : counter'[p] > 0
  BY <1>1, RefilledOwes
<1>3. \A p \in Existing : counter'[p] \in 0..PRIORITY_MAX
  BY <1>2, TaskFacts DEF Owing
<1>4. current' \in Existing /\ \A q \in Existing : counter'[q] <= counter'[current']
  BY <1>1, <1>3, BestIsLargest DEF SchedulerTypeOK
<1>5. counter'[current'] > 0
  <2>1. PICK p \in Existing : counter'[p] > 0
    BY <1>2
  <2> QED BY <1>3, <1>4, <2>1, TaskFacts
<1>6. Rounds!Pass(c)
  <2>1. CASE \E p \in Existing : c[p] > 0
    <3>1. counter' = c
      BY <1>1, <2>1, RefilledOwes
    <3> QED BY <1>4, <1>5, <2>1, <3>1, TaskFacts DEF Rounds!Pass
  <2>2. CASE ~ \E p \in Existing : c[p] > 0
    <3>1. counter' = priority
      BY <1>1, <2>2, RefilledOwes
    <3>2. ~ \E p \in Tasks : c[p] > 0
      BY <2>2, TaskFacts DEF Owing
    <3> QED BY <1>4, <1>5, <3>1, <3>2, TaskFacts DEF Rounds!Pass
  <2> QED BY <2>1, <2>2
<1> QED BY <1>2, <1>4, <1>5, <1>6

LEMMA InitSInv == SchedulerInit => SInv
<1> SUFFICES ASSUME SchedulerInit PROVE SInv
  OBVIOUS
<1>1. PICK n \in Priorities : priority = [p \in Tasks |-> IF p = 1 THEN n ELSE 0]
  BY DEF SchedulerInit
<1>2. SchedulerTypeOK
  <2>1. 1 \in Tasks /\ 0 \in 0..PRIORITY_MAX
    BY SchedulerAssumption DEF Tasks
  <2>2. counter \in [Tasks -> 0..PRIORITY_MAX]
    BY <2>1 DEF SchedulerInit
  <2>3. priority \in [Tasks -> {0} \cup Priorities]
    BY <1>1
  <2> QED BY <2>1, <2>2, <2>3 DEF SchedulerInit, SchedulerTypeOK
<1>3. RunnerHasTicks /\ BootHasNoTicks
  BY DEF SchedulerInit, RunnerHasTicks, BootHasNoTicks
<1>4. Existing = {1} /\ priority[1] = n /\ n > 0
  BY <1>1, <1>2, TaskFacts DEF SchedulerInit, Existing
<1>5. NoTicksSaved
  BY <1>2, <1>4, TaskFacts DEF SchedulerInit, NoTicksSaved
<1>6. Enrolled
  BY <1>1, <1>2, <1>4, TaskFacts DEF SchedulerInit, Enrolled
<1> QED BY <1>2, <1>3, <1>5, <1>6 DEF SInv

\* The counters after one tick of the running task.
LEMMA TickOwes ==
  ASSUME SInv, current # 0
  PROVE  /\ Owing(counter)
         /\ Owing([counter EXCEPT ![current] = @ - 1])
         /\ current \in Existing /\ counter[current] \in Nat \ {0}
<1>1. SchedulerTypeOK /\ current \in Existing /\ current \in Tasks
  BY TaskFacts DEF SInv, Enrolled
<1>2. counter \in [Tasks -> 0..PRIORITY_MAX] /\ priority \in [Tasks -> Nat]
  BY <1>1, TaskFacts DEF SchedulerTypeOK
<1>3. counter[current] \in Nat \ {0}
  BY <1>1, <1>2, TaskFacts DEF SInv, RunnerHasTicks
<1>4. Owing(counter)
  BY <1>2 DEF SInv, Owing, NoTicksSaved, Enrolled
<1> DEFINE left == [counter EXCEPT ![current] = @ - 1]
<1>5. left \in [Tasks -> 0..PRIORITY_MAX]
  BY <1>1, <1>2, <1>3, TaskFacts
<1>6. \A p \in Tasks : left[p] <= counter[p]
  BY <1>1, <1>2, <1>3, TaskFacts
<1>7. \A p \in Existing : left[p] <= priority[p]
  BY <1>1, <1>2, <1>4, <1>5, <1>6, TaskFacts DEF Owing
<1>8. \A p \in Tasks : p \notin Existing => left[p] = 0
  BY <1>1, <1>2, <1>4 DEF Owing
<1> QED BY <1>1, <1>3, <1>4, <1>5, <1>7, <1>8 DEF Owing

-----------------------------------------------------------------------------
(* The steps                                                               *)

\* After schedule the invariant holds again.
LEMMA ScheduleSInv ==
  ASSUME SInv, NEW c, Owing(c), Schedule(c), SchedulerTypeOK',
         UNCHANGED <<task_num, priority>>
  PROVE  SInv'
<1>1. SchedulerTypeOK /\ Enrolled
  BY DEF SInv
<1>2. Owing(counter') /\ current' \in Existing /\ counter'[current'] > 0
  BY <1>1, SchedulePasses
<1>3. Existing' = Existing
  BY DEF Existing
<1>4. NoTicksSaved'
  BY <1>2, <1>3 DEF Owing, NoTicksSaved
<1>5. RunnerHasTicks'
  BY <1>2 DEF RunnerHasTicks
<1>6. Enrolled'
  BY <1>1, <1>2, <1>3 DEF Owing, Enrolled
<1>7. BootHasNoTicks'
  BY <1>1, <1>2, TaskFacts DEF BootHasNoTicks
<1> QED BY <1>4, <1>5, <1>6, <1>7 DEF SInv

\* A step that leaves the counters, the runner and the tasks alone.
LEMMA SameSInv ==
  ASSUME SInv, SchedulerTypeOK', UNCHANGED <<task_num, current, counter, priority>>
  PROVE  SInv'
  BY DEF SInv, RunnerHasTicks, NoTicksSaved, Enrolled, BootHasNoTicks, Existing

\* schedule hands out a task and counters of the right types.
LEMMA ScheduleTypes ==
  ASSUME SInv, NEW c, Owing(c), Schedule(c), UNCHANGED <<task_num, priority>>,
         pending' \in BOOLEAN, spinning' \in BOOLEAN
  PROVE  SchedulerTypeOK'
<1>1. SchedulerTypeOK /\ Enrolled
  BY DEF SInv
<1>2. counter' \in [Tasks -> 0..PRIORITY_MAX] /\ current' \in Tasks
  BY <1>1, SchedulePasses, TaskFacts DEF Owing
<1> QED BY <1>1, <1>2 DEF SchedulerTypeOK

LEMMA StartKernelSInv == SInv /\ StartKernel => SInv'
<1> SUFFICES ASSUME SInv, StartKernel PROVE SInv'
  OBVIOUS
<1>1. SchedulerTypeOK /\ Schedule(counter)
  BY DEF SInv, StartKernel
<1>2. Owing(counter)
  BY <1>1 DEF SInv, Owing, SchedulerTypeOK, NoTicksSaved, Enrolled
<1>3. SchedulerTypeOK'
  BY <1>1, <1>2, ScheduleTypes DEF StartKernel, SchedulerTypeOK
<1> QED BY <1>1, <1>2, <1>3, ScheduleSInv DEF StartKernel

LEMMA DoTimerSInv == SInv /\ DoTimer => SInv'
<1> SUFFICES ASSUME SInv, DoTimer PROVE SInv'
  OBVIOUS
<1> DEFINE left == [counter EXCEPT ![current] = @ - 1]
<1>1. SchedulerTypeOK /\ current # 0
  BY DEF SInv, DoTimer, InUserMode
<1>2. /\ Owing(left)
      /\ current \in Existing /\ counter[current] \in Nat \ {0}
  BY <1>1, TickOwes
<1>3. /\ UNCHANGED <<task_num, priority>>
      /\ pending' \in BOOLEAN /\ spinning' \in BOOLEAN
  BY <1>1 DEF DoTimer, SchedulerTypeOK
<1>4. CASE left[current] = 0
  <2>1. Schedule(left)
    BY <1>2, <1>4 DEF DoTimer
  <2>2. SchedulerTypeOK'
    BY <1>2, <1>3, <2>1, ScheduleTypes
  <2> QED BY <1>2, <1>3, <2>1, <2>2, ScheduleSInv
<1>5. CASE left[current] # 0
  <2>1. counter' = left /\ current' = current
    BY <1>2, <1>5 DEF DoTimer
  <2>2. Owing(counter') /\ Existing' = Existing
    BY <1>2, <1>3, <2>1 DEF Existing
  <2>3. SchedulerTypeOK'
    BY <1>1, <1>3, <2>1, <2>2 DEF SchedulerTypeOK, Owing
  <2>4. counter'[current] > 0
    BY <1>1, <1>5, <2>1, <2>2, <1>2, TaskFacts DEF Owing
  <2>5. RunnerHasTicks' /\ BootHasNoTicks'
    BY <1>1, <2>1, <2>4 DEF RunnerHasTicks, BootHasNoTicks
  <2>6. NoTicksSaved'
    BY <1>3, <2>2 DEF NoTicksSaved, Owing
  <2>7. Enrolled'
    BY <1>3, <2>1, <2>2 DEF SInv, Enrolled, Owing
  <2> QED BY <2>3, <2>5, <2>6, <2>7 DEF SInv
<1> QED BY <1>4, <1>5

LEMMA DoForkSInv == SInv /\ DoFork => SInv'
<1> SUFFICES ASSUME SInv, DoFork PROVE SInv'
  OBVIOUS
<1> DEFINE new == task_num + 1
<1>1. SchedulerTypeOK /\ current # 0 /\ current \in Existing
  BY DEF SInv, DoFork, InUserMode, Enrolled
<1>2. /\ new \in Tasks /\ new \notin Existing
      /\ Existing' = Existing \cup {new} /\ task_num' \in Tasks
  BY <1>1, TaskFacts DEF DoFork, Tasks, Existing
<1>3. PICK n \in Priorities : priority' = [priority EXCEPT ![new] = n]
  BY DEF DoFork
<1>4. n \in Nat \ {0} /\ n <= PRIORITY_MAX
  BY <1>1, TaskFacts
<1>5. counter' = [counter EXCEPT ![new] = 0] /\ current' = current
  BY DEF DoFork
<1>6. /\ counter \in [Tasks -> 0..PRIORITY_MAX]
      /\ priority \in [Tasks -> {0} \cup Priorities]
      /\ 0 \in 0..PRIORITY_MAX
  BY <1>1, TaskFacts DEF SchedulerTypeOK
<1>7. SchedulerTypeOK'
  <2>1. counter' \in [Tasks -> 0..PRIORITY_MAX]
    BY <1>5, <1>6
  <2>2. priority' \in [Tasks -> {0} \cup Priorities]
    BY <1>3, <1>6
  <2> QED BY <1>1, <1>2, <1>5, <2>1, <2>2 DEF SchedulerTypeOK, DoFork
<1>8. /\ \A p \in Tasks : p # new => counter'[p] = counter[p] /\ priority'[p] = priority[p]
      /\ counter'[new] = 0 /\ priority'[new] = n
  BY <1>2, <1>3, <1>5, <1>6
<1>9. RunnerHasTicks' /\ BootHasNoTicks'
  BY <1>1, <1>2, <1>5, <1>8, TaskFacts DEF SInv, RunnerHasTicks, BootHasNoTicks
<1>10. NoTicksSaved'
  BY <1>1, <1>2, <1>4, <1>8, TaskFacts DEF SInv, NoTicksSaved
<1>11. Enrolled'
  BY <1>1, <1>2, <1>4, <1>5, <1>8, TaskFacts DEF SInv, Enrolled
<1> QED BY <1>7, <1>9, <1>10, <1>11 DEF SInv

LEMMA NextSInv == SInv /\ [SchedulerNext]_schedulerVars => SInv'
<1> SUFFICES ASSUME SInv, [SchedulerNext]_schedulerVars PROVE SInv'
  OBVIOUS
<1>1. CASE StartKernel
  BY <1>1, StartKernelSInv
<1>2. CASE TimerFires
  <2>1. SchedulerTypeOK'
    BY <1>2 DEF SInv, SchedulerTypeOK, TimerFires
  <2> QED BY <1>2, <2>1, SameSInv DEF TimerFires
<1>3. CASE DoTimer
  BY <1>3, DoTimerSInv
<1>4. CASE DoFork
  BY <1>4, DoForkSInv
<1>5. CASE ReadConsole
  <2>1. SchedulerTypeOK'
    BY <1>5 DEF SInv, SchedulerTypeOK, ReadConsole
  <2> QED BY <1>5, <2>1, SameSInv DEF ReadConsole
<1>6. CASE Input
  <2>1. SchedulerTypeOK'
    BY <1>6 DEF SInv, SchedulerTypeOK, Input
  <2> QED BY <1>6, <2>1, SameSInv DEF Input
<1>7. CASE UNCHANGED schedulerVars
  <2>1. SchedulerTypeOK'
    BY <1>7 DEF SInv, SchedulerTypeOK, schedulerVars
  <2> QED BY <1>7, <2>1, SameSInv DEF schedulerVars
<1> QED BY <1>1, <1>2, <1>3, <1>4, <1>5, <1>6, <1>7 DEF SchedulerNext

LEMMA SpecSInv == SchedulerSpec => []SInv
  BY InitSInv, NextSInv, PTL DEF SchedulerSpec

-----------------------------------------------------------------------------
(* The theorems                                                            *)

\* The variables of the scheduler keep their types: no counter passes
\* PRIORITY_MAX, and current is idle or a task of the table.
THEOREM TypeCorrect == SchedulerSpec => []SchedulerTypeOK
<1>1. SInv => SchedulerTypeOK
  BY DEF SInv
<1> QED BY <1>1, SpecSInv, PTL

\* User code never runs on a thread without ticks, so that do_timer never
\* meets a counter of zero.  Code: schedule and do_timer.
THEOREM RunnerTicks == SchedulerSpec => []RunnerHasTicks
<1>1. SInv => RunnerHasTicks
  BY DEF SInv
<1> QED BY <1>1, SpecSInv, PTL

\* No task ever holds more ticks than its priority, whatever is forked
\* between two recharges.  Code: the recharge loop of schedule.
THEOREM NoneSaved == SchedulerSpec => []NoTicksSaved
<1>1. SInv => NoTicksSaved
  BY DEF SInv
<1> QED BY <1>1, SpecSInv, PTL

\* The scheduler starts where the rounds start.
LEMMA InitRounds == SchedulerInit => Rounds!Init
<1> SUFFICES ASSUME SchedulerInit PROVE Rounds!Init
  OBVIOUS
<1>1. 1 \in Tasks
  BY SchedulerAssumption DEF Tasks
<1>2. PICK n \in Priorities : priority = [p \in Tasks |-> IF p = 1 THEN n ELSE 0]
  BY DEF SchedulerInit
<1> QED BY <1>1, <1>2 DEF SchedulerInit, Rounds!Init

\* Each step of the scheduler begins or goes on with a round, joins a task to
\* the next one, or is not seen by them.
LEMMA NextRounds == SInv /\ [SchedulerNext]_schedulerVars => [Rounds!Next]_(Rounds!vars)
<1> SUFFICES ASSUME SInv, [SchedulerNext]_schedulerVars PROVE [Rounds!Next]_(Rounds!vars)
  OBVIOUS
<1>1. SchedulerTypeOK /\ Enrolled
  BY DEF SInv
<1>2. CASE StartKernel
  <2>1. Schedule(counter) /\ current = 0 /\ UNCHANGED priority
    BY <1>2 DEF StartKernel
  <2>2. Owing(counter)
    BY <1>1 DEF SInv, Owing, SchedulerTypeOK, NoTicksSaved, Enrolled
  <2>3. Rounds!Pass(counter)
    BY <1>1, <2>1, <2>2, SchedulePasses
  <2>4. Rounds!Begin
    BY <2>1, <2>3 DEF Rounds!Begin
  <2> QED BY <2>4 DEF Rounds!Next
<1>3. CASE DoTimer
  <2> DEFINE left == [counter EXCEPT ![current] = @ - 1]
  <2>1. current # 0 /\ UNCHANGED priority
    BY <1>3 DEF DoTimer, InUserMode
  <2>2. Owing(left) /\ counter[current] \in Nat \ {0} /\ current \in Existing
    BY <2>1, TickOwes
  <2>3. left[current] \in Nat
    BY <1>1, <2>2, TaskFacts DEF SchedulerTypeOK
  <2>4. IF left[current] > 0 THEN counter' = left /\ UNCHANGED current
        ELSE Rounds!Pass(left)
    <3>1. CASE left[current] = 0
      <4>1. Schedule(left)
        BY <1>3, <2>2, <3>1 DEF DoTimer
      <4>2. Rounds!Pass(left)
        BY <1>1, <2>2, <4>1, SchedulePasses
      <4> QED BY <3>1, <4>2
    <3>2. CASE left[current] # 0
      BY <1>3, <2>2, <2>3, <3>2 DEF DoTimer
    <3> QED BY <3>1, <3>2
  <2>5. Rounds!Tick
    BY <2>1, <2>2, <2>4 DEF Rounds!Tick
  <2> QED BY <2>5 DEF Rounds!Next
<1>4. CASE DoFork
  <2> DEFINE new == task_num + 1
  <2>1. new \in Tasks /\ new \notin Existing /\ current # 0
    BY <1>1, <1>4, TaskFacts DEF DoFork, InUserMode, Tasks, Existing
  <2>2. priority[new] = 0 /\ counter[new] = 0
    BY <1>1, <2>1, TaskFacts DEF Enrolled, SchedulerTypeOK
  <2>3. UNCHANGED <<counter, current>>
    <3>1. [counter EXCEPT ![new] = 0] = counter
      BY <1>1, <2>1, <2>2 DEF SchedulerTypeOK
    <3> QED BY <1>4, <3>1 DEF DoFork
  <2>4. Rounds!Join
    BY <1>4, <2>1, <2>2, <2>3 DEF DoFork, Rounds!Join
  <2> QED BY <2>4 DEF Rounds!Next
<1>5. CASE TimerFires \/ ReadConsole \/ Input \/ UNCHANGED schedulerVars
  BY <1>5 DEF TimerFires, ReadConsole, Input, schedulerVars, Rounds!vars
<1> QED BY <1>2, <1>3, <1>4, <1>5 DEF SchedulerNext

\* schedule and do_timer serve the tasks in rounds, each for as many ticks as
\* its priority, whatever is forked in between: the safety part of
\* RefinesWeightedRounds.
THEOREM ServesRounds == SchedulerSpec => Rounds!Init /\ [][Rounds!Next]_(Rounds!vars)
  BY InitRounds, NextRounds, SpecSInv, PTL DEF SchedulerSpec
=============================================================================
