------------------------- MODULE UserLibrary_proofs -------------------------
(***************************************************************************)
(* Proofs about what a program is made of: printf, scanf and malloc.       *)
(* printf never stores outside the string it was given and counts what it  *)
(* writes; scanf reads its input as its format describes; malloc keeps its *)
(* heap whole.  The constants are any that satisfy the assumptions of      *)
(* Printf, Scanf and Malloc.                                               *)
(***************************************************************************)
EXTENDS UserLibrary, WellFoundedInduction, SequenceTheorems, TLAPS

-----------------------------------------------------------------------------
(* Numbers and recursion                                                   *)

\* The order of the numbers.
LessThan == {ss \in Nat \X Nat : ss[1] < ss[2]}

\* A set of numbers that is not empty has a least one.
LEMMA LeastNumber ==
  ASSUME NEW T \in SUBSET Nat, T # {}
  PROVE  \E x \in T : \A y \in T : x <= y
<1>1. IsWellFoundedOn(LessThan, Nat)
  BY NatLessThanWellFounded DEF OpToRel, LessThan
<1>2. PICK x \in T : \A y \in T : ~(<<y, x>> \in LessThan)
  BY <1>1, WFMin
<1>3. ASSUME NEW y \in T PROVE x <= y
  <2>1. x \in Nat /\ y \in Nat /\ ~(<<y, x>> \in LessThan)
    BY <1>2
  <2> QED BY <2>1 DEF LessThan
<1> QED BY <1>3

\* Induction, for a set of numbers.
LEMMA AllNumbers ==
  ASSUME NEW T, 0 \in T, \A n \in Nat : n \in T => n + 1 \in T
  PROVE  Nat \subseteq T
<1>1. SUFFICES ASSUME Nat \ T # {} PROVE FALSE
  OBVIOUS
<1>2. PICK x \in Nat \ T : \A y \in Nat \ T : x <= y
  BY <1>1, LeastNumber
<1>3. x # 0 /\ x - 1 \in Nat /\ x - 1 \in T
  BY <1>2
<1>4. x \in T
  BY <1>3
<1> QED BY <1>2, <1>4

\* A recursive definition over J that takes the value at j from that at prev[j].
Recursion(J, V, N, rank, prev, base, step) ==
  /\ N \in Nat /\ rank \in [J -> 0 .. N] /\ base \in V /\ step \in [V \X J -> V]
  /\ \A j \in J : rank[j] > 0 => prev[j] \in J /\ rank[prev[j]] < rank[j]

\* Then there is a function that meets it.
LEMMA RecursionExists ==
  ASSUME NEW J, NEW V, NEW N, NEW rank, NEW prev, NEW base, NEW step,
         Recursion(J, V, N, rank, prev, base, step)
  PROVE  \E f \in [J -> V] :
           \A j \in J : f[j] = IF rank[j] = 0 THEN base ELSE step[<<f[prev[j]], j>>]
<1> DEFINE Meets(f, n) == \A j \in J : rank[j] < n =>
                            f[j] = IF rank[j] = 0 THEN base ELSE step[<<f[prev[j]], j>>]
           T == {n \in Nat : \E f \in [J -> V] : Meets(f, n)}
<1>0. /\ N \in Nat /\ rank \in [J -> 0 .. N] /\ base \in V /\ step \in [V \X J -> V]
      /\ \A j \in J : rank[j] \in 0 .. N
      /\ \A j \in J : rank[j] > 0 => prev[j] \in J /\ rank[prev[j]] < rank[j]
  BY DEF Recursion
<1>1. 0 \in T
  <2>1. [j \in J |-> base] \in [J -> V]
    BY <1>0
  <2>2. \A j \in J : ~(rank[j] < 0)
    BY <1>0
  <2> QED BY <2>1, <2>2
<1>2. ASSUME NEW n \in Nat, n \in T PROVE n + 1 \in T
  <2>1. PICK f \in [J -> V] : Meets(f, n)
    BY <1>2
  <2> DEFINE g == [j \in J |-> IF rank[j] # n THEN f[j]
                               ELSE IF n = 0 THEN base ELSE step[<<f[prev[j]], j>>]]
  <2>2. g \in [J -> V]
    <3>1. ASSUME NEW j \in J, rank[j] = n, n # 0 PROVE step[<<f[prev[j]], j>>] \in V
      BY <1>0, <3>1
    <3> QED BY <1>0, <3>1
  <2>3. ASSUME NEW j \in J, rank[j] < n + 1
        PROVE  g[j] = IF rank[j] = 0 THEN base ELSE step[<<g[prev[j]], j>>]
    <3>1. rank[j] # 0 => prev[j] \in J /\ rank[prev[j]] # n
      BY <1>0, <2>3
    <3>2. rank[j] # 0 => g[prev[j]] = f[prev[j]]
      BY <3>1
    <3>3. CASE rank[j] = n
      BY <3>2, <3>3
    <3>4. CASE rank[j] # n
      <4>1. rank[j] < n /\ g[j] = f[j]
        BY <1>0, <2>3, <3>4
      <4> QED BY <2>1, <3>2, <4>1
    <3> QED BY <3>3, <3>4
  <2> HIDE DEF g
  <2>4. Meets(g, n + 1)
    BY <2>3
  <2> QED BY <2>2, <2>4
<1> HIDE DEF T
<1>3. N + 1 \in T
  BY <1>0, <1>1, <1>2, AllNumbers
<1>4. PICK f \in [J -> V] : Meets(f, N + 1)
  BY <1>3 DEF T
<1>5. \A j \in J : rank[j] < N + 1
  BY <1>0
<1> QED BY <1>4, <1>5

\* The greatest of some numbers up to N.
LEMMA Greatest ==
  ASSUME NEW N \in Nat, NEW s \in SUBSET (1 .. N), s # {}
  PROVE  P!Max(s) \in s /\ \A x \in s : x <= P!Max(s)
<1> DEFINE T == {y \in Nat : \E x \in s : y = N - x}
<1>1. T \in SUBSET Nat /\ T # {}
  <2>1. \A x \in s : x \in 1 .. N /\ N - x \in Nat
    OBVIOUS
  <2> QED BY <2>1
<1>2. PICK y \in T : \A z \in T : y <= z
  BY <1>1, LeastNumber
<1>3. PICK x \in s : y = N - x
  BY <1>2
<1>4. \A z \in s : x >= z
  <2> TAKE z \in s
  <2>1. N - z \in T /\ z \in Nat /\ x \in Nat
    OBVIOUS
  <2> QED BY <1>2, <1>3, <2>1
<1>5. \E m \in s : \A z \in s : m >= z
  BY <1>4
<1>6. P!Max(s) \in s /\ \A z \in s : P!Max(s) >= z
  BY <1>5 DEF P!Max
<1> QED BY <1>6

\* The greatest of the numbers up to n, and those before it.
LEMMA Prefixes ==
  ASSUME NEW N \in Nat, NEW n \in 1 .. N
  PROVE  /\ 1 .. n \in SUBSET (1 .. N) /\ 1 .. n # {}
         /\ P!Max(1 .. n) = n /\ (1 .. n) \ {n} = 1 .. n - 1
<1>1. 1 .. n \in SUBSET (1 .. N) /\ 1 .. n # {} /\ n \in 1 .. n
  OBVIOUS
<1>2. P!Max(1 .. n) \in 1 .. n /\ n <= P!Max(1 .. n)
  BY <1>1, Greatest
<1>3. (1 .. n) \ {n} = 1 .. n - 1
  OBVIOUS
<1> QED BY <1>1, <1>2, <1>3

\* The function that a fold of a sequence of N elements takes its value from.
Folds(h, V, N, base, step) ==
  /\ h \in [SUBSET (1 .. N) -> V]
  /\ \A s \in SUBSET (1 .. N) :
       h[s] = IF s = {} THEN base ELSE step[<<h[s \ {P!Max(s)}], P!Max(s)>>]

\* A fold along a path of N numbers has a value at every subset of them.
LEMMA FoldExists ==
  ASSUME NEW V, NEW N \in Nat, NEW base \in V, NEW step \in [V \X (1 .. N) -> V]
  PROVE  \E h : Folds(h, V, N, base, step)
<1> DEFINE J == SUBSET (1 .. N)
           rank == [s \in J |-> IF s = {} THEN 0 ELSE P!Max(s)]
           prev == [s \in J |-> s \ {P!Max(s)}]
           next == [x \in V \X J |-> IF x[2] = {} THEN base ELSE step[<<x[1], P!Max(x[2])>>]]
<1>1. \A s \in J : s # {} => /\ P!Max(s) \in s /\ P!Max(s) \in 1 .. N
                             /\ \A x \in s : x \in Nat /\ x <= P!Max(s)
  <2> SUFFICES ASSUME NEW s \in SUBSET (1 .. N), s # {}
               PROVE  /\ P!Max(s) \in s /\ P!Max(s) \in 1 .. N
                      /\ \A x \in s : x \in Nat /\ x <= P!Max(s)
    OBVIOUS
  <2>1. P!Max(s) \in s /\ \A x \in s : x <= P!Max(s)
    BY Greatest
  <2>2. \A x \in s : x \in 1 .. N
    OBVIOUS
  <2>3. \A x \in 1 .. N : x \in Nat
    OBVIOUS
  <2> HIDE DEF J
  <2> QED BY <2>1, <2>2, <2>3
<1>2. rank \in [J -> 0 .. N] /\ \A s \in J : rank[s] = 0 <=> s = {}
  BY <1>1
<1>3. next \in [V \X J -> V]
  BY <1>1
<1>4. ASSUME NEW s \in J, rank[s] > 0 PROVE prev[s] \in J /\ rank[prev[s]] < rank[s]
  <2>1. s # {} /\ rank[s] = P!Max(s) /\ prev[s] = s \ {P!Max(s)}
    BY <1>4
  <2>2. prev[s] \in J
    BY <2>1
  <2>3. CASE prev[s] = {}
    BY <1>4, <2>3
  <2>4. CASE prev[s] # {}
    <3>1. P!Max(prev[s]) \in prev[s]
      BY <1>1, <2>2, <2>4
    <3>2. P!Max(prev[s]) \in s /\ P!Max(prev[s]) # P!Max(s)
      BY <2>1, <3>1
    <3>3. P!Max(prev[s]) \in Nat /\ P!Max(s) \in Nat /\ P!Max(prev[s]) <= P!Max(s)
      BY <1>1, <2>1, <3>2
    <3> QED BY <2>1, <2>2, <2>4, <3>2, <3>3
  <2> QED BY <2>2, <2>3, <2>4
<1>5. Recursion(J, V, N, rank, prev, base, next)
  BY <1>2, <1>3, <1>4 DEF Recursion
<1>6. PICK h \in [J -> V] :
        \A s \in J : h[s] = IF rank[s] = 0 THEN base ELSE next[<<h[prev[s]], s>>]
  <2> HIDE DEF J, rank, prev, next
  <2> QED BY <1>5, RecursionExists
<1>7. ASSUME NEW s \in J PROVE h[s] = IF s = {} THEN base ELSE step[<<h[s \ {P!Max(s)}], P!Max(s)>>]
  <2>1. CASE s = {}
    BY <1>2, <1>6, <2>1
  <2>2. CASE s # {}
    <3>1. prev[s] \in J /\ rank[s] # 0 /\ h[prev[s]] \in V
      BY <1>2, <2>2
    <3>2. h[s] = next[<<h[prev[s]], s>>]
      BY <1>6, <3>1
    <3>3. next[<<h[prev[s]], s>>] = step[<<h[prev[s]], P!Max(s)>>]
      BY <2>2, <3>1
    <3> QED BY <2>2, <3>2, <3>3
  <2> QED BY <2>1, <2>2
<1> QED BY <1>6, <1>7 DEF Folds

-----------------------------------------------------------------------------
(* printf: its numbers                                                     *)

\* What the assumptions of Printf say of the widths of the integer types.
LEMMA PrintfConstants ==
  /\ CharBits \in Nat \ {0} /\ ShortBits \in Nat \ {0} /\ IntBits \in Nat \ {0}
  /\ LongBits \in Nat \ {0} /\ PadSize \in Nat \ {0} /\ PtrDigits \in Nat \ {0}
  /\ CharBits <= ShortBits /\ ShortBits <= IntBits /\ IntBits <= LongBits
BY LibraryAssumption DEF P!PrintfAssumption

\* The powers of two double, up to the widest type.
LEMMA PowerValues ==
  \A n \in 0 .. LongBits : P!Pow2[n] = IF n = 0 THEN 1 ELSE 2 * P!Pow2[n - 1]
<1> DEFINE J == 0 .. LongBits
           V == Nat
           base == 1
           rank == [n \in J |-> n]
           prev == [n \in J |-> n - 1]
           step == [x \in V \X J |-> 2 * x[1]]
           a == CHOOSE f : f = [n \in 0 .. LongBits |-> IF n = 0 THEN 1 ELSE 2 * f[n - 1]]
<1>1. Recursion(J, V, LongBits, rank, prev, base, step)
  BY PrintfConstants DEF Recursion
<1>2. PICK f \in [J -> V] :
        \A j \in J : f[j] = IF rank[j] = 0 THEN base ELSE step[<<f[prev[j]], j>>]
  <2> HIDE DEF J, V, rank, prev, base, step
  <2> QED BY <1>1, RecursionExists
<1>3. ASSUME NEW n \in J PROVE f[n] = IF n = 0 THEN 1 ELSE 2 * f[n - 1]
  <2>1. n # 0 => n - 1 \in J
    BY PrintfConstants
  <2>2. n # 0 => f[n - 1] \in V
    BY <2>1
  <2> QED BY <1>2, <2>1, <2>2
<1>4. f = [n \in 0 .. LongBits |-> IF n = 0 THEN 1 ELSE 2 * f[n - 1]]
  BY <1>3
<1>5. a = [n \in 0 .. LongBits |-> IF n = 0 THEN 1 ELSE 2 * a[n - 1]]
  <2> HIDE DEF J, V, rank, prev, base, step
  <2> QED BY <1>4
<1>6. P!Pow2 = a
  BY DEF P!Pow2
<1> HIDE DEF a
<1> QED BY <1>5, <1>6

\* A higher power of two is not smaller.
LEMMA Powers ==
  /\ P!Pow2[0] = 1
  /\ \A n \in 0 .. LongBits : P!Pow2[n] \in Nat /\ P!Pow2[n] >= 1
  /\ \A n \in 0 .. LongBits : \A m \in 0 .. n : P!Pow2[m] <= P!Pow2[n]
<1> DEFINE T == {n \in Nat : n <= LongBits => /\ P!Pow2[n] \in Nat /\ P!Pow2[n] >= 1
                                             /\ \A m \in 0 .. n : P!Pow2[m] \in Nat /\ P!Pow2[m] <= P!Pow2[n]}
<1>0. P!Pow2[0] = 1
  BY PrintfConstants, PowerValues
<1>1. 0 \in T
  BY <1>0
<1>2. ASSUME NEW n \in Nat, n \in T PROVE n + 1 \in T
  <2> SUFFICES ASSUME n + 1 <= LongBits
               PROVE  /\ P!Pow2[n + 1] \in Nat /\ P!Pow2[n + 1] >= 1
                      /\ \A m \in 0 .. n + 1 : P!Pow2[m] \in Nat /\ P!Pow2[m] <= P!Pow2[n + 1]
    OBVIOUS
  <2>1. n + 1 \in 0 .. LongBits /\ n <= LongBits /\ n + 1 # 0 /\ (n + 1) - 1 = n
    BY PrintfConstants
  <2>2. P!Pow2[n + 1] = 2 * P!Pow2[n]
    BY <2>1, PowerValues
  <2>3. /\ P!Pow2[n] \in Nat /\ P!Pow2[n] >= 1
        /\ \A m \in 0 .. n : P!Pow2[m] \in Nat /\ P!Pow2[m] <= P!Pow2[n]
    BY <1>2, <2>1
  <2>4. ASSUME NEW m \in 0 .. n + 1 PROVE P!Pow2[m] \in Nat /\ P!Pow2[m] <= P!Pow2[n + 1]
    <3>1. CASE m = n + 1
      BY <2>2, <2>3, <3>1
    <3>2. CASE m # n + 1
      <4>1. m \in 0 .. n
        BY <3>2
      <4>2. P!Pow2[m] <= P!Pow2[n] /\ P!Pow2[m] \in Nat
        BY <2>3, <4>1
      <4> QED BY <2>2, <2>3, <4>2
    <3> QED BY <3>1, <3>2
  <2> QED BY <2>2, <2>3, <2>4
<1> HIDE DEF T
<1>3. Nat \subseteq T
  BY <1>1, <1>2, AllNumbers
<1> QED BY <1>0, <1>3, PrintfConstants DEF T

\* The characters; the last two are those of a buffer.
Char ==
  STRING \cup {P!Lower[i] : i \in 1 .. 16} \cup {P!Upper[i] : i \in 1 .. 16}
    \cup {"-", "+", " ", "0", "x", "X", "(", "n", "u", "l", ")", "NUL", "old"}

\* A function on 1 .. n is a sequence of length n.
LEMMA FunctionIsSeq ==
  ASSUME NEW n \in Nat, NEW X, NEW f \in [1 .. n -> X]
  PROVE  f \in Seq(X) /\ Len(f) = n
<1>1. f \in UNION {[1 .. m -> X] : m \in Nat}
  OBVIOUS
<1>2. f \in Seq(X)
  BY <1>1, SeqDef
<1>3. DOMAIN f = 1 .. Len(f) /\ DOMAIN f = 1 .. n /\ Len(f) \in Nat
  BY <1>2, LenProperties
<1> QED BY <1>2, <1>3

\* What FlattenSeq makes of the first i sequences.
Flattens(ss, a) ==
  /\ a \in [0 .. Len(ss) -> Seq(Char)] /\ a[0] = <<>>
  /\ \A i \in 1 .. Len(ss) : a[i] = a[i - 1] \o ss[i]
  /\ P!FlattenSeq(ss) = a[Len(ss)]

\* The concatenation of the first i texts of a sequence has a value at every i.
LEMMA FlattenExists ==
  ASSUME NEW ss \in Seq(Seq(Char))
  PROVE  \E a : Flattens(ss, a)
<1> DEFINE V == Seq(Char)
           J == 1 .. Len(ss)
<1>0. Len(ss) \in Nat /\ \A i \in J : ss[i] \in V
  BY ElementOfSeq, LenProperties
<1>1. CASE Len(ss) = 0
  <2>1. P!FlattenSeq(ss) = <<>>
    BY <1>1, EmptySeq DEF P!FlattenSeq
  <2> DEFINE a == [i \in 0 .. 0 |-> <<>>]
  <2>2. Flattens(ss, a)
    BY <1>1, <2>1, EmptySeq DEF Flattens
  <2> QED BY <2>2
<1>2. CASE Len(ss) # 0
  <2> DEFINE base == ss[1]
             rank == [i \in J |-> i - 1]
             prev == [i \in J |-> i - 1]
             step == [x \in V \X J |-> x[1] \o ss[x[2]]]
             g == CHOOSE f : f = [i \in 1 .. Len(ss) |-> IF i = 1 THEN ss[i] ELSE f[i - 1] \o ss[i]]
  <2>1. Recursion(J, V, Len(ss), rank, prev, base, step)
    <3>1. base \in V
      BY <1>0, <1>2
    <3>2. step \in [V \X J -> V]
      <4>1. \A x \in V \X J : x[1] \o ss[x[2]] \in V
        BY <1>0, ConcatProperties
      <4> QED BY <4>1
    <3> HIDE DEF V, base, step
    <3> QED BY <1>0, <3>1, <3>2 DEF Recursion
  <2>2. PICK f \in [J -> V] :
          \A j \in J : f[j] = IF rank[j] = 0 THEN base ELSE step[<<f[prev[j]], j>>]
    <3> HIDE DEF J, V, rank, prev, base, step
    <3> QED BY <2>1, RecursionExists
  <2>3. ASSUME NEW i \in J PROVE f[i] = IF i = 1 THEN ss[i] ELSE f[i - 1] \o ss[i]
    <3>1. i # 1 => i - 1 \in J
      BY <1>0
    <3>2. i # 1 => <<f[i - 1], i>> \in V \X J
      BY <3>1
    <3>3. rank[i] = i - 1 /\ prev[i] = i - 1 /\ (rank[i] = 0 <=> i = 1)
      BY <1>0
    <3>4. f[i] = IF i = 1 THEN base ELSE step[<<f[i - 1], i>>]
      <4> HIDE DEF V, J, rank, prev, base, step
      <4> QED BY <2>2, <3>3
    <3>5. i # 1 => step[<<f[i - 1], i>>] = f[i - 1] \o ss[i]
      BY <3>2
    <3> QED BY <3>4, <3>5
  <2>4. f = [i \in 1 .. Len(ss) |-> IF i = 1 THEN ss[i] ELSE f[i - 1] \o ss[i]]
    BY <2>3
  <2>5. g = [i \in 1 .. Len(ss) |-> IF i = 1 THEN ss[i] ELSE g[i - 1] \o ss[i]]
    <3> HIDE DEF V, J, rank, prev, base, step
    <3> QED BY <2>4
  <2>6. P!FlattenSeq(ss) = g[Len(ss)]
    BY <1>2 DEF P!FlattenSeq
  <2> HIDE DEF g, rank, prev, base, step
  <2> DEFINE T == {i \in Nat : i + 1 \in J => g[i + 1] \in V}
  <2>7. 0 \in T
    BY <1>0, <2>5
  <2>8. ASSUME NEW i \in Nat, i \in T PROVE i + 1 \in T
    <3> SUFFICES ASSUME (i + 1) + 1 \in J PROVE g[(i + 1) + 1] \in V
      OBVIOUS
    <3>1. i + 1 \in J /\ (i + 1) + 1 # 1 /\ ((i + 1) + 1) - 1 = i + 1
      BY <1>0
    <3>2. g[(i + 1) + 1] = g[i + 1] \o ss[(i + 1) + 1]
      BY <2>5, <3>1
    <3>3. g[i + 1] \in V /\ ss[(i + 1) + 1] \in V
      BY <1>0, <2>8, <3>1
    <3> QED BY <3>2, <3>3, ConcatProperties
  <2>9. \A i \in J : g[i] \in V
    <3> HIDE DEF T
    <3>1. Nat \subseteq T
      BY <2>7, <2>8, AllNumbers
    <3>2. ASSUME NEW i \in J PROVE g[i] \in V
      <4>1. i - 1 \in Nat /\ (i - 1) + 1 = i
        BY <1>0
      <4>2. i - 1 \in T
        BY <3>1, <4>1
      <4> QED BY <4>1, <4>2 DEF T
    <3> QED BY <3>2
  <2> DEFINE a == [i \in 0 .. Len(ss) |-> IF i = 0 THEN <<>> ELSE g[i]]
  <2>10. a \in [0 .. Len(ss) -> V] /\ a[0] = <<>> /\ a[Len(ss)] = g[Len(ss)]
    <3>1. <<>> \in V
      BY EmptySeq
    <3>2. \A i \in 0 .. Len(ss) : i # 0 => i \in J
      BY <1>0
    <3>3. Len(ss) \in 0 .. Len(ss) /\ 0 \in 0 .. Len(ss)
      BY <1>0
    <3> HIDE DEF V, J, g
    <3> QED BY <1>2, <2>9, <3>1, <3>2, <3>3
  <2>11. ASSUME NEW i \in J PROVE a[i] = a[i - 1] \o ss[i]
    <3>1. CASE i = 1
      <4>1. a[i] = ss[i] /\ a[i - 1] = <<>> /\ ss[i] \in Seq(Char)
        BY <1>0, <2>5, <3>1
      <4> QED BY <4>1, ConcatEmptySeq
    <3>2. CASE i # 1
      <4>1. i - 1 \in J /\ a[i - 1] = g[i - 1] /\ a[i] = g[i]
        BY <1>0, <3>2
      <4> QED BY <2>5, <3>2, <4>1
    <3> QED BY <3>1, <3>2
  <2> HIDE DEF a
  <2>12. Flattens(ss, a)
    BY <2>6, <2>10, <2>11 DEF Flattens
  <2> QED BY <2>12
<1> QED BY <1>1, <1>2

\* What FlattenSeq makes of texts is a text.
LEMMA FlattenIsText ==
  ASSUME NEW ss \in Seq(Seq(Char))
  PROVE  P!FlattenSeq(ss) \in Seq(Char)
<1>1. PICK a : Flattens(ss, a)
  BY FlattenExists
<1>2. Len(ss) \in 0 .. Len(ss)
  BY LenProperties
<1> QED BY <1>1, <1>2 DEF Flattens

\* The characters of two lists of texts are those of the one and the other.
LEMMA FlattenLength ==
  ASSUME NEW ss \in Seq(Seq(Char)), NEW tt \in Seq(Seq(Char))
  PROVE  /\ ss \o tt \in Seq(Seq(Char))
         /\ Len(P!FlattenSeq(ss \o tt)) = Len(P!FlattenSeq(ss)) + Len(P!FlattenSeq(tt))
<1>1. PICK a : Flattens(ss, a)
  BY FlattenExists
<1>2. PICK b : Flattens(tt, b)
  BY FlattenExists
<1>3. /\ ss \o tt \in Seq(Seq(Char)) /\ Len(ss \o tt) = Len(ss) + Len(tt)
      /\ Len(ss) \in Nat /\ Len(tt) \in Nat
  BY ConcatProperties, LenProperties
<1>4. PICK ab : Flattens(ss \o tt, ab)
  BY <1>3, FlattenExists
<1>5. \A i \in 1 .. Len(ss) + Len(tt) : (ss \o tt)[i] = IF i <= Len(ss) THEN ss[i] ELSE tt[i - Len(ss)]
  BY ConcatProperties
<1>6. /\ ab \in [0 .. Len(ss) + Len(tt) -> Seq(Char)] /\ ab[0] = <<>>
      /\ \A i \in 1 .. Len(ss) + Len(tt) : ab[i] = ab[i - 1] \o (ss \o tt)[i]
      /\ P!FlattenSeq(ss \o tt) = ab[Len(ss) + Len(tt)]
  BY <1>3, <1>4 DEF Flattens
<1>7. /\ a \in [0 .. Len(ss) -> Seq(Char)] /\ a[0] = <<>>
      /\ \A i \in 1 .. Len(ss) : a[i] = a[i - 1] \o ss[i]
      /\ P!FlattenSeq(ss) = a[Len(ss)]
  BY <1>1 DEF Flattens
<1>8. /\ b \in [0 .. Len(tt) -> Seq(Char)] /\ b[0] = <<>>
      /\ \A i \in 1 .. Len(tt) : b[i] = b[i - 1] \o tt[i]
      /\ P!FlattenSeq(tt) = b[Len(tt)]
  BY <1>2 DEF Flattens
<1> DEFINE T == {i \in Nat : i <= Len(ss) => ab[i] = a[i]}
<1>9. 0 \in T
  BY <1>3, <1>6, <1>7
<1>10. ASSUME NEW i \in Nat, i \in T PROVE i + 1 \in T
  <2> SUFFICES ASSUME i + 1 <= Len(ss) PROVE ab[i + 1] = a[i + 1]
    OBVIOUS
  <2>1. ab[i] = a[i] /\ (i + 1) - 1 = i /\ i + 1 \in 1 .. Len(ss) /\ i + 1 \in 1 .. Len(ss) + Len(tt)
    BY <1>3, <1>10
  <2>2. (ss \o tt)[i + 1] = ss[i + 1]
    BY <1>5, <2>1
  <2> QED BY <1>6, <1>7, <2>1, <2>2
<1>11. ab[Len(ss)] = a[Len(ss)]
  <2> HIDE DEF T
  <2>1. Len(ss) \in T
    BY <1>3, <1>9, <1>10, AllNumbers
  <2> QED BY <1>3, <2>1 DEF T
<1> DEFINE n == Len(ss)
           m == Len(tt)
           z == [i \in 0 .. m |-> Len(ab[n + i])]
           y == [i \in 0 .. m |-> Len(b[i])]
           x == Len(a[n])
           U == {i \in Nat : i <= m => z[i] = x + y[i]}
<1>12. n \in Nat /\ m \in Nat /\ x \in Nat /\ y[0] = 0 /\ z[0] = x
  <2>1. Len(<<>>) = 0 /\ n + 0 = n /\ x \in Nat
    BY <1>3, <1>7, EmptySeq, LenProperties
  <2>2. 0 \in 0 .. m
    BY <1>3
  <2> QED BY <1>3, <1>8, <1>11, <2>1, <2>2
<1>13. ASSUME NEW i \in 0 .. m, i + 1 <= m
       PROVE  /\ Len(tt[i + 1]) \in Nat /\ y[i] \in Nat
              /\ z[i + 1] = z[i] + Len(tt[i + 1]) /\ y[i + 1] = y[i] + Len(tt[i + 1])
  <2>1. /\ n + (i + 1) \in 1 .. n + m /\ (n + (i + 1)) - 1 = n + i /\ (n + (i + 1)) - n = i + 1
        /\ i + 1 \in 1 .. m /\ (i + 1) - 1 = i /\ ~(n + (i + 1) <= n)
        /\ n + i \in 0 .. n + m /\ i + 1 \in 0 .. m
    BY <1>12, <1>13
  <2>2. ab[n + (i + 1)] = ab[n + i] \o tt[i + 1]
    BY <1>5, <1>6, <2>1
  <2>3. b[i + 1] = b[i] \o tt[i + 1]
    BY <1>8, <2>1
  <2>4. ab[n + i] \in Seq(Char) /\ b[i] \in Seq(Char) /\ tt[i + 1] \in Seq(Char)
    BY <1>6, <1>8, <2>1, ElementOfSeq
  <2>5. /\ Len(ab[n + (i + 1)]) = Len(ab[n + i]) + Len(tt[i + 1])
        /\ Len(b[i + 1]) = Len(b[i]) + Len(tt[i + 1])
    BY <2>2, <2>3, <2>4, ConcatProperties
  <2>6. Len(b[i]) \in Nat /\ Len(tt[i + 1]) \in Nat
    BY <2>4, LenProperties
  <2> HIDE DEF n, m, x
  <2> QED BY <2>1, <2>5, <2>6
<1>14. z[m] = x + y[m]
  <2> HIDE DEF n, m, x, y, z
  <2>1. 0 \in U
    BY <1>12
  <2>2. ASSUME NEW i \in Nat, i \in U PROVE i + 1 \in U
    <3> SUFFICES ASSUME i + 1 <= m PROVE z[i + 1] = x + y[i + 1]
      OBVIOUS
    <3>1. i \in 0 .. m /\ z[i] = x + y[i]
      BY <1>12, <2>2
    <3>2. /\ Len(tt[i + 1]) \in Nat /\ y[i] \in Nat
          /\ z[i + 1] = z[i] + Len(tt[i + 1]) /\ y[i + 1] = y[i] + Len(tt[i + 1])
      BY <1>13, <3>1
    <3>3. \A u, v, w \in Nat : (u + v) + w = u + (v + w)
      OBVIOUS
    <3> QED BY <1>12, <3>1, <3>2, <3>3
  <2> HIDE DEF U
  <2>3. m \in U
    BY <1>12, <2>1, <2>2, AllNumbers
  <2> QED BY <1>12, <2>3 DEF U
<1>15. m \in 0 .. m
  BY <1>12
<1>16. Len(ab[n + m]) = Len(a[n]) + Len(b[m])
  <2> HIDE DEF n, m
  <2> QED BY <1>14, <1>15
<1> QED BY <1>3, <1>6, <1>7, <1>8, <1>16

\* The greater and the lesser of two numbers.
LEMMA OfTwo ==
  ASSUME NEW i \in Int, NEW j \in Int
  PROVE  /\ P!Max({i, j}) = IF i >= j THEN i ELSE j
         /\ P!Min({i, j}) = IF i <= j THEN i ELSE j
<1>1. CASE i >= j
  <2>1. \E x \in {i, j} : \A y \in {i, j} : x >= y
    BY <1>1
  <2>2. P!Max({i, j}) \in {i, j} /\ \A y \in {i, j} : P!Max({i, j}) >= y
    BY <2>1 DEF P!Max
  <2>3. \E x \in {i, j} : \A y \in {i, j} : x <= y
    BY <1>1
  <2>4. P!Min({i, j}) \in {i, j} /\ \A y \in {i, j} : P!Min({i, j}) <= y
    BY <2>3 DEF P!Min
  <2> QED BY <1>1, <2>2, <2>4
<1>2. CASE ~(i >= j)
  <2>1. \E x \in {i, j} : \A y \in {i, j} : x >= y
    BY <1>2
  <2>2. P!Max({i, j}) \in {i, j} /\ \A y \in {i, j} : P!Max({i, j}) >= y
    BY <2>1 DEF P!Max
  <2>3. \E x \in {i, j} : \A y \in {i, j} : x <= y
    BY <1>2
  <2>4. P!Min({i, j}) \in {i, j} /\ \A y \in {i, j} : P!Min({i, j}) <= y
    BY <2>3 DEF P!Min
  <2> QED BY <1>2, <2>2, <2>4
<1> QED BY <1>1, <1>2

\* Division with remainder.
LEMMA Division ==
  \A x \in Nat, d \in Nat \ {0} : /\ x \div d \in Nat /\ x % d \in 0 .. d - 1
                                  /\ x = d * (x \div d) + (x % d)
BY SMTT(30)

\* pad writes as many characters as the width is wider.
LEMMA PadLength ==
  ASSUME NEW ch \in Char, NEW w \in Nat, NEW n \in Nat, NEW fl
  PROVE  /\ P!Pad(ch, w, n, fl) \in Seq(Seq(Char))
         /\ Len(P!FlattenSeq(P!Pad(ch, w, n, fl))) =
              IF fl \cap {"-", "0"} # {} \/ n >= w THEN 0 ELSE w - n
<1>1. CASE fl \cap {"-", "0"} # {} \/ n >= w
  <2>1. P!Pad(ch, w, n, fl) = <<>> /\ P!FlattenSeq(<<>>) = <<>>
    BY <1>1, EmptySeq DEF P!Pad, P!FlattenSeq
  <2> QED BY <1>1, <2>1, EmptySeq
<1>2. CASE ~(fl \cap {"-", "0"} # {} \/ n >= w)
  <2> DEFINE k == w - n
             q == k \div PadSize
             r == k % PadSize
             chunk == [i \in 1 .. q + 1 |-> [j \in 1 .. (IF i <= q THEN PadSize ELSE r) |-> ch]]
  <2>1. k \in Nat /\ PadSize \in Nat \ {0}
    BY <1>2, PrintfConstants
  <2>2. q \in Nat /\ r \in Nat /\ k = PadSize * q + r
    <3> HIDE DEF k
    <3> QED BY <2>1, Division
  <2>3. P!Pad(ch, w, n, fl) = chunk
    BY <1>2 DEF P!Pad
  <2> HIDE DEF k, q, r
  <2>4. ASSUME NEW i \in 1 .. q + 1
        PROVE  /\ chunk[i] \in Seq(Char)
               /\ Len(chunk[i]) = IF i <= q THEN PadSize ELSE r
    <3> DEFINE m == IF i <= q THEN PadSize ELSE r
               t == [j \in 1 .. m |-> ch]
    <3>1. m \in Nat
      BY <2>1, <2>2
    <3>2. t \in [1 .. m -> Char]
      OBVIOUS
    <3>3. chunk[i] = t
      OBVIOUS
    <3>4. t \in Seq(Char) /\ Len(t) = m
      <4> HIDE DEF m, t
      <4> QED BY <3>1, <3>2, FunctionIsSeq
    <3> QED BY <3>3, <3>4
  <2>5. chunk \in [1 .. q + 1 -> Seq(Char)]
    BY <2>4
  <2>6. q + 1 \in Nat
    BY <2>2
  <2> HIDE DEF chunk
  <2>7. chunk \in Seq(Seq(Char)) /\ Len(chunk) = q + 1
    BY <2>5, <2>6, FunctionIsSeq
  <2>8. PICK a : Flattens(chunk, a)
    BY <2>7, FlattenExists
  <2>9. /\ a \in [0 .. q + 1 -> Seq(Char)] /\ a[0] = <<>>
        /\ \A i \in 1 .. q + 1 : a[i] = a[i - 1] \o chunk[i]
        /\ P!FlattenSeq(chunk) = a[q + 1]
    BY <2>7, <2>8 DEF Flattens
  <2>10. ASSUME NEW i \in 1 .. q + 1
         PROVE  Len(a[i]) = Len(a[i - 1]) + (IF i <= q THEN PadSize ELSE r)
    <3>1. a[i - 1] \in Seq(Char)
      BY <2>2, <2>9
    <3>2. chunk[i] \in Seq(Char) /\ Len(chunk[i]) = IF i <= q THEN PadSize ELSE r
      BY <2>4
    <3>3. Len(a[i - 1] \o chunk[i]) = Len(a[i - 1]) + Len(chunk[i])
      BY <3>1, <3>2, ConcatProperties
    <3> QED BY <2>9, <3>2, <3>3
  <2> DEFINE lens == [i \in 0 .. q + 1 |-> Len(a[i])]
             T == {i \in Nat : i <= q => lens[i] = PadSize * i}
  <2>11. lens[0] = 0 /\ lens[q + 1] = Len(a[q + 1])
    BY <2>2, <2>9, EmptySeq
  <2>12. ASSUME NEW i \in 1 .. q + 1
         PROVE  lens[i] = lens[i - 1] + (IF i <= q THEN PadSize ELSE r)
    <3>1. i \in 0 .. q + 1 /\ i - 1 \in 0 .. q + 1
      BY <2>2
    <3> QED BY <2>10, <3>1
  <2> HIDE DEF lens
  <2>13. 0 \in T
    BY <2>1, <2>11
  <2>14. ASSUME NEW i \in Nat, i \in T PROVE i + 1 \in T
    <3> SUFFICES ASSUME i + 1 <= q PROVE lens[i + 1] = PadSize * (i + 1)
      OBVIOUS
    <3>1. lens[i] = PadSize * i /\ i + 1 \in 1 .. q + 1 /\ (i + 1) - 1 = i
      BY <2>2, <2>14
    <3>2. lens[i + 1] = lens[i] + PadSize
      BY <2>12, <3>1
    <3>3. PadSize * (i + 1) = PadSize * i + PadSize
      BY <2>1
    <3> QED BY <3>1, <3>2, <3>3
  <2>15. lens[q] = PadSize * q
    <3> HIDE DEF T
    <3>1. q \in T
      BY <2>2, <2>13, <2>14, AllNumbers
    <3> QED BY <2>2, <3>1 DEF T
  <2>16. lens[q + 1] = lens[q] + r
    <3>1. q + 1 \in 1 .. q + 1 /\ (q + 1) - 1 = q /\ ~(q + 1 <= q)
      BY <2>2
    <3> QED BY <2>12, <3>1
  <2>17. Len(P!FlattenSeq(chunk)) = k
    BY <2>2, <2>9, <2>11, <2>15, <2>16
  <2> QED BY <1>2, <2>3, <2>7, <2>17 DEF k
<1> QED BY <1>1, <1>2

-----------------------------------------------------------------------------
(* The buffer of snprintf                                                  *)

\* A buffer of n characters in which there is always a place left for the NUL.
BufferOf(n) == {b \in [str : [0 .. n - 1 -> Char], offset : Nat] : n > 0 => b.offset < n}

\* It holds as much of t as there is room for, and nothing else was written.
HoldsText(b, t, n) ==
  /\ b \in BufferOf(n)
  /\ b.offset = IF n = 0 THEN 0 ELSE IF Len(t) < n THEN Len(t) ELSE n - 1
  /\ \A i \in 0 .. n - 1 : b.str[i] = IF i < b.offset THEN t[i + 1] ELSE "old"

\* Writing to a string keeps its size and leaves the place inside it.
LEMMA StrWriteTyped ==
  ASSUME size \in Nat, NEW b \in BufferOf(size), NEW s \in Seq(Char)
  PROVE  P!StrWrite(b, s) \in BufferOf(size)
<1> DEFINE n == size
           o == b.offset
           m == IF o + Len(s) >= n THEN n - o - 1 ELSE Len(s)
           new == [i \in 0 .. n - 1 |-> IF i \in o .. o + m - 1 THEN s[i - o + 1] ELSE b.str[i]]
           w == [str |-> new, offset |-> o + m]
<1>1. /\ o \in Nat /\ b.str \in [0 .. n - 1 -> Char] /\ Len(s) \in Nat
      /\ b = [str |-> b.str, offset |-> o] /\ DOMAIN b.str = 0 .. n - 1
      /\ n > 0 => o < n
  BY LenProperties DEF BufferOf
<1>2. CASE n = 0
  BY <1>2 DEF P!StrWrite
<1>3. CASE n # 0
  <2>1. P!StrWrite(b, s) = w
    BY <1>1, <1>3 DEF P!StrWrite
  <2>2. m \in Nat /\ m <= Len(s) /\ o + m < n
    BY <1>1, <1>3
  <2> HIDE DEF m, o
  <2>3. ASSUME NEW i \in o .. o + m - 1 PROVE s[i - o + 1] \in Char
    <3>1. i - o + 1 \in 1 .. Len(s)
      BY <1>1, <2>2
    <3> QED BY <3>1, ElementOfSeq
  <2>4. new \in [0 .. n - 1 -> Char]
    BY <1>1, <2>3
  <2> QED BY <1>1, <2>1, <2>2, <2>4 DEF BufferOf
<1> QED BY <1>2, <1>3

\* A string that holds a text holds what is appended to it, as much as fits, with its NUL.
LEMMA StrWriteHolds ==
  ASSUME size \in Nat, NEW b, NEW t \in Seq(Char), NEW s \in Seq(Char), HoldsText(b, t, size)
  PROVE  HoldsText(P!StrWrite(b, s), t \o s, size)
<1> DEFINE n == size
           u == t \o s
<1>0. n \in Nat
  OBVIOUS
<1>1. /\ u \in Seq(Char) /\ Len(u) = Len(t) + Len(s) /\ Len(t) \in Nat /\ Len(s) \in Nat
      /\ \A i \in 1 .. Len(t) + Len(s) : u[i] = IF i <= Len(t) THEN t[i] ELSE s[i - Len(t)]
  BY ConcatProperties, LenProperties
<1>2. /\ b \in BufferOf(n)
      /\ b.offset = IF n = 0 THEN 0 ELSE IF Len(t) < n THEN Len(t) ELSE n - 1
      /\ \A i \in 0 .. n - 1 : b.str[i] = IF i < b.offset THEN t[i + 1] ELSE "old"
  BY DEF HoldsText
<1>3. /\ b.offset \in Nat /\ b.str \in [0 .. n - 1 -> Char]
      /\ b = [str |-> b.str, offset |-> b.offset] /\ DOMAIN b.str = 0 .. n - 1
      /\ n > 0 => b.offset < n
  BY <1>2 DEF BufferOf
<1>4. CASE n = 0
  <2>1. P!StrWrite(b, s) = b
    BY <1>4 DEF P!StrWrite
  <2>2. \A i \in 0 .. n - 1 : FALSE
    BY <1>4
  <2> QED BY <1>2, <1>4, <2>1, <2>2 DEF HoldsText
<1>5. CASE n # 0
  <2> DEFINE o == b.offset
             m == IF o + Len(s) >= n THEN n - o - 1 ELSE Len(s)
             new == [i \in 0 .. n - 1 |-> IF i \in o .. o + m - 1 THEN s[i - o + 1] ELSE b.str[i]]
             w == [str |-> new, offset |-> o + m]
  <2>1. P!StrWrite(b, s) = w
    BY <1>3, <1>5 DEF P!StrWrite
  <2>2. m \in Nat /\ m <= Len(s) /\ o + m < n /\ o \in Nat
    BY <1>0, <1>1, <1>3, <1>5
  <2> HIDE DEF m, o
  <2>3. ASSUME NEW i \in o .. o + m - 1 PROVE s[i - o + 1] \in Char
    <3>1. i - o + 1 \in 1 .. Len(s)
      BY <1>1, <2>2
    <3> QED BY <3>1, ElementOfSeq
  <2>4. new \in [0 .. n - 1 -> Char]
    BY <1>3, <2>3
  <2>5. o + m = IF Len(u) < n THEN Len(u) ELSE n - 1
    <3>1. /\ o = IF Len(t) < n THEN Len(t) ELSE n - 1
          /\ m = IF o + Len(s) >= n THEN n - o - 1 ELSE Len(s)
      BY <1>2, <1>5 DEF m, o
    <3>2. CASE Len(t) < n
      BY <1>0, <1>1, <3>1, <3>2
    <3>3. CASE ~(Len(t) < n)
      BY <1>0, <1>1, <1>5, <3>1, <3>3
    <3> QED BY <3>2, <3>3
  <2>6. ASSUME NEW i \in 0 .. n - 1 PROVE new[i] = IF i < o + m THEN u[i + 1] ELSE "old"
    <3>1. CASE i < o
      <4>1. i + 1 <= Len(t) /\ i + 1 \in 1 .. Len(t) + Len(s) /\ i < o + m
        BY <1>0, <1>1, <1>2, <1>5, <2>2, <3>1 DEF o
      <4>2. new[i] = b.str[i]
        BY <2>2, <3>1
      <4> QED BY <1>1, <1>2, <3>1, <4>1, <4>2 DEF o
    <3>2. CASE i >= o /\ i < o + m
      <4>1. o = Len(t)
        BY <1>0, <1>1, <1>2, <1>5, <2>2, <3>2 DEF o
      <4>2. /\ i + 1 \in 1 .. Len(t) + Len(s) /\ ~(i + 1 <= Len(t))
            /\ (i + 1) - Len(t) = i - o + 1 /\ i \in o .. o + m - 1
        BY <1>1, <2>2, <3>2, <4>1, SMTT(20)
      <4> QED BY <1>1, <3>2, <4>2
    <3>3. CASE i >= o + m
      <4>1. ~(i < o) /\ ~(i < o + m) /\ i \notin o .. o + m - 1
        BY <2>2, <3>3
      <4> QED BY <1>2, <4>1 DEF o
    <3>4. i < o \/ (i >= o /\ i < o + m) \/ i >= o + m
      BY <1>0, <2>2
    <3> QED BY <3>1, <3>2, <3>3, <3>4
  <2> HIDE DEF new
  <2>7. w \in BufferOf(n)
    BY <2>2, <2>4 DEF BufferOf
  <2>8. w.str = new /\ w.offset = o + m
    OBVIOUS
  <2> HIDE DEF w, u
  <2>9. HoldsText(w, u, n)
    BY <1>5, <2>5, <2>6, <2>7, <2>8 DEF HoldsText
  <2> QED BY <2>1, <2>9 DEF u
<1> QED BY <1>4, <1>5

\* Concatenation of texts is associative.
LEMMA TextAssociative ==
  ASSUME NEW u \in Seq(Char), NEW v \in Seq(Char), NEW w \in Seq(Char)
  PROVE  (u \o v) \o w = u \o (v \o w)
BY ConcatAssociative

\* One str_write after the other leaves what one of all the characters would.
LEMMA WritesHold ==
  ASSUME size \in Nat, NEW b, NEW t \in Seq(Char), NEW ss \in Seq(Seq(Char)),
         HoldsText(b, t, size)
  PROVE  HoldsText(P!FoldLeft(P!StrWrite, b, ss), t \o P!FlattenSeq(ss), size)
<1> DEFINE N == Len(ss)
           J == SUBSET (1 .. N)
           h == CHOOSE f : f = [s \in SUBSET (1 .. Len(ss)) |->
                                  IF s = {} THEN b
                                  ELSE P!StrWrite(f[s \ {P!Max(s)}], ss[P!Max(s)])]
           V == BufferOf(size)
<1>1. N \in Nat /\ DOMAIN ss = 1 .. N /\ \A i \in 1 .. N : ss[i] \in Seq(Char)
  BY ElementOfSeq, LenProperties
<1>2. P!FoldLeft(P!StrWrite, b, ss) = h[1 .. N]
  <2>1. DOMAIN ss = 1 .. Len(ss)
    BY <1>1
  <2> QED BY <2>1 DEF P!FoldLeft, P!MapThenFoldSet
<1>3. PICK a : Flattens(ss, a)
  BY FlattenExists
<1>4. /\ a \in [0 .. N -> Seq(Char)] /\ a[0] = <<>>
      /\ \A i \in 1 .. N : a[i] = a[i - 1] \o ss[i]
      /\ P!FlattenSeq(ss) = a[N]
  BY <1>3 DEF Flattens
<1>5. ASSUME NEW v \in V, NEW i \in 1 .. N PROVE P!StrWrite(v, ss[i]) \in V
  BY <1>1, StrWriteTyped
<1>6. h = [s \in J |-> IF s = {} THEN b ELSE P!StrWrite(h[s \ {P!Max(s)}], ss[P!Max(s)])]
  <2> DEFINE step == [x \in V \X (1 .. N) |-> P!StrWrite(x[1], ss[x[2]])]
  <2>1. step \in [V \X (1 .. N) -> V]
    <3> HIDE DEF V
    <3> QED BY <1>5
  <2>2. b \in V
    BY DEF HoldsText
  <2>3. PICK g : Folds(g, V, N, b, step)
    <3> HIDE DEF step, V, N
    <3> QED BY <1>1, <2>1, <2>2, FoldExists
  <2>4. ASSUME NEW s \in J
        PROVE  g[s] = IF s = {} THEN b ELSE P!StrWrite(g[s \ {P!Max(s)}], ss[P!Max(s)])
    <3>1. g[s] = IF s = {} THEN b ELSE step[<<g[s \ {P!Max(s)}], P!Max(s)>>]
      BY <2>3 DEF Folds
    <3>2. CASE s # {}
      <4>1. P!Max(s) \in 1 .. N
        BY <1>1, <3>2, Greatest
      <4>2. s \ {P!Max(s)} \in J /\ g \in [J -> V]
        BY <2>3 DEF Folds
      <4>3. <<g[s \ {P!Max(s)}], P!Max(s)>> \in V \X (1 .. N)
        BY <4>1, <4>2
      <4> QED BY <3>1, <3>2, <4>3
    <3> QED BY <3>1, <3>2
  <2>5. g = [s \in J |-> IF s = {} THEN b ELSE P!StrWrite(g[s \ {P!Max(s)}], ss[P!Max(s)])]
    BY <2>3, <2>4 DEF Folds
  <2> HIDE DEF V, step
  <2> QED BY <2>5
<1> DEFINE T == {i \in Nat : i <= N => HoldsText(h[1 .. i], t \o a[i], size)}
<1>7. 0 \in T
  <2>1. 1 .. 0 = {} /\ h[{}] = b
    <3>1. {} \in J
      OBVIOUS
    <3> HIDE DEF h, J
    <3>2. h[{}] = b
      BY <1>6, <3>1
    <3> QED BY <3>2
  <2>2. t \o a[0] = t
    BY <1>4, ConcatEmptySeq
  <2> HIDE DEF h, J
  <2> QED BY <2>1, <2>2
<1>8. ASSUME NEW i \in Nat, i \in T PROVE i + 1 \in T
  <2> SUFFICES ASSUME i + 1 <= N PROVE HoldsText(h[1 .. i + 1], t \o a[i + 1], size)
    OBVIOUS
  <2> DEFINE k == i + 1
  <2>1. k \in 1 .. N /\ k - 1 = i /\ i \in 0 .. N /\ HoldsText(h[1 .. i], t \o a[i], size)
    BY <1>1, <1>8
  <2> HIDE DEF k
  <2>2. /\ 1 .. k \in J /\ 1 .. k # {} /\ P!Max(1 .. k) = k /\ (1 .. k) \ {k} = 1 .. i
    BY <1>1, <2>1, Prefixes
  <2>3. h[1 .. k] = P!StrWrite(h[1 .. i], ss[k])
    <3> HIDE DEF h, J
    <3> QED BY <1>6, <2>2
  <2>4. a[i] \in Seq(Char) /\ ss[k] \in Seq(Char) /\ t \o a[i] \in Seq(Char)
    BY <1>1, <1>4, <2>1, ConcatProperties
  <2>5. t \o a[k] = (t \o a[i]) \o ss[k]
    <3>1. a[k] = a[i] \o ss[k]
      BY <1>4, <2>1
    <3>2. (t \o a[i]) \o ss[k] = t \o (a[i] \o ss[k])
      BY <2>4, TextAssociative
    <3> QED BY <3>1, <3>2
  <2>6. HoldsText(h[1 .. k], t \o a[k], size)
    <3> HIDE DEF h, J, N
    <3> QED BY <2>1, <2>3, <2>4, <2>5, StrWriteHolds
  <2> QED BY <2>6 DEF k
<1>9. HoldsText(h[1 .. N], t \o a[N], size)
  <2> HIDE DEF T
  <2>1. N \in T
    BY <1>1, <1>7, <1>8, AllNumbers
  <2> QED BY <1>1, <2>1 DEF T
<1> QED BY <1>2, <1>4, <1>9

-----------------------------------------------------------------------------
(* The conversions                                                         *)

\* fmt_x, fmt_o and fmt_u give characters.
LEMMA DigitsAreText ==
  ASSUME NEW x \in Nat, NEW b \in {8, 10, 16}, NEW glyphs \in {P!Lower, P!Upper}
  PROVE  P!Fmt(x, b, glyphs) \in Seq(Char)
<1> DEFINE V == Seq(Char)
           J == 0 .. x
           base == <<>>
           rank == [n \in J |-> n]
           prev == [n \in J |-> n \div b]
           step == [y \in V \X J |-> Append(y[1], glyphs[(y[2] % b) + 1])]
           g == CHOOSE f : f = [n \in 0 .. x |->
                                  IF n = 0 THEN <<>>
                                  ELSE Append(f[n \div b], glyphs[(n % b) + 1])]
<1>0. b \in Nat \ {0} /\ b <= 16 /\ b > 1
  OBVIOUS
<1>1. \A n \in J : glyphs[(n % b) + 1] \in Char
  <2> TAKE n \in J
  <2>1. n \in Nat
    OBVIOUS
  <2>2. n % b \in 0 .. b - 1
    BY <1>0, <2>1, Division
  <2>3. (n % b) + 1 \in 1 .. 16
    BY <1>0, <2>2
  <2>4. \A i \in 1 .. 16 : P!Lower[i] \in Char /\ P!Upper[i] \in Char
    BY DEF Char
  <2> QED BY <2>3, <2>4
<1>2. ASSUME NEW n \in J, n # 0 PROVE n \div b \in J /\ n \div b < n
  <2>1. n \in Nat
    OBVIOUS
  <2>2. n \div b \in Nat /\ n % b \in Nat /\ n = b * (n \div b) + (n % b)
    BY <1>0, <2>1, Division
  <2> DEFINE q == n \div b
  <2>3. q \in Nat /\ n >= b * q
    BY <1>0, <2>2
  <2>4. q < n
    <3> HIDE DEF q
    <3>1. CASE b = 8
      BY <1>2, <2>3, <3>1
    <3>2. CASE b = 10
      BY <1>2, <2>3, <3>2
    <3>3. CASE b = 16
      BY <1>2, <2>3, <3>3
    <3> QED BY <3>1, <3>2, <3>3
  <2> QED BY <2>3, <2>4
<1>3. step \in [V \X J -> V]
  <2>1. ASSUME NEW y \in V \X J PROVE Append(y[1], glyphs[(y[2] % b) + 1]) \in V
    <3>1. y[1] \in Seq(Char) /\ glyphs[(y[2] % b) + 1] \in Char
      BY <1>1
    <3> QED BY <3>1, AppendProperties
  <2> QED BY <2>1
<1>4. Recursion(J, V, x, rank, prev, base, step)
  <2>1. base \in V
    BY EmptySeq
  <2>2. rank \in [J -> 0 .. x]
    OBVIOUS
  <2>3. \A j \in J : rank[j] > 0 => prev[j] \in J /\ rank[prev[j]] < rank[j]
    BY <1>2
  <2> HIDE DEF J, V, rank, prev, base, step
  <2> QED BY <1>3, <2>1, <2>2, <2>3 DEF Recursion
<1>5. PICK f \in [J -> V] :
        \A j \in J : f[j] = IF rank[j] = 0 THEN base ELSE step[<<f[prev[j]], j>>]
  <2> HIDE DEF J, V, rank, prev, base, step
  <2> QED BY <1>4, RecursionExists
<1>6. ASSUME NEW n \in J
      PROVE  f[n] = IF n = 0 THEN <<>> ELSE Append(f[n \div b], glyphs[(n % b) + 1])
  <2>1. n # 0 => <<f[n \div b], n>> \in V \X J
    <3> HIDE DEF V
    <3> QED BY <1>2
  <2>2. rank[n] = n /\ prev[n] = n \div b
    OBVIOUS
  <2>3. f[n] = IF n = 0 THEN base ELSE step[<<f[n \div b], n>>]
    <3> HIDE DEF J, V, rank, prev, base, step
    <3> QED BY <1>5, <2>2
  <2>4. n # 0 => step[<<f[n \div b], n>>] = Append(f[n \div b], glyphs[(n % b) + 1])
    BY <2>1
  <2> QED BY <2>3, <2>4
<1>7. f = [n \in 0 .. x |-> IF n = 0 THEN <<>> ELSE Append(f[n \div b], glyphs[(n % b) + 1])]
  BY <1>6
<1>8. g = [n \in 0 .. x |-> IF n = 0 THEN <<>> ELSE Append(g[n \div b], glyphs[(n % b) + 1])]
  <2> HIDE DEF V, J, rank, prev, base, step
  <2> QED BY <1>7
<1>9. P!Fmt(x, b, glyphs) = g[x]
  BY DEF P!Fmt
<1> HIDE DEF g
<1> DEFINE T == {n \in Nat : \A j \in J : j <= n => g[j] \in V}
<1>10. 0 \in T
  <2>1. g[0] = <<>>
    BY <1>8
  <2>2. g[0] \in V
    BY <2>1, EmptySeq
  <2>3. \A j \in J : j <= 0 => j = 0
    OBVIOUS
  <2> QED BY <2>2, <2>3
<1>11. ASSUME NEW n \in Nat, n \in T PROVE n + 1 \in T
  <2> SUFFICES ASSUME NEW j \in J, j <= n + 1 PROVE g[j] \in V
    OBVIOUS
  <2>1. CASE j = 0
    BY <1>8, <2>1, EmptySeq
  <2>2. CASE j # 0
    <3>1. j \div b \in J /\ j \div b <= n
      BY <1>2, <2>2
    <3>2. g[j \div b] \in V
      BY <1>11, <3>1
    <3>3. g[j] = Append(g[j \div b], glyphs[(j % b) + 1])
      BY <1>8, <2>2
    <3> QED BY <1>1, <3>2, <3>3, AppendProperties
  <2> QED BY <2>1, <2>2
<1>12. x \in J /\ x <= x
  OBVIOUS
<1>13. x \in T
  <2> HIDE DEF T
  <2> QED BY <1>10, <1>11, AllNumbers
<1> QED BY <1>9, <1>12, <1>13

\* What a conversion gives: an overflow, or a text with its precision no smaller.
IsField(cc) ==
  cc.ok => /\ cc.ok = TRUE
           /\ cc.prefix \in Seq(Char) /\ cc.body \in Seq(Char)
           /\ cc.p \in Nat /\ Len(cc.body) <= cc.p
           /\ ~({"-", "0"} \subseteq cc.fl)

\* Signs and prefixes are texts.
LEMMA PrefixesAreText ==
  ASSUME NEW x, NEW fl
  PROVE  /\ P!SignOf(x, fl) \in Seq(Char)
         /\ \A letter \in Char : P!HexPrefix(x, fl, letter) \in Seq(Char)
<1>1. <<>> \in Seq(Char) /\ <<"-">> \in Seq(Char) /\ <<"+">> \in Seq(Char) /\ <<" ">> \in Seq(Char)
  BY DEF Char
<1>2. P!SignOf(x, fl) \in Seq(Char)
  <2>1. P!SignOf(x, fl) \in {<<"-">>, <<"+">>, <<" ">>, <<>>}
    BY Zenon DEF P!SignOf
  <2> QED BY <1>1, <2>1
<1>3. ASSUME NEW letter \in Char PROVE P!HexPrefix(x, fl, letter) \in Seq(Char)
  <2>1. "0" \in Char
    BY DEF Char
  <2>2. <<"0", letter>> \in Seq(Char)
    BY <2>1
  <2> QED BY <1>1, <2>2 DEF P!HexPrefix
<1> QED BY <1>2, <1>3

\* The field of an integer is a number of pads and texts in the order printf writes them.
LEMMA IntegerField ==
  ASSUME NEW prefix \in Seq(Char), NEW body \in Seq(Char), NEW p \in Int,
         NEW xp \in BOOLEAN, NEW fl, ~({"-", "0"} \subseteq fl), NEW x \in Nat
  PROVE  IsField(P!Integer(prefix, body, p, xp, fl, x))
<1>1. CASE xp /\ p < 0
  BY <1>1 DEF P!Integer, P!Overflow, IsField
<1>2. CASE ~(xp /\ p < 0)
  <2> DEFINE b == IF x = 0 /\ p = 0 THEN <<>> ELSE body
             m == Len(body) + (IF x = 0 THEN 1 ELSE 0)
             q == IF x = 0 /\ p = 0 THEN p ELSE P!Max({p, m})
             f == IF xp THEN fl \ {"0"} ELSE fl
  <2>1. P!Integer(prefix, body, p, xp, fl, x) =
          [ok |-> TRUE, prefix |-> prefix, body |-> b, p |-> q, fl |-> f]
    BY <1>2 DEF P!Integer, P!Converted
  <2>2. Len(body) \in Nat /\ m \in Nat /\ Len(body) <= m
    BY LenProperties
  <2>3. b \in Seq(Char)
    BY EmptySeq
  <2>4. q \in Nat /\ Len(b) <= q
    <3>1. CASE x = 0 /\ p = 0
      BY <3>1, EmptySeq
    <3>2. CASE ~(x = 0 /\ p = 0)
      <4>1. P!Max({p, m}) = IF p >= m THEN p ELSE m
        BY <2>2, OfTwo
      <4> HIDE DEF m
      <4> QED BY <2>2, <3>2, <4>1
    <3> QED BY <3>1, <3>2
  <2>5. ~({"-", "0"} \subseteq f)
    OBVIOUS
  <2> HIDE DEF b, q, f
  <2> QED BY <2>1, <2>3, <2>4, <2>5 DEF IsField
<1> QED BY <1>1, <1>2

\* An argument in its 2^LongBits values.
LEMMA Limits ==
  /\ P!INT_MAX \in Nat /\ P!INTMAX_MAX \in Nat /\ P!UINTMAX \in Nat /\ P!UINTMAX >= 1
  /\ \A type : P!Bits(type) \in 1 .. LongBits
  /\ \A n \in 0 .. LongBits : P!Pow2[n] \in 1 .. P!UINTMAX
<1>1. IntBits - 1 \in 0 .. LongBits /\ LongBits - 1 \in 0 .. LongBits /\ LongBits \in 0 .. LongBits
  BY PrintfConstants
<1>2. /\ P!INT_MAX \in Nat /\ P!INTMAX_MAX \in Nat /\ P!UINTMAX \in Nat /\ P!UINTMAX >= 1
  BY <1>1, Powers DEF P!INT_MAX, P!INTMAX_MAX, P!UINTMAX
<1>3. ASSUME NEW type PROVE P!Bits(type) \in 1 .. LongBits
  <2>1. P!Bits(type) \in {CharBits, ShortBits, IntBits, LongBits}
    BY Zenon DEF P!Bits
  <2> QED BY <2>1, PrintfConstants
<1>4. ASSUME NEW n \in 0 .. LongBits PROVE P!Pow2[n] \in 1 .. P!UINTMAX
  BY <1>1, Powers DEF P!UINTMAX
<1> QED BY <1>2, <1>3, <1>4

\* The remainder of any integer lies below its divisor.
LEMMA Remainder ==
  \A x \in Int, d \in Nat \ {0} : x % d \in 0 .. d - 1
BY SMTT(30)

\* Reading some bits as a signed number gives an integer.
LEMMA SignedTyped ==
  ASSUME NEW v \in Int, NEW bits \in 1 .. LongBits
  PROVE  P!Signed(v, bits) \in Int
<1>1. P!Pow2[bits] \in Nat \ {0} /\ P!Pow2[bits - 1] \in Nat
  <2>1. bits \in 0 .. LongBits /\ bits - 1 \in 0 .. LongBits
    BY PrintfConstants
  <2> QED BY <2>1, Powers
<1>2. v % P!Pow2[bits] \in Int
  <2> DEFINE d == P!Pow2[bits]
  <2>1. d \in Nat \ {0}
    BY <1>1
  <2> HIDE DEF d
  <2>2. v % d \in 0 .. d - 1
    BY <2>1, Remainder
  <2>3. v % d \in Int
    BY <2>1, <2>2
  <2> QED BY <2>3 DEF d
<1> QED BY <1>1, <1>2 DEF P!Signed

\* What pop_arg reads is a number of the widest unsigned type.
LEMMA PopArgTyped ==
  ASSUME NEW type, NEW a \in 0 .. P!UINTMAX - 1
  PROVE  P!PopArg(type, a) \in 0 .. P!UINTMAX - 1
<1> DEFINE y == P!Signed(a, P!Bits(type)) % P!UINTMAX
           z == a % P!Pow2[P!Bits(type)]
<1>1. P!PopArg(type, a) \in {a, y, z}
  BY Zenon DEF P!PopArg
<1>2. P!UINTMAX \in Nat \ {0} /\ P!Bits(type) \in 1 .. LongBits
  BY Limits
<1>3. y \in 0 .. P!UINTMAX - 1
  <2>1. P!Signed(a, P!Bits(type)) \in Int
    BY <1>2, SignedTyped
  <2> QED BY <1>2, <2>1, Remainder
<1>4. z \in 0 .. P!UINTMAX - 1
  <2>1. P!Bits(type) \in 0 .. LongBits
    BY <1>2
  <2>2. P!Pow2[P!Bits(type)] \in 1 .. P!UINTMAX
    BY <2>1, Limits
  <2>3. z \in 0 .. P!Pow2[P!Bits(type)] - 1
    <3> DEFINE d == P!Pow2[P!Bits(type)]
    <3>1. d \in Nat \ {0} /\ a \in Int
      BY <1>2, <2>2
    <3> HIDE DEF d
    <3>2. a % d \in 0 .. d - 1
      BY <3>1, Remainder
    <3> QED BY <3>2 DEF d
  <2> QED BY <1>2, <2>2, <2>3
<1> QED BY <1>1, <1>3, <1>4

\* The field of %c.
LEMMA CharField ==
  ASSUME NEW x \in Nat, NEW fl
  PROVE  IsField(P!ConvertChar(x, fl))
<1> DEFINE ch == Glyphs[x % P!Pow2[CharBits]]
<1>1. P!ConvertChar(x, fl) =
        [ok |-> TRUE, prefix |-> <<>>, body |-> <<ch>>, p |-> 1, fl |-> fl \ {"0"}]
  BY DEF P!ConvertChar, P!Converted
<1>2. ch \in Char
  <2>1. CharBits \in 0 .. LongBits
    BY PrintfConstants
  <2>2. P!Pow2[CharBits] \in Nat \ {0}
    BY <2>1, Powers
  <2>3. x % P!Pow2[CharBits] \in 0 .. P!Pow2[CharBits] - 1
    BY <2>2, Remainder
  <2>4. Glyphs \in [0 .. P!Pow2[CharBits] - 1 -> STRING]
    BY LibraryAssumption DEF P!PrintfAssumption
  <2> QED BY <2>3, <2>4 DEF Char
<1> HIDE DEF ch
<1>3. <<ch>> \in Seq(Char) /\ Len(<<ch>>) = 1 /\ <<>> \in Seq(Char)
  BY <1>2
<1> QED BY <1>1, <1>3 DEF IsField

\* The field of %s: no more characters than the precision allows.
LEMMA StringField ==
  ASSUME NEW s \in 0 .. P!UINTMAX - 1, NEW p \in Int, NEW fl
  PROVE  IsField(P!ConvertString(s, p, fl))
<1> DEFINE cs == IF s = P!NULL THEN <<"(", "n", "u", "l", "l", ")">> ELSE Strings[s]
           m == P!Min({Len(cs), IF p < 0 THEN P!INT_MAX ELSE p})
           body == SubSeq(cs, 1, m)
<1>1. cs \in Seq(Char)
  <2>1. "(" \in Char /\ "n" \in Char /\ "u" \in Char /\ "l" \in Char /\ ")" \in Char
    BY DEF Char
  <2>2. <<"(", "n", "u", "l", "l", ")">> \in Seq(Char)
    BY <2>1
  <2>3. CASE s # P!NULL
    <3>1. s \in 1 .. P!UINTMAX - 1
      BY <2>3, Limits DEF P!NULL
    <3>2. Strings[s] \in Seq(STRING)
      BY <3>1, LibraryAssumption DEF P!PrintfAssumption
    <3> QED BY <2>3, <3>2, SeqMonotonic DEF Char
  <2> QED BY <2>2, <2>3
<1> HIDE DEF cs
<1>2. Len(cs) \in Nat /\ (IF p < 0 THEN P!INT_MAX ELSE p) \in Int
  BY <1>1, Limits, LenProperties
<1>3. m \in Nat /\ m <= Len(cs)
  <2> DEFINE k == IF p < 0 THEN P!INT_MAX ELSE p
  <2>1. k \in Nat
    BY Limits
  <2>2. m = IF Len(cs) <= k THEN Len(cs) ELSE k
    <3>1. m = P!Min({Len(cs), k})
      OBVIOUS
    <3> HIDE DEF k, m
    <3>2. Len(cs) \in Int /\ k \in Int
      BY <1>2, <2>1
    <3> QED BY <3>1, <3>2, OfTwo
  <2> HIDE DEF k, m
  <2> QED BY <1>2, <2>1, <2>2
<1> HIDE DEF m
<1>4. body \in Seq(Char) /\ Len(body) \in Nat
  <2>1. \A i \in 1 .. m : cs[i] \in Char
    BY <1>1, <1>2, <1>3, ElementOfSeq
  <2>2. body \in Seq(Char)
    BY <1>3, <2>1, SubSeqProperties
  <2> QED BY <2>2, LenProperties
<1>5. P!ConvertString(s, p, fl) =
        IF p < 0 /\ Len(cs) > P!INT_MAX THEN [ok |-> FALSE]
        ELSE [ok |-> TRUE, prefix |-> <<>>, body |-> body, p |-> Len(body), fl |-> fl \ {"0"}]
  BY DEF P!ConvertString, P!Converted, P!Overflow, cs, m
<1> HIDE DEF body
<1>6. <<>> \in Seq(Char)
  OBVIOUS
<1> QED BY <1>4, <1>5, <1>6 DEF IsField

\* The field of each integer conversion.
LEMMA IntField ==
  ASSUME NEW conv \in {"d", "i", "u", "o", "x", "X", "p"}, NEW x \in 0 .. P!UINTMAX - 1,
         NEW p \in Int, NEW xp \in BOOLEAN, NEW fl, ~({"-", "0"} \subseteq fl)
  PROVE  IsField(P!ConvertInt(conv, x, p, xp, fl))
<1>0. x \in Nat /\ P!UINTMAX \in Nat /\ "x" \in Char /\ "X" \in Char
      /\ P!Lower \in {P!Lower, P!Upper} /\ P!Upper \in {P!Lower, P!Upper}
      /\ P!INTMAX_MAX \in Nat
  BY Limits DEF Char
<1>1. CASE conv = "p"
  <2> DEFINE q == IF p < 0 THEN p ELSE P!Max({p, PtrDigits})
  <2>1. q \in Int
    BY PrintfConstants, OfTwo
  <2>2. P!HexPrefix(x, {"#"}, "x") \in Seq(Char) /\ P!Fmt(x, 16, P!Lower) \in Seq(Char)
    BY <1>0, PrefixesAreText, DigitsAreText
  <2>3. ~({"-", "0"} \subseteq (fl \cup {"#"}))
    OBVIOUS
  <2>4. P!ConvertInt(conv, x, p, xp, fl) =
          P!Integer(P!HexPrefix(x, {"#"}, "x"), P!Fmt(x, 16, P!Lower), q, xp, fl \cup {"#"}, x)
    BY <1>1, Zenon DEF P!ConvertInt
  <2> HIDE DEF q
  <2> QED BY <1>0, <2>1, <2>2, <2>3, <2>4, IntegerField
<1>2. CASE conv = "x"
  <2>1. P!HexPrefix(x, fl, "x") \in Seq(Char) /\ P!Fmt(x, 16, P!Lower) \in Seq(Char)
    BY <1>0, PrefixesAreText, DigitsAreText
  <2>2. P!ConvertInt(conv, x, p, xp, fl) =
          P!Integer(P!HexPrefix(x, fl, "x"), P!Fmt(x, 16, P!Lower), p, xp, fl, x)
    BY <1>2, Zenon DEF P!ConvertInt
  <2> QED BY <1>0, <2>1, <2>2, IntegerField
<1>3. CASE conv = "X"
  <2>1. P!HexPrefix(x, fl, "X") \in Seq(Char) /\ P!Fmt(x, 16, P!Upper) \in Seq(Char)
    BY <1>0, PrefixesAreText, DigitsAreText
  <2>2. P!ConvertInt(conv, x, p, xp, fl) =
          P!Integer(P!HexPrefix(x, fl, "X"), P!Fmt(x, 16, P!Upper), p, xp, fl, x)
    BY <1>3, Zenon DEF P!ConvertInt
  <2> QED BY <1>0, <2>1, <2>2, IntegerField
<1>4. CASE conv = "o"
  <2> DEFINE body == P!Fmt(x, 8, P!Lower)
             q == IF "#" \in fl /\ p < Len(body) + 1 THEN Len(body) + 1 ELSE p
  <2>1. body \in Seq(Char) /\ <<>> \in Seq(Char)
    BY <1>0, DigitsAreText
  <2>2. q \in Int
    <3> HIDE DEF body
    <3>1. Len(body) \in Nat
      BY <2>1, LenProperties
    <3> QED BY <3>1
  <2>3. P!ConvertInt(conv, x, p, xp, fl) = P!Integer(<<>>, body, q, xp, fl, x)
    BY <1>4, Zenon DEF P!ConvertInt
  <2> HIDE DEF body, q
  <2> QED BY <1>0, <2>1, <2>2, <2>3, IntegerField
<1>5. CASE conv \in {"d", "i"}
  <2> DEFINE y == IF x > P!INTMAX_MAX THEN P!UINTMAX - x ELSE x
  <2>1. y \in Nat
    BY <1>0
  <2>2. P!ConvertInt(conv, x, p, xp, fl) =
          P!Integer(P!SignOf(x, fl), P!Fmt(y, 10, P!Lower), p, xp, fl, y)
    <3>1. conv # "p" /\ conv # "x" /\ conv # "X" /\ conv # "o" /\ conv # "u"
      BY <1>5
    <3> QED BY <1>5, <3>1, Zenon DEF P!ConvertInt
  <2> HIDE DEF y
  <2>3. P!SignOf(x, fl) \in Seq(Char) /\ P!Fmt(y, 10, P!Lower) \in Seq(Char)
    BY <1>0, <2>1, PrefixesAreText, DigitsAreText
  <2> QED BY <2>1, <2>2, <2>3, IntegerField
<1>6. CASE conv = "u"
  <2>1. P!Fmt(x, 10, P!Lower) \in Seq(Char) /\ <<>> \in Seq(Char)
    BY <1>0, DigitsAreText
  <2>2. P!ConvertInt(conv, x, p, xp, fl) = P!Integer(<<>>, P!Fmt(x, 10, P!Lower), p, xp, fl, x)
    BY <1>6, Zenon DEF P!ConvertInt
  <2> QED BY <1>0, <2>1, <2>2, IntegerField
<1> QED BY <1>1, <1>2, <1>3, <1>4, <1>5, <1>6

\* The field of every conversion.
LEMMA ConvertField ==
  ASSUME NEW conv \in {"d", "i", "u", "o", "x", "X", "p", "c", "s"},
         NEW x \in 0 .. P!UINTMAX - 1,
         NEW p \in Int, NEW xp \in BOOLEAN, NEW fl, ~({"-", "0"} \subseteq fl)
  PROVE  IsField(P!Convert(conv, x, p, xp, fl))
<1>1. CASE conv = "c"
  <2>1. P!Convert(conv, x, p, xp, fl) = P!ConvertChar(x, fl)
    BY <1>1, Zenon DEF P!Convert
  <2> QED BY <2>1, CharField
<1>2. CASE conv = "s"
  <2>1. P!Convert(conv, x, p, xp, fl) = P!ConvertString(x, p, fl)
    BY <1>2, Zenon DEF P!Convert
  <2> QED BY <2>1, StringField
<1>3. CASE conv \in {"d", "i", "u", "o", "x", "X", "p"}
  <2>1. conv # "c" /\ conv # "s"
    BY <1>3
  <2>2. P!Convert(conv, x, p, xp, fl) = P!ConvertInt(conv, x, p, xp, fl)
    BY <2>1, Zenon DEF P!Convert
  <2> QED BY <1>3, <2>2, IntField
<1> QED BY <1>1, <1>2, <1>3

\* What the six writes of a conversion add up to.
LEMMA SixWrites ==
  ASSUME NEW w \in Nat, NEW pl \in Nat, NEW cp \in Nat, NEW m \in Nat, m <= cp, pl + cp <= w,
         NEW l1, NEW l3, NEW l6,
         \/ l1 = w - (pl + cp) /\ l3 = 0 /\ l6 = 0
         \/ l3 = w - (pl + cp) /\ l1 = 0 /\ l6 = 0
         \/ l6 = w - (pl + cp) /\ l1 = 0 /\ l3 = 0
  PROVE  l1 + pl + l3 + (cp - m) + m + l6 = w
OBVIOUS

\* What pad adds, without the comparison.
LEMMA PadAdds ==
  ASSUME NEW ch \in Char, NEW w \in Nat, NEW n \in Nat, n <= w, NEW fl
  PROVE  /\ P!Pad(ch, w, n, fl) \in Seq(Seq(Char))
         /\ fl \cap {"-", "0"} # {} => Len(P!FlattenSeq(P!Pad(ch, w, n, fl))) = 0
         /\ fl \cap {"-", "0"} = {} => Len(P!FlattenSeq(P!Pad(ch, w, n, fl))) = w - n
<1> DEFINE x == Len(P!FlattenSeq(P!Pad(ch, w, n, fl)))
<1>1. /\ P!Pad(ch, w, n, fl) \in Seq(Seq(Char))
      /\ x = IF fl \cap {"-", "0"} # {} \/ n >= w THEN 0 ELSE w - n
  BY PadLength
<1> HIDE DEF x
<1>2. (fl \cap {"-", "0"} # {} => x = 0) /\ (fl \cap {"-", "0"} = {} => x = w - n)
  BY <1>1
<1> QED BY <1>1, <1>2 DEF x

\* One text by itself is as long as it is.
LEMMA OneText ==
  ASSUME NEW s \in Seq(Char)
  PROVE  <<s>> \in Seq(Seq(Char)) /\ Len(P!FlattenSeq(<<s>>)) = Len(s)
<1>1. <<s>> \in Seq(Seq(Char)) /\ Len(<<s>>) = 1 /\ <<s>>[1] = s
  OBVIOUS
<1>2. PICK a : Flattens(<<s>>, a)
  BY <1>1, FlattenExists
<1>3. P!FlattenSeq(<<s>>) = a[1] /\ a[1] = a[0] \o s /\ a[0] = <<>>
  <2>1. 1 \in 1 .. Len(<<s>>) /\ 1 - 1 = 0
    BY <1>1
  <2> QED BY <1>1, <1>2, <2>1 DEF Flattens
<1> QED BY <1>1, <1>3, ConcatEmptySeq

\* The six writes of a conversion fill the field.
LEMMA EmitFills ==
  ASSUME NEW cc, IsField(cc), cc.ok, NEW w \in Nat, Len(cc.prefix) + cc.p <= w
  PROVE  /\ P!Emit(cc, w) \in Seq(Seq(Char))
         /\ Len(P!FlattenSeq(P!Emit(cc, w))) = w
<1> DEFINE pl == Len(cc.prefix)
           cp == cc.p
           n == pl + cp
           m == Len(cc.body)
           p1 == P!Pad(" ", w, n, cc.fl)
           p2 == <<cc.prefix>>
           p3 == P!Pad("0", w, n, P!Toggle(cc.fl, "0"))
           p4 == P!Pad("0", cp, m, {})
           p5 == <<cc.body>>
           p6 == P!Pad(" ", w, n, P!Toggle(cc.fl, "-"))
           L(s) == Len(P!FlattenSeq(s))
<1>1. /\ cc.prefix \in Seq(Char) /\ cc.body \in Seq(Char) /\ cp \in Nat /\ m <= cp
      /\ ~({"-", "0"} \subseteq cc.fl)
      /\ m \in Nat /\ pl \in Nat /\ w \in Nat /\ n \in Nat /\ n <= w
  BY LenProperties DEF IsField
<1>2. " " \in Char /\ "0" \in Char
  BY DEF Char
<1>3. /\ p1 \in Seq(Seq(Char)) /\ p3 \in Seq(Seq(Char))
      /\ p4 \in Seq(Seq(Char)) /\ p6 \in Seq(Seq(Char))
      /\ cc.fl \cap {"-", "0"} # {} => L(p1) = 0
      /\ cc.fl \cap {"-", "0"} = {} => L(p1) = w - n
      /\ P!Toggle(cc.fl, "0") \cap {"-", "0"} # {} => L(p3) = 0
      /\ P!Toggle(cc.fl, "0") \cap {"-", "0"} = {} => L(p3) = w - n
      /\ L(p4) = cp - m
      /\ P!Toggle(cc.fl, "-") \cap {"-", "0"} # {} => L(p6) = 0
      /\ P!Toggle(cc.fl, "-") \cap {"-", "0"} = {} => L(p6) = w - n
  <2>1. {} \cap {"-", "0"} = {}
    OBVIOUS
  <2> HIDE DEF n, m, pl, cp
  <2>2. \A fl : /\ P!Pad(" ", w, n, fl) \in Seq(Seq(Char))
                /\ fl \cap {"-", "0"} # {} => L(P!Pad(" ", w, n, fl)) = 0
                /\ fl \cap {"-", "0"} = {} => L(P!Pad(" ", w, n, fl)) = w - n
    BY <1>1, <1>2, PadAdds
  <2>3. \A fl : /\ P!Pad("0", w, n, fl) \in Seq(Seq(Char))
                /\ fl \cap {"-", "0"} # {} => L(P!Pad("0", w, n, fl)) = 0
                /\ fl \cap {"-", "0"} = {} => L(P!Pad("0", w, n, fl)) = w - n
    BY <1>1, <1>2, PadAdds
  <2>4. p4 \in Seq(Seq(Char)) /\ L(p4) = cp - m
    BY <1>1, <1>2, <2>1, PadAdds, ZenonT(20)
  <2> QED BY <2>2, <2>3, <2>4
<1>4. p2 \in Seq(Seq(Char)) /\ L(p2) = pl /\ p5 \in Seq(Seq(Char)) /\ L(p5) = m
  BY <1>1, OneText
<1>5. P!Emit(cc, w) = ((((p1 \o p2) \o p3) \o p4) \o p5) \o p6
  BY DEF P!Emit
<1>6. \/ L(p1) = w - n /\ L(p3) = 0 /\ L(p6) = 0
      \/ L(p3) = w - n /\ L(p1) = 0 /\ L(p6) = 0
      \/ L(p6) = w - n /\ L(p1) = 0 /\ L(p3) = 0
  <2>1. CASE "-" \in cc.fl
    <3>1. /\ cc.fl \cap {"-", "0"} # {} /\ P!Toggle(cc.fl, "0") \cap {"-", "0"} # {}
          /\ P!Toggle(cc.fl, "-") \cap {"-", "0"} = {}
      BY <1>1, <2>1 DEF P!Toggle
    <3> HIDE DEF n, p1, p3, p6, L
    <3> QED BY <1>3, <3>1
  <2>2. CASE "0" \in cc.fl
    <3>1. /\ cc.fl \cap {"-", "0"} # {} /\ P!Toggle(cc.fl, "-") \cap {"-", "0"} # {}
          /\ P!Toggle(cc.fl, "0") \cap {"-", "0"} = {}
      BY <1>1, <2>2 DEF P!Toggle
    <3> HIDE DEF n, p1, p3, p6, L
    <3> QED BY <1>3, <3>1
  <2>3. CASE "-" \notin cc.fl /\ "0" \notin cc.fl
    <3>1. /\ cc.fl \cap {"-", "0"} = {} /\ P!Toggle(cc.fl, "0") \cap {"-", "0"} # {}
          /\ P!Toggle(cc.fl, "-") \cap {"-", "0"} # {}
      BY <2>3 DEF P!Toggle
    <3> HIDE DEF n, p1, p3, p6, L
    <3> QED BY <1>3, <3>1
  <2> QED BY <2>1, <2>2, <2>3
<1> HIDE DEF p1, p2, p3, p4, p5, p6, L, m, pl, cp
<1>7. /\ P!Emit(cc, w) \in Seq(Seq(Char))
      /\ L(P!Emit(cc, w)) = L(p1) + L(p2) + L(p3) + L(p4) + L(p5) + L(p6)
  <2> DEFINE q2 == p1 \o p2
             q3 == q2 \o p3
             q4 == q3 \o p4
             q5 == q4 \o p5
             q6 == q5 \o p6
  <2>1. q2 \in Seq(Seq(Char)) /\ L(q2) = L(p1) + L(p2)
    BY <1>3, <1>4, FlattenLength DEF L
  <2>6. P!Emit(cc, w) = q6
    BY <1>5 DEF q5, q4, q3, q2
  <2> HIDE DEF q2
  <2>2. q3 \in Seq(Seq(Char)) /\ L(q3) = L(q2) + L(p3)
    BY <1>3, <2>1, FlattenLength DEF L
  <2> HIDE DEF q3
  <2>3. q4 \in Seq(Seq(Char)) /\ L(q4) = L(q3) + L(p4)
    BY <1>3, <2>2, FlattenLength DEF L
  <2> HIDE DEF q4
  <2>4. q5 \in Seq(Seq(Char)) /\ L(q5) = L(q4) + L(p5)
    BY <1>4, <2>3, FlattenLength DEF L
  <2> HIDE DEF q5
  <2>5. q6 \in Seq(Seq(Char)) /\ L(q6) = L(q5) + L(p6)
    BY <1>3, <2>4, FlattenLength DEF L
  <2> HIDE DEF q6
  <2> QED BY <2>1, <2>2, <2>3, <2>4, <2>5, <2>6
<1>8. L(p1) + pl + L(p3) + (cp - m) + m + L(p6) = w
  BY <1>1, <1>6, SixWrites
<1>9. L(P!Emit(cc, w)) = w
  <2> DEFINE x == L(P!Emit(cc, w))
  <2>1. x = L(p1) + pl + L(p3) + (cp - m) + m + L(p6)
    BY <1>3, <1>4, <1>7
  <2> QED BY <1>8, <2>1
<1> QED BY <1>7, <1>9 DEF L

-----------------------------------------------------------------------------
(* The parts of a format                                                   *)

\* Every call has a format of parts and arguments of LongBits bits.
LEMMA CallTyped ==
  ASSUME call \in PrintCalls
  PROVE  /\ P!fmt \in Seq(P!Parts) /\ Len(P!fmt) \in Nat
         /\ call.args \in Seq(0 .. P!UINTMAX - 1) /\ Len(call.args) \in Nat
         /\ P!GivesArguments(P!fmt, call.args)
         /\ \A k \in 1 .. Len(P!fmt) : P!fmt[k] \in P!Parts
         /\ \A i \in 1 .. Len(call.args) : call.args[i] \in 0 .. P!UINTMAX - 1
         /\ DOMAIN P!fmt = 1 .. Len(P!fmt) /\ DOMAIN call.args = 1 .. Len(call.args)
<1>1. /\ P!fmt \in Seq(P!Parts) /\ call.args \in Seq(0 .. P!UINTMAX - 1)
      /\ P!GivesArguments(P!fmt, call.args)
  BY LibraryAssumption DEF P!PrintfAssumption, P!fmt
<1> QED BY <1>1, LenProperties, ElementOfSeq

\* A part is a text or a directive.
LEMMA PartTyped ==
  ASSUME NEW d \in P!Parts
  PROVE  \/ d.kind = "text" /\ d.text \in Seq(Char)
         \/ /\ d.kind = "directive" /\ d.pos \in 0 .. 9 /\ d.w \in P!Stars /\ d.p \in P!Stars
            /\ d.prefix \in DOMAIN P!SignedType
<1>1. CASE d \in [kind : {"text"}, text : Seq(STRING)]
  <2>1. STRING \subseteq Char
    BY DEF Char
  <2> QED BY <1>1, <2>1, SeqMonotonic
<1>2. CASE d \notin [kind : {"text"}, text : Seq(STRING)]
  BY <1>2 DEF P!Parts, P!NL_ARGMAX
<1> QED BY <1>1, <1>2

\* A width or precision is absent, a number, the next argument or a numbered one.
LEMMA StarTyped ==
  ASSUME NEW star \in P!Stars
  PROVE  /\ star.kind \in {"absent", "next", "number", "arg"}
         /\ star.kind = "number" => star.n \in Nat
         /\ star.kind = "arg" => star.n \in 1 .. 9
         /\ P!Needs(star) \in 0 .. 1
         /\ (star.kind = "next") => P!Needs(star) = 1
         /\ (star.kind # "next") => P!Needs(star) = 0
BY DEF P!Stars, P!Needs, P!NL_ARGMAX

\* The conversions of the table states.
LEMMA Conversions ==
  ASSUME NEW d, P!States(d.prefix, d.conv) # "none"
  PROVE  d.conv \in {"d", "i", "u", "o", "x", "X", "p", "c", "s", "n"}
<1>1. SUFFICES ASSUME d.conv \notin {"d", "i", "u", "o", "x", "X", "p", "c", "s", "n"}
               PROVE  P!States(d.prefix, d.conv) = "none"
  OBVIOUS
<1>2. /\ ~(d.conv \in {"d", "i"}) /\ ~(d.conv \in {"o", "u", "x", "X"}) /\ d.conv # "n"
      /\ d.conv # "s" /\ d.conv # "c" /\ d.conv # "p"
  BY <1>1
<1> QED BY <1>2, Zenon DEF P!States

\* A directive that is not invalid.
LEMMA ValidDirective ==
  ASSUME NEW d, ~P!Invalid(d)
  PROVE  /\ P!States(d.prefix, d.conv) # "none"
         /\ d.conv \in {"d", "i", "u", "o", "x", "X", "p", "c", "s", "n"}
         /\ d.pos > 0 => d.w.kind # "next" /\ d.p.kind # "next"
<1>1. P!States(d.prefix, d.conv) # "none"
  BY DEF P!Invalid
<1>2. d.pos > 0 => d.w.kind # "next" /\ d.p.kind # "next"
  BY DEF P!Invalid, P!NumberedInside, P!NumberedBefore
<1> QED BY <1>1, <1>2, Conversions

\* The value of a width or precision taken from an argument is an integer.
LEMMA StarValueTyped ==
  ASSUME call \in PrintCalls, NEW star \in P!Stars, star.kind # "absent", NEW a,
         star.kind = "next" => a \in 1 .. Len(call.args),
         \A i \in 1 .. 9 : nl_arg[i] \in Int
  PROVE  P!StarValue(star, a) \in Int
<1>0. IntBits \in 1 .. LongBits
  BY PrintfConstants
<1>1. CASE star.kind = "number"
  <2>1. P!StarValue(star, a) = P!GetInt(star.n)
    BY <1>1, Zenon DEF P!StarValue
  <2>2. star.n \in Nat
    BY <1>1, StarTyped
  <2> QED BY <2>1, <2>2 DEF P!GetInt
<1>2. CASE star.kind = "next"
  <2>1. P!StarValue(star, a) = P!Signed(call.args[a], IntBits)
    <3>1. star.kind # "number" /\ star.kind # "arg"
      BY <1>2
    <3> QED BY <1>2, <3>1, Zenon DEF P!StarValue
  <2>2. call.args[a] \in Int
    <3>1. a \in 1 .. Len(call.args)
      BY <1>2
    <3>2. call.args[a] \in 0 .. P!UINTMAX - 1
      BY <3>1, CallTyped
    <3> QED BY <3>2, Limits
  <2> QED BY <1>0, <2>1, <2>2, SignedTyped
<1>3. CASE star.kind = "arg"
  <2>1. P!StarValue(star, a) = P!Signed(nl_arg[star.n], IntBits)
    <3>1. star.kind # "number" /\ star.kind # "next"
      BY <1>3
    <3> QED BY <1>3, <3>1, Zenon DEF P!StarValue
  <2>2. nl_arg[star.n] \in Int
    BY <1>3, StarTyped
  <2> QED BY <1>0, <2>1, <2>2, SignedTyped
<1> QED BY <1>1, <1>2, <1>3, StarTyped

\* The width, the precision and the flags a directive is printed with.
LEMMA WidthTyped ==
  ASSUME call \in PrintCalls, NEW d, d.w \in P!Stars, d.p \in P!Stars,
         d.w.kind = "next" => ap \in 1 .. Len(call.args),
         d.p.kind = "next" => ap + P!Needs(d.w) \in 1 .. Len(call.args),
         \A i \in 1 .. 9 : nl_arg[i] \in Int
  PROVE  /\ P!Width(d) \in Int /\ P!Precision(d) \in Int /\ P!Explicit(d) \in BOOLEAN
         /\ ~({"-", "0"} \subseteq P!Flags(d))
<1>1. P!StarWidth(d) \in Int
  <2>1. CASE d.w.kind = "absent"
    BY <2>1 DEF P!StarWidth
  <2>2. CASE d.w.kind # "absent"
    BY <2>2, StarValueTyped DEF P!StarWidth
  <2> QED BY <2>1, <2>2
<1>2. P!Width(d) \in Int
  <2>1. CASE P!StarWidth(d) < 0
    <3>1. -P!StarWidth(d) \in Int /\ IntBits \in 1 .. LongBits
      BY <1>1, PrintfConstants
    <3>2. P!Signed(-P!StarWidth(d), IntBits) \in Int
      BY <3>1, SignedTyped
    <3> QED BY <2>1, <3>2 DEF P!Width
  <2>2. CASE ~(P!StarWidth(d) < 0)
    BY <1>1, <2>2 DEF P!Width
  <2> QED BY <2>1, <2>2
<1>3. P!Precision(d) \in Int
  <2>1. CASE d.p.kind = "absent"
    BY <2>1 DEF P!Precision
  <2>2. CASE d.p.kind # "absent"
    BY <2>2, StarValueTyped DEF P!Precision
  <2> QED BY <2>1, <2>2
<1>4. P!Explicit(d) \in BOOLEAN
  BY DEF P!Explicit
<1>5. ~({"-", "0"} \subseteq P!Flags(d))
  BY DEF P!Flags
<1> QED BY <1>2, <1>3, <1>4, <1>5

-----------------------------------------------------------------------------
(* Where the arguments of a part are                                       *)

\* A directive takes a number of arguments.
LEMMA TakesTyped ==
  ASSUME NEW d \in P!Parts
  PROVE  P!Takes(d) \in Nat
<1>1. CASE d.kind = "text"
  BY <1>1 DEF P!Takes
<1>2. CASE d.kind # "text"
  <2>1. d.w \in P!Stars /\ d.p \in P!Stars
    BY <1>2, PartTyped
  <2>2. P!Needs(d.w) \in 0 .. 1 /\ P!Needs(d.p) \in 0 .. 1
    BY <2>1, StarTyped
  <2> QED BY <1>2, <2>2 DEF P!Takes
<1> QED BY <1>1, <1>2

\* Every part takes its arguments after those of the parts before it.
LEMMA ArgAtValues ==
  ASSUME NEW f \in Seq(P!Parts)
  PROVE  /\ P!ArgAt(f, 1) = 1
         /\ \A k \in 1 .. Len(f) : /\ P!ArgAt(f, k) \in Nat
                                   /\ P!ArgAt(f, k + 1) = P!ArgAt(f, k) + P!Takes(f[k])
<1> DEFINE N == Len(f)
           J == 1 .. N + 1
           V == Nat
           base == 1
           rank == [i \in J |-> i - 1]
           prev == [i \in J |-> i - 1]
           T(i) == IF i = 1 THEN 0 ELSE P!Takes(f[i - 1])
           step == [x \in V \X J |-> x[1] + T(x[2])]
           a == CHOOSE g : g = [i \in 1 .. Len(f) + 1 |-> IF i = 1 THEN 1
                                                         ELSE g[i - 1] + P!Takes(f[i - 1])]
<1>0. N \in Nat /\ \A i \in 1 .. N : P!Takes(f[i]) \in Nat
  BY LenProperties, ElementOfSeq, TakesTyped
<1>00. \A i \in J : T(i) \in Nat
  <2> SUFFICES ASSUME NEW i \in J, i # 1 PROVE P!Takes(f[i - 1]) \in Nat
    OBVIOUS
  <2>1. i - 1 \in 1 .. N
    BY <1>0
  <2> QED BY <1>0, <2>1
<1>1. Recursion(J, V, N, rank, prev, base, step)
  <2>1. step \in [V \X J -> V]
    <3> HIDE DEF T, J
    <3> QED BY <1>00
  <2> HIDE DEF step
  <2> QED BY <1>0, <2>1 DEF Recursion
<1>2. PICK g \in [J -> V] :
        \A j \in J : g[j] = IF rank[j] = 0 THEN base ELSE step[<<g[prev[j]], j>>]
  <2> HIDE DEF J, V, rank, prev, base, step
  <2> QED BY <1>1, RecursionExists
<1>3. ASSUME NEW i \in J PROVE g[i] = IF i = 1 THEN 1 ELSE g[i - 1] + P!Takes(f[i - 1])
  <2>1. i # 1 => i - 1 \in J
    BY <1>0
  <2>2. i # 1 => g[i - 1] \in V
    BY <2>1
  <2>3. rank[i] = i - 1 /\ prev[i] = i - 1
    OBVIOUS
  <2>4. g[i] = IF rank[i] = 0 THEN base ELSE step[<<g[prev[i]], i>>]
    BY <1>2
  <2>5. CASE i = 1
    BY <2>3, <2>4, <2>5
  <2>6. CASE i # 1
    <3>1. g[i] = step[<<g[i - 1], i>>]
      <4> HIDE DEF step, T
      <4> QED BY <2>3, <2>4, <2>6
    <3>2. step[<<g[i - 1], i>>] = g[i - 1] + T(i)
      <4> HIDE DEF T
      <4> QED BY <2>2, <2>6
    <3> QED BY <2>6, <3>1, <3>2
  <2> QED BY <2>5, <2>6
<1>4. g = [i \in 1 .. Len(f) + 1 |-> IF i = 1 THEN 1 ELSE g[i - 1] + P!Takes(f[i - 1])]
  <2> HIDE DEF rank, prev, step, T
  <2> QED BY <1>3
<1>5. a = [i \in 1 .. Len(f) + 1 |-> IF i = 1 THEN 1 ELSE a[i - 1] + P!Takes(f[i - 1])]
  <2> HIDE DEF J, V, rank, prev, base, step
  <2> QED BY <1>4
<1>6. \A k : P!ArgAt(f, k) = a[k]
  BY DEF P!ArgAt
<1> HIDE DEF a, rank, prev, step, base, T
<1>7. a[1] = 1 /\ \A k \in 1 .. N : a[k + 1] = a[k] + P!Takes(f[k])
  <2>1. a[1] = 1
    BY <1>0, <1>5
  <2>2. ASSUME NEW k \in 1 .. N PROVE a[k + 1] = a[k] + P!Takes(f[k])
    <3>1. k + 1 \in 1 .. N + 1 /\ k + 1 # 1 /\ (k + 1) - 1 = k
      BY <1>0
    <3> QED BY <1>5, <3>1
  <2> QED BY <2>1, <2>2
<1>8. \A k \in 1 .. N : a[k] \in Nat
  <2> DEFINE R == {n \in Nat : n + 1 \in 1 .. N => a[n + 1] \in Nat}
  <2>1. 0 \in R
    BY <1>7
  <2>2. ASSUME NEW n \in Nat, n \in R PROVE n + 1 \in R
    <3> SUFFICES ASSUME (n + 1) + 1 \in 1 .. N PROVE a[(n + 1) + 1] \in Nat
      OBVIOUS
    <3>1. n + 1 \in 1 .. N
      BY <1>0
    <3>2. a[(n + 1) + 1] = a[n + 1] + P!Takes(f[n + 1]) /\ a[n + 1] \in Nat
      BY <1>7, <2>2, <3>1
    <3> QED BY <1>0, <3>1, <3>2
  <2> HIDE DEF R
  <2>3. Nat \subseteq R
    BY <2>1, <2>2, AllNumbers
  <2>4. ASSUME NEW k \in 1 .. N PROVE a[k] \in Nat
    <3>1. k - 1 \in Nat /\ (k - 1) + 1 = k
      OBVIOUS
    <3>2. k - 1 \in R
      BY <2>3, <3>1
    <3> QED BY <3>1, <3>2 DEF R
  <2> QED BY <2>4
<1> QED BY <1>6, <1>7, <1>8

\* So the arguments of a part end before those of all are at an end.
LEMMA ArgAtOrder ==
  ASSUME NEW f \in Seq(P!Parts)
  PROVE  \A k \in 1 .. Len(f) + 1 : /\ P!ArgAt(f, k) \in Nat /\ P!ArgAt(f, k) >= 1
                                    /\ P!ArgAt(f, k) <= P!ArgAt(f, Len(f) + 1)
<1> DEFINE N == Len(f)
           b == [k \in 1 .. N + 1 |-> P!ArgAt(f, k)]
<1>0. N \in Nat /\ \A i \in 1 .. N : P!Takes(f[i]) \in Nat
  BY LenProperties, ElementOfSeq, TakesTyped
<1>1. b[1] = 1 /\ \A k \in 1 .. N : b[k] \in Nat /\ b[k + 1] = b[k] + P!Takes(f[k])
  <2>1. \A k \in 1 .. N : k \in 1 .. N + 1 /\ k + 1 \in 1 .. N + 1
    BY <1>0
  <2>2. 1 \in 1 .. N + 1
    BY <1>0
  <2> QED BY <1>0, <2>1, <2>2, ArgAtValues
<1> HIDE DEF b
<1> DEFINE R == {n \in Nat : n + 1 <= N + 1 =>
                     /\ b[n + 1] \in Nat /\ b[n + 1] >= 1
                     /\ \A k \in 1 .. n + 1 : b[k] \in Nat /\ b[k] <= b[n + 1]}
<1>2. 0 \in R
  BY <1>1
<1>3. ASSUME NEW n \in Nat, n \in R PROVE n + 1 \in R
  <2> SUFFICES ASSUME (n + 1) + 1 <= N + 1
               PROVE  /\ b[(n + 1) + 1] \in Nat /\ b[(n + 1) + 1] >= 1
                      /\ \A k \in 1 .. (n + 1) + 1 : b[k] \in Nat /\ b[k] <= b[(n + 1) + 1]
    OBVIOUS
  <2>1. n + 1 \in 1 .. N /\ n + 1 <= N + 1
    BY <1>0
  <2>2. b[(n + 1) + 1] = b[n + 1] + P!Takes(f[n + 1]) /\ P!Takes(f[n + 1]) \in Nat
    BY <1>0, <1>1, <2>1
  <2>3. /\ b[n + 1] \in Nat /\ b[n + 1] >= 1
        /\ \A k \in 1 .. n + 1 : b[k] \in Nat /\ b[k] <= b[n + 1]
    BY <1>3, <2>1
  <2>4. b[(n + 1) + 1] \in Nat /\ b[(n + 1) + 1] >= b[n + 1]
    BY <2>2, <2>3
  <2>5. ASSUME NEW k \in 1 .. (n + 1) + 1 PROVE b[k] \in Nat /\ b[k] <= b[(n + 1) + 1]
    <3>1. CASE k = (n + 1) + 1
      BY <2>4, <3>1
    <3>2. CASE k # (n + 1) + 1
      <4>1. k \in 1 .. n + 1
        BY <3>2
      <4> QED BY <2>3, <2>4, <4>1
    <3> QED BY <3>1, <3>2
  <2> QED BY <2>3, <2>4, <2>5
<1> HIDE DEF R
<1>4. Nat \subseteq R
  BY <1>2, <1>3, AllNumbers
<1>5. N \in R
  BY <1>0, <1>4
<1>6. ASSUME NEW k \in 1 .. N + 1 PROVE b[k] \in Nat /\ b[k] >= 1 /\ b[k] <= b[N + 1]
  <2>1. b[k] \in Nat /\ b[k] <= b[N + 1]
    BY <1>0, <1>5 DEF R
  <2>2. k - 1 \in Nat /\ (k - 1) + 1 = k
    OBVIOUS
  <2>3. k - 1 \in R
    BY <1>4, <2>2
  <2> QED BY <1>0, <2>1, <2>2, <2>3 DEF R
<1>7. N + 1 \in 1 .. N + 1
  BY <1>0
<1> QED BY <1>0, <1>6, <1>7 DEF b

-----------------------------------------------------------------------------
(* The invariant of printf_core                                            *)

\* Every directive of the format has a number, or none has.
AllNumbered ==
  \A k \in DOMAIN P!fmt : P!fmt[k].kind = "directive" =>
    /\ P!fmt[k].pos \in DOMAIN call.args
    /\ \A star \in {P!fmt[k].w, P!fmt[k].p} : star.kind = "arg" => star.n \in DOMAIN call.args

PrintTyped ==
  /\ call \in PrintCalls /\ file \in Files /\ size \in Buffers \cup {0}
  /\ pass \in {"types", "print", "done"} /\ at \in 1 .. Len(P!fmt) + 1
  /\ cnt \in 0 .. P!INT_MAX /\ l \in 0 .. P!INT_MAX /\ l10n \in BOOLEAN
  /\ ap \in 1 .. Len(call.args) + 1
  /\ DOMAIN nl_type = 1 .. 9 /\ nl_arg \in [1 .. 9 -> Int]
  /\ text \in Seq(Char) /\ [str |-> str, offset |-> offset] \in BufferOf(size)
  /\ stored \in {P!Nothing} \cup 0 .. P!UINTMAX - 1 /\ ret \in -1 .. P!INT_MAX

\* What is printed is what is counted.
Counted ==
  /\ P!Running => cnt + l <= P!INT_MAX /\ ret = P!Nothing
  /\ pass = "types" => text = <<>> /\ ap = 1
  /\ pass = "print" => cnt + l = Len(text)

\* The buffer holds the text, and at the end the NUL as well.
Buffered ==
  file = "str" => /\ P!Running => HoldsText([str |-> str, offset |-> offset], text, size)
                  /\ pass = "done" => P!BufferBounded

\* The arguments of the next part are where pop_arg will look, and the first pass has
\* the type of every numbered argument.
Found ==
  IF AllNumbered
  THEN /\ ap = 1
       /\ \A i \in 1 .. 9 : nl_type[i] # "none" => i \in DOMAIN call.args
       /\ \A k \in DOMAIN P!fmt : P!fmt[k].kind = "directive" =>
            /\ pass = "types" /\ k < at => l10n /\ nl_type[P!fmt[k].pos] # "none"
            /\ pass = "print" => nl_arg[P!fmt[k].pos] \in 0 .. P!UINTMAX - 1
  ELSE /\ pass = "types" => ~l10n
       /\ pass = "print" => ap = P!ArgAt(P!fmt, at)

PrintInv == PrintTyped /\ Counted /\ Buffered /\ Found

\* What the invariant says of the state, as the steps use it.
LEMMA PrintFacts ==
  ASSUME PrintInv
  PROVE  /\ PrintTyped /\ Counted /\ Buffered /\ Found
         /\ size \in Nat /\ P!INT_MAX \in Nat /\ cnt \in Nat /\ l \in Nat /\ at \in Nat
         /\ Len(P!fmt) \in Nat /\ Len(call.args) \in Nat /\ ap \in Nat /\ text \in Seq(Char)
         /\ call \in PrintCalls
<1>1. PrintTyped /\ Counted /\ Buffered /\ Found
  BY DEF PrintInv
<1>2. size \in Nat
  <2>1. Buffers \subseteq Nat
    BY LibraryAssumption DEF P!PrintfAssumption
  <2> QED BY <1>1, <2>1 DEF PrintTyped
<1>3. P!INT_MAX \in Nat
  BY Limits
<1>4. call \in PrintCalls /\ cnt \in Nat /\ l \in Nat /\ text \in Seq(Char)
  BY <1>1, <1>3 DEF PrintTyped
<1>5. Len(P!fmt) \in Nat /\ Len(call.args) \in Nat
  BY <1>4, CallTyped
<1>6. at \in Nat /\ ap \in Nat
  BY <1>1, <1>5 DEF PrintTyped
<1> QED BY <1>1, <1>2, <1>3, <1>4, <1>5, <1>6

\* How much of a text there is room for.
LEMMA RoomOfBuffer ==
  ASSUME NEW y \in Nat, NEW n \in Nat
  PROVE  P!Min({y, P!Max({0, n - 1})}) = IF n = 0 THEN 0 ELSE IF y < n THEN y ELSE n - 1
<1> DEFINE x == P!Max({0, n - 1})
<1>1. P!Max({0, n - 1}) = IF 0 >= n - 1 THEN 0 ELSE n - 1
  BY OfTwo
<1>2. x \in Nat /\ (n > 0 => x = n - 1) /\ (n = 0 => x = 0)
  BY <1>1
<1> HIDE DEF x
<1>3. P!Min({y, x}) = IF y <= x THEN y ELSE x
  <2>1. y \in Int /\ x \in Int
    BY <1>2
  <2> QED BY <2>1, OfTwo
<1>4. P!Min({y, x}) = IF n = 0 THEN 0 ELSE IF y < n THEN y ELSE n - 1
  BY <1>2, <1>3
<1> QED BY <1>4 DEF x

\* A call begins.
LEMMA PrintStarts ==
  ASSUME NEW f \in Files, NEW n \in Buffers \cup {0}, NEW g \in PrintCalls, P!Start(g, f, n)
  PROVE  PrintInv
<1>0. /\ call \in PrintCalls /\ call = g /\ file = f /\ size = n
      /\ pass = "types" /\ at = 1 /\ cnt = 0 /\ l = 0 /\ l10n = FALSE /\ ap = 1
      /\ nl_type = [i \in 1 .. 9 |-> "none"] /\ nl_arg = [i \in 1 .. 9 |-> -1]
      /\ text = <<>> /\ str = [i \in 0 .. size - 1 |-> "old"] /\ offset = 0
      /\ stored = -1 /\ ret = -1
  BY DEF P!Start, P!NL_ARGMAX, P!Nothing
<1>00. P!INT_MAX \in Nat /\ Len(P!fmt) \in Nat /\ Len(call.args) \in Nat /\ size \in Nat
  BY <1>0, CallTyped, Limits, LibraryAssumption DEF P!PrintfAssumption
<1>1. text \in Seq(Char) /\ Len(text) = 0 /\ "old" \in Char
  BY <1>0 DEF Char
<1>2. [str |-> str, offset |-> offset] \in BufferOf(size)
  BY <1>0, <1>00, <1>1 DEF BufferOf
<1>3. PrintTyped
  <2>1. nl_arg \in [1 .. 9 -> Int] /\ DOMAIN nl_type = 1 .. 9
    BY <1>0
  <2>2. at \in 1 .. Len(P!fmt) + 1 /\ ap \in 1 .. Len(call.args) + 1
    BY <1>0, <1>00
  <2>3. cnt \in 0 .. P!INT_MAX /\ l \in 0 .. P!INT_MAX /\ ret \in -1 .. P!INT_MAX
    BY <1>0, <1>00
  <2>4. stored \in {P!Nothing} \cup 0 .. P!UINTMAX - 1
    BY <1>0 DEF P!Nothing
  <2>5. file \in Files /\ size \in Buffers \cup {0} /\ pass \in {"types", "print", "done"}
        /\ l10n \in BOOLEAN
    BY <1>0
  <2> QED BY <1>0, <1>1, <1>2, <2>1, <2>2, <2>3, <2>4, <2>5 DEF PrintTyped
<1>4. Counted
  BY <1>0, <1>00 DEF Counted, P!Running, P!Nothing
<1>5. Buffered
  <2>1. HoldsText([str |-> str, offset |-> offset], text, size)
    BY <1>0, <1>00, <1>1, <1>2 DEF HoldsText
  <2> QED BY <1>0, <2>1 DEF Buffered
<1>6. Found
  <2>1. \A k \in DOMAIN P!fmt : ~(k < at)
    BY <1>0, CallTyped
  <2> QED BY <1>0, <2>1 DEF Found
<1> QED BY <1>3, <1>4, <1>5, <1>6 DEF PrintInv

\* The invariant holds before the first step.
LEMMA PrintInit ==
  LibraryInit => PrintInv
<1> SUFFICES ASSUME LibraryInit PROVE PrintInv
  OBVIOUS
<1>1. CASE routine = "printf"
  BY <1>1, PrintStarts DEF LibraryInit, P!Init
<1>2. CASE routine # "printf"
  <2>1. AnyCall \in PrintCalls /\ "sbi" \in Files
    BY LibraryAssumption DEF AnyCall, P!PrintfAssumption
  <2>2. P!Start(AnyCall, "sbi", 0)
    BY <1>2 DEF LibraryInit
  <2> QED BY <2>1, <2>2, PrintStarts
<1> QED BY <1>1, <1>2

\* A return puts the NUL where there is a place for it.
LEMMA ReturnKeeps ==
  ASSUME PrintInv, P!Running, NEW r \in -1 .. P!INT_MAX, r >= 0 => pass = "print", P!Return(r)
  PROVE  PrintInv'
<1>0. /\ pass' = "done" /\ ret' = r
      /\ str' = IF file = "str" /\ pass = "print" /\ offset < size
                THEN [str EXCEPT ![offset] = "NUL"] ELSE str
      /\ call' = call /\ file' = file /\ size' = size /\ at' = at /\ cnt' = cnt /\ l' = l
      /\ l10n' = l10n /\ ap' = ap /\ nl_type' = nl_type /\ nl_arg' = nl_arg /\ text' = text
      /\ offset' = offset /\ stored' = stored
  BY DEF P!Return
<1>1. P!fmt' = P!fmt
  BY <1>0 DEF P!fmt
<1>00. /\ PrintTyped /\ Buffered /\ Found /\ size \in Nat /\ text \in Seq(Char)
       /\ pass = "types" => text = <<>>
  BY PrintFacts DEF Counted
<1>2. /\ offset \in Nat /\ str \in [0 .. size - 1 -> Char] /\ (size > 0 => offset < size)
      /\ DOMAIN str = 0 .. size - 1 /\ DOMAIN str' = 0 .. size - 1
  BY <1>0, <1>00 DEF PrintTyped, BufferOf
<1>3. [str |-> str', offset |-> offset'] \in BufferOf(size')
  <2>1. "NUL" \in Char
    BY DEF Char
  <2>2. str' \in [0 .. size - 1 -> Char]
    BY <1>0, <1>2, <2>1
  <2> QED BY <1>0, <1>2, <2>2 DEF BufferOf
<1>4. PrintTyped'
  BY <1>0, <1>00, <1>1, <1>3 DEF PrintTyped
<1>5. Counted'
  BY <1>0 DEF Counted, P!Running
<1>6. Buffered'
  <2> SUFFICES ASSUME file = "str" PROVE P!BufferBounded'
    BY <1>0 DEF Buffered, P!Running
  <2>1. /\ offset = IF size = 0 THEN 0 ELSE IF Len(text) < size THEN Len(text) ELSE size - 1
        /\ \A i \in 0 .. size - 1 : str[i] = IF i < offset THEN text[i + 1] ELSE "old"
    BY <1>00 DEF Buffered, HoldsText
  <2>2. Len(text) \in Nat
    BY <1>00, LenProperties
  <2>3. offset = P!Min({Len(text), P!Max({0, size - 1})})
    BY <1>00, <2>1, <2>2, RoomOfBuffer
  <2>4. ASSUME NEW i \in 0 .. size - 1
        PROVE  IF i < offset THEN str'[i] = text[i + 1]
               ELSE str'[i] = "old" \/ (str'[i] = "NUL" /\ i = offset)
    BY <1>0, <1>2, <2>1
  <2>5. ret' >= 0 /\ size > 0 => str'[offset] = "NUL"
    <3> SUFFICES ASSUME ret' >= 0, size > 0 PROVE str'[offset] = "NUL"
      OBVIOUS
    <3>1. pass = "print" /\ offset < size /\ offset \in DOMAIN str
      BY <1>00, <1>0, <1>2
    <3>2. str' = [str EXCEPT ![offset] = "NUL"]
      BY <1>0, <3>1
    <3> QED BY <3>1, <3>2
  <2>6. P!BufferBounded' = (file' = "str" =>
          /\ offset' = P!Min({Len(text'), P!Max({0, size' - 1})})
          /\ \A i \in DOMAIN str' : IF i < offset' THEN str'[i] = text'[i + 1]
                                    ELSE str'[i] = "old" \/ (str'[i] = "NUL" /\ i = offset')
          /\ ret' >= 0 /\ size' > 0 => str'[offset'] = "NUL")
    BY DEF P!BufferBounded, P!Min, P!Max
  <2> QED BY <1>0, <1>2, <2>3, <2>4, <2>5, <2>6
<1>7. Found'
  BY <1>0, <1>00, <1>1 DEF Found, AllNumbered
<1> QED BY <1>4, <1>5, <1>6, <1>7 DEF PrintInv

-----------------------------------------------------------------------------
(* The steps of printf_core                                                *)

\* What is written is appended, and the buffer holds it.
LEMMA OutKeeps ==
  ASSUME PrintInv, P!Running, NEW ss \in Seq(Seq(Char)), P!Out(ss)
  PROVE  /\ text' \in Seq(Char)
         /\ Len(text') = Len(text) + Len(P!FlattenSeq(ss))
         /\ [str |-> str', offset |-> offset'] \in BufferOf(size)
         /\ file = "str" => HoldsText([str |-> str', offset |-> offset'], text', size)
<1>0. /\ PrintTyped /\ Buffered /\ size \in Nat /\ text \in Seq(Char)
      /\ [str |-> str, offset |-> offset] \in BufferOf(size)
  BY PrintFacts DEF PrintTyped
<1>1. text' = text \o P!FlattenSeq(ss) /\ P!FlattenSeq(ss) \in Seq(Char)
  BY FlattenIsText DEF P!Out
<1>2. text' \in Seq(Char) /\ Len(text') = Len(text) + Len(P!FlattenSeq(ss))
  BY <1>0, <1>1, ConcatProperties
<1>3. CASE file = "str"
  <2> DEFINE after == P!FoldLeft(P!StrWrite, [str |-> str, offset |-> offset], ss)
  <2>1. str' = after.str /\ offset' = after.offset
    BY <1>3 DEF P!Out
  <2>2. HoldsText(after, text \o P!FlattenSeq(ss), size)
    <3>1. HoldsText([str |-> str, offset |-> offset], text, size)
      BY <1>0, <1>3 DEF Buffered
    <3> QED BY <1>0, <3>1, WritesHold
  <2> HIDE DEF after
  <2>3. after \in BufferOf(size)
    BY <2>2 DEF HoldsText
  <2>4. after = [str |-> str', offset |-> offset']
    BY <2>1, <2>3 DEF BufferOf
  <2> QED BY <1>1, <1>2, <2>2, <2>3, <2>4
<1>4. CASE file # "str"
  <2>1. str' = str /\ offset' = offset
    BY <1>4 DEF P!Out
  <2> QED BY <1>0, <1>2, <1>4, <2>1
<1> QED BY <1>3, <1>4

\* Where the next part is, and what its arguments are.
LEMMA AtPart ==
  ASSUME PrintInv, at <= Len(P!fmt)
  PROVE  /\ at \in 1 .. Len(P!fmt) /\ at \in DOMAIN P!fmt /\ P!Part = P!fmt[at]
         /\ P!Part \in P!Parts /\ at + 1 \in 1 .. Len(P!fmt) + 1
<1>1. at \in 1 .. Len(P!fmt) + 1 /\ Len(P!fmt) \in Nat /\ call \in PrintCalls
  BY PrintFacts DEF PrintTyped
<1>2. at \in 1 .. Len(P!fmt)
  BY <1>1
<1> QED BY <1>1, <1>2, CallTyped DEF P!Part

\* Copying the text between two directives keeps the invariant.
LEMMA LiteralKeeps ==
  ASSUME PrintInv, P!Literal
  PROVE  PrintInv'
<1>0. PrintTyped /\ Counted /\ Buffered /\ Found
  BY PrintFacts
<1>1. /\ P!Running /\ at <= Len(P!fmt) /\ P!Part.kind = "text" /\ pass \in {"types", "print"}
  BY DEF P!Literal, P!MayGoOn, P!IsText, P!Running
<1>2. /\ at \in 1 .. Len(P!fmt) /\ at \in DOMAIN P!fmt /\ P!Part = P!fmt[at]
      /\ P!Part \in P!Parts /\ at + 1 \in 1 .. Len(P!fmt) + 1
  BY <1>1, AtPart
<1>3. P!Part.text \in Seq(Char) /\ Len(P!Part.text) \in Nat
  <2>1. P!Part.text \in Seq(Char)
    BY <1>1, <1>2, PartTyped
  <2> QED BY <2>1, LenProperties
<1>4. CASE Len(P!Part.text) > P!INT_MAX - P!Total
  <2>1. P!Return(-1)
    BY <1>4 DEF P!Literal
  <2>2. -1 \in -1 .. P!INT_MAX /\ ~(-1 >= 0)
    BY PrintFacts
  <2> QED BY <1>1, <2>1, <2>2, ReturnKeeps
<1>5. CASE ~(Len(P!Part.text) > P!INT_MAX - P!Total)
  <2> DEFINE n == Len(P!Part.text)
  <2>1. /\ cnt' = P!Total /\ l' = n /\ at' = at + 1
        /\ IF pass = "print" THEN P!Out(<<P!Part.text>>) ELSE P!NoOut
        /\ call' = call /\ file' = file /\ size' = size /\ pass' = pass /\ l10n' = l10n
        /\ ap' = ap /\ nl_type' = nl_type /\ nl_arg' = nl_arg /\ stored' = stored /\ ret' = ret
    BY <1>5 DEF P!Literal
  <2>2. P!fmt' = P!fmt /\ P!Running'
    BY <1>1, <2>1 DEF P!fmt, P!Running
  <2>3. /\ cnt \in Nat /\ l \in Nat /\ P!INT_MAX \in Nat /\ cnt + l <= P!INT_MAX
        /\ P!Total = cnt + l /\ n \in Nat
        /\ ret = P!Nothing /\ (pass = "print" => cnt + l = Len(text))
        /\ (pass = "types" => text = <<>> /\ ap = 1)
    BY <1>0, <1>1, <1>3, PrintFacts DEF Counted, P!Total
  <2>30. ~(n > P!INT_MAX - P!Total)
    BY <1>5
  <2> HIDE DEF n
  <2>4. /\ cnt' \in 0 .. P!INT_MAX /\ l' \in 0 .. P!INT_MAX /\ cnt' + l' <= P!INT_MAX
        /\ cnt' = cnt + l
    BY <2>1, <2>3, <2>30
  <2>5. CASE pass = "print"
    <3>1. P!Out(<<P!Part.text>>) /\ <<P!Part.text>> \in Seq(Seq(Char))
          /\ Len(P!FlattenSeq(<<P!Part.text>>)) = n
      BY <1>3, <2>1, <2>5, OneText DEF n
    <3>2. /\ text' \in Seq(Char) /\ Len(text') = Len(text) + n
          /\ [str |-> str', offset |-> offset'] \in BufferOf(size)
          /\ file = "str" => HoldsText([str |-> str', offset |-> offset'], text', size)
      BY <1>1, <3>1, OutKeeps
    <3>3. PrintTyped'
      BY <1>0, <1>2, <2>1, <2>2, <2>4, <3>2 DEF PrintTyped
    <3>4. Counted'
      <4>1. cnt' + l' = Len(text')
        BY <2>1, <2>3, <2>4, <2>5, <3>2
      <4> QED BY <2>1, <2>3, <2>4, <2>5, <4>1 DEF Counted
    <3>5. Buffered'
      BY <2>1, <2>2, <2>5, <3>2 DEF Buffered
    <3>6. Found'
      <4>1. ~AllNumbered => ap' = P!ArgAt(P!fmt, at + 1)
        <5>1. P!Takes(P!fmt[at]) = 0
          BY <1>1, <1>2 DEF P!Takes
        <5>2. P!fmt \in Seq(P!Parts)
          BY PrintFacts, CallTyped
        <5>3. P!ArgAt(P!fmt, at + 1) = P!ArgAt(P!fmt, at)
          BY <1>2, <5>1, <5>2, ArgAtValues
        <5> QED BY <1>0, <2>1, <2>5, <5>3 DEF Found
      <4>2. AllNumbered' <=> AllNumbered
        BY <2>1, <2>2 DEF AllNumbered
      <4> QED BY <1>0, <2>1, <2>2, <2>5, <4>1, <4>2 DEF Found
    <3> QED BY <3>3, <3>4, <3>5, <3>6 DEF PrintInv
  <2>6. CASE pass = "types"
    <3>1. text' = text /\ str' = str /\ offset' = offset
      BY <2>1, <2>6 DEF P!NoOut
    <3>3. PrintTyped'
      BY <1>0, <1>2, <2>1, <2>2, <2>4, <3>1 DEF PrintTyped
    <3>4. Counted'
      BY <2>1, <2>3, <2>4, <2>6, <3>1 DEF Counted
    <3>5. Buffered'
      BY <1>0, <1>1, <2>1, <2>2, <2>6, <3>1 DEF Buffered
    <3>6. Found'
      <4>1. AllNumbered' <=> AllNumbered
        BY <2>1, <2>2 DEF AllNumbered
      <4>2. \A k \in DOMAIN P!fmt : P!fmt[k].kind = "directive" /\ k < at' => k < at
        <5> SUFFICES ASSUME NEW k \in DOMAIN P!fmt, P!fmt[k].kind = "directive", k < at'
                     PROVE  k < at
          OBVIOUS
        <5>1. k # at
          BY <1>1, <1>2
        <5>2. k \in Nat /\ at \in Nat /\ k < at + 1
          BY <2>1, PrintFacts, CallTyped
        <5> QED BY <5>1, <5>2
      <4> QED BY <1>0, <2>1, <2>2, <2>6, <4>1, <4>2 DEF Found
    <3> QED BY <3>3, <3>4, <3>5, <3>6 DEF PrintInv
  <2> QED BY <1>1, <2>5, <2>6
<1> QED BY <1>4, <1>5

\* A directive that the code goes on with: where its arguments are.
LEMMA AtDirective ==
  ASSUME PrintInv, P!IsDirective, ~P!Invalid(P!Part)
  PROVE  /\ P!Part.kind = "directive" /\ P!Part.w \in P!Stars /\ P!Part.p \in P!Stars
         /\ P!Part.pos \in 0 .. 9 /\ P!Part.prefix \in DOMAIN P!SignedType
         /\ P!States(P!Part.prefix, P!Part.conv) # "none"
         /\ P!Part.conv \in {"d", "i", "u", "o", "x", "X", "p", "c", "s", "n"}
         /\ at \in 1 .. Len(P!fmt) /\ at \in DOMAIN P!fmt /\ P!Part = P!fmt[at]
         /\ at + 1 \in 1 .. Len(P!fmt) + 1
         /\ P!Needs(P!Part.w) \in 0 .. 1 /\ P!Needs(P!Part.p) \in 0 .. 1
         /\ AllNumbered =>
              /\ P!Part.pos \in 1 .. 9 /\ P!Part.pos \in DOMAIN call.args /\ ap = 1
              /\ P!Part.w.kind # "next" /\ P!Part.p.kind # "next"
              /\ P!Needs(P!Part.w) = 0 /\ P!Needs(P!Part.p) = 0
         /\ ~AllNumbered => P!Part.pos = 0
         /\ ~AllNumbered /\ pass = "print" =>
              /\ ap + P!Needs(P!Part.w) + P!Needs(P!Part.p) \in 1 .. Len(call.args)
              /\ ap + P!Needs(P!Part.w) + P!Needs(P!Part.p) + 1 = P!ArgAt(P!fmt, at + 1)
<1> DEFINE d == P!Part
           nw == P!Needs(d.w)
           np == P!Needs(d.p)
<1>1. at <= Len(P!fmt) /\ d.kind = "directive"
  BY DEF P!IsDirective
<1>2. /\ at \in 1 .. Len(P!fmt) /\ at \in DOMAIN P!fmt /\ d = P!fmt[at]
      /\ d \in P!Parts /\ at + 1 \in 1 .. Len(P!fmt) + 1
  BY <1>1, AtPart
<1>3. d.w \in P!Stars /\ d.p \in P!Stars /\ d.pos \in 0 .. 9 /\ d.prefix \in DOMAIN P!SignedType
  BY <1>1, <1>2, PartTyped
<1>4. /\ P!States(d.prefix, d.conv) # "none"
      /\ d.conv \in {"d", "i", "u", "o", "x", "X", "p", "c", "s", "n"}
      /\ d.pos > 0 => d.w.kind # "next" /\ d.p.kind # "next"
  BY ValidDirective
<1>5. /\ nw \in 0 .. 1 /\ np \in 0 .. 1
      /\ d.w.kind # "next" => nw = 0
      /\ d.p.kind # "next" => np = 0
  BY <1>3, StarTyped
<1>6. /\ P!fmt \in Seq(P!Parts) /\ Len(P!fmt) \in Nat /\ P!GivesArguments(P!fmt, call.args)
      /\ DOMAIN call.args = 1 .. Len(call.args) /\ Len(call.args) \in Nat
      /\ PrintTyped /\ Found /\ ap \in Nat
  BY PrintFacts, CallTyped
<1>7. ASSUME AllNumbered
      PROVE  /\ d.pos \in 1 .. 9 /\ d.pos \in DOMAIN call.args /\ ap = 1
             /\ d.w.kind # "next" /\ d.p.kind # "next" /\ nw = 0 /\ np = 0
  <2>1. d.pos \in DOMAIN call.args
    BY <1>1, <1>2, <1>7 DEF AllNumbered
  <2>2. d.pos > 0 /\ d.pos \in 1 .. 9
    BY <1>3, <1>6, <2>1
  <2>3. ap = 1
    BY <1>6, <1>7 DEF Found
  <2> QED BY <1>4, <1>5, <2>1, <2>2, <2>3
<1>8. ASSUME ~AllNumbered
      PROVE  d.pos = 0 /\ P!ArgAt(P!fmt, Len(P!fmt) + 1) <= Len(call.args) + 1
  <2>1. /\ \A k \in {j \in DOMAIN P!fmt : P!fmt[j].kind = "directive"} : P!fmt[k].pos = 0
        /\ P!ArgAt(P!fmt, Len(P!fmt) + 1) <= Len(call.args) + 1
    BY <1>6, <1>8 DEF P!GivesArguments, AllNumbered
  <2> QED BY <1>1, <1>2, <2>1
<1>9. ASSUME ~AllNumbered, pass = "print"
      PROVE  /\ ap + nw + np \in 1 .. Len(call.args)
             /\ ap + nw + np + 1 = P!ArgAt(P!fmt, at + 1)
  <2>1. ap = P!ArgAt(P!fmt, at)
    BY <1>6, <1>9 DEF Found
  <2>2. P!Takes(d) = nw + np + 1
    <3>1. d.kind # "text"
      BY <1>1
    <3> QED BY <3>1 DEF P!Takes
  <2>3. P!ArgAt(P!fmt, at + 1) = P!ArgAt(P!fmt, at) + P!Takes(d)
    BY <1>2, <1>6, ArgAtValues
  <2>4. P!ArgAt(P!fmt, at + 1) <= P!ArgAt(P!fmt, Len(P!fmt) + 1)
        /\ P!ArgAt(P!fmt, Len(P!fmt) + 1) \in Nat /\ P!ArgAt(P!fmt, at) >= 1
    <3>1. at \in 1 .. Len(P!fmt) + 1 /\ Len(P!fmt) + 1 \in 1 .. Len(P!fmt) + 1
      BY <1>2, <1>6
    <3> QED BY <1>2, <1>6, <3>1, ArgAtOrder
  <2> HIDE DEF nw, np, d
  <2> DEFINE e == P!ArgAt(P!fmt, at + 1)
             z == P!ArgAt(P!fmt, Len(P!fmt) + 1)
             m == Len(call.args)
  <2>5. ap >= 1 /\ e = ap + (nw + np + 1) /\ e <= z /\ z \in Nat /\ z <= m + 1 /\ m \in Nat
    BY <1>6, <1>8, <1>9, <2>1, <2>2, <2>3, <2>4
  <2> HIDE DEF e, z, m
  <2>6. ap + nw + np \in 1 .. m /\ ap + nw + np + 1 = e
    BY <1>5, <1>6, <2>5
  <2> QED BY <2>6 DEF e, m
<1> QED BY <1>1, <1>2, <1>3, <1>4, <1>5, <1>7, <1>8, <1>9

\* A conversion or %n has taken its arguments.
LEMMA TakenKeeps ==
  ASSUME PrintInv, pass = "print", P!MayGoOn, P!IsDirective, ~P!Invalid(P!Part),
         P!Taken(P!Part),
         l' \in 0 .. P!INT_MAX - P!Total,
         text' \in Seq(Char), Len(text') = Len(text) + l',
         [str |-> str', offset |-> offset'] \in BufferOf(size),
         file = "str" => HoldsText([str |-> str', offset |-> offset'], text', size),
         stored' \in {P!Nothing} \cup 0 .. P!UINTMAX - 1
  PROVE  PrintInv'
<1> DEFINE nw == P!Needs(P!Part.w)
           np == P!Needs(P!Part.p)
<1>0. /\ PrintTyped /\ Counted /\ Buffered /\ Found /\ P!Running
      /\ Len(call.args) \in Nat /\ cnt \in Nat /\ l \in Nat /\ P!INT_MAX \in Nat
      /\ call \in PrintCalls /\ ap \in 1 .. Len(call.args) + 1
  BY PrintFacts DEF P!Running, PrintTyped
<1>1. /\ ap' = ap + nw + np + (IF P!Part.pos = 0 THEN 1 ELSE 0)
      /\ l10n' \in BOOLEAN /\ at' = at + 1 /\ cnt' = P!Total
      /\ call' = call /\ file' = file /\ size' = size /\ pass' = pass
      /\ nl_type' = nl_type /\ nl_arg' = nl_arg /\ ret' = ret
  BY DEF P!Taken, P!NumberedInside, P!NumberedBefore
<1>2. P!fmt' = P!fmt /\ P!Running' /\ (AllNumbered' <=> AllNumbered)
  BY <1>0, <1>1 DEF P!fmt, P!Running, AllNumbered
<1>3. /\ cnt + l <= P!INT_MAX /\ P!Total = cnt + l /\ ret = P!Nothing /\ cnt + l = Len(text)
  BY <1>0 DEF Counted, P!Total
<1>4. /\ cnt' \in 0 .. P!INT_MAX /\ l' \in 0 .. P!INT_MAX /\ cnt' + l' <= P!INT_MAX
      /\ cnt' + l' = Len(text')
  <2>1. /\ cnt' = Len(text) /\ l' \in 0 .. P!INT_MAX - Len(text) /\ Len(text') = Len(text) + l'
        /\ Len(text) \in 0 .. P!INT_MAX
    BY <1>0, <1>1, <1>3
  <2>2. \A m \in Nat : \A n \in 0 .. m : \A x \in 0 .. m - n :
          n \in 0 .. m /\ x \in 0 .. m /\ n + x <= m
    OBVIOUS
  <2> QED BY <1>0, <2>1, <2>2
<1>5. /\ at + 1 \in 1 .. Len(P!fmt) + 1
      /\ AllNumbered => ap = 1 /\ P!Part.pos \in 1 .. 9 /\ nw = 0 /\ np = 0
      /\ ~AllNumbered => /\ P!Part.pos = 0
                         /\ ap + nw + np \in 1 .. Len(call.args)
                         /\ ap + nw + np + 1 = P!ArgAt(P!fmt, at + 1)
      /\ nw \in 0 .. 1 /\ np \in 0 .. 1
  BY AtDirective
<1> HIDE DEF nw, np
<1>6. ap' \in 1 .. Len(call.args) + 1
  <2> DEFINE m == Len(call.args)
  <2>1. ap \in 1 .. m + 1 /\ m \in Nat /\ (~AllNumbered => ap + nw + np \in 1 .. m)
    BY <1>0, <1>5
  <2> HIDE DEF m
  <2>2. ap' \in 1 .. m + 1
    BY <1>1, <1>5, <2>1
  <2> QED BY <2>2 DEF m
<1>7. PrintTyped'
  BY <1>0, <1>1, <1>2, <1>4, <1>5, <1>6 DEF PrintTyped
<1>8. Counted'
  BY <1>1, <1>3, <1>4 DEF Counted
<1>9. Buffered'
  BY <1>1, <1>2 DEF Buffered
<1>10. Found'
  <2>1. CASE AllNumbered
    <3>1. ap' = 1
      BY <1>1, <1>5, <2>1, SMTT(20)
    <3> QED BY <1>0, <1>1, <1>2, <2>1, <3>1 DEF Found
  <2>2. CASE ~AllNumbered
    <3>1. ap' = P!ArgAt(P!fmt, at + 1)
      BY <1>1, <1>5, <2>2
    <3> QED BY <1>1, <1>2, <2>2, <3>1 DEF Found
  <2> QED BY <2>1, <2>2
<1> QED BY <1>7, <1>8, <1>9, <1>10 DEF PrintInv

\* %n stores the number of characters written, in the width of its argument.
LEMMA StoreCountKeeps ==
  ASSUME PrintInv, P!StoreCount
  PROVE  PrintInv' /\ \E bits \in {CharBits, ShortBits, IntBits, LongBits} :
                        stored' = Len(text) % P!Pow2[bits] /\ text' = text
<1>0. /\ PrintTyped /\ Counted /\ Buffered /\ Found
      /\ cnt \in Nat /\ l \in Nat /\ P!INT_MAX \in Nat /\ text \in Seq(Char)
  BY PrintFacts
<1>1. /\ pass = "print" /\ P!MayGoOn /\ P!IsDirective /\ ~P!Invalid(P!Part)
      /\ stored' = P!Total % P!Pow2[P!Bits(P!UnsignedType[P!Part.prefix])]
      /\ l' = 0 /\ P!Taken(P!Part) /\ text' = text /\ str' = str /\ offset' = offset
  BY DEF P!StoreCount, P!NoOut
<1>2. cnt + l <= P!INT_MAX /\ P!Total = cnt + l /\ cnt + l = Len(text) /\ P!Running
  BY <1>0, <1>1 DEF Counted, P!Total, P!Running
<1>3. PICK bits \in {CharBits, ShortBits, IntBits, LongBits} :
        P!Bits(P!UnsignedType[P!Part.prefix]) = bits
  <2>1. \A type : P!Bits(type) \in {CharBits, ShortBits, IntBits, LongBits}
    BY Zenon DEF P!Bits
  <2> QED BY <2>1
<1>4. stored' = Len(text) % P!Pow2[bits]
  BY <1>1, <1>2, <1>3
<1>5. stored' \in 0 .. P!UINTMAX - 1
  <2> DEFINE d == P!Pow2[bits]
             n == Len(text)
  <2>1. bits \in 0 .. LongBits
    BY PrintfConstants
  <2>2. d \in 1 .. P!UINTMAX /\ P!UINTMAX \in Nat
    BY <2>1, Limits
  <2>3. n \in Nat
    BY <1>0, LenProperties
  <2>4. stored' = n % d
    BY <1>4
  <2> HIDE DEF d, n
  <2>5. n % d \in 0 .. d - 1
    <3>1. n \in Int /\ d \in Nat \ {0}
      BY <2>2, <2>3
    <3> QED BY <3>1, Remainder
  <2>6. stored' \in 0 .. d - 1
    BY <2>4, <2>5
  <2> QED BY <2>2, <2>6
<1>6. /\ l' \in 0 .. P!INT_MAX - P!Total /\ text' \in Seq(Char) /\ Len(text') = Len(text) + l'
      /\ [str |-> str', offset |-> offset'] \in BufferOf(size)
      /\ file = "str" => HoldsText([str |-> str', offset |-> offset'], text', size)
  <2>1. l' \in 0 .. P!INT_MAX - P!Total
    BY <1>0, <1>1, <1>2
  <2>2. Len(text') = Len(text) + l'
    <3>1. Len(text) \in Nat
      BY <1>0, LenProperties
    <3> QED BY <1>1, <3>1
  <2>3. [str |-> str', offset |-> offset'] \in BufferOf(size)
    BY <1>0, <1>1 DEF PrintTyped
  <2>4. file = "str" => HoldsText([str |-> str', offset |-> offset'], text', size)
    BY <1>0, <1>1, <1>2 DEF Buffered
  <2> QED BY <1>0, <1>1, <2>1, <2>2, <2>3, <2>4
<1>7. PrintInv'
  BY <1>1, <1>5, <1>6, TakenKeeps
<1> QED BY <1>1, <1>4, <1>7

\* What pop_arg or the first pass has of a directive.
LEMMA ValueTyped ==
  ASSUME PrintInv, pass = "print", P!IsDirective, ~P!Invalid(P!Part)
  PROVE  P!Value(P!Part) \in 0 .. P!UINTMAX - 1
<1>0. Found /\ call \in PrintCalls
  BY PrintFacts
<1>1. CASE AllNumbered
  <2>1. P!Part.pos > 0 /\ at \in DOMAIN P!fmt /\ P!Part = P!fmt[at] /\ P!Part.kind = "directive"
    BY <1>1, AtDirective
  <2>2. nl_arg[P!Part.pos] \in 0 .. P!UINTMAX - 1
    BY <1>0, <1>1, <2>1 DEF Found
  <2> QED BY <2>1, <2>2 DEF P!Value
<1>2. CASE ~AllNumbered
  <2> DEFINE i == ap + P!Needs(P!Part.w) + P!Needs(P!Part.p)
  <2>1. ~(P!Part.pos > 0) /\ i \in 1 .. Len(call.args)
    BY <1>2, AtDirective
  <2>2. P!Value(P!Part) = P!PopArg(P!States(P!Part.prefix, P!Part.conv), call.args[i])
    BY <2>1 DEF P!Value
  <2> HIDE DEF i
  <2>3. call.args[i] \in 0 .. P!UINTMAX - 1
    BY <1>0, <2>1, CallTyped
  <2> QED BY <2>2, <2>3, PopArgTyped
<1> QED BY <1>1, <1>2

\* Writing the field of a directive keeps the invariant.
LEMMA PrintDirectiveKeeps ==
  ASSUME PrintInv, P!PrintDirective
  PROVE  PrintInv' /\ stored' = stored
<1> DEFINE d == P!Part
           cc == P!Convert(d.conv, P!Value(d), P!Precision(d), P!Explicit(d), P!Flags(d))
           w == P!Field(cc, P!Width(d))
<1>0. /\ PrintTyped /\ Counted /\ Buffered /\ Found /\ call \in PrintCalls
      /\ cnt \in Nat /\ l \in Nat /\ P!INT_MAX \in Nat /\ text \in Seq(Char)
  BY PrintFacts
<1>1. /\ pass = "print" /\ P!MayGoOn /\ P!IsDirective /\ ~P!Invalid(d) /\ d.conv # "n"
      /\ IF ~cc.ok \/ cc.p > P!INT_MAX - Len(cc.prefix) \/ w > P!INT_MAX - P!Total
         THEN P!Return(-1)
         ELSE P!Out(P!Emit(cc, w)) /\ l' = w /\ P!Taken(d) /\ UNCHANGED stored
  BY DEF P!PrintDirective
<1>2. cnt + l <= P!INT_MAX /\ P!Total = cnt + l /\ P!Running
  BY <1>0, <1>1 DEF Counted, P!Total, P!Running
<1>3. /\ d.w \in P!Stars /\ d.p \in P!Stars
      /\ d.conv \in {"d", "i", "u", "o", "x", "X", "p", "c", "s"}
      /\ d.w.kind = "next" => ap \in 1 .. Len(call.args)
      /\ d.p.kind = "next" => ap + P!Needs(d.w) \in 1 .. Len(call.args)
  <2>1. /\ d.w \in P!Stars /\ d.p \in P!Stars
        /\ d.conv \in {"d", "i", "u", "o", "x", "X", "p", "c", "s"}
    BY <1>1, AtDirective
  <2>2. CASE AllNumbered
    <3>1. d.w.kind # "next" /\ d.p.kind # "next"
      BY <1>1, <2>2, AtDirective
    <3> QED BY <2>1, <3>1
  <2>3. CASE ~AllNumbered
    <3>1. /\ ap + P!Needs(d.w) + P!Needs(d.p) \in 1 .. Len(call.args)
          /\ P!Needs(d.w) \in 0 .. 1 /\ P!Needs(d.p) \in 0 .. 1 /\ ap \in 1 .. Len(call.args) + 1
          /\ Len(call.args) \in Nat
      BY <1>0, <1>1, <2>3, AtDirective, PrintFacts DEF PrintTyped
    <3>2. ap \in 1 .. Len(call.args) /\ ap + P!Needs(d.w) \in 1 .. Len(call.args)
      <4> DEFINE m == Len(call.args)
                 x == P!Needs(d.w)
                 y == P!Needs(d.p)
      <4>1. ap + x + y \in 1 .. m /\ x \in 0 .. 1 /\ y \in 0 .. 1 /\ ap \in 1 .. m + 1 /\ m \in Nat
        BY <3>1
      <4> HIDE DEF m, x, y
      <4>2. ap \in 1 .. m /\ ap + x \in 1 .. m
        BY <4>1
      <4> QED BY <4>2 DEF m, x
    <3> QED BY <2>1, <3>2
  <2> QED BY <2>2, <2>3
<1>4. /\ P!Width(d) \in Int /\ P!Precision(d) \in Int /\ P!Explicit(d) \in BOOLEAN
      /\ ~({"-", "0"} \subseteq P!Flags(d))
  <2>1. \A i \in 1 .. 9 : nl_arg[i] \in Int
    BY <1>0 DEF PrintTyped
  <2> QED BY <1>0, <1>3, <2>1, WidthTyped
<1>5. P!Value(d) \in 0 .. P!UINTMAX - 1
  BY <1>1, ValueTyped
<1>6. IsField(cc)
  BY <1>3, <1>4, <1>5, ConvertField
<1> HIDE DEF cc
<1>7. CASE ~cc.ok \/ cc.p > P!INT_MAX - Len(cc.prefix) \/ w > P!INT_MAX - P!Total
  <2>1. P!Return(-1) /\ stored' = stored
    BY <1>1, <1>7 DEF P!Return
  <2>2. -1 \in -1 .. P!INT_MAX /\ ~(-1 >= 0)
    BY <1>0
  <2> QED BY <1>2, <2>1, <2>2, ReturnKeeps
<1>8. CASE ~(~cc.ok \/ cc.p > P!INT_MAX - Len(cc.prefix) \/ w > P!INT_MAX - P!Total)
  <2>1. cc.ok /\ ~(w > P!INT_MAX - P!Total)
    BY <1>8
  <2>2. P!Out(P!Emit(cc, w)) /\ l' = w /\ P!Taken(d) /\ stored' = stored
    BY <1>1, <1>8
  <2>3. cc.p \in Nat /\ Len(cc.prefix) \in Nat
    BY <1>6, <2>1, LenProperties DEF IsField
  <2>4. w \in Nat /\ Len(cc.prefix) + cc.p <= w
    <3> DEFINE n == Len(cc.prefix) + cc.p
               x == P!Width(d)
    <3>1. n \in Nat /\ n \in Int /\ x \in Int
      BY <1>4, <2>3
    <3>2. w = P!Max({x, n})
      BY DEF P!Field
    <3> HIDE DEF n, x, w
    <3>3. w = IF x >= n THEN x ELSE n
      BY <3>1, <3>2, OfTwo
    <3>4. w >= n /\ w \in Int
      BY <3>1, <3>3
    <3>5. w \in Nat
      BY <3>1, <3>4
    <3> QED BY <3>4, <3>5 DEF n
  <2> HIDE DEF w
  <2>5. P!Emit(cc, w) \in Seq(Seq(Char)) /\ Len(P!FlattenSeq(P!Emit(cc, w))) = w
    BY <1>6, <2>1, <2>4, EmitFills
  <2>6. /\ text' \in Seq(Char) /\ Len(text') = Len(text) + w
        /\ [str |-> str', offset |-> offset'] \in BufferOf(size)
        /\ file = "str" => HoldsText([str |-> str', offset |-> offset'], text', size)
    BY <1>2, <2>2, <2>5, OutKeeps
  <2>7. l' \in 0 .. P!INT_MAX - P!Total
    BY <1>0, <1>2, <2>1, <2>2, <2>4
  <2>8. stored' \in {P!Nothing} \cup 0 .. P!UINTMAX - 1
    BY <1>0, <2>2 DEF PrintTyped
  <2> QED BY <1>1, <2>2, <2>6, <2>7, <2>8, TakenKeeps
<1> QED BY <1>7, <1>8

\* A directive that is not valid ends the call.
LEMMA InvalidKeeps ==
  ASSUME PrintInv, P!InvalidDirective
  PROVE  PrintInv'
<1>1. P!Running /\ P!Return(-1)
  BY DEF P!InvalidDirective, P!MayGoOn
<1>2. -1 \in -1 .. P!INT_MAX /\ ~(-1 >= 0)
  BY PrintFacts
<1> QED BY <1>1, <1>2, ReturnKeeps

\* The end of the format ends the call.
LEMMA EndOfFormatKeeps ==
  ASSUME PrintInv, P!EndOfFormat
  PROVE  PrintInv'
<1>1. P!Running /\ pass = "print" /\ P!Return(P!Total)
  BY DEF P!EndOfFormat, P!MayGoOn
<1>2. P!Total \in -1 .. P!INT_MAX
  BY <1>1, PrintFacts DEF Counted, P!Total
<1> QED BY <1>1, <1>2, ReturnKeeps

\* The second pass starts with the arguments where the first has left them.
LEMMA StartPrintingKeeps ==
  ASSUME PrintInv, pass = "types", P!StartPrinting, nl_type' = nl_type \/ ~AllNumbered,
         DOMAIN nl_type' = 1 .. 9, nl_arg' \in [1 .. 9 -> Int],
         AllNumbered => \A k \in DOMAIN P!fmt : P!fmt[k].kind = "directive" =>
                          nl_arg'[P!fmt[k].pos] \in 0 .. P!UINTMAX - 1
  PROVE  PrintInv'
<1>0. /\ PrintTyped /\ Counted /\ Buffered /\ Found
      /\ call \in PrintCalls /\ P!INT_MAX \in Nat /\ Len(P!fmt) \in Nat
  BY PrintFacts
<1>1. /\ pass' = "print" /\ at' = 1 /\ cnt' = 0 /\ l' = 0 /\ l10n' = FALSE
      /\ call' = call /\ file' = file /\ size' = size /\ ap' = ap /\ text' = text
      /\ str' = str /\ offset' = offset /\ stored' = stored /\ ret' = ret
  BY DEF P!StartPrinting
<1>2. P!fmt' = P!fmt /\ P!Running /\ P!Running' /\ (AllNumbered' <=> AllNumbered)
  BY <1>1 DEF P!fmt, P!Running, AllNumbered
<1>3. PrintTyped'
  <2>1. 1 \in 1 .. Len(P!fmt) + 1 /\ 0 \in 0 .. P!INT_MAX
    BY <1>0
  <2> QED BY <1>0, <1>1, <1>2, <2>1 DEF PrintTyped
<1>4. Counted'
  <2>1. text = <<>> /\ ret = P!Nothing
    BY <1>0, <1>2 DEF Counted
  <2>2. cnt' + l' = 0 /\ Len(text') = 0
    BY <1>1, <2>1
  <2> QED BY <1>0, <1>1, <2>1, <2>2 DEF Counted
<1>5. Buffered'
  BY <1>0, <1>1, <1>2 DEF Buffered
<1>6. Found'
  <2>1. CASE AllNumbered
    BY <1>0, <1>1, <1>2, <2>1 DEF Found
  <2>2. CASE ~AllNumbered
    <3>1. ap = 1 /\ P!ArgAt(P!fmt, 1) = 1
      BY <1>0, CallTyped, ArgAtValues DEF Counted
    <3> QED BY <1>1, <1>2, <2>2, <3>1 DEF Found
  <2> QED BY <2>1, <2>2
<1> QED BY <1>3, <1>4, <1>5, <1>6 DEF PrintInv

\* A type in the first pass is one of the arguments of the directive, or was known.
LEMMA NotedTypes ==
  ASSUME NEW d, DOMAIN nl_type = 1 .. 9, d.w \in P!Stars, d.p \in P!Stars
  PROVE  /\ DOMAIN P!Noted(d) = 1 .. 9
         /\ \A i \in 1 .. 9 :
              /\ i = d.pos => P!Noted(d)[i] = P!States(d.prefix, d.conv)
              /\ i # d.pos => P!Noted(d)[i] \in {"INT", nl_type[i]}
              /\ P!Noted(d)[i] # "none" =>
                   \/ nl_type[i] # "none" \/ i = d.pos
                   \/ \E star \in {d.w, d.p} : star.kind = "arg" /\ star.n = i
<1> DEFINE starred == {star.n : star \in {s1 \in {d.w, d.p} : s1.kind = "arg"}}
           v(i) == CASE i = d.pos -> P!States(d.prefix, d.conv)
                     [] i # d.pos /\ i \in starred -> "INT"
                     [] OTHER -> nl_type[i]
<1>1. P!Noted(d) = [i \in 1 .. 9 |-> v(i)]
  BY DEF P!Noted
<1>2. ASSUME NEW i
      PROVE  /\ i = d.pos => v(i) = P!States(d.prefix, d.conv)
             /\ i # d.pos /\ i \in starred => v(i) = "INT"
             /\ i # d.pos /\ i \notin starred => v(i) = nl_type[i]
  <2>1. CASE i = d.pos
    BY <2>1, Zenon
  <2>2. CASE i # d.pos /\ i \in starred
    <3> HIDE DEF starred
    <3> QED BY <2>2, Zenon
  <2>3. CASE i # d.pos /\ i \notin starred
    <3> HIDE DEF starred
    <3> QED BY <2>3, Zenon
  <2> QED BY <2>1, <2>2, <2>3
<1> HIDE DEF v
<1>3. ASSUME NEW i \in 1 .. 9
      PROVE  /\ i = d.pos => P!Noted(d)[i] = P!States(d.prefix, d.conv)
             /\ i # d.pos => P!Noted(d)[i] \in {"INT", nl_type[i]}
             /\ P!Noted(d)[i] # "none" =>
                  \/ nl_type[i] # "none" \/ i = d.pos
                  \/ \E star \in {d.w, d.p} : star.kind = "arg" /\ star.n = i
  <2>1. P!Noted(d)[i] = v(i)
    BY <1>1
  <2>2. i \in starred => \E star \in {d.w, d.p} : star.kind = "arg" /\ star.n = i
    OBVIOUS
  <2> HIDE DEF starred
  <2> QED BY <1>2, <2>1, <2>2
<1> QED BY <1>1, <1>3

\* The first pass notes the types of numbered arguments.
LEMMA NoteTypesKeeps ==
  ASSUME PrintInv, P!NoteTypes
  PROVE  PrintInv'
<1> DEFINE d == P!Part
<1>0. /\ PrintTyped /\ Counted /\ Buffered /\ Found
      /\ call \in PrintCalls /\ P!INT_MAX \in Nat /\ Len(P!fmt) \in Nat
      /\ cnt \in Nat /\ l \in Nat /\ at \in Nat
  BY PrintFacts
<1>1. /\ pass = "types" /\ P!IsDirective /\ ~P!Invalid(d) /\ nl_type' = P!Noted(d)
  BY DEF P!NoteTypes
<1>2. /\ d.kind = "directive" /\ d.w \in P!Stars /\ d.p \in P!Stars
      /\ P!States(d.prefix, d.conv) # "none"
      /\ at \in DOMAIN P!fmt /\ d = P!fmt[at] /\ at + 1 \in 1 .. Len(P!fmt) + 1
      /\ AllNumbered => d.pos \in 1 .. 9 /\ d.pos \in DOMAIN call.args
      /\ ~AllNumbered => d.pos = 0
  BY <1>1, AtDirective
<1>3. DOMAIN nl_type = 1 .. 9 /\ nl_arg \in [1 .. 9 -> Int]
  BY <1>0 DEF PrintTyped
<1>4. /\ DOMAIN nl_type' = 1 .. 9
      /\ \A i \in 1 .. 9 :
           /\ i = d.pos => nl_type'[i] = P!States(d.prefix, d.conv)
           /\ i # d.pos => nl_type'[i] \in {"INT", nl_type[i]}
           /\ nl_type'[i] # "none" =>
                \/ nl_type[i] # "none" \/ i = d.pos
                \/ \E star \in {d.w, d.p} : star.kind = "arg" /\ star.n = i
  BY <1>1, <1>2, <1>3, NotedTypes, ZenonT(20)
<1>5. CASE d.pos = 0
  <2>1. P!StartPrinting /\ nl_arg' = nl_arg
    BY <1>5 DEF P!NoteTypes
  <2>2. ~AllNumbered
    BY <1>2, <1>5
  <2> QED BY <1>1, <1>3, <1>4, <2>1, <2>2, StartPrintingKeeps
<1>6. CASE d.pos # 0
  <2>1. /\ cnt' = P!Total /\ l' = 0 /\ at' = at + 1 /\ l10n' = P!NumberedInside(d)
        /\ call' = call /\ file' = file /\ size' = size /\ pass' = pass /\ ap' = ap
        /\ nl_arg' = nl_arg /\ text' = text /\ str' = str /\ offset' = offset
        /\ stored' = stored /\ ret' = ret
    BY <1>6 DEF P!NoteTypes
  <2>2. P!fmt' = P!fmt /\ P!Running /\ P!Running' /\ (AllNumbered' <=> AllNumbered) /\ AllNumbered
    BY <1>1, <1>2, <1>6, <2>1 DEF P!fmt, P!Running, AllNumbered
  <2>3. d.pos \in 1 .. 9 /\ d.pos \in DOMAIN call.args /\ l10n' /\ l10n' \in BOOLEAN
    <3>1. d.pos \in 1 .. 9 /\ d.pos \in DOMAIN call.args
      BY <1>2, <2>2
    <3>2. d.pos > 0
      BY <3>1
    <3>3. P!NumberedInside(d) <=> TRUE
      BY <3>2 DEF P!NumberedInside, P!NumberedBefore
    <3>4. P!NumberedInside(d) \in BOOLEAN
      BY DEF P!NumberedInside
    <3>5. l10n' /\ l10n' \in BOOLEAN
      BY <2>1, <3>3, <3>4, Zenon
    <3> QED BY <3>1, <3>5
  <2>4. /\ cnt + l <= P!INT_MAX /\ cnt' = cnt + l /\ text = <<>> /\ ap = 1 /\ ret = P!Nothing
    BY <1>0, <1>1, <2>1, <2>2 DEF Counted, P!Total
  <2>5. PrintTyped'
    <3>1. cnt' \in 0 .. P!INT_MAX /\ l' \in 0 .. P!INT_MAX
      BY <1>0, <2>1, <2>4
    <3> QED BY <1>0, <1>2, <1>3, <1>4, <2>1, <2>2, <2>3, <3>1 DEF PrintTyped
  <2>6. Counted'
    <3>1. cnt' + l' <= P!INT_MAX
      BY <1>0, <2>1, <2>4
    <3> QED BY <1>1, <2>1, <2>4, <3>1 DEF Counted
  <2>7. Buffered'
    BY <1>0, <1>1, <2>1, <2>2 DEF Buffered
  <2>8. Found'
    <3>1. ASSUME NEW i \in 1 .. 9, nl_type'[i] # "none" PROVE i \in DOMAIN call.args
      <4>1. CASE nl_type[i] # "none"
        BY <1>0, <2>2, <4>1 DEF Found
      <4>2. CASE i = d.pos
        BY <2>3, <4>2
      <4>3. ASSUME NEW star \in {d.w, d.p}, star.kind = "arg", star.n = i
            PROVE  i \in DOMAIN call.args
        BY <1>2, <2>2, <4>3 DEF AllNumbered
      <4> QED BY <1>4, <3>1, <4>1, <4>2, <4>3
    <3>2. ASSUME NEW k \in DOMAIN P!fmt, P!fmt[k].kind = "directive", k < at + 1
          PROVE  nl_type'[P!fmt[k].pos] # "none"
      <4>1. CASE k = at
        BY <1>2, <1>4, <2>3, <4>1
      <4>2. CASE k # at
        <5>1. k < at
          <6>1. k \in Nat
            BY <1>0, CallTyped
          <6> QED BY <1>0, <3>2, <4>2, <6>1
        <5>2. nl_type[P!fmt[k].pos] # "none"
          BY <1>0, <1>1, <2>2, <3>2, <5>1 DEF Found
        <5>3. P!fmt[k].pos \in 1 .. 9
          <6>1. P!fmt[k].pos \in DOMAIN call.args /\ P!fmt[k] \in P!Parts
                /\ DOMAIN call.args = 1 .. Len(call.args)
            BY <1>0, <2>2, <3>2, CallTyped DEF AllNumbered
          <6>2. P!fmt[k].pos \in 0 .. 9
            BY <3>2, <6>1, PartTyped
          <6> QED BY <6>1, <6>2
        <5>4. CASE P!fmt[k].pos = d.pos
          BY <1>2, <1>4, <2>3, <5>4
        <5>5. CASE P!fmt[k].pos # d.pos
          BY <1>4, <5>2, <5>3, <5>5
        <5> QED BY <5>4, <5>5
      <4> QED BY <4>1, <4>2
    <3> QED BY <1>1, <2>1, <2>2, <2>3, <2>4, <3>1, <3>2 DEF Found
  <2> QED BY <2>5, <2>6, <2>7, <2>8 DEF PrintInv
<1> QED BY <1>5, <1>6

\* The end of the first pass reads the numbered arguments.
LEMMA EndTypesKeeps ==
  ASSUME PrintInv, P!EndTypes
  PROVE  PrintInv'
<1>0. /\ PrintTyped /\ Counted /\ Buffered /\ Found
      /\ call \in PrintCalls /\ P!INT_MAX \in Nat /\ Len(P!fmt) \in Nat
      /\ at \in Nat /\ P!UINTMAX \in Nat
  BY PrintFacts, Limits
<1>1. pass = "types" /\ at > Len(P!fmt) /\ P!Running
  BY DEF P!EndTypes, P!MayGoOn
<1>2. DOMAIN nl_type = 1 .. 9 /\ nl_arg \in [1 .. 9 -> Int] /\ DOMAIN nl_arg = 1 .. 9
  BY <1>0 DEF PrintTyped
<1>3. ASSUME AllNumbered, NEW k \in DOMAIN P!fmt, P!fmt[k].kind = "directive"
      PROVE  l10n /\ P!fmt[k].pos \in P!KnownTypes
  <2>1. k < at
    BY <1>0, <1>1, CallTyped
  <2>2. l10n /\ nl_type[P!fmt[k].pos] # "none"
    BY <1>0, <1>1, <1>3, <2>1 DEF Found
  <2>3. P!fmt[k].pos \in 1 .. 9
    <3>1. P!fmt[k].pos \in DOMAIN call.args /\ P!fmt[k] \in P!Parts
          /\ DOMAIN call.args = 1 .. Len(call.args)
      BY <1>0, <1>3, CallTyped DEF AllNumbered
    <3>2. P!fmt[k].pos \in 0 .. 9
      BY <1>3, <3>1, PartTyped
    <3> QED BY <3>1, <3>2
  <2> QED BY <1>2, <2>2, <2>3 DEF P!KnownTypes
<1>4. CASE ~l10n
  <2>1. P!StartPrinting /\ nl_type' = nl_type /\ nl_arg' = nl_arg
    BY <1>4 DEF P!EndTypes
  <2>2. AllNumbered => \A k \in DOMAIN P!fmt : P!fmt[k].kind # "directive"
    BY <1>3, <1>4
  <2> QED BY <1>1, <1>2, <2>1, <2>2, StartPrintingKeeps
<1>5. CASE l10n /\ \E i \in P!KnownTypes : \E j \in 1 .. i : j \notin P!KnownTypes
  <2>1. P!Return(-1)
    BY <1>5 DEF P!EndTypes
  <2>2. -1 \in -1 .. P!INT_MAX /\ ~(-1 >= 0)
    BY <1>0
  <2> QED BY <1>1, <2>1, <2>2, ReturnKeeps
<1>6. CASE l10n /\ ~(\E i \in P!KnownTypes : \E j \in 1 .. i : j \notin P!KnownTypes)
  <2>1. /\ nl_arg' = [i \in 1 .. 9 |-> IF i \in P!KnownTypes
                                       THEN P!PopArg(nl_type[i], call.args[i]) ELSE nl_arg[i]]
        /\ P!StartPrinting /\ nl_type' = nl_type
    BY <1>2, <1>6 DEF P!EndTypes
  <2>2. CASE AllNumbered
    <3>1. ASSUME NEW i \in P!KnownTypes
          PROVE  i \in 1 .. 9 /\ P!PopArg(nl_type[i], call.args[i]) \in 0 .. P!UINTMAX - 1
      <4>1. i \in 1 .. 9 /\ nl_type[i] # "none"
        BY <1>2 DEF P!KnownTypes
      <4>2. i \in DOMAIN call.args
        BY <1>0, <2>2, <4>1 DEF Found
      <4>3. call.args[i] \in 0 .. P!UINTMAX - 1
        BY <1>0, <4>2, CallTyped
      <4> QED BY <4>1, <4>3, PopArgTyped
    <3>2. nl_arg' \in [1 .. 9 -> Int]
      <4>1. ASSUME NEW i \in 1 .. 9 PROVE nl_arg'[i] \in Int
        <5>1. CASE i \in P!KnownTypes
          <6>1. nl_arg'[i] = P!PopArg(nl_type[i], call.args[i])
            BY <2>1, <5>1
          <6>2. 0 .. P!UINTMAX - 1 \subseteq Int
            OBVIOUS
          <6> QED BY <3>1, <5>1, <6>1, <6>2
        <5>2. CASE i \notin P!KnownTypes
          BY <1>2, <2>1, <5>2
        <5> QED BY <5>1, <5>2
      <4> QED BY <2>1, <4>1
    <3>3. \A k \in DOMAIN P!fmt : P!fmt[k].kind = "directive" =>
            nl_arg'[P!fmt[k].pos] \in 0 .. P!UINTMAX - 1
      BY <1>3, <2>1, <2>2, <3>1
    <3> QED BY <1>1, <1>2, <2>1, <3>2, <3>3, StartPrintingKeeps
  <2>3. CASE ~AllNumbered
    BY <1>0, <1>1, <1>6, <2>3 DEF Found
  <2> QED BY <2>2, <2>3
<1> QED BY <1>4, <1>5, <1>6

\* The buffer of a call that still runs is as its text wants it.
LEMMA HeldIsBounded ==
  ASSUME size \in Nat, text \in Seq(Char), DOMAIN str = 0 .. size - 1, ret = P!Nothing,
         file = "str" => HoldsText([str |-> str, offset |-> offset], text, size)
  PROVE  P!BufferBounded
<1> SUFFICES ASSUME file = "str"
             PROVE  /\ offset = P!Min({Len(text), P!Max({0, size - 1})})
                    /\ \A i \in DOMAIN str : IF i < offset THEN str[i] = text[i + 1]
                                             ELSE str[i] = "old" \/ (str[i] = "NUL" /\ i = offset)
                    /\ ret >= 0 /\ size > 0 => str[offset] = "NUL"
  BY DEF P!BufferBounded
<1>1. /\ offset = IF size = 0 THEN 0 ELSE IF Len(text) < size THEN Len(text) ELSE size - 1
      /\ \A i \in 0 .. size - 1 : str[i] = IF i < offset THEN text[i + 1] ELSE "old"
  BY DEF HoldsText
<1>2. Len(text) \in Nat
  BY LenProperties
<1>3. offset = P!Min({Len(text), P!Max({0, size - 1})})
  BY <1>1, <1>2, RoomOfBuffer
<1>4. ~(ret >= 0)
  BY DEF P!Nothing
<1> QED BY <1>1, <1>3, <1>4

\* A literal text and a return store nothing.
LEMMA LiteralStores ==
  P!Literal => stored' = stored
BY DEF P!Literal, P!Return

\* Returning stores nothing through %n.
LEMMA ReturnStores ==
  ASSUME NEW r, P!Return(r)
  PROVE  stored' = stored
BY DEF P!Return

\* Every step of the program keeps the invariant, and one that changes what %n stores
\* stores the length of the text.
LEMMA PrintStep ==
  ASSUME PrintInv, [LibraryNext]_libraryVars
  PROVE  /\ PrintInv'
         /\ stored' # stored => \E bits \in {CharBits, ShortBits, IntBits, LongBits} :
                                  stored' = Len(text) % P!Pow2[bits] /\ text' = text
<1>1. CASE UNCHANGED printfVars
  <2>1. /\ call' = call /\ file' = file /\ size' = size /\ pass' = pass /\ at' = at
        /\ cnt' = cnt /\ l' = l /\ l10n' = l10n /\ ap' = ap /\ nl_type' = nl_type
        /\ nl_arg' = nl_arg /\ text' = text /\ str' = str /\ offset' = offset
        /\ stored' = stored /\ ret' = ret
    BY <1>1 DEF printfVars
  <2>2. P!fmt' = P!fmt /\ (P!Running' <=> P!Running) /\ (AllNumbered' <=> AllNumbered)
        /\ (P!BufferBounded' <=> P!BufferBounded)
    BY <2>1 DEF P!fmt, P!Running, AllNumbered, P!BufferBounded
  <2>3. PrintTyped' /\ Counted' /\ Buffered' /\ Found'
    <3>1. PrintTyped /\ Counted /\ Buffered /\ Found
      BY PrintFacts
    <3>2. PrintTyped'
      BY <2>1, <2>2, <3>1 DEF PrintTyped
    <3>3. Counted'
      BY <2>1, <2>2, <3>1 DEF Counted
    <3>4. Buffered'
      BY <2>1, <2>2, <3>1 DEF Buffered
    <3>5. Found'
      BY <2>1, <2>2, <3>1 DEF Found
    <3> QED BY <3>2, <3>3, <3>4, <3>5
  <2> QED BY <2>1, <2>3 DEF PrintInv
<1>2. CASE Printing
  <2>1. CASE P!Literal
    BY <2>1, LiteralKeeps, LiteralStores
  <2>2. CASE P!InvalidDirective
    BY <2>2, InvalidKeeps, ReturnStores DEF P!InvalidDirective
  <2>3. CASE P!NoteTypes
    BY <2>3, NoteTypesKeeps DEF P!NoteTypes, P!StartPrinting
  <2>4. CASE P!EndTypes
    BY <2>4, EndTypesKeeps, ReturnStores DEF P!EndTypes, P!StartPrinting
  <2>5. CASE P!StoreCount
    BY <2>5, StoreCountKeeps
  <2>6. CASE P!PrintDirective
    BY <2>6, PrintDirectiveKeeps
  <2>7. CASE P!EndOfFormat
    BY <2>7, EndOfFormatKeeps, ReturnStores DEF P!EndOfFormat
  <2> QED BY <1>2, <2>1, <2>2, <2>3, <2>4, <2>5, <2>6, <2>7 DEF Printing, P!Next
<1> QED BY <1>1, <1>2 DEF LibraryNext, libraryVars, Allocating, Scanning, InShell

\* The invariant of printf holds throughout.
LEMMA PrintInvariant == LibrarySpec => []PrintInv
<1>1. LibraryInit => PrintInv
  BY PrintInit
<1>2. PrintInv /\ [LibraryNext]_libraryVars => PrintInv'
  BY PrintStep
<1> QED BY <1>1, <1>2, PTL DEF LibrarySpec

\* A string that holds what was written never has more than its size of it.
LEMMA BoundedByInvariant ==
  PrintInv => BufferBounded
<1> SUFFICES ASSUME PrintInv PROVE BufferBounded
  OBVIOUS
<1>0. /\ PrintTyped /\ Counted /\ Buffered /\ size \in Nat /\ text \in Seq(Char)
  BY PrintFacts
<1>1. offset \in Nat /\ DOMAIN str = 0 .. size - 1
  BY <1>0 DEF PrintTyped, BufferOf
<1>2. P!TypeOK
  BY <1>0, <1>1 DEF PrintTyped, P!TypeOK
<1>3. P!TotalBounded
  BY <1>0 DEF Counted, P!TotalBounded
<1>4. P!BufferBounded
  <2>1. CASE P!Running
    BY <1>0, <1>1, <2>1, HeldIsBounded DEF Buffered, Counted
  <2>2. CASE ~P!Running
    <3>1. pass = "done"
      BY <1>0, <2>2 DEF PrintTyped, P!Running
    <3> QED BY <1>0, <3>1 DEF Buffered, P!BufferBounded
  <2> QED BY <2>1, <2>2
<1> QED BY <1>2, <1>3, <1>4 DEF BufferBounded

\* vsnprintf keeps to the bytes it was given, for every format, arguments and size: the
\* string holds the start of what was written, ended by a NUL, and nothing past its size is
\* touched (str_write and the end of vsnprintf).
THEOREM PrintfIsBounded == LibrarySpec => []BufferBounded
BY PrintInvariant, BoundedByInvariant, PTL

\* What %n stores is the number of characters written before it, in the width of its
\* argument, for every format and arguments (store_count).
THEOREM CountIsStored == LibrarySpec => StoredIsWritten
<1>1. PrintInv /\ [LibraryNext]_libraryVars =>
        [stored' # stored => \E bits \in {CharBits, ShortBits, IntBits, LongBits} :
           stored' = Len(text) % P!Pow2[bits] /\ text' = text]_P!printfVars
  BY PrintStep
<1> QED BY <1>1, PrintInvariant, PTL DEF LibrarySpec, StoredIsWritten, P!StoredIsWritten

-----------------------------------------------------------------------------
(* The numbers of scanf                                                    *)

\* The greatest and the least of a set, by either name.
LEMMA SameMax ==
  ASSUME NEW s
  PROVE  S!Max(s) = P!Max(s) /\ S!Min(s) = P!Min(s)
BY DEF S!Max, P!Max, S!Min, P!Min

\* A digit stands for a number from 0 to 9.
LEMMA DigitValue ==
  ASSUME NEW ch, S!IsDigit(ch)
  PROVE  S!DigitOf(ch) \in 0 .. 9 /\ S!DigitOf(ch) \in Int
<1>1. PICK i \in 1 .. 10 : S!Digits[i] = ch
  <2>1. DOMAIN S!Digits = 1 .. 10
    BY DEF S!Digits
  <2> QED BY <2>1 DEF S!IsDigit, S!ToSet
<1>2. i - 1 \in 0 .. 9 /\ S!Digits[(i - 1) + 1] = ch
  <2>1. i - 1 \in 0 .. 9 /\ (i - 1) + 1 = i
    OBVIOUS
  <2> QED BY <1>1, <2>1
<1>3. \E v \in 0 .. 9 : S!Digits[v + 1] = ch
  BY <1>2
<1>4. S!DigitOf(ch) \in 0 .. 9
  BY <1>3, Zenon DEF S!DigitOf
<1> QED BY <1>4

\* The values of the first i digits of s.
CountsUp(s, a) ==
  /\ a \in [0 .. Len(s) -> Int] /\ a[0] = 0
  /\ \A i \in 1 .. Len(s) : a[i] = a[i - 1] * 10 + S!DigitOf(s[i])
  /\ S!Number(s) = a[Len(s)]

\* The values of the first i digits have a value at every i.
LEMMA CountsUpExists ==
  ASSUME NEW X, NEW s \in Seq(X), \A i \in 1 .. Len(s) : S!IsDigit(s[i])
  PROVE  \E a : CountsUp(s, a)
<1> DEFINE N == Len(s)
           J == SUBSET (1 .. N)
           Op(v, i) == v * 10 + S!DigitOf(s[i])
           h == CHOOSE f : f = [t \in SUBSET (1 .. Len(s)) |->
                                  IF t = {} THEN 0
                                  ELSE f[t \ {S!Max(t)}] * 10 + S!DigitOf(s[S!Max(t)])]
           a == [i \in 0 .. N |-> h[1 .. i]]
<1>1. N \in Nat /\ DOMAIN s = 1 .. N
  BY LenProperties
<1>2. S!Number(s) = h[1 .. N]
  BY <1>1 DEF S!Number, S!FoldLeft, S!MapThenFoldSet
<1>3. \A i \in 1 .. N : S!DigitOf(s[i]) \in Int
  BY DigitValue
<1>4. ASSUME NEW v \in Int, NEW i \in 1 .. N PROVE Op(v, i) \in Int
  BY <1>3
<1>5. h = [t \in J |-> IF t = {} THEN 0 ELSE Op(h[t \ {S!Max(t)}], S!Max(t))]
  <2> DEFINE step == [x \in Int \X (1 .. N) |-> Op(x[1], x[2])]
  <2>1. step \in [Int \X (1 .. N) -> Int]
    <3> HIDE DEF Op
    <3> QED BY <1>4
  <2>2. PICK g : Folds(g, Int, N, 0, step)
    <3>1. 0 \in Int
      OBVIOUS
    <3> HIDE DEF step, N, Op, J, h, a
    <3> QED BY <1>1, <2>1, <3>1, FoldExists
  <2>3. ASSUME NEW t \in J
        PROVE  g[t] = IF t = {} THEN 0 ELSE Op(g[t \ {S!Max(t)}], S!Max(t))
    <3>1. g[t] = IF t = {} THEN 0 ELSE step[<<g[t \ {P!Max(t)}], P!Max(t)>>]
      BY <2>2 DEF Folds
    <3>2. CASE t # {}
      <4>1. P!Max(t) \in 1 .. N /\ S!Max(t) = P!Max(t)
        BY <1>1, <3>2, Greatest, SameMax
      <4>2. t \ {P!Max(t)} \in J /\ g \in [J -> Int]
        BY <2>2 DEF Folds
      <4>3. <<g[t \ {P!Max(t)}], P!Max(t)>> \in Int \X (1 .. N)
        BY <4>1, <4>2
      <4>4. step[<<g[t \ {P!Max(t)}], P!Max(t)>>] = Op(g[t \ {P!Max(t)}], P!Max(t))
        <5> HIDE DEF Op
        <5> QED BY <4>3
      <4> HIDE DEF step, Op
      <4> QED BY <3>1, <3>2, <4>1, <4>4
    <3> HIDE DEF step, Op
    <3> QED BY <3>1, <3>2
  <2>4. g = [t \in J |-> IF t = {} THEN 0 ELSE Op(g[t \ {S!Max(t)}], S!Max(t))]
    <3> HIDE DEF Op, step
    <3> QED BY <2>2, <2>3 DEF Folds
  <2> HIDE DEF step
  <2> QED BY <2>4
<1> HIDE DEF h
<1>6. a[0] = 0
  <2>1. 0 \in 0 .. N /\ 1 .. 0 = {} /\ {} \in J
    BY <1>1
  <2>2. h[{}] = 0
    <3> HIDE DEF J, Op
    <3> QED BY <1>5, <2>1
  <2> QED BY <2>1, <2>2
<1>7. ASSUME NEW i \in 1 .. N PROVE a[i] = a[i - 1] * 10 + S!DigitOf(s[i])
  <2>1. /\ 1 .. i \in J /\ 1 .. i # {} /\ S!Max(1 .. i) = i /\ (1 .. i) \ {i} = 1 .. i - 1
    BY <1>1, Prefixes, SameMax
  <2>2. h[1 .. i] = Op(h[1 .. i - 1], i)
    <3> HIDE DEF J, Op
    <3> QED BY <1>5, <2>1
  <2>3. i \in 0 .. N /\ i - 1 \in 0 .. N
    BY <1>1
  <2> QED BY <2>2, <2>3
<1>8. S!Number(s) = a[N]
  BY <1>1, <1>2
<1>9. a \in [0 .. N -> Int]
  <2> DEFINE T == {i \in Nat : i <= N => a[i] \in Int}
  <2> HIDE DEF a
  <2>1. 0 \in T
    BY <1>6
  <2>2. ASSUME NEW i \in Nat, i \in T PROVE i + 1 \in T
    <3> SUFFICES ASSUME i + 1 <= N PROVE a[i + 1] \in Int
      OBVIOUS
    <3>1. i + 1 \in 1 .. N /\ (i + 1) - 1 = i /\ a[i] \in Int
      BY <1>1, <2>2
    <3>2. a[i + 1] = a[i] * 10 + S!DigitOf(s[i + 1])
      BY <1>7, <3>1
    <3>3. S!DigitOf(s[i + 1]) \in Int
      BY <1>3, <3>1
    <3> QED BY <3>1, <3>2, <3>3
  <2> HIDE DEF T
  <2>3. Nat \subseteq T
    BY <2>1, <2>2, AllNumbers
  <2>4. \A i \in 0 .. N : a[i] \in Int
    BY <1>1, <2>3 DEF T
  <2>5. a = [i \in 0 .. N |-> a[i]]
    BY DEF a
  <2> QED BY <2>4, <2>5
<1> HIDE DEF a
<1>10. CountsUp(s, a)
  BY <1>6, <1>7, <1>8, <1>9 DEF CountsUp
<1> QED BY <1>10

\* One digit more.
LEMMA NumberGrows ==
  ASSUME NEW X, NEW s \in Seq(X), NEW ch \in X, S!IsDigit(ch),
         \A i \in 1 .. Len(s) : S!IsDigit(s[i])
  PROVE  /\ S!Number(s) \in Int
         /\ S!Number(Append(s, ch)) = S!Number(s) * 10 + S!DigitOf(ch)
<1> DEFINE t == Append(s, ch)
           N == Len(s)
<1>1. /\ N \in Nat /\ t \in Seq(X) /\ Len(t) = N + 1 /\ t[N + 1] = ch
      /\ \A i \in 1 .. N : t[i] = s[i]
  BY AppendProperties, LenProperties
<1> HIDE DEF t
<1>2. \A i \in 1 .. Len(t) : S!IsDigit(t[i])
  <2> SUFFICES ASSUME NEW i \in 1 .. N + 1 PROVE S!IsDigit(t[i])
    BY <1>1
  <2>1. CASE i = N + 1
    BY <1>1, <2>1
  <2>2. CASE i # N + 1
    <3>1. i \in 1 .. N
      BY <1>1, <2>2
    <3> QED BY <1>1, <3>1
  <2> QED BY <2>1, <2>2
<1>3. PICK a : CountsUp(s, a)
  BY CountsUpExists
<1>4. PICK b : CountsUp(t, b)
  BY <1>1, <1>2, CountsUpExists
<1>5. /\ a \in [0 .. N -> Int] /\ a[0] = 0 /\ S!Number(s) = a[N]
      /\ \A i \in 1 .. N : a[i] = a[i - 1] * 10 + S!DigitOf(s[i])
  BY <1>3 DEF CountsUp
<1>6. /\ b[0] = 0 /\ S!Number(t) = b[N + 1]
      /\ \A i \in 1 .. N + 1 : b[i] = b[i - 1] * 10 + S!DigitOf(t[i])
  BY <1>1, <1>4 DEF CountsUp
<1> DEFINE T == {i \in Nat : i <= N => b[i] = a[i]}
<1>7. 0 \in T
  BY <1>5, <1>6
<1>8. ASSUME NEW i \in Nat, i \in T PROVE i + 1 \in T
  <2> SUFFICES ASSUME i + 1 <= N PROVE b[i + 1] = a[i + 1]
    OBVIOUS
  <2>1. i + 1 \in 1 .. N /\ i + 1 \in 1 .. N + 1 /\ (i + 1) - 1 = i /\ b[i] = a[i]
    BY <1>1, <1>8
  <2>2. b[i + 1] = b[i] * 10 + S!DigitOf(t[i + 1]) /\ a[i + 1] = a[i] * 10 + S!DigitOf(s[i + 1])
    <3>1. b[i + 1] = b[(i + 1) - 1] * 10 + S!DigitOf(t[i + 1])
      BY <1>6, <2>1
    <3>2. a[i + 1] = a[(i + 1) - 1] * 10 + S!DigitOf(s[i + 1])
      BY <1>5, <2>1
    <3> QED BY <2>1, <3>1, <3>2
  <2> QED BY <1>1, <2>1, <2>2
<1> HIDE DEF T
<1>9. N \in T
  BY <1>1, <1>7, <1>8, AllNumbers
<1>10. b[N] = a[N]
  BY <1>1, <1>9 DEF T
<1>11. b[N + 1] = b[N] * 10 + S!DigitOf(ch)
  <2>1. N + 1 \in 1 .. N + 1 /\ (N + 1) - 1 = N
    BY <1>1
  <2>2. b[N + 1] = b[(N + 1) - 1] * 10 + S!DigitOf(t[N + 1])
    BY <1>6, <2>1
  <2> QED BY <1>1, <2>1, <2>2
<1>12. a[N] \in Int
  BY <1>1, <1>5
<1> QED BY <1>5, <1>6, <1>10, <1>11, <1>12 DEF t

\* The number of no digits, and that of digits is one.
LEMMA NumberTyped ==
  /\ S!Number(<<>>) = 0
  /\ \A s \in Seq(STRING) : (\A i \in 1 .. Len(s) : S!IsDigit(s[i])) => S!Number(s) \in Int
<1>1. S!Number(<<>>) = 0
  <2>1. <<>> \in Seq(STRING) /\ Len(<<>>) = 0
    OBVIOUS
  <2>2. \A i \in 1 .. Len(<<>>) : S!IsDigit(<<>>[i])
    BY <2>1
  <2>3. PICK a : CountsUp(<<>>, a)
    BY <2>1, <2>2, CountsUpExists
  <2> QED BY <2>1, <2>3 DEF CountsUp
<1>2. ASSUME NEW s \in Seq(STRING), \A i \in 1 .. Len(s) : S!IsDigit(s[i])
      PROVE  S!Number(s) \in Int
  <2>1. PICK a : CountsUp(s, a)
    BY <1>2, CountsUpExists
  <2>2. Len(s) \in Nat
    BY LenProperties
  <2> QED BY <2>1, <2>2 DEF CountsUp
<1> QED BY <1>1, <1>2

\* The greatest of a set of numbers, by what it is.
LEMMA MaxIs ==
  ASSUME NEW s \in SUBSET Int, NEW n \in s, \A m \in s : m <= n
  PROVE  S!Max(s) = n
<1>1. \A m \in s : n >= m
  OBVIOUS
<1>2. S!Max(s) \in s /\ \A m \in s : S!Max(s) >= m
  BY <1>1 DEF S!Max
<1>3. S!Max(s) \in Int /\ n \in Int /\ S!Max(s) >= n /\ n >= S!Max(s)
  BY <1>1, <1>2
<1> QED BY <1>3

\* The longest run of places in G after place i, up to place N.
RunOf(N, i, G) == {m \in 0 .. N - i : \A j \in i + 1 .. i + m : j \in G}

\* The longest run of places from i in a set ends at the end or before a place outside it.
LEMMA LongestRun ==
  ASSUME NEW N \in Nat, NEW i \in 0 .. N, NEW G
  PROVE  /\ S!Max(RunOf(N, i, G)) \in RunOf(N, i, G)
         /\ \A n \in RunOf(N, i, G) : n <= S!Max(RunOf(N, i, G))
         /\ \A n \in RunOf(N, i, G) : i + n = N \/ i + n + 1 \notin G => S!Max(RunOf(N, i, G)) = n
<1> DEFINE s == RunOf(N, i, G)
           T == {y \in Nat : \E x \in s : y = N - x}
<1>1. s \in SUBSET Int /\ 0 \in s /\ \A x \in s : x \in 0 .. N - i /\ N - x \in Nat
  BY DEF RunOf
<1>2. N - 0 \in T
  BY <1>1
<1>3. PICK y \in T : \A z \in T : y <= z
  <2> HIDE DEF T
  <2>1. T \in SUBSET Nat
    BY DEF T
  <2> QED BY <1>2, <2>1, LeastNumber
<1>4. PICK x \in s : y = N - x
  BY <1>3
<1>5. \A z \in s : z <= x
  <2> TAKE z \in s
  <2>1. N - z \in T /\ z \in Int /\ x \in Int
    BY <1>1
  <2> HIDE DEF T, s
  <2> QED BY <1>3, <1>4, <2>1
<1>6. S!Max(s) = x
  BY <1>1, <1>4, <1>5, MaxIs
<1>7. ASSUME NEW n \in s, i + n = N \/ i + n + 1 \notin G PROVE S!Max(s) = n
  <2>1. ASSUME NEW m \in s PROVE m <= n
    <3>1. m \in 0 .. N - i /\ n \in 0 .. N - i /\ \A j \in i + 1 .. i + m : j \in G
      BY DEF RunOf
    <3>2. CASE i + n = N
      BY <3>1, <3>2
    <3>3. CASE i + n + 1 \notin G
      <4>1. i + n + 1 \notin i + 1 .. i + m
        BY <3>1, <3>3
      <4> QED BY <3>1, <4>1
    <3> QED BY <1>7, <3>2, <3>3
  <2> QED BY <1>1, <2>1, MaxIs
<1> QED BY <1>4, <1>5, <1>6, <1>7

\* The places of a stream whose character is of a kind.
PlacesOf(inp, Has(_)) == {j \in 1 .. Len(inp) : Has(inp[j])}

\* The runs of spaces, of digits and of other characters, as runs of places.
LEMMA Runs ==
  ASSUME NEW inp, Len(inp) \in Nat, NEW i \in 0 .. Len(inp)
  PROVE  /\ S!Run(inp, i, S!IsSpace) = S!Max(RunOf(Len(inp), i, PlacesOf(inp, S!IsSpace)))
         /\ S!Run(inp, i, S!IsDigit) = S!Max(RunOf(Len(inp), i, PlacesOf(inp, S!IsDigit)))
         /\ S!Run(inp, i, S!NotSpace) = S!Max(RunOf(Len(inp), i, PlacesOf(inp, S!NotSpace)))
         /\ S!Run(inp, i, S!Anything) = S!Max(RunOf(Len(inp), i, PlacesOf(inp, S!Anything)))
<1>1. \A m \in 0 .. Len(inp) - i : \A j \in i + 1 .. i + m : j \in 1 .. Len(inp)
  OBVIOUS
<1>2. {n \in 0 .. Len(inp) - i : \A j \in i + 1 .. i + n : S!IsSpace(inp[j])}
        = RunOf(Len(inp), i, PlacesOf(inp, S!IsSpace))
  BY <1>1 DEF RunOf, PlacesOf
<1>3. {n \in 0 .. Len(inp) - i : \A j \in i + 1 .. i + n : S!IsDigit(inp[j])}
        = RunOf(Len(inp), i, PlacesOf(inp, S!IsDigit))
  BY <1>1 DEF RunOf, PlacesOf
<1>4. {n \in 0 .. Len(inp) - i : \A j \in i + 1 .. i + n : S!NotSpace(inp[j])}
        = RunOf(Len(inp), i, PlacesOf(inp, S!NotSpace))
  BY <1>1 DEF RunOf, PlacesOf
<1>5. {n \in 0 .. Len(inp) - i : \A j \in i + 1 .. i + n : S!Anything(inp[j])}
        = RunOf(Len(inp), i, PlacesOf(inp, S!Anything))
  BY <1>1 DEF RunOf, PlacesOf
<1> QED BY <1>2, <1>3, <1>4, <1>5 DEF S!Run

\* n characters of a text from place i on are of a kind.
OfKind(inp, i, n, Has(_)) == i + n <= Len(inp) /\ \A k \in i + 1 .. i + n : Has(inp[k])

\* A run is as long as the characters of its kind go on.
LEMMA RunIs ==
  ASSUME NEW inp, Len(inp) \in Nat, NEW i \in 0 .. Len(inp), NEW n \in Nat
  PROVE  /\ OfKind(inp, i, n, S!IsSpace) /\ (i + n = Len(inp) \/ ~S!IsSpace(inp[i + n + 1]))
              => S!Run(inp, i, S!IsSpace) = n
         /\ OfKind(inp, i, n, S!IsDigit) /\ (i + n = Len(inp) \/ ~S!IsDigit(inp[i + n + 1]))
              => S!Run(inp, i, S!IsDigit) = n
         /\ OfKind(inp, i, n, S!NotSpace) /\ (i + n = Len(inp) \/ ~S!NotSpace(inp[i + n + 1]))
              => S!Run(inp, i, S!NotSpace) = n
         /\ S!Run(inp, i, S!Anything) = Len(inp) - i
<1> DEFINE N == Len(inp)
<1>1. ASSUME NEW G, i + n <= N, \A k \in i + 1 .. i + n : k \in G,
             i + n = N \/ i + n + 1 \notin G
      PROVE  S!Max(RunOf(N, i, G)) = n
  <2>1. n \in RunOf(N, i, G)
    BY <1>1 DEF RunOf
  <2> HIDE DEF N
  <2> QED BY <1>1, <2>1, LongestRun DEF N
<1>2. \A m \in Nat : i + m <= N => \A k \in i + 1 .. i + m : k \in 1 .. N
  OBVIOUS
<1>3. ASSUME OfKind(inp, i, n, S!IsSpace), i + n = N \/ ~S!IsSpace(inp[i + n + 1])
      PROVE  S!Run(inp, i, S!IsSpace) = n
  <2>1. /\ i + n <= N /\ \A k \in i + 1 .. i + n : k \in PlacesOf(inp, S!IsSpace)
        /\ i + n = N \/ i + n + 1 \notin PlacesOf(inp, S!IsSpace)
    BY <1>2, <1>3 DEF OfKind, PlacesOf
  <2> QED BY <1>1, <2>1, Runs
<1>4. ASSUME OfKind(inp, i, n, S!IsDigit), i + n = N \/ ~S!IsDigit(inp[i + n + 1])
      PROVE  S!Run(inp, i, S!IsDigit) = n
  <2>1. /\ i + n <= N /\ \A k \in i + 1 .. i + n : k \in PlacesOf(inp, S!IsDigit)
        /\ i + n = N \/ i + n + 1 \notin PlacesOf(inp, S!IsDigit)
    BY <1>2, <1>4 DEF OfKind, PlacesOf
  <2> QED BY <1>1, <2>1, Runs
<1>5. ASSUME OfKind(inp, i, n, S!NotSpace), i + n = N \/ ~S!NotSpace(inp[i + n + 1])
      PROVE  S!Run(inp, i, S!NotSpace) = n
  <2>1. /\ i + n <= N /\ \A k \in i + 1 .. i + n : k \in PlacesOf(inp, S!NotSpace)
        /\ i + n = N \/ i + n + 1 \notin PlacesOf(inp, S!NotSpace)
    BY <1>2, <1>5 DEF OfKind, PlacesOf
  <2> QED BY <1>1, <2>1, Runs
<1>6. S!Run(inp, i, S!Anything) = N - i
  <2>1. N - i \in Nat /\ i + (N - i) = N
    OBVIOUS
  <2>2. N - i \in RunOf(N, i, PlacesOf(inp, S!Anything))
    BY <1>2, <2>1 DEF RunOf, PlacesOf, S!Anything
  <2>3. S!Max(RunOf(N, i, PlacesOf(inp, S!Anything))) = N - i
    <3> HIDE DEF N
    <3> QED BY <2>1, <2>2, LongestRun DEF N
  <2> QED BY <2>3, Runs
<1> HIDE DEF N
<1> QED BY <1>3, <1>4, <1>5, <1>6 DEF N

\* A run stays in the text and is of its kind.
LEMMA RunTyped ==
  ASSUME NEW inp, Len(inp) \in Nat, NEW i \in 0 .. Len(inp)
  PROVE  /\ S!Run(inp, i, S!IsSpace) \in 0 .. Len(inp) - i
         /\ S!Run(inp, i, S!IsDigit) \in 0 .. Len(inp) - i
         /\ OfKind(inp, i, S!Run(inp, i, S!IsDigit), S!IsDigit)
         /\ S!Run(inp, i, S!NotSpace) \in 0 .. Len(inp) - i
<1>1. ASSUME NEW G
      PROVE  /\ S!Max(RunOf(Len(inp), i, G)) \in 0 .. Len(inp) - i
             /\ \A j \in i + 1 .. i + S!Max(RunOf(Len(inp), i, G)) : j \in G
  <2>1. S!Max(RunOf(Len(inp), i, G)) \in RunOf(Len(inp), i, G)
    BY LongestRun
  <2> QED BY <2>1 DEF RunOf
<1>2. /\ S!Run(inp, i, S!IsSpace) \in 0 .. Len(inp) - i
      /\ S!Run(inp, i, S!IsDigit) \in 0 .. Len(inp) - i
      /\ S!Run(inp, i, S!NotSpace) \in 0 .. Len(inp) - i
  BY <1>1, Runs
<1>3. \A j \in i + 1 .. i + S!Run(inp, i, S!IsDigit) : j \in PlacesOf(inp, S!IsDigit)
  BY <1>1, Runs
<1>4. OfKind(inp, i, S!Run(inp, i, S!IsDigit), S!IsDigit)
  <2> DEFINE n == S!Run(inp, i, S!IsDigit)
  <2>1. n \in 0 .. Len(inp) - i /\ \A j \in i + 1 .. i + n : j \in PlacesOf(inp, S!IsDigit)
    BY <1>2, <1>3
  <2> HIDE DEF n
  <2>2. i + n <= Len(inp) /\ \A j \in i + 1 .. i + n : S!IsDigit(inp[j])
    BY <2>1 DEF PlacesOf
  <2> QED BY <2>2 DEF OfKind, n
<1> QED BY <1>2, <1>4

\* White space ends where the text does or at another character.
LEMMA SpacesAfter ==
  ASSUME NEW inp, Len(inp) \in Nat, NEW i \in 0 .. Len(inp)
  PROVE  /\ S!AfterSpaces(inp, i) \in 0 .. Len(inp)
         /\ \A n \in Nat : /\ OfKind(inp, i, n, S!IsSpace)
                           /\ i + n = Len(inp) \/ ~S!IsSpace(inp[i + n + 1])
                           => S!AfterSpaces(inp, i) = i + n
<1>1. S!AfterSpaces(inp, i) \in 0 .. Len(inp)
  <2>1. S!Run(inp, i, S!IsSpace) \in 0 .. Len(inp) - i
    BY RunTyped
  <2>2. S!AfterSpaces(inp, i) = i + S!Run(inp, i, S!IsSpace)
    BY DEF S!AfterSpaces
  <2> QED BY <2>1, <2>2
<1>2. ASSUME NEW n \in Nat, OfKind(inp, i, n, S!IsSpace),
             i + n = Len(inp) \/ ~S!IsSpace(inp[i + n + 1])
      PROVE  S!AfterSpaces(inp, i) = i + n
  BY <1>2, RunIs DEF S!AfterSpaces
<1> QED BY <1>1, <1>2

\* A width of 0 limits nothing.
LEMMA LimitIs ==
  ASSUME NEW n \in Nat, NEW w \in Nat
  PROVE  /\ S!Limit(n, w) = IF w = 0 \/ n <= w THEN n ELSE w
         /\ S!Limit(n, w) \in 0 .. n
<1>1. S!Min({n, w}) = IF n <= w THEN n ELSE w
  BY OfTwo, SameMax
<1> QED BY <1>1 DEF S!Limit
\* A run that ends, or that a width ends.
LEMMA LimitedRun ==
  ASSUME NEW inp, Len(inp) \in Nat, NEW i \in 0 .. Len(inp), NEW n \in Nat, NEW w \in Nat,
         w = 0 \/ n <= w
  PROVE  /\ /\ OfKind(inp, i, n, S!IsDigit)
            /\ i + n = Len(inp) \/ ~S!IsDigit(inp[i + n + 1]) \/ (w # 0 /\ n = w)
            => S!Limit(S!Run(inp, i, S!IsDigit), w) = n
         /\ /\ OfKind(inp, i, n, S!NotSpace)
            /\ i + n = Len(inp) \/ ~S!NotSpace(inp[i + n + 1]) \/ (w # 0 /\ n = w)
            => S!Limit(S!Run(inp, i, S!NotSpace), w) = n
<1>1. \A m \in Nat : i + m <= Len(inp) => \A k \in i + 1 .. i + m : k \in 1 .. Len(inp)
  OBVIOUS
<1>2. ASSUME NEW m \in Nat, m = n \/ (w # 0 /\ n = w /\ n <= m) PROVE S!Limit(m, w) = n
  <2>1. S!Limit(m, w) = IF w = 0 \/ m <= w THEN m ELSE w
    BY LimitIs
  <2> QED BY <1>2, <2>1
<1>3. ASSUME NEW G, n \in RunOf(Len(inp), i, G), w # 0 /\ n = w
      PROVE  S!Limit(S!Max(RunOf(Len(inp), i, G)), w) = n
  <2> DEFINE m == S!Max(RunOf(Len(inp), i, G))
  <2>1. m \in RunOf(Len(inp), i, G) /\ n <= m
    BY <1>3, LongestRun
  <2>2. m \in Nat
    BY <2>1 DEF RunOf
  <2> HIDE DEF m
  <2>3. S!Limit(m, w) = n
    BY <1>2, <1>3, <2>1, <2>2
  <2> QED BY <2>3 DEF m
<1>4. ASSUME OfKind(inp, i, n, S!IsDigit),
             i + n = Len(inp) \/ ~S!IsDigit(inp[i + n + 1]) \/ (w # 0 /\ n = w)
      PROVE  S!Limit(S!Run(inp, i, S!IsDigit), w) = n
  <2>1. CASE w # 0 /\ n = w
    <3>1. n \in RunOf(Len(inp), i, PlacesOf(inp, S!IsDigit))
      <4>1. /\ i + n <= Len(inp)
            /\ \A k \in i + 1 .. i + n : k \in PlacesOf(inp, S!IsDigit)
        BY <1>1, <1>4 DEF OfKind, PlacesOf
      <4> QED BY <4>1 DEF RunOf
    <3> QED BY <1>3, <2>1, <3>1, Runs
  <2>2. CASE i + n = Len(inp) \/ ~S!IsDigit(inp[i + n + 1])
    <3>1. S!Run(inp, i, S!IsDigit) = n
      BY <1>4, <2>2, RunIs
    <3> QED BY <1>2, <3>1
  <2> QED BY <1>4, <2>1, <2>2
<1>5. ASSUME OfKind(inp, i, n, S!NotSpace),
             i + n = Len(inp) \/ ~S!NotSpace(inp[i + n + 1]) \/ (w # 0 /\ n = w)
      PROVE  S!Limit(S!Run(inp, i, S!NotSpace), w) = n
  <2>1. CASE w # 0 /\ n = w
    <3>1. n \in RunOf(Len(inp), i, PlacesOf(inp, S!NotSpace))
      <4>1. /\ i + n <= Len(inp)
            /\ \A k \in i + 1 .. i + n : k \in PlacesOf(inp, S!NotSpace)
        BY <1>1, <1>5 DEF OfKind, PlacesOf
      <4> QED BY <4>1 DEF RunOf
    <3> QED BY <1>3, <2>1, <3>1, Runs
  <2>2. CASE i + n = Len(inp) \/ ~S!NotSpace(inp[i + n + 1])
    <3>1. S!Run(inp, i, S!NotSpace) = n
      BY <1>5, <2>2, RunIs
    <3> QED BY <1>2, <3>1
  <2> QED BY <1>5, <2>1, <2>2
<1> QED BY <1>4, <1>5

\* What a part of a format reads, kind by kind.
LEMMA PartIs ==
  ASSUME NEW inp, NEW p, NEW i
  PROVE  /\ p.kind = "space" => S!ReadPart(inp, p, i) = S!Reads(<<>>, S!AfterSpaces(inp, i))
         /\ p.kind = "literal" =>
              S!ReadPart(inp, p, i) = IF i < Len(inp) /\ inp[i + 1] = p.char
                                      THEN S!Reads(<<>>, i + 1) ELSE S!Fails(i)
         /\ p.kind = "directive" /\ p.conv = "d" =>
              S!ReadPart(inp, p, i) = S!ReadNumber(inp, S!AfterSpaces(inp, i), p.width)
         /\ p.kind = "directive" /\ p.conv = "s" =>
              S!ReadPart(inp, p, i) =
                S!ReadChars(inp, S!AfterSpaces(inp, i),
                  S!Limit(S!Run(inp, S!AfterSpaces(inp, i), S!NotSpace), p.width))
         /\ p.kind = "directive" /\ p.conv = "c" =>
              S!ReadPart(inp, p, i) =
                IF i = Len(inp) THEN S!Fails(i)
                ELSE S!ReadChars(inp, i, S!Limit(S!Run(inp, i, S!Anything), S!Max({p.width, 1})))
         /\ p.kind = "directive" /\ p.conv \notin {"d", "s", "c"} =>
              S!ReadPart(inp, p, i) = S!Fails(i)
<1>1. CASE p.kind = "space"
  <2>1. p.kind # "literal" /\ p.kind # "directive"
    BY <1>1
  <2> QED BY <1>1, <2>1, Zenon DEF S!ReadPart
<1>2. CASE p.kind = "literal"
  <2>1. p.kind # "space" /\ p.kind # "directive"
    BY <1>2
  <2> QED BY <1>2, <2>1, Zenon DEF S!ReadPart
<1>3. CASE p.kind = "directive"
  <2>1. p.kind # "space" /\ p.kind # "literal"
    BY <1>3
  <2>2. CASE p.conv = "d"
    <3>1. p.conv # "s" /\ p.conv # "c" /\ p.conv \in {"d", "s", "c"}
      BY <2>2
    <3> QED BY <1>3, <2>1, <2>2, <3>1, Zenon DEF S!ReadPart
  <2>3. CASE p.conv = "s"
    <3>1. p.conv # "d" /\ p.conv # "c" /\ p.conv \in {"d", "s", "c"}
      BY <2>3
    <3> QED BY <1>3, <2>1, <2>3, <3>1, Zenon DEF S!ReadPart
  <2>4. CASE p.conv = "c"
    <3>1. p.conv # "d" /\ p.conv # "s" /\ p.conv \in {"d", "s", "c"}
      BY <2>4
    <3> QED BY <1>3, <2>1, <2>4, <3>1, Zenon DEF S!ReadPart
  <2>5. CASE p.conv \notin {"d", "s", "c"}
    <3>1. p.conv # "d" /\ p.conv # "s" /\ p.conv # "c"
      BY <2>5
    <3> QED BY <1>3, <2>1, <2>5, <3>1, Zenon DEF S!ReadPart
  <2> QED BY <2>2, <2>3, <2>4, <2>5
<1>4. CASE p.kind \notin {"space", "literal", "directive"}
  BY <1>4
<1> QED BY <1>1, <1>2, <1>3, <1>4

\* A part of a text, and one with a character more.
LEMMA SubText ==
  ASSUME NEW inp \in Seq(STRING), NEW i \in Nat, NEW n \in Nat, i + n <= Len(inp)
  PROVE  /\ SubSeq(inp, i + 1, i + n) \in Seq(STRING)
         /\ Len(SubSeq(inp, i + 1, i + n)) = n
         /\ \A k \in 1 .. n : SubSeq(inp, i + 1, i + n)[k] = inp[i + k]
         /\ n = 0 => SubSeq(inp, i + 1, i + n) = <<>>
         /\ i + n < Len(inp) => SubSeq(inp, i + 1, i + (n + 1))
                                  = Append(SubSeq(inp, i + 1, i + n), inp[i + n + 1])
<1>1. Len(inp) \in Nat /\ \A k \in i + 1 .. i + n : inp[k] \in STRING
  <2>1. Len(inp) \in Nat /\ \A k \in 1 .. Len(inp) : inp[k] \in STRING
    BY ElementOfSeq, LenProperties
  <2> QED BY <2>1
<1>2. /\ SubSeq(inp, i + 1, i + n) \in Seq(STRING)
      /\ Len(SubSeq(inp, i + 1, i + n)) = n
      /\ \A k \in 1 .. n : SubSeq(inp, i + 1, i + n)[k] = inp[i + k]
  <2>1. i + 1 \in Int /\ i + n \in Int /\ (i + n) - (i + 1) + 1 = n /\ (i + 1 <= i + n <=> n >= 1)
    OBVIOUS
  <2>2. /\ SubSeq(inp, i + 1, i + n) \in Seq(STRING)
        /\ Len(SubSeq(inp, i + 1, i + n)) = IF i + 1 <= i + n THEN (i + n) - (i + 1) + 1 ELSE 0
        /\ \A k \in 1 .. (i + n) - (i + 1) + 1 : SubSeq(inp, i + 1, i + n)[k] = inp[(i + 1) + k - 1]
    BY <1>1, <2>1, SubSeqProperties
  <2>3. \A k \in 1 .. n : (i + 1) + k - 1 = i + k
    OBVIOUS
  <2> QED BY <2>1, <2>2, <2>3
<1>3. n = 0 => SubSeq(inp, i + 1, i + n) = <<>>
  BY <1>2, EmptySeq
<1>4. ASSUME i + n < Len(inp)
      PROVE  SubSeq(inp, i + 1, i + (n + 1)) = Append(SubSeq(inp, i + 1, i + n), inp[i + n + 1])
  <2>1. /\ i + 1 \in 1 .. Len(inp) /\ i + n + 1 \in i + 1 .. Len(inp)
        /\ (i + n + 1) - 1 = i + n /\ i + (n + 1) = i + n + 1
    BY <1>1, <1>4
  <2>2. SubSeq(inp, i + 1, i + n + 1) = SubSeq(inp, i + 1, (i + n + 1) - 1) \o <<inp[i + n + 1]>>
    BY <2>1, SubSeqRecursiveSecond
  <2>3. inp[i + n + 1] \in STRING
    <3>1. i + n + 1 \in 1 .. Len(inp)
      BY <2>1
    <3> QED BY <3>1, ElementOfSeq
  <2>4. Append(SubSeq(inp, i + 1, i + n), inp[i + n + 1])
          = SubSeq(inp, i + 1, i + n) \o <<inp[i + n + 1]>>
    BY <1>2, <2>3, AppendIsConcat
  <2> QED BY <2>1, <2>2, <2>4
<1> QED BY <1>2, <1>3, <1>4

\* The digits of a number of a text.
LEMMA DigitsOfText ==
  ASSUME NEW inp \in Seq(STRING), NEW i \in Nat, NEW n \in Nat, OfKind(inp, i, n, S!IsDigit)
  PROVE  \A k \in 1 .. Len(SubSeq(inp, i + 1, i + n)) : S!IsDigit(SubSeq(inp, i + 1, i + n)[k])
<1>1. i + n <= Len(inp) /\ \A k \in i + 1 .. i + n : S!IsDigit(inp[k])
  BY DEF OfKind
<1>2. /\ Len(SubSeq(inp, i + 1, i + n)) = n
      /\ \A k \in 1 .. n : SubSeq(inp, i + 1, i + n)[k] = inp[i + k]
  BY <1>1, SubText
<1>3. \A k \in 1 .. n : i + k \in i + 1 .. i + n
  OBVIOUS
<1> QED BY <1>1, <1>2, <1>3

\* The values scanf stores.
Scanned == Int \cup Seq(STRING)

\* What a part reads: whether it could, where it stops, and what it stores.
LEMMA ReadTyped ==
  ASSUME NEW inp \in Seq(STRING), NEW i \in 0 .. Len(inp), NEW p \in S!ScanParts
  PROVE  /\ S!ReadPart(inp, p, i).ok \in BOOLEAN
         /\ S!ReadPart(inp, p, i).next \in 0 .. Len(inp)
         /\ S!ReadPart(inp, p, i).ok => S!ReadPart(inp, p, i).stored \in Scanned
<1> DEFINE Good(o) == /\ o.ok \in BOOLEAN /\ o.next \in 0 .. Len(inp)
                      /\ o.ok => o.stored \in Scanned
           a == S!AfterSpaces(inp, i)
<1>1. Len(inp) \in Nat
  BY LenProperties
<1>2. ASSUME NEW k \in 0 .. Len(inp), NEW v \in Scanned PROVE Good(S!Reads(v, k)) /\ Good(S!Fails(k))
  BY DEF S!Reads, S!Fails
<1>3. <<>> \in Scanned /\ a \in 0 .. Len(inp)
  <2>1. <<>> \in Seq(STRING)
    OBVIOUS
  <2>2. a \in 0 .. Len(inp)
    BY <1>1, SpacesAfter
  <2> QED BY <2>1, <2>2 DEF Scanned
<1>4. ASSUME NEW k \in 0 .. Len(inp), NEW n \in 0 .. Len(inp) - k PROVE Good(S!ReadChars(inp, k, n))
  <2>1. k \in Nat /\ n \in Nat /\ k + n <= Len(inp) /\ k + n \in 0 .. Len(inp)
    BY <1>1
  <2>2. SubSeq(inp, k + 1, k + n) \in Scanned
    BY <2>1, SubText DEF Scanned
  <2> HIDE DEF Good
  <2> QED BY <1>2, <2>1, <2>2 DEF S!ReadChars
<1>5. ASSUME NEW k \in 0 .. Len(inp), NEW w \in Nat PROVE Good(S!ReadNumber(inp, k, w))
  <2> DEFINE signed == k < Len(inp) /\ inp[k + 1] \in {"-", "+"}
             j == IF signed THEN k + 1 ELSE k
             m == S!Run(inp, j, S!IsDigit)
             n == S!Limit(m, w)
             s == SubSeq(inp, j + 1, j + n)
             v == S!Number(s) * (IF signed /\ inp[k + 1] = "-" THEN -1 ELSE 1)
  <2>1. j \in 0 .. Len(inp)
    BY <1>1
  <2>2. S!ReadNumber(inp, k, w) = IF n = 0 THEN S!Fails(j) ELSE S!Reads(v, j + n)
    BY DEF S!ReadNumber
  <2> HIDE DEF j, signed
  <2>3. m \in 0 .. Len(inp) - j /\ OfKind(inp, j, m, S!IsDigit)
    BY <1>1, <2>1, RunTyped
  <2> HIDE DEF m
  <2>4. n \in 0 .. m
    <3>1. m \in Nat
      BY <2>3
    <3> QED BY <3>1, LimitIs
  <2> HIDE DEF n
  <2>5. n \in Nat /\ j \in Nat /\ j + n \in 0 .. Len(inp) /\ OfKind(inp, j, n, S!IsDigit)
    BY <1>1, <2>1, <2>3, <2>4 DEF OfKind
  <2>6. S!Number(s) \in Int
    <3>1. s \in Seq(STRING) /\ \A x \in 1 .. Len(s) : S!IsDigit(s[x])
      BY <2>5, SubText, DigitsOfText DEF OfKind
    <3> HIDE DEF s
    <3> QED BY <3>1, NumberTyped
  <2> HIDE DEF s
  <2>7. v \in Scanned
    BY <2>6 DEF Scanned
  <2> HIDE DEF v, Good
  <2> QED BY <1>2, <1>3, <2>1, <2>2, <2>5, <2>7
<1>6. CASE p.kind = "space"
  <2>1. S!ReadPart(inp, p, i) = S!Reads(<<>>, a)
    BY <1>6, PartIs
  <2> HIDE DEF Good, a
  <2>2. Good(S!ReadPart(inp, p, i))
    BY <1>2, <1>3, <2>1
  <2> QED BY <2>2 DEF Good
<1>7. CASE p.kind = "literal"
  <2>1. i < Len(inp) => i + 1 \in 0 .. Len(inp)
    BY <1>1
  <2>2. S!ReadPart(inp, p, i) = IF i < Len(inp) /\ inp[i + 1] = p.char
                                THEN S!Reads(<<>>, i + 1) ELSE S!Fails(i)
    BY <1>7, PartIs
  <2> HIDE DEF Good
  <2>3. Good(S!ReadPart(inp, p, i))
    BY <1>2, <1>3, <2>1, <2>2
  <2> QED BY <2>3 DEF Good
<1>8. CASE p.kind = "directive"
  <2>1. p.width \in Nat
    BY <1>8 DEF S!ScanParts
  <2>2. CASE p.conv = "d"
    <3>1. S!ReadPart(inp, p, i) = S!ReadNumber(inp, a, p.width)
      BY <1>8, <2>2, PartIs
    <3> HIDE DEF Good, a
    <3>2. Good(S!ReadPart(inp, p, i))
      BY <1>3, <1>5, <2>1, <3>1
    <3> QED BY <3>2 DEF Good
  <2>3. CASE p.conv = "s"
    <3> DEFINE n == S!Limit(S!Run(inp, a, S!NotSpace), p.width)
    <3>1. S!Run(inp, a, S!NotSpace) \in 0 .. Len(inp) - a
      BY <1>1, <1>3, RunTyped
    <3>2. n \in 0 .. Len(inp) - a
      <4> DEFINE m == S!Run(inp, a, S!NotSpace)
      <4>1. m \in Nat /\ m \in 0 .. Len(inp) - a
        BY <3>1
      <4> HIDE DEF m, a
      <4>2. S!Limit(m, p.width) \in 0 .. m
        BY <2>1, <4>1, LimitIs
      <4>3. S!Limit(m, p.width) \in 0 .. Len(inp) - a
        BY <1>1, <1>3, <4>1, <4>2
      <4> QED BY <4>3 DEF m
    <3> HIDE DEF n, Good
    <3>3. Good(S!ReadChars(inp, a, n))
      BY <1>3, <1>4, <3>2
    <3>4. S!ReadPart(inp, p, i) = S!ReadChars(inp, a, n)
      BY <1>8, <2>3, PartIs DEF n
    <3>5. Good(S!ReadPart(inp, p, i))
      BY <3>3, <3>4
    <3> QED BY <3>5 DEF Good
  <2>4. CASE p.conv = "c"
    <3> DEFINE n == S!Limit(S!Run(inp, i, S!Anything), S!Max({p.width, 1}))
    <3>1. S!Run(inp, i, S!Anything) = Len(inp) - i
      BY <1>1, RunIs
    <3>2. S!Max({p.width, 1}) \in Nat
      <4>1. S!Max({p.width, 1}) = IF p.width >= 1 THEN p.width ELSE 1
        BY <2>1, OfTwo, SameMax
      <4> QED BY <2>1, <4>1
    <3>3. n \in 0 .. Len(inp) - i
      <4> DEFINE w == S!Max({p.width, 1})
      <4>1. Len(inp) - i \in Nat
        BY <1>1
      <4> HIDE DEF w
      <4>2. S!Limit(Len(inp) - i, w) \in 0 .. Len(inp) - i
        BY <3>2, <4>1, LimitIs DEF w
      <4> QED BY <3>1, <4>2 DEF w
    <3> HIDE DEF n, Good
    <3>4. S!ReadPart(inp, p, i) = IF i = Len(inp) THEN S!Fails(i) ELSE S!ReadChars(inp, i, n)
      BY <1>8, <2>4, PartIs DEF n
    <3>5. Good(S!ReadPart(inp, p, i))
      BY <1>2, <1>3, <1>4, <3>3, <3>4
    <3> QED BY <3>5 DEF Good
  <2>5. CASE p.conv \notin {"d", "s", "c"}
    <3>1. S!ReadPart(inp, p, i) = S!Fails(i)
      BY <1>8, <2>5, PartIs
    <3> HIDE DEF Good, a
    <3>2. Good(S!ReadPart(inp, p, i))
      BY <1>2, <1>3, <3>1
    <3> QED BY <3>2 DEF Good
  <2> QED BY <2>2, <2>3, <2>4, <2>5
<1>9. p.kind \in {"space", "literal", "directive"}
  BY DEF S!ScanParts
<1> QED BY <1>6, <1>7, <1>8, <1>9

\* One part more of a format, after a reading r of those before it.
PartRead(inp, r, p) ==
  IF ~r.ok THEN r
  ELSE LET one == S!ReadPart(inp, p, r.next)
       IN [ok |-> one.ok, next |-> one.next,
           stores |-> IF one.ok /\ S!Stores(p) THEN Append(r.stores, one.stored) ELSE r.stores]

ReadingOf(inp) == [ok : BOOLEAN, next : 0 .. Len(inp), stores : Seq(Scanned)]

\* Reading one part more gives a reading again.
LEMMA PartReadTyped ==
  ASSUME NEW inp \in Seq(STRING), NEW r \in ReadingOf(inp), NEW p \in S!ScanParts
  PROVE  PartRead(inp, r, p) \in ReadingOf(inp)
<1>1. r.ok \in BOOLEAN /\ r.next \in 0 .. Len(inp) /\ r.stores \in Seq(Scanned)
  BY DEF ReadingOf
<1>2. CASE ~r.ok
  BY <1>2 DEF PartRead
<1>3. CASE r.ok
  <2> DEFINE one == S!ReadPart(inp, p, r.next)
  <2>1. one.ok \in BOOLEAN /\ one.next \in 0 .. Len(inp) /\ (one.ok => one.stored \in Scanned)
    BY <1>1, ReadTyped
  <2> HIDE DEF one
  <2>2. one.ok => Append(r.stores, one.stored) \in Seq(Scanned)
    BY <1>1, <2>1, AppendProperties
  <2>3. PartRead(inp, r, p) =
          [ok |-> one.ok, next |-> one.next,
           stores |-> IF one.ok /\ S!Stores(p) THEN Append(r.stores, one.stored) ELSE r.stores]
    BY <1>3 DEF PartRead, one
  <2> QED BY <1>1, <2>1, <2>2, <2>3 DEF ReadingOf
<1> QED BY <1>1, <1>2, <1>3

\* r[k] is the reading of the first k parts of f from place i on.
ReadsAs(r, inp, f, i) ==
  /\ r \in [0 .. Len(f) -> ReadingOf(inp)]
  /\ r[0] = [ok |-> TRUE, next |-> i, stores |-> <<>>]
  /\ \A k \in 1 .. Len(f) : r[k] = PartRead(inp, r[k - 1], f[k])

\* The readings of the parts of a format, up to that of the whole.
ReadingsOf(inp, f, i) == CHOOSE r : ReadsAs(r, inp, f, i) /\ r[Len(f)] = S!ReadFormat(inp, f, i)

\* The readings of the first k parts, one after the other, are what ReadFormat describes.
LEMMA ReadingsAre ==
  ASSUME NEW inp \in Seq(STRING), NEW f \in Seq(S!ScanParts), NEW i \in 0 .. Len(inp)
  PROVE  /\ ReadsAs(ReadingsOf(inp, f, i), inp, f, i)
         /\ ReadingsOf(inp, f, i)[Len(f)] = S!ReadFormat(inp, f, i)
<1> DEFINE N == Len(f)
           J == SUBSET (1 .. N)
           V == ReadingOf(inp)
           base == [ok |-> TRUE, next |-> i, stores |-> <<>>]
           Op(v, p) == PartRead(inp, v, p)
           h == CHOOSE hh : hh = [t \in SUBSET (1 .. Len(f)) |->
                                  IF t = {} THEN base
                                  ELSE Op(hh[t \ {S!Max(t)}], f[S!Max(t)])]
           r == [k \in 0 .. N |-> h[1 .. k]]
<1>1. N \in Nat /\ DOMAIN f = 1 .. N /\ \A k \in 1 .. N : f[k] \in S!ScanParts
  BY ElementOfSeq, LenProperties
<1>2. S!ReadFormat(inp, f, i) = h[1 .. N]
  <2>1. S!ReadFormat(inp, f, i) = S!FoldLeft(Op, base, f)
    BY DEF S!ReadFormat, PartRead
  <2>2. DOMAIN f = 1 .. Len(f)
    BY <1>1
  <2> QED BY <2>1, <2>2 DEF S!FoldLeft, S!MapThenFoldSet
<1>3. base \in V
  <2>1. <<>> \in Seq(Scanned)
    OBVIOUS
  <2> QED BY <2>1 DEF ReadingOf
<1>4. ASSUME NEW v \in V, NEW k \in 1 .. N PROVE Op(v, f[k]) \in V
  BY <1>1, PartReadTyped
<1> HIDE DEF base
<1>5. h = [t \in J |-> IF t = {} THEN base ELSE Op(h[t \ {S!Max(t)}], f[S!Max(t)])]
  <2> DEFINE step == [x \in V \X (1 .. N) |-> Op(x[1], f[x[2]])]
  <2>1. step \in [V \X (1 .. N) -> V]
    <3> HIDE DEF Op, V
    <3> QED BY <1>4
  <2>2. PICK g : Folds(g, V, N, base, step)
    <3> HIDE DEF step, N, Op, J, h, r, V
    <3> QED BY <1>1, <1>3, <2>1, FoldExists
  <2>3. ASSUME NEW t \in J
        PROVE  g[t] = IF t = {} THEN base ELSE Op(g[t \ {S!Max(t)}], f[S!Max(t)])
    <3>1. g[t] = IF t = {} THEN base ELSE step[<<g[t \ {P!Max(t)}], P!Max(t)>>]
      BY <2>2 DEF Folds
    <3>2. CASE t # {}
      <4>1. P!Max(t) \in 1 .. N /\ S!Max(t) = P!Max(t)
        BY <1>1, <3>2, Greatest, SameMax
      <4>2. t \ {P!Max(t)} \in J /\ g \in [J -> V]
        BY <2>2 DEF Folds
      <4>3. <<g[t \ {P!Max(t)}], P!Max(t)>> \in V \X (1 .. N)
        BY <4>1, <4>2
      <4>4. step[<<g[t \ {P!Max(t)}], P!Max(t)>>] = Op(g[t \ {P!Max(t)}], f[P!Max(t)])
        <5> HIDE DEF Op
        <5> QED BY <4>3
      <4> HIDE DEF step, Op
      <4> QED BY <3>1, <3>2, <4>1, <4>4
    <3> HIDE DEF step, Op
    <3> QED BY <3>1, <3>2
  <2>4. g = [t \in J |-> IF t = {} THEN base ELSE Op(g[t \ {S!Max(t)}], f[S!Max(t)])]
    <3> HIDE DEF Op, step
    <3> QED BY <2>2, <2>3 DEF Folds
  <2> HIDE DEF step
  <2> QED BY <2>4
<1> HIDE DEF h
<1>8. r[0] = base
  <2>1. 0 \in 0 .. N /\ 1 .. 0 = {} /\ {} \in J
    BY <1>1
  <2>2. h[{}] = base
    <3> HIDE DEF J, Op
    <3> QED BY <1>5, <2>1
  <2> QED BY <2>1, <2>2
<1>9. ASSUME NEW k \in 1 .. N PROVE r[k] = Op(r[k - 1], f[k])
  <2>1. /\ 1 .. k \in J /\ 1 .. k # {} /\ S!Max(1 .. k) = k /\ (1 .. k) \ {k} = 1 .. k - 1
    BY <1>1, Prefixes, SameMax
  <2>2. h[1 .. k] = Op(h[1 .. k - 1], f[k])
    <3> HIDE DEF J, Op
    <3> QED BY <1>5, <2>1
  <2>3. k \in 0 .. N /\ k - 1 \in 0 .. N
    BY <1>1
  <2> HIDE DEF Op
  <2> QED BY <2>2, <2>3
<1>7. r \in [0 .. N -> V]
  <2> DEFINE T == {k \in Nat : k <= N => r[k] \in V}
  <2> HIDE DEF r, Op, V
  <2>1. 0 \in T
    BY <1>3, <1>8
  <2>2. ASSUME NEW k \in Nat, k \in T PROVE k + 1 \in T
    <3> SUFFICES ASSUME k + 1 <= N PROVE r[k + 1] \in V
      OBVIOUS
    <3>1. k + 1 \in 1 .. N /\ (k + 1) - 1 = k /\ r[k] \in V
      BY <1>1, <2>2
    <3>2. r[k + 1] = Op(r[k], f[k + 1])
      BY <1>9, <3>1
    <3> QED BY <1>4, <3>1, <3>2
  <2> HIDE DEF T
  <2>3. Nat \subseteq T
    BY <2>1, <2>2, AllNumbers
  <2>4. \A k \in 0 .. N : r[k] \in V
    BY <1>1, <2>3 DEF T
  <2>5. r = [k \in 0 .. N |-> r[k]]
    BY DEF r
  <2> QED BY <2>4, <2>5
<1>10. r[N] = h[1 .. N]
  BY <1>1
<1> HIDE DEF r
<1>11. ReadsAs(r, inp, f, i) /\ r[Len(f)] = S!ReadFormat(inp, f, i)
  BY <1>2, <1>7, <1>8, <1>9, <1>10 DEF ReadsAs, base
<1> QED BY <1>11 DEF ReadingsOf

\* A reading that failed stays as it is.
LEMMA FailedStays ==
  ASSUME NEW r, NEW inp, NEW f, NEW i, ReadsAs(r, inp, f, i), Len(f) \in Nat,
         NEW k \in 0 .. Len(f), ~r[k].ok
  PROVE  r[Len(f)] = r[k]
<1> DEFINE T == {m \in Nat : k + m <= Len(f) => r[k + m] = r[k]}
<1>1. 0 \in T
  <2>1. k + 0 = k
    OBVIOUS
  <2> QED BY <2>1
<1>2. ASSUME NEW m \in Nat, m \in T PROVE m + 1 \in T
  <2> SUFFICES ASSUME k + (m + 1) <= Len(f) PROVE r[k + (m + 1)] = r[k]
    OBVIOUS
  <2>1. k + (m + 1) \in 1 .. Len(f) /\ (k + (m + 1)) - 1 = k + m /\ r[k + m] = r[k]
    BY <1>2
  <2>2. r[k + (m + 1)] = PartRead(inp, r[(k + (m + 1)) - 1], f[k + (m + 1)])
    BY <2>1 DEF ReadsAs
  <2>3. r[k + (m + 1)] = PartRead(inp, r[k], f[k + (m + 1)])
    BY <2>1, <2>2
  <2> QED BY <2>3 DEF PartRead
<1> HIDE DEF T
<1>3. Len(f) - k \in Nat /\ k + (Len(f) - k) = Len(f)
  OBVIOUS
<1>4. Len(f) - k \in T
  BY <1>1, <1>2, <1>3, AllNumbers
<1> QED BY <1>3, <1>4 DEF T

\* One part more, while nothing failed.
LEMMA NextReading ==
  ASSUME NEW r, NEW inp, NEW f, NEW i, ReadsAs(r, inp, f, i), Len(f) \in Nat,
         NEW k \in 1 .. Len(f), r[k - 1].ok
  PROVE  LET one == S!ReadPart(inp, f[k], r[k - 1].next)
         IN /\ r[k].ok = one.ok /\ r[k].next = one.next
            /\ r[k].stores = IF one.ok /\ S!Stores(f[k])
                             THEN Append(r[k - 1].stores, one.stored) ELSE r[k - 1].stores
<1>1. r[k] = PartRead(inp, r[k - 1], f[k])
  BY DEF ReadsAs
<1> DEFINE one == S!ReadPart(inp, f[k], r[k - 1].next)
<1>2. r[k] = [ok |-> one.ok, next |-> one.next,
              stores |-> IF one.ok /\ S!Stores(f[k])
                         THEN Append(r[k - 1].stores, one.stored) ELSE r[k - 1].stores]
  BY <1>1 DEF PartRead
<1> HIDE DEF one
<1>3. /\ r[k].ok = one.ok /\ r[k].next = one.next
      /\ r[k].stores = IF one.ok /\ S!Stores(f[k])
                       THEN Append(r[k - 1].stores, one.stored) ELSE r[k - 1].stores
  BY <1>2
<1> QED BY <1>3 DEF one

-----------------------------------------------------------------------------
(* The stream                                                              *)

\* A stream whose pushed-back character is the last one it read, and the place it is at.
Stream(inp, u, p) == p \in 0 .. Len(inp) /\ (u = <<>> \/ (p > 0 /\ u = <<inp[p]>>))
Place(u, p) == p - Len(u)

\* The character ch ahead of place w was read and not pushed back.
Ahead(inp, u, p, ch, w) ==
  /\ u = <<>> /\ w \in 0 .. Len(inp)
  /\ IF w < Len(inp) THEN ch = inp[w + 1] /\ ch # S!EOF /\ p = w + 1 ELSE ch = S!EOF /\ p = w

\* A stream with the last character read from it.
IsFile(f) == f = [unget |-> f.unget, pos |-> f.pos, c |-> f.c]

\* file_getc reads the character ahead of the place of the stream.
LEMMA GetCReads ==
  ASSUME input \in Seq(STRING \ {S!EOF}), NEW f, Stream(input, f.unget, f.pos)
  PROVE  /\ Place(f.unget, f.pos) \in 0 .. Len(input) /\ IsFile(S!GetC(f))
         /\ Ahead(input, S!GetC(f).unget, S!GetC(f).pos, S!GetC(f).c, Place(f.unget, f.pos))
<1>1. Len(input) \in Nat /\ \A k \in 1 .. Len(input) : input[k] \in STRING \ {S!EOF}
  BY ElementOfSeq, LenProperties
<1>2. CASE f.unget = <<>>
  <2>1. Place(f.unget, f.pos) = f.pos /\ f.pos \in 0 .. Len(input)
    BY <1>2 DEF Place, Stream
  <2>2. CASE f.pos < Len(input)
    <3>1. S!GetC(f) = [unget |-> f.unget, pos |-> f.pos + 1, c |-> input[f.pos + 1]]
      BY <1>2, <2>2 DEF S!GetC
    <3>2. input[f.pos + 1] \in STRING \ {S!EOF}
      BY <1>1, <2>1, <2>2
    <3> QED BY <1>1, <1>2, <2>1, <2>2, <3>1, <3>2 DEF Ahead, IsFile
  <2>3. CASE ~(f.pos < Len(input))
    <3>1. S!GetC(f) = [unget |-> f.unget, pos |-> f.pos, c |-> S!EOF]
      BY <1>2, <2>3 DEF S!GetC
    <3> QED BY <1>1, <1>2, <2>1, <2>3, <3>1 DEF Ahead, IsFile
  <2> QED BY <2>2, <2>3
<1>3. CASE f.unget # <<>>
  <2> DEFINE w == f.pos - 1
  <2>1. f.pos \in 1 .. Len(input) /\ f.unget = <<input[f.pos]>>
    BY <1>1, <1>3 DEF Stream
  <2>2. Len(f.unget) = 1 /\ f.unget[1] = input[f.pos] /\ f.unget \in Seq(STRING)
    BY <1>1, <2>1
  <2>3. Place(f.unget, f.pos) = w /\ w \in 0 .. Len(input) /\ w < Len(input) /\ w + 1 = f.pos
    BY <1>1, <2>1, <2>2 DEF Place
  <2>4. S!GetC(f) = [unget |-> S!Front(f.unget), pos |-> f.pos, c |-> S!Last(f.unget)]
    BY <1>3 DEF S!GetC
  <2>5. S!Last(f.unget) = input[f.pos]
    BY <2>2 DEF S!Last
  <2>6. S!Front(f.unget) = <<>>
    <3>1. SubSeq(f.unget, 1, 0) = <<>>
      BY SubSeqEmpty
    <3>2. S!Front(f.unget) = SubSeq(f.unget, 1, Len(f.unget) - 1)
      BY DEF S!Front
    <3> QED BY <2>2, <3>1, <3>2
  <2>7. input[f.pos] # S!EOF
    BY <1>1, <2>1
  <2> HIDE DEF w
  <2> QED BY <2>1, <2>3, <2>4, <2>5, <2>6, <2>7 DEF Ahead, IsFile
<1> QED BY <1>2, <1>3

\* file_ungetc puts it back.
LEMMA UngetCPutsBack ==
  ASSUME Len(input) \in Nat, NEW f, NEW ch, NEW w, IsFile(f),
         Ahead(input, f.unget, f.pos, ch, w)
  PROVE  /\ Stream(input, S!UngetC(f, ch).unget, S!UngetC(f, ch).pos)
         /\ Place(S!UngetC(f, ch).unget, S!UngetC(f, ch).pos) = w
<1>1. UNGET_BUFSIZE \in Nat \ {0}
  BY LibraryAssumption DEF S!ScanfAssumption
<1>2. f.unget = <<>> /\ w \in 0 .. Len(input) /\ Len(<<>>) = 0
  BY DEF Ahead
<1>3. CASE w < Len(input)
  <2>1. ch = input[w + 1] /\ ch # S!EOF /\ f.pos = w + 1
    BY <1>3 DEF Ahead
  <2>2. S!UngetC(f, ch) = [unget |-> Append(f.unget, ch), pos |-> f.pos, c |-> f.c]
    <3>1. S!UngetC(f, ch) = [f EXCEPT !.unget = Append(f.unget, ch)]
      BY <1>1, <1>2, <2>1 DEF S!UngetC
    <3>2. f = [unget |-> f.unget, pos |-> f.pos, c |-> f.c]
      BY DEF IsFile
    <3> QED BY <3>1, <3>2
  <2>3. Append(f.unget, ch) = <<ch>> /\ Len(<<ch>>) = 1
    BY <1>2
  <2> QED BY <1>2, <1>3, <2>1, <2>2, <2>3 DEF Stream, Place
<1>4. CASE ~(w < Len(input))
  <2>1. ch = S!EOF /\ f.pos = w
    BY <1>4 DEF Ahead
  <2>2. S!UngetC(f, ch) = f
    BY <2>1 DEF S!UngetC
  <2> QED BY <1>2, <2>1, <2>2 DEF Stream, Place
<1> QED BY <1>3, <1>4

-----------------------------------------------------------------------------
(* The invariant of vfscanf                                                *)

\* The readings of the parts of the format of the call that runs.
Readings == ReadingsOf(input, S!fmt, starts[scan])

\* The reading of the parts before the one the loop is at.
Sofar == Readings[part - 1]

\* The locals before the first character of a directive.
Clean == value = 0 /\ digits = 0 /\ chars = <<>>

DirectiveIs(conv) == S!Part.kind = "directive" /\ S!Part.conv = conv

\* So many characters are within the width of the directive.
Within(n) == n \in Nat /\ (S!Part.width = 0 \/ n <= S!Part.width)

SkippingFrom(i) ==
  /\ Clean /\ (S!Part.kind = "space" \/ DirectiveIs("d") \/ DirectiveIs("s"))
  /\ \E n \in Nat : Place(unget, pos) = i + n /\ OfKind(input, i, n, S!IsSpace)

\* Where the digits of a number begin, after its sign.
Signed(inp, i) == i < Len(inp) /\ inp[i + 1] \in {"-", "+"}
DigitsOf(inp, i) == IF Signed(inp, i) THEN i + 1 ELSE i

NumberFrom(i) ==
  LET j == DigitsOf(input, i)
  IN /\ Ahead(input, unget, pos, c, j + digits)
     /\ Within(digits) /\ OfKind(input, j, digits, S!IsDigit) /\ (digits = 0 => S!IsDigit(c))
     /\ value = S!Number(SubSeq(input, j + 1, j + digits))
     /\ sign = IF Signed(input, i) /\ input[i + 1] = "-" THEN -1 ELSE 1
     /\ chars = <<>>

StringFrom(i) ==
  /\ Ahead(input, unget, pos, c, i + digits)
  /\ Within(digits) /\ OfKind(input, i, digits, S!NotSpace)
  /\ chars = SubSeq(input, i + 1, i + digits) /\ value = 0

CharsFrom(i) ==
  /\ Len(chars) \in 1 .. S!Part.width /\ i + Len(chars) <= Len(input)
  /\ chars = SubSeq(input, i + 1, i + Len(chars))
  /\ Place(unget, pos) = i + Len(chars)
  /\ value = 0 /\ digits = 0

\* What the loops of vfscanf have read of the part they are at, which begins at place i.
ReadFrom(i) ==
  /\ scanning # "format" => part <= Len(S!fmt)
  /\ scanning = "format" => Place(unget, pos) = i /\ Clean
  /\ scanning = "skip" => SkippingFrom(i)
  /\ scanning \in {"d", "s"} =>
       DirectiveIs(scanning) /\ Clean /\ Place(unget, pos) = S!AfterSpaces(input, i)
  /\ scanning = "digits" => DirectiveIs("d") /\ NumberFrom(S!AfterSpaces(input, i))
  /\ scanning = "chars" => DirectiveIs("s") /\ StringFrom(S!AfterSpaces(input, i))
  /\ scanning = "more" => DirectiveIs("c") /\ CharsFrom(i)

ScanTyped ==
  /\ formats \in Scans /\ input \in Seq(STRING \ {S!EOF})
  /\ scan \in 1 .. Len(formats) /\ part \in 1 .. Len(S!fmt) + 1
  /\ scanning \in {"format", "skip", "d", "s", "digits", "chars", "more", "return"}
  /\ Stream(input, unget, pos)
  /\ starts \in Seq(0 .. Len(input)) /\ Len(starts) = scan
  /\ stores \in [1 .. Len(formats) -> Seq(Scanned)]
  /\ \A k \in scan + 1 .. Len(formats) : stores[k] = <<>>
  /\ count = Len(stores[scan])

\* Until scanf returns it stored what the parts before the one it is at describe.
Going == Sofar.ok /\ stores[scan] = Sofar.stores /\ ReadFrom(Sofar.next)
Gone ==
  /\ stores[scan] = Readings[Len(S!fmt)].stores
  /\ Place(unget, pos) = Readings[Len(S!fmt)].next

ScanInv ==
  /\ ScanTyped
  /\ scanning = "return" => Gone
  /\ scanning # "return" => Going

\* What the invariant says of the state, as the steps use it.
LEMMA ScanFacts ==
  ASSUME ScanInv
  PROVE  /\ input \in Seq(STRING) /\ Len(input) \in Nat /\ part \in Nat /\ scan \in Nat
         /\ formats \in Seq(Seq(S!ScanParts)) /\ Len(formats) \in Nat /\ DOMAIN formats = 1 .. Len(formats)
         /\ S!fmt \in Seq(S!ScanParts) /\ Len(S!fmt) \in Nat
         /\ \A k \in 1 .. Len(S!fmt) : S!fmt[k] \in S!ScanParts
         /\ starts[scan] \in 0 .. Len(input)
         /\ stores[scan] \in Seq(Scanned) /\ scan \in DOMAIN stores
         /\ ReadsAs(Readings, input, S!fmt, starts[scan])
         /\ Readings[Len(S!fmt)] = S!Read(scan)
         /\ Sofar.next \in 0 .. Len(input)
<1>1. /\ formats \in Scans /\ input \in Seq(STRING \ {S!EOF})
      /\ scan \in 1 .. Len(formats) /\ part \in 1 .. Len(S!fmt) + 1
      /\ starts \in Seq(0 .. Len(input)) /\ Len(starts) = scan
      /\ stores \in [1 .. Len(formats) -> Seq(Scanned)]
  BY DEF ScanInv, ScanTyped
<1>2. formats \in Seq(Seq(S!ScanParts))
  BY <1>1, LibraryAssumption DEF S!ScanfAssumption
<1>3. Len(formats) \in Nat /\ DOMAIN formats = 1 .. Len(formats) /\ S!fmt \in Seq(S!ScanParts)
  BY <1>1, <1>2, ElementOfSeq, LenProperties DEF S!fmt
<1>4. input \in Seq(STRING) /\ Len(input) \in Nat
  <2>1. Len(input) \in Nat /\ DOMAIN input = 1 .. Len(input)
    BY <1>1, LenProperties
  <2>2. Seq(STRING \ {S!EOF}) \subseteq Seq(STRING)
    OBVIOUS
  <2> QED BY <1>1, <2>1, <2>2
<1>5. Len(S!fmt) \in Nat /\ \A k \in 1 .. Len(S!fmt) : S!fmt[k] \in S!ScanParts
  BY <1>3, ElementOfSeq, LenProperties
<1>6. starts[scan] \in 0 .. Len(input)
  <2>1. scan \in 1 .. Len(starts)
    BY <1>1, <1>3
  <2> QED BY <1>1, <2>1, ElementOfSeq
<1>7. ReadsAs(Readings, input, S!fmt, starts[scan]) /\ Readings[Len(S!fmt)] = S!Read(scan)
  BY <1>3, <1>4, <1>6, ReadingsAre DEF Readings, S!Read, S!fmt
<1>8. Sofar.next \in 0 .. Len(input)
  <2>1. Readings[part - 1] \in ReadingOf(input)
    <3>1. part - 1 \in 0 .. Len(S!fmt)
      BY <1>1, <1>5
    <3> QED BY <1>7, <3>1 DEF ReadsAs
  <2> QED BY <2>1 DEF Sofar, ReadingOf
<1> QED BY <1>1, <1>2, <1>3, <1>4, <1>5, <1>6, <1>7, <1>8

\* The readings of a call are settled when it begins.
LEMMA ReadingsKeep ==
  ASSUME UNCHANGED <<formats, input, scan, starts>>
  PROVE  Readings' = Readings /\ S!fmt' = S!fmt
BY DEF Readings, S!fmt, S!Read

\* The variables that say which call of which program runs.
SameCall == UNCHANGED <<formats, input, scan, starts>>

\* A step within a call that moves on in the stream keeps the types.
LEMMA TypedKeeps ==
  ASSUME ScanInv, SameCall, part' \in 1 .. Len(S!fmt) + 1,
         scanning' \in {"format", "skip", "d", "s", "digits", "chars", "more", "return"},
         Stream(input, unget', pos'),
         \/ UNCHANGED <<stores, count>>
         \/ \E v \in Scanned : stores' = [stores EXCEPT ![scan] = Append(@, v)] /\ count' = count + 1
  PROVE  ScanTyped'
<1>1. UNCHANGED <<formats, input, scan, starts>> /\ S!fmt' = S!fmt
  BY ReadingsKeep DEF SameCall
<1>2. /\ formats \in Scans /\ input \in Seq(STRING \ {S!EOF})
      /\ scan \in 1 .. Len(formats)
      /\ starts \in Seq(0 .. Len(input)) /\ Len(starts) = scan
      /\ stores \in [1 .. Len(formats) -> Seq(Scanned)]
      /\ \A k \in scan + 1 .. Len(formats) : stores[k] = <<>>
      /\ count = Len(stores[scan])
  BY DEF ScanInv, ScanTyped
<1>3. /\ stores' \in [1 .. Len(formats) -> Seq(Scanned)]
      /\ \A k \in scan + 1 .. Len(formats) : stores'[k] = <<>>
      /\ count' = Len(stores'[scan])
  <2>1. CASE UNCHANGED <<stores, count>>
    BY <1>2, <2>1
  <2>2. CASE \E v \in Scanned : /\ stores' = [stores EXCEPT ![scan] = Append(@, v)]
                                /\ count' = count + 1
    <3>1. PICK v \in Scanned : /\ stores' = [stores EXCEPT ![scan] = Append(@, v)]
                               /\ count' = count + 1
      BY <2>2
    <3>2. stores[scan] \in Seq(Scanned)
      BY <1>2
    <3> DEFINE more == Append(stores[scan], v)
    <3>3. more \in Seq(Scanned) /\ Len(more) = Len(stores[scan]) + 1
      BY <3>2, AppendProperties
    <3>4. stores' = [stores EXCEPT ![scan] = more]
      BY <3>1
    <3> HIDE DEF more
    <3>5. \A k \in scan + 1 .. Len(formats) : k # scan /\ k \in 1 .. Len(formats)
      <4>1. Len(formats) \in Nat
        BY ScanFacts
      <4> QED BY <1>2, <4>1
    <3>6. stores'[scan] = more /\ \A k \in scan + 1 .. Len(formats) : stores'[k] = stores[k]
      BY <1>2, <3>4, <3>5
    <3>7. stores' \in [1 .. Len(formats) -> Seq(Scanned)]
      BY <1>2, <3>3, <3>4
    <3>8. count' = Len(stores'[scan])
      BY <1>2, <3>1, <3>3, <3>6
    <3> QED BY <1>2, <3>6, <3>7, <3>8
  <2> QED BY <2>1, <2>2
<1> QED BY <1>1, <1>2, <1>3 DEF ScanTyped

\* What the part at which the loop is reads.
One == S!ReadPart(input, S!Part, Sofar.next)

\* The part being read, and the reading of those before it.
LEMMA PartFacts ==
  ASSUME ScanInv, scanning # "return", part <= Len(S!fmt)
  PROVE  /\ part \in 1 .. Len(S!fmt) /\ S!Part \in S!ScanParts /\ S!Part = S!fmt[part]
         /\ Sofar.ok /\ stores[scan] = Sofar.stores /\ ReadFrom(Sofar.next)
         /\ One.ok \in BOOLEAN /\ One.next \in 0 .. Len(input) /\ (One.ok => One.stored \in Scanned)
         /\ Readings[part].ok = One.ok /\ Readings[part].next = One.next
         /\ Readings[part].stores = IF One.ok /\ S!Stores(S!Part)
                                    THEN Append(stores[scan], One.stored) ELSE stores[scan]
<1>1. part \in 1 .. Len(S!fmt) /\ S!Part = S!fmt[part] /\ S!Part \in S!ScanParts
  <2>1. part \in 1 .. Len(S!fmt)
    BY ScanFacts DEF ScanInv, ScanTyped
  <2> QED BY <2>1, ScanFacts DEF S!Part
<1>2. Going
  BY DEF ScanInv
<1>3. Sofar.ok /\ stores[scan] = Sofar.stores /\ ReadFrom(Sofar.next) /\ Sofar = Readings[part - 1]
  BY <1>2 DEF Going, Sofar
<1>4. One.ok \in BOOLEAN /\ One.next \in 0 .. Len(input) /\ (One.ok => One.stored \in Scanned)
  <2>1. input \in Seq(STRING) /\ Sofar.next \in 0 .. Len(input)
    BY ScanFacts
  <2> QED BY <1>1, <2>1, ReadTyped DEF One
<1>5. /\ Readings[part].ok = One.ok /\ Readings[part].next = One.next
      /\ Readings[part].stores = IF One.ok /\ S!Stores(S!Part)
                                 THEN Append(Sofar.stores, One.stored) ELSE Sofar.stores
  <2>1. ReadsAs(Readings, input, S!fmt, starts[scan]) /\ Len(S!fmt) \in Nat
    BY ScanFacts
  <2>2. Readings[part - 1].ok
    BY <1>3
  <2>3. LET one == S!ReadPart(input, S!fmt[part], Readings[part - 1].next)
        IN /\ Readings[part].ok = one.ok /\ Readings[part].next = one.next
           /\ Readings[part].stores = IF one.ok /\ S!Stores(S!fmt[part])
                                      THEN Append(Readings[part - 1].stores, one.stored)
                                      ELSE Readings[part - 1].stores
    BY <1>1, <2>1, <2>2, NextReading
  <2> QED BY <1>1, <1>3, <2>3 DEF One
<1> QED BY <1>1, <1>3, <1>4, <1>5

\* The loop that reads a part goes on.
LEMMA StayKeeps ==
  ASSUME ScanInv, SameCall, scanning # "return", part <= Len(S!fmt),
         UNCHANGED <<part, stores, count>>,
         scanning' \in {"skip", "d", "s", "digits", "chars", "more"},
         Stream(input, unget', pos'), ReadFrom(Sofar.next)'
  PROVE  ScanInv'
<1>1. ScanTyped'
  BY PartFacts, TypedKeeps
<1>2. Readings' = Readings /\ Sofar' = Sofar /\ stores'[scan'] = stores[scan]
  BY ReadingsKeep DEF SameCall, Sofar
<1>3. Going'
  BY <1>2, PartFacts DEF Going
<1> QED BY <1>1, <1>3 DEF ScanInv

\* The part is read, and what it reads is stored unless it is suppressed.
LEMMA PartReads ==
  ASSUME ScanInv, SameCall, scanning # "return", part <= Len(S!fmt), One.ok,
         part' = part + 1, scanning' = "format",
         Stream(input, unget', pos'), Place(unget', pos') = One.next, Clean',
         IF S!Stores(S!Part)
         THEN stores' = [stores EXCEPT ![scan] = Append(@, One.stored)] /\ count' = count + 1
         ELSE UNCHANGED <<stores, count>>
  PROVE  ScanInv'
<1>1. /\ Readings' = Readings /\ S!fmt' = S!fmt /\ scan' = scan /\ Sofar' = Readings[part]
      /\ Len(S!fmt) \in Nat /\ part \in 1 .. Len(S!fmt) /\ One.stored \in Scanned
  <2>1. (part + 1) - 1 = part /\ Len(S!fmt) \in Nat /\ part \in 1 .. Len(S!fmt)
    BY PartFacts, ScanFacts
  <2> QED BY <2>1, PartFacts, ReadingsKeep DEF SameCall, Sofar
<1>2. part' \in 1 .. Len(S!fmt) + 1
  BY <1>1
<1>3. ScanTyped'
  BY <1>1, <1>2, TypedKeeps
<1>4. stores'[scan] = Readings[part].stores
  <2>1. /\ stores \in [1 .. Len(formats) -> Seq(Scanned)] /\ scan \in 1 .. Len(formats)
    BY DEF ScanInv, ScanTyped
  <2>2. Readings[part].stores = IF S!Stores(S!Part) THEN Append(stores[scan], One.stored)
                                ELSE stores[scan]
    BY PartFacts
  <2> QED BY <2>1, <2>2
<1>5. ReadFrom(Sofar.next)'
  <2>1. Place(unget', pos') = Readings[part].next
    BY PartFacts
  <2> QED BY <1>1, <2>1 DEF ReadFrom
<1>6. Going'
  BY <1>1, <1>4, <1>5, PartFacts DEF Going
<1> QED BY <1>3, <1>6 DEF ScanInv

\* The part is not there, and scanf returns.
LEMMA PartFails ==
  ASSUME ScanInv, SameCall, scanning # "return", part <= Len(S!fmt), ~One.ok,
         UNCHANGED <<part, stores, count>>, scanning' = "return",
         Stream(input, unget', pos'), Place(unget', pos') = One.next
  PROVE  ScanInv'
<1>1. ScanTyped'
  BY PartFacts, TypedKeeps
<1>2. Readings[Len(S!fmt)] = Readings[part]
  <2>1. ReadsAs(Readings, input, S!fmt, starts[scan]) /\ Len(S!fmt) \in Nat
    BY ScanFacts
  <2>2. part \in 0 .. Len(S!fmt) /\ ~Readings[part].ok
    BY <2>1, PartFacts
  <2> QED BY <2>1, <2>2, FailedStays
<1>3. Readings[part].stores = stores[scan] /\ Readings[part].next = One.next
  BY PartFacts
<1>4. Readings' = Readings /\ S!fmt' = S!fmt /\ stores'[scan'] = stores[scan]
  BY ReadingsKeep DEF SameCall
<1>5. Gone'
  BY <1>2, <1>3, <1>4 DEF Gone
<1> QED BY <1>1, <1>5 DEF ScanInv

-----------------------------------------------------------------------------
(* The steps of vfscanf                                                    *)

\* A character read ahead is one place past where the stream was.
LEMMA AheadPlace ==
  ASSUME NEW inp, Len(inp) \in Nat, NEW u, NEW p, NEW ch, NEW w, Ahead(inp, u, p, ch, w)
  PROVE  Stream(inp, u, p) /\ Place(u, p) = IF w < Len(inp) THEN w + 1 ELSE w
<1>1. u = <<>> /\ w \in 0 .. Len(inp) /\ p = IF w < Len(inp) THEN w + 1 ELSE w
  BY DEF Ahead
<1>2. Len(u) = 0
  BY <1>1
<1> QED BY <1>1, <1>2 DEF Stream, Place

\* The stream of a call, and the character ahead of it.
LEMMA FileFacts ==
  ASSUME ScanInv
  PROVE  /\ Stream(input, unget, pos) /\ Place(unget, pos) \in 0 .. Len(input)
         /\ S!File.unget = unget /\ S!File.pos = pos /\ IsFile(S!File)
         /\ IsFile(S!GetC(S!File))
         /\ Ahead(input, S!GetC(S!File).unget, S!GetC(S!File).pos, S!GetC(S!File).c,
                  Place(unget, pos))
<1>1. Stream(input, unget, pos) /\ input \in Seq(STRING \ {S!EOF})
  BY DEF ScanInv, ScanTyped
<1>2. S!File.unget = unget /\ S!File.pos = pos /\ IsFile(S!File)
  BY DEF S!File, IsFile
<1> QED BY <1>1, <1>2, GetCReads

\* The part the loop is at stays while it is read.
LEMMA SamePart ==
  ASSUME SameCall, UNCHANGED part
  PROVE  S!Part' = S!Part /\ S!fmt' = S!fmt /\ Sofar' = Sofar /\ input' = input
BY ReadingsKeep DEF SameCall, S!Part, Sofar

\* Starting to skip white space keeps the invariant.
LEMMA StartSkipKeeps ==
  ASSUME ScanInv, S!StartSkip
  PROVE  ScanInv'
<1>1. /\ scanning = "format" /\ part <= Len(S!fmt) /\ scanning' = "skip" /\ SameCall
      /\ S!Part.kind = "space" \/ DirectiveIs("d") \/ DirectiveIs("s")
      /\ UNCHANGED <<pos, unget, part, value, digits, chars, stores, count>>
  BY DEF S!StartSkip, S!In, S!Directive, SameCall, DirectiveIs, S!locals
<1>2. ReadFrom(Sofar.next) /\ scanning # "return"
  BY <1>1, PartFacts
<1>3. Place(unget, pos) = Sofar.next /\ Clean
  BY <1>1, <1>2 DEF ReadFrom
<1> DEFINE i == Sofar.next
<1>4. i \in 0 .. Len(input) /\ Len(input) \in Nat
  BY ScanFacts
<1>5. SkippingFrom(i)'
  <2>1. OfKind(input, i, 0, S!IsSpace) /\ i = i + 0
    BY <1>4 DEF OfKind
  <2>2. i' = i /\ S!Part' = S!Part /\ input' = input /\ Clean'
    BY <1>1, <1>3, SamePart DEF Clean
  <2>3. 0 \in Nat /\ Place(unget', pos') = i + 0
    BY <1>1, <1>3, <2>1
  <2> HIDE DEF i
  <2>4. \E n \in Nat : Place(unget', pos') = i + n /\ OfKind(input, i, n, S!IsSpace)
    BY <2>1, <2>3
  <2>5. S!Part'.kind = "space" \/ DirectiveIs("d")' \/ DirectiveIs("s")'
    BY <1>1, <2>2 DEF DirectiveIs
  <2> QED BY <2>2, <2>4, <2>5 DEF SkippingFrom
<1>6. ReadFrom(i)'
  <2> HIDE DEF i
  <2> QED BY <1>1, <1>5, SamePart DEF ReadFrom
<1> QED BY <1>1, <1>2, <1>6, FileFacts, StayKeeps

\* Skipping white space ends where the run of spaces does.
LEMMA SkipWhitespaceKeeps ==
  ASSUME ScanInv, S!SkipWhitespace
  PROVE  ScanInv'
<1> DEFINE i == Sofar.next
           w == Place(unget, pos)
           g == S!GetC(S!File)
           u == S!UngetC(g, g.c)
<1>1. /\ scanning = "skip" /\ SameCall
      /\ UNCHANGED <<value, digits, chars, stores, count>>
      /\ IF S!IsSpace(g.c) THEN unget' = g.unget /\ pos' = g.pos /\ UNCHANGED <<part, scanning>>
         ELSE /\ unget' = u.unget /\ pos' = u.pos
              /\ IF S!Part.kind = "space" THEN part' = part + 1 /\ scanning' = "format"
                                          ELSE scanning' = S!Part.conv /\ UNCHANGED part
  BY DEF S!SkipWhitespace, S!FileIs, SameCall, S!locals
<1>2. scanning # "return" /\ part <= Len(S!fmt) /\ SkippingFrom(i)
  <2>1. Going
    BY <1>1 DEF ScanInv
  <2> QED BY <1>1, <2>1 DEF Going, ReadFrom
<1>3. i \in 0 .. Len(input) /\ Len(input) \in Nat
  BY ScanFacts
<1>4. w \in 0 .. Len(input) /\ IsFile(g) /\ Ahead(input, g.unget, g.pos, g.c, w)
  BY FileFacts
<1>5. PICK n \in Nat : w = i + n /\ OfKind(input, i, n, S!IsSpace)
  BY <1>2 DEF SkippingFrom
<1>6. Clean /\ (S!Part.kind = "space" \/ DirectiveIs("d") \/ DirectiveIs("s"))
  BY <1>2 DEF SkippingFrom
<1>7. Clean'
  BY <1>1, <1>6 DEF Clean
<1>8. CASE S!IsSpace(g.c)
  <2>1. g.c # S!EOF
    BY <1>8 DEF S!IsSpace, S!Spaces, S!EOF
  <2>2. w < Len(input) /\ g.c = input[w + 1]
    BY <1>4, <2>1 DEF Ahead
  <2>3. Stream(input, unget', pos') /\ Place(unget', pos') = w + 1
    BY <1>1, <1>3, <1>4, <1>8, <2>2, AheadPlace
  <2>4. OfKind(input, i, n + 1, S!IsSpace) /\ w + 1 = i + (n + 1) /\ n + 1 \in Nat
    <3> HIDE DEF i, w, g
    <3>1. i + (n + 1) <= Len(input)
      BY <1>3, <1>4, <1>5, <2>2
    <3>2. ASSUME NEW k \in i + 1 .. i + (n + 1) PROVE S!IsSpace(input[k])
      <4>1. CASE k = w + 1
        BY <1>8, <2>2, <4>1
      <4>2. CASE k # w + 1
        <5>1. k \in i + 1 .. i + n
          BY <1>3, <1>4, <1>5, <4>2
        <5> QED BY <1>5, <5>1 DEF OfKind
      <4> QED BY <4>1, <4>2
    <3> QED BY <1>3, <1>5, <3>1, <3>2 DEF OfKind
  <2>5. SkippingFrom(i)'
    <3>1. i' = i /\ S!Part' = S!Part /\ input' = input
      BY <1>1, <1>8, SamePart
    <3> HIDE DEF i, w, g, u
    <3>2. \E m \in Nat : Place(unget', pos') = i + m /\ OfKind(input, i, m, S!IsSpace)
      BY <2>3, <2>4
    <3>3. S!Part'.kind = "space" \/ DirectiveIs("d")' \/ DirectiveIs("s")'
      BY <1>6, <3>1 DEF DirectiveIs
    <3> QED BY <1>7, <3>1, <3>2, <3>3 DEF SkippingFrom
  <2>6. ReadFrom(i)'
    <3> HIDE DEF i
    <3> QED BY <1>1, <1>2, <1>8, <2>5, SamePart DEF ReadFrom
  <2> QED BY <1>1, <1>2, <1>8, <2>3, <2>6, StayKeeps
<1>9. CASE ~S!IsSpace(g.c)
  <2>1. Stream(input, unget', pos') /\ Place(unget', pos') = w
    BY <1>1, <1>3, <1>4, <1>9, UngetCPutsBack
  <2>2. S!AfterSpaces(input, i) = w
    <3>1. i + n = Len(input) \/ ~S!IsSpace(input[i + n + 1])
      <4> HIDE DEF i, w, g
      <4>1. w = Len(input) \/ g.c = input[w + 1]
        BY <1>3, <1>4 DEF Ahead
      <4> QED BY <1>5, <1>9, <4>1
    <3> HIDE DEF i, w
    <3> QED BY <1>3, <1>5, <3>1, SpacesAfter
  <2>3. CASE S!Part.kind = "space"
    <3>1. One = S!Reads(<<>>, S!AfterSpaces(input, i))
      BY <2>3, PartIs DEF One
    <3>2. One.ok /\ One.next = w /\ ~S!Stores(S!Part)
      BY <2>2, <2>3, <3>1 DEF S!Reads, S!Stores
    <3> QED BY <1>1, <1>2, <1>7, <1>9, <2>1, <2>3, <3>2, PartReads
  <2>4. CASE S!Part.kind # "space"
    <3>1. DirectiveIs("d") \/ DirectiveIs("s")
      BY <1>6, <2>4
    <3>2. /\ scanning' = S!Part.conv /\ UNCHANGED part /\ scanning' \in {"d", "s"}
          /\ DirectiveIs(S!Part.conv)
      BY <1>1, <1>9, <2>4, <3>1 DEF DirectiveIs
    <3>3. ReadFrom(i)'
      <4>1. i' = i /\ S!Part' = S!Part /\ S!fmt' = S!fmt /\ input' = input
        BY <1>1, <3>2, SamePart
      <4>2. DirectiveIs(scanning)'
        BY <3>2, <4>1 DEF DirectiveIs
      <4> HIDE DEF i, w
      <4> QED BY <1>2, <1>7, <2>1, <2>2, <3>2, <4>1, <4>2 DEF ReadFrom
    <3> QED BY <1>1, <1>2, <2>1, <3>2, <3>3, StayKeeps
  <2> QED BY <2>3, <2>4
<1> QED BY <1>8, <1>9

\* A literal that matches is read, one that does not ends the call.
LEMMA LiteralReads ==
  ASSUME ScanInv, S!Literal
  PROVE  ScanInv'
<1> DEFINE w == Place(unget, pos)
           g == S!GetC(S!File)
           u == S!UngetC(g, g.c)
<1>1. /\ scanning = "format" /\ part <= Len(S!fmt) /\ S!Part.kind = "literal" /\ SameCall
      /\ UNCHANGED <<value, digits, chars, stores, count>>
      /\ IF g.c # S!Part.char
         THEN unget' = u.unget /\ pos' = u.pos /\ scanning' = "return" /\ UNCHANGED part
         ELSE unget' = g.unget /\ pos' = g.pos /\ part' = part + 1 /\ UNCHANGED scanning
  BY DEF S!Literal, S!In, S!FileIs, S!Return, SameCall, S!locals
<1>2. /\ w = Sofar.next /\ Clean /\ S!Part \in S!ScanParts /\ scanning # "return"
      /\ Len(input) \in Nat
  BY <1>1, PartFacts, ScanFacts DEF ReadFrom
<1>3. S!Part.char # S!EOF
  BY <1>1, <1>2 DEF S!ScanParts
<1>4. w \in 0 .. Len(input) /\ IsFile(g) /\ Ahead(input, g.unget, g.pos, g.c, w)
  BY FileFacts
<1>5. One = IF w < Len(input) /\ input[w + 1] = S!Part.char THEN S!Reads(<<>>, w + 1) ELSE S!Fails(w)
  <2>1. One = IF Sofar.next < Len(input) /\ input[Sofar.next + 1] = S!Part.char
              THEN S!Reads(<<>>, Sofar.next + 1) ELSE S!Fails(Sofar.next)
    <3> DEFINE i == Sofar.next
               p == S!Part
    <3>1. One = S!ReadPart(input, p, i) /\ p.kind = "literal"
      BY <1>1 DEF One
    <3> HIDE DEF i, p, w, g, u
    <3>2. S!ReadPart(input, p, i) = IF i < Len(input) /\ input[i + 1] = p.char
                                    THEN S!Reads(<<>>, i + 1) ELSE S!Fails(i)
      BY <3>1, PartIs
    <3>3. One = IF i < Len(input) /\ input[i + 1] = p.char
                THEN S!Reads(<<>>, i + 1) ELSE S!Fails(i)
      BY <3>1, <3>2
    <3> QED BY <3>3 DEF i, p
  <2>2. Sofar.next = w
    BY <1>2
  <2> HIDE DEF w
  <2> QED BY <2>1, <2>2
<1>6. CASE g.c # S!Part.char
  <2>1. ~(w < Len(input) /\ input[w + 1] = S!Part.char)
    BY <1>4, <1>6 DEF Ahead
  <2>2. ~One.ok /\ One.next = w
    BY <1>5, <2>1 DEF S!Fails
  <2>3. Stream(input, unget', pos') /\ Place(unget', pos') = w
    BY <1>1, <1>2, <1>4, <1>6, UngetCPutsBack
  <2> QED BY <1>1, <1>2, <1>6, <2>2, <2>3, PartFails
<1>7. CASE g.c = S!Part.char
  <2>1. w < Len(input) /\ input[w + 1] = S!Part.char
    BY <1>3, <1>4, <1>7 DEF Ahead
  <2>2. One.ok /\ One.next = w + 1 /\ ~S!Stores(S!Part)
    BY <1>1, <1>5, <2>1 DEF S!Reads, S!Stores
  <2>3. Stream(input, unget', pos') /\ Place(unget', pos') = w + 1
    BY <1>1, <1>2, <1>4, <1>7, <2>1, AheadPlace
  <2>4. Clean' /\ scanning' = "format" /\ part' = part + 1
    BY <1>1, <1>2, <1>7 DEF Clean
  <2> QED BY <1>1, <1>2, <2>2, <2>3, <2>4, PartReads
<1> QED BY <1>6, <1>7

\* A directive scanf does not know ends the call.
LEMMA UnsupportedFails ==
  ASSUME ScanInv, S!Unsupported
  PROVE  ScanInv'
<1>1. /\ scanning = "format" /\ part <= Len(S!fmt) /\ S!Part.kind = "directive"
      /\ S!Part.conv \notin {"d", "s", "c"} /\ SameCall
      /\ UNCHANGED <<part, stores, count>> /\ scanning' = "return"
      /\ unget' = S!File.unget /\ pos' = S!File.pos
  BY DEF S!Unsupported, S!In, S!FileIs, S!Return, SameCall
<1>2. unget' = unget /\ pos' = pos /\ Stream(input, unget, pos)
  BY <1>1, FileFacts
<1>3. Place(unget, pos) = Sofar.next
  BY <1>1, PartFacts DEF ReadFrom
<1>4. One = S!Fails(Sofar.next)
  BY <1>1, PartIs DEF One
<1>5. ~One.ok /\ One.next = Sofar.next
  BY <1>4 DEF S!Fails
<1> QED BY <1>1, <1>2, <1>3, <1>5, PartFails

\* The end of the format ends the call.
LEMMA EndOfFormatReturns ==
  ASSUME ScanInv, S!EndOfFormat
  PROVE  ScanInv'
<1>1. /\ scanning = "format" /\ part > Len(S!fmt) /\ SameCall
      /\ UNCHANGED <<part, stores, count>> /\ scanning' = "return"
      /\ unget' = S!File.unget /\ pos' = S!File.pos
  BY DEF S!EndOfFormat, S!FileIs, S!Return, SameCall
<1>2. unget' = unget /\ pos' = pos /\ Stream(input, unget, pos)
  BY <1>1, FileFacts
<1>3. part = Len(S!fmt) + 1 /\ part \in 1 .. Len(S!fmt) + 1 /\ part - 1 = Len(S!fmt)
  <2>1. part \in 1 .. Len(S!fmt) + 1
    BY DEF ScanInv, ScanTyped
  <2>2. Len(S!fmt) \in Nat
    BY ScanFacts
  <2> QED BY <1>1, <2>1, <2>2
<1>4. ScanTyped'
  BY <1>1, <1>2, <1>3, TypedKeeps
<1>5. Going
  BY <1>1 DEF ScanInv
<1>6. Sofar = Readings[Len(S!fmt)] /\ stores[scan] = Sofar.stores /\ Place(unget, pos) = Sofar.next
  BY <1>1, <1>3, <1>5 DEF Going, ReadFrom, Sofar
<1>7. Readings' = Readings /\ S!fmt' = S!fmt /\ stores'[scan'] = stores[scan]
  BY <1>1, ReadingsKeep DEF SameCall
<1>8. Gone'
  BY <1>2, <1>6, <1>7 DEF Gone
<1> QED BY <1>1, <1>4, <1>8 DEF ScanInv

\* The next call starts where the last one left the stream.
LEMMA NextCallStarts ==
  ASSUME ScanInv, S!NextCall
  PROVE  ScanInv'
<1>1. /\ scan < Len(formats) /\ scan' = scan + 1 /\ starts' = Append(starts, pos)
      /\ part' = 1 /\ scanning' = "format" /\ unget' = <<>> /\ count' = 0
      /\ value' = 0 /\ digits' = 0 /\ chars' = <<>>
      /\ UNCHANGED <<formats, input, pos, stores>>
  BY DEF S!NextCall, S!Fresh
<1>2. /\ formats \in Scans /\ input \in Seq(STRING \ {S!EOF})
      /\ scan \in 1 .. Len(formats) /\ Stream(input, unget, pos)
      /\ starts \in Seq(0 .. Len(input)) /\ Len(starts) = scan
      /\ stores \in [1 .. Len(formats) -> Seq(Scanned)]
      /\ \A k \in scan + 1 .. Len(formats) : stores[k] = <<>>
  BY DEF ScanInv, ScanTyped
<1>3. /\ Len(formats) \in Nat /\ input \in Seq(STRING) /\ Len(input) \in Nat
      /\ formats \in Seq(Seq(S!ScanParts))
  BY ScanFacts
<1>4. pos \in 0 .. Len(input) /\ Place(<<>>, pos) = pos
  BY <1>2, <1>3 DEF Stream, Place
<1>5. Stream(input, unget', pos')
  BY <1>1, <1>4 DEF Stream
<1>6. /\ scan' \in 1 .. Len(formats) /\ scan' \in scan + 1 .. Len(formats)
      /\ \A k \in scan' + 1 .. Len(formats) : k \in scan + 1 .. Len(formats)
  BY <1>1, <1>2, <1>3
<1>7. S!fmt' = formats[scan'] /\ S!fmt' \in Seq(S!ScanParts)
  <2>1. S!fmt' = formats[scan']
    BY <1>1 DEF S!fmt
  <2> QED BY <1>3, <1>6, <2>1, ElementOfSeq
<1>8. Len(S!fmt') \in Nat /\ part' \in 1 .. Len(S!fmt') + 1
  <2>1. Len(S!fmt') \in Nat
    BY <1>7, LenProperties
  <2> QED BY <1>1, <2>1
<1>9. starts' \in Seq(0 .. Len(input)) /\ Len(starts') = scan' /\ starts'[scan'] = pos
  BY <1>1, <1>2, <1>4, AppendProperties
<1>10. stores'[scan'] = <<>> /\ count' = Len(stores'[scan'])
  BY <1>1, <1>2, <1>6
<1>11. ScanTyped'
  BY <1>1, <1>2, <1>5, <1>6, <1>8, <1>9, <1>10 DEF ScanTyped
<1>12. Sofar' = [ok |-> TRUE, next |-> pos, stores |-> <<>>]
  <2>1. Readings' = ReadingsOf(input, S!fmt', pos)
    BY <1>1, <1>9 DEF Readings
  <2>2. ReadsAs(Readings', input, S!fmt', pos)
    <3> DEFINE f == S!fmt'
    <3>1. f \in Seq(S!ScanParts)
      BY <1>7
    <3> HIDE DEF f
    <3>2. ReadsAs(ReadingsOf(input, f, pos), input, f, pos)
      BY <1>3, <1>4, <3>1, ReadingsAre
    <3> QED BY <2>1, <3>2 DEF f
  <2>3. Sofar' = Readings'[0]
    BY <1>1 DEF Sofar
  <2> QED BY <2>2, <2>3 DEF ReadsAs
<1>13. Going'
  <2>1. Sofar'.ok /\ Sofar'.next = pos /\ Sofar'.stores = <<>>
    BY <1>12
  <2>2. ReadFrom(Sofar.next)'
    BY <1>1, <1>4, <2>1 DEF ReadFrom, Clean
  <2> QED BY <1>10, <2>1, <2>2 DEF Going
<1> QED BY <1>1, <1>11, <1>13 DEF ScanInv

\* The invariant holds before the first step.
LEMMA ScanInit ==
  ASSUME LibraryInit
  PROVE  ScanInv
<1>1. PICK fs \in Scans, delivered \in Seq(STRING \ {S!EOF}) : S!Start(fs, delivered)
  <2>1. Scans # {} /\ \A delivered \in Inputs : delivered \in Seq(STRING \ {S!EOF})
    BY LibraryAssumption DEF S!ScanfAssumption
  <2>2. AnyScan \in Scans
    BY <2>1 DEF AnyScan
  <2>3. <<>> \in Seq(STRING \ {S!EOF})
    OBVIOUS
  <2>4. S!Init \/ S!Start(AnyScan, <<>>)
    BY DEF LibraryInit
  <2> QED BY <2>1, <2>2, <2>3, <2>4 DEF S!Init
<1>2. /\ formats \in Scans /\ input \in Seq(STRING \ {S!EOF}) /\ scan = 1 /\ pos = 0
      /\ unget = <<>> /\ part = 1 /\ scanning = "format"
      /\ value = 0 /\ digits = 0 /\ chars = <<>> /\ count = 0
      /\ stores = [k \in DOMAIN formats |-> <<>>] /\ starts = <<0>>
  BY <1>1 DEF S!Start
<1>3. formats \in Seq(Seq(S!ScanParts)) /\ formats # <<>>
  BY <1>2, LibraryAssumption DEF S!ScanfAssumption
<1>4. Len(formats) \in Nat /\ DOMAIN formats = 1 .. Len(formats) /\ scan \in 1 .. Len(formats)
  <2>1. Len(formats) \in Nat /\ DOMAIN formats = 1 .. Len(formats)
    BY <1>3, LenProperties
  <2>2. Len(formats) # 0
    BY <1>3, EmptySeq
  <2> QED BY <1>2, <2>1, <2>2
<1>5. S!fmt \in Seq(S!ScanParts) /\ Len(S!fmt) \in Nat
  <2>1. S!fmt \in Seq(S!ScanParts)
    BY <1>3, <1>4, ElementOfSeq DEF S!fmt
  <2> QED BY <2>1, LenProperties
<1>6. Len(input) \in Nat /\ input \in Seq(STRING)
  <2>1. Seq(STRING \ {S!EOF}) \subseteq Seq(STRING)
    OBVIOUS
  <2> QED BY <1>2, <2>1, LenProperties
<1>7. starts \in Seq(0 .. Len(input)) /\ Len(starts) = scan /\ starts[scan] = 0
      /\ 0 \in 0 .. Len(input)
  <2>1. 0 \in 0 .. Len(input)
    BY <1>6
  <2> QED BY <1>2, <2>1
<1>8. Stream(input, unget, pos) /\ Place(unget, pos) = 0
  <2>1. Len(<<>>) = 0
    OBVIOUS
  <2>2. Stream(input, unget, pos)
    BY <1>2, <1>6 DEF Stream
  <2>3. unget = <<>> /\ pos = 0 /\ Len(unget) = 0
    BY <1>2, <2>1
  <2>4. Place(unget, pos) = pos - Len(unget)
    BY DEF Place
  <2>5. \A k \in Int : k - 0 = k
    OBVIOUS
  <2> QED BY <2>2, <2>3, <2>4, <2>5
<1>9. <<>> \in Seq(Scanned) /\ Len(<<>>) = 0
  OBVIOUS
<1>10. ScanTyped
  BY <1>2, <1>4, <1>5, <1>7, <1>8, <1>9 DEF ScanTyped
<1>11. Sofar = [ok |-> TRUE, next |-> 0, stores |-> <<>>]
  <2>1. ReadsAs(Readings, input, S!fmt, 0)
    BY <1>5, <1>6, <1>7, ReadingsAre DEF Readings
  <2>2. Sofar = Readings[0]
    BY <1>2 DEF Sofar
  <2> QED BY <2>1, <2>2 DEF ReadsAs
<1>12. Going
  <2>1. Sofar.ok /\ Sofar.next = 0 /\ Sofar.stores = <<>>
    BY <1>11
  <2>2. ReadFrom(Sofar.next)
    BY <1>2, <1>8, <2>1 DEF ReadFrom, Clean
  <2> QED BY <1>2, <1>4, <2>1, <2>2 DEF Going
<1> QED BY <1>2, <1>10, <1>12 DEF ScanInv

\* What %d reads.
LEMMA NumberReads ==
  ASSUME NEW inp, NEW i, NEW width, NEW n,
         n = S!Limit(S!Run(inp, DigitsOf(inp, i), S!IsDigit), width)
  PROVE  S!ReadNumber(inp, i, width) =
           IF n = 0 THEN S!Fails(DigitsOf(inp, i))
           ELSE S!Reads(S!Number(SubSeq(inp, DigitsOf(inp, i) + 1, DigitsOf(inp, i) + n))
                          * (IF Signed(inp, i) /\ inp[i + 1] = "-" THEN -1 ELSE 1),
                        DigitsOf(inp, i) + n)
BY DEF S!ReadNumber, DigitsOf, Signed

\* A directive is read from the place the white space before it ends.
LEMMA DirectiveFacts ==
  ASSUME ScanInv, scanning \in {"d", "s", "digits", "chars"}
  PROVE  /\ scanning # "return" /\ part <= Len(S!fmt)
         /\ S!Part.kind = "directive" /\ S!Part.width \in Nat
         /\ S!AfterSpaces(input, Sofar.next) \in 0 .. Len(input)
         /\ Len(input) \in Nat /\ input \in Seq(STRING)
         /\ \A k \in 1 .. Len(input) : input[k] \in STRING \ {S!EOF}
         /\ S!Stores(S!Part) <=> ~S!Part.suppress
<1>1. Going
  BY DEF ScanInv
<1>2. scanning # "return" /\ part <= Len(S!fmt) /\ S!Part.kind = "directive"
  BY <1>1 DEF Going, ReadFrom, DirectiveIs
<1>3. S!Part.width \in Nat
  BY <1>2, PartFacts DEF S!ScanParts
<1>4. Len(input) \in Nat /\ input \in Seq(STRING) /\ Sofar.next \in 0 .. Len(input)
  BY ScanFacts
<1>5. S!AfterSpaces(input, Sofar.next) \in 0 .. Len(input)
  BY <1>4, SpacesAfter
<1>6. \A k \in 1 .. Len(input) : input[k] \in STRING \ {S!EOF}
  BY ElementOfSeq DEF ScanInv, ScanTyped
<1> QED BY <1>2, <1>3, <1>4, <1>5, <1>6 DEF S!Stores

\* The sign of a number is read if there is one.
LEMMA SignKeeps ==
  ASSUME ScanInv, S!Sign
  PROVE  ScanInv'
<1> DEFINE a == S!AfterSpaces(input, Sofar.next)
           j == DigitsOf(input, a)
           f == S!GetC(S!File)
           g == IF f.c \in {"-", "+"} THEN S!GetC(f) ELSE f
           u == S!UngetC(g, g.c)
<1>1. /\ scanning = "d" /\ SameCall /\ UNCHANGED <<part, stores, count>>
      /\ IF ~S!IsDigit(g.c) THEN unget' = u.unget /\ pos' = u.pos /\ scanning' = "return"
         ELSE /\ unget' = g.unget /\ pos' = g.pos /\ c' = g.c
              /\ sign' = IF f.c = "-" THEN -1 ELSE 1
              /\ scanning' = "digits" /\ UNCHANGED <<value, digits, chars>>
  BY DEF S!Sign, S!FileIs, S!Return, SameCall
<1>2. /\ scanning # "return" /\ part <= Len(S!fmt) /\ S!Part.width \in Nat
      /\ a \in 0 .. Len(input) /\ Len(input) \in Nat /\ input \in Seq(STRING)
      /\ \A k \in 1 .. Len(input) : input[k] \in STRING \ {S!EOF}
  BY <1>1, DirectiveFacts
<1>3. DirectiveIs("d") /\ Clean /\ Place(unget, pos) = a
  BY <1>1, <1>2, PartFacts DEF ReadFrom
<1>4. IsFile(f) /\ Ahead(input, f.unget, f.pos, f.c, a)
  BY <1>3, FileFacts
<1>5. Signed(input, a) <=> f.c \in {"-", "+"}
  <2>1. S!EOF \notin {"-", "+"}
    BY DEF S!EOF
  <2> HIDE DEF a, f
  <2> QED BY <1>4, <2>1 DEF Signed, Ahead
<1>6. f.c = "-" <=> Signed(input, a) /\ input[a + 1] = "-"
  <2> HIDE DEF a, f
  <2> QED BY <1>4, <1>5 DEF Signed, Ahead
<1>7. j \in 0 .. Len(input) /\ IsFile(g) /\ Ahead(input, g.unget, g.pos, g.c, j)
  <2>1. CASE f.c \in {"-", "+"}
    <3>1. a < Len(input) /\ j = a + 1
      BY <1>5, <2>1 DEF Signed, DigitsOf
    <3>2. Stream(input, f.unget, f.pos) /\ Place(f.unget, f.pos) = j
      <4> HIDE DEF a, f
      <4> QED BY <1>2, <1>4, <3>1, AheadPlace
    <3>3. input \in Seq(STRING \ {S!EOF})
      BY DEF ScanInv, ScanTyped
    <3>4. IsFile(S!GetC(f)) /\ Ahead(input, S!GetC(f).unget, S!GetC(f).pos, S!GetC(f).c, j)
      <4> HIDE DEF f, j
      <4> QED BY <3>2, <3>3, GetCReads
    <3>5. g = S!GetC(f)
      BY <2>1
    <3>6. j \in 0 .. Len(input)
      <4> HIDE DEF a, j
      <4> QED BY <1>2, <3>1
    <3> HIDE DEF f, g, j
    <3> QED BY <3>4, <3>5, <3>6
  <2>2. CASE ~(f.c \in {"-", "+"})
    <3>1. j = a /\ g = f
      BY <1>5, <2>2 DEF DigitsOf
    <3> HIDE DEF a, j, f, g
    <3> QED BY <1>2, <1>4, <3>1
  <2> QED BY <2>1, <2>2
<1>8. CASE ~S!IsDigit(g.c)
  <2>1. Stream(input, unget', pos') /\ Place(unget', pos') = j
    <3> HIDE DEF a, j, f, g
    <3> QED BY <1>1, <1>2, <1>7, <1>8, UngetCPutsBack
  <2>2. S!Run(input, j, S!IsDigit) = 0
    <3> HIDE DEF a, j, f, g
    <3>1. OfKind(input, j, 0, S!IsDigit) /\ j + 0 = j
      BY <1>2, <1>7 DEF OfKind
    <3>2. j + 0 = Len(input) \/ ~S!IsDigit(input[j + 0 + 1])
      <4>1. j = Len(input) \/ g.c = input[j + 1]
        BY <1>2, <1>7 DEF Ahead
      <4>2. j + 0 + 1 = j + 1
        BY <1>7
      <4> QED BY <1>8, <3>1, <4>1, <4>2
    <3> QED BY <1>2, <1>7, <3>1, <3>2, RunIs
  <2>3. S!Limit(0, S!Part.width) = 0
    <3>1. ASSUME NEW width \in Nat PROVE S!Limit(0, width) = 0
      <4>1. 0 \in Nat /\ S!Limit(0, width) = IF width = 0 \/ 0 <= width THEN 0 ELSE width
        BY LimitIs
      <4> QED BY <4>1
    <3> QED BY <1>2, <3>1
  <2>4. S!ReadNumber(input, a, S!Part.width) = S!Fails(j)
    <3> HIDE DEF a
    <3> QED BY <2>2, <2>3, NumberReads
  <2>5. One = S!Fails(j)
    BY <1>3, <2>4, PartIs, ZenonT(20) DEF One, DirectiveIs
  <2>6. ~One.ok /\ One.next = j
    <3> HIDE DEF j
    <3> QED BY <2>5 DEF S!Fails
  <2> HIDE DEF j, g, u
  <2> QED BY <1>1, <1>2, <1>8, <2>1, <2>6, PartFails
<1>9. CASE S!IsDigit(g.c)
  <2>1. /\ unget' = g.unget /\ pos' = g.pos /\ c' = g.c /\ scanning' = "digits"
        /\ sign' = (IF f.c = "-" THEN -1 ELSE 1) /\ UNCHANGED <<value, digits, chars>>
    BY <1>1, <1>9
  <2>2. Sofar' = Sofar /\ S!Part' = S!Part /\ S!fmt' = S!fmt /\ input' = input
    BY <1>1, SamePart
  <2>3. Stream(input, unget', pos')
    <3> HIDE DEF j, g
    <3> QED BY <1>2, <1>7, <2>1, AheadPlace
  <2>4. digits' = 0 /\ value' = 0 /\ chars' = <<>>
    BY <1>3, <2>1 DEF Clean
  <2>5. SubSeq(input, j + 1, j + 0) = <<>> /\ j + 0 = j /\ OfKind(input, j, 0, S!IsDigit)
    <3> HIDE DEF j
    <3>1. j \in Nat /\ 0 \in Nat /\ j + 0 <= Len(input) /\ j + 0 = j
      BY <1>2, <1>7
    <3>2. SubSeq(input, j + 1, j + 0) = <<>>
      BY <1>2, <3>1, SubText
    <3>3. OfKind(input, j, 0, S!IsDigit)
      BY <3>1 DEF OfKind
    <3> QED BY <3>1, <3>2, <3>3
  <2>6. NumberFrom(S!AfterSpaces(input, Sofar.next))'
    <3>1. DigitsOf(input, a)' = j /\ a' = a
      BY <2>2
    <3>2. Ahead(input, unget', pos', c', j + digits')
      <4> HIDE DEF j, g
      <4> QED BY <1>7, <2>1, <2>4, <2>5
    <3>3. Within(digits)' /\ OfKind(input, j, digits', S!IsDigit) /\ S!IsDigit(c')
      <4>1. 0 \in Nat /\ (S!Part'.width = 0 \/ 0 <= S!Part'.width)
        BY <1>2, <2>2
      <4> HIDE DEF j, g
      <4> QED BY <1>9, <2>1, <2>4, <2>5, <4>1 DEF Within
    <3>4. value' = S!Number(SubSeq(input, j + 1, j + digits'))
      <4> HIDE DEF j
      <4> QED BY <2>4, <2>5, NumberTyped
    <3>5. sign' = IF Signed(input, a) /\ input[a + 1] = "-" THEN -1 ELSE 1
      BY <1>6, <2>1
    <3> HIDE DEF f, g, u
    <3> QED BY <2>2, <2>4, <3>1, <3>2, <3>3, <3>4, <3>5 DEF NumberFrom
  <2>7. ReadFrom(Sofar.next)'
    <3>1. DirectiveIs("d")'
      BY <1>3, <2>2 DEF DirectiveIs
    <3> HIDE DEF a, j, f, g, u
    <3> QED BY <1>1, <1>2, <2>1, <2>2, <2>6, <3>1 DEF ReadFrom
  <2> HIDE DEF a, j, f, g, u
  <2> QED BY <1>1, <1>2, <2>1, <2>3, <2>7, StayKeeps
<1> QED BY <1>8, <1>9

\* One character more of a run.
LEMMA OneMore ==
  ASSUME Len(input) \in Nat, NEW j \in 0 .. Len(input), NEW n \in Nat, NEW ch,
         Ahead(input, unget, pos, ch, j + n), ch # S!EOF
  PROVE  /\ j + n < Len(input) /\ ch = input[j + n + 1]
         /\ \A k \in j + 1 .. j + (n + 1) : k \in j + 1 .. j + n \/ input[k] = ch
         /\ Stream(input, unget, pos) /\ Place(unget, pos) = j + (n + 1)
<1>1. j + n < Len(input) /\ ch = input[j + n + 1]
  BY DEF Ahead
<1>2. Stream(input, unget, pos) /\ Place(unget, pos) = (j + n) + 1
  BY <1>1, AheadPlace
<1>3. \A k \in j + 1 .. j + (n + 1) : k \in j + 1 .. j + n \/ k = j + n + 1
  OBVIOUS
<1> QED BY <1>1, <1>2, <1>3

\* Each digit multiplies the value by ten and adds to it.
LEMMA DigitKeeps ==
  ASSUME ScanInv, S!Digit
  PROVE  ScanInv'
<1> DEFINE a == S!AfterSpaces(input, Sofar.next)
           j == DigitsOf(input, a)
           g == S!GetC(S!File)
           s == SubSeq(input, j + 1, j + digits)
<1>1. /\ scanning = "digits" /\ S!IsDigit(c) /\ (S!Part.width = 0 \/ digits < S!Part.width)
      /\ SameCall /\ UNCHANGED <<part, stores, count, sign, chars, scanning>>
      /\ value' = value * 10 + S!DigitOf(c) /\ digits' = digits + 1
      /\ unget' = g.unget /\ pos' = g.pos /\ c' = g.c
  BY DEF S!Digit, S!InWidth, S!FileIs, SameCall
<1>2. /\ scanning # "return" /\ part <= Len(S!fmt) /\ S!Part.width \in Nat
      /\ a \in 0 .. Len(input) /\ Len(input) \in Nat /\ input \in Seq(STRING)
      /\ \A k \in 1 .. Len(input) : input[k] \in STRING \ {S!EOF}
  BY <1>1, DirectiveFacts
<1>3. DirectiveIs("d") /\ NumberFrom(a)
  BY <1>1, <1>2, PartFacts DEF ReadFrom
<1>4. /\ Ahead(input, unget, pos, c, j + digits) /\ digits \in Nat
      /\ OfKind(input, j, digits, S!IsDigit) /\ value = S!Number(s) /\ chars = <<>>
      /\ sign = IF Signed(input, a) /\ input[a + 1] = "-" THEN -1 ELSE 1
  BY <1>3 DEF NumberFrom, Within
<1>5. j \in 0 .. Len(input)
  <2> HIDE DEF a
  <2> QED BY <1>2 DEF DigitsOf, Signed
<1>6. c # S!EOF
  BY <1>1 DEF S!IsDigit, S!Digits, S!EOF, S!ToSet
<1>7. /\ j + digits < Len(input) /\ c = input[j + digits + 1]
      /\ \A k \in j + 1 .. j + (digits + 1) : k \in j + 1 .. j + digits \/ input[k] = c
      /\ Stream(input, unget, pos) /\ Place(unget, pos) = j + (digits + 1)
  <2> HIDE DEF j
  <2> QED BY <1>2, <1>4, <1>5, <1>6, OneMore
<1>8. Ahead(input, unget', pos', c', j + digits') /\ Stream(input, unget', pos')
  <2>1. IsFile(g) /\ Ahead(input, g.unget, g.pos, g.c, j + (digits + 1))
    <3> HIDE DEF g, j
    <3> QED BY <1>7, FileFacts DEF g
  <2> HIDE DEF g, j
  <2>2. Ahead(input, unget', pos', c', j + digits')
    BY <1>1, <2>1
  <2> QED BY <1>2, <2>2, AheadPlace
<1>9. OfKind(input, j, digits', S!IsDigit) /\ digits' \in Nat /\ digits' # 0
  <2> HIDE DEF j
  <2>1. j + (digits + 1) <= Len(input)
    BY <1>2, <1>4, <1>5, <1>7
  <2>2. \A k \in j + 1 .. j + (digits + 1) : S!IsDigit(input[k])
    BY <1>1, <1>4, <1>7 DEF OfKind
  <2>3. digits' = digits + 1 /\ digits \in Nat
    BY <1>1, <1>4
  <2> QED BY <2>1, <2>2, <2>3 DEF OfKind
<1>10. value' = S!Number(SubSeq(input, j + 1, j + digits'))
  <2>1. s \in Seq(STRING) /\ SubSeq(input, j + 1, j + (digits + 1)) = Append(s, c)
    <3> HIDE DEF j
    <3>1. j \in Nat /\ j + digits <= Len(input)
      BY <1>2, <1>4, <1>5, <1>7
    <3> QED BY <1>2, <1>4, <1>7, <3>1, SubText
  <2>2. \A k \in 1 .. Len(s) : S!IsDigit(s[k])
    <3> HIDE DEF j
    <3>1. j \in Nat
      BY <1>2, <1>5
    <3> QED BY <1>2, <1>4, <3>1, DigitsOfText
  <2>3. c \in STRING
    <3>1. j + digits + 1 \in 1 .. Len(input)
      <4> HIDE DEF j
      <4> QED BY <1>2, <1>4, <1>5, <1>7
    <3> HIDE DEF j
    <3> QED BY <1>2, <1>7, <3>1
  <2> HIDE DEF s
  <2>4. S!Number(Append(s, c)) = S!Number(s) * 10 + S!DigitOf(c)
    BY <1>1, <2>1, <2>2, <2>3, NumberGrows
  <2> HIDE DEF j
  <2> QED BY <1>1, <1>4, <2>1, <2>4
<1>11. Within(digits')
  <2> QED BY <1>1, <1>2, <1>4 DEF Within
<1>12. Sofar' = Sofar /\ S!Part' = S!Part /\ S!fmt' = S!fmt /\ input' = input
  BY <1>1, SamePart
<1>13. NumberFrom(S!AfterSpaces(input, Sofar.next))'
  <2>1. DigitsOf(input, a)' = j /\ a' = a
    BY <1>12
  <2>2. Within(digits)'
    BY <1>11, <1>12 DEF Within
  <2> HIDE DEF g
  <2> QED BY <1>1, <1>4, <1>8, <1>9, <1>10, <1>12, <2>1, <2>2 DEF NumberFrom
<1>14. ReadFrom(Sofar.next)'
  <2>1. DirectiveIs("d")'
    BY <1>3, <1>12 DEF DirectiveIs
  <2> HIDE DEF a, j, g
  <2> QED BY <1>1, <1>2, <1>12, <1>13, <2>1 DEF ReadFrom
<1> HIDE DEF a, j, g
<1> QED BY <1>1, <1>2, <1>8, <1>14, StayKeeps

\* %d ends where the digits or its width do, and gives back what is not a digit.
LEMMA EndNumberReads ==
  ASSUME ScanInv, S!EndNumber
  PROVE  ScanInv'
<1> DEFINE a == S!AfterSpaces(input, Sofar.next)
           j == DigitsOf(input, a)
           u == S!UngetC(S!File, c)
           s == SubSeq(input, j + 1, j + digits)
<1>1. /\ scanning = "digits" /\ ~(S!IsDigit(c) /\ (S!Part.width = 0 \/ digits < S!Part.width))
      /\ SameCall /\ unget' = u.unget /\ pos' = u.pos
      /\ part' = part + 1 /\ scanning' = "format"
      /\ value' = 0 /\ digits' = 0 /\ chars' = <<>>
      /\ IF S!Part.suppress THEN UNCHANGED <<count, stores>>
         ELSE /\ count' = count + 1
              /\ stores' = [stores EXCEPT ![scan] = Append(@, value * sign)]
  BY DEF S!EndNumber, S!Store, S!InWidth, S!FileIs, SameCall
<1>2. /\ scanning # "return" /\ part <= Len(S!fmt) /\ S!Part.width \in Nat
      /\ a \in 0 .. Len(input) /\ Len(input) \in Nat /\ input \in Seq(STRING)
      /\ (S!Stores(S!Part) <=> ~S!Part.suppress)
  BY <1>1, DirectiveFacts
<1>3. DirectiveIs("d") /\ NumberFrom(a)
  BY <1>1, <1>2, PartFacts DEF ReadFrom
<1>4. /\ Ahead(input, unget, pos, c, j + digits) /\ digits \in Nat
      /\ S!Part.width = 0 \/ digits <= S!Part.width
      /\ OfKind(input, j, digits, S!IsDigit) /\ value = S!Number(s)
      /\ sign = IF Signed(input, a) /\ input[a + 1] = "-" THEN -1 ELSE 1
      /\ digits = 0 => S!IsDigit(c)
  BY <1>3 DEF NumberFrom, Within
<1>5. j \in 0 .. Len(input)
  <2> HIDE DEF a
  <2> QED BY <1>2 DEF DigitsOf, Signed
<1>6. digits # 0
  BY <1>1, <1>2, <1>4
<1>7. S!Limit(S!Run(input, j, S!IsDigit), S!Part.width) = digits
  <2> HIDE DEF j
  <2>1. \/ j + digits = Len(input) \/ ~S!IsDigit(input[j + digits + 1])
        \/ (S!Part.width # 0 /\ digits = S!Part.width)
    <3>1. CASE ~S!IsDigit(c)
      <4>1. j + digits = Len(input) \/ c = input[j + digits + 1]
        BY <1>2, <1>4 DEF Ahead
      <4> QED BY <3>1, <4>1
    <3>2. CASE S!IsDigit(c)
      BY <1>1, <1>2, <1>4, <3>2
    <3> QED BY <3>1, <3>2
  <2> DEFINE width == S!Part.width
  <2>2. width \in Nat /\ (width = 0 \/ digits <= width)
    BY <1>2, <1>4
  <2>3. j + digits = Len(input) \/ ~S!IsDigit(input[j + digits + 1]) \/ (width # 0 /\ digits = width)
    BY <2>1
  <2> HIDE DEF width
  <2>4. S!Limit(S!Run(input, j, S!IsDigit), width) = digits
    BY <1>2, <1>4, <1>5, <2>2, <2>3, LimitedRun
  <2> QED BY <2>4 DEF width
<1>8. One = S!Reads(S!Number(s) * (IF Signed(input, a) /\ input[a + 1] = "-" THEN -1 ELSE 1),
                    j + digits)
  <2>1. S!ReadNumber(input, a, S!Part.width) =
          S!Reads(S!Number(s) * (IF Signed(input, a) /\ input[a + 1] = "-" THEN -1 ELSE 1),
                  j + digits)
    <3> HIDE DEF a
    <3> QED BY <1>6, <1>7, NumberReads
  <2>2. One = S!ReadNumber(input, a, S!Part.width)
    BY <1>3, PartIs DEF One, DirectiveIs
  <2> HIDE DEF a, j, s
  <2> QED BY <2>1, <2>2
<1>9. One.ok /\ One.next = j + digits /\ One.stored = value * sign
  <2>1. value * sign = S!Number(s) * (IF Signed(input, a) /\ input[a + 1] = "-" THEN -1 ELSE 1)
    <3> HIDE DEF a, s
    <3> QED BY <1>4
  <2> HIDE DEF a, j, s
  <2>2. One = S!Reads(value * sign, j + digits)
    BY <1>8, <2>1
  <2> QED BY <2>2 DEF S!Reads
<1>10. Stream(input, unget', pos') /\ Place(unget', pos') = j + digits
  <2>1. IsFile(S!File) /\ Ahead(input, S!File.unget, S!File.pos, c, j + digits)
    <3> HIDE DEF j
    <3> QED BY <1>4, FileFacts
  <2> HIDE DEF j
  <2> QED BY <1>1, <1>2, <2>1, UngetCPutsBack
<1> HIDE DEF a, j, u, s
<1>11. Clean'
  BY <1>1 DEF Clean
<1> QED BY <1>1, <1>2, <1>9, <1>10, <1>11, PartReads

\* %s begins at the first character that is not a space.
LEMMA FirstCharKeeps ==
  ASSUME ScanInv, S!FirstChar
  PROVE  ScanInv'
<1> DEFINE a == S!AfterSpaces(input, Sofar.next)
           g == S!GetC(S!File)
<1>1. /\ scanning = "s" /\ SameCall /\ UNCHANGED <<part, stores, count, value, digits, chars>>
      /\ unget' = g.unget /\ pos' = g.pos /\ c' = g.c /\ scanning' = "chars"
  BY DEF S!FirstChar, S!FileIs, SameCall
<1>2. /\ scanning # "return" /\ part <= Len(S!fmt) /\ S!Part.width \in Nat
      /\ a \in 0 .. Len(input) /\ Len(input) \in Nat /\ input \in Seq(STRING)
  BY <1>1, DirectiveFacts
<1>3. DirectiveIs("s") /\ Clean /\ Place(unget, pos) = a
  BY <1>1, <1>2, PartFacts DEF ReadFrom
<1>4. IsFile(g) /\ Ahead(input, g.unget, g.pos, g.c, a)
  BY <1>3, FileFacts
<1> HIDE DEF g
<1>5. Stream(input, unget', pos')
  <2> HIDE DEF a
  <2> QED BY <1>1, <1>2, <1>4, AheadPlace
<1>6. Sofar' = Sofar /\ S!Part' = S!Part /\ S!fmt' = S!fmt /\ input' = input
  BY <1>1, SamePart
<1>7. /\ digits' = 0 /\ value' = 0 /\ chars' = <<>> /\ a + 0 = a
      /\ SubSeq(input, a + 1, a + 0) = <<>> /\ OfKind(input, a, 0, S!NotSpace)
  <2> HIDE DEF a
  <2>1. a \in Nat /\ 0 \in Nat /\ a + 0 <= Len(input) /\ a + 0 = a
    BY <1>2
  <2>2. SubSeq(input, a + 1, a + 0) = <<>>
    BY <1>2, <2>1, SubText
  <2>3. OfKind(input, a, 0, S!NotSpace)
    BY <2>1 DEF OfKind
  <2> QED BY <1>1, <1>3, <2>1, <2>2, <2>3 DEF Clean
<1>8. StringFrom(S!AfterSpaces(input, Sofar.next))'
  <2>1. a' = a
    BY <1>6
  <2>2. Within(digits)'
    <3>1. 0 \in Nat /\ (S!Part'.width = 0 \/ 0 <= S!Part'.width)
      BY <1>2, <1>6
    <3> QED BY <1>7, <3>1 DEF Within
  <2>3. StringFrom(a)'
    <3> HIDE DEF a
    <3>1. Ahead(input, unget', pos', c', a + digits')
      BY <1>1, <1>4, <1>7
    <3> QED BY <1>6, <1>7, <2>1, <2>2, <3>1 DEF StringFrom
  <2> QED BY <2>3
<1>9. ReadFrom(Sofar.next)'
  <2>1. DirectiveIs("s")'
    BY <1>3, <1>6 DEF DirectiveIs
  <2> HIDE DEF a
  <2> QED BY <1>1, <1>2, <1>6, <1>8, <2>1 DEF ReadFrom
<1> HIDE DEF a
<1> QED BY <1>1, <1>2, <1>5, <1>9, StayKeeps

\* %s reads one more character.
LEMMA CharKeeps ==
  ASSUME ScanInv, S!Char
  PROVE  ScanInv'
<1> DEFINE a == S!AfterSpaces(input, Sofar.next)
           g == S!GetC(S!File)
<1>1. /\ scanning = "chars" /\ S!NotSpace(c) /\ c # S!EOF
      /\ S!Part.width = 0 \/ digits < S!Part.width
      /\ SameCall /\ UNCHANGED <<part, stores, count, value, scanning>>
      /\ chars' = Append(chars, c) /\ digits' = digits + 1
      /\ unget' = g.unget /\ pos' = g.pos /\ c' = g.c
  BY DEF S!Char, S!InString, S!InWidth, S!FileIs, SameCall, S!NotSpace
<1>2. /\ scanning # "return" /\ part <= Len(S!fmt) /\ S!Part.width \in Nat
      /\ a \in 0 .. Len(input) /\ Len(input) \in Nat /\ input \in Seq(STRING)
  BY <1>1, DirectiveFacts
<1>3. DirectiveIs("s") /\ StringFrom(a)
  BY <1>1, <1>2, PartFacts DEF ReadFrom
<1>4. /\ Ahead(input, unget, pos, c, a + digits) /\ digits \in Nat
      /\ OfKind(input, a, digits, S!NotSpace)
      /\ chars = SubSeq(input, a + 1, a + digits) /\ value = 0
  BY <1>3 DEF StringFrom, Within
<1>5. /\ a + digits < Len(input) /\ c = input[a + digits + 1]
      /\ \A k \in a + 1 .. a + (digits + 1) : k \in a + 1 .. a + digits \/ input[k] = c
      /\ Stream(input, unget, pos) /\ Place(unget, pos) = a + (digits + 1)
  <2> HIDE DEF a
  <2> QED BY <1>1, <1>2, <1>4, OneMore
<1>6. Ahead(input, unget', pos', c', a + digits') /\ Stream(input, unget', pos')
  <2>1. IsFile(g) /\ Ahead(input, g.unget, g.pos, g.c, a + (digits + 1))
    <3> HIDE DEF g, a
    <3> QED BY <1>5, FileFacts DEF g
  <2> HIDE DEF g, a
  <2>2. Ahead(input, unget', pos', c', a + digits')
    BY <1>1, <2>1
  <2> QED BY <1>2, <2>2, AheadPlace
<1> HIDE DEF g
<1>7. OfKind(input, a, digits', S!NotSpace) /\ digits' \in Nat
  <2> HIDE DEF a
  <2>1. a + (digits + 1) <= Len(input)
    BY <1>2, <1>4, <1>5
  <2>2. \A k \in a + 1 .. a + (digits + 1) : S!NotSpace(input[k])
    BY <1>1, <1>4, <1>5 DEF OfKind
  <2>3. digits' = digits + 1 /\ digits \in Nat
    BY <1>1, <1>4
  <2> QED BY <2>1, <2>2, <2>3 DEF OfKind
<1>8. chars' = SubSeq(input, a + 1, a + digits')
  <2> HIDE DEF a
  <2>1. a \in Nat /\ a + digits <= Len(input) /\ digits \in Nat
    BY <1>2, <1>4, <1>5
  <2>2. SubSeq(input, a + 1, a + (digits + 1)) =
          Append(SubSeq(input, a + 1, a + digits), input[a + digits + 1])
    BY <1>2, <1>5, <2>1, SubText
  <2> QED BY <1>1, <1>4, <1>5, <2>2
<1>9. Within(digits')
  BY <1>1, <1>2, <1>4 DEF Within
<1>10. Sofar' = Sofar /\ S!Part' = S!Part /\ S!fmt' = S!fmt /\ input' = input
  BY <1>1, SamePart
<1>11. StringFrom(S!AfterSpaces(input, Sofar.next))'
  <2>1. a' = a
    BY <1>10
  <2>2. Within(digits)'
    BY <1>9, <1>10 DEF Within
  <2>3. StringFrom(a)'
    <3> HIDE DEF a
    <3> QED BY <1>1, <1>4, <1>6, <1>7, <1>8, <1>10, <2>1, <2>2 DEF StringFrom
  <2> QED BY <2>3
<1>12. ReadFrom(Sofar.next)'
  <2>1. DirectiveIs("s")'
    BY <1>3, <1>10 DEF DirectiveIs
  <2> HIDE DEF a
  <2> QED BY <1>1, <1>2, <1>10, <1>11, <2>1 DEF ReadFrom
<1> HIDE DEF a
<1> QED BY <1>1, <1>2, <1>6, <1>12, StayKeeps

\* %s ends at a space, at the end or at its width, and gives the space back.
LEMMA EndStringReads ==
  ASSUME ScanInv, S!EndString
  PROVE  ScanInv'
<1> DEFINE a == S!AfterSpaces(input, Sofar.next)
           u == S!UngetC(S!File, c)
<1>1. /\ scanning = "chars"
      /\ ~(S!NotSpace(c) /\ c # S!EOF /\ (S!Part.width = 0 \/ digits < S!Part.width))
      /\ SameCall /\ unget' = u.unget /\ pos' = u.pos
      /\ part' = part + 1 /\ scanning' = "format"
      /\ value' = 0 /\ digits' = 0 /\ chars' = <<>>
      /\ IF S!Part.suppress THEN UNCHANGED <<count, stores>>
         ELSE /\ count' = count + 1
              /\ stores' = [stores EXCEPT ![scan] = Append(@, chars)]
  BY DEF S!EndString, S!Store, S!InString, S!InWidth, S!FileIs, SameCall, S!NotSpace
<1>2. /\ scanning # "return" /\ part <= Len(S!fmt) /\ S!Part.width \in Nat
      /\ a \in 0 .. Len(input) /\ Len(input) \in Nat /\ input \in Seq(STRING)
      /\ (S!Stores(S!Part) <=> ~S!Part.suppress)
  BY <1>1, DirectiveFacts
<1>3. DirectiveIs("s") /\ StringFrom(a)
  BY <1>1, <1>2, PartFacts DEF ReadFrom
<1>4. /\ Ahead(input, unget, pos, c, a + digits) /\ digits \in Nat
      /\ S!Part.width = 0 \/ digits <= S!Part.width
      /\ OfKind(input, a, digits, S!NotSpace)
      /\ chars = SubSeq(input, a + 1, a + digits)
  BY <1>3 DEF StringFrom, Within
<1>5. S!Limit(S!Run(input, a, S!NotSpace), S!Part.width) = digits
  <2> HIDE DEF a
  <2>1. \/ a + digits = Len(input) \/ ~S!NotSpace(input[a + digits + 1])
        \/ (S!Part.width # 0 /\ digits = S!Part.width)
    <3>1. CASE ~S!NotSpace(c) \/ c = S!EOF
      <4>1. a + digits = Len(input) \/ (c = input[a + digits + 1] /\ c # S!EOF)
        BY <1>2, <1>4 DEF Ahead
      <4> QED BY <3>1, <4>1
    <3>2. CASE S!NotSpace(c) /\ c # S!EOF
      BY <1>1, <1>2, <1>4, <3>2
    <3> QED BY <3>1, <3>2
  <2> DEFINE width == S!Part.width
  <2>2. width \in Nat /\ (width = 0 \/ digits <= width)
    BY <1>2, <1>4
  <2>3. a + digits = Len(input) \/ ~S!NotSpace(input[a + digits + 1]) \/ (width # 0 /\ digits = width)
    BY <2>1
  <2> HIDE DEF width
  <2>4. S!Limit(S!Run(input, a, S!NotSpace), width) = digits
    BY <1>2, <1>4, <2>2, <2>3, LimitedRun
  <2> QED BY <2>4 DEF width
<1>6. One.ok /\ One.next = a + digits /\ One.stored = chars
  <2>1. One = S!ReadChars(input, a, S!Limit(S!Run(input, a, S!NotSpace), S!Part.width))
    BY <1>3, PartIs DEF One, DirectiveIs
  <2> HIDE DEF a
  <2>2. One = S!ReadChars(input, a, digits)
    BY <1>5, <2>1
  <2> QED BY <1>4, <2>2 DEF S!ReadChars, S!Reads
<1>7. Stream(input, unget', pos') /\ Place(unget', pos') = a + digits
  <2>1. IsFile(S!File) /\ Ahead(input, S!File.unget, S!File.pos, c, a + digits)
    <3> HIDE DEF a
    <3> QED BY <1>4, FileFacts
  <2> HIDE DEF a
  <2> QED BY <1>1, <1>2, <2>1, UngetCPutsBack
<1> HIDE DEF a, u
<1>8. Clean'
  BY <1>1 DEF Clean
<1> QED BY <1>1, <1>2, <1>6, <1>7, <1>8, PartReads

\* What %c reads, of a text that has not ended.
LEMMA CharsRead ==
  ASSUME NEW inp, Len(inp) \in Nat, NEW i \in 0 .. Len(inp), NEW w \in Nat, NEW n \in Nat,
         i + n <= Len(inp), n >= 1,
         n = w \/ (w <= 1 /\ n = 1) \/ (i + n = Len(inp) /\ n <= w)
  PROVE  S!Limit(S!Run(inp, i, S!Anything), S!Max({w, 1})) = n
<1>1. S!Run(inp, i, S!Anything) = Len(inp) - i /\ Len(inp) - i \in Nat
  <2>1. S!Run(inp, i, S!Anything) = Len(inp) - i
    BY RunIs
  <2>2. Len(inp) - i \in Nat
    OBVIOUS
  <2> QED BY <2>1, <2>2
<1>2. S!Max({w, 1}) = IF w >= 1 THEN w ELSE 1
  BY OfTwo, SameMax
<1> DEFINE m == S!Max({w, 1})
<1>3. m \in Nat /\ m >= 1 /\ (n = m \/ (i + n = Len(inp) /\ n <= m))
  BY <1>2
<1> HIDE DEF m
<1>4. S!Limit(Len(inp) - i, m) = IF m = 0 \/ Len(inp) - i <= m THEN Len(inp) - i ELSE m
  BY <1>1, <1>3, LimitIs
<1>5. S!Limit(Len(inp) - i, m) = n
  BY <1>1, <1>3, <1>4
<1> QED BY <1>1, <1>5 DEF m

\* %c reads one character.
LEMMA OneCharReads ==
  ASSUME ScanInv, S!OneChar
  PROVE  ScanInv'
<1> DEFINE w == Place(unget, pos)
           g == S!GetC(S!File)
<1>1. /\ scanning = "format" /\ part <= Len(S!fmt) /\ DirectiveIs("c") /\ SameCall
      /\ unget' = g.unget /\ pos' = g.pos
      /\ \/ g.c = S!EOF /\ scanning' = "return" /\ UNCHANGED <<part, stores, count>>
         \/ /\ g.c # S!EOF /\ S!Part.width > 1 /\ scanning' = "more" /\ chars' = <<g.c>>
            /\ UNCHANGED <<part, stores, count, value, digits>>
         \/ /\ g.c # S!EOF /\ ~(S!Part.width > 1)
            /\ part' = part + 1 /\ scanning' = "format"
            /\ value' = 0 /\ digits' = 0 /\ chars' = <<>>
            /\ IF S!Part.suppress THEN UNCHANGED <<count, stores>>
               ELSE /\ count' = count + 1
                    /\ stores' = [stores EXCEPT ![scan] = Append(@, <<g.c>>)]
  BY DEF S!OneChar, S!Directive, S!In, S!FileIs, S!Return, S!Store, SameCall, DirectiveIs
<1>2. /\ scanning # "return" /\ S!Part.kind = "directive" /\ S!Part.width \in Nat
      /\ w = Sofar.next /\ Clean
      /\ (S!Stores(S!Part) <=> ~S!Part.suppress)
      /\ Len(input) \in Nat /\ input \in Seq(STRING)
  <2>1. S!Part.kind = "directive" /\ scanning # "return"
    BY <1>1 DEF DirectiveIs
  <2>2. S!Part \in S!ScanParts /\ ReadFrom(Sofar.next)
    BY <1>1, <2>1, PartFacts
  <2>3. S!Part.width \in Nat
    BY <2>1, <2>2 DEF S!ScanParts
  <2>4. w = Sofar.next /\ Clean
    BY <1>1, <2>2 DEF ReadFrom
  <2> HIDE DEF w
  <2> QED BY <2>1, <2>3, <2>4, ScanFacts DEF S!Stores
<1>3. w \in 0 .. Len(input) /\ IsFile(g) /\ Ahead(input, g.unget, g.pos, g.c, w)
  BY FileFacts
<1> HIDE DEF g
<1>4. One = IF w = Len(input) THEN S!Fails(w)
            ELSE S!ReadChars(input, w, S!Limit(S!Run(input, w, S!Anything), S!Max({S!Part.width, 1})))
  <2>1. \A i : S!ReadPart(input, S!Part, i) =
                 IF i = Len(input) THEN S!Fails(i)
                 ELSE S!ReadChars(input, i, S!Limit(S!Run(input, i, S!Anything), S!Max({S!Part.width, 1})))
    <3> DEFINE p == S!Part
    <3>1. p.kind = "directive" /\ p.conv = "c"
      BY <1>1 DEF DirectiveIs
    <3> HIDE DEF p
    <3>2. ASSUME NEW i
          PROVE  S!ReadPart(input, p, i) =
                   IF i = Len(input) THEN S!Fails(i)
                   ELSE S!ReadChars(input, i, S!Limit(S!Run(input, i, S!Anything), S!Max({p.width, 1})))
      BY <3>1, PartIs
    <3> QED BY <3>2 DEF p
  <2>2. One = S!ReadPart(input, S!Part, w)
    BY <1>2 DEF One
  <2> HIDE DEF w
  <2> QED BY <2>1, <2>2
<1>5. CASE g.c = S!EOF
  <2>1. w = Len(input)
    <3> HIDE DEF w
    <3> QED BY <1>2, <1>3, <1>5 DEF Ahead
  <2>2. Stream(input, unget', pos') /\ Place(unget', pos') = w
    <3> HIDE DEF w
    <3> QED BY <1>1, <1>2, <1>3, <2>1, AheadPlace
  <2>3. ~One.ok /\ One.next = w
    <3> HIDE DEF w
    <3> QED BY <1>4, <2>1 DEF S!Fails
  <2> HIDE DEF w
  <2> QED BY <1>1, <1>2, <1>5, <2>2, <2>3, PartFails
<1>6. CASE g.c # S!EOF
  <2>1. w < Len(input) /\ g.c = input[w + 1]
    <3> HIDE DEF w
    <3> QED BY <1>2, <1>3, <1>6 DEF Ahead
  <2>2. Stream(input, unget', pos') /\ Place(unget', pos') = w + 1
    <3> HIDE DEF w
    <3> QED BY <1>1, <1>2, <1>3, <2>1, AheadPlace
  <2>3. SubSeq(input, w + 1, w + 1) = <<g.c>> /\ w + 1 <= Len(input)
    <3> HIDE DEF w
    <3>1. w \in Nat /\ 0 \in Nat /\ w + 0 <= Len(input) /\ w + 0 < Len(input) /\ w + 0 = w /\ 0 + 1 = 1
      BY <1>2, <1>3, <2>1
    <3>2. /\ SubSeq(input, w + 1, w + 0) = <<>>
          /\ SubSeq(input, w + 1, w + (0 + 1)) = Append(SubSeq(input, w + 1, w + 0), input[w + 0 + 1])
      BY <1>2, <3>1, SubText
    <3>3. SubSeq(input, w + 1, w + 1) = Append(<<>>, input[w + 1])
      BY <3>1, <3>2
    <3>4. w + 1 <= Len(input)
      BY <1>2, <1>3, <2>1
    <3> QED BY <2>1, <3>3, <3>4
  <2>4. CASE S!Part.width > 1
    <3>1. /\ scanning' = "more" /\ chars' = <<g.c>>
          /\ UNCHANGED <<part, stores, count, value, digits>>
      BY <1>1, <1>6, <2>4
    <3>2. Sofar' = Sofar /\ S!Part' = S!Part /\ S!fmt' = S!fmt /\ input' = input
      BY <1>1, <3>1, SamePart
    <3>3. Len(chars') = 1 /\ 1 \in 1 .. S!Part.width
      BY <1>2, <2>4, <3>1
    <3>4. CharsFrom(Sofar.next)'
      <4> HIDE DEF w
      <4> DEFINE i == Sofar.next
      <4>1. i = w /\ i' = i
        BY <1>2, <3>2
      <4> HIDE DEF i
      <4>2. CharsFrom(i)'
        BY <1>2, <2>2, <2>3, <3>1, <3>2, <3>3, <4>1 DEF CharsFrom, Clean
      <4> QED BY <4>2 DEF i
    <3>5. ReadFrom(Sofar.next)'
      <4>1. DirectiveIs("c")'
        BY <1>1, <3>2 DEF DirectiveIs
      <4> QED BY <1>1, <3>1, <3>2, <3>4, <4>1 DEF ReadFrom
    <3> QED BY <1>1, <1>2, <2>2, <3>1, <3>5, StayKeeps
  <2>5. CASE ~(S!Part.width > 1)
    <3> HIDE DEF w
    <3>1. S!Limit(S!Run(input, w, S!Anything), S!Max({S!Part.width, 1})) = 1
      <4> DEFINE width == S!Part.width
      <4>1. width \in Nat /\ width <= 1 /\ 1 \in Nat /\ 1 >= 1
        BY <1>2, <2>5
      <4> HIDE DEF width
      <4>2. S!Limit(S!Run(input, w, S!Anything), S!Max({width, 1})) = 1
        BY <1>2, <1>3, <2>3, <4>1, CharsRead
      <4> QED BY <4>2 DEF width
    <3>2. One = S!ReadChars(input, w, 1)
      <4>1. w # Len(input)
        BY <1>2, <1>3, <2>1
      <4> QED BY <1>4, <3>1, <4>1
    <3>3. One.ok /\ One.next = w + 1 /\ One.stored = <<g.c>>
      BY <2>3, <3>2 DEF S!ReadChars, S!Reads
    <3>4. /\ part' = part + 1 /\ scanning' = "format" /\ Clean'
          /\ IF S!Part.suppress THEN UNCHANGED <<count, stores>>
             ELSE /\ count' = count + 1
                  /\ stores' = [stores EXCEPT ![scan] = Append(@, <<g.c>>)]
      BY <1>1, <1>6, <2>5 DEF Clean
    <3> QED BY <1>1, <1>2, <2>2, <3>3, <3>4, PartReads
  <2> QED BY <2>4, <2>5
<1> QED BY <1>5, <1>6

\* %c with a width reads one more character.
LEMMA MoreCharsKeeps ==
  ASSUME ScanInv, S!MoreChars
  PROVE  ScanInv'
<1> DEFINE i == Sofar.next
           w == Place(unget, pos)
           g == S!GetC(S!File)
           n == Len(chars)
<1>1. /\ scanning = "more" /\ SameCall
      /\ \/ /\ n < S!Part.width /\ g.c # S!EOF /\ chars' = Append(chars, g.c)
            /\ unget' = g.unget /\ pos' = g.pos
            /\ UNCHANGED <<part, stores, count, value, digits, scanning>>
         \/ /\ ~(n < S!Part.width /\ g.c # S!EOF)
            /\ unget' = S!File.unget /\ pos' = S!File.pos
            /\ part' = part + 1 /\ scanning' = "format"
            /\ value' = 0 /\ digits' = 0 /\ chars' = <<>>
            /\ IF S!Part.suppress THEN UNCHANGED <<count, stores>>
               ELSE /\ count' = count + 1
                    /\ stores' = [stores EXCEPT ![scan] = Append(@, chars)]
  BY DEF S!MoreChars, S!FileIs, S!Store, SameCall
<1>2. /\ scanning # "return" /\ part <= Len(S!fmt) /\ DirectiveIs("c") /\ CharsFrom(i)
  <2>1. Going
    BY <1>1 DEF ScanInv
  <2> QED BY <1>1, <2>1 DEF Going, ReadFrom
<1>3. /\ n \in 1 .. S!Part.width /\ i + n <= Len(input)
      /\ chars = SubSeq(input, i + 1, i + n)
      /\ w = i + n /\ value = 0 /\ digits = 0
  BY <1>2 DEF CharsFrom
<1>4. /\ S!Part.kind = "directive" /\ S!Part.width \in Nat
      /\ (S!Stores(S!Part) <=> ~S!Part.suppress)
      /\ Len(input) \in Nat /\ input \in Seq(STRING) /\ i \in 0 .. Len(input)
  <2>1. S!Part.kind = "directive" /\ S!Part \in S!ScanParts
    BY <1>2, PartFacts DEF DirectiveIs
  <2>2. S!Part.width \in Nat
    BY <2>1 DEF S!ScanParts
  <2> QED BY <2>1, <2>2, ScanFacts DEF S!Stores
<1>5. w \in 0 .. Len(input) /\ IsFile(g) /\ Ahead(input, g.unget, g.pos, g.c, w)
  BY FileFacts
<1> HIDE DEF g, w, n
<1>6. CASE n < S!Part.width /\ g.c # S!EOF
  <2>1. /\ chars' = Append(chars, g.c) /\ unget' = g.unget /\ pos' = g.pos
        /\ UNCHANGED <<part, stores, count, value, digits, scanning>>
    BY <1>1, <1>6
  <2>2. Sofar' = Sofar /\ S!Part' = S!Part /\ S!fmt' = S!fmt /\ input' = input
    BY <1>1, <2>1, SamePart
  <2> HIDE DEF i
  <2>3. w < Len(input) /\ g.c = input[w + 1]
    BY <1>4, <1>5, <1>6 DEF Ahead
  <2>4. Stream(input, unget', pos') /\ Place(unget', pos') = w + 1
    BY <1>4, <1>5, <2>1, <2>3, AheadPlace
  <2>5. /\ n + 1 \in 1 .. S!Part.width /\ i + (n + 1) <= Len(input) /\ w + 1 = i + (n + 1)
        /\ i + n < Len(input) /\ n \in Nat /\ i \in Nat
    BY <1>3, <1>4, <1>6, <2>3, SMTT(20)
  <2>6. chars' = SubSeq(input, i + 1, i + (n + 1)) /\ Len(chars') = n + 1
    <3>1. SubSeq(input, i + 1, i + (n + 1)) = Append(SubSeq(input, i + 1, i + n), input[i + n + 1])
      BY <1>3, <1>4, <2>5, SubText
    <3>2. i + n + 1 = w + 1
      BY <1>3, <2>5
    <3>3. Len(SubSeq(input, i + 1, i + (n + 1))) = n + 1
      <4> DEFINE m == n + 1
      <4>1. m \in Nat /\ i + m <= Len(input)
        BY <2>5
      <4> HIDE DEF m
      <4>2. Len(SubSeq(input, i + 1, i + m)) = m
        BY <1>4, <2>5, <4>1, SubText
      <4> QED BY <4>2 DEF m
    <3> QED BY <1>3, <2>1, <2>3, <3>1, <3>2, <3>3
  <2>7. CharsFrom(Sofar.next)'
    <3>1. i' = i
      BY <2>2 DEF i
    <3>2. CharsFrom(i)'
      BY <1>3, <2>1, <2>2, <2>4, <2>5, <2>6, <3>1 DEF CharsFrom
    <3> QED BY <3>2 DEF i
  <2>8. ReadFrom(Sofar.next)'
    <3>1. DirectiveIs("c")'
      BY <1>2, <2>2 DEF DirectiveIs
    <3> QED BY <1>1, <1>2, <2>1, <2>2, <2>7, <3>1 DEF ReadFrom
  <2> QED BY <1>1, <1>2, <2>1, <2>4, <2>8, StayKeeps
<1>7. CASE ~(n < S!Part.width /\ g.c # S!EOF)
  <2>1. /\ unget' = S!File.unget /\ pos' = S!File.pos /\ part' = part + 1 /\ scanning' = "format"
        /\ Clean'
        /\ IF S!Part.suppress THEN UNCHANGED <<count, stores>>
           ELSE /\ count' = count + 1
                /\ stores' = [stores EXCEPT ![scan] = Append(@, chars)]
    BY <1>1, <1>7 DEF Clean
  <2>2. Stream(input, unget', pos') /\ Place(unget', pos') = i + n
    <3>1. unget' = unget /\ pos' = pos /\ Stream(input, unget, pos)
      BY <2>1, FileFacts
    <3> HIDE DEF i
    <3> QED BY <1>3, <3>1 DEF w
  <2>3. One = IF i = Len(input) THEN S!Fails(i)
              ELSE S!ReadChars(input, i, S!Limit(S!Run(input, i, S!Anything), S!Max({S!Part.width, 1})))
    BY <1>2, PartIs DEF One, DirectiveIs
  <2> HIDE DEF i
  <2>4. n = S!Part.width \/ (i + n = Len(input) /\ n <= S!Part.width)
    <3>1. g.c = S!EOF => w = Len(input)
      BY <1>4, <1>5 DEF Ahead
    <3> QED BY <1>3, <1>4, <1>7, <3>1
  <2>5. S!Limit(S!Run(input, i, S!Anything), S!Max({S!Part.width, 1})) = n
    <3> DEFINE width == S!Part.width
    <3>1. /\ width \in Nat /\ n \in Nat /\ n >= 1
          /\ n = width \/ (i + n = Len(input) /\ n <= width)
      BY <1>3, <1>4, <2>4
    <3> HIDE DEF width
    <3>2. S!Limit(S!Run(input, i, S!Anything), S!Max({width, 1})) = n
      BY <1>3, <1>4, <3>1, CharsRead
    <3> QED BY <3>2 DEF width
  <2>6. One = S!ReadChars(input, i, n)
    <3>1. i # Len(input)
      BY <1>3, <1>4
    <3> QED BY <2>3, <2>5, <3>1
  <2>7. One.ok /\ One.next = i + n /\ One.stored = chars
    BY <1>3, <2>6 DEF S!ReadChars, S!Reads
  <2> QED BY <1>1, <1>2, <1>4, <2>1, <2>2, <2>7, PartReads
<1> QED BY <1>6, <1>7

\* Every step keeps the invariant of scanf.
LEMMA ScanStep ==
  ASSUME ScanInv, [LibraryNext]_libraryVars
  PROVE  ScanInv'
<1>1. CASE UNCHANGED scanfVars
  <2>1. UNCHANGED <<formats, input, scan, pos, unget, part, scanning, c, sign, value, digits,
                    chars, count, stores, starts>>
    BY <1>1 DEF scanfVars
  <2>2. ScanTyped'
    <3>1. S!fmt' = S!fmt
      BY <2>1 DEF S!fmt
    <3> QED BY <2>1, <3>1 DEF ScanInv, ScanTyped
  <2>3. Readings' = Readings /\ Sofar' = Sofar /\ S!fmt' = S!fmt /\ S!Part' = S!Part
    BY <2>1, ReadingsKeep DEF Sofar, S!Part
  <2>4. ASSUME Gone PROVE Gone'
    BY <2>1, <2>3, <2>4 DEF Gone
  <2>5. ASSUME Going PROVE Going'
    <3>1. ReadFrom(Sofar.next)'
      BY <2>1, <2>3, <2>5 DEF Going, ReadFrom, Clean, DirectiveIs, SkippingFrom, NumberFrom,
                              StringFrom, CharsFrom, Within
    <3> QED BY <2>1, <2>3, <2>5, <3>1 DEF Going
  <2> QED BY <2>1, <2>2, <2>4, <2>5 DEF ScanInv
<1>2. CASE S!Next
  BY <1>2, StartSkipKeeps, SkipWhitespaceKeeps, LiteralReads, UnsupportedFails, SignKeeps,
     DigitKeeps, EndNumberReads, FirstCharKeeps, CharKeeps, EndStringReads, OneCharReads,
     MoreCharsKeeps, EndOfFormatReturns, NextCallStarts DEF S!Next
<1> QED BY <1>1, <1>2 DEF LibraryNext, Allocating, Printing, Scanning, InShell, libraryVars

\* The invariant of scanf holds throughout.
LEMMA ScanInvariant == LibrarySpec => []ScanInv
BY ScanInit, ScanStep, PTL DEF LibrarySpec

\* What the invariant says of the stream and of a call that returns.
LEMMA ReadByInvariant == ScanInv => ReadsAsDescribed
<1> SUFFICES ASSUME ScanInv PROVE ReadsAsDescribed
  OBVIOUS
<1>1. S!PushedBackIsLastRead
  <2>1. Stream(input, unget, pos) /\ Len(input) \in Nat
    BY ScanFacts DEF ScanInv, ScanTyped
  <2> QED BY <2>1 DEF Stream, S!PushedBackIsLastRead
<1>2. S!ReadsAsDescribed
  <2> SUFFICES ASSUME scanning = "return"
               PROVE  /\ stores[scan] = S!Read(scan).stores /\ count = Len(stores[scan])
                      /\ pos - Len(unget) = S!Read(scan).next
    BY DEF S!ReadsAsDescribed
  <2>1. Gone /\ count = Len(stores[scan])
    BY DEF ScanInv, ScanTyped
  <2>2. Readings[Len(S!fmt)] = S!Read(scan)
    BY ScanFacts
  <2> QED BY <2>1, <2>2 DEF Gone, Place
<1> QED BY <1>1, <1>2 DEF ReadsAsDescribed

\* A call of scanf stores, counts and reads what its format describes, whatever the
\* programs and the input (vfscanf, file_getc, file_ungetc).
THEOREM ScanfReadsItsFormat == LibrarySpec => []ReadsAsDescribed
BY ScanInvariant, ReadByInvariant, PTL

-----------------------------------------------------------------------------
(* malloc and free, for every page, header and request size, and with no   *)
(* bound on the break.                                                     *)

USE MallocAssumption

\* Blocks lie in address order below the break.
Ordered ==
  \A h \in Headers : /\ HeapStart <= h /\ End(h) <= current_brk
                     /\ \A g \in Headers : h < g => End(h) <= g

\* What the program holds are blocks that are not free and not being freed.
Held ==
  \A p \in DOMAIN live :
    /\ p - HeaderSize \in Headers
    /\ ~header[p - HeaderSize].is_free
    /\ live[p] <= header[p - HeaderSize].size
    /\ loop = "unlink" => p - HeaderSize # arg

\* The kernel's break and area, and where the break is without any block.
Area ==
  /\ HeapStart <= mm.brk /\ PgRoundUp(mm.brk) <= mm.end
  /\ current_brk = NULL => mm.brk = HeapStart
  /\ current_brk # NULL => HeapStart <= current_brk
  /\ Headers = {} => current_brk \in {NULL, HeapStart}

Asking == loop = "get_free_block" => arg \in Sizes

IInv == /\ TypeOK /\ ListTiles /\ WalksStayInList /\ BreaksAgree /\ NoneLeaks
        /\ Ordered /\ Held /\ Area /\ Asking

\* Rounding up by PageSize.
LEMMA Rounding ==
  ASSUME NEW a \in Nat
  PROVE  /\ PgRoundUp(a) \in Nat
         /\ a <= PgRoundUp(a)
         /\ PgRoundUp(a) < a + PageSize
         /\ PgRoundUp(a) % PageSize = 0
<1>1. /\ PageSize \in Nat /\ PageSize > 0
      /\ a + PageSize - 1 \in Nat
  OBVIOUS
<1>2. \A x \in Nat, n \in Nat \ {0} : /\ x \div n \in Nat
                                     /\ x = n * (x \div n) + (x % n)
                                     /\ x % n \in 0 .. n - 1
  BY SMTT(30)
<1> DEFINE q == (a + PageSize - 1) \div PageSize
<1>3. /\ q \in Nat
      /\ a + PageSize - 1 = PageSize * q + ((a + PageSize - 1) % PageSize)
      /\ (a + PageSize - 1) % PageSize \in 0 .. PageSize - 1
  BY <1>1, <1>2
<1>4. q * PageSize \in Nat /\ q * PageSize = PageSize * q
  BY <1>1, <1>3, SMT
<1> HIDE DEF q
<1>5. (q * PageSize) % PageSize = 0
  BY <1>1, <1>3, SMTT(30)
<1>6. PgRoundUp(a) = q * PageSize
  BY DEF PgRoundUp, q
<1> QED BY <1>1, <1>3, <1>4, <1>5, <1>6

\* Two multiples of a number that are closer than it are in order.
LEMMA CloseMultiples ==
  ASSUME NEW x \in Nat, NEW y \in Nat, NEW d \in Nat \ {0},
         x % d = 0, y % d = 0, x < y + d
  PROVE  x <= y
<1>1. \A z \in Nat : z = d * (z \div d) + (z % d) /\ z \div d \in Nat
  BY SMTT(30)
<1> DEFINE p == x \div d
           q == y \div d
<1>2. p \in Nat /\ q \in Nat /\ x = d * p /\ y = d * q
  BY <1>1
<1> HIDE DEF p, q
<1>3. CASE p <= q
  <2>1. q - p \in Nat /\ d * (q - p) \in Nat /\ d * q = d * p + d * (q - p)
    BY <1>2, <1>3
  <2> QED BY <1>2, <2>1
<1>4. CASE p > q
  <2>1. p - q - 1 \in Nat /\ d * (p - q - 1) \in Nat /\ d * p = d * q + d + d * (p - q - 1)
    BY <1>2, <1>4
  <2> QED BY <1>2, <2>1
<1> QED BY <1>2, <1>3, <1>4

\* Rounding up keeps the order, and the start of the heap is a page's.
LEMMA RoundingOrder ==
  /\ \A a, b \in Nat : a <= b => PgRoundUp(a) <= PgRoundUp(b)
  /\ PgRoundUp(HeapStart) = HeapStart
<1>1. ASSUME NEW a \in Nat, NEW b \in Nat, a <= b PROVE PgRoundUp(a) <= PgRoundUp(b)
  <2>1. PgRoundUp(a) < PgRoundUp(b) + PageSize
    BY <1>1, Rounding
  <2> QED BY <2>1, Rounding, CloseMultiples
<1>2. PgRoundUp(HeapStart) <= HeapStart
  BY Rounding, CloseMultiples
<1> QED BY <1>1, <1>2, Rounding

\* sbrk moves the break by its increment and answers the old one; the kernel agrees on
\* the page and has the area that far.
LEMMA SbrkMoves ==
  ASSUME TypeOK, BreaksAgree, Area, NEW increment \in Int,
         HeapStart <= OldBrk + increment
  PROVE  /\ OldBrk \in Nat /\ HeapStart <= OldBrk
         /\ current_brk # NULL => OldBrk = current_brk
         /\ Sbrk(increment).ret = OldBrk
         /\ Sbrk(increment).current_brk = OldBrk + increment
         /\ Sbrk(increment).mm \in [brk : Nat, end : Nat]
         /\ HeapStart <= Sbrk(increment).mm.brk
         /\ PgRoundUp(Sbrk(increment).mm.brk) = PgRoundUp(OldBrk + increment)
         /\ PgRoundUp(Sbrk(increment).mm.brk) <= Sbrk(increment).mm.end
<1> DEFINE new == OldBrk + increment
           m == Sbrk(increment).mm
<1>1. mm.brk \in Nat /\ mm.end \in Nat /\ mm = [brk |-> mm.brk, end |-> mm.end]
      /\ current_brk \in Nat
  BY DEF TypeOK
<1>2. /\ OldBrk \in Nat /\ HeapStart <= OldBrk
      /\ current_brk # NULL => OldBrk = current_brk
      /\ PgRoundUp(OldBrk) = PgRoundUp(mm.brk)
  <2>1. CASE current_brk = NULL
    BY <1>1, <2>1, RoundingOrder DEF OldBrk, SysBrk, Area, NULL
  <2>2. CASE current_brk # NULL
    BY <1>1, <2>2 DEF OldBrk, Area, BreaksAgree
  <2> QED BY <2>1, <2>2
<1>3. new \in Nat /\ new # 0 /\ HeapStart <= new
  BY <1>2
<1>4. /\ PgRoundUp(new) \in Nat /\ HeapStart <= PgRoundUp(new)
      /\ PgRoundUp(mm.brk) \in Nat
  BY <1>1, <1>3, Rounding
<1>5. Sbrk(increment) = [ret |-> IF SysBrk(mm, new).ret = new THEN OldBrk ELSE -1,
                         current_brk |-> SysBrk(mm, new).ret, mm |-> SysBrk(mm, new).mm]
  BY DEF Sbrk
<1> HIDE DEF new
<1>6. SysBrk(mm, new).ret = new /\ SysBrk(mm, new).mm \in [brk : Nat, end : Nat]
      /\ HeapStart <= SysBrk(mm, new).mm.brk
      /\ PgRoundUp(SysBrk(mm, new).mm.brk) = PgRoundUp(new)
      /\ PgRoundUp(SysBrk(mm, new).mm.brk) <= SysBrk(mm, new).mm.end
  <2>1. CASE PgRoundUp(new) = PgRoundUp(mm.brk)
    <3>1. SysBrk(mm, new) = [ret |-> new, mm |-> mm]
      BY <1>3, <1>4, <2>1 DEF SysBrk
    <3> QED BY <1>1, <2>1, <3>1 DEF Area
  <2>2. CASE PgRoundUp(new) # PgRoundUp(mm.brk)
    <3>1. SysBrk(mm, new) =
            [ret |-> new,
             mm |-> [brk |-> new, end |-> IF PgRoundUp(new) < PgRoundUp(mm.brk)
                                          THEN PgRoundUp(mm.brk) ELSE PgRoundUp(new)]]
      BY <1>3, <1>4, <2>2 DEF SysBrk
    <3> QED BY <1>3, <1>4, <3>1
  <2> QED BY <2>1, <2>2
<1> QED BY <1>2, <1>5, <1>6 DEF new

-----------------------------------------------------------------------------
(* The invariant, one lemma for each action                                *)

\* The invariant holds of the empty heap.
LEMMA InitInv == Init => IInv
<1> SUFFICES ASSUME Init PROVE IInv
  OBVIOUS
<1>1. Headers = {} /\ DOMAIN live = {}
  BY DEF Init, Headers
<1>2. TypeOK
  BY <1>1 DEF Init, TypeOK, NULL, Headers
<1>3. Area
  BY <1>1, RoundingOrder DEF Init, Area, NULL
<1> QED BY <1>1, <1>2, <1>3 DEF Init, IInv, ListTiles, WalksStayInList, BreaksAgree, NoneLeaks,
                               Ordered, Held, Asking

\* While there is a block the break is set, and sbrk(0) changes nothing and answers it.
LEMMA SbrkZero ==
  ASSUME IInv, Headers # {}
  PROVE  /\ OldBrk = current_brk /\ current_brk \in Nat /\ Sbrk(0).ret = current_brk
         /\ SbrkSets(0) => UNCHANGED <<current_brk, mm>>
<1>1. current_brk \in Nat /\ mm.brk \in Nat /\ tail \in Headers /\ End(tail) = current_brk
      /\ HeapStart <= current_brk
  BY SMTT(20) DEF IInv, TypeOK, ListTiles, Ordered, End, Headers
<1>2. current_brk # NULL /\ OldBrk = current_brk
  BY <1>1 DEF OldBrk, NULL
<1>3. PgRoundUp(current_brk) = PgRoundUp(mm.brk) /\ HeapStart <= PgRoundUp(current_brk)
      /\ PgRoundUp(current_brk) \in Nat
  BY <1>1, <1>2, Rounding DEF IInv, BreaksAgree
<1>4. current_brk + 0 = current_brk
  BY <1>1
<1>5. SysBrk(mm, current_brk) = [ret |-> current_brk, mm |-> mm]
  BY <1>1, <1>2, <1>3 DEF SysBrk, NULL
<1>6. Sbrk(0) = [ret |-> current_brk, current_brk |-> current_brk, mm |-> mm]
  BY <1>2, <1>4, <1>5 DEF Sbrk
<1> QED BY <1>1, <1>2, <1>6 DEF SbrkSets

\* malloc only sets out on its search.
LEMMA MallocInv ==
  ASSUME IInv, NEW n \in Sizes, Malloc(n) PROVE IInv'
<1>1. head \in Headers \cup {NULL}
  BY DEF IInv, ListTiles, Headers, TypeOK
<1> QED BY <1>1 DEF IInv, Malloc, TypeOK, ListTiles, WalksStayInList, BreaksAgree, NoneLeaks, Ordered,
                    Held, Area, Asking, End, Headers, Pointer

\* The header that follows one in the list.
LEMMA NextHeader ==
  ASSUME IInv, NEW h \in Headers
  PROVE  /\ header[h].next \in Nat
         /\ h # tail => header[h].next = End(h) /\ End(h) \in Headers
         /\ h = tail => header[h].next = NULL
BY DEF IInv, TypeOK, ListTiles, Headers

\* The search of malloc stays in the list.
LEMMA GetFreeBlockNextInv ==
  ASSUME IInv, GetFreeBlockNext PROVE IInv'
<1>1. current \in Headers
  BY DEF IInv, WalksStayInList, GetFreeBlockNext
<1>2. current' \in Headers \cup {NULL} /\ current' \in Nat
  BY <1>1, NextHeader DEF GetFreeBlockNext
<1> QED BY <1>2 DEF IInv, GetFreeBlockNext, TypeOK, ListTiles, WalksStayInList, BreaksAgree, NoneLeaks,
                    Ordered, Held, Area, Asking, End, Headers, Pointer

\* malloc hands out a free block.
LEMMA ReuseInv ==
  ASSUME IInv, Reuse PROVE IInv'
<1>1. /\ current \in Headers /\ arg \in Sizes /\ arg \in Nat \ {0}
      /\ header[current].is_free /\ header[current].size >= arg
      /\ loop' = "none" /\ current' = NULL /\ arg' = 0
  BY DEF IInv, WalksStayInList, Asking, Reuse, Suits, Return
<1>2. UNCHANGED <<head, tail, current_brk, mm>>
  BY DEF Reuse
<1>3. header' = [header EXCEPT ![current].is_free = FALSE]
  BY DEF Reuse
<1>4. /\ Headers' = Headers
      /\ \A h \in Headers : /\ header'[h].size = header[h].size /\ header'[h].next = header[h].next
                            /\ header'[h].is_free = IF h = current THEN FALSE ELSE header[h].is_free
                            /\ End(h)' = End(h)
      /\ header' \in [Headers -> [size : Nat \ {0}, is_free : BOOLEAN, next : Nat]]
  BY <1>1, <1>3 DEF IInv, TypeOK, Headers, End
<1>5. /\ DOMAIN live' = DOMAIN live \cup {Pointer(current)}
      /\ \A p \in DOMAIN live' : live'[p] = IF p = Pointer(current) THEN arg ELSE live[p]
  BY DEF Reuse, With
<1>6. Pointer(current) \in Nat /\ Pointer(current) - HeaderSize = current
  BY <1>1 DEF Pointer, IInv, TypeOK
<1>7. TypeOK'
  BY <1>1, <1>2, <1>4, <1>5, <1>6 DEF IInv, TypeOK, NULL, Reuse, With
<1>8. ListTiles' /\ Ordered'
  BY <1>2, <1>4, ZenonT(20) DEF IInv, ListTiles, Ordered
<1>9. Held'
  BY <1>1, <1>4, <1>5, <1>6, ZenonT(20) DEF IInv, Held
<1>10. NoneLeaks'
  <2>1. \A h \in Headers : Pointer(h)' = Pointer(h)
    BY DEF Pointer
  <2>2. loop # "unlink"
    BY DEF Reuse
  <2> QED BY <1>4, <1>5, <2>1, <2>2 DEF IInv, NoneLeaks
<1> QED BY <1>1, <1>2, <1>4, <1>7, <1>8, <1>9, <1>10
        DEF IInv, WalksStayInList, BreaksAgree, Area, Asking, PgRoundUp

\* What a step of a loop of free and the kernel leaves: the break moved to the end or
\* the start of a block.
LEMMA AreaStep ==
  ASSUME IInv, NEW increment \in Int, SbrkSets(increment), HeapStart <= OldBrk + increment
  PROVE  /\ current_brk' = OldBrk + increment /\ current_brk' \in Nat /\ current_brk' # NULL
         /\ mm' \in [brk : Nat, end : Nat]
         /\ HeapStart <= mm'.brk
         /\ PgRoundUp(current_brk') = PgRoundUp(mm'.brk)
         /\ PgRoundUp(mm'.brk) <= mm'.end
<1>1. TypeOK /\ BreaksAgree /\ Area
  BY DEF IInv
<1>2. OldBrk \in Nat
  BY <1>1, SbrkMoves
<1> QED BY <1>1, <1>2, SbrkMoves DEF SbrkSets, NULL

\* malloc asks sbrk for a new block.
LEMMA ExtendInv ==
  ASSUME IInv, Extend PROVE IInv'
<1>1. /\ arg \in Sizes /\ arg \in Nat \ {0} /\ loop = "get_free_block"
      /\ loop' = "none" /\ current' = NULL /\ arg' = 0
  BY DEF IInv, Asking, Extend, Return
<1>2. HeaderSize + arg \in Int /\ TypeOK /\ BreaksAgree /\ Area
  BY <1>1 DEF IInv
<1>3. /\ OldBrk \in Nat /\ HeapStart <= OldBrk
      /\ current_brk # NULL => OldBrk = current_brk
      /\ current_brk = NULL => OldBrk = HeapStart
  <2>1. current_brk = NULL => OldBrk = HeapStart
    BY <1>2, RoundingOrder DEF OldBrk, SysBrk, Area, NULL
  <2>2. current_brk # NULL => OldBrk = current_brk
    BY DEF OldBrk
  <2> QED BY <1>2, <2>1, <2>2 DEF Area, TypeOK
<1> PICK new \in Nat : new = OldBrk
  BY <1>3
<1>4. HeapStart <= OldBrk + (HeaderSize + arg)
  BY <1>1, <1>3
<1>5. Sbrk(HeaderSize + arg).ret = new /\ new # -1 /\ SbrkSets(HeaderSize + arg)
  BY <1>2, <1>3, <1>4, SbrkMoves DEF Extend
<1>6. /\ header' = Linked(new)
      /\ head' = IF head = NULL THEN new ELSE head
      /\ tail' = new
      /\ live' = With(live, Pointer(new), arg)
  BY <1>5 DEF Extend
<1>7. /\ current_brk' = new + (HeaderSize + arg) /\ current_brk' \in Nat /\ current_brk' # NULL
      /\ mm' \in [brk : Nat, end : Nat] /\ HeapStart <= mm'.brk
      /\ PgRoundUp(current_brk') = PgRoundUp(mm'.brk)
      /\ PgRoundUp(mm'.brk) <= mm'.end
  BY <1>2, <1>4, <1>5, AreaStep
<1>8. /\ \A h \in Headers : End(h) \in Nat /\ End(h) <= new /\ h < new
      /\ Headers # {} => new = current_brk /\ new = End(tail)
      /\ Headers = {} => new = HeapStart
  <2>1. \A h \in Headers : End(h) = h + HeaderSize + header[h].size /\ h \in Nat
                           /\ header[h].size \in Nat \ {0}
    BY DEF End, IInv, TypeOK, Headers
  <2>2. Headers # {} => current_brk # NULL /\ End(tail) = current_brk
    BY <2>1 DEF IInv, ListTiles, NULL
  <2> QED BY <1>3, <2>1, <2>2 DEF IInv, Ordered, Area
<1>9. (Headers = {}) <=> (head = NULL)
  BY DEF IInv, ListTiles, NULL
<1>10. /\ Headers' = Headers \cup {new}
       /\ header'[new] = [size |-> arg, is_free |-> FALSE, next |-> NULL]
       /\ \A h \in Headers :
            /\ header'[h].size = header[h].size /\ header'[h].is_free = header[h].is_free
            /\ header'[h].next = IF h = tail THEN new ELSE header[h].next
            /\ End(h)' = End(h)
       /\ header' \in [Headers' -> [size : Nat \ {0}, is_free : BOOLEAN, next : Nat]]
  <2>1. new \notin Headers
    BY <1>3, <1>8
  <2>2. CASE head = NULL
    <3>1. header' = With(header, new, NewHeader) /\ Headers = {}
      BY <1>6, <1>9, <2>2 DEF Linked
    <3> QED BY <1>1, <3>1 DEF With, NewHeader, Headers, NULL
  <2>3. CASE head # NULL
    <3>1. header' = With([header EXCEPT ![tail].next = new], new, NewHeader)
          /\ tail \in Headers
      BY <1>6, <1>9, <2>3 DEF Linked, IInv, ListTiles
    <3>2. DOMAIN header' = Headers \cup {new} /\ header'[new] = NewHeader
      BY <3>1 DEF With, Headers
    <3>3. \A h \in Headers : header'[h] = [header EXCEPT ![tail].next = new][h]
      BY <2>1, <3>1 DEF With, Headers
    <3>4. \A h \in Headers : header[h] \in [size : Nat \ {0}, is_free : BOOLEAN, next : Nat]
      BY DEF IInv, TypeOK
    <3>5. \A h \in Headers : header'[h] \in [size : Nat \ {0}, is_free : BOOLEAN, next : Nat]
             /\ header'[h].size = header[h].size /\ header'[h].is_free = header[h].is_free
             /\ header'[h].next = IF h = tail THEN new ELSE header[h].next
      <4> TAKE h \in Headers
      <4>1. header'[h] = IF h = tail THEN [header[h] EXCEPT !.next = new] ELSE header[h]
        BY <3>1, <3>3 DEF Headers
      <4>2. header[h] \in [size : Nat \ {0}, is_free : BOOLEAN, next : Nat]
        BY <3>4
      <4> QED BY <4>1, <4>2
    <3>6. header'[new] \in [size : Nat \ {0}, is_free : BOOLEAN, next : Nat]
      BY <1>1, <3>2 DEF NewHeader, NULL
    <3>7. header' = [h \in Headers \cup {new} |-> header'[h]]
      BY <3>1, <3>2 DEF With, Headers
    <3> QED BY <3>2, <3>5, <3>6, <3>7 DEF NewHeader, Headers, End
  <2> QED BY <2>2, <2>3
<1>11. End(new)' = new + HeaderSize + arg
  BY <1>10 DEF End
<1>12. /\ DOMAIN live' = DOMAIN live \cup {Pointer(new)}
       /\ \A p \in DOMAIN live' : live'[p] = IF p = Pointer(new) THEN arg ELSE live[p]
       /\ Pointer(new) \in Nat /\ Pointer(new) - HeaderSize = new
  BY <1>3, <1>6 DEF With, Pointer
<1>13. TypeOK'
  <2>1. live' \in [DOMAIN live' -> Nat \ {0}] /\ DOMAIN live' \subseteq Nat
    BY <1>1, <1>6, <1>12 DEF IInv, TypeOK, With
  <2>2. Headers' \subseteq Nat /\ head' \in Nat /\ tail' \in Nat
    BY <1>3, <1>6, <1>10 DEF IInv, TypeOK
  <2> QED BY <1>1, <1>7, <1>10, <2>1, <2>2 DEF TypeOK, NULL
<1>14. Ordered'
  <2>1. \A h \in Headers' : HeapStart <= h /\ End(h)' <= current_brk'
    BY <1>1, <1>3, <1>7, <1>8, <1>10, <1>11 DEF IInv, Ordered
  <2>2. \A h, g \in Headers' : h < g => End(h)' <= g
    BY <1>3, <1>8, <1>10, <1>11 DEF IInv, Ordered, TypeOK
  <2> QED BY <2>1, <2>2 DEF Ordered
<1>15. ListTiles'
  <2>1. head' = HeapStart /\ {head', tail'} \subseteq Headers' /\ End(tail)' = current_brk'
    <3>1. End(tail)' = new + HeaderSize + arg
      BY <1>6, <1>11 DEF End
    <3> QED BY <1>1, <1>3, <1>6, <1>7, <1>8, <1>9, <1>10, <3>1 DEF IInv, ListTiles
  <2>2. ASSUME NEW h \in Headers'
        PROVE  IF h = tail' THEN header'[h].next = NULL
                            ELSE header'[h].next = End(h)' /\ End(h)' \in Headers'
    <3>1. CASE h = new
      BY <1>6, <1>10, <3>1
    <3>2. CASE h # new /\ h = tail
      BY <1>6, <1>8, <1>10, <3>2
    <3>3. CASE h # new /\ h # tail
      BY <1>6, <1>10, <3>3 DEF IInv, ListTiles
    <3> QED BY <3>1, <3>2, <3>3
  <2> QED BY <2>1, <2>2 DEF ListTiles
<1>16. Held'
  <2>1. new \notin Headers
    BY <1>3, <1>8
  <2> QED BY <1>1, <1>10, <1>12, <2>1 DEF IInv, Held
<1>17. NoneLeaks'
  <2>1. \A h \in Headers' : Pointer(h)' = Pointer(h)
    BY DEF Pointer
  <2> QED BY <1>1, <1>10, <1>12, <2>1 DEF IInv, NoneLeaks
<1>18. Headers' # {}
  BY <1>10
<1>19. WalksStayInList' /\ Asking'
  BY <1>1 DEF WalksStayInList, Asking
<1>20. BreaksAgree'
  BY <1>7 DEF BreaksAgree
<1>21. Area'
  BY <1>3, <1>7, <1>1, <1>18 DEF Area
<1> QED BY <1>13, <1>14, <1>15, <1>16, <1>17, <1>19, <1>20, <1>21 DEF IInv

\* The block of a pointer that the program holds.
LEMMA HeldBlock ==
  ASSUME IInv, NEW p \in DOMAIN live
  PROVE  /\ p \in Nat /\ p - HeaderSize \in Headers /\ p - HeaderSize \in Nat
         /\ Headers # {} /\ Pointer(p - HeaderSize) = p
         /\ ~header[p - HeaderSize].is_free
BY DEF IInv, TypeOK, Held, Pointer, Headers

\* free of a block that is not the last only marks it free.
LEMMA FreeInnerInv ==
  ASSUME IInv, NEW p \in DOMAIN live, FreeInner(p) PROVE IInv'
<1> PICK h \in Headers : h = p - HeaderSize
  BY HeldBlock
<1>1. /\ loop = "none" /\ UNCHANGED <<head, tail, loop, current, arg>>
      /\ header' = [header EXCEPT ![h].is_free = TRUE]
      /\ live' = Without(live, p)
      /\ Pointer(h) = p
  BY HeldBlock DEF FreeInner
<1>2. UNCHANGED <<current_brk, mm>>
  BY SbrkZero DEF FreeInner
<1>3. /\ Headers' = Headers
      /\ \A g \in Headers : /\ header'[g].size = header[g].size /\ header'[g].next = header[g].next
                            /\ header'[g].is_free = IF g = h THEN TRUE ELSE header[g].is_free
                            /\ End(g)' = End(g)
      /\ header' \in [Headers -> [size : Nat \ {0}, is_free : BOOLEAN, next : Nat]]
  BY <1>1, ZenonT(20) DEF IInv, TypeOK, Headers, End
<1>4. DOMAIN live' = DOMAIN live \ {p} /\ \A q \in DOMAIN live' : live'[q] = live[q]
  BY <1>1 DEF Without
<1>5. TypeOK'
  <2>1. live' \in [DOMAIN live' -> Nat \ {0}] /\ DOMAIN live' \subseteq Nat
    BY <1>1, <1>4 DEF IInv, TypeOK, Without
  <2> QED BY <1>1, <1>2, <1>3, <2>1 DEF IInv, TypeOK
<1>6. ListTiles' /\ Ordered'
  BY <1>1, <1>2, <1>3 DEF IInv, ListTiles, Ordered
<1>7. Held'
  <2>1. \A q \in DOMAIN live' : q \in Nat /\ q # p /\ q - HeaderSize # h
    BY <1>1, <1>4 DEF IInv, TypeOK, Pointer
  <2> QED BY <1>1, <1>3, <1>4, <2>1 DEF IInv, Held
<1>8. NoneLeaks'
  <2>1. \A g \in Headers : Pointer(g)' = Pointer(g) /\ (g # h => Pointer(g) # p)
    BY <1>1 DEF Pointer, IInv, TypeOK
  <2> QED BY <1>1, <1>3, <1>4, <2>1 DEF IInv, NoneLeaks
<1> QED BY <1>1, <1>2, <1>3, <1>5, <1>6, <1>7, <1>8
        DEF IInv, WalksStayInList, BreaksAgree, Area, Asking, PgRoundUp

\* The header of the last block, and the one in front of it.
LEMMA LastBlock ==
  ASSUME IInv, NEW h \in Headers, End(h) = current_brk
  PROVE  h = tail
<1>1. /\ tail \in Headers /\ End(tail) = current_brk
  BY DEF IInv, ListTiles
<1>2. h \in Nat /\ tail \in Nat /\ header[h].size \in Nat /\ header[tail].size \in Nat
  BY <1>1 DEF IInv, TypeOK, Headers
<1> QED BY <1>1, <1>2 DEF IInv, Ordered, End

\* The break after the last block is given back is where that block started.
LEMMA GivenBack ==
  ASSUME IInv, Headers # {}
  PROVE  /\ header[tail].size + HeaderSize \in Nat /\ -(header[tail].size + HeaderSize) \in Int
         /\ OldBrk + (-(header[tail].size + HeaderSize)) = tail
         /\ tail \in Nat /\ HeapStart <= tail /\ tail # NULL
<1>1. tail \in Headers /\ End(tail) = current_brk
  BY DEF IInv, ListTiles
<1>2. tail \in Nat /\ header[tail].size \in Nat /\ HeapStart <= tail
  BY <1>1 DEF IInv, TypeOK, Headers, Ordered
<1>3. OldBrk = current_brk /\ current_brk = tail + HeaderSize + header[tail].size
  BY <1>1, SbrkZero DEF End
<1> QED BY <1>2, <1>3 DEF NULL

\* free of the only block empties the list.
LEMMA FreeOnlyInv ==
  ASSUME IInv, NEW p \in DOMAIN live, FreeOnly(p) PROVE IInv'
<1> PICK h \in Headers : h = p - HeaderSize
  BY HeldBlock
<1>1. /\ loop = "none" /\ loop' = "none" /\ UNCHANGED <<current, arg>>
      /\ head = tail /\ head' = NULL /\ tail' = NULL
      /\ SbrkSets(-(header[h].size + HeaderSize))
      /\ header' = Without(header, h) /\ live' = Without(live, p)
      /\ End(h) = current_brk
  BY SbrkZero, HeldBlock DEF FreeOnly, IsLast
<1>2. h = tail /\ h = head /\ h = HeapStart
  BY <1>1, LastBlock DEF IInv, ListTiles
<1>3. Headers = {h}
  <2>1. ASSUME NEW g \in Headers PROVE g = h
    <3>1. g \in Nat /\ h \in Nat /\ header[g].size \in Nat /\ header[h].size \in Nat
      BY DEF IInv, TypeOK, Headers
    <3>2. h <= g /\ End(g) <= End(h) /\ (h < g => End(h) <= g)
      BY <1>1, <1>2 DEF IInv, Ordered
    <3> QED BY <3>1, <3>2 DEF End
  <2> QED BY <2>1
<1>4. /\ current_brk' = HeapStart /\ current_brk' # NULL
      /\ mm' \in [brk : Nat, end : Nat] /\ HeapStart <= mm'.brk
      /\ PgRoundUp(current_brk') = PgRoundUp(mm'.brk)
      /\ PgRoundUp(mm'.brk) <= mm'.end
  BY <1>1, <1>2, GivenBack, AreaStep
<1>5. Headers' = {} /\ DOMAIN live' = {}
  <2>1. \A q \in DOMAIN live : q = p
    BY <1>3, HeldBlock
  <2> QED BY <1>1, <1>3, <2>1 DEF Headers, Without
<1>6. TypeOK'
  <2>1. header' = [g \in {} |-> header[g]] /\ live' = [q \in {} |-> live[q]]
    BY <1>1, <1>5 DEF Without, Headers
  <2>2. /\ header' \in [Headers' -> [size : Nat \ {0}, is_free : BOOLEAN, next : Nat]]
        /\ live' \in [DOMAIN live' -> Nat \ {0}]
    BY <1>5, <2>1
  <2> QED BY <1>1, <1>4, <1>5, <2>2 DEF IInv, TypeOK, NULL
<1>7. Area' /\ BreaksAgree'
  <2>1. HeapStart <= current_brk'
    BY <1>4
  <2>2. Area'
    BY <1>4, <2>1 DEF Area
  <2>3. BreaksAgree'
    BY <1>4 DEF BreaksAgree
  <2> QED BY <2>2, <2>3
<1> QED BY <1>1, <1>5, <1>6, <1>7
        DEF IInv, ListTiles, WalksStayInList, NoneLeaks, Ordered, Held, Asking

\* With more than one block, the head lies in front of the tail.
LEMMA FreeLastInv ==
  ASSUME IInv, NEW p \in DOMAIN live, FreeLast(p) PROVE IInv'
<1> PICK h \in Headers : h = p - HeaderSize
  BY HeldBlock
<1>1. /\ loop = "none" /\ loop' = "unlink" /\ current' = head /\ arg' = h
      /\ head # tail /\ UNCHANGED <<header, head, tail>>
      /\ live' = Without(live, p) /\ End(h) = current_brk /\ Pointer(h) = p
  BY SbrkZero, HeldBlock DEF FreeLast, IsLast
<1>2. UNCHANGED <<current_brk, mm>>
  BY SbrkZero DEF FreeLast
<1>3. h = tail /\ head \in Headers /\ head \in Nat /\ tail \in Nat /\ head < tail
  BY <1>1, LastBlock DEF IInv, ListTiles, TypeOK, Ordered
<1>4. DOMAIN live' = DOMAIN live \ {p} /\ \A q \in DOMAIN live' : live'[q] = live[q]
  BY <1>1 DEF Without
<1>5. TypeOK'
  <2>1. live' \in [DOMAIN live' -> Nat \ {0}] /\ DOMAIN live' \subseteq Nat
    BY <1>1, <1>4 DEF IInv, TypeOK, Without
  <2> QED BY <1>1, <1>2, <1>3, <2>1 DEF IInv, TypeOK, Headers
<1>6. ListTiles' /\ Ordered' /\ WalksStayInList' /\ Asking'
  BY <1>1, <1>2, <1>3 DEF IInv, ListTiles, Ordered, WalksStayInList, Asking, End, Headers
<1>7. Held'
  <2>1. \A q \in DOMAIN live' : q \in Nat /\ q # p /\ q - HeaderSize # h
    BY <1>1, <1>4 DEF IInv, TypeOK, Pointer
  <2> QED BY <1>1, <1>4, <2>1 DEF IInv, Held, Headers
<1>8. NoneLeaks'
  BY <1>1, <1>4 DEF IInv, NoneLeaks, Pointer, Headers, TypeOK
<1> QED BY <1>1, <1>2, <1>5, <1>6, <1>7, <1>8 DEF IInv, BreaksAgree, Area, Headers, PgRoundUp

\* The search of free stays in the list.
LEMMA UnlinkNextInv ==
  ASSUME IInv, UnlinkNext PROVE IInv'
<1>1. /\ loop = "unlink" /\ current \in Headers /\ current < tail /\ tail = arg
      /\ header[current].next # tail /\ current' = header[current].next
      /\ UNCHANGED <<header, head, tail, current_brk, mm, loop, arg, live>>
  BY DEF IInv, WalksStayInList, UnlinkNext
<1>2. tail \in Headers /\ current \in Nat /\ tail \in Nat
  BY <1>1 DEF IInv, TypeOK, ListTiles
<1>3. current' = End(current) /\ End(current) \in Headers /\ End(current) <= tail
  BY <1>1, <1>2, NextHeader DEF IInv, Ordered
<1>4. current' \in Headers /\ current' \in Nat /\ current' < tail
  BY <1>1, <1>2, <1>3 DEF IInv, TypeOK
<1> QED BY <1>1, <1>4 DEF IInv, TypeOK, ListTiles, WalksStayInList, BreaksAgree, NoneLeaks, Ordered,
                          Held, Area, Asking, End, Headers, Pointer, PgRoundUp

\* free unlinks the last block and gives it back to the kernel.
LEMMA UnlinkInv ==
  ASSUME IInv, Unlink PROVE IInv'
<1>1. /\ loop = "unlink" /\ loop' = "none" /\ current' = NULL /\ arg' = 0
      /\ arg = tail /\ head' = head /\ live' = live
      /\ SbrkSets(-(header[tail].size + HeaderSize))
  BY DEF IInv, WalksStayInList, Unlink, Return
<1> PICK g \in Headers : g = current
  BY DEF IInv, WalksStayInList, Unlink
<1> PICK t \in Headers : t = tail
  BY DEF IInv, WalksStayInList, Unlink, ListTiles
<1>2. g < t /\ header[g].next = t /\ tail' = g /\ g \in Nat /\ t \in Nat
      /\ header' = Without([header EXCEPT ![g].next = NULL], t)
  BY <1>1 DEF IInv, WalksStayInList, Unlink, TypeOK
<1>3. /\ current_brk' = t /\ current_brk' \in Nat /\ current_brk' # NULL /\ HeapStart <= t
      /\ mm' \in [brk : Nat, end : Nat] /\ HeapStart <= mm'.brk
      /\ PgRoundUp(current_brk') = PgRoundUp(mm'.brk)
      /\ PgRoundUp(mm'.brk) <= mm'.end
  BY <1>1, GivenBack, AreaStep
<1>4. g # t /\ t = End(g) /\ \A h \in Headers : h \in Nat /\ header[h].size \in Nat
  BY <1>2, NextHeader DEF IInv, TypeOK, Headers
<1>5. /\ Headers' = Headers \ {t}
      /\ header' \in [Headers' -> [size : Nat \ {0}, is_free : BOOLEAN, next : Nat]]
      /\ \A h \in Headers' :
           /\ header'[h].size = header[h].size /\ header'[h].is_free = header[h].is_free
           /\ header'[h].next = IF h = g THEN NULL ELSE header[h].next
           /\ End(h)' = End(h)
  <2>1. Headers' = Headers \ {t}
        /\ header' = [h \in Headers \ {t} |-> [header EXCEPT ![g].next = NULL][h]]
    BY <1>2 DEF Without, Headers
  <2>2. ASSUME NEW h \in Headers \ {t}
        PROVE  /\ header'[h] \in [size : Nat \ {0}, is_free : BOOLEAN, next : Nat]
               /\ header'[h].size = header[h].size /\ header'[h].is_free = header[h].is_free
               /\ header'[h].next = IF h = g THEN NULL ELSE header[h].next
    <3>1. header'[h] = IF h = g THEN [header[h] EXCEPT !.next = NULL] ELSE header[h]
      BY <2>1 DEF Headers
    <3>2. header[h] \in [size : Nat \ {0}, is_free : BOOLEAN, next : Nat]
      BY DEF IInv, TypeOK
    <3> QED BY <3>1, <3>2 DEF NULL
  <2> QED BY <2>1, <2>2 DEF End
<1>6. \A h \in Headers' : End(h) <= t
  <2> SUFFICES ASSUME NEW h \in Headers' PROVE End(h) <= t
    OBVIOUS
  <2>1. h \in Headers /\ h # t /\ (h < t => End(h) <= t) /\ (t < h => End(t) <= h)
        /\ End(h) <= current_brk /\ End(t) = current_brk
    BY <1>5 DEF IInv, Ordered, ListTiles
  <2> QED BY <1>4, <2>1 DEF End
<1>7. TypeOK'
  BY <1>1, <1>2, <1>3, <1>5 DEF IInv, TypeOK, NULL
<1>8. Ordered'
  BY <1>3, <1>5, <1>6 DEF IInv, Ordered
<1>9. ListTiles'
  <2>1. head \in Headers /\ head = HeapStart /\ head # t
    BY <1>2 DEF IInv, ListTiles, Ordered
  <2>2. End(g)' = End(g) /\ g \in Headers'
    BY <1>4, <1>5
  <2>3. {head', tail'} \subseteq Headers' /\ End(tail)' = current_brk' /\ head' = HeapStart
    <3>1. End(tail)' = End(g)'
      BY <1>2 DEF End
    <3> QED BY <1>1, <1>2, <1>3, <1>4, <1>5, <2>1, <2>2, <3>1
  <2>4. ASSUME NEW h \in Headers'
        PROVE  IF h = tail' THEN header'[h].next = NULL
                            ELSE header'[h].next = End(h)' /\ End(h)' \in Headers'
    <3>1. CASE h = g
      BY <1>2, <1>5, <3>1
    <3>2. CASE h # g
      <4>1. h \in Headers /\ h # t /\ header[h].next = End(h) /\ End(h) \in Headers
        BY <1>5, NextHeader
      <4>2. End(h) # t
        <5>1. SUFFICES ASSUME End(h) = t PROVE FALSE
          OBVIOUS
        <5>2. (h < g => End(h) <= g) /\ (g < h => End(g) <= h)
          BY <4>1 DEF IInv, Ordered
        <5> QED BY <1>2, <1>4, <3>2, <4>1, <5>1, <5>2 DEF End
      <4> QED BY <1>2, <1>5, <3>2, <4>1, <4>2
    <3> QED BY <3>1, <3>2
  <2> QED BY <2>3, <2>4 DEF ListTiles
<1>10. Held' /\ NoneLeaks'
  <2>1. \A h \in Headers' : Pointer(h)' = Pointer(h)
    BY DEF Pointer
  <2>2. Held'
    BY <1>1, <1>5 DEF IInv, Held
  <2>3. NoneLeaks'
    BY <1>1, <1>5, <2>1 DEF IInv, NoneLeaks
  <2> QED BY <2>2, <2>3
<1>11. Area' /\ BreaksAgree'
  <2>1. Headers' # {}
    BY <1>2, <1>4, <1>5
  <2>2. Area'
    BY <1>3, <2>1 DEF Area
  <2>3. BreaksAgree'
    BY <1>3 DEF BreaksAgree
  <2> QED BY <2>2, <2>3
<1> QED BY <1>1, <1>7, <1>8, <1>9, <1>10, <1>11 DEF IInv, WalksStayInList, Asking

\* Every step keeps the invariant.
LEMMA NextInv == IInv /\ [Next]_vars => IInv'
<1> SUFFICES ASSUME IInv, [Next]_vars PROVE IInv'
  OBVIOUS
<1>1. CASE UNCHANGED vars
  BY <1>1 DEF vars, IInv, TypeOK, ListTiles, WalksStayInList, BreaksAgree, NoneLeaks, Ordered,
              Held, Area, Asking, End, Headers, Pointer, PgRoundUp
<1>2. CASE Next
  BY <1>2, MallocInv, GetFreeBlockNextInv, ReuseInv, ExtendInv, FreeInnerInv, FreeOnlyInv,
     FreeLastInv, UnlinkNextInv, UnlinkInv DEF Next
<1> QED BY <1>1, <1>2

\* The invariant of malloc holds throughout.
LEMMA Invariant == Spec => []IInv
BY InitInv, NextInv, PTL DEF Spec

\* Whatever the order of the calls, the list of malloc tiles the heap up to the break, its
\* loops never leave it, sbrk and sys_brk agree on the page of the break, and every block
\* is held, free, or on its way back to the kernel.
THEOREM HeapStaysWhole == Spec => []HeapWhole
BY Invariant, PTL DEF IInv, HeapWhole

-----------------------------------------------------------------------------
(* The promise of malloc                                                   *)

\* Where the blocks of two pointers lie.
LEMMA HeldApart ==
  ASSUME IInv, NEW p \in DOMAIN live
  PROVE  /\ p \in Nat /\ live[p] \in Nat /\ HeapStart <= p
         /\ p - HeaderSize \in Nat /\ End(p - HeaderSize) \in Nat
         /\ p + live[p] <= End(p - HeaderSize) /\ End(p - HeaderSize) <= current_brk
<1>1. /\ p - HeaderSize \in Headers /\ live[p] <= header[p - HeaderSize].size
      /\ p \in Nat /\ live[p] \in Nat
  BY DEF IInv, Held, TypeOK
<1>2. /\ p - HeaderSize \in Nat /\ header[p - HeaderSize].size \in Nat
      /\ HeapStart <= p - HeaderSize /\ End(p - HeaderSize) <= current_brk
  BY <1>1 DEF IInv, TypeOK, Ordered, Headers
<1> QED BY <1>1, <1>2 DEF End

\* Blocks of a list that tiles the heap lie apart, in pages the kernel has given.
LEMMA ApartInv == IInv => BlocksApart
<1> SUFFICES ASSUME IInv, NEW p \in DOMAIN live
             PROVE  /\ HeapStart <= p /\ p + live[p] <= PgRoundUp(mm.brk) /\ p + live[p] <= mm.end
                    /\ \A q \in DOMAIN live \ {p} : p + live[p] <= q \/ q + live[q] <= p
                    /\ \A h \in Headers : p + live[p] <= h \/ h + HeaderSize <= p
  BY DEF BlocksApart
<1>1. /\ p \in Nat /\ live[p] \in Nat /\ HeapStart <= p /\ p + live[p] <= current_brk
      /\ current_brk \in Nat
  BY HeldApart DEF IInv, TypeOK
<1>2. p + live[p] <= PgRoundUp(mm.brk) /\ PgRoundUp(mm.brk) <= mm.end
      /\ PgRoundUp(mm.brk) \in Nat /\ mm.end \in Nat
  <2>1. current_brk # NULL
    BY <1>1 DEF NULL
  <2>2. current_brk <= PgRoundUp(mm.brk) /\ PgRoundUp(mm.brk) \in Nat /\ mm.end \in Nat
    BY <1>1, <2>1, Rounding DEF IInv, BreaksAgree, TypeOK
  <2> QED BY <1>1, <2>2 DEF IInv, Area
<1>3. ASSUME NEW q \in DOMAIN live \ {p} PROVE p + live[p] <= q \/ q + live[q] <= p
  <2>1. /\ p - HeaderSize \in Headers /\ q - HeaderSize \in Headers
        /\ q \in Nat /\ live[q] \in Nat /\ p - HeaderSize # q - HeaderSize
        /\ p - HeaderSize \in Nat /\ q - HeaderSize \in Nat
        /\ p + live[p] <= End(p - HeaderSize) /\ End(p - HeaderSize) \in Nat
        /\ q + live[q] <= End(q - HeaderSize) /\ End(q - HeaderSize) \in Nat
    BY <1>1, HeldApart DEF IInv, Held
  <2>2. \/ p - HeaderSize < q - HeaderSize /\ End(p - HeaderSize) <= q - HeaderSize
        \/ q - HeaderSize < p - HeaderSize /\ End(q - HeaderSize) <= p - HeaderSize
    BY <2>1 DEF IInv, Ordered
  <2> QED BY <1>1, <2>1, <2>2
<1>4. ASSUME NEW h \in Headers PROVE p + live[p] <= h \/ h + HeaderSize <= p
  <2>1. /\ p - HeaderSize \in Headers /\ p - HeaderSize \in Nat /\ h \in Nat
        /\ header[h].size \in Nat /\ End(p - HeaderSize) \in Nat
        /\ p + live[p] <= End(p - HeaderSize)
    BY HeldApart DEF IInv, Held, TypeOK
  <2>2. \/ h = p - HeaderSize
        \/ p - HeaderSize < h /\ End(p - HeaderSize) <= h
        \/ h < p - HeaderSize /\ End(h) <= p - HeaderSize
    BY <2>1 DEF IInv, Ordered
  <2> QED BY <1>1, <2>1, <2>2 DEF End
<1> QED BY <1>1, <1>2, <1>3, <1>4

\* No two blocks a program holds share a byte, with each other or with a header, and all
\* are in memory the kernel has given and not taken back.
THEOREM BlocksStayApart == Spec => []BlocksApart
BY Invariant, ApartInv, PTL

-----------------------------------------------------------------------------
(* Malloc implements UserHeap                                              *)

Top == IF current_brk = NULL THEN HeapStart ELSE current_brk

\* All that is held lies below the top, apart from the rest.
Below ==
  /\ Top \in Nat /\ HeapStart <= Top
  /\ \A p \in DOMAIN live : HeapStart <= p /\ p + live[p] <= Top

\* What is held lies below the break.
LEMMA BelowTop == IInv => Below /\ BlocksApart
<1> SUFFICES ASSUME IInv PROVE Below
  BY ApartInv
<1>1. Top \in Nat /\ HeapStart <= Top
  BY DEF Top, IInv, TypeOK, Area
<1>2. ASSUME NEW p \in DOMAIN live PROVE HeapStart <= p /\ p + live[p] <= Top
  <2>1. /\ p \in Nat /\ live[p] \in Nat /\ HeapStart <= p /\ p + live[p] <= current_brk
        /\ current_brk \in Nat
    BY HeldApart DEF IInv, TypeOK
  <2> QED BY <2>1 DEF Top, NULL
<1> QED BY <1>1, <1>2 DEF Below

\* The same of the next state.
LEMMA BelowTopNext == IInv' => Below' /\ BlocksApart'
BY BelowTop, PTL

\* The break that sbrk starts from is the top.
LEMMA TopIsBreak == IInv => Top = OldBrk
<1> SUFFICES ASSUME IInv PROVE Top = OldBrk
  OBVIOUS
<1>1. current_brk = NULL => OldBrk = HeapStart
  BY RoundingOrder DEF OldBrk, SysBrk, IInv, Area, TypeOK, NULL
<1> QED BY <1>1 DEF Top, OldBrk

\* Handing out a block below the break is a step of the promised heap.
LEMMA Allocates ==
  ASSUME IInv, IInv', NEW p, NEW n \in Sizes, p \notin DOMAIN live,
         live' = With(live, p, n), Top <= Top'
  PROVE  Heap!HeapNext
<1>1. /\ DOMAIN live' = DOMAIN live \cup {p} /\ live'[p] = n
      /\ \A q \in DOMAIN live : live'[q] = live[q]
      /\ live' = [q \in DOMAIN live \cup {p} |-> IF q = p THEN n ELSE live[q]]
  BY DEF With
<1>2. HeapStart <= p /\ p + n <= Top'
  BY <1>1, BelowTopNext DEF Below
<1>3. \A q \in DOMAIN live : p + n <= q \/ q + live[q] <= p
  BY <1>1, BelowTopNext DEF BlocksApart
<1>4. Heap!Allocate(p, n)
  BY <1>1, <1>2, <1>3 DEF Heap!Allocate, Top
<1> QED BY <1>1, <1>4 DEF Heap!HeapNext

\* Giving one back is a step of the promised heap.
LEMMA Releases ==
  ASSUME IInv, IInv', NEW p \in DOMAIN live, live' = Without(live, p), Top' <= Top
  PROVE  Heap!HeapNext
<1>1. live' = [q \in DOMAIN live \ {p} |-> live[q]]
  BY DEF Without
<1>2. HeapStart <= Top' /\ \A q \in DOMAIN live' : q + live'[q] <= Top'
  BY BelowTopNext DEF Below
<1>3. Heap!Release(p)
  BY <1>1, <1>2 DEF Heap!Release, Heap!Lower, Heap!InUse, Top
<1> QED BY <1>3 DEF Heap!HeapNext

\* The empty heap is the promised one.
LEMMA HeapFromInit == Init => Heap!HeapInit
<1> SUFFICES ASSUME Init PROVE Heap!HeapInit
  OBVIOUS
<1>1. live = [p \in {} |-> 1] /\ current_brk = NULL
  BY DEF Init
<1>2. [p \in {} |-> 1] = [p \in {} |-> 0]
  OBVIOUS
<1> QED BY <1>1, <1>2 DEF Heap!HeapInit

\* Every step of malloc, free and their loops is one of the promised heap or a stutter.
LEMMA HeapStep == IInv /\ IInv' /\ [Next]_vars => [Heap!HeapNext]_(Heap!heapVars)
<1> SUFFICES ASSUME IInv, IInv', [Next]_vars PROVE [Heap!HeapNext]_(Heap!heapVars)
  OBVIOUS
<1>1. Top \in Nat /\ Top' \in Nat /\ Top = OldBrk /\ HeapStart <= Top /\ HeapStart <= Top'
  BY BelowTop, BelowTopNext, TopIsBreak DEF Below
<1>2. ASSUME UNCHANGED <<live, current_brk>> PROVE UNCHANGED Heap!heapVars
  BY <1>2 DEF Heap!heapVars
<1>3. CASE \/ \E n \in Sizes : Malloc(n)
           \/ GetFreeBlockNext \/ UnlinkNext \/ UNCHANGED vars
  BY <1>2, <1>3 DEF Malloc, GetFreeBlockNext, UnlinkNext, vars
<1>4. CASE Reuse
  <2>1. /\ arg \in Sizes /\ live' = With(live, Pointer(current), arg)
        /\ current \in Headers /\ header[current].is_free /\ UNCHANGED current_brk
    BY <1>4 DEF IInv, Asking, WalksStayInList, Reuse, Suits
  <2>2. Pointer(current) \notin DOMAIN live
    <3>1. Pointer(current) - HeaderSize = current
      BY <2>1 DEF Pointer, IInv, TypeOK
    <3> QED BY <2>1, <3>1 DEF IInv, Held
  <2>3. Top <= Top'
    BY <1>1, <2>1 DEF Top
  <2> QED BY <2>1, <2>2, <2>3, Allocates
<1>5. CASE Extend
  <2>1. arg \in Sizes /\ arg \in Nat /\ HeaderSize + arg \in Nat
    BY <1>5 DEF IInv, Asking, Extend, TypeOK
  <2>2. Sbrk(HeaderSize + arg).ret = OldBrk /\ OldBrk # -1 /\ SbrkSets(HeaderSize + arg)
    BY <1>1, <1>5, <2>1, SbrkMoves DEF Extend, IInv
  <2>3. live' = With(live, Pointer(OldBrk), arg)
    BY <1>5, <2>2 DEF Extend
  <2>4. Pointer(OldBrk) \notin DOMAIN live
    <3>1. SUFFICES ASSUME Pointer(OldBrk) \in DOMAIN live PROVE FALSE
      OBVIOUS
    <3>2. Pointer(OldBrk) = Top + HeaderSize /\ live[Pointer(OldBrk)] \in Nat
      BY <1>1, <3>1 DEF Pointer, IInv, TypeOK
    <3>3. Pointer(OldBrk) + live[Pointer(OldBrk)] <= Top
      BY <3>1, BelowTop DEF Below
    <3> QED BY <1>1, <3>2, <3>3
  <2>5. Top <= Top'
    <3>1. HeaderSize + arg \in Int /\ HeapStart <= OldBrk + (HeaderSize + arg)
      BY <1>1, <2>1
    <3>2. current_brk' = OldBrk + (HeaderSize + arg) /\ current_brk' # NULL
      BY <2>2, <3>1, AreaStep
    <3> QED BY <1>1, <2>1, <3>2 DEF Top
  <2> QED BY <2>1, <2>3, <2>4, <2>5, Allocates
<1>6. CASE \E p \in DOMAIN live : FreeInner(p) \/ FreeLast(p)
  <2> PICK p \in DOMAIN live : FreeInner(p) \/ FreeLast(p)
    BY <1>6
  <2>1. live' = Without(live, p) /\ UNCHANGED current_brk
    BY HeldBlock, SbrkZero DEF FreeInner, FreeLast
  <2>2. Top' <= Top
    BY <1>1, <2>1 DEF Top
  <2> QED BY <2>1, <2>2, Releases
<1>7. CASE \E p \in DOMAIN live : FreeOnly(p)
  <2> PICK p \in DOMAIN live : FreeOnly(p)
    BY <1>7
  <2>1. /\ live' = Without(live, p) /\ Headers # {} /\ p - HeaderSize = tail
        /\ SbrkSets(-(header[tail].size + HeaderSize))
    BY HeldBlock, SbrkZero, LastBlock DEF FreeOnly, IsLast
  <2>2. Top' = tail /\ tail <= Top
    BY <1>1, <2>1, GivenBack, AreaStep DEF Top
  <2> QED BY <1>1, <2>1, <2>2, Releases
<1>8. CASE Unlink
  <2>1. UNCHANGED live /\ SbrkSets(-(header[tail].size + HeaderSize)) /\ Headers # {}
    BY <1>8 DEF Unlink, IInv, WalksStayInList
  <2>2. Top' = tail /\ tail <= Top
    BY <1>1, <2>1, GivenBack, AreaStep DEF Top
  <2>3. Heap!GiveBack
    <3>1. \A p \in DOMAIN live : p + live[p] <= Top'
      BY <2>1, BelowTopNext DEF Below
    <3> QED BY <1>1, <2>1, <2>2, <3>1 DEF Heap!GiveBack, Heap!Lower, Heap!InUse, Top
  <2> QED BY <2>3 DEF Heap!HeapNext
<1> QED BY <1>3, <1>4, <1>5, <1>6, <1>7, <1>8 DEF Next

\* malloc and free are the heap that was promised: a block is whole, in memory, apart
\* from every other, and stays so until it is freed.
THEOREM ImplementsUserHeap == Spec => RefinesUserHeap
BY HeapFromInit, HeapStep, Invariant, PTL DEF Spec, RefinesUserHeap, Heap!HeapSpec

=============================================================================
