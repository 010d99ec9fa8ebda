----------------------------- MODULE Files_proofs -----------------------------
(***************************************************************************)
(* Theorems about Files, for every sound volume: reads and writes move the *)
(* data of the file that was asked for, as FileService promises, and no    *)
(* call touches any other data.                                            *)
(***************************************************************************)
EXTENDS Files, WellFoundedInduction, TLAPS

-----------------------------------------------------------------------------
(* Numbers                                                                 *)

\* A set of numbers that is not empty has a least one.
LessThan == {ss \in Nat \X Nat : ss[1] < ss[2]}

LEMMA LeastNumber ==
  ASSUME NEW T \in SUBSET Nat, T # {}
  PROVE  \E x \in T : \A y \in T : x <= y
<1>1. IsWellFoundedOn(LessThan, Nat)
  BY NatLessThanWellFounded DEF OpToRel, LessThan
<1>2. PICK x \in T : \A y \in T : ~(<<y, x>> \in LessThan)
  BY <1>1, WFMin
<1>3. ASSUME NEW y \in T PROVE x <= y
  <2>1. x \in Nat /\ y \in Nat /\ ~(<<y, x>> \in LessThan)
    BY <1>2
  <2> QED BY <2>1 DEF LessThan
<1> QED BY <1>3

\* Induction, for a set of numbers.
LEMMA AllNumbers ==
  ASSUME NEW T, 0 \in T, \A n \in Nat : n \in T => n + 1 \in T
  PROVE  Nat \subseteq T
<1>1. SUFFICES ASSUME Nat \ T # {} PROVE FALSE
  OBVIOUS
<1>2. PICK x \in Nat \ T : \A y \in Nat \ T : x <= y
  BY <1>1, LeastNumber
<1>3. x # 0 /\ x - 1 \in Nat /\ x - 1 \in T
  BY <1>2
<1>4. x \in T
  BY <1>3
<1> QED BY <1>2, <1>4

\* c, F[c], F[F[c]] and so on, n of them after the first.
IsWalk(g, c, F, n) == g = [k \in 0..n |-> IF k = 0 THEN c ELSE F[g[k - 1]]]

LEMMA WalksAgree ==
  ASSUME NEW c, NEW F, NEW m \in Nat, NEW n \in Nat, NEW g, NEW h,
         IsWalk(g, c, F, m), IsWalk(h, c, F, n), NEW i \in Nat, i <= m, i <= n
  PROVE  g[i] = h[i]
<1> DEFINE T == {k \in Nat : k <= m /\ k <= n => g[k] = h[k]}
<1>1. 0 \in T
  BY DEF IsWalk
<1>2. ASSUME NEW k \in Nat, k \in T PROVE k + 1 \in T
  <2>1. SUFFICES ASSUME k + 1 <= m, k + 1 <= n PROVE g[k + 1] = h[k + 1]
    OBVIOUS
  <2>2. g[k] = h[k]
    BY <1>2, <2>1
  <2>3. k + 1 \in 0..m /\ k + 1 \in 0..n /\ k + 1 # 0 /\ (k + 1) - 1 = k
    BY <2>1
  <2> QED BY <2>2, <2>3 DEF IsWalk
<1> HIDE DEF T
<1>3. Nat \subseteq T
  BY <1>1, <1>2, AllNumbers
<1> QED BY <1>3 DEF T

LEMMA WalksExist ==
  ASSUME NEW c, NEW F
  PROVE  \A n \in Nat : \E g : IsWalk(g, c, F, n)
<1> DEFINE T == {n \in Nat : \E g : IsWalk(g, c, F, n)}
<1>1. 0 \in T
  <2> DEFINE g == [k \in 0..0 |-> c]
  <2>1. IsWalk(g, c, F, 0)
    BY DEF IsWalk
  <2> QED BY <2>1
<1>2. ASSUME NEW n \in Nat, n \in T PROVE n + 1 \in T
  <2>1. PICK g : IsWalk(g, c, F, n)
    BY <1>2
  <2> DEFINE h == [k \in 0..(n + 1) |-> IF k = n + 1 THEN F[g[n]] ELSE g[k]]
  <2>2. g[0] = c /\ \A k \in 1..n : g[k] = F[g[k - 1]]
    BY <2>1 DEF IsWalk
  <2>3. h[0] = c
    BY <2>2
  <2>4. ASSUME NEW k \in 1..(n + 1) PROVE h[k] = F[h[k - 1]]
    <3>1. k - 1 \in 0..n /\ h[k - 1] = g[k - 1]
      BY <2>4
    <3>2. CASE k = n + 1
      BY <3>1, <3>2
    <3>3. CASE k # n + 1
      BY <2>2, <3>1, <3>3
    <3> QED BY <3>2, <3>3
  <2>5. h = [k \in 0..(n + 1) |-> IF k = 0 THEN c ELSE F[h[k - 1]]]
    <3>1. \A k \in 0..(n + 1) : h[k] = IF k = 0 THEN c ELSE F[h[k - 1]]
      BY <2>3, <2>4
    <3>2. h = [k \in 0..(n + 1) |-> h[k]]
      OBVIOUS
    <3> HIDE DEF h
    <3> QED BY <3>1, <3>2
  <2>6. IsWalk(h, c, F, n + 1)
    BY <2>5 DEF IsWalk
  <2> QED BY <2>6
<1> HIDE DEF T
<1>3. Nat \subseteq T
  BY <1>1, <1>2, AllNumbers
<1> QED BY <1>3 DEF T

\* So the recursive definition of a walk has a value.
LEMMA WalkDefined ==
  ASSUME NEW c, NEW F
  PROVE  \E g : g = [k \in Nat |-> IF k = 0 THEN c ELSE F[g[k - 1]]]
<1> DEFINE S(n) == CHOOSE h : IsWalk(h, c, F, n)
           g == [k \in Nat |-> S(k)[k]]
<1>1. \A n \in Nat : IsWalk(S(n), c, F, n)
  BY WalksExist
<1> HIDE DEF S
<1>2. g[0] = c
  BY <1>1 DEF IsWalk
<1>3. ASSUME NEW k \in Nat, k # 0 PROVE g[k] = F[g[k - 1]]
  <2>1. k - 1 \in Nat /\ k - 1 \in 0..k /\ k \in 0..k /\ k - 1 <= k
    BY <1>3
  <2>2. S(k)[k] = F[S(k)[k - 1]]
    BY <1>1, <1>3, <2>1 DEF IsWalk
  <2>3. S(k)[k - 1] = S(k - 1)[k - 1]
    BY <1>1, <2>1, WalksAgree
  <2> QED BY <2>1, <2>2, <2>3
<1>4. g = [k \in Nat |-> IF k = 0 THEN c ELSE F[g[k - 1]]]
  BY <1>2, <1>3
<1> QED BY <1>4

\* Quotient and remainder, and that there is only one of each.
LEMMA Division ==
  ASSUME NEW a \in Nat, NEW d \in Nat \ {0}
  PROVE  /\ a \div d \in Nat /\ a % d \in 0..(d - 1)
         /\ a = (a \div d) * d + (a % d)
OBVIOUS

LEMMA DivisionUnique ==
  ASSUME NEW d \in Nat \ {0}, NEW q \in Nat, NEW r \in 0..(d - 1)
  PROVE  (q * d + r) \div d = q /\ (q * d + r) % d = r
<1> DEFINE a == q * d + r
<1>1. a \in Nat
  OBVIOUS
<1>2. /\ a \div d \in Nat /\ a % d \in 0..(d - 1)
      /\ a = (a \div d) * d + (a % d)
  BY <1>1, Division
<1>3. ASSUME NEW x \in Nat, NEW y \in Nat, NEW s \in 0..(d - 1), NEW t \in 0..(d - 1),
             x * d + s = y * d + t
      PROVE  x <= y
  <2>1. SUFFICES ASSUME x > y PROVE FALSE
    BY <1>3
  <2>2. x - y - 1 \in Nat /\ (x - y - 1) * d \in Nat
    BY <2>1
  <2>3. x * d = y * d + d + (x - y - 1) * d
    OBVIOUS
  <2> QED BY <1>3, <2>2, <2>3
<1>4. a \div d <= q /\ q <= a \div d
  <2> HIDE DEF a
  <2>1. a = q * d + r
    BY DEF a
  <2> QED BY <1>2, <1>3, <2>1
<1>5. a \div d = q
  BY <1>2, <1>4
<1> QED BY <1>2, <1>5

LEMMA Distributes ==
  ASSUME NEW m \in Nat, NEW n \in Nat, m <= n, NEW u \in Nat
  PROVE  /\ n - m \in Nat /\ (n - m) * u \in Nat /\ m * u \in Nat
         /\ n * u = m * u + (n - m) * u /\ m * u <= n * u
<1>1. n - m \in Nat /\ (n - m) * u \in Nat /\ m * u \in Nat
  OBVIOUS
<1>2. n * u = m * u + (n - m) * u
  OBVIOUS
<1> QED BY <1>1, <1>2

-----------------------------------------------------------------------------
(* Units of a file                                                         *)

LEMMA Sizes ==
  /\ SectorUnits \in Nat \ {0} /\ SecPerCluster \in Nat \ {0}
  /\ ClusterUnits \in Nat \ {0} /\ ClusterUnits = SecPerCluster * SectorUnits
  /\ Sectors = 0..(SecPerCluster - 1)
<1>1. SectorUnits \in Nat \ {0} /\ SecPerCluster \in Nat \ {0}
  BY FilesAssumption
<1>2. \A a, b \in Nat \ {0} : a * b \in Nat \ {0}
  OBVIOUS
<1> QED BY <1>1, <1>2 DEF ClusterUnits, Sectors

\* The cluster, sector and byte of a unit.
LEMMA UnitAt ==
  ASSUME NEW q \in Nat, NEW s \in Sectors, NEW b \in 0..(SectorUnits - 1),
         NEW x, x = q * ClusterUnits + (s * SectorUnits + b)
  PROVE  /\ x \in Nat /\ x \div ClusterUnits = q
         /\ x % ClusterUnits = s * SectorUnits + b
         /\ (x % ClusterUnits) \div SectorUnits = s
         /\ (x % ClusterUnits) % SectorUnits = b /\ x % SectorUnits = b
<1> DEFINE y == s * SectorUnits + b
<1>1. s \in Nat /\ s <= SecPerCluster - 1 /\ SecPerCluster - 1 - s \in Nat
  BY Sizes
<1>2. y \in 0..(ClusterUnits - 1)
  <2>1. \A m, n, u \in Nat : m * u + n * u = (m + n) * u
    OBVIOUS
  <2>2. s * SectorUnits + (SecPerCluster - 1 - s) * SectorUnits
          = (SecPerCluster - 1) * SectorUnits
    BY <1>1, <2>1, Sizes
  <2>3. (SecPerCluster - 1) * SectorUnits + SectorUnits = ClusterUnits
    BY Sizes
  <2>4. (SecPerCluster - 1 - s) * SectorUnits \in Nat /\ s * SectorUnits \in Nat
    BY <1>1, Sizes
  <2> QED BY <1>1, <2>2, <2>3, <2>4, Sizes
<1>3. x \div ClusterUnits = q /\ x % ClusterUnits = y
  BY <1>2, Sizes, DivisionUnique
<1>4. y \div SectorUnits = s /\ y % SectorUnits = b
  BY <1>1, Sizes, DivisionUnique
<1>5. x % SectorUnits = b
  <2>1. q * SecPerCluster + s \in Nat
    BY <1>1, Sizes
  <2>2. x = (q * SecPerCluster + s) * SectorUnits + b
    <3>1. q * ClusterUnits = (q * SecPerCluster) * SectorUnits
      BY Sizes
    <3> QED BY <1>1, <3>1, Sizes
  <2> QED BY <2>1, <2>2, Sizes, DivisionUnique
<1>6. x \in Nat
  <2>1. q * ClusterUnits \in Nat
    BY Sizes
  <2> QED BY <1>2, <2>1
<1> QED BY <1>3, <1>4, <1>5, <1>6

LEMMA UnitPlace ==
  ASSUME NEW x \in Nat
  PROVE  \E q \in Nat, s \in Sectors, b \in 0..(SectorUnits - 1) :
           x = q * ClusterUnits + (s * SectorUnits + b)
<1> DEFINE y == x % ClusterUnits
<1>1. x \div ClusterUnits \in Nat /\ y \in 0..(ClusterUnits - 1)
      /\ x = (x \div ClusterUnits) * ClusterUnits + y
  BY Division, Sizes
<1>2. y \div SectorUnits \in Nat /\ y % SectorUnits \in 0..(SectorUnits - 1)
      /\ y = (y \div SectorUnits) * SectorUnits + (y % SectorUnits)
  <2>1. y \in Nat
    BY <1>1
  <2> HIDE DEF y
  <2> QED BY <2>1, Division, Sizes
<1>3. y \div SectorUnits \in Sectors
  <2> DEFINE s == y \div SectorUnits
  <2>1. SUFFICES ASSUME s >= SecPerCluster PROVE FALSE
    BY <1>2, Sizes
  <2>2. s \in Nat /\ y = s * SectorUnits + (y % SectorUnits) /\ y < ClusterUnits
    BY <1>1, <1>2, Sizes
  <2> HIDE DEF s, y
  <2>3. ClusterUnits <= s * SectorUnits
    BY <2>1, <2>2, Distributes, Sizes
  <2>4. s * SectorUnits \in Nat /\ y % SectorUnits \in Nat
    BY <1>2, <2>2, Sizes
  <2> QED BY <2>2, <2>3, <2>4, Sizes
<1> QED BY <1>1, <1>2, <1>3

LEMMA ChainWalk ==
  ASSUME NEW name
  PROVE  \A k \in Nat : Chain(name)[k] = IF k = 0 THEN Entry(name).cluster
                                         ELSE Fat[Chain(name)[k - 1]]
<1> DEFINE c == Entry(name).cluster
           a == CHOOSE g : g = [k \in Nat |-> IF k = 0 THEN c ELSE Fat[g[k - 1]]]
<1>1. a = [k \in Nat |-> IF k = 0 THEN c ELSE Fat[a[k - 1]]]
  BY WalkDefined
<1>2. Chain(name) = a
  BY DEF Chain
<1> HIDE DEF a, c
<1>3. \A k \in Nat : a[k] = IF k = 0 THEN c ELSE Fat[a[k - 1]]
  BY <1>1
<1> QED BY <1>2, <1>3 DEF c

LEMMA EntryFacts ==
  ASSUME NEW name \in Names
  PROVE  /\ Entry(name) \in OnVolume /\ Entry(name).name = name
         /\ Entry(name).cluster \in Nat \ {0} /\ Entry(name).size \in Nat
<1>1. \E e \in OnVolume : e.name = name
  BY DEF Names
<1>2. Entry(name) \in OnVolume /\ Entry(name).name = name
  BY <1>1 DEF Entry
<1>3. ASSUME NEW e \in OnVolume
      PROVE  e.cluster \in Nat \ {0} /\ e.size \in Nat
  <2>1. PICK c \in DOMAIN Directory : e \in UNION {Range(Directory[c][s]) : s \in Sectors}
    BY DEF OnVolume
  <2>2. PICK s \in Sectors : e \in Range(Directory[c][s])
    BY <2>1
  <2>3. PICK i \in DOMAIN Directory[c][s] : e = Directory[c][s][i]
    BY <2>2 DEF Range
  <2>4. e.kind = "file" /\ e.cluster # 0
    BY DEF OnVolume
  <2> QED BY <2>3, <2>4, VolumeAssumption
<1> QED BY <1>2, <1>3

\* A place in a file is in a cluster of its chain, and all clusters up to
\* that one are.
LEMMA LinkFacts ==
  ASSUME NEW name \in Names, NEW x \in Nat, x < Entry(name).size,
         NEW k \in Nat, k <= x \div ClusterUnits
  PROVE  k \in Links(name)
<1> DEFINE q == x \div ClusterUnits
<1>1. q \in Nat /\ q * ClusterUnits <= x /\ k <= q
  <2>1. /\ q \in Nat /\ x % ClusterUnits \in Nat
        /\ x = q * ClusterUnits + (x % ClusterUnits)
    <3>1. /\ x \div ClusterUnits \in Nat /\ x % ClusterUnits \in 0..(ClusterUnits - 1)
          /\ x = (x \div ClusterUnits) * ClusterUnits + (x % ClusterUnits)
      BY Division, Sizes
    <3> HIDE DEF q
    <3>2. x % ClusterUnits \in Nat
      BY <3>1, Sizes
    <3> QED BY <3>1, <3>2 DEF q
  <2>2. q * ClusterUnits \in Nat
    BY <2>1, Sizes
  <2> HIDE DEF q
  <2>3. q * ClusterUnits <= x
    BY <2>1, <2>2
  <2> QED BY <2>1, <2>3 DEF q
<1>2. k * ClusterUnits \in Nat /\ k * ClusterUnits <= x
  <2> HIDE DEF q
  <2>1. k * ClusterUnits <= q * ClusterUnits /\ k * ClusterUnits \in Nat
    BY <1>1, Distributes, Sizes
  <2>2. q * ClusterUnits \in Nat
    BY <1>1, Sizes
  <2> QED BY <1>1, <2>1, <2>2
<1> DEFINE i == k * ClusterUnits + 1
<1>3. i \in 1..Entry(name).size /\ i - 1 = k * ClusterUnits
  BY <1>2, EntryFacts
<1>4. (k * ClusterUnits) \div ClusterUnits = k
  <2>1. k * ClusterUnits = k * ClusterUnits + 0 /\ 0 \in 0..(ClusterUnits - 1)
    BY <1>2, Sizes
  <2> QED BY <2>1, Sizes, DivisionUnique
<1>5. (i - 1) \div ClusterUnits = k
  BY <1>3, <1>4
<1> HIDE DEF i
<1> QED BY <1>3, <1>5 DEF Links

\* The clusters of a file, and how next_cluster goes along them.
LEMMA NearCluster ==
  ASSUME NEW c \in Nat, c % FatEntries < FatEntries \div 4
  PROVE  NextCluster(c) = Fat[c]
<1> DEFINE q == c \div FatEntries
           r == c % FatEntries
<1>1. FatEntries \in Nat \ {0}
  BY FilesAssumption
<1>2. q \in Nat /\ r \in 0..(FatEntries - 1) /\ c = q * FatEntries + r
  BY <1>1, Division
<1>3. r * 4 \in 0..(FatEntries - 1)
  <2>1. FatEntries \div 4 \in Nat /\ FatEntries = (FatEntries \div 4) * 4 + (FatEntries % 4)
        /\ FatEntries % 4 \in 0..3
    BY <1>1, Division
  <2> QED BY <1>2, <2>1
<1>4. c * 4 = (q * 4) * FatEntries + r * 4
  <2>1. (q * FatEntries) * 4 = (q * 4) * FatEntries
    BY <1>1, <1>2
  <2> QED BY <1>1, <1>2, <2>1
<1>5. (c * 4) % FatEntries = r * 4
  <2>1. q * 4 \in Nat
    BY <1>2
  <2> HIDE DEF q, r
  <2> DEFINE w == q * 4
             y == r * 4
  <2>2. c * 4 = w * FatEntries + y /\ w \in Nat /\ y \in 0..(FatEntries - 1)
    BY <1>3, <1>4, <2>1
  <2> HIDE DEF w, y
  <2>3. (w * FatEntries + y) % FatEntries = y
    BY <1>1, <2>2, DivisionUnique
  <2> QED BY <2>2, <2>3 DEF y
<1>6. (r * 4) \div 4 = r
  BY <1>2
<1>7. ((c * 4) % FatEntries) \div 4 = r
  BY <1>5, <1>6
<1>8. NextCluster(c) = Fat[(c \div FatEntries) * FatEntries + ((c * 4) % FatEntries) \div 4]
  BY DEF NextCluster
<1> QED BY <1>2, <1>7, <1>8

LEMMA NextLink ==
  ASSUME WithinReach, NEW name \in Names, NEW k \in Nat,
         k \in Links(name), k + 1 \in Links(name)
  PROVE  NextCluster(Chain(name)[k]) = Chain(name)[k + 1]
<1>1. Chain(name)[k] % FatEntries < FatEntries \div 4
  BY DEF WithinReach
<1>2. Chain(name)[k] \in Nat
  BY VolumeAssumption
<1>3. Chain(name)[k + 1] = Fat[Chain(name)[k]]
  <2>1. k + 1 \in Nat /\ k + 1 # 0 /\ (k + 1) - 1 = k
    OBVIOUS
  <2> QED BY <2>1, ChainWalk
<1> QED BY <1>1, <1>2, <1>3, NearCluster

-----------------------------------------------------------------------------
(* The invariant                                                           *)

IoShape ==
  io = [op |-> io.op, fd |-> io.fd, cluster |-> io.cluster, skip |-> io.skip,
        off |-> io.off, left |-> io.left, done |-> io.done, buf |-> io.buf]
DiskShape ==
  /\ DOMAIN disk = DOMAIN DiskData
  /\ \A c \in DOMAIN disk :
       DOMAIN disk[c] = Sectors /\ \A s \in Sectors :
         DOMAIN disk[c][s] = 0..(SectorUnits - 1)

Shapes ==
  /\ TypeOK /\ current \in 1..task_num /\ IoShape /\ DiskShape
  /\ io.op = "idle" => io = Idle

\* The descriptor that an open has taken and not yet given back.
Opening(p, fd) == io.op = "open" /\ p = current /\ fd = io.fd

\* What is stored of an open file is what the directory says.
OnFile(f) ==
  /\ f.path \in Names /\ f.perms \in Flags
  /\ f.cluster = Entry(f.path).cluster /\ FileSize(f) = Entry(f.path).size

OnVolumeFile(f) == f.opened /\ f.ops = "fat32" /\ f.cluster # 0

\* A closed descriptor has no operations left, so that opening a path outside the
\* volume does not bring the last file back.
Handles ==
  \A p \in Tasks, fd \in Fds :
    /\ ~files[p][fd].opened => files[p][fd].ops = "none"
    /\ OnVolumeFile(files[p][fd]) /\ ~Opening(p, fd) => OnFile(files[p][fd])

\* Where the scan of the directory is.
Scan ==
  io.op = "open" =>
    LET f == files[current][io.fd] IN
    /\ f.opened /\ f.ops = "fat32" /\ f.cfo = 0 /\ f.perms \in Flags
    /\ io.cluster >= EOC \/ io.cluster \in DOMAIN Directory

\* Where a read or write is: the cluster and the offset are those of its place
\* in the file, as far as clusters have been skipped.
Moving ==
  io.op \in {"read", "write"} =>
    LET f == files[current][io.fd]
        pos == f.cfo + io.done
    IN /\ OnVolumeFile(f) /\ f.cfo \in Nat
       /\ pos + io.left <= Entry(f.path).size /\ io.done + io.left \in 1..Len(Out)
       /\ io.left > 0 => /\ io.skip <= pos \div ClusterUnits
                         /\ io.cluster = Chain(f.path)[(pos \div ClusterUnits) - io.skip]
                         /\ io.off = pos % ClusterUnits
       /\ io.skip > 0 => io.done = 0 /\ io.left > 0

IInv == Shapes /\ Handles /\ Scan /\ Moving

LEMMA Basics ==
  ASSUME Shapes
  PROVE  /\ task_num \in Tasks /\ current \in Tasks /\ current \in 1..task_num
         /\ files \in [Tasks -> [Fds -> File]] /\ io.fd \in Fds
         /\ Tasks \subseteq Nat /\ 1..task_num \subseteq Tasks
         /\ \A p \in Tasks, fd \in Fds : files[p][fd] \in File
         /\ io.op \in {"idle", "open", "read", "write"}
         /\ io.cluster \in Nat /\ io.skip \in Nat /\ io.off \in Nat
         /\ io.left \in Nat /\ io.done \in Nat
<1>1. /\ task_num \in Tasks /\ current \in Tasks /\ current \in 1..task_num
      /\ files \in [Tasks -> [Fds -> File]] /\ io.fd \in Fds
      /\ io.op \in {"idle", "open", "read", "write"}
      /\ {io.cluster, io.skip, io.off, io.left, io.done} \subseteq Nat
  BY DEF Shapes, TypeOK
<1>2. Tasks \subseteq Nat /\ 1..task_num \subseteq Tasks
  BY <1>1, FilesAssumption DEF Tasks
<1> QED BY <1>1, <1>2

LEMMA IdleShape ==
  /\ Idle.op = "idle" /\ Idle.fd = 0 /\ Idle.cluster = 0 /\ Idle.skip = 0
  /\ Idle.off = 0 /\ Idle.left = 0 /\ Idle.done = 0 /\ Idle.buf = <<>>
  /\ Idle = [op |-> Idle.op, fd |-> Idle.fd, cluster |-> Idle.cluster,
             skip |-> Idle.skip, off |-> Idle.off, left |-> Idle.left,
             done |-> Idle.done, buf |-> Idle.buf]
  /\ 0 \in Fds
<1>1. 0 \in Fds
  BY FilesAssumption DEF Fds
<1> QED BY <1>1 DEF Idle

\* One descriptor changes.
LEMMA OneFile ==
  ASSUME Shapes, NEW p \in Tasks, NEW fd \in Fds, NEW g \in File,
         files' = [files EXCEPT ![p][fd] = g]
  PROVE  /\ files' \in [Tasks -> [Fds -> File]]
         /\ files'[p][fd] = g
         /\ \A q \in Tasks, e \in Fds : (q = p /\ e = fd) \/ files'[q][e] = files[q][e]
<1>1. files \in [Tasks -> [Fds -> File]]
  BY Basics
<1>2. files' = [files EXCEPT ![p] = [files[p] EXCEPT ![fd] = g]]
  BY <1>1
<1>3. [files[p] EXCEPT ![fd] = g] \in [Fds -> File]
  BY <1>1
<1>4. files' \in [Tasks -> [Fds -> File]] /\ files'[p] = [files[p] EXCEPT ![fd] = g]
      /\ \A q \in Tasks : q # p => files'[q] = files[q]
  BY <1>1, <1>2, <1>3
<1>5. \A e \in Fds : e # fd => files'[p][e] = files[p][e]
  BY <1>1, <1>4
<1> QED BY <1>1, <1>4, <1>5

\* Nothing but descriptors and the call has changed.
LEMMA KeepShapes ==
  ASSUME Shapes, files' \in [Tasks -> [Fds -> File]],
         UNCHANGED <<task_num, disk>>, current' \in 1..task_num,
         IoShape', (io.op = "idle" => io = Idle)',
         io'.op \in {"idle", "open", "read", "write"}, io'.fd \in Fds,
         io'.cluster \in Nat, io'.skip \in Nat, io'.off \in Nat,
         io'.left \in Nat, io'.done \in Nat
  PROVE  Shapes'
<1>1. current' \in Tasks /\ task_num' \in Tasks
  BY Basics
<1>2. TypeOK'
  BY <1>1 DEF Shapes, TypeOK
<1>3. DiskShape'
  BY DEF Shapes, DiskShape
<1> QED BY <1>2, <1>3 DEF Shapes

LEMMA InitIInv == Init => IInv
<1> SUFFICES ASSUME Init PROVE IInv
  OBVIOUS
<1>1. Closed \in File
  BY DEF Closed, File
<1>2. ASSUME NEW ops \in {"stdin", "stdout"}, NEW right \in {"R", "W"}
      PROVE  Terminal(ops, right) \in File /\ Terminal(ops, right).opened
             /\ Terminal(ops, right).ops = ops
  <2> DEFINE rights == {right}
  <2>1. rights \in SUBSET {"R", "W"}
    OBVIOUS
  <2>2. Terminal(ops, right) = [Closed EXCEPT !.opened = TRUE, !.perms = rights, !.ops = ops]
    BY DEF Terminal
  <2> HIDE DEF rights
  <2>3. ops \in {"none", "stdin", "stdout", "fat32"}
    OBVIOUS
  <2> QED BY <1>1, <2>1, <2>2, <2>3 DEF File
<1>3. \A fd \in Fds : FileInit[fd] \in File
        /\ FileInit[fd] \in {Closed, Terminal("stdin", "R"), Terminal("stdout", "W")}
  BY <1>1, <1>2 DEF FileInit
<1>4. FileInit \in [Fds -> File]
  BY <1>3 DEF FileInit
<1>5. files \in [Tasks -> [Fds -> File]]
  BY <1>1, <1>4 DEF Init
<1>6. \A p \in Tasks, fd \in Fds :
        files[p][fd] \in {Closed, Terminal("stdin", "R"), Terminal("stdout", "W")}
  BY <1>3 DEF Init
<1>7. Shapes
  <2>1. 1 \in Tasks /\ 1 \in 1..1
    BY FilesAssumption DEF Tasks
  <2>2. IoShape
    BY IdleShape DEF Init, IoShape
  <2>3. TypeOK
    BY <1>5, <2>1, IdleShape DEF Init, TypeOK
  <2>4. DiskShape
    BY VolumeAssumption DEF Init, DiskShape
  <2> QED BY <2>1, <2>2, <2>3, <2>4 DEF Init, Shapes
<1>8. Handles
  <2>1. \A f \in {Closed, Terminal("stdin", "R"), Terminal("stdout", "W")} :
          /\ ~f.opened => f.ops = "none"
          /\ f.ops # "fat32"
    <3>1. ~Closed.opened /\ Closed.ops = "none"
      BY DEF Closed
    <3>2. /\ Terminal("stdin", "R").opened /\ Terminal("stdin", "R").ops = "stdin"
          /\ Terminal("stdout", "W").opened /\ Terminal("stdout", "W").ops = "stdout"
      BY <1>2
    <3> QED BY <3>1, <3>2
  <2> QED BY <1>6, <2>1 DEF Handles, OnVolumeFile
<1>9. Scan /\ Moving
  BY IdleShape DEF Init, Scan, Moving
<1> QED BY <1>7, <1>8, <1>9 DEF IInv

\* A step in which descriptor fd of task p becomes g and no other changes.
LEMMA KeepHandles ==
  ASSUME Shapes, Handles, NEW p \in Tasks, NEW fd \in Fds, NEW g \in File,
         files' = [files EXCEPT ![p][fd] = g],
         ~g.opened => g.ops = "none",
         \/ io'.op = "open" /\ p = current' /\ fd = io'.fd
         \/ OnVolumeFile(g) => OnFile(g),
         \/ io.op # "open"
         \/ p = current /\ fd = io.fd
  PROVE  Handles'
<1>1. ASSUME NEW q \in Tasks, NEW e \in Fds
      PROVE  /\ ~files'[q][e].opened => files'[q][e].ops = "none"
             /\ \/ io'.op = "open" /\ q = current' /\ e = io'.fd
                \/ OnVolumeFile(files'[q][e]) => OnFile(files'[q][e])
  <2>1. CASE q = p /\ e = fd
    <3>1. files'[q][e] = g
      BY <2>1, OneFile
    <3> QED BY <2>1, <3>1
  <2>2. CASE ~(q = p /\ e = fd)
    <3>1. files'[q][e] = files[q][e]
      BY <2>2, OneFile
    <3>2. ~(io.op = "open" /\ q = current /\ e = io.fd)
      BY <2>2
    <3> QED BY <3>1, <3>2 DEF Handles, Opening
  <2> QED BY <2>1, <2>2
<1> QED BY <1>1 DEF Handles, Opening, OnVolumeFile, OnFile, FileSize

LEMMA AfterCall ==
  ASSUME io' = Idle
  PROVE  /\ IoShape' /\ (io.op = "idle" => io = Idle)' /\ Scan' /\ Moving'
         /\ io'.op = "idle" /\ io'.fd \in Fds /\ io'.cluster \in Nat /\ io'.skip \in Nat
         /\ io'.off \in Nat /\ io'.left \in Nat /\ io'.done \in Nat
BY IdleShape DEF IoShape, Scan, Moving

LEMMA WhenIdle ==
  ASSUME IInv, io = Idle
  PROVE  /\ io.op # "open"
         /\ \A p \in Tasks, fd \in Fds : OnVolumeFile(files[p][fd]) => OnFile(files[p][fd])
<1>1. io.op # "open"
  BY IdleShape
<1> QED BY <1>1 DEF IInv, Handles, Opening

LEMMA FileFields ==
  ASSUME NEW f \in File
  PROVE  /\ f.opened \in BOOLEAN /\ f.perms \in SUBSET {"R", "W"} /\ f.cfo \in Int
         /\ f.ops \in {"none", "stdin", "stdout", "fat32"}
         /\ f.path \in {""} \cup Paths /\ f.cluster \in Nat
         /\ f.dir_cluster \in Nat /\ f.dir_index \in Nat
BY DEF File

LEMMA UnusedFd ==
  ASSUME IInv, UnusedFds # {}
  PROVE  GetUnusedFd \in Fds /\ ~files[current][GetUnusedFd].opened
<1>1. UnusedFds \in SUBSET Nat
  BY DEF UnusedFds, Fds
<1>2. \E fd \in UnusedFds : \A e \in UnusedFds : fd <= e
  BY <1>1, LeastNumber
<1>3. GetUnusedFd \in UnusedFds
  BY <1>2 DEF GetUnusedFd
<1> QED BY <1>3 DEF UnusedFds

LEMMA ChangedFile ==
  ASSUME NEW A, NEW B, NEW C, NEW D, NEW E, NEW G,
         NEW f \in [opened : A, perms : B, cfo : C, ops : D,
                    path : E, cluster : G, dir_cluster : G, dir_index : G],
         NEW a \in A, NEW b \in B, NEW c \in C, NEW d \in D, NEW e \in E
  PROVE  [f EXCEPT !.opened = a, !.perms = b, !.cfo = c, !.path = e, !.ops = d]
           \in [opened : A, perms : B, cfo : C, ops : D,
                path : E, cluster : G, dir_cluster : G, dir_index : G]
OBVIOUS

LEMMA OpenedFile ==
  ASSUME NEW f \in File, f.ops = "none", NEW flags \in Flags, NEW path \in Paths
  PROVE  LET g == OpenedAs(f, flags, path) IN
         /\ g \in File /\ g.opened /\ g.perms = flags /\ g.cfo = 0 /\ g.path = path
         /\ g.ops = IF path \in OtherPaths THEN "none" ELSE "fat32"
         /\ g.cluster = f.cluster
<1>1. flags \in SUBSET {"R", "W"}
  BY VolumeAssumption
<1> DEFINE ops == IF path \in OtherPaths THEN f.ops ELSE "fat32"
<1>3. ops \in {"none", "fat32"} /\ ops = IF path \in OtherPaths THEN "none" ELSE "fat32"
  OBVIOUS
<1> DEFINE g == [f EXCEPT !.opened = TRUE, !.perms = flags, !.cfo = 0, !.path = path,
                          !.ops = ops]
<1>4. OpenedAs(f, flags, path) = g
  BY DEF OpenedAs
<1> HIDE DEF ops
<1>5. g \in File
  <2>1. TRUE \in BOOLEAN
    OBVIOUS
  <2>3. 0 \in Int
    OBVIOUS
  <2>4. path \in {""} \cup Paths
    OBVIOUS
  <2>2. ops \in {"none", "stdin", "stdout", "fat32"}
    BY <1>3
  <2> QED BY <1>1, <2>1, <2>2, <2>3, <2>4, ChangedFile DEF File
<1>6. g.opened /\ g.perms = flags /\ g.cfo = 0 /\ g.path = path /\ g.ops = ops
      /\ g.cluster = f.cluster
  BY DEF File
<1> QED BY <1>3, <1>4, <1>5, <1>6

LEMMA OpenStep ==
  ASSUME IInv, SysOpen
  PROVE  IInv'
<1> DEFINE fd == GetUnusedFd
<1> USE DEF IInv
<1>1. PICK path \in Paths, flags \in Flags :
        /\ files' = [files EXCEPT ![current][fd] = OpenedAs(@, flags, path)]
        /\ io' = IF path \in OtherPaths THEN Idle
                 ELSE [Idle EXCEPT !.op = "open", !.fd = fd, !.cluster = Root]
  BY DEF SysOpen
<1> DEFINE f == files[current][fd]
           g == OpenedAs(f, flags, path)
<1>2. io = Idle /\ UNCHANGED <<task_num, current, disk>> /\ UnusedFds # {}
  BY DEF SysOpen
<1>3. fd \in Fds /\ current \in Tasks /\ f \in File /\ ~f.opened /\ f.ops = "none"
  <2>1. fd \in Fds /\ current \in Tasks /\ ~f.opened
    BY <1>2, Basics, UnusedFd
  <2> QED BY <2>1, Basics DEF Handles
<1>4. /\ g \in File /\ g.opened /\ g.perms = flags /\ g.cfo = 0 /\ g.path = path
      /\ g.ops = IF path \in OtherPaths THEN "none" ELSE "fat32"
  BY <1>3, OpenedFile
<1>5. files' = [files EXCEPT ![current][fd] = g]
  BY <1>1, <1>3, Basics
<1>6. files' \in [Tasks -> [Fds -> File]] /\ files'[current][fd] = g
  <2>1. g \in File /\ fd \in Fds /\ current \in Tasks
    BY <1>3, <1>4
  <2> HIDE DEF g, f, fd
  <2> QED BY <1>5, <2>1, OneFile
<1>7. io.op # "open"
  BY <1>2, WhenIdle
<1> HIDE DEF g, f
<1>8. CASE path \in OtherPaths
  <2>1. io' = Idle
    BY <1>1, <1>8
  <2>2. Shapes'
    BY <1>2, <1>6, <2>1, AfterCall, Basics, KeepShapes
  <2>3. Handles'
    BY <1>3, <1>4, <1>5, <1>7, <1>8, KeepHandles DEF OnVolumeFile
  <2> QED BY <2>1, <2>2, <2>3, AfterCall
<1>9. CASE path \notin OtherPaths
  <2>1. io' = [Idle EXCEPT !.op = "open", !.fd = fd, !.cluster = Root]
    BY <1>1, <1>9
  <2> HIDE DEF fd
  <2>2. /\ io'.op = "open" /\ io'.fd = fd /\ io'.cluster = Root /\ io'.skip = 0
        /\ io'.off = 0 /\ io'.left = 0 /\ io'.done = 0
        /\ IoShape'
    BY <2>1, IdleShape DEF Idle, IoShape
  <2>3. Root \in DOMAIN Directory /\ Root \in Nat
    BY FilesAssumption, VolumeAssumption
  <2>4. Shapes'
    BY <1>2, <1>3, <1>6, <2>2, <2>3, Basics, KeepShapes
  <2>6. Handles'
    BY <1>2, <1>3, <1>4, <1>5, <1>7, <2>2, KeepHandles
  <2>7. Scan'
    BY <1>2, <1>4, <1>6, <1>9, <2>2, <2>3 DEF Scan
  <2>8. Moving'
    BY <2>2 DEF Moving
  <2> QED BY <2>4, <2>6, <2>7, <2>8
<1> QED BY <1>8, <1>9

\* Entries of files lead to natural numbers, and an entry with a name is the one
\* of that name.
LEMMA EntryAt ==
  ASSUME NEW c \in DOMAIN Directory, NEW s \in Sectors, NEW i \in DOMAIN Directory[c][s],
         Directory[c][s][i].kind = "file"
  PROVE  LET e == Directory[c][s][i] IN
         /\ e.cluster \in Nat /\ e.size \in Nat /\ i \in Nat
         /\ e.cluster # 0 => e.name \in Names /\ Entry(e.name) = e
<1> DEFINE e == Directory[c][s][i]
<1>1. e.cluster \in Nat /\ e.size \in Nat /\ i \in Nat
  BY VolumeAssumption
<1>2. ASSUME e.cluster # 0 PROVE e.name \in Names /\ Entry(e.name) = e
  <2>1. e \in UNION {UNION {Range(Directory[d][t]) : t \in Sectors} : d \in DOMAIN Directory}
    <3>1. e \in Range(Directory[c][s])
      BY DEF Range
    <3>2. e \in UNION {Range(Directory[c][t]) : t \in Sectors}
      BY <3>1
    <3> QED BY <3>2
  <2>2. e \in OnVolume
    BY <1>2, <2>1 DEF OnVolume
  <2> HIDE DEF e
  <2>3. e.name \in Names
    BY <2>2 DEF Names
  <2>4. Entry(e.name) \in OnVolume /\ Entry(e.name).name = e.name
    BY <2>3, EntryFacts
  <2> QED BY <2>2, <2>3, <2>4, VolumeAssumption
<1> QED BY <1>1, <1>2

LEMMA FirstStopIsStop ==
  ASSUME NEW c \in DOMAIN Directory, Stops(c) # {}
  PROVE  LET at == FirstStop(c) IN
         /\ at[1] \in Sectors /\ at[2] \in DOMAIN Directory[c][at[1]]
         /\ LET e == Directory[c][at[1]][at[2]] IN
            e.kind = "end" \/ (e.kind = "file" /\ e.name = files[current][io.fd].path)
<1>1. \A at \in Stops(c) : /\ at = <<at[1], at[2]>> /\ at[1] \in Nat /\ at[2] \in Nat
                           /\ at[1] \in Sectors /\ at[2] \in DOMAIN Directory[c][at[1]]
  BY Sizes, FilesAssumption DEF Stops
<1> DEFINE firsts == {at[1] : at \in Stops(c)}
<1>2. firsts \in SUBSET Nat /\ firsts # {}
  BY <1>1
<1> HIDE DEF firsts
<1>3. PICK s \in firsts : \A t \in firsts : s <= t
  BY <1>2, LeastNumber
<1> DEFINE seconds == {at[2] : at \in {b \in Stops(c) : b[1] = s}}
<1>4. seconds \in SUBSET Nat /\ seconds # {}
  BY <1>1, <1>3 DEF firsts
<1> HIDE DEF seconds
<1>5. PICK i \in seconds : \A j \in seconds : i <= j
  BY <1>4, LeastNumber
<1>6. PICK at \in Stops(c) : at[1] = s /\ at[2] = i
  BY <1>5 DEF seconds
<1>7. ASSUME NEW b \in Stops(c)
      PROVE  at[1] < b[1] \/ (at[1] = b[1] /\ at[2] <= b[2])
  <2>1. b[1] \in firsts /\ s <= b[1] /\ b[1] \in Nat /\ b[2] \in Nat /\ s \in Nat
    BY <1>1, <1>2, <1>3 DEF firsts
  <2>2. b[1] = s => i <= b[2]
    BY <1>5 DEF seconds
  <2> QED BY <1>6, <2>1, <2>2
<1>8. FirstStop(c) \in Stops(c)
  <2>1. \E x \in Stops(c) : \A b \in Stops(c) :
          x[1] < b[1] \/ (x[1] = b[1] /\ x[2] <= b[2])
    BY <1>7
  <2> QED BY <2>1 DEF FirstStop
<1>9. LET x == FirstStop(c)
          e == Directory[c][x[1]][x[2]] IN
      e.kind = "end" \/ (e.kind = "file" /\ e.name = files[current][io.fd].path)
  BY <1>8 DEF Stops
<1> QED BY <1>1, <1>8, <1>9

\* The three ways out of a turn of the scan.
LEMMA ScanCases ==
  ASSUME WithinReach, IInv, ScanCluster
  PROVE  \/ /\ io.cluster \in DOMAIN Directory
            /\ io' = [io EXCEPT !.cluster = NextCluster(io.cluster)] /\ UNCHANGED files
            /\ NextCluster(io.cluster) \in Nat
            /\ \/ NextCluster(io.cluster) \in DOMAIN Directory
               \/ NextCluster(io.cluster) >= EOC
         \/ \E c, d, i \in Nat :
              /\ OpenReturns(c, d, i)
              /\ c # 0 => LET path == files[current][io.fd].path IN
                          /\ path \in Names /\ Entry(path).cluster = c
                          /\ Directory[d][0][i].size = Entry(path).size
<1> DEFINE c == io.cluster
<1>1. c >= EOC \/ c \in DOMAIN Directory
  BY DEF IInv, Scan, ScanCluster
<1>2. ASSUME OpenReturns(0, 0, 0)
      PROVE  \E a, d, i \in Nat :
              /\ OpenReturns(a, d, i)
              /\ a # 0 => LET path == files[current][io.fd].path IN
                          /\ path \in Names /\ Entry(path).cluster = a
                          /\ Directory[d][0][i].size = Entry(path).size
  <2>1. 0 \in Nat
    OBVIOUS
  <2> QED BY <1>2, <2>1
<1>3. CASE c >= EOC
  BY <1>2, <1>3 DEF ScanCluster
<1>4. CASE ~(c >= EOC) /\ Stops(c) = {}
  <2>1. c \in DOMAIN Directory
    BY <1>1, <1>4
  <2>2. NextCluster(c) \in Nat
    BY <2>1, VolumeAssumption
  <2>3. NextCluster(c) \in DOMAIN Directory \/ NextCluster(c) >= EOC
    <3>1. SUFFICES ASSUME NEW s \in Sectors, NEW i \in DOMAIN Directory[c][s],
                          i \in 0..(FatEntries - 1), Directory[c][s][i].kind = "end"
                   PROVE  FALSE
      BY <2>1, VolumeAssumption
    <3>2. <<s, i>> \in Stops(c)
      BY <3>1 DEF Stops
    <3> QED BY <1>4, <3>2
  <2>4. io' = [io EXCEPT !.cluster = NextCluster(io.cluster)] /\ UNCHANGED files
    BY <1>4 DEF ScanCluster
  <2> QED BY <2>1, <2>2, <2>3, <2>4
<1>5. CASE ~(c >= EOC) /\ Stops(c) # {}
  <2> DEFINE at == FirstStop(c)
             e == Directory[c][at[1]][at[2]]
  <2>1. c \in DOMAIN Directory
    BY <1>1, <1>5
  <2>2. /\ at[1] \in Sectors /\ at[2] \in DOMAIN Directory[c][at[1]]
        /\ e.kind = "end" \/ (e.kind = "file" /\ e.name = files[current][io.fd].path)
    BY <1>5, <2>1, FirstStopIsStop
  <2>3. IF e.kind = "file" THEN OpenReturns(e.cluster, c, at[2]) ELSE OpenReturns(0, 0, 0)
    BY <1>5 DEF ScanCluster
  <2>4. CASE e.kind # "file"
    BY <1>2, <2>3, <2>4
  <2>5. CASE e.kind = "file"
    <3>1. /\ e.cluster \in Nat /\ at[2] \in Nat /\ c \in Nat
          /\ e.cluster # 0 => e.name \in Names /\ Entry(e.name) = e
      BY <2>1, <2>2, <2>5, EntryAt, VolumeAssumption
    <3>2. at[1] = 0
      BY <2>1, <2>2, <2>5 DEF WithinReach
    <3>3. e.name = files[current][io.fd].path /\ OpenReturns(e.cluster, c, at[2])
      BY <2>2, <2>3, <2>5
    <3>4. e = Directory[c][0][at[2]]
      BY <3>2
    <3> HIDE DEF c, e, at
    <3> QED BY <3>1, <3>3, <3>4
  <2> QED BY <2>4, <2>5
<1> QED BY <1>3, <1>4, <1>5

LEMMA PlacedFile ==
  ASSUME NEW f \in File, NEW c \in Nat, NEW d \in Nat, NEW i \in Nat
  PROVE  [f EXCEPT !.cluster = c, !.dir_cluster = d, !.dir_index = i] \in File
BY DEF File

\* What a descriptor is when its open returns.
LEMMA ReturnedFile ==
  ASSUME IInv, io.op = "open", NEW c \in Nat, NEW d \in Nat, NEW i \in Nat,
         OpenReturns(c, d, i)
  PROVE  LET f == files[current][io.fd]
             g == [f EXCEPT !.cluster = c, !.dir_cluster = d, !.dir_index = i]
         IN /\ f \in File /\ g \in File
            /\ files' = [files EXCEPT ![current][io.fd] = g]
            /\ f.opened /\ f.ops = "fat32" /\ f.cfo = 0 /\ f.perms \in Flags
            /\ io' = Idle
<1> DEFINE f == files[current][io.fd]
           g == [f EXCEPT !.cluster = c, !.dir_cluster = d, !.dir_index = i]
<1>1. f \in File /\ current \in Tasks /\ io.fd \in Fds /\ files \in [Tasks -> [Fds -> File]]
  BY Basics DEF IInv
<1>2. g \in File
  BY <1>1, PlacedFile
<1>3. files' = [[[files EXCEPT ![current][io.fd].cluster = c]
                   EXCEPT ![current][io.fd].dir_cluster = d]
                   EXCEPT ![current][io.fd].dir_index = i]
  BY DEF OpenReturns
<1>4. files' = [files EXCEPT ![current][io.fd] =
                  [[[f EXCEPT !.cluster = c] EXCEPT !.dir_cluster = d] EXCEPT !.dir_index = i]]
  <2> DEFINE f1 == [f EXCEPT !.cluster = c]
             f2 == [f1 EXCEPT !.dir_cluster = d]
             f3 == [f2 EXCEPT !.dir_index = i]
  <2>1. [files EXCEPT ![current][io.fd].cluster = c] = [files EXCEPT ![current][io.fd] = f1]
    OBVIOUS
  <2> DEFINE F1 == [files EXCEPT ![current][io.fd] = f1]
  <2>2. F1[current][io.fd] = f1
    BY <1>1
  <2>3. [F1 EXCEPT ![current][io.fd].dir_cluster = d] = [F1 EXCEPT ![current][io.fd] = f2]
    BY <2>2
  <2> HIDE DEF f1
  <2>4. [F1 EXCEPT ![current][io.fd] = f2] = [files EXCEPT ![current][io.fd] = f2]
    BY <1>1
  <2> DEFINE F2 == [files EXCEPT ![current][io.fd] = f2]
  <2>5. F2[current][io.fd] = f2
    BY <1>1
  <2>6. [F2 EXCEPT ![current][io.fd].dir_index = i] = [F2 EXCEPT ![current][io.fd] = f3]
    BY <2>5
  <2> HIDE DEF f2
  <2>7. [F2 EXCEPT ![current][io.fd] = f3] = [files EXCEPT ![current][io.fd] = f3]
    BY <1>1
  <2> HIDE DEF f3
  <2>8. files' = [files EXCEPT ![current][io.fd] = f3]
    BY <1>3, <2>1, <2>3, <2>4, <2>6, <2>7
  <2> QED BY <2>8 DEF f3, f2, f1
<1>5. files' = [files EXCEPT ![current][io.fd] = g]
  BY <1>4
<1> QED BY <1>1, <1>2, <1>5 DEF IInv, Scan, OpenReturns

LEMMA ScanStep ==
  ASSUME WithinReach, IInv, ScanCluster
  PROVE  IInv'
<1>1. io.op = "open" /\ UNCHANGED <<task_num, current, disk>>
  BY DEF ScanCluster
<1>2. Shapes /\ Handles /\ Scan /\ current \in 1..task_num /\ current \in Tasks /\ io.fd \in Fds
  BY Basics DEF IInv
<1>3. CASE /\ io' = [io EXCEPT !.cluster = NextCluster(io.cluster)] /\ UNCHANGED files
           /\ NextCluster(io.cluster) \in Nat
           /\ NextCluster(io.cluster) \in DOMAIN Directory \/ NextCluster(io.cluster) >= EOC
  <2>1. /\ io'.op = "open" /\ io'.fd = io.fd /\ io'.cluster = NextCluster(io.cluster)
        /\ io'.skip = io.skip /\ io'.off = io.off /\ io'.left = io.left
        /\ io'.done = io.done /\ IoShape'
    BY <1>1, <1>2, <1>3 DEF Shapes, IoShape
  <2>2. Shapes'
    BY <1>1, <1>2, <1>3, <2>1, Basics, KeepShapes
  <2>3. Handles'
    BY <1>1, <1>2, <1>3, <2>1 DEF Handles, Opening
  <2>4. Scan'
    BY <1>1, <1>2, <1>3, <2>1 DEF Scan
  <2>5. Moving'
    BY <2>1 DEF Moving
  <2> QED BY <2>2, <2>3, <2>4, <2>5 DEF IInv
<1>4. ASSUME NEW c \in Nat, NEW d \in Nat, NEW i \in Nat, OpenReturns(c, d, i),
             c # 0 => LET path == files[current][io.fd].path IN
                      /\ path \in Names /\ Entry(path).cluster = c
                      /\ Directory[d][0][i].size = Entry(path).size
      PROVE  IInv'
  <2> DEFINE f == files[current][io.fd]
             g == [f EXCEPT !.cluster = c, !.dir_cluster = d, !.dir_index = i]
  <2>1. /\ f \in File /\ g \in File
        /\ files' = [files EXCEPT ![current][io.fd] = g]
        /\ f.opened /\ f.ops = "fat32" /\ f.cfo = 0 /\ f.perms \in Flags
        /\ io' = Idle
    BY <1>1, <1>4, ReturnedFile
  <2>3. c # 0 => f.path \in Names /\ Entry(f.path).cluster = c
                 /\ Directory[d][0][i].size = Entry(f.path).size
    BY <1>4
  <2>4. g = [f EXCEPT !.cluster = c, !.dir_cluster = d, !.dir_index = i]
    OBVIOUS
  <2> HIDE DEF f, g
  <2>2. /\ g.opened /\ g.perms = f.perms /\ g.path = f.path /\ g.ops = f.ops
        /\ g.cluster = c /\ g.dir_cluster = d /\ g.dir_index = i
    BY <2>1, <2>4 DEF File
  <2>5. OnVolumeFile(g) => OnFile(g)
    BY <2>1, <2>2, <2>3 DEF OnVolumeFile, OnFile, FileSize
  <2>6. files' \in [Tasks -> [Fds -> File]]
    BY <1>2, <2>1, OneFile
  <2>7. Shapes'
    BY <1>1, <1>2, <2>1, <2>6, AfterCall, KeepShapes
  <2>8. Handles'
    BY <1>2, <2>1, <2>2, <2>5, KeepHandles
  <2> QED BY <2>1, <2>7, <2>8, AfterCall DEF IInv
<1> QED BY <1>3, <1>4, ScanCases

LEMMA ClosedFile ==
  ASSUME NEW f \in File
  PROVE  LET g == ClosedFrom(f) IN
         g \in File /\ ~g.opened /\ g.ops = "none"
<1> DEFINE g == [f EXCEPT !.opened = FALSE, !.perms = {}, !.cfo = 0, !.path = f.path,
                          !.ops = "none"]
<1>1. ClosedFrom(f) \in File
  <2>1. FALSE \in BOOLEAN
    OBVIOUS
  <2>2. {} \in SUBSET {"R", "W"} /\ 0 \in Int
    OBVIOUS
  <2>3. "none" \in {"none", "stdin", "stdout", "fat32"}
    OBVIOUS
  <2>4. g \in File
    BY <2>1, <2>2, <2>3, FileFields, ChangedFile DEF File
  <2>5. ClosedFrom(f) = g
    BY DEF ClosedFrom, File
  <2> QED BY <2>4, <2>5
<1>2. ~ClosedFrom(f).opened
  BY DEF ClosedFrom, File
<1>3. ClosedFrom(f).ops = "none"
  BY DEF ClosedFrom, File
<1> QED BY <1>1, <1>2, <1>3

LEMMA CloseStep ==
  ASSUME IInv, SysClose
  PROVE  IInv'
<1>1. PICK fd \in UserFds : /\ files[current][fd].opened
                            /\ files' = [files EXCEPT ![current][fd] = ClosedFrom(@)]
  BY DEF SysClose
<1> DEFINE f == files[current][fd]
           g == ClosedFrom(f)
<1>2. /\ Shapes /\ Handles /\ current \in 1..task_num /\ current \in Tasks /\ fd \in Fds
      /\ f \in File
  BY FilesAssumption, Basics DEF IInv
<1>3. io = Idle /\ UNCHANGED <<task_num, current, disk, io>>
  BY DEF SysClose
<1>4. g \in File /\ ~g.opened /\ g.ops = "none"
  BY <1>2, ClosedFile
<1>5. files' = [files EXCEPT ![current][fd] = g]
  BY <1>1
<1> HIDE DEF f, g
<1>6. files' \in [Tasks -> [Fds -> File]]
  BY <1>2, <1>4, <1>5, OneFile
<1>7. Shapes'
  BY <1>2, <1>3, <1>6, AfterCall, KeepShapes
<1>8. Handles'
  BY <1>2, <1>3, <1>4, <1>5, WhenIdle, KeepHandles DEF OnVolumeFile
<1> QED BY <1>3, <1>7, <1>8, AfterCall DEF IInv

\* The position of one descriptor changes.
LEMMA MovedFile ==
  ASSUME Shapes, NEW fd \in Fds, NEW n \in Int,
         files' = [files EXCEPT ![current][fd].cfo = n]
  PROVE  LET f == files[current][fd]
             g == [f EXCEPT !.cfo = n]
         IN /\ f \in File /\ g \in File
            /\ files' = [files EXCEPT ![current][fd] = g]
            /\ g.opened = f.opened /\ g.perms = f.perms /\ g.cfo = n
            /\ g.path = f.path /\ g.ops = f.ops /\ g.cluster = f.cluster
            /\ g.dir_cluster = f.dir_cluster /\ g.dir_index = f.dir_index
<1> DEFINE f == files[current][fd]
           g == [f EXCEPT !.cfo = n]
<1>1. f \in File
  BY Basics
<1>2. files' = [files EXCEPT ![current][fd] = g]
  OBVIOUS
<1>3. g \in File
  BY <1>1 DEF File
<1>4. /\ g.opened = f.opened /\ g.perms = f.perms /\ g.cfo = n
      /\ g.path = f.path /\ g.ops = f.ops /\ g.cluster = f.cluster
      /\ g.dir_cluster = f.dir_cluster /\ g.dir_index = f.dir_index
  BY <1>1 DEF File
<1> QED BY <1>1, <1>2, <1>3, <1>4

LEMMA SeekStep ==
  ASSUME IInv, SysLseek
  PROVE  IInv'
<1>1. PICK fd \in UserFds, offset \in Seeks, whence \in {"SET", "CUR", "END"} :
        LET f == files[current][fd]
            base == [SET |-> 0, CUR |-> f.cfo, END |-> FileSize(f)]
        IN /\ Usable(fd) /\ f.opened
           /\ base[whence] + offset \in -1..FileSize(f)
           /\ files' = [files EXCEPT ![current][fd].cfo = base[whence] + offset]
  BY DEF SysLseek
<1> DEFINE f == files[current][fd]
           base == [SET |-> 0, CUR |-> f.cfo, END |-> FileSize(f)]
           n == base[whence] + offset
           g == [f EXCEPT !.cfo = n]
<1>2. /\ Shapes /\ Handles /\ current \in 1..task_num /\ current \in Tasks /\ fd \in Fds
  BY FilesAssumption, Basics DEF IInv
<1>3. io = Idle /\ UNCHANGED <<task_num, current, disk, io>>
  BY DEF SysLseek
<1>4. OnVolumeFile(f) /\ OnFile(f)
  BY <1>1, <1>2, <1>3, WhenIdle DEF Usable, OnVolumeFile
<1>5. n \in -1..FileSize(f) /\ files' = [files EXCEPT ![current][fd].cfo = n]
  BY <1>1
<1>6. FileSize(f) \in Nat
  BY <1>4, EntryFacts DEF OnFile
<1> HIDE DEF n
<1>7. n \in Int
  BY <1>5, <1>6
<1>8. /\ f \in File /\ g \in File
      /\ files' = [files EXCEPT ![current][fd] = g]
      /\ g.opened = f.opened /\ g.perms = f.perms /\ g.cfo = n
      /\ g.path = f.path /\ g.ops = f.ops /\ g.cluster = f.cluster
      /\ g.dir_cluster = f.dir_cluster /\ g.dir_index = f.dir_index
  BY <1>2, <1>5, <1>7, MovedFile
<1> HIDE DEF f, g
<1>9. OnFile(g) /\ g.opened
  BY <1>4, <1>8 DEF OnVolumeFile, OnFile, FileSize
<1>10. files' \in [Tasks -> [Fds -> File]]
  BY <1>2, <1>8, OneFile
<1>11. Shapes'
  BY <1>2, <1>3, <1>10, AfterCall, KeepShapes
<1>12. Handles'
  BY <1>2, <1>3, <1>8, <1>9, WhenIdle, KeepHandles
<1> QED BY <1>3, <1>11, <1>12, AfterCall DEF IInv

\* What is known of the file that is read or written.
LEMMA TheFile ==
  ASSUME IInv, io.op \in {"read", "write"}
  PROVE  LET f == files[current][io.fd] IN
         /\ current \in Tasks /\ io.fd \in Fds /\ f \in File
         /\ OnVolumeFile(f) /\ OnFile(f)
         /\ f.path \in Names /\ f.cfo \in Nat /\ io.done \in Nat /\ io.left \in Nat
         /\ f.cfo + io.done + io.left <= Entry(f.path).size
<1>1. current \in Tasks /\ io.fd \in Fds /\ files[current][io.fd] \in File
      /\ io.done \in Nat /\ io.left \in Nat
  BY Basics DEF IInv
<1>2. OnFile(files[current][io.fd])
  BY <1>1 DEF IInv, Handles, Moving, Opening
<1> QED BY <1>1, <1>2 DEF IInv, Moving, OnFile

\* A call of read or write on descriptor fd for len units, of which it gets left.
Begun(op, right, fd, len, left) ==
  LET f == files[current][fd] IN
  /\ io = Idle /\ UNCHANGED <<task_num, current, files, disk>>
  /\ OnVolumeFile(f) /\ OnFile(f) /\ right \in f.perms
  /\ f.cfo \in Nat /\ f.cfo < FileSize(f) /\ FileSize(f) \in Nat
  /\ f.cfo + left <= FileSize(f)
  /\ left = IF f.cfo + len > FileSize(f) THEN FileSize(f) - f.cfo ELSE len
  /\ io' = [Idle EXCEPT !.op = op, !.fd = fd, !.cluster = f.cluster,
              !.skip = f.cfo \div ClusterUnits,
              !.off = f.cfo % ClusterUnits, !.left = left]

LEMMA BeginFacts ==
  ASSUME IInv, NEW op \in {"read", "write"}, NEW right, Begin(op, right)
  PROVE  \E fd \in Fds, len \in 1..Len(Out), left \in 1..Len(Out) :
           Begun(op, right, fd, len, left)
<1>1. PICK fd \in UserFds, len \in 1..Len(Out) :
        LET f == files[current][fd] IN
        /\ Usable(fd) /\ f.opened /\ right \in f.perms
        /\ Inside(f)
        /\ io' = [Idle EXCEPT !.op = op, !.fd = fd, !.cluster = f.cluster,
                    !.skip = f.cfo \div ClusterUnits,
                    !.off = f.cfo % ClusterUnits,
                    !.left = IF f.cfo + len > FileSize(f) THEN FileSize(f) - f.cfo ELSE len]
  BY DEF Begin
<1> DEFINE f == files[current][fd]
           left == IF f.cfo + len > FileSize(f) THEN FileSize(f) - f.cfo ELSE len
<1>2. io = Idle /\ UNCHANGED <<task_num, current, files, disk>>
  BY DEF Begin
<1>3. fd \in Fds /\ current \in Tasks /\ f \in File
  BY FilesAssumption, Basics DEF IInv
<1>4. OnVolumeFile(f) /\ OnFile(f) /\ right \in f.perms
  BY <1>1, <1>2, <1>3, WhenIdle DEF Usable, OnVolumeFile
<1>5. FileSize(f) \in Nat /\ f.cfo \in Int
  BY <1>3, <1>4, EntryFacts, FileFields DEF OnFile
<1>6. f.cfo \in Nat /\ f.cfo < FileSize(f)
  BY <1>1, <1>5 DEF Inside
<1>7. /\ io' = [Idle EXCEPT !.op = op, !.fd = fd, !.cluster = f.cluster,
                  !.skip = f.cfo \div ClusterUnits,
                  !.off = f.cfo % ClusterUnits, !.left = left]
  BY <1>1
<1> HIDE DEF f
<1>8. left \in 1..Len(Out) /\ f.cfo + left <= FileSize(f)
  BY <1>5, <1>6
<1> HIDE DEF left
<1>9. Begun(op, right, fd, len, left)
  BY <1>2, <1>4, <1>5, <1>6, <1>7, <1>8 DEF f, left, Begun
<1> QED BY <1>3, <1>8, <1>9

LEMMA BeginStep ==
  ASSUME IInv, NEW op \in {"read", "write"}, NEW right, Begin(op, right)
  PROVE  IInv'
<1>1. PICK fd \in Fds, len \in 1..Len(Out), left \in 1..Len(Out) :
        Begun(op, right, fd, len, left)
  BY BeginFacts
<1> DEFINE f == files[current][fd]
<1>2. /\ io = Idle /\ UNCHANGED <<task_num, current, files, disk>>
      /\ OnVolumeFile(f) /\ OnFile(f) /\ f.cfo \in Nat
      /\ left \in 1..Len(Out) /\ f.cfo + left <= FileSize(f)
      /\ io' = [Idle EXCEPT !.op = op, !.fd = fd, !.cluster = f.cluster,
                  !.skip = f.cfo \div ClusterUnits,
                  !.off = f.cfo % ClusterUnits, !.left = left]
  BY <1>1 DEF Begun
<1>3. Shapes /\ Handles /\ current \in 1..task_num /\ files \in [Tasks -> [Fds -> File]]
      /\ f \in File
  BY Basics DEF IInv
<1> HIDE DEF f
<1>4. f.cfo \div ClusterUnits \in Nat /\ f.cfo % ClusterUnits \in Nat /\ left \in Nat \ {0}
      /\ f.cluster \in Nat
  <2>1. f.cfo % ClusterUnits \in 0..(ClusterUnits - 1) /\ f.cfo \div ClusterUnits \in Nat
    BY <1>2, Division, Sizes
  <2>2. f.cluster \in Nat
    BY <1>3, FileFields
  <2>3. left \in Nat \ {0}
    BY <1>2
  <2>4. f.cfo % ClusterUnits \in Nat
    BY <2>1, Sizes
  <2> QED BY <2>1, <2>2, <2>3, <2>4
<1>5. /\ io'.op = op /\ io'.fd = fd /\ io'.cluster = f.cluster
      /\ io'.skip = f.cfo \div ClusterUnits /\ io'.off = f.cfo % ClusterUnits
      /\ io'.left = left /\ io'.done = 0 /\ IoShape'
  BY <1>2, IdleShape DEF Idle, IoShape
<1>6. Shapes'
  BY <1>2, <1>3, <1>4, <1>5, KeepShapes
<1>7. Handles' /\ Scan'
  BY <1>2, <1>3, <1>5, WhenIdle DEF IInv, Handles, Opening, Scan
<1>8. Moving'
  <2>1. files'[current'][io'.fd] = f
    BY <1>2, <1>5 DEF f
  <2>2. f.cfo + 0 = f.cfo /\ 0 + left = left
        /\ (f.cfo \div ClusterUnits) - (f.cfo \div ClusterUnits) = 0
    BY <1>2, <1>4
  <2>3. f.cluster = Chain(f.path)[0] /\ FileSize(f) = Entry(f.path).size
    BY <1>2, ChainWalk DEF OnFile
  <2>4. f.cfo + left <= Entry(f.path).size
    BY <1>2, <2>3
  <2> DEFINE k == f.cfo \div ClusterUnits
             b == f.cfo % ClusterUnits
  <2>5. OnVolumeFile(f) /\ f.cfo \in Nat /\ left \in 1..Len(Out) /\ left > 0
    BY <1>2
  <2>6. io'.skip = k /\ io'.off = b /\ k - k = 0 /\ k \in Nat /\ 0 <= k
    BY <1>4, <1>5
  <2>7. (f.cfo + 0) \div ClusterUnits = k /\ (f.cfo + 0) % ClusterUnits = b
    BY <2>2
  <2> HIDE DEF k, b
  <2> QED BY <1>5, <2>1, <2>2, <2>3, <2>4, <2>5, <2>6, <2>7 DEF Moving
<1> QED BY <1>6, <1>7, <1>8 DEF IInv

LEMMA SkipStep ==
  ASSUME WithinReach, IInv, SkipCluster
  PROVE  IInv'
<1> DEFINE f == files[current][io.fd]
           pos == f.cfo + io.done
           q == pos \div ClusterUnits
           k == q - io.skip
<1>1. /\ io.op \in {"read", "write"} /\ io.skip > 0
      /\ io' = [io EXCEPT !.cluster = NextCluster(io.cluster), !.skip = io.skip - 1]
      /\ UNCHANGED <<task_num, current, files, disk>>
  BY DEF SkipCluster
<1>2. Shapes /\ Handles /\ Scan /\ Moving /\ current \in 1..task_num /\ io.fd \in Fds
      /\ files \in [Tasks -> [Fds -> File]]
      /\ io.skip \in Nat /\ io.off \in Nat /\ io.left \in Nat /\ io.done \in Nat
  BY Basics DEF IInv
<1>3. /\ f.path \in Names /\ f.cfo \in Nat /\ pos + io.left <= Entry(f.path).size
  BY <1>1, TheFile
<1>4. /\ io.left > 0 /\ io.done = 0 /\ io.skip <= q
      /\ io.cluster = Chain(f.path)[k]
  BY <1>1, <1>2 DEF Moving
<1>5. pos \in Nat /\ q \in Nat /\ pos < Entry(f.path).size
  <2>1. pos \in Nat
    BY <1>2, <1>3
  <2> HIDE DEF pos
  <2>2. q \in Nat
    BY <2>1, Division, Sizes
  <2>3. Entry(f.path).size \in Nat
    BY <1>3, EntryFacts
  <2>4. pos < Entry(f.path).size
    BY <1>2, <1>3, <1>4, <2>1, <2>3
  <2> QED BY <2>1, <2>2, <2>4
<1> HIDE DEF q, pos
<1>6. k \in Nat /\ k + 1 \in Nat /\ k <= q /\ k + 1 <= q /\ k + 1 = q - (io.skip - 1)
      /\ io.skip - 1 \in Nat
  <2>1. io.skip \in Nat /\ io.skip > 0 /\ io.skip <= q
    BY <1>1, <1>2, <1>4
  <2> QED BY <1>5, <2>1
<1> HIDE DEF k
<1>7. k \in Links(f.path) /\ k + 1 \in Links(f.path)
  BY <1>3, <1>5, <1>6, LinkFacts DEF q
<1>8. NextCluster(io.cluster) = Chain(f.path)[k + 1] /\ NextCluster(io.cluster) \in Nat
  BY <1>3, <1>4, <1>6, <1>7, NextLink, VolumeAssumption
<1>9. /\ io'.op = io.op /\ io'.fd = io.fd /\ io'.cluster = NextCluster(io.cluster)
      /\ io'.skip = io.skip - 1 /\ io'.off = io.off /\ io'.left = io.left
      /\ io'.done = io.done /\ IoShape'
  BY <1>1, <1>2 DEF Shapes, IoShape
<1>10. Shapes'
  BY <1>1, <1>2, <1>6, <1>8, <1>9, KeepShapes
<1>11. Handles' /\ Scan'
  BY <1>1, <1>2, <1>9 DEF Handles, Opening, Scan
<1>12. Moving'
  <2>1. f' = f /\ pos' = pos /\ q' = q
    BY <1>1, <1>9 DEF pos, q
  <2>2. io.skip - 1 <= q /\ (q - (io.skip - 1)) = k + 1
    BY <1>6, <1>2, <1>4, <1>5
  <2>3. /\ OnVolumeFile(f) /\ io.done + io.left \in 1..Len(Out)
        /\ io.off = pos % ClusterUnits
    BY <1>1, <1>2, <1>4 DEF Moving, pos
  <2>4. files'[current'][io'.fd] = f
    BY <1>1, <1>9
  <2> HIDE DEF f
  <2> QED BY <1>1, <1>3, <1>4, <1>8, <1>9, <2>2, <2>3, <2>4 DEF Moving, pos, q
<1> QED BY <1>10, <1>11, <1>12 DEF IInv

\* The units of one turn, and the place in the file after a sector.
LEMMA Piece ==
  ASSUME NEW unit \in Nat \ {0}, NEW b \in 0..(unit - 1), NEW left \in Nat \ {0},
         NEW n, n = IF unit - b > left THEN left ELSE unit - b
  PROVE  /\ n \in Nat \ {0} /\ n <= left /\ b + n <= unit
         /\ n < left => b + n = unit
<1>1. unit - b \in Nat \ {0} /\ b \in Nat
  OBVIOUS
<1>2. CASE unit - b > left
  BY <1>1, <1>2
<1>3. CASE ~(unit - b > left)
  BY <1>1, <1>3
<1> QED BY <1>2, <1>3

LEMMA SectorEnd ==
  ASSUME NEW pos \in Nat, NEW q \in Nat, NEW s \in Sectors, NEW b \in Nat, NEW n \in Nat,
         pos = q * ClusterUnits + (s * SectorUnits + b), b + n = SectorUnits
  PROVE  /\ pos + n \in Nat
         /\ s + 1 < SecPerCluster =>
              /\ (pos + n) \div ClusterUnits = q
              /\ (pos + n) % ClusterUnits = (s + 1) * SectorUnits
              /\ (s + 1) * SectorUnits \in Nat
         /\ s + 1 >= SecPerCluster =>
              (pos + n) \div ClusterUnits = q + 1 /\ (pos + n) % ClusterUnits = 0
<1>1. s \in Nat /\ s <= SecPerCluster - 1 /\ s + 1 \in Nat
  BY Sizes
<1>2. (s + 1) * SectorUnits = s * SectorUnits + SectorUnits
  BY <1>1, Sizes
<1> DEFINE base == q * ClusterUnits
           t == (s + 1) * SectorUnits
<1>3. base \in Nat /\ t \in Nat /\ s * SectorUnits \in Nat
  BY <1>1, Sizes
<1>4. pos + n = base + t
  <2>1. pos = base + (s * SectorUnits + b) /\ t = s * SectorUnits + SectorUnits
    BY <1>2
  <2> HIDE DEF base, t
  <2> QED BY <1>3, <2>1, Sizes
<1>5. pos + n \in Nat
  BY <1>3, <1>4
<1>6. ASSUME s + 1 < SecPerCluster
      PROVE  (pos + n) \div ClusterUnits = q /\ (pos + n) % ClusterUnits = t
  <2>1. s + 1 \in Sectors /\ 0 \in 0..(SectorUnits - 1)
    BY <1>1, <1>6, Sizes
  <2>2. t + 0 = t
    BY <1>3
  <2>3. pos + n = q * ClusterUnits + ((s + 1) * SectorUnits + 0)
    BY <1>4, <2>2
  <2> QED BY <2>1, <2>2, <2>3, UnitAt
<1>7. ASSUME s + 1 >= SecPerCluster
      PROVE  (pos + n) \div ClusterUnits = q + 1 /\ (pos + n) % ClusterUnits = 0
  <2>1. s + 1 = SecPerCluster
    BY <1>1, <1>7, Sizes
  <2>2. t = ClusterUnits
    BY <2>1, Sizes
  <2>3. (q + 1) * ClusterUnits = base + ClusterUnits
    BY Sizes
  <2>4. pos + n = (q + 1) * ClusterUnits + 0
    <3> HIDE DEF base, t
    <3> QED BY <1>3, <1>4, <2>2, <2>3, Sizes
  <2>5. q + 1 \in Nat /\ 0 \in 0..(ClusterUnits - 1)
    BY Sizes
  <2>6. ((q + 1) * ClusterUnits + 0) \div ClusterUnits = q + 1
        /\ ((q + 1) * ClusterUnits + 0) % ClusterUnits = 0
    BY <2>5, Sizes, DivisionUnique
  <2> QED BY <2>4, <2>6
<1> QED BY <1>3, <1>5, <1>6, <1>7

\* One turn of the loop over sectors: where in the volume and in the file it is.
LEMMA TurnFacts ==
  ASSUME IInv, CopySector
  PROVE  LET f == files[current][io.fd]
             pos == f.cfo + io.done
             q == pos \div ClusterUnits
             sec == io.off \div SectorUnits
             byte == io.off % SectorUnits
             n == IF SectorUnits - byte > io.left THEN io.left ELSE SectorUnits - byte
         IN /\ pos \in Nat /\ q \in Nat /\ sec \in Sectors /\ byte \in 0..(SectorUnits - 1)
            /\ pos = q * ClusterUnits + (sec * SectorUnits + byte)
            /\ q \in Links(f.path) /\ io.cluster = Chain(f.path)[q]
            /\ io.cluster \in DOMAIN DiskData
            /\ n \in Nat \ {0} /\ n <= io.left /\ byte + n <= SectorUnits
            /\ n < io.left => byte + n = SectorUnits
            /\ pos + n <= Entry(f.path).size
<1> DEFINE f == files[current][io.fd]
           pos == f.cfo + io.done
           q == pos \div ClusterUnits
           sec == io.off \div SectorUnits
           byte == io.off % SectorUnits
           n == IF SectorUnits - byte > io.left THEN io.left ELSE SectorUnits - byte
<1>1. io.op \in {"read", "write"} /\ io.skip = 0 /\ io.left > 0
  BY DEF CopySector
<1>2. /\ f.path \in Names /\ f.cfo \in Nat /\ io.done \in Nat /\ io.left \in Nat
      /\ pos + io.left <= Entry(f.path).size
  BY <1>1, TheFile
<1>3. pos \in Nat
  BY <1>2
<1>4. io.cluster = Chain(f.path)[q - 0] /\ io.off = pos % ClusterUnits
  BY <1>1 DEF IInv, Moving
<1> HIDE DEF pos
<1>5. PICK a \in Nat, s \in Sectors, b \in 0..(SectorUnits - 1) :
        pos = a * ClusterUnits + (s * SectorUnits + b)
  BY <1>3, UnitPlace
<1>6. q = a /\ sec = s /\ byte = b
  BY <1>4, <1>5, UnitAt
<1>7. q \in Nat /\ sec \in Sectors /\ byte \in 0..(SectorUnits - 1)
      /\ pos = q * ClusterUnits + (sec * SectorUnits + byte)
  BY <1>5, <1>6
<1>8. Entry(f.path).size \in Nat
  BY <1>2, EntryFacts
<1>9. q \in Links(f.path)
  <2>1. pos < Entry(f.path).size
    BY <1>1, <1>2, <1>3, <1>8
  <2>2. q <= q
    BY <1>7
  <2> QED BY <1>2, <1>3, <1>7, <2>1, <2>2, LinkFacts
<1> HIDE DEF q, sec, byte
<1>10. io.cluster = Chain(f.path)[q] /\ io.cluster \in DOMAIN DiskData
  BY <1>2, <1>4, <1>7, <1>9, VolumeAssumption
<1>11. /\ n \in Nat \ {0} /\ n <= io.left /\ byte + n <= SectorUnits
       /\ n < io.left => byte + n = SectorUnits
  <2>1. n = IF SectorUnits - byte > io.left THEN io.left ELSE SectorUnits - byte
    OBVIOUS
  <2> HIDE DEF n
  <2>2. io.left \in Nat \ {0} /\ SectorUnits \in Nat \ {0}
    BY <1>1, <1>2, Sizes
  <2> QED BY <1>7, <2>1, <2>2, Piece
<1> HIDE DEF n
<1>12. pos + n <= Entry(f.path).size
  BY <1>2, <1>3, <1>8, <1>11
<1> HIDE DEF f
<1> QED BY <1>3, <1>7, <1>9, <1>10, <1>11, <1>12 DEF f, pos, q, sec, byte, n

\* And where it leads: the place in the file moves on by the n units, and the
\* cluster and the offset with it.
LEMMA TurnMoves ==
  ASSUME WithinReach, IInv, CopySector
  PROVE  LET f == files[current][io.fd]
             pos == f.cfo + io.done
             byte == io.off % SectorUnits
             n == IF SectorUnits - byte > io.left THEN io.left ELSE SectorUnits - byte
         IN /\ UNCHANGED <<task_num, current, files>> /\ IoShape'
            /\ io'.op = io.op /\ io'.fd = io.fd /\ io'.skip = 0
            /\ io'.left = io.left - n /\ io'.done = io.done + n
            /\ io'.cluster \in Nat /\ io'.off \in Nat
            /\ io'.left > 0 => /\ io'.cluster = Chain(f.path)[(pos + n) \div ClusterUnits]
                               /\ io'.off = (pos + n) % ClusterUnits
<1> DEFINE f == files[current][io.fd]
           pos == f.cfo + io.done
           q == pos \div ClusterUnits
           sec == io.off \div SectorUnits
           byte == io.off % SectorUnits
           n == IF SectorUnits - byte > io.left THEN io.left ELSE SectorUnits - byte
           more == sec + 1 < SecPerCluster /\ io.left > n
           next == IF more THEN [io EXCEPT !.off = (sec + 1) * SectorUnits]
                   ELSE [io EXCEPT !.off = 0, !.cluster = NextCluster(io.cluster)]
           moved == [next EXCEPT !.left = next.left - n, !.done = next.done + n]
<1>1. /\ pos \in Nat /\ q \in Nat /\ sec \in Sectors /\ byte \in 0..(SectorUnits - 1)
      /\ pos = q * ClusterUnits + (sec * SectorUnits + byte)
      /\ q \in Links(f.path) /\ io.cluster = Chain(f.path)[q]
      /\ io.cluster \in DOMAIN DiskData
      /\ n \in Nat \ {0} /\ n <= io.left /\ byte + n <= SectorUnits
      /\ n < io.left => byte + n = SectorUnits
      /\ pos + n <= Entry(f.path).size
  BY TurnFacts
<1>2. /\ io.op \in {"read", "write"} /\ io.skip = 0 /\ io.left > 0
      /\ UNCHANGED <<task_num, current, files>>
  BY DEF CopySector
<1>3. IoShape /\ io.left \in Nat /\ io.done \in Nat
  BY Basics DEF IInv, Shapes
<1>4. \E b : io' = [moved EXCEPT !.buf = b]
  <2>1. CASE io.op = "read"
    BY <2>1 DEF CopySector
  <2>2. CASE io.op # "read"
    <3>1. io' = moved
      BY <2>2 DEF CopySector
    <3>2. moved = [moved EXCEPT !.buf = moved.buf]
      <4>1. DOMAIN moved = DOMAIN io /\ "buf" \in DOMAIN io
        BY <1>3 DEF IoShape
      <4>2. moved = [x \in DOMAIN moved |-> moved[x]]
        OBVIOUS
      <4> HIDE DEF moved
      <4> QED BY <4>1, <4>2
    <3> QED BY <3>1, <3>2
  <2> QED BY <2>1, <2>2
<1>5. /\ f.path \in Names /\ f.cfo \in Nat /\ Entry(f.path).size \in Nat
      /\ pos + io.left <= Entry(f.path).size
  BY <1>2, TheFile, EntryFacts
<1> HIDE DEF f, pos, q, sec, byte, n
<1>6. byte \in Nat /\ n \in Nat /\ io.cluster \in Nat /\ sec + 1 \in Nat
  <2>1. io.cluster \in DOMAIN Directory \cup DOMAIN DiskData
    BY <1>1
  <2>2. io.cluster \in Nat
    BY <2>1, VolumeAssumption
  <2> QED BY <1>1, <2>2, Sizes
<1>7. n < io.left =>
        /\ pos + n \in Nat
        /\ sec + 1 < SecPerCluster =>
             /\ (pos + n) \div ClusterUnits = q
             /\ (pos + n) % ClusterUnits = (sec + 1) * SectorUnits
             /\ (sec + 1) * SectorUnits \in Nat
        /\ sec + 1 >= SecPerCluster =>
             (pos + n) \div ClusterUnits = q + 1 /\ (pos + n) % ClusterUnits = 0
  <2>1. SUFFICES ASSUME n < io.left
                 PROVE  /\ pos + n \in Nat
                        /\ sec + 1 < SecPerCluster =>
                             /\ (pos + n) \div ClusterUnits = q
                             /\ (pos + n) % ClusterUnits = (sec + 1) * SectorUnits
                             /\ (sec + 1) * SectorUnits \in Nat
                        /\ sec + 1 >= SecPerCluster =>
                             /\ (pos + n) \div ClusterUnits = q + 1
                             /\ (pos + n) % ClusterUnits = 0
    OBVIOUS
  <2>2. byte + n = SectorUnits
    BY <1>1, <2>1
  <2>3. pos = q * ClusterUnits + (sec * SectorUnits + byte) /\ q \in Nat /\ sec \in Sectors
    BY <1>1
  <2>4. pos \in Nat /\ byte \in Nat /\ n \in Nat
    BY <1>1, <1>6
  <2> HIDE DEF more, next, moved
  <2>5. pos + n \in Nat
    BY <2>4
  <2>6. ASSUME sec + 1 < SecPerCluster
        PROVE  /\ (pos + n) \div ClusterUnits = q
               /\ (pos + n) % ClusterUnits = (sec + 1) * SectorUnits
               /\ (sec + 1) * SectorUnits \in Nat
    BY <2>2, <2>3, <2>4, <2>6, SectorEnd
  <2>7. ASSUME sec + 1 >= SecPerCluster
        PROVE  (pos + n) \div ClusterUnits = q + 1 /\ (pos + n) % ClusterUnits = 0
    BY <2>2, <2>3, <2>4, <2>7, SectorEnd
  <2> QED BY <2>5, <2>6, <2>7
<1>8. CASE more
  <2>1. /\ io'.op = io.op /\ io'.fd = io.fd /\ io'.skip = 0
        /\ io'.left = io.left - n /\ io'.done = io.done + n
        /\ io'.cluster = io.cluster /\ io'.off = (sec + 1) * SectorUnits /\ IoShape'
    BY <1>2, <1>3, <1>4, <1>8 DEF IoShape
  <2> HIDE DEF next, moved
  <2>2. n < io.left /\ sec + 1 < SecPerCluster
    BY <1>3, <1>6, <1>8
  <2>3. io'.off = (pos + n) % ClusterUnits /\ io'.off \in Nat /\ io'.cluster \in Nat
        /\ io'.cluster = Chain(f.path)[(pos + n) \div ClusterUnits]
    BY <1>1, <1>6, <1>7, <2>1, <2>2
  <2> QED BY <1>2, <2>1, <2>3 DEF f, pos, byte, n
<1>9. CASE ~more
  <2>1. /\ io'.op = io.op /\ io'.fd = io.fd /\ io'.skip = 0
        /\ io'.left = io.left - n /\ io'.done = io.done + n
        /\ io'.cluster = NextCluster(io.cluster) /\ io'.off = 0 /\ IoShape'
    BY <1>2, <1>3, <1>4, <1>9 DEF IoShape
  <2> HIDE DEF next, moved
  <2>2. io'.cluster \in Nat
    <3>1. io.cluster \in DOMAIN Directory \cup DOMAIN DiskData
      BY <1>1
    <3> QED BY <2>1, <3>1, VolumeAssumption
  <2>3. ASSUME io'.left > 0
        PROVE  /\ io'.cluster = Chain(f.path)[(pos + n) \div ClusterUnits]
               /\ io'.off = (pos + n) % ClusterUnits
    <3>1. n < io.left
      BY <1>3, <1>6, <2>1, <2>3
    <3>2. sec + 1 >= SecPerCluster
      BY <1>3, <1>6, <1>9, <3>1, Sizes
    <3>3. pos + n \in Nat /\ (pos + n) \div ClusterUnits = q + 1
          /\ (pos + n) % ClusterUnits = 0
      BY <1>7, <3>1, <3>2
    <3>4. pos + n < Entry(f.path).size
      BY <1>1, <1>3, <1>5, <1>6, <3>1
    <3>5. q + 1 \in Nat /\ q + 1 <= (pos + n) \div ClusterUnits
      BY <1>1, <3>3
    <3>6. q + 1 \in Links(f.path)
      BY <1>5, <3>3, <3>4, <3>5, LinkFacts
    <3>7. NextCluster(io.cluster) = Chain(f.path)[q + 1]
      BY <1>1, <1>5, <3>6, NextLink
    <3> QED BY <2>1, <3>3, <3>7
  <2> QED BY <1>2, <2>1, <2>2, <2>3 DEF f, pos, byte, n
<1> QED BY <1>8, <1>9

\* What a turn makes of the disk.
LEMMA TurnWrites ==
  ASSUME IInv, CopySector
  PROVE  LET f == files[current][io.fd]
             sec == io.off \div SectorUnits
             byte == io.off % SectorUnits
             n == IF SectorUnits - byte > io.left THEN io.left ELSE SectorUnits - byte
             data == SubSeq(Out, io.done + 1, io.done + n)
         IN /\ DiskShape'
            /\ io.op = "read" => UNCHANGED disk
            /\ io.op # "read" =>
                 \A c \in DOMAIN disk : \A s \in Sectors : \A u \in 0..(SectorUnits - 1) :
                   disk'[c][s][u] =
                     IF c = io.cluster /\ s = sec /\ u \in byte .. byte + n - 1
                     THEN data[u - byte + 1] ELSE disk[c][s][u]
<1> DEFINE f == files[current][io.fd]
           sec == io.off \div SectorUnits
           byte == io.off % SectorUnits
           n == IF SectorUnits - byte > io.left THEN io.left ELSE SectorUnits - byte
           data == SubSeq(Out, io.done + 1, io.done + n)
           P == Patched(disk[io.cluster][sec], byte, n, data)
<1>1. DiskShape
  BY DEF IInv, Shapes
<1>2. io.cluster \in DOMAIN disk /\ sec \in Sectors
  BY <1>1, TurnFacts DEF DiskShape
<1>3. CASE io.op = "read"
  BY <1>1, <1>3 DEF CopySector, DiskShape
<1>4. CASE io.op # "read"
  <2>1. disk' = [disk EXCEPT ![io.cluster][sec] = P]
    BY <1>4 DEF CopySector
  <2> HIDE DEF P, sec, byte, n, data
  <2>2. DOMAIN P = 0..(SectorUnits - 1)
        /\ \A u \in 0..(SectorUnits - 1) :
             P[u] = IF u \in byte .. byte + n - 1 THEN data[u - byte + 1]
                    ELSE disk[io.cluster][sec][u]
    BY <1>1, <1>2 DEF P, Patched, DiskShape
  <2>3. disk' = [disk EXCEPT ![io.cluster] = [disk[io.cluster] EXCEPT ![sec] = P]]
    BY <2>1
  <2>4. /\ DOMAIN disk' = DOMAIN disk
        /\ \A c \in DOMAIN disk :
             disk'[c] = IF c = io.cluster THEN [disk[io.cluster] EXCEPT ![sec] = P] ELSE disk[c]
    BY <2>3
  <2>5. \A c \in DOMAIN disk : /\ DOMAIN disk'[c] = Sectors
                               /\ \A s \in Sectors : disk'[c][s] =
                                    IF c = io.cluster /\ s = sec THEN P ELSE disk[c][s]
    BY <1>1, <1>2, <2>4 DEF DiskShape
  <2>6. DiskShape'
    BY <1>1, <2>2, <2>4, <2>5 DEF DiskShape
  <2>7. \A c \in DOMAIN disk : \A s \in Sectors : \A u \in 0..(SectorUnits - 1) :
          disk'[c][s][u] = IF c = io.cluster /\ s = sec /\ u \in byte .. byte + n - 1
                           THEN data[u - byte + 1] ELSE disk[c][s][u]
    BY <2>2, <2>5
  <2> QED BY <1>4, <2>6, <2>7 DEF sec, byte, n, data
<1> QED BY <1>3, <1>4

LEMMA CopyStep ==
  ASSUME WithinReach, IInv, CopySector
  PROVE  IInv'
<1> DEFINE f == files[current][io.fd]
           pos == f.cfo + io.done
           byte == io.off % SectorUnits
           n == IF SectorUnits - byte > io.left THEN io.left ELSE SectorUnits - byte
<1>1. /\ UNCHANGED <<task_num, current, files>> /\ IoShape'
      /\ io'.op = io.op /\ io'.fd = io.fd /\ io'.skip = 0
      /\ io'.left = io.left - n /\ io'.done = io.done + n
      /\ io'.cluster \in Nat /\ io'.off \in Nat
      /\ io'.left > 0 => /\ io'.cluster = Chain(f.path)[(pos + n) \div ClusterUnits]
                         /\ io'.off = (pos + n) % ClusterUnits
  BY TurnMoves
<1>2. /\ pos \in Nat /\ n \in Nat \ {0} /\ n <= io.left
      /\ pos + n <= Entry(f.path).size
  BY TurnFacts
<1>3. io.op \in {"read", "write"} /\ io.left > 0
  BY DEF CopySector
<1>4. DiskShape'
  BY TurnWrites
<1>5. Shapes /\ Handles /\ Scan /\ Moving /\ io.left \in Nat /\ io.done \in Nat
      /\ io.fd \in Fds /\ task_num \in Tasks /\ current \in Tasks
      /\ files \in [Tasks -> [Fds -> File]] /\ current \in 1..task_num
  BY Basics DEF IInv
<1>6. f.cfo \in Nat /\ Entry(f.path).size \in Nat /\ OnVolumeFile(f)
      /\ pos + io.left <= Entry(f.path).size
  BY <1>3, TheFile, EntryFacts
<1>7. io.done + io.left \in 1..Len(Out)
  BY <1>3, <1>5 DEF Moving
<1>8. files'[current'][io'.fd] = f
  BY <1>1
<1> HIDE DEF n, f
<1>9. io.left - n \in Nat /\ io.done + n \in Nat
  BY <1>2, <1>5
<1>10. Shapes'
  <2>1. TypeOK'
    <3>1. DOMAIN disk' = DOMAIN DiskData
      BY <1>4 DEF DiskShape
    <3>2. {io'.cluster, io'.skip, io'.off, io'.left, io'.done} \subseteq Nat
      BY <1>1, <1>9
    <3> QED BY <1>1, <1>3, <1>5, <3>1, <3>2 DEF TypeOK
  <2> QED BY <1>1, <1>3, <1>4, <1>5, <2>1 DEF Shapes
<1>11. Handles' /\ Scan'
  BY <1>1, <1>3, <1>5 DEF Handles, Opening, Scan
<1>12. Moving'
  <2>1. f.cfo + (io.done + n) = pos + n /\ (io.done + n) + (io.left - n) = io.done + io.left
        /\ (pos + n) + (io.left - n) = pos + io.left
    BY <1>2, <1>5, <1>6
  <2>2. pos + io.left \in Nat
    BY <1>2, <1>5
  <2> DEFINE q2 == (pos + n) \div ClusterUnits
  <2>3. q2 \in Nat
    <3>1. pos + n \in Nat
      BY <1>2
    <3> QED BY <3>1, Division, Sizes
  <2>4. q2 - 0 = q2 /\ 0 <= q2
    BY <2>3
  <2> HIDE DEF q2
  <2>5. ASSUME io'.left > 0
        PROVE  /\ io'.skip <= q2 /\ io'.cluster = Chain(f.path)[q2 - io'.skip]
               /\ io'.off = (pos + n) % ClusterUnits
    BY <1>1, <2>4, <2>5 DEF q2
  <2>6. f.cfo + io'.done = pos + n /\ ~(io'.skip > 0) /\ io'.done + io'.left \in 1..Len(Out)
        /\ f.cfo + io'.done + io'.left <= Entry(f.path).size
    BY <1>1, <1>6, <1>7, <2>1
  <2> HIDE DEF pos
  <2> QED BY <1>6, <1>8, <2>5, <2>6 DEF Moving, q2
<1> QED BY <1>10, <1>11, <1>12 DEF IInv

LEMMA ReturnStep ==
  ASSUME IInv, Return
  PROVE  IInv'
<1> DEFINE f == files[current][io.fd]
           n == f.cfo + io.done
           g == [f EXCEPT !.cfo = n]
<1>1. io.op \in {"read", "write"} /\ io' = Idle /\ UNCHANGED <<task_num, current, disk>>
      /\ files' = [files EXCEPT ![current][io.fd].cfo = n]
  BY DEF Return
<1>2. Shapes /\ Handles /\ current \in 1..task_num /\ current \in Tasks /\ io.fd \in Fds
  BY Basics DEF IInv
<1>3. OnVolumeFile(f) /\ OnFile(f) /\ f.cfo \in Nat /\ io.done \in Nat
  BY <1>1, TheFile
<1>4. n \in Int
  BY <1>3
<1> HIDE DEF n
<1>5. /\ f \in File /\ g \in File
      /\ files' = [files EXCEPT ![current][io.fd] = g]
      /\ g.opened = f.opened /\ g.perms = f.perms /\ g.cfo = n
      /\ g.path = f.path /\ g.ops = f.ops /\ g.cluster = f.cluster
      /\ g.dir_cluster = f.dir_cluster /\ g.dir_index = f.dir_index
  BY <1>1, <1>2, <1>4, MovedFile
<1> HIDE DEF f, g
<1>6. OnFile(g) /\ g.opened
  BY <1>3, <1>5 DEF OnVolumeFile, OnFile, FileSize
<1>7. files' \in [Tasks -> [Fds -> File]]
  BY <1>2, <1>5, OneFile
<1>8. Shapes'
  BY <1>1, <1>2, <1>7, AfterCall, KeepShapes
<1>9. Handles'
  BY <1>1, <1>2, <1>5, <1>6, KeepHandles
<1> QED BY <1>1, <1>8, <1>9, AfterCall DEF IInv

LEMMA ForkStep ==
  ASSUME IInv, DoFork
  PROVE  IInv'
<1>1. /\ io = Idle /\ task_num + 1 \in Tasks /\ task_num' = task_num + 1
      /\ files' = [files EXCEPT ![task_num + 1] = files[current]]
      /\ UNCHANGED <<current, disk, io>>
  BY DEF DoFork, CopiedFiles
<1>2. Shapes /\ Handles /\ current \in 1..task_num /\ current \in Tasks
      /\ task_num \in Nat /\ files \in [Tasks -> [Fds -> File]]
  BY Basics DEF IInv
<1>3. files' \in [Tasks -> [Fds -> File]]
      /\ \A p \in Tasks : files'[p] = IF p = task_num + 1 THEN files[current] ELSE files[p]
  BY <1>1, <1>2
<1>4. current' \in 1..task_num'
  BY <1>1, <1>2
<1>5. TypeOK'
  BY <1>1, <1>2, <1>3 DEF Shapes, TypeOK
<1>6. Shapes'
  BY <1>1, <1>2, <1>4, <1>5 DEF Shapes, IoShape, DiskShape
<1>7. Handles'
  <2>1. \A p \in Tasks, fd \in Fds :
          /\ ~files[p][fd].opened => files[p][fd].ops = "none"
          /\ OnVolumeFile(files[p][fd]) => OnFile(files[p][fd])
    BY <1>1, <1>2, WhenIdle DEF Handles
  <2>2. \A p \in Tasks, fd \in Fds :
          /\ ~files'[p][fd].opened => files'[p][fd].ops = "none"
          /\ OnVolumeFile(files'[p][fd]) => OnFile(files'[p][fd])
    BY <1>2, <1>3, <2>1
  <2> QED BY <2>2 DEF Handles, OnVolumeFile, OnFile, FileSize
<1> QED BY <1>1, <1>6, <1>7, AfterCall DEF IInv

LEMMA SwitchStep ==
  ASSUME IInv, Switch
  PROVE  IInv'
<1>1. /\ io = Idle /\ current' \in 1..task_num /\ UNCHANGED <<task_num, files, disk, io>>
  BY DEF Switch
<1>2. Shapes /\ Handles /\ files' \in [Tasks -> [Fds -> File]]
  BY <1>1, Basics DEF IInv
<1>3. Shapes'
  BY <1>1, <1>2, AfterCall, KeepShapes
<1>4. Handles'
  BY <1>1, <1>2, IdleShape DEF Handles, Opening
<1> QED BY <1>1, <1>3, <1>4, AfterCall DEF IInv

LEMMA StepIInv ==
  ASSUME WithinReach, IInv, [Next]_vars
  PROVE  IInv'
<1>1. CASE SysOpen
  BY <1>1, OpenStep
<1>2. CASE SysClose
  BY <1>2, CloseStep
<1>3. CASE SysLseek
  BY <1>3, SeekStep
<1>4. CASE SysRead \/ SysWrite
  <2>1. "read" \in {"read", "write"} /\ "write" \in {"read", "write"}
    OBVIOUS
  <2>2. CASE SysRead
    BY <2>1, <2>2, BeginStep DEF SysRead
  <2>3. CASE SysWrite
    BY <2>1, <2>3, BeginStep DEF SysWrite
  <2> QED BY <1>4, <2>2, <2>3
<1>5. CASE DoFork
  BY <1>5, ForkStep
<1>6. CASE Switch
  BY <1>6, SwitchStep
<1>7. CASE ScanCluster
  BY <1>7, ScanStep
<1>8. CASE SkipCluster
  BY <1>8, SkipStep
<1>9. CASE CopySector
  BY <1>9, CopyStep
<1>10. CASE Return
  BY <1>10, ReturnStep
<1>11. CASE UNCHANGED vars
  <2>1. UNCHANGED <<task_num, current, files, disk, io>>
    BY <1>11 DEF vars
  <2>2. Shapes'
    BY <2>1 DEF IInv, Shapes, TypeOK, IoShape, DiskShape
  <2>3. Handles' /\ Scan'
    BY <2>1 DEF IInv, Handles, Opening, OnVolumeFile, OnFile, FileSize, Scan
  <2>4. Moving'
    BY <2>1 DEF IInv, Moving, OnVolumeFile, OnFile, FileSize
  <2> QED BY <2>2, <2>3, <2>4 DEF IInv
<1> QED BY <1>1, <1>2, <1>3, <1>4, <1>5, <1>6, <1>7, <1>8, <1>9, <1>10, <1>11
        DEF Next, Running

\* The inductive invariant holds in every reachable state.
THEOREM AlwaysIInv == WithinReach => (Spec => []IInv)
<1> SUFFICES ASSUME WithinReach PROVE Spec => []IInv
  OBVIOUS
<1>1. Init => IInv
  BY InitIInv
<1>2. IInv /\ [Next]_vars => IInv'
  BY StepIInv
<1> QED BY <1>1, <1>2, PTL DEF Spec

-----------------------------------------------------------------------------
(* Data that belongs to no file                                            *)

\* Where the unit after the first x of a file is.
LEMMA UnitPlaced ==
  ASSUME NEW name \in Names, NEW x \in Nat, x < Entry(name).size
  PROVE  /\ DOMAIN Place[name] = 1..Entry(name).size /\ x + 1 \in 1..Entry(name).size
         /\ Place[name][x + 1] = <<Chain(name)[x \div ClusterUnits],
                                   (x % ClusterUnits) \div SectorUnits, x % SectorUnits>>
         /\ Place[name][x + 1] \in Owned
         /\ x \div ClusterUnits \in Links(name) /\ x \div ClusterUnits \in Nat
         /\ Chain(name)[x \div ClusterUnits] \in DOMAIN DiskData
<1>1. Entry(name).size \in Nat /\ x + 1 \in 1..Entry(name).size /\ (x + 1) - 1 = x
  BY EntryFacts
<1>2. Place[name] = [i \in 1..Entry(name).size |->
        <<Chain(name)[(i - 1) \div ClusterUnits], ((i - 1) % ClusterUnits) \div SectorUnits,
          (i - 1) % SectorUnits>>]
  BY DEF Place
<1>3. Place[name][x + 1] = <<Chain(name)[x \div ClusterUnits],
                             (x % ClusterUnits) \div SectorUnits, x % SectorUnits>>
  BY <1>1, <1>2
<1>4. DOMAIN Place[name] = 1..Entry(name).size
  BY <1>2
<1>5. Place[name][x + 1] \in Range(Place[name])
  BY <1>1, <1>4 DEF Range
<1>6. Place[name][x + 1] \in Owned
  BY <1>5 DEF Owned
<1>7. x \div ClusterUnits \in Nat
  BY Division, Sizes
<1>8. x \div ClusterUnits \in Links(name)
  <2>1. x \div ClusterUnits <= x \div ClusterUnits
    BY <1>7
  <2> QED BY <1>7, <2>1, LinkFacts
<1> QED BY <1>1, <1>3, <1>4, <1>6, <1>7, <1>8, VolumeAssumption

\* The units that one turn copies are those of its sector from byte on.
LEMMA TurnUnit ==
  ASSUME IInv, CopySector
  PROVE  LET f == files[current][io.fd]
             pos == f.cfo + io.done
             sec == io.off \div SectorUnits
             byte == io.off % SectorUnits
             n == IF SectorUnits - byte > io.left THEN io.left ELSE SectorUnits - byte
         IN \A j \in 0..(n - 1) :
              /\ pos + j \in Nat /\ pos + j < Entry(f.path).size
              /\ (pos + j) \div ClusterUnits = pos \div ClusterUnits
              /\ Place[f.path][pos + j + 1] = <<io.cluster, sec, byte + j>>
              /\ byte + j \in 0..(SectorUnits - 1)
              /\ <<io.cluster, sec, byte + j>> \in Owned
<1> DEFINE f == files[current][io.fd]
           pos == f.cfo + io.done
           q == pos \div ClusterUnits
           sec == io.off \div SectorUnits
           byte == io.off % SectorUnits
           n == IF SectorUnits - byte > io.left THEN io.left ELSE SectorUnits - byte
<1>1. /\ pos \in Nat /\ q \in Nat /\ sec \in Sectors /\ byte \in 0..(SectorUnits - 1)
      /\ pos = q * ClusterUnits + (sec * SectorUnits + byte)
      /\ q \in Links(f.path) /\ io.cluster = Chain(f.path)[q]
      /\ n \in Nat \ {0} /\ byte + n <= SectorUnits
      /\ pos + n <= Entry(f.path).size
  BY TurnFacts
<1>2. f.path \in Names /\ Entry(f.path).size \in Nat
  BY TheFile, EntryFacts DEF CopySector
<1> HIDE DEF f, pos, q, sec, byte, n
<1>3. ASSUME NEW j \in 0..(n - 1)
      PROVE  /\ pos + j \in Nat /\ pos + j < Entry(f.path).size
             /\ (pos + j) \div ClusterUnits = q
             /\ Place[f.path][pos + j + 1] = <<io.cluster, sec, byte + j>>
             /\ byte + j \in 0..(SectorUnits - 1)
             /\ <<io.cluster, sec, byte + j>> \in Owned
  <2> DEFINE x == pos + j
  <2>1. x \in Nat /\ x < Entry(f.path).size /\ byte + j \in 0..(SectorUnits - 1)
    <3>1. pos \in Nat /\ n \in Nat /\ j \in Nat /\ j < n /\ byte \in Nat
      BY <1>1, <1>3, Sizes
    <3>2. pos + n <= Entry(f.path).size /\ byte + n <= SectorUnits
      BY <1>1
    <3> QED BY <1>2, <3>1, <3>2, Sizes
  <2>2. x = q * ClusterUnits + (sec * SectorUnits + (byte + j))
    <3>1. q * ClusterUnits \in Nat /\ sec * SectorUnits \in Nat /\ byte \in Nat /\ j \in Nat
      BY <1>1, Sizes
    <3> QED BY <1>1, <3>1
  <2> HIDE DEF x
  <2>3. /\ x \div ClusterUnits = q /\ (x % ClusterUnits) \div SectorUnits = sec
        /\ x % SectorUnits = byte + j
    BY <1>1, <2>1, <2>2, UnitAt
  <2>4. /\ Place[f.path][x + 1] = <<Chain(f.path)[q], sec, byte + j>>
        /\ Place[f.path][x + 1] \in Owned
    BY <1>2, <2>1, <2>3, UnitPlaced
  <2>5. /\ Place[f.path][x + 1] = <<io.cluster, sec, byte + j>>
        /\ <<io.cluster, sec, byte + j>> \in Owned
    BY <1>1, <2>4
  <2> QED BY <2>1, <2>3, <2>5 DEF x
<1> QED BY <1>3 DEF f, pos, q, sec, byte, n

LEMMA StepKeepsOthers ==
  ASSUME IInv, OtherDataKept, [Next]_vars, TypeOK'
  PROVE  OtherDataKept'
<1>1. SUFFICES ASSUME NEW c \in DOMAIN DiskData, NEW s \in Sectors,
                      NEW u \in 0..(SectorUnits - 1), <<c, s, u>> \notin Owned
               PROVE  disk'[c][s][u] = DiskData[c][s][u]
  BY DEF OtherDataKept, TypeOK
<1>2. disk[c][s][u] = DiskData[c][s][u] /\ DOMAIN disk = DOMAIN DiskData
  BY <1>1 DEF OtherDataKept, TypeOK
<1>3. CASE UNCHANGED disk
  BY <1>2, <1>3
<1>4. CASE CopySector
  <2> DEFINE sec == io.off \div SectorUnits
             byte == io.off % SectorUnits
             n == IF SectorUnits - byte > io.left THEN io.left ELSE SectorUnits - byte
  <2>1. \/ UNCHANGED disk
        \/ disk'[c][s][u] = disk[c][s][u]
        \/ c = io.cluster /\ s = sec /\ u \in byte .. byte + n - 1
    BY <1>2, <1>4, TurnWrites
  <2>2. CASE c = io.cluster /\ s = sec /\ u \in byte .. byte + n - 1
    <3>1. byte \in Nat /\ n \in Nat
      <4>1. byte \in 0..(SectorUnits - 1) /\ n \in Nat \ {0}
        BY <1>4, TurnFacts
      <4> HIDE DEF byte, n
      <4> QED BY <4>1, Sizes
    <3>2. \A j \in 0..(n - 1) : <<io.cluster, sec, byte + j>> \in Owned
      BY <1>4, TurnUnit
    <3> HIDE DEF sec, byte, n
    <3>3. u - byte \in 0..(n - 1) /\ byte + (u - byte) = u
      BY <2>2, <3>1
    <3> QED BY <1>1, <2>2, <3>2, <3>3
  <2> QED BY <1>2, <2>1, <2>2
<1>5. CopySector \/ UNCHANGED disk
  BY DEF Next, vars, SysOpen, SysClose, SysLseek, SysRead, SysWrite, Begin, DoFork, Switch,
         Running, ScanCluster, SkipCluster, Return
<1> QED BY <1>3, <1>4, <1>5

\* On a sound volume within next_cluster's reach the state keeps its types, and no
\* call changes data that belongs to no file: fat32_write stays inside the size
\* of its file, in the clusters of its own chain.
THEOREM OthersKept == WithinReach => (Spec => []OtherDataKept)
<1> SUFFICES ASSUME WithinReach PROVE Spec => []OtherDataKept
  OBVIOUS
<1>1. Init => IInv /\ OtherDataKept
  BY InitIInv DEF IInv, Shapes, OtherDataKept, Init
<1>2. IInv /\ OtherDataKept /\ [Next]_vars => (IInv /\ OtherDataKept)'
  BY StepIInv, StepKeepsOthers DEF IInv, Shapes
<1> QED BY <1>1, <1>2, PTL DEF Spec

-----------------------------------------------------------------------------
(* The service                                                             *)

\* The descriptor of an open that is going on.
Busy(i, c, p, fd) == i.op = "open" /\ p = c /\ fd = i.fd

LEMMA NowSeen ==
  /\ Descriptors = [p \in Tasks |-> [fd \in Fds |->
                      Seen(files[p][fd], Busy(io, current, p, fd))]]
  /\ Descriptors' = [p \in Tasks |-> [fd \in Fds |->
                       Seen(files'[p][fd], Busy(io', current', p, fd))]]
<1>1. Descriptors = [p \in Tasks |-> [fd \in Fds |->
                       Seen(files[p][fd], Busy(io, current, p, fd))]]
  BY DEF Descriptors, Handle, Busy
<1>2. Descriptors' = [p \in Tasks |-> [fd \in Fds |->
                        Seen(files'[p][fd], Busy(io', current', p, fd))]]
  BY DEF Descriptors, Handle, Busy
<1> QED BY <1>1, <1>2

LEMMA SeenAt ==
  ASSUME NEW p \in Tasks, NEW fd \in Fds
  PROVE  /\ Descriptors[p][fd] = Seen(files[p][fd], Busy(io, current, p, fd))
         /\ Descriptors'[p][fd] = Seen(files'[p][fd], Busy(io', current', p, fd))
BY NowSeen

LEMMA SameDescriptors ==
  ASSUME \A p \in Tasks, fd \in Fds :
           Seen(files'[p][fd], Busy(io', current', p, fd))
             = Seen(files[p][fd], Busy(io, current, p, fd))
  PROVE  Descriptors' = Descriptors
BY NowSeen

LEMMA OneDescriptor ==
  ASSUME NEW p \in Tasks, NEW fd \in Fds,
         \A q \in Tasks, e \in Fds : (q = p /\ e = fd) \/
           Seen(files'[q][e], Busy(io', current', q, e))
             = Seen(files[q][e], Busy(io, current, q, e))
  PROVE  Descriptors' = [Descriptors EXCEPT ![p][fd] = Descriptors'[p][fd]]
<1> DEFINE D == Descriptors
           E == Descriptors'
           F == [D EXCEPT ![p] = [D[p] EXCEPT ![fd] = E[p][fd]]]
<1>1. /\ D = [q \in Tasks |-> D[q]] /\ \A q \in Tasks : D[q] = [e \in Fds |-> D[q][e]]
      /\ E = [q \in Tasks |-> E[q]] /\ \A q \in Tasks : E[q] = [e \in Fds |-> E[q][e]]
  BY NowSeen
<1>2. \A q \in Tasks, e \in Fds : (q = p /\ e = fd) \/ E[q][e] = D[q][e]
  BY SeenAt
<1> HIDE DEF D, E
<1>3. E[p] = [D[p] EXCEPT ![fd] = E[p][fd]]
  BY <1>1, <1>2
<1>4. \A q \in Tasks : q # p => E[q] = D[q]
  BY <1>1, <1>2
<1>5. E = F
  BY <1>1, <1>3, <1>4
<1> QED BY <1>5 DEF D, E

\* No open goes on.
LEMMA NotBusy ==
  ASSUME NEW i, i.op # "open", NEW c, NEW p, NEW fd
  PROVE  Busy(i, c, p, fd) = FALSE
BY DEF Busy

LEMMA QuietCall ==
  /\ Service!NoCall =
       [kind |-> "none", by |-> 0, fd |-> 0, want |-> 0, got |-> <<>>, done |-> 0]
  /\ io.op \notin {"read", "write"} => Call = Service!NoCall
  /\ io'.op \notin {"read", "write"} => Call' = Service!NoCall
BY DEF Call, Service!NoCall

LEMMA SeenKinds ==
  ASSUME NEW f, NEW busy \in BOOLEAN
  PROVE  /\ ~f.opened \/ busy => Seen(f, busy) = Service!NotOpen("closed")
         /\ f.opened /\ ~busy =>
              \/ Seen(f, busy) = Service!NotOpen("terminal")
              \/ Seen(f, busy) = Service!NotOpen("lost")
              \/ Seen(f, busy) = Service!Opened(f.path, f.perms, f.cfo)
         /\ f.opened /\ ~busy /\ f.ops = "none" => Seen(f, busy) = Service!NotOpen("lost")
         /\ f.opened /\ ~busy /\ f.ops = "fat32" /\ f.cluster = 0 =>
              Seen(f, busy) = Service!NotOpen("lost")
         /\ OnVolumeFile(f) /\ ~busy =>
              Seen(f, busy) = Service!Opened(f.path, f.perms, f.cfo)
BY DEF Seen, OnVolumeFile, Service!NotOpen, Service!Opened

LEMMA States ==
  /\ \A s : Service!NotOpen(s).state = s
  /\ \A g, r, n : /\ Service!Opened(g, r, n).state = "open"
                  /\ Service!Opened(g, r, n).file = g
                  /\ Service!Opened(g, r, n).rights = r
                  /\ Service!Opened(g, r, n).pos = n
BY DEF Service!NotOpen, Service!Opened

\* A part of a sequence.
LEMMA Part ==
  ASSUME NEW S, NEW s \in Seq(S), NEW a \in Nat \ {0}, NEW b \in Nat, b <= Len(s)
  PROVE  SubSeq(s, a, b) = [i \in 1..(b - a + 1) |-> s[a + i - 1]]
OBVIOUS

\* The data of a file, unit by unit.
LEMMA DataFacts ==
  ASSUME NEW name \in Names
  PROVE  /\ DOMAIN Data = Names /\ DOMAIN Data' = Names
         /\ Data[name] \in Seq(Range(Data[name])) /\ Len(Data[name]) = Entry(name).size
         /\ DOMAIN Data[name] = 1..Entry(name).size
         /\ Data[name] = [i \in 1..Entry(name).size |->
              disk[Place[name][i][1]][Place[name][i][2]][Place[name][i][3]]]
         /\ Data'[name] = [i \in 1..Entry(name).size |->
              disk'[Place[name][i][1]][Place[name][i][2]][Place[name][i][3]]]
<1>1. Entry(name).size \in Nat
  BY EntryFacts
<1>2. DOMAIN Place[name] = 1..Entry(name).size
  BY DEF Place
<1>3. DOMAIN Data = Names /\ DOMAIN Data' = Names
  BY DEF Data, Content
<1>4. Data[name] = [i \in 1..Entry(name).size |->
        disk[Place[name][i][1]][Place[name][i][2]][Place[name][i][3]]]
  BY <1>2 DEF Data, Content
<1>5. Data'[name] = [i \in 1..Entry(name).size |->
        disk'[Place[name][i][1]][Place[name][i][2]][Place[name][i][3]]]
  BY <1>2 DEF Data, Content
<1>6. Data[name] \in Seq(Range(Data[name])) /\ Len(Data[name]) = Entry(name).size
  <2> DEFINE s == Data[name]
  <2>1. DOMAIN s = 1..Entry(name).size /\ s = [i \in 1..Entry(name).size |-> s[i]]
    BY <1>4
  <2> HIDE DEF s
  <2>2. \A i \in 1..Entry(name).size : s[i] \in Range(s)
    BY <2>1 DEF Range
  <2>3. s \in Seq(Range(s)) /\ Len(s) = Entry(name).size
    BY <1>1, <2>1, <2>2
  <2> QED BY <2>3 DEF s
<1>7. DOMAIN Data[name] = 1..Entry(name).size
  BY <1>4
<1> QED BY <1>3, <1>4, <1>5, <1>6, <1>7

\* A place holds one unit of one file.
LEMMA PlaceUnique ==
  ASSUME NEW a \in Names, NEW b \in Names, NEW x \in Nat, NEW y \in Nat,
         x < Entry(a).size, y < Entry(b).size, Place[a][x + 1] = Place[b][y + 1]
  PROVE  a = b /\ x = y
<1>1. /\ Place[a][x + 1] = <<Chain(a)[x \div ClusterUnits],
                             (x % ClusterUnits) \div SectorUnits, x % SectorUnits>>
      /\ x \div ClusterUnits \in Links(a)
  BY UnitPlaced
<1>2. /\ Place[b][y + 1] = <<Chain(b)[y \div ClusterUnits],
                             (y % ClusterUnits) \div SectorUnits, y % SectorUnits>>
      /\ y \div ClusterUnits \in Links(b)
  BY UnitPlaced
<1>3. /\ Chain(a)[x \div ClusterUnits] = Chain(b)[y \div ClusterUnits]
      /\ (x % ClusterUnits) \div SectorUnits = (y % ClusterUnits) \div SectorUnits
      /\ x % SectorUnits = y % SectorUnits
  <2>1. \A c, d, e, f, g, h : <<c, d, e>> = <<f, g, h>> => c = f /\ d = g /\ e = h
    OBVIOUS
  <2>2. <<Chain(a)[x \div ClusterUnits], (x % ClusterUnits) \div SectorUnits, x % SectorUnits>>
          = <<Chain(b)[y \div ClusterUnits], (y % ClusterUnits) \div SectorUnits,
              y % SectorUnits>>
    BY <1>1, <1>2
  <2> QED BY <2>1, <2>2, Zenon
<1>4. a = b /\ x \div ClusterUnits = y \div ClusterUnits
  BY <1>1, <1>2, <1>3, VolumeAssumption
<1>5. PICK q \in Nat, s \in Sectors, u \in 0..(SectorUnits - 1) :
        x = q * ClusterUnits + (s * SectorUnits + u)
  BY UnitPlace
<1>6. PICK r \in Nat, t \in Sectors, v \in 0..(SectorUnits - 1) :
        y = r * ClusterUnits + (t * SectorUnits + v)
  BY UnitPlace
<1>7. /\ x \div ClusterUnits = q /\ (x % ClusterUnits) \div SectorUnits = s
      /\ x % SectorUnits = u
  BY <1>5, UnitAt
<1>8. /\ y \div ClusterUnits = r /\ (y % ClusterUnits) \div SectorUnits = t
      /\ y % SectorUnits = v
  BY <1>6, UnitAt
<1>9. q = r /\ s = t /\ u = v
  BY <1>3, <1>4, <1>7, <1>8
<1> QED BY <1>4, <1>5, <1>6, <1>9

\* What a turn gives to the reader.
LEMMA TurnReads ==
  ASSUME IInv, CopySector
  PROVE  LET f == files[current][io.fd]
             pos == f.cfo + io.done
             sec == io.off \div SectorUnits
             byte == io.off % SectorUnits
             n == IF SectorUnits - byte > io.left THEN io.left ELSE SectorUnits - byte
         IN [i \in 1..n |-> disk[io.cluster][sec][byte + i - 1]]
              = SubSeq(Data[f.path], pos + 1, pos + n)
<1> DEFINE f == files[current][io.fd]
           pos == f.cfo + io.done
           sec == io.off \div SectorUnits
           byte == io.off % SectorUnits
           n == IF SectorUnits - byte > io.left THEN io.left ELSE SectorUnits - byte
           d == Data[f.path]
<1>1. /\ pos \in Nat /\ sec \in Sectors /\ byte \in 0..(SectorUnits - 1)
      /\ n \in Nat \ {0} /\ pos + n <= Entry(f.path).size
  BY TurnFacts
<1>2. f.path \in Names /\ Entry(f.path).size \in Nat
  BY TheFile, EntryFacts DEF CopySector
<1>3. \A j \in 0..(n - 1) : Place[f.path][pos + j + 1] = <<io.cluster, sec, byte + j>>
  BY TurnUnit
<1>4. /\ d \in Seq(Range(d)) /\ Len(d) = Entry(f.path).size
      /\ d = [i \in 1..Entry(f.path).size |->
           disk[Place[f.path][i][1]][Place[f.path][i][2]][Place[f.path][i][3]]]
  BY <1>2, DataFacts
<1>5. byte \in Nat
  BY <1>1, Sizes
<1> HIDE DEF f, pos, sec, byte, n, d
<1>6. SubSeq(d, pos + 1, pos + n) = [i \in 1..n |-> d[pos + i]]
  <2> DEFINE a == pos + 1
             b == pos + n
  <2>1. d \in Seq(Range(d)) /\ Len(d) = Entry(f.path).size
    BY <1>4
  <2>2. pos \in Nat /\ n \in Nat \ {0} /\ pos + n <= Entry(f.path).size
    BY <1>1
  <2>3. a \in Nat \ {0} /\ b \in Nat /\ b <= Len(d) /\ b - a + 1 = n
    BY <2>1, <2>2
  <2>4. \A i \in 1..n : a + i - 1 = pos + i
    BY <2>2
  <2> HIDE DEF a, b
  <2>5. SubSeq(d, a, b) = [i \in 1..(b - a + 1) |-> d[a + i - 1]]
    BY <2>1, <2>3, Part
  <2>6. SubSeq(d, a, b) = [i \in 1..n |-> d[pos + i]]
    BY <2>3, <2>4, <2>5
  <2> QED BY <2>6 DEF a, b
<1>7. ASSUME NEW i \in 1..n PROVE d[pos + i] = disk[io.cluster][sec][byte + i - 1]
  <2> DEFINE j == i - 1
  <2>1. j \in 0..(n - 1) /\ pos + j + 1 = pos + i /\ byte + j = byte + i - 1
        /\ pos + i \in 1..Entry(f.path).size
    BY <1>1, <1>2, <1>5
  <2> HIDE DEF j
  <2> DEFINE at == Place[f.path][pos + i]
  <2>2. at = <<io.cluster, sec, byte + i - 1>>
    BY <1>3, <2>1
  <2>3. d[pos + i] = disk[at[1]][at[2]][at[3]]
    BY <1>4, <2>1
  <2> HIDE DEF at
  <2> QED BY <2>2, <2>3
<1>8. [i \in 1..n |-> disk[io.cluster][sec][byte + i - 1]] = [i \in 1..n |-> d[pos + i]]
  BY <1>7
<1> QED BY <1>6, <1>8 DEF f, pos, sec, byte, n, d

\* And what it makes of the data of the files.
LEMMA TurnChanges ==
  ASSUME IInv, CopySector, io.op # "read"
  PROVE  LET f == files[current][io.fd]
             pos == f.cfo + io.done
             byte == io.off % SectorUnits
             n == IF SectorUnits - byte > io.left THEN io.left ELSE SectorUnits - byte
         IN Data' = [Data EXCEPT ![f.path] =
              [i \in DOMAIN Data[f.path] |->
                 IF i \in pos + 1 .. pos + n THEN Out[i - f.cfo] ELSE Data[f.path][i]]]
<1> DEFINE f == files[current][io.fd]
           pos == f.cfo + io.done
           sec == io.off \div SectorUnits
           byte == io.off % SectorUnits
           n == IF SectorUnits - byte > io.left THEN io.left ELSE SectorUnits - byte
           data == SubSeq(Out, io.done + 1, io.done + n)
<1>1. /\ pos \in Nat /\ sec \in Sectors /\ byte \in 0..(SectorUnits - 1)
      /\ n \in Nat \ {0} /\ n <= io.left /\ pos + n <= Entry(f.path).size
  BY TurnFacts
<1>2. /\ f.path \in Names /\ Entry(f.path).size \in Nat /\ f.cfo \in Nat /\ io.done \in Nat
      /\ io.left \in Nat /\ io.op \in {"read", "write"} /\ io.left > 0
  BY TheFile, EntryFacts DEF CopySector
<1>3. \A j \in 0..(n - 1) :
        /\ pos + j \in Nat /\ pos + j < Entry(f.path).size
        /\ Place[f.path][pos + j + 1] = <<io.cluster, sec, byte + j>>
  BY TurnUnit
<1>4. \A c \in DOMAIN disk : \A s \in Sectors : \A u \in 0..(SectorUnits - 1) :
        disk'[c][s][u] = IF c = io.cluster /\ s = sec /\ u \in byte .. byte + n - 1
                         THEN data[u - byte + 1] ELSE disk[c][s][u]
  BY TurnWrites
<1>5. byte \in Nat /\ pos = f.cfo + io.done
  BY <1>1, Sizes
<1>6. io.done + n <= Len(Out) /\ Out \in Seq(Range(Out))
  <2>1. io.done + io.left \in 1..Len(Out) /\ Out \in Seq(Range(Out))
    BY <1>2, FilesAssumption DEF IInv, Moving
  <2> HIDE DEF n
  <2> QED BY <1>1, <1>2, <2>1
<1>7. data = [k \in 1..n |-> Out[io.done + k]]
  <2> DEFINE a == io.done + 1
             b == io.done + n
  <2> HIDE DEF n
  <2>1. a \in Nat \ {0} /\ b \in Nat /\ b <= Len(Out) /\ b - a + 1 = n
    <3>1. io.done \in Nat /\ n \in Nat \ {0} /\ io.done + n <= Len(Out) /\ Len(Out) \in Nat
      BY <1>1, <1>2, <1>6
    <3> QED BY <3>1
  <2>2. \A k \in 1..n : a + k - 1 = io.done + k
    BY <1>1, <1>2
  <2>3. data = SubSeq(Out, a, b)
    BY DEF n
  <2> HIDE DEF a, b, data
  <2>4. data = [k \in 1..(b - a + 1) |-> Out[a + k - 1]]
    BY <1>6, <2>1, <2>3, Part
  <2> QED BY <2>1, <2>2, <2>4
<1>8. DOMAIN disk = DOMAIN DiskData
  BY DEF IInv, Shapes, DiskShape
<1> HIDE DEF f, pos, sec, byte, n, data
<1>9. ASSUME NEW g \in Names, NEW i \in 1..Entry(g).size
      PROVE  Data'[g][i] = IF g = f.path /\ i \in pos + 1 .. pos + n
                           THEN Out[i - f.cfo] ELSE Data[g][i]
  <2> DEFINE x == i - 1
             c == Chain(g)[x \div ClusterUnits]
             s == (x % ClusterUnits) \div SectorUnits
             u == x % SectorUnits
  <2>1. x \in Nat /\ x < Entry(g).size /\ x + 1 = i
    BY EntryFacts
  <2>2. Place[g][i] = <<c, s, u>> /\ c \in DOMAIN DiskData
    BY <2>1, UnitPlaced
  <2>3. s \in Sectors /\ u \in 0..(SectorUnits - 1)
    <3> HIDE DEF x
    <3>1. PICK a \in Nat, t \in Sectors, b \in 0..(SectorUnits - 1) :
            x = a * ClusterUnits + (t * SectorUnits + b)
      BY <2>1, UnitPlace
    <3> QED BY <3>1, UnitAt
  <2> HIDE DEF c, s, u
  <2>4. Data'[g][i] = disk'[c][s][u] /\ Data[g][i] = disk[c][s][u]
    <3> DEFINE at == Place[g][i]
    <3>1. /\ Data[g] = [k \in 1..Entry(g).size |->
                disk[Place[g][k][1]][Place[g][k][2]][Place[g][k][3]]]
          /\ Data'[g] = [k \in 1..Entry(g).size |->
                disk'[Place[g][k][1]][Place[g][k][2]][Place[g][k][3]]]
      BY DataFacts
    <3>2. Data'[g][i] = disk'[at[1]][at[2]][at[3]] /\ Data[g][i] = disk[at[1]][at[2]][at[3]]
      BY <3>1
    <3> HIDE DEF at
    <3>3. at = <<c, s, u>>
      BY <2>2 DEF at
    <3> QED BY <3>2, <3>3
  <2>5. disk'[c][s][u] = IF c = io.cluster /\ s = sec /\ u \in byte .. byte + n - 1
                         THEN data[u - byte + 1] ELSE disk[c][s][u]
    BY <1>4, <1>8, <2>2, <2>3
  <2> HIDE DEF x
  <2>6. CASE c = io.cluster /\ s = sec /\ u \in byte .. byte + n - 1
    <3> DEFINE j == u - byte
    <3>1. j \in 0..(n - 1) /\ byte + j = u /\ j + 1 \in 1..n
      BY <1>1, <1>5, <2>6
    <3> HIDE DEF j
    <3>2. /\ pos + j \in Nat /\ pos + j < Entry(f.path).size
          /\ Place[f.path][pos + j + 1] = Place[g][x + 1]
      BY <1>3, <2>1, <2>2, <2>6, <3>1
    <3>3. g = f.path /\ x = pos + j
      BY <1>2, <2>1, <3>2, PlaceUnique
    <3>4. i \in pos + 1 .. pos + n /\ i - f.cfo = io.done + (j + 1) /\ u - byte + 1 = j + 1
      BY <1>1, <1>2, <1>5, <2>1, <3>1, <3>3
    <3>5. data[j + 1] = Out[io.done + (j + 1)]
      BY <1>7, <3>1
    <3> QED BY <2>4, <2>5, <2>6, <3>3, <3>4, <3>5
  <2>7. CASE ~(c = io.cluster /\ s = sec /\ u \in byte .. byte + n - 1)
    <3>1. ~(g = f.path /\ i \in pos + 1 .. pos + n)
      <4>1. SUFFICES ASSUME g = f.path, i \in pos + 1 .. pos + n PROVE FALSE
        OBVIOUS
      <4> DEFINE j == x - pos
      <4>2. j \in 0..(n - 1) /\ pos + j + 1 = i
        BY <1>1, <2>1, <4>1
      <4> HIDE DEF j
      <4>3. <<c, s, u>> = <<io.cluster, sec, byte + j>>
        BY <1>3, <2>2, <4>1, <4>2
      <4>4. byte + j \in byte .. byte + n - 1
        BY <1>1, <1>5, <4>2
      <4> QED BY <2>7, <4>3, <4>4
    <3> QED BY <2>4, <2>5, <2>7, <3>1
  <2> QED BY <2>6, <2>7
<1> DEFINE D == Data
           E == Data'
           N == [i \in DOMAIN D[f.path] |->
                   IF i \in pos + 1 .. pos + n THEN Out[i - f.cfo] ELSE D[f.path][i]]
<1>10. /\ E = [g \in Names |-> E[g]] /\ D = [g \in Names |-> D[g]]
       /\ \A g \in Names : /\ E[g] = [i \in 1..Entry(g).size |-> E[g][i]]
                           /\ D[g] = [i \in 1..Entry(g).size |-> D[g][i]]
  <2>1. /\ E = [g \in Names |-> E[g]] /\ D = [g \in Names |-> D[g]]
    BY DEF Data, Content
  <2>2. ASSUME NEW g \in Names
        PROVE  /\ E[g] = [i \in 1..Entry(g).size |-> E[g][i]]
               /\ D[g] = [i \in 1..Entry(g).size |-> D[g][i]]
    BY DataFacts
  <2> QED BY <2>1, <2>2
<1> HIDE DEF D, E
<1>11. \A g \in Names : \A i \in 1..Entry(g).size :
         E[g][i] = IF g = f.path /\ i \in pos + 1 .. pos + n
                   THEN Out[i - f.cfo] ELSE D[g][i]
  BY <1>9 DEF D, E
<1>12. E[f.path] = N
  <2> DEFINE size == Entry(f.path).size
             K(i) == IF i \in pos + 1 .. pos + n THEN Out[i - f.cfo] ELSE D[f.path][i]
  <2>1. f.path \in Names
    BY <1>2
  <2>2. \A i \in 1..size : E[f.path][i] = K(i)
    BY <1>11, <2>1
  <2>3. E[f.path] = [i \in 1..size |-> E[f.path][i]] /\ D[f.path] = [i \in 1..size |-> D[f.path][i]]
    BY <1>10, <2>1
  <2>4. DOMAIN D[f.path] = 1..size
    BY <2>3
  <2> HIDE DEF K, size
  <2>5. E[f.path] = [i \in 1..size |-> K(i)]
    BY <2>2, <2>3
  <2>6. N = [i \in 1..size |-> K(i)]
    BY <2>4 DEF K
  <2> QED BY <2>5, <2>6
<1> HIDE DEF N
<1>13. ASSUME NEW g \in Names, g # f.path PROVE E[g] = D[g]
  <2>1. \A i \in 1..Entry(g).size : E[g][i] = D[g][i]
    BY <1>11, <1>13
  <2>2. [i \in 1..Entry(g).size |-> E[g][i]] = [i \in 1..Entry(g).size |-> D[g][i]]
    BY <2>1
  <2>3. /\ E[g] = [i \in 1..Entry(g).size |-> E[g][i]]
        /\ D[g] = [i \in 1..Entry(g).size |-> D[g][i]]
    BY <1>10, <1>13
  <2> QED BY <2>2, <2>3
<1>14. E = [D EXCEPT ![f.path] = N]
  BY <1>10, <1>12, <1>13
<1> QED BY <1>14 DEF f, pos, byte, n, D, E, N

-----------------------------------------------------------------------------
(* Every step is one of the service, or none                               *)

Asks(i) == i.op \in {"read", "write"}

\* Only a descriptor has changed, and no data: what the service sees of that.
LEMMA QuietStep ==
  ASSUME ~Asks(io), ~Asks(io'), UNCHANGED <<task_num, disk>>,
         NEW p \in Tasks, NEW fd \in Fds,
         \A q \in Tasks, e \in Fds : (q = p /\ e = fd) \/
           Seen(files'[q][e], Busy(io', current', q, e))
             = Seen(files[q][e], Busy(io, current, q, e))
  PROVE  Service!Quiet /\ Service!Only(p, fd)
<1>1. Call = Service!NoCall /\ Call' = Service!NoCall
  BY QuietCall DEF Asks
<1>2. Service!Quiet
  BY <1>1 DEF Service!Quiet
<1>3. Data' = Data
  BY DEF Data, Content
<1>4. Service!Only(p, fd)
  BY <1>3, OneDescriptor DEF Service!Only
<1> QED BY <1>2, <1>4

LEMMA NoStep ==
  ASSUME UNCHANGED <<task_num, disk>>, Call' = Call,
         \A p \in Tasks, fd \in Fds :
           Seen(files'[p][fd], Busy(io', current', p, fd))
             = Seen(files[p][fd], Busy(io, current, p, fd))
  PROVE  UNCHANGED Service!vars
<1>1. Data' = Data
  BY DEF Data, Content
<1> QED BY <1>1, SameDescriptors DEF Service!vars

LEMMA OpenSimulates ==
  ASSUME IInv, SysOpen
  PROVE  Service!Next \/ UNCHANGED Service!vars
<1> DEFINE fd == GetUnusedFd
<1>1. PICK path \in Paths, flags \in Flags :
        /\ files' = [files EXCEPT ![current][fd] = OpenedAs(@, flags, path)]
        /\ io' = IF path \in OtherPaths THEN Idle
                 ELSE [Idle EXCEPT !.op = "open", !.fd = fd, !.cluster = Root]
  BY DEF SysOpen
<1> DEFINE f == files[current][fd]
           g == OpenedAs(f, flags, path)
<1>2. io = Idle /\ UNCHANGED <<task_num, current, disk>> /\ UnusedFds # {}
  BY DEF SysOpen
<1>3. fd \in Fds /\ current \in Tasks /\ f \in File /\ ~f.opened /\ f.ops = "none"
      /\ current \in 1..task_num /\ Shapes
  <2>1. fd \in Fds /\ current \in Tasks /\ ~f.opened /\ current \in 1..task_num
    BY <1>2, Basics, UnusedFd DEF IInv
  <2> QED BY <2>1, Basics DEF IInv, Handles
<1>4. /\ g \in File /\ g.opened
      /\ g.ops = IF path \in OtherPaths THEN "none" ELSE "fat32"
  BY <1>3, OpenedFile
<1>5. files' = [files EXCEPT ![current][fd] = g]
  BY <1>1, <1>3, Basics
<1> HIDE DEF g, fd
<1>6. /\ files'[current][fd] = g
      /\ \A q \in Tasks, e \in Fds : (q = current /\ e = fd) \/ files'[q][e] = files[q][e]
  <2>1. files'[current][fd] = g
    BY <1>3, <1>4, <1>5, OneFile
  <2>2. ASSUME NEW q \in Tasks, NEW e \in Fds, ~(q = current /\ e = fd)
        PROVE  files'[q][e] = files[q][e]
    BY <1>3, <1>4, <1>5, <2>2, OneFile
  <2> QED BY <2>1, <2>2
<1>7. io.op = "idle"
  BY <1>2, IdleShape
<1>8. Descriptors[current][fd] = Service!NotOpen("closed")
  <2>1. Busy(io, current, current, fd) = FALSE
    BY <1>7, NotBusy
  <2>2. Seen(f, FALSE) = Service!NotOpen("closed")
    BY <1>3, SeenKinds
  <2> QED BY <1>3, <2>1, <2>2, SeenAt
<1>9. CASE path \in OtherPaths
  <2>1. io'.op = "idle"
    BY <1>1, <1>9, IdleShape
  <2>2. \A q \in Tasks, e \in Fds : (q = current /\ e = fd) \/
          Seen(files'[q][e], Busy(io', current', q, e))
            = Seen(files[q][e], Busy(io, current, q, e))
    BY <1>6, <1>7, <2>1, NotBusy
  <2>3. ~Asks(io) /\ ~Asks(io')
    BY <1>7, <2>1 DEF Asks
  <2>4. Service!Quiet /\ Service!Only(current, fd)
    BY <1>2, <1>3, <2>2, <2>3, QuietStep
  <2>5. Descriptors'[current][fd] = Service!NotOpen("lost")
    <3>1. Busy(io', current', current, fd) = FALSE
      BY <2>1, NotBusy
    <3>2. g.opened /\ g.ops = "none"
      BY <1>4, <1>9
    <3>3. Seen(g, FALSE) = Service!NotOpen("lost")
      BY <3>2, SeenKinds
    <3> QED BY <1>3, <1>6, <3>1, <3>3, SeenAt
  <2>6. Service!Open(current, fd)
    BY <1>8, <2>4, <2>5, States DEF Service!Open
  <2> QED BY <1>3, <2>6 DEF Service!Next
<1>10. CASE path \notin OtherPaths
  <2>1. io' = [Idle EXCEPT !.op = "open", !.fd = fd, !.cluster = Root]
    BY <1>1, <1>10
  <2>2. io'.op = "open" /\ io'.fd = fd
    BY <2>1 DEF Idle
  <2>3. Call' = Call
    BY <1>7, <2>2, QuietCall
  <2>4. ASSUME NEW q \in Tasks, NEW e \in Fds
        PROVE  Seen(files'[q][e], Busy(io', current', q, e))
                 = Seen(files[q][e], Busy(io, current, q, e))
    <3>1. CASE q = current /\ e = fd
      <4>1. Busy(io', current', q, e) = TRUE /\ Busy(io, current, q, e) = FALSE
        BY <1>2, <1>7, <2>2, <3>1 DEF Busy
      <4>2. Seen(files'[q][e], TRUE) = Service!NotOpen("closed")
        BY SeenKinds
      <4>3. Seen(files[q][e], FALSE) = Service!NotOpen("closed")
        BY <1>3, <3>1, SeenKinds
      <4> QED BY <4>1, <4>2, <4>3
    <3>2. CASE ~(q = current /\ e = fd)
      <4>1. Busy(io', current', q, e) = FALSE /\ Busy(io, current, q, e) = FALSE
        BY <1>2, <1>7, <2>2, <3>2 DEF Busy
      <4>2. files'[q][e] = files[q][e]
        BY <1>6, <2>4, <3>2
      <4> QED BY <4>1, <4>2
    <3> QED BY <3>1, <3>2
  <2> QED BY <1>2, <2>3, <2>4, NoStep
<1> QED BY <1>9, <1>10

LEMMA ScanSimulates ==
  ASSUME WithinReach, IInv, ScanCluster
  PROVE  Service!Next \/ UNCHANGED Service!vars
<1>1. io.op = "open" /\ UNCHANGED <<task_num, current, disk>>
  BY DEF ScanCluster
<1>2. current \in 1..task_num /\ current \in Tasks /\ io.fd \in Fds /\ Shapes
  BY Basics DEF IInv
<1>3. CASE io' = [io EXCEPT !.cluster = NextCluster(io.cluster)] /\ UNCHANGED files
  <2>1. io'.op = "open" /\ io'.fd = io.fd
    BY <1>1, <1>3 DEF IInv, Shapes, IoShape
  <2>2. Call' = Call
    BY <1>1, <2>1, QuietCall
  <2>3. \A p, fd : Busy(io', current', p, fd) = Busy(io, current, p, fd)
    BY <1>1, <2>1 DEF Busy
  <2> QED BY <1>1, <1>3, <2>2, <2>3, NoStep
<1>4. ASSUME NEW c \in Nat, NEW d \in Nat, NEW i \in Nat, OpenReturns(c, d, i),
             c # 0 => LET path == files[current][io.fd].path IN
                      /\ path \in Names /\ Entry(path).cluster = c
                      /\ Directory[d][0][i].size = Entry(path).size
      PROVE  Service!Next
  <2> DEFINE f == files[current][io.fd]
             g == [f EXCEPT !.cluster = c, !.dir_cluster = d, !.dir_index = i]
  <2>1. /\ f \in File /\ g \in File
        /\ files' = [files EXCEPT ![current][io.fd] = g]
        /\ f.opened /\ f.ops = "fat32" /\ f.cfo = 0 /\ f.perms \in Flags
        /\ io' = Idle
    BY <1>1, <1>4, ReturnedFile
  <2>2. c # 0 => f.path \in Names
    BY <1>4
  <2>3. g = [f EXCEPT !.cluster = c, !.dir_cluster = d, !.dir_index = i]
    OBVIOUS
  <2> HIDE DEF f, g
  <2>4. /\ g.opened /\ g.perms = f.perms /\ g.path = f.path /\ g.ops = "fat32"
        /\ g.cluster = c /\ g.cfo = 0
    BY <2>1, <2>3 DEF File
  <2>5. /\ files'[current][io.fd] = g
        /\ \A q \in Tasks, e \in Fds : (q = current /\ e = io.fd) \/ files'[q][e] = files[q][e]
    <3>1. files'[current][io.fd] = g
      BY <1>2, <2>1, OneFile
    <3>2. ASSUME NEW q \in Tasks, NEW e \in Fds, ~(q = current /\ e = io.fd)
          PROVE  files'[q][e] = files[q][e]
      BY <1>2, <2>1, <3>2, OneFile
    <3> QED BY <3>1, <3>2
  <2>6. io'.op = "idle"
    BY <2>1, IdleShape
  <2>7. ASSUME NEW q \in Tasks, NEW e \in Fds, ~(q = current /\ e = io.fd)
        PROVE  Seen(files'[q][e], Busy(io', current', q, e))
                 = Seen(files[q][e], Busy(io, current, q, e))
    <3>1. Busy(io', current', q, e) = FALSE /\ Busy(io, current, q, e) = FALSE
      BY <2>6, <2>7 DEF Busy
    <3> QED BY <2>5, <2>7, <3>1
  <2>8. ~Asks(io) /\ ~Asks(io')
    BY <1>1, <2>6 DEF Asks
  <2>9. Service!Quiet /\ Service!Only(current, io.fd)
    BY <1>1, <1>2, <2>7, <2>8, QuietStep
  <2>10. Descriptors[current][io.fd] = Service!NotOpen("closed")
    <3>1. Busy(io, current, current, io.fd) = TRUE
      BY <1>1 DEF Busy
    <3>2. Seen(files[current][io.fd], TRUE) = Service!NotOpen("closed")
      BY SeenKinds
    <3> QED BY <1>2, <3>1, <3>2, SeenAt
  <2>11. Descriptors'[current][io.fd] = Seen(g, FALSE)
    <3>1. Busy(io', current', current, io.fd) = FALSE
      BY <2>6, NotBusy
    <3> QED BY <1>2, <2>5, <3>1, SeenAt
  <2>12. Descriptors'[current][io.fd] \in
           {Service!NotOpen("lost")} \cup
           {Service!Opened(h, r, 0) : h \in DOMAIN Data, r \in Flags}
    <3>1. CASE c = 0
      <4>1. Seen(g, FALSE) = Service!NotOpen("lost")
        BY <2>4, <3>1, SeenKinds
      <4> DEFINE lost == Service!NotOpen("lost")
                 opened == {Service!Opened(h, r, 0) : h \in DOMAIN Data, r \in Flags}
                 now == Descriptors'[current][io.fd]
      <4>2. now = lost
        BY <2>11, <4>1
      <4> HIDE DEF now, lost, opened
      <4>3. now \in {lost} \cup opened
        BY <4>2
      <4> QED BY <4>3 DEF now, lost, opened
    <3>2. CASE c # 0
      <4>1. Seen(g, FALSE) = Service!Opened(g.path, g.perms, g.cfo)
        BY <2>4, <3>2, SeenKinds DEF OnVolumeFile
      <4>2. g.path \in DOMAIN Data /\ g.perms \in Flags /\ g.cfo = 0
        BY <2>1, <2>2, <2>4, <3>2, DataFacts
      <4>3. Descriptors'[current][io.fd] = Service!Opened(g.path, g.perms, 0)
        BY <2>11, <4>1, <4>2
      <4>4. \E h \in DOMAIN Data, r \in Flags :
              Descriptors'[current][io.fd] = Service!Opened(h, r, 0)
        BY <4>2, <4>3
      <4> QED BY <4>4
    <3> QED BY <3>1, <3>2
  <2>13. Service!Open(current, io.fd)
    BY <2>9, <2>10, <2>12, States DEF Service!Open
  <2> QED BY <1>2, <2>13 DEF Service!Next
<1> QED BY <1>3, <1>4, ScanCases

\* No call goes on before or after, and one descriptor of the running task changes.
LEMMA IdleStep ==
  ASSUME IInv, io = Idle, io' = Idle, UNCHANGED <<task_num, disk>>,
         NEW fd \in Fds, NEW g \in File, files' = [files EXCEPT ![current][fd] = g]
  PROVE  /\ Service!Quiet /\ Service!Only(current, fd)
         /\ Descriptors[current][fd] = Seen(files[current][fd], FALSE)
         /\ Descriptors'[current][fd] = Seen(g, FALSE)
<1>1. io.op = "idle" /\ io'.op = "idle"
  BY IdleShape
<1>2. Shapes /\ current \in Tasks
  BY Basics DEF IInv
<1>3. files'[current][fd] = g
  BY <1>2, OneFile
<1>4. ASSUME NEW q \in Tasks, NEW e \in Fds, ~(q = current /\ e = fd)
      PROVE  Seen(files'[q][e], Busy(io', current', q, e))
               = Seen(files[q][e], Busy(io, current, q, e))
  <2>1. Busy(io', current', q, e) = FALSE /\ Busy(io, current, q, e) = FALSE
    BY <1>1, NotBusy
  <2>2. files'[q][e] = files[q][e]
    BY <1>2, <1>4, OneFile
  <2> QED BY <2>1, <2>2
<1>5. ~Asks(io) /\ ~Asks(io')
  BY <1>1 DEF Asks
<1>6. Service!Quiet /\ Service!Only(current, fd)
  BY <1>2, <1>4, <1>5, QuietStep
<1>7. Busy(io, current, current, fd) = FALSE /\ Busy(io', current', current, fd) = FALSE
  BY <1>1, NotBusy
<1> QED BY <1>2, <1>3, <1>6, <1>7, SeenAt

LEMMA CloseSimulates ==
  ASSUME IInv, SysClose
  PROVE  Service!Next
<1>1. PICK fd \in UserFds : /\ files[current][fd].opened
                            /\ files' = [files EXCEPT ![current][fd] = ClosedFrom(@)]
  BY DEF SysClose
<1> DEFINE f == files[current][fd]
           g == ClosedFrom(f)
<1>2. /\ current \in 1..task_num /\ current \in Tasks /\ fd \in Fds /\ f \in File
  BY FilesAssumption, Basics DEF IInv
<1>3. io = Idle /\ io' = Idle /\ UNCHANGED <<task_num, current, disk>>
  BY DEF SysClose
<1>4. g \in File /\ ~g.opened
  BY <1>2, ClosedFile
<1>5. files' = [files EXCEPT ![current][fd] = g]
  BY <1>1
<1> HIDE DEF g
<1>6. /\ Service!Quiet /\ Service!Only(current, fd)
      /\ Descriptors[current][fd] = Seen(f, FALSE)
      /\ Descriptors'[current][fd] = Seen(g, FALSE)
  BY <1>2, <1>3, <1>4, <1>5, IdleStep
<1>7. Seen(g, FALSE) = Service!NotOpen("closed")
  BY <1>4, SeenKinds
<1>8. Seen(f, FALSE).state # "closed"
  <2>1. \/ Seen(f, FALSE) = Service!NotOpen("terminal")
        \/ Seen(f, FALSE) = Service!NotOpen("lost")
        \/ Seen(f, FALSE) = Service!Opened(f.path, f.perms, f.cfo)
    BY <1>1, SeenKinds
  <2>2. Service!NotOpen("terminal").state = "terminal"
    BY States
  <2>3. Service!NotOpen("lost").state = "lost"
    BY States
  <2>4. Service!Opened(f.path, f.perms, f.cfo).state = "open"
    BY States
  <2> QED BY <2>1, <2>2, <2>3, <2>4
<1>9. Service!Close(current, fd)
  BY <1>6, <1>7, <1>8 DEF Service!Close
<1> QED BY <1>2, <1>9 DEF Service!Next

LEMMA SeekSimulates ==
  ASSUME IInv, SysLseek
  PROVE  Service!Next
<1>1. PICK fd \in UserFds, offset \in Seeks, whence \in {"SET", "CUR", "END"} :
        LET f == files[current][fd]
            base == [SET |-> 0, CUR |-> f.cfo, END |-> FileSize(f)]
        IN /\ Usable(fd) /\ f.opened
           /\ base[whence] + offset \in -1..FileSize(f)
           /\ files' = [files EXCEPT ![current][fd].cfo = base[whence] + offset]
  BY DEF SysLseek
<1> DEFINE f == files[current][fd]
           base == [SET |-> 0, CUR |-> f.cfo, END |-> FileSize(f)]
           n == base[whence] + offset
           g == [f EXCEPT !.cfo = n]
<1>2. /\ current \in 1..task_num /\ current \in Tasks /\ fd \in Fds /\ Shapes
  BY FilesAssumption, Basics DEF IInv
<1>3. io = Idle /\ io' = Idle /\ UNCHANGED <<task_num, current, disk>>
  BY DEF SysLseek
<1>4. OnVolumeFile(f) /\ OnFile(f)
  BY <1>1, <1>2, <1>3, WhenIdle DEF Usable, OnVolumeFile
<1>5. n \in -1..FileSize(f) /\ files' = [files EXCEPT ![current][fd].cfo = n]
  BY <1>1
<1>6. FileSize(f) \in Nat
  BY <1>4, EntryFacts DEF OnFile
<1> HIDE DEF n
<1>7. n \in Int
  BY <1>5, <1>6
<1>8. /\ f \in File /\ g \in File
      /\ files' = [files EXCEPT ![current][fd] = g]
      /\ g.opened = f.opened /\ g.perms = f.perms /\ g.cfo = n
      /\ g.path = f.path /\ g.ops = f.ops /\ g.cluster = f.cluster
      /\ g.dir_cluster = f.dir_cluster /\ g.dir_index = f.dir_index
  BY <1>2, <1>5, <1>7, MovedFile
<1> HIDE DEF g
<1>9. /\ Service!Quiet /\ Service!Only(current, fd)
      /\ Descriptors[current][fd] = Seen(f, FALSE)
      /\ Descriptors'[current][fd] = Seen(g, FALSE)
  BY <1>2, <1>3, <1>8, IdleStep
<1>10. Seen(f, FALSE) = Service!Opened(f.path, f.perms, f.cfo)
  BY <1>4, SeenKinds
<1>11. Seen(g, FALSE) = Service!Opened(f.path, f.perms, n)
  <2>1. OnVolumeFile(g)
    BY <1>4, <1>8 DEF OnVolumeFile
  <2> QED BY <1>8, <2>1, SeenKinds
<1>12. Service!Opened(f.path, f.perms, n)
         = [Service!Opened(f.path, f.perms, f.cfo) EXCEPT !.pos = n]
  BY DEF Service!Opened
<1>13. Descriptors[current][fd].state = "open" /\ Descriptors'[current][fd].pos = n
  <2>1. Descriptors[current][fd] = Service!Opened(f.path, f.perms, f.cfo)
    BY <1>9, <1>10
  <2>2. Descriptors'[current][fd] = Service!Opened(f.path, f.perms, n)
    BY <1>9, <1>11
  <2>3. Service!Opened(f.path, f.perms, f.cfo).state = "open"
    BY States
  <2>4. Service!Opened(f.path, f.perms, n).pos = n
    BY States
  <2> QED BY <2>1, <2>2, <2>3, <2>4
<1>14. Descriptors'[current][fd]
         = [Descriptors[current][fd] EXCEPT !.pos = Descriptors'[current][fd].pos]
  BY <1>9, <1>10, <1>11, <1>12, <1>13
<1>15. Service!Seek(current, fd)
  BY <1>7, <1>9, <1>13, <1>14 DEF Service!Seek
<1> QED BY <1>2, <1>15 DEF Service!Next

\* While a file is read or written the service sees the same descriptors.
LEMMA SameWhileAsked ==
  ASSUME io.op # "open", io'.op # "open", UNCHANGED files
  PROVE  Descriptors' = Descriptors
<1>1. \A p \in Tasks, fd \in Fds :
        Busy(io, current, p, fd) = FALSE /\ Busy(io', current', p, fd) = FALSE
  BY NotBusy
<1> QED BY <1>1, SameDescriptors

LEMMA BeginSimulates ==
  ASSUME IInv, NEW op \in {"read", "write"}, NEW right,
         right = IF op = "read" THEN "R" ELSE "W", Begin(op, right)
  PROVE  Service!Next
<1>1. PICK fd \in Fds, len \in 1..Len(Out), left \in 1..Len(Out) :
        Begun(op, right, fd, len, left)
  BY BeginFacts
<1> DEFINE f == files[current][fd]
           h == Service!Opened(f.path, f.perms, f.cfo)
<1>2. /\ io = Idle /\ UNCHANGED <<task_num, current, files, disk>>
      /\ OnVolumeFile(f) /\ OnFile(f) /\ right \in f.perms
      /\ f.cfo \in Nat /\ f.cfo < FileSize(f) /\ FileSize(f) \in Nat
      /\ left = IF f.cfo + len > FileSize(f) THEN FileSize(f) - f.cfo ELSE len
      /\ io' = [Idle EXCEPT !.op = op, !.fd = fd, !.cluster = f.cluster,
                  !.skip = f.cfo \div ClusterUnits,
                  !.off = f.cfo % ClusterUnits, !.left = left]
  BY <1>1 DEF Begun
<1>3. current \in 1..task_num /\ current \in Tasks /\ left \in Nat /\ len \in Nat
  BY Basics DEF IInv
<1>4. io'.op = op /\ io'.fd = fd /\ io'.left = left /\ io'.done = 0 /\ io'.buf = <<>>
      /\ io.op = "idle"
  BY <1>2, IdleShape DEF Idle
<1>5. Call = Service!NoCall
  BY <1>4, QuietCall
<1>6. Call' = [kind |-> op, by |-> current, fd |-> fd, want |-> left, got |-> <<>>, done |-> 0]
  BY <1>2, <1>3, <1>4 DEF Call
<1>7. Descriptors[current][fd] = h
  <2>1. Busy(io, current, current, fd) = FALSE
    BY <1>4, NotBusy
  <2>2. Seen(f, FALSE) = h
    BY <1>2, SeenKinds
  <2> QED BY <1>3, <2>1, <2>2, SeenAt
<1>8. Descriptors' = Descriptors
  BY <1>2, <1>4, SameWhileAsked
<1>9. Data' = Data
  BY <1>2 DEF Data, Content
<1>10. h.state = "open" /\ h.file = f.path /\ h.rights = f.perms /\ h.pos = f.cfo
  BY States
<1> DEFINE rest == Len(Data[f.path]) - f.cfo
<1>11. rest = FileSize(f) - f.cfo /\ f.cfo >= 0 /\ rest > 0
  <2>1. Len(Data[f.path]) = FileSize(f)
    BY <1>2, DataFacts DEF OnFile
  <2> QED BY <1>2, <2>1
<1>12. left = IF len < rest THEN len ELSE rest
  BY <1>2, <1>3, <1>11
<1>13. Call' = [Service!NoCall EXCEPT !.kind = op, !.by = current, !.fd = fd, !.want = left]
  <2> DEFINE t == [Service!NoCall EXCEPT !.kind = op, !.by = current, !.fd = fd, !.want = left]
  <2>1. /\ DOMAIN t = {"kind", "by", "fd", "want", "got", "done"}
        /\ t = [x \in {"kind", "by", "fd", "want", "got", "done"} |-> t[x]]
    BY DEF Service!NoCall
  <2>2. /\ t.kind = op /\ t.by = current /\ t.fd = fd /\ t.want = left
        /\ t.got = <<>> /\ t.done = 0
    BY DEF Service!NoCall
  <2> HIDE DEF t
  <2>3. t = [kind |-> op, by |-> current, fd |-> fd, want |-> left, got |-> <<>>, done |-> 0]
    BY <2>1, <2>2
  <2>4. Call' = t
    BY <1>6, <2>3
  <2> QED BY <2>4 DEF t
<1>14. Call'.by = current /\ Call'.fd = fd /\ Call'.kind = op
  BY <1>6
<1> HIDE DEF h, rest
<1>15. Service!Begin(current, fd, op, len)
  BY <1>2, <1>5, <1>7, <1>8, <1>9, <1>10, <1>11, <1>12, <1>13, <1>14
     DEF Service!Begin, rest
<1> QED BY <1>3, <1>15 DEF Service!Next

LEMMA SkipSimulates ==
  ASSUME IInv, SkipCluster
  PROVE  UNCHANGED Service!vars
<1>1. /\ io.op \in {"read", "write"}
      /\ io' = [io EXCEPT !.cluster = NextCluster(io.cluster), !.skip = io.skip - 1]
      /\ UNCHANGED <<task_num, current, files, disk>>
  BY DEF SkipCluster
<1>2. /\ io'.op = io.op /\ io'.fd = io.fd /\ io'.left = io.left /\ io'.done = io.done
      /\ io'.buf = io.buf
  BY <1>1 DEF IInv, Shapes, IoShape
<1>3. Call' = Call
  BY <1>1, <1>2 DEF Call
<1>4. Descriptors' = Descriptors
  BY <1>1, <1>2, SameWhileAsked
<1>5. Data' = Data
  BY <1>1 DEF Data, Content
<1> QED BY <1>1, <1>3, <1>4, <1>5 DEF Service!vars

LEMMA TurnBuffer ==
  ASSUME IInv, CopySector
  PROVE  LET sec == io.off \div SectorUnits
             byte == io.off % SectorUnits
             n == IF SectorUnits - byte > io.left THEN io.left ELSE SectorUnits - byte
         IN /\ io.op = "read" =>
                 io'.buf = io.buf \o [i \in 1..n |-> disk[io.cluster][sec][byte + i - 1]]
            /\ io.op # "read" => io'.buf = io.buf
<1> DEFINE sec == io.off \div SectorUnits
           byte == io.off % SectorUnits
           n == IF SectorUnits - byte > io.left THEN io.left ELSE SectorUnits - byte
           more == sec + 1 < SecPerCluster /\ io.left > n
           next == IF more THEN [io EXCEPT !.off = (sec + 1) * SectorUnits]
                   ELSE [io EXCEPT !.off = 0, !.cluster = NextCluster(io.cluster)]
           moved == [next EXCEPT !.left = next.left - n, !.done = next.done + n]
           piece == [i \in 1..n |-> disk[io.cluster][sec][byte + i - 1]]
<1>1. io.op = "read" => io' = [moved EXCEPT !.buf = moved.buf \o piece]
  BY DEF CopySector
<1>2. io.op # "read" => io' = moved
  BY DEF CopySector
<1> HIDE DEF sec, byte, n, piece
<1>3. moved.buf = io.buf /\ DOMAIN moved = DOMAIN io /\ "buf" \in DOMAIN io
  BY DEF IInv, Shapes, IoShape
<1> HIDE DEF moved
<1>4. /\ io.op = "read" => io'.buf = io.buf \o piece
      /\ io.op # "read" => io'.buf = io.buf
  BY <1>1, <1>2, <1>3
<1> QED BY <1>4 DEF sec, byte, n, piece

LEMMA CopySimulates ==
  ASSUME WithinReach, IInv, CopySector
  PROVE  Service!Next
<1> DEFINE f == files[current][io.fd]
           pos == f.cfo + io.done
           sec == io.off \div SectorUnits
           byte == io.off % SectorUnits
           n == IF SectorUnits - byte > io.left THEN io.left ELSE SectorUnits - byte
           h == Service!Opened(f.path, f.perms, f.cfo)
           piece == SubSeq(Data[f.path], pos + 1, pos + n)
           want == io.left + io.done
<1>1. /\ UNCHANGED <<task_num, current, files>>
      /\ io'.op = io.op /\ io'.fd = io.fd
      /\ io'.left = io.left - n /\ io'.done = io.done + n
  BY TurnMoves
<1>2. /\ n \in Nat \ {0} /\ n <= io.left
  BY TurnFacts
<1>3. io.op \in {"read", "write"} /\ io.left > 0
  BY DEF CopySector
<1>4. /\ current \in Tasks /\ io.fd \in Fds /\ io.left \in Nat /\ io.done \in Nat
      /\ io.done + io.left \in 1..Len(Out) /\ OnVolumeFile(f) /\ f.cfo \in Nat
  BY <1>3, TheFile DEF IInv, Moving
<1>5. /\ io.op = "read" => io'.buf = io.buf \o piece
      /\ io.op # "read" => io'.buf = io.buf
  BY TurnBuffer, TurnReads
<1>6. /\ io.op = "read" => UNCHANGED disk
      /\ io.op # "read" => Data' = [Data EXCEPT ![f.path] =
           [i \in DOMAIN Data[f.path] |->
              IF i \in pos + 1 .. pos + n THEN Out[i - f.cfo] ELSE Data[f.path][i]]]
  BY TurnWrites, TurnChanges
<1> HIDE DEF n, piece
<1>7. n \in 1..Len(Out) /\ io.done + n <= want /\ (io.left - n) + (io.done + n) = want
  BY <1>2, <1>4
<1>8. Call = [kind |-> io.op, by |-> current, fd |-> io.fd, want |-> want,
              got |-> io.buf, done |-> io.done]
  BY <1>3 DEF Call
<1>9. Call' = [kind |-> io.op, by |-> current, fd |-> io.fd, want |-> want,
               got |-> io'.buf, done |-> io.done + n]
  BY <1>1, <1>3, <1>7 DEF Call
<1> HIDE DEF want
<1>10. Descriptors[current][io.fd] = h
  <2>1. Busy(io, current, current, io.fd) = FALSE
    BY <1>3, NotBusy
  <2>2. Seen(f, FALSE) = h
    BY <1>4, SeenKinds
  <2> QED BY <1>4, <2>1, <2>2, SeenAt
<1>11. Descriptors' = Descriptors
  <2>1. io.op # "open" /\ io'.op # "open"
    BY <1>1, <1>3
  <2> QED BY <1>1, <2>1, SameWhileAsked
<1>12. h.file = f.path /\ h.pos = f.cfo
  BY States
<1>13. Call.by = current /\ Call.fd = io.fd /\ Call.kind = io.op /\ Call.done = io.done
       /\ Call.want = want /\ Call'.done = io.done + n
  BY <1>8, <1>9
<1>14. Call # Service!NoCall
  <2>1. Service!NoCall.kind = "none"
    BY QuietCall
  <2> QED BY <1>3, <1>13, <2>1
<1> DEFINE g == Descriptors[Call.by][Call.fd]
<1>15. g.file = f.path /\ g.pos = f.cfo /\ g.pos + Call.done = pos
  BY <1>10, <1>12, <1>13
<1>16. CASE io.op = "read"
  <2>1. Call' = [Call EXCEPT !.done = io.done + n, !.got = io.buf \o piece]
    <3> DEFINE t == [Call EXCEPT !.done = io.done + n, !.got = io.buf \o piece]
               names == {"kind", "by", "fd", "want", "got", "done"}
    <3>1. DOMAIN t = names /\ t = [x \in names |-> t[x]]
      BY <1>8
    <3>2. /\ t.kind = io.op /\ t.by = current /\ t.fd = io.fd /\ t.want = want
          /\ t.got = io.buf \o piece /\ t.done = io.done + n
      BY <1>8
    <3> HIDE DEF t
    <3>3. t = [kind |-> io.op, by |-> current, fd |-> io.fd, want |-> want,
               got |-> io.buf \o piece, done |-> io.done + n]
      BY <3>1, <3>2
    <3>4. io'.buf = io.buf \o piece
      BY <1>5, <1>16
    <3>5. Call' = t
      BY <1>9, <3>3, <3>4
    <3> QED BY <3>5 DEF t
  <2>2. Call.got = io.buf
    BY <1>8
  <2>3. piece = SubSeq(Data[g.file], g.pos + Call.done + 1, g.pos + Call.done + n)
    BY <1>15 DEF piece
  <2>4. Call' = [Call EXCEPT !.done = Call.done + n, !.got = Call.got \o
                   SubSeq(Data[g.file], g.pos + Call.done + 1, g.pos + Call.done + n)]
    BY <1>13, <2>1, <2>2, <2>3
  <2>5. Data' = Data
    BY <1>6, <1>16 DEF Data, Content
  <2> HIDE DEF f, g, pos
  <2>6. Service!Move(n)
    BY <1>1, <1>2, <1>7, <1>11, <1>13, <1>14, <1>16, <2>4, <2>5 DEF Service!Move, g
  <2> QED BY <1>7, <2>6 DEF Service!Next
<1>17. CASE io.op # "read"
  <2>1. Call' = [Call EXCEPT !.done = Call.done + n]
    BY <1>5, <1>8, <1>9, <1>13, <1>17
  <2>2. Data' = [Data EXCEPT ![g.file] =
          [i \in DOMAIN Data[g.file] |->
             IF i \in g.pos + Call.done + 1 .. g.pos + Call.done + n
             THEN Out[i - g.pos] ELSE Data[g.file][i]]]
    BY <1>6, <1>15, <1>17
  <2> HIDE DEF f, g, pos
  <2>3. Service!Move(n)
    BY <1>1, <1>2, <1>7, <1>11, <1>13, <1>14, <1>17, <2>1, <2>2 DEF Service!Move, g
  <2> QED BY <1>7, <2>3 DEF Service!Next
<1> QED BY <1>16, <1>17

LEMMA ReturnSimulates ==
  ASSUME IInv, Return
  PROVE  Service!Next
<1> DEFINE f == files[current][io.fd]
           n == f.cfo + io.done
           g == [f EXCEPT !.cfo = n]
           h == Service!Opened(f.path, f.perms, f.cfo)
<1>1. /\ io.op \in {"read", "write"} /\ io' = Idle /\ UNCHANGED <<task_num, current, disk>>
      /\ files' = [files EXCEPT ![current][io.fd].cfo = n]
      /\ io.left = 0 \/ io.cluster >= EOC
  <2>1. io.left = 0 \/ io.cluster >= EOC
    <3>1. io.cluster \in Nat /\ EOC \in Nat
      BY Basics, FilesAssumption DEF IInv
    <3> QED BY <3>1 DEF Return, InChain
  <2>2. files' = [files EXCEPT ![current][io.fd].cfo = n]
    BY DEF Return
  <2>3. io.op \in {"read", "write"} /\ io' = Idle /\ UNCHANGED <<task_num, current, disk>>
    BY DEF Return
  <2> QED BY <2>1, <2>2, <2>3
<1>2. Shapes /\ current \in Tasks /\ io.fd \in Fds /\ io.left \in Nat /\ io.done \in Nat
      /\ io.skip \in Nat
  BY Basics DEF IInv
<1>3. OnVolumeFile(f) /\ f.cfo \in Nat /\ f.path \in Names
      /\ n + io.left <= Entry(f.path).size
  BY <1>1, TheFile
<1>4. n \in Nat
  BY <1>2, <1>3
<1>5. io.left = 0
  <2>1. SUFFICES ASSUME io.left > 0 PROVE FALSE
    BY <1>2
  <2> DEFINE q == n \div ClusterUnits
  <2>2. io.skip <= q /\ io.cluster = Chain(f.path)[q - io.skip]
    BY <1>1, <2>1 DEF IInv, Moving
  <2> HIDE DEF n
  <2>3. n < Entry(f.path).size /\ q \in Nat
    <3>1. q \in Nat
      BY <1>4, Division, Sizes
    <3>2. Entry(f.path).size \in Nat
      BY <1>3, EntryFacts
    <3> QED BY <1>2, <1>3, <1>4, <2>1, <3>1, <3>2
  <2>4. q - io.skip \in Nat /\ q - io.skip <= q
    BY <1>2, <2>2, <2>3
  <2>5. q - io.skip \in Links(f.path)
    BY <1>3, <1>4, <2>3, <2>4, LinkFacts
  <2>6. io.cluster < EOC /\ io.cluster \in DOMAIN DiskData
    BY <1>3, <2>2, <2>5, VolumeAssumption
  <2>7. io.cluster \in Nat /\ EOC \in Nat
    BY Basics, FilesAssumption DEF IInv
  <2> QED BY <1>1, <2>1, <2>6, <2>7
<1> HIDE DEF n
<1>6. n \in Int
  BY <1>4
<1>7. /\ f \in File /\ g \in File
      /\ files' = [files EXCEPT ![current][io.fd] = g]
      /\ g.opened = f.opened /\ g.perms = f.perms /\ g.cfo = n
      /\ g.path = f.path /\ g.ops = f.ops /\ g.cluster = f.cluster
      /\ g.dir_cluster = f.dir_cluster /\ g.dir_index = f.dir_index
  BY <1>1, <1>2, <1>6, MovedFile
<1> HIDE DEF g
<1>8. OnVolumeFile(g)
  BY <1>3, <1>7 DEF OnVolumeFile
<1>9. io'.op = "idle" /\ io.op # "open" /\ io'.op # "open"
  BY <1>1, IdleShape
<1>10. Seen(f, FALSE) = h /\ Seen(g, FALSE) = Service!Opened(f.path, f.perms, n)
  <2>1. Seen(f, FALSE) = h
    BY <1>3, SeenKinds
  <2>2. Seen(g, FALSE) = Service!Opened(f.path, f.perms, n)
    BY <1>7, <1>8, SeenKinds
  <2> QED BY <2>1, <2>2
<1>11. Descriptors[current][io.fd] = h
       /\ Descriptors'[current][io.fd] = Service!Opened(f.path, f.perms, n)
  <2>1. Busy(io, current, current, io.fd) = FALSE
        /\ Busy(io', current', current, io.fd) = FALSE
    BY <1>9, NotBusy
  <2>2. files'[current][io.fd] = g
    BY <1>2, <1>7, OneFile
  <2> QED BY <1>2, <1>10, <2>1, <2>2, SeenAt
<1>12. Descriptors' = [Descriptors EXCEPT ![current][io.fd] = Descriptors'[current][io.fd]]
  <2>1. ASSUME NEW q \in Tasks, NEW e \in Fds, ~(q = current /\ e = io.fd)
        PROVE  Seen(files'[q][e], Busy(io', current', q, e))
                 = Seen(files[q][e], Busy(io, current, q, e))
    <3>1. Busy(io', current', q, e) = FALSE /\ Busy(io, current, q, e) = FALSE
      BY <1>9, NotBusy
    <3>2. files'[q][e] = files[q][e]
      BY <1>2, <1>7, <2>1, OneFile
    <3> QED BY <3>1, <3>2
  <2> QED BY <1>2, <2>1, OneDescriptor
<1>13. Call = [kind |-> io.op, by |-> current, fd |-> io.fd, want |-> io.left + io.done,
               got |-> io.buf, done |-> io.done]
  BY <1>1 DEF Call
<1>14. Call.by = current /\ Call.fd = io.fd /\ Call.kind = io.op /\ Call.done = io.done
       /\ Call.want = io.done
  BY <1>2, <1>5, <1>13
<1>15. Call # Service!NoCall /\ Call' = Service!NoCall
  <2>1. Service!NoCall.kind = "none" /\ Call' = Service!NoCall
    BY <1>9, QuietCall
  <2> QED BY <1>1, <1>14, <2>1
<1>16. Data' = Data
  BY <1>1 DEF Data, Content
<1>17. Descriptors' = [Descriptors EXCEPT ![Call.by][Call.fd].pos =
                         Descriptors[Call.by][Call.fd].pos + Call.done]
  <2>1. Service!Opened(f.path, f.perms, n) = [h EXCEPT !.pos = n]
    BY DEF Service!Opened
  <2>2. h.pos = f.cfo
    BY States
  <2>3. Descriptors[current][io.fd].pos + Call.done = n
    BY <1>11, <1>14, <2>2 DEF n
  <2> HIDE DEF h
  <2>4. Descriptors' = [Descriptors EXCEPT ![current][io.fd] =
                          [Descriptors[current][io.fd] EXCEPT !.pos = n]]
    BY <1>11, <1>12, <2>1
  <2>5. Descriptors' = [Descriptors EXCEPT ![current][io.fd].pos = n]
    BY <2>4
  <2> QED BY <1>14, <2>3, <2>5
<1> HIDE DEF f, h
<1>18. Service!End
  BY <1>1, <1>14, <1>15, <1>16, <1>17 DEF Service!End
<1> QED BY <1>18 DEF Service!Next

LEMMA ForkSimulates ==
  ASSUME IInv, DoFork
  PROVE  Service!Next
<1>1. /\ io = Idle /\ io' = Idle /\ task_num + 1 \in Tasks /\ task_num' = task_num + 1
      /\ files' = [files EXCEPT ![task_num + 1] = files[current]]
      /\ UNCHANGED <<current, disk>>
  BY DEF DoFork, CopiedFiles
<1>2. current \in 1..task_num /\ current \in Tasks /\ files \in [Tasks -> [Fds -> File]]
  BY Basics DEF IInv
<1>3. io.op = "idle" /\ io'.op = "idle"
  BY <1>1, IdleShape
<1>4. Call = Service!NoCall /\ Call' = Service!NoCall
  BY <1>3, QuietCall
<1>5. Data' = Data
  BY <1>1 DEF Data, Content
<1>6. \A p \in Tasks, fd \in Fds :
        Busy(io, current, p, fd) = FALSE /\ Busy(io', current', p, fd) = FALSE
  BY <1>3, NotBusy
<1> DEFINE D == Descriptors
           E == Descriptors'
<1>7. /\ D = [p \in Tasks |-> [fd \in Fds |-> Seen(files[p][fd], FALSE)]]
      /\ E = [p \in Tasks |-> [fd \in Fds |-> Seen(files'[p][fd], FALSE)]]
  BY <1>6, NowSeen
<1>8. \A p \in Tasks : files'[p] = IF p = task_num + 1 THEN files[current] ELSE files[p]
  BY <1>1, <1>2
<1> HIDE DEF D, E
<1>9. E[task_num + 1] = D[current]
  BY <1>1, <1>2, <1>7, <1>8
<1>10. ASSUME NEW p \in Tasks, p # task_num + 1 PROVE E[p] = D[p]
  BY <1>7, <1>8, <1>10
<1>11. /\ D = [p \in Tasks |-> D[p]] /\ E = [p \in Tasks |-> E[p]]
  BY <1>7
<1>12. E = [D EXCEPT ![task_num + 1] = D[current]]
  BY <1>9, <1>10, <1>11
<1>13. Service!Join(current)
  BY <1>1, <1>4, <1>5, <1>12 DEF Service!Join, D, E
<1>14. 0 \in Fds
  BY IdleShape
<1> QED BY <1>2, <1>13, <1>14 DEF Service!Next

LEMMA SwitchSimulates ==
  ASSUME IInv, Switch
  PROVE  UNCHANGED Service!vars
<1>1. io = Idle /\ UNCHANGED <<task_num, files, disk, io>>
  BY DEF Switch
<1>2. io.op = "idle" /\ io'.op = "idle"
  BY <1>1, IdleShape
<1>3. Call' = Call
  BY <1>2, QuietCall
<1>4. Descriptors' = Descriptors
  BY <1>1, <1>2, SameWhileAsked
<1>5. Data' = Data
  BY <1>1 DEF Data, Content
<1> QED BY <1>1, <1>3, <1>4, <1>5 DEF Service!vars

LEMMA StepSimulates ==
  ASSUME WithinReach, IInv, [Next]_vars
  PROVE  [Service!Next]_(Service!vars)
<1>1. CASE SysOpen
  BY <1>1, OpenSimulates
<1>2. CASE SysClose
  BY <1>2, CloseSimulates
<1>3. CASE SysLseek
  BY <1>3, SeekSimulates
<1>4. CASE SysRead
  <2>1. "read" \in {"read", "write"} /\ "R" = IF "read" = "read" THEN "R" ELSE "W"
    OBVIOUS
  <2> QED BY <1>4, <2>1, BeginSimulates DEF SysRead
<1>5. CASE SysWrite
  <2>1. "write" \in {"read", "write"} /\ "W" = IF "write" = "read" THEN "R" ELSE "W"
    OBVIOUS
  <2> QED BY <1>5, <2>1, BeginSimulates DEF SysWrite
<1>6. CASE DoFork
  BY <1>6, ForkSimulates
<1>7. CASE Switch
  BY <1>7, SwitchSimulates
<1>8. CASE ScanCluster
  BY <1>8, ScanSimulates
<1>9. CASE SkipCluster
  BY <1>9, SkipSimulates
<1>10. CASE CopySector
  BY <1>10, CopySimulates
<1>11. CASE Return
  BY <1>11, ReturnSimulates
<1>12. CASE UNCHANGED vars
  <2>1. Descriptors' = Descriptors
    BY <1>12 DEF vars, Descriptors, Handle
  <2>2. Data' = Data /\ Call' = Call
    BY <1>12 DEF vars, Data, Content, Call
  <2> QED BY <1>12, <2>1, <2>2 DEF vars, Service!vars
<1> QED BY <1>1, <1>2, <1>3, <1>4, <1>5, <1>6, <1>7, <1>8, <1>9, <1>10, <1>11, <1>12
        DEF Next, Running

LEMMA InitSimulates == Init => Service!Init
<1> SUFFICES ASSUME Init PROVE Service!Init
  OBVIOUS
<1>1. io = Idle /\ task_num = 1 /\ disk = DiskData
  BY DEF Init
<1>2. Call = Service!NoCall
  BY <1>1, IdleShape, QuietCall
<1>3. ASSUME NEW p \in Tasks, NEW fd \in Fds
      PROVE  Descriptors[p][fd] \in {Service!NotOpen("closed"), Service!NotOpen("terminal")}
  <2> DEFINE f == files[p][fd]
  <2>1. Busy(io, current, p, fd) = FALSE
    BY <1>1, IdleShape, NotBusy
  <2>2. f \in {Closed, Terminal("stdin", "R"), Terminal("stdout", "W")}
    BY DEF Init, FileInit
  <2>3. Descriptors[p][fd] = Seen(f, FALSE)
    BY <2>1, SeenAt
  <2>4. CASE f = Closed
    <3>1. ~Closed.opened
      BY DEF Closed
    <3>2. Seen(Closed, FALSE) = Service!NotOpen("closed")
      BY <3>1, SeenKinds
    <3> QED BY <2>3, <2>4, <3>2
  <2>5. CASE f # Closed
    <3>1. f.opened /\ f.ops \in {"stdin", "stdout"}
      BY <2>2, <2>5 DEF Terminal, Closed
    <3>2. Seen(f, FALSE) = Service!NotOpen("terminal")
      BY <3>1 DEF Seen, Service!NotOpen
    <3> QED BY <2>3, <3>2
  <2> QED BY <2>4, <2>5
<1>4. Descriptors \in [Tasks ->
        [Fds -> {Service!NotOpen("closed"), Service!NotOpen("terminal")}]]
  BY <1>3, NowSeen
<1>5. Data = Content(DiskData)
  BY <1>1 DEF Data
<1> QED BY <1>1, <1>2, <1>4, <1>5 DEF Service!Init

\* On a sound volume within next_cluster's reach, every call of fs.c and fat32.c does
\* what the service promises: reads and writes move the data of the file that the
\* descriptor was opened for, at its position, along the whole chain of clusters.
THEOREM ImplementsFileService == WithinReach => (Spec => RefinesFileService)
<1> SUFFICES ASSUME WithinReach PROVE Spec => RefinesFileService
  OBVIOUS
<1>1. Init => IInv /\ Service!Init
  BY InitIInv, InitSimulates
<1>2. IInv /\ [Next]_vars => IInv'
  BY StepIInv
<1>3. IInv /\ [Next]_vars => [Service!Next]_(Service!vars)
  BY StepSimulates
<1> QED BY <1>1, <1>2, <1>3, PTL DEF Spec, RefinesFileService, Service!Spec
=============================================================================
