-------------------------- MODULE CowMemory_proofs --------------------------
(***************************************************************************)
(* Theorems about CowMemory, for every layout, program and number of       *)
(* frames and tasks that its assumptions allow.  The first half is the     *)
(* account of references; the second adds what a free frame holds, what    *)
(* the hardware may still read through a translation the kernel has        *)
(* replaced, and where the areas of a task lie, so that sys_brk finds the  *)
(* heap and do_fork counts every page once.  With them CowMemory           *)
(* implements PrivateMemory: every step of a fault, a fork, an unmap or a  *)
(* store changes what tasks read as one step of PrivateMemory allows, or   *)
(* not at all.                                                             *)
(***************************************************************************)
EXTENDS CowMemory, FiniteSetTheorems, SequenceTheorems, TLAPS

-----------------------------------------------------------------------------
(* Addresses and pages                                                     *)

\* The quotient of a division by a positive number, and its two bounds.
LEMMA Quotient ==
  ASSUME NEW a \in Nat, NEW d \in Nat \ {0}
  PROVE  /\ a \div d \in Nat
         /\ (a \div d) * d <= a
         /\ a < (a \div d) * d + d
  OBVIOUS

\* A multiple of d below the next multiple is no larger than the first.
LEMMA MultiplesOrdered ==
  ASSUME NEW q \in Nat, NEW r \in Nat, NEW d \in Nat \ {0}, q * d < r * d + d
  PROVE  q * d <= r * d
<1>1. SUFFICES ASSUME q > r PROVE FALSE
  <2>1. CASE q <= r
    <3>1. r - q \in Nat /\ (r - q) * d \in Nat
      BY <2>1
    <3>2. r * d = q * d + (r - q) * d
      BY <2>1
    <3> QED BY <3>1, <3>2
  <2> QED BY <2>1
<1>2. q - r - 1 \in Nat /\ (q - r - 1) * d \in Nat
  BY <1>1
<1>3. q * d = r * d + d + (q - r - 1) * d
  BY <1>1
<1> QED BY <1>2, <1>3

\* Rounding a page address up gives a number; the page of an address is a page.
LEMMA PageFacts ==
  /\ Pages \subseteq Nat
  /\ \A a \in Addr : a \in Nat /\ PageOf(a) \in Pages
  /\ \A a \in Nat : PgRoundUp(a) \in Nat
<1>1. PGSIZE \in Nat \ {0} /\ USER_END \in Nat
  BY SizeAssumption
<1>2. ASSUME NEW a \in Nat PROVE PageOf(a) \in Nat
  BY <1>1, Quotient DEF PageOf
<1>3. \A a \in Addr : a \in Nat /\ PageOf(a) \in Pages
  BY <1>1 DEF Addr, Pages
<1>4. Pages \subseteq Nat
  BY <1>1, <1>2 DEF Pages, Addr
<1>5. ASSUME NEW a \in Nat PROVE PgRoundUp(a) \in Nat
  <2>1. a + PGSIZE - 1 \in Nat
    BY <1>1
  <2>2. PageOf(a + PGSIZE - 1) \in Nat
    BY <1>2, <2>1
  <2> QED BY <1>1, <2>2 DEF PgRoundUp, PgRoundDown
<1> QED BY <1>3, <1>4, <1>5

\* Every value of mm->brk rounds to an end an area may have.
LEMMA BreakFacts ==
  \A b \in Breaks : b \in Nat /\ PgRoundUp(b) \in 0..USER_END
<1> SUFFICES ASSUME NEW b \in Breaks PROVE b \in Nat /\ PgRoundUp(b) \in 0..USER_END
  OBVIOUS
<1>1. PGSIZE \in Nat \ {0} /\ USER_END \in Nat /\ START_BRK \in Addr
  BY SizeAssumption
<1>2. CASE b \in BrkArgs
  <2>1. b \in Nat /\ PgRoundUp(b) < USER_END - PGSIZE
    BY <1>2, LayoutAssumption
  <2> QED BY <1>1, <2>1, PageFacts
<1>3. CASE b = START_BRK
  <2>1. b \in Nat /\ b < USER_END - PGSIZE
    BY <1>1, <1>3, LayoutAssumption DEF Addr
  <2>2. b + PGSIZE - 1 \in Nat
    BY <1>1, <2>1
  <2>3. PgRoundUp(b) <= b + PGSIZE - 1
    BY <1>1, <2>2, Quotient DEF PgRoundUp, PgRoundDown, PageOf
  <2>4. PgRoundUp(b) \in Nat
    BY <2>1, PageFacts
  <2> QED BY <1>1, <2>1, <2>3, <2>4
<1> QED BY <1>2, <1>3 DEF Breaks

\* Page-table pages are numbered by naturals.
LEMMA InteriorType ==
  ASSUME NEW pg \in Pages PROVE Interior(pg) \subseteq {0, 1} \X Nat
<1>1. FANOUT \in Nat \ {0} /\ pg \in Nat
  BY SizeAssumption, PageFacts
<1>2. FANOUT * FANOUT \in Nat \ {0}
  BY <1>1
<1>3. pg \div FANOUT \in Nat /\ pg \div (FANOUT * FANOUT) \in Nat
  BY <1>1, <1>2, Quotient
<1> QED BY <1>3 DEF Interior

\* There are finitely many page-table entries, so mappers can be counted.
LEMMA EntriesFinite == IsFiniteSet(Tasks \X Pages)
<1>1. IsFiniteSet(Tasks)
  BY SizeAssumption, FS_Interval DEF Tasks
<1>2. IsFiniteSet(Addr)
  BY SizeAssumption, FS_Interval DEF Addr
<1>3. IsFiniteSet(Pages)
  <2> DEFINE page == [a \in Addr |-> PageOf(a)]
  <2>1. page \in Surjection(Addr, Pages)
    BY DEF Surjection, Pages
  <2> QED BY <1>2, <2>1, FS_Surjection
<1> QED BY <1>1, <1>3, FS_Product

-----------------------------------------------------------------------------
(* Areas                                                                   *)

\* The reverse of a list of areas is a list of areas.
LEMMA ReverseType ==
  ASSUME NEW l \in Seq(Vma) PROVE Reverse(l) \in Seq(Vma)
<1>1. Len(l) \in Nat /\ DOMAIN l = 1..Len(l)
  BY LenProperties
<1>2. \A i \in 1..Len(l) : l[Len(l) + 1 - i] \in Vma
  BY <1>1, ElementOfSeq
<1> QED BY <1>1, <1>2, IsASeq DEF Reverse

\* The areas load_program and task_init build.
LEMMA InitialVmasType == InitialVmas \in Seq(Vma)
<1>1. PGSIZE \in Nat \ {0} /\ USER_END \in Nat /\ START_BRK \in Addr
      /\ USER_END - PGSIZE \in Addr
  BY SizeAssumption
<1>2. Segments \in Seq(Vma)
  BY SegmentAssumption
<1>3. PgRoundDown(START_BRK) = START_BRK /\ PgRoundDown(USER_END) = USER_END
  BY LayoutAssumption
<1>4. PgRoundDown(USER_END - PGSIZE) = USER_END - PGSIZE
  <2>1. PICK q \in Nat : USER_END = q * PGSIZE
    BY <1>1, <1>3, Quotient DEF PgRoundDown, PageOf
  <2>2. USER_END - PGSIZE = (q - 1) * PGSIZE
    BY <1>1, <2>1
  <2>3. (USER_END - PGSIZE) \div PGSIZE = q - 1
    BY <1>1, <2>2
  <2> QED BY <2>2, <2>3 DEF PgRoundDown, PageOf
<1>5. StackVma \in Vma
  BY <1>1, <1>4 DEF StackVma, Vma, FileBacked, VmBits, Addr
<1>6. HeapVma \in Vma
  BY <1>1, <1>3 DEF HeapVma, Vma, FileBacked, VmBits, Addr
<1>7. \A l \in Seq(Vma), v \in Vma : DoMmap(l, v) \in Seq(Vma)
  BY DEF DoMmap
<1> QED BY <1>2, <1>5, <1>6, <1>7, ReverseType DEF InitialVmas

-----------------------------------------------------------------------------
(* Frames                                                                  *)

\* alloc_page returns free frames.
LEMMA LowestFreeIsFree ==
  ASSUME NEW rc, NEW n
  PROVE  /\ LowestFree(rc, n) \subseteq Free(rc)
         /\ Free(rc) \subseteq Frames
BY DEF LowestFree, Free

\* The first of several allocations returns what a single one would.
LEMMA LowestFreeNested ==
  ASSUME NEW rc, NEW n \in Nat \ {0}, NEW f \in LowestFree(rc, 1)
  PROVE  f \in LowestFree(rc, n)
<1> DEFINE below == {g \in Free(rc) : g < f}
<1>1. IsFiniteSet(Frames)
  BY SizeAssumption, FS_Interval DEF Frames
<1>2. below \in SUBSET Frames
  BY DEF Free
<1>3. Cardinality(below) \in Nat
  BY <1>1, <1>2, FS_Subset, FS_CardinalityType
<1>4. f \in Free(rc) /\ Cardinality(below) < 1
  BY DEF LowestFree
<1> QED BY <1>3, <1>4 DEF LowestFree

\* A page needs finitely many new page tables.
LEMMA NewTablesFinite ==
  ASSUME NEW p, NEW pg PROVE Cardinality(NewTables(p, pg)) \in Nat
<1> DEFINE x == <<1, pg \div (FANOUT * FANOUT)>>
           y == <<0, pg \div FANOUT>>
<1>1. IsFiniteSet({x} \cup {y})
  <2>1. IsFiniteSet({x})
    BY FS_Singleton
  <2> QED BY <2>1, FS_AddElement
<1>2. NewTables(p, pg) \in SUBSET ({x} \cup {y})
  BY DEF NewTables, Interior
<1> QED BY <1>1, <1>2, FS_Subset, FS_CardinalityType

\* Taking, referencing and dereferencing frames keeps counts natural.
LEMMA CountType ==
  ASSUME NEW rc \in [Frames -> Nat]
  PROVE  /\ \A F : Taken(rc, F) \in [Frames -> Nat]
         /\ \A f \in Frames : Ref(rc, f) \in [Frames -> Nat]
         /\ \A f \in Frames : Deref(rc, f) \in [Frames -> Nat]
BY DEF Taken, Ref, Deref

\* A frame the kernel claims holds Kernel; the others keep their content.
LEMMA ClaimedType ==
  ASSUME TypeOK PROVE \A F : Claimed(F) \in [Frames -> Data]
BY DEF TypeOK, Claimed, Data

\* What demand paging puts into a frame is page content: file pages it asks
\* for exist in the image.
LEMMA FreshPageType ==
  ASSUME TypeOK, NEW v \in Vma, NEW a \in Addr, Covers(v, a), NEW f \in Frames
  PROVE  FreshPage(v, PageOf(a), f) \in Data
<1> DEFINE pg == PageOf(a)
           base == pg * PGSIZE
           off == base - v.vm_start
<1>1. PGSIZE \in Nat \ {0} /\ USER_END \in Nat
  BY SizeAssumption
<1>2. a \in Nat /\ v.vm_start \in Nat /\ v.vm_filesz \in Nat /\ v.vm_pgoff \in Nat
      /\ FileBacked(v) /\ v.vm_start <= a
  BY <1>1 DEF Addr, Vma, Covers
<1>3. pg \in Nat /\ base \in Nat /\ off \in Int
  <2>1. pg \in Nat
    BY <1>1, <1>2, Quotient DEF PageOf
  <2>2. base \in Nat
    BY <1>1, <2>1
  <2> QED BY <1>2, <2>1, <2>2
<1>4. off >= 0
  <2> DEFINE q == v.vm_start \div PGSIZE
  <2>1. q \in Nat /\ v.vm_start = q * PGSIZE
    BY <1>1, <1>2, Quotient DEF FileBacked, PgRoundDown, PageOf
  <2>2. a < pg * PGSIZE + PGSIZE
    BY <1>1, <1>2, Quotient DEF PageOf
  <2>3. q * PGSIZE < pg * PGSIZE + PGSIZE
    BY <1>1, <1>2, <1>3, <2>1, <2>2
  <2>4. q * PGSIZE <= pg * PGSIZE
    BY <1>1, <1>3, <2>1, <2>3, MultiplesOrdered
  <2> QED BY <1>2, <1>3, <2>1, <2>4
<1>5. CASE "ANON" \in v.vm_flags
  BY <1>5 DEF FreshPage, TypeOK
<1>6. CASE "ANON" \notin v.vm_flags /\ off >= v.vm_filesz
  BY <1>6 DEF FreshPage, Data
<1>7. CASE "ANON" \notin v.vm_flags /\ ~(off >= v.vm_filesz)
  <2>1. base \in v.vm_start..(v.vm_start + v.vm_filesz - 1)
    BY <1>2, <1>3, <1>4, <1>7
  <2>2. PageOf(v.vm_pgoff + base - v.vm_start) \in DOMAIN Image
    BY <1>2, <2>1 DEF FileBacked
  <2>3. v.vm_pgoff + base - v.vm_start = v.vm_pgoff + off
    BY <1>2, <1>3
  <2>4. FreshPage(v, pg, f) = Image[PageOf(v.vm_pgoff + off)]
    BY <1>7 DEF FreshPage
  <2>5. Image[PageOf(v.vm_pgoff + base - v.vm_start)] \in Data
    BY <2>2 DEF Data
  <2> QED BY <2>3, <2>4, <2>5
<1> QED BY <1>3, <1>5, <1>6, <1>7

-----------------------------------------------------------------------------
(* Type correctness                                                        *)

\* Frames exist, and an entry built from one is an entry.
LEMMA LeafType ==
  /\ NoPte \in Pte
  /\ \A f \in Frames : \A perm \in SUBSET PteBits : Leaf(f, perm) \in Pte
  /\ \A v \in Vma : PermOf(v) \subseteq PteBits
<1>1. 0 \in Frames
  BY SizeAssumption DEF Frames
<1>2. \A f \in Frames : \A perm \in SUBSET PteBits : Leaf(f, perm) \in Pte
  BY DEF Leaf, Pte, PteBits
<1>3. \A v \in Vma : PermOf(v) \subseteq PteBits
  BY DEF Vma, VmBits, PermOf, PteBits
<1> QED BY <1>1, <1>2, <1>3 DEF NoPte, Pte

\* The areas find_vma may return are areas that cover the address.
LEMMA FindVmaType ==
  ASSUME NEW l \in Seq(Vma), NEW a, NEW i \in FindVma(l, a)
  PROVE  i \in DOMAIN l /\ l[i] \in Vma /\ Covers(l[i], a)
<1>1. i \in DOMAIN l /\ Covers(l[i], a)
  BY DEF FindVma
<1>2. DOMAIN l = 1..Len(l)
  BY LenProperties
<1> QED BY <1>1, <1>2, ElementOfSeq

\* A new end for an area of a task leaves the lists well typed.
LEMMA NewEndType ==
  ASSUME TypeOK, NEW p \in Tasks, NEW i \in DOMAIN vmas[p], NEW e \in 0..USER_END
  PROVE  [vmas EXCEPT ![p] = SetEnd(@, i, e)] \in [Tasks -> Seq(Vma)]
<1> DEFINE v == [vmas[p][i] EXCEPT !.vm_end = e]
           l == [vmas[p] EXCEPT ![i] = v]
<1>1. vmas[p] \in Seq(Vma) /\ i \in 1..Len(vmas[p])
  BY LenProperties DEF TypeOK
<1>2. vmas[p][i] \in Vma
  BY <1>1, ElementOfSeq
<1>3. v \in Vma
  BY <1>2 DEF Vma, FileBacked
<1>4. l \in Seq(Vma)
  BY <1>1, <1>3, ExceptSeq
<1>5. SetEnd(vmas[p], i, e) = l
  BY <1>1 DEF SetEnd
<1> QED BY <1>4, <1>5 DEF TypeOK

\* The memory task_init sets up has the right types.
LEMMA InitType == Init => TypeOK
<1> SUFFICES ASSUME Init PROVE TypeOK
  OBVIOUS
<1>1. 1 \in Tasks /\ <<>> \in Seq(Vma) /\ NoPte \in Pte
  BY SizeAssumption, LeafType, EmptySeq DEF Tasks
<1>2. vmas \in [Tasks -> Seq(Vma)]
  BY <1>1, InitialVmasType DEF Init
<1>3. kop \in Kops
  BY SizeAssumption DEF Init, User, Kops, Breaks
<1> QED BY <1>1, <1>2, <1>3 DEF Init, TypeOK, NoPtes, Breaks, Data

\* A reset request keeps the types.
LEMMA OutOfMemoryType ==
  ASSUME TypeOK, NEW rc, NEW n, OutOfMemory(rc, n) PROVE TypeOK'
<1>1. kop' \in Kops
  BY DEF OutOfMemory, TypeOK, Kops
<1> QED BY <1>1 DEF OutOfMemory, TypeOK

\* A page fault enters user pages and existing frames, and asks the image
\* for pages it has.
LEMMA FaultType ==
  ASSUME TypeOK, NEW kind, NEW a \in UserAddr, PageFault(kind, a) PROVE TypeOK'
<1> DEFINE l == vmas[current]
           pg == PageOf(a)
           old == pt[current][pg]
<1>1. a \in Addr /\ pg \in Pages /\ l \in Seq(Vma) /\ current \in Tasks
  BY LayoutAssumption, PageFacts DEF TypeOK
<1>2. old \in Pte /\ old.ppn \in Frames /\ old.flags \subseteq PteBits
  BY <1>1 DEF TypeOK, Pte
<1>3. CASE UNCHANGED vars
  BY <1>3 DEF vars, TypeOK
<1>4. CASE FaultCow(kind, a)
  <2> DEFINE rc == Deref(refcnt, old.ppn)
  <2>1. PICK i \in FindVma(l, a) :
          IF refcnt[old.ppn] = 0
          THEN /\ pt' = [pt EXCEPT ![current][pg] =
                           Leaf(old.ppn, (old.flags \ {"S"}) \cup {"W"})]
               /\ tlb' = [tlb EXCEPT ![pg] = old]
               /\ UNCHANGED <<refcnt, content, kop>>
          ELSE \/ \E new \in LowestFree(rc, 1) :
                    /\ content' = [content EXCEPT ![new] = content[old.ppn]]
                    /\ pt' = [pt EXCEPT ![current][pg] = Leaf(new, PermOf(l[i]))]
                    /\ refcnt' = Ref(Taken(rc, {new}), new)
                    /\ tlb' = [tlb EXCEPT ![pg] = old]
                    /\ UNCHANGED kop
               \/ OutOfMemory(rc, 1)
    BY <1>4 DEF FaultCow
  <2>2. UNCHANGED <<task_num, current, vmas, brk, tables>>
    BY <1>4 DEF FaultCow
  <2>3. l[i] \in Vma
    BY <1>1, FindVmaType
  <2>4. CASE refcnt[old.ppn] = 0
    <3>1. Leaf(old.ppn, (old.flags \ {"S"}) \cup {"W"}) \in Pte
      BY <1>2, LeafType DEF PteBits
    <3>2. /\ pt' = [pt EXCEPT ![current][pg] =
                        Leaf(old.ppn, (old.flags \ {"S"}) \cup {"W"})]
          /\ tlb' = [tlb EXCEPT ![pg] = old]
          /\ UNCHANGED <<refcnt, content, kop>>
      BY <2>1, <2>4
    <3>3. pt' \in [Tasks -> [Pages -> Pte]] /\ tlb' \in [Pages -> Pte]
      BY <1>1, <1>2, <3>1, <3>2 DEF TypeOK
    <3> QED BY <2>2, <3>2, <3>3 DEF TypeOK
  <2>5. ASSUME refcnt[old.ppn] # 0, NEW new \in LowestFree(rc, 1),
               content' = [content EXCEPT ![new] = content[old.ppn]],
               pt' = [pt EXCEPT ![current][pg] = Leaf(new, PermOf(l[i]))],
               refcnt' = Ref(Taken(rc, {new}), new),
               tlb' = [tlb EXCEPT ![pg] = old],
               UNCHANGED kop
        PROVE  TypeOK'
    <3>1. new \in Frames
      BY LowestFreeIsFree
    <3>2. refcnt' \in [Frames -> Nat]
      BY <1>2, <2>5, <3>1, CountType DEF TypeOK
    <3>3. Leaf(new, PermOf(l[i])) \in Pte
      BY <2>3, <3>1, LeafType
    <3>4. pt' \in [Tasks -> [Pages -> Pte]] /\ tlb' \in [Pages -> Pte]
      BY <1>1, <1>2, <2>5, <3>3 DEF TypeOK
    <3>5. content' \in [Frames -> Data]
      BY <1>2, <2>5, <3>1 DEF TypeOK
    <3> QED BY <2>2, <2>5, <3>2, <3>4, <3>5 DEF TypeOK
  <2> QED BY <2>1, <2>4, <2>5, OutOfMemoryType
<1>5. CASE FaultDemand(kind, a)
  <2> DEFINE nt == NewTables(current, pg)
             F == LowestFree(refcnt, 1 + Cardinality(nt))
  <2>1. PICK i \in FindVma(l, a) :
          \/ \E new \in LowestFree(refcnt, 1) :
               /\ pt' = [pt EXCEPT ![current][pg] = Leaf(new, PermOf(l[i]))]
               /\ tables' = [tables EXCEPT ![current] = @ \cup nt]
               /\ content' = [Claimed(F) EXCEPT ![new] = FreshPage(l[i], pg, new)]
               /\ refcnt' = Ref(Taken(refcnt, F), new)
               /\ UNCHANGED <<task_num, current, vmas, brk, tlb, kop>>
          \/ OutOfMemory(refcnt, 1 + Cardinality(nt))
    BY <1>5 DEF FaultDemand
  <2>2. l[i] \in Vma /\ Covers(l[i], a)
    BY <1>1, FindVmaType
  <2>3. ASSUME NEW new \in LowestFree(refcnt, 1),
               pt' = [pt EXCEPT ![current][pg] = Leaf(new, PermOf(l[i]))],
               tables' = [tables EXCEPT ![current] = @ \cup nt],
               content' = [Claimed(F) EXCEPT ![new] = FreshPage(l[i], pg, new)],
               refcnt' = Ref(Taken(refcnt, F), new),
               UNCHANGED <<task_num, current, vmas, brk, tlb, kop>>
        PROVE  TypeOK'
    <3>1. new \in Frames
      BY LowestFreeIsFree
    <3>2. refcnt' \in [Frames -> Nat]
      BY <2>3, <3>1, CountType DEF TypeOK
    <3>3. Leaf(new, PermOf(l[i])) \in Pte
      BY <2>2, <3>1, LeafType
    <3>4. pt' \in [Tasks -> [Pages -> Pte]]
      BY <1>1, <2>3, <3>3 DEF TypeOK
    <3>5. FreshPage(l[i], pg, new) \in Data
      BY <1>1, <2>2, <3>1, FreshPageType
    <3>6. content' \in [Frames -> Data]
      BY <2>3, <3>5, ClaimedType
    <3>7. tables' \in [Tasks -> SUBSET ({0, 1} \X Nat)]
      BY <1>1, <2>3, InteriorType DEF TypeOK, NewTables
    <3> QED BY <2>3, <3>2, <3>4, <3>6, <3>7 DEF TypeOK
  <2> QED BY <2>1, <2>3, OutOfMemoryType
<1> QED BY <1>3, <1>4, <1>5 DEF PageFault, FaultRejected, FaultSpurious

\* One more iteration of a kernel loop.
LEMMA NextPageType ==
  ASSUME TypeOK PROVE [kop EXCEPT !.va = @ + PGSIZE] \in Kops
<1>1. PGSIZE \in Nat
  BY SizeAssumption
<1>2. kop \in Kops /\ kop.va + PGSIZE \in Nat
  BY <1>1 DEF TypeOK, Kops
<1> QED BY <1>2 DEF Kops

\* The pages do_fork and unmap_page walk over are user pages.
LEMMA ForkPagePage ==
  ASSUME TypeOK, ForkPage PROVE PageOf(kop.va) \in Pages
<1> DEFINE l == vmas[current]
<1>1. kop.vma \in DOMAIN l /\ kop.va < l[kop.vma].vm_end
  BY DEF ForkPage
<1>2. l \in Seq(Vma) /\ kop.va \in Nat
  BY DEF TypeOK, Kops
<1>3. USER_END \in Nat /\ l[kop.vma].vm_end \in 0..USER_END
  BY <1>1, <1>2, SizeAssumption, ElementOfSeq, LenProperties DEF Vma
<1>4. kop.va \in Addr
  BY <1>1, <1>2, <1>3 DEF Addr
<1> QED BY <1>4, PageFacts

\* The same for unmap_page.
LEMMA UnmapPagePage ==
  ASSUME TypeOK, UnmapPage PROVE PageOf(kop.va) \in Pages
<1>1. kop \in Kops /\ kop.va < kop.end
  BY DEF TypeOK, UnmapPage
<1>2. kop.va \in Addr
  BY <1>1, SizeAssumption DEF Kops, Addr
<1> QED BY <1>2, PageFacts

\* do_fork puts entries of user pages and existing frames into both tables.
LEMMA ForkPageType ==
  ASSUME TypeOK, ForkPage PROVE TypeOK'
<1> DEFINE pg == PageOf(kop.va)
           pte == pt[current][pg]
           perm == SharedPerm(pte.flags)
           nt == NewTables(task_num, pg)
           F == LowestFree(refcnt, Cardinality(nt))
<1>2. current \in Tasks /\ task_num \in Tasks
  BY DEF TypeOK
<1>4. pg \in Pages
  BY ForkPagePage
<1>5. pte \in Pte /\ pte.ppn \in Frames /\ perm \subseteq PteBits
  BY <1>2, <1>4 DEF TypeOK, Pte, PteBits, SharedPerm
<1>6. [kop EXCEPT !.va = @ + PGSIZE] \in Kops
  BY NextPageType
<1>7. Leaf(pte.ppn, perm) \in Pte
  BY <1>5, LeafType
<1>8. ASSUME pt' = [pt EXCEPT ![current][pg] = Leaf(pte.ppn, perm),
                              ![task_num][pg] = Leaf(pte.ppn, perm)],
             tables' = [tables EXCEPT ![task_num] = @ \cup nt],
             refcnt' = Ref(Taken(refcnt, F), pte.ppn),
             content' = Claimed(F),
             tlb' = [tlb EXCEPT ![pg] = pte],
             kop' = [kop EXCEPT !.va = @ + PGSIZE],
             UNCHANGED <<task_num, current, vmas, brk>>
      PROVE  TypeOK'
  <2>1. pt' \in [Tasks -> [Pages -> Pte]]
    BY <1>2, <1>4, <1>7, <1>8 DEF TypeOK
  <2>2. tables' \in [Tasks -> SUBSET ({0, 1} \X Nat)]
    BY <1>2, <1>4, <1>8, InteriorType DEF TypeOK, NewTables
  <2>3. refcnt' \in [Frames -> Nat]
    BY <1>5, <1>8, CountType DEF TypeOK
  <2>4. content' \in [Frames -> Data]
    BY <1>8, ClaimedType
  <2>5. tlb' \in [Pages -> Pte]
    BY <1>4, <1>5, <1>8 DEF TypeOK
  <2> QED BY <1>6, <1>8, <2>1, <2>2, <2>3, <2>4, <2>5 DEF TypeOK
<1>9. ASSUME kop' = [kop EXCEPT !.va = @ + PGSIZE],
             UNCHANGED <<task_num, current, vmas, brk, pt, tables, refcnt,
                         content, tlb>>
      PROVE  TypeOK'
  BY <1>6, <1>9 DEF TypeOK
<1> QED BY <1>8, <1>9, OutOfMemoryType DEF ForkPage

\* A break moves the end of an area within user space.
LEMMA BrkType ==
  ASSUME TypeOK, NEW b \in BrkArgs, BrkGrow(b) \/ BrkShrink(b) PROVE TypeOK'
<1>1. current \in Tasks /\ b \in Breaks /\ brk[current] \in Breaks
  BY DEF TypeOK, Breaks
<1>2. /\ PgRoundUp(b) \in 0..USER_END /\ PgRoundUp(b) \in Nat
      /\ OldBrk \in 0..USER_END
  BY <1>1, BreakFacts, SizeAssumption DEF OldBrk
<1>3. \A i \in FindVma(vmas[current], OldBrk) : i \in DOMAIN vmas[current]
  BY DEF FindVma
<1>4. CASE BrkGrow(b)
  <2>1. vmas' \in [Tasks -> Seq(Vma)]
    BY <1>1, <1>2, <1>3, <1>4, NewEndType DEF BrkGrow
  <2>2. brk' \in [Tasks -> Breaks]
    BY <1>1, <1>4 DEF BrkGrow, TypeOK
  <2> QED BY <1>4, <2>1, <2>2 DEF BrkGrow, TypeOK
<1>5. CASE BrkShrink(b)
  <2>1. vmas' \in [Tasks -> Seq(Vma)]
    BY <1>1, <1>2, <1>3, <1>5, NewEndType DEF BrkShrink
  <2>2. kop' \in Kops
    BY <1>1, <1>2, <1>5 DEF BrkShrink, User, Kops
  <2> QED BY <1>5, <2>1, <2>2 DEF BrkShrink, TypeOK
<1> QED BY <1>4, <1>5

\* unmap_page clears entries of user pages and drops references of frames.
LEMMA UnmapPageType ==
  ASSUME TypeOK, UnmapPage PROVE TypeOK'
<1> DEFINE pg == PageOf(kop.va)
           pte == pt[current][pg]
           rc == Deref(refcnt, pte.ppn)
<1>1. current \in Tasks
  BY DEF TypeOK
<1>2. pg \in Pages
  BY UnmapPagePage
<1>3. pte \in Pte /\ pte.ppn \in Frames
  BY <1>1, <1>2 DEF TypeOK, Pte
<1>4. rc \in [Frames -> Nat]
  BY <1>3, CountType DEF TypeOK
<1>5. [kop EXCEPT !.va = @ + PGSIZE] \in Kops
  BY NextPageType
<1>6. /\ [pt EXCEPT ![current][pg] = NoPte] \in [Tasks -> [Pages -> Pte]]
      /\ [tlb EXCEPT ![pg] = pte] \in [Pages -> Pte]
  BY <1>1, <1>2, <1>3, LeafType DEF TypeOK
<1>7. ASSUME kop' = [kop EXCEPT !.va = @ + PGSIZE],
             UNCHANGED <<task_num, current, vmas, brk, pt, tables, refcnt,
                         content, tlb>>
      PROVE  TypeOK'
  BY <1>5, <1>7 DEF TypeOK
<1>8. ASSUME refcnt' = rc,
             pt' = [pt EXCEPT ![current][pg] = NoPte],
             tlb' = [tlb EXCEPT ![pg] = pte],
             kop' = [kop EXCEPT !.va = @ + PGSIZE],
             UNCHANGED <<task_num, current, vmas, brk, tables, content>>
      PROVE  TypeOK'
  BY <1>4, <1>5, <1>6, <1>8 DEF TypeOK
<1>9. ASSUME NEW new \in LowestFree(rc, 1),
             refcnt' = Taken(rc, {new}),
             content' = [content EXCEPT ![new] = content[pte.ppn]],
             pt' = [pt EXCEPT ![current][pg] = NoPte],
             tlb' = [tlb EXCEPT ![pg] = pte],
             kop' = [kop EXCEPT !.va = @ + PGSIZE],
             UNCHANGED <<task_num, current, vmas, brk, tables>>
      PROVE  TypeOK'
  <2>1. new \in Frames
    BY LowestFreeIsFree
  <2>2. refcnt' \in [Frames -> Nat]
    BY <1>4, <1>9, CountType
  <2>3. content' \in [Frames -> Data]
    BY <1>3, <1>9, <2>1 DEF TypeOK
  <2> QED BY <1>5, <1>6, <1>9, <2>2, <2>3 DEF TypeOK
<1> QED BY <1>7, <1>8, <1>9, OutOfMemoryType DEF UnmapPage

\* Every step keeps the types.
LEMMA NextType == TypeOK /\ [Next]_vars => TypeOK'
<1> SUFFICES ASSUME TypeOK, [Next]_vars PROVE TypeOK'
  OBVIOUS
<1>1. SfenceVma \in [Pages -> Pte] /\ User \in Kops
  BY LeafType, SizeAssumption DEF SfenceVma, NoPtes, User, Kops, Breaks
<1>2. ASSUME NEW a \in UserAddr, NEW d \in WriteData, Store(PageOf(a), d)
      PROVE  TypeOK'
  <2> DEFINE pg == PageOf(a)
  <2>1. pg \in Pages /\ current \in Tasks
    BY LayoutAssumption, PageFacts DEF TypeOK
  <2>2. PICK e \in Translations(pg) :
          /\ content' = [content EXCEPT ![e.ppn] = d]
          /\ tlb' = [tlb EXCEPT ![pg] = IF e = pt[current][pg] THEN NoPte ELSE @]
    BY <1>2 DEF Store
  <2>3. content' \in [Frames -> Data] /\ tlb' \in [Pages -> Pte]
    BY <2>1, <2>2, LeafType DEF TypeOK, Data
  <2> QED BY <1>2, <2>3 DEF Store, TypeOK
<1>3. ASSUME NEW p \in Tasks, Switch(p) PROVE TypeOK'
  BY <1>1, <1>3 DEF Switch, TypeOK
<1>4. ASSUME NEW kind, NEW a \in UserAddr, PageFault(kind, a) PROVE TypeOK'
  BY <1>4, FaultType
<1>5. CASE ForkBegin
  <2> DEFINE n == 5 + Len(vmas[current])
             F == LowestFree(refcnt, n)
  <2>1. ASSUME task_num < MaxTasks,
               task_num' = task_num + 1,
               vmas' = [vmas EXCEPT ![task_num + 1] = Reverse(vmas[current])],
               refcnt' = Taken(refcnt, F),
               content' = Claimed(F),
               kop' = [User EXCEPT !.at = "fork"],
               UNCHANGED <<current, brk, pt, tables, tlb>>
        PROVE  TypeOK'
    <3>1. task_num + 1 \in Tasks /\ current \in Tasks
      BY <2>1, SizeAssumption DEF TypeOK, Tasks
    <3>2. vmas' \in [Tasks -> Seq(Vma)]
      BY <2>1, <3>1, ReverseType DEF TypeOK
    <3>3. refcnt' \in [Frames -> Nat] /\ content' \in [Frames -> Data]
      BY <2>1, CountType, ClaimedType DEF TypeOK
    <3>4. kop' \in Kops
      BY <1>1, <2>1 DEF Kops, User
    <3> QED BY <2>1, <3>1, <3>2, <3>3, <3>4 DEF TypeOK
  <2> QED BY <1>5, <2>1, OutOfMemoryType DEF ForkBegin
<1>6. CASE ForkPage
  BY <1>6, ForkPageType
<1>7. CASE ForkNextVma
  <2> DEFINE l == vmas[current]
             va == IF kop.vma < Len(l) THEN l[kop.vma + 1].vm_start ELSE 0
  <2>1. l \in Seq(Vma) /\ Len(l) \in Nat /\ kop \in Kops /\ kop.vma + 1 \in Nat
    BY LenProperties DEF TypeOK, Kops
  <2>2. va \in Nat
    <3>1. CASE kop.vma < Len(l)
      <4>1. l[kop.vma + 1] \in Vma
        BY <2>1, <3>1, ElementOfSeq DEF Kops
      <4> QED BY <3>1, <4>1, PageFacts DEF Vma
    <3> QED BY <3>1
  <2>3. kop' = [kop EXCEPT !.vma = @ + 1, !.va = va]
    BY <1>7 DEF ForkNextVma
  <2>4. kop' \in Kops
    BY <2>1, <2>2, <2>3 DEF Kops
  <2> QED BY <1>7, <2>4 DEF ForkNextVma, TypeOK
<1>8. CASE ForkEnd
  <2> DEFINE F == LowestFree(refcnt, 1)
  <2>1. ASSUME brk' = [brk EXCEPT ![task_num] = brk[current]],
               refcnt' = Taken(refcnt, F),
               content' = Claimed(F),
               tlb' = SfenceVma,
               kop' = User,
               UNCHANGED <<task_num, current, vmas, pt, tables>>
        PROVE  TypeOK'
    <3>1. refcnt' \in [Frames -> Nat] /\ content' \in [Frames -> Data]
      BY <2>1, CountType, ClaimedType DEF TypeOK
    <3> QED BY <1>1, <2>1, <3>1 DEF TypeOK
  <2> QED BY <1>8, <2>1, OutOfMemoryType DEF ForkEnd
<1>9. ASSUME NEW b \in BrkArgs, BrkUnchanged(b) PROVE TypeOK'
  BY <1>9 DEF BrkUnchanged, TypeOK, vars
<1>10. ASSUME NEW b \in BrkArgs, BrkGrow(b) \/ BrkShrink(b) PROVE TypeOK'
  BY <1>10, BrkType
<1>11. CASE UnmapPage
  BY <1>11, UnmapPageType
<1>12. CASE UnmapEnd
  BY <1>1, <1>12 DEF UnmapEnd, TypeOK, Kops
<1>13. CASE UNCHANGED vars
  BY <1>13 DEF TypeOK, vars
<1> QED
  BY <1>2, <1>3, <1>4, <1>5, <1>6, <1>7, <1>8, <1>9, <1>10, <1>11, <1>12, <1>13
  DEF Next, PoweredOff

\* Type correctness, for every layout and number of frames and tasks: page
\* faults, fork and brk keep page numbers inside user space, file pages inside
\* the image and counts natural.
THEOREM TypeCorrect == Spec => []TypeOK
  BY InitType, NextType, PTL DEF Spec

-----------------------------------------------------------------------------
(* Reference counts and private writable pages                             *)

\* The entries of the tables q that name frame f; Mappers(f) for q = pt.
Naming(q, f) == {m \in Tasks \X Pages : "V" \in q[m[1]][m[2]].flags
                                        /\ q[m[1]][m[2]].ppn = f}

\* Counts rc cover tables q: one reference from alloc_page, one per entry.
Counted(q, rc) ==
  \A f \in Frames : Naming(q, f) # {} => rc[f] >= 1 + Cardinality(Naming(q, f))

\* An entry of q that allows stores is the only one that names its frame.
Unshared(q) ==
  \A p \in Tasks, pg \in Pages :
    {"V", "W"} \subseteq q[p][pg].flags => Naming(q, q[p][pg].ppn) = {<<p, pg>>}

PageTables == [Tasks -> [Pages -> Pte]]
Counts     == [Frames -> Nat]

\* The entries that name a frame can be counted.
LEMMA NamingFinite ==
  ASSUME NEW q, NEW f
  PROVE  IsFiniteSet(Naming(q, f)) /\ Cardinality(Naming(q, f)) \in Nat
BY EntriesFinite, FS_Subset, FS_CardinalityType DEF Naming

\* A named frame has at least two references.
LEMMA NamedIsCounted ==
  ASSUME NEW q, NEW rc \in Counts, Counted(q, rc), NEW f \in Frames,
         Naming(q, f) # {}
  PROVE  rc[f] >= 2
<1>1. Cardinality(Naming(q, f)) # 0 /\ Cardinality(Naming(q, f)) \in Nat
  BY NamingFinite, FS_EmptySet
<1> QED BY <1>1 DEF Counted, Counts

\* Taking free frames disturbs no count of a named frame.
LEMMA TakeKeepsCounted ==
  ASSUME NEW q, NEW rc \in Counts, Counted(q, rc), NEW F \in SUBSET Free(rc)
  PROVE  Counted(q, Taken(rc, F))
<1> SUFFICES ASSUME NEW f \in Frames, Naming(q, f) # {}
             PROVE  Taken(rc, F)[f] >= 1 + Cardinality(Naming(q, f))
  BY DEF Counted
<1>1. rc[f] >= 2
  BY NamedIsCounted
<1>2. f \notin F
  BY <1>1 DEF Free
<1> QED BY <1>2 DEF Taken, Counted

\* Clearing an entry and dropping its reference.
LEMMA ClearKeepsCounted ==
  ASSUME NEW q \in PageTables, NEW rc \in Counts, Counted(q, rc), Unshared(q),
         NEW p \in Tasks, NEW pg \in Pages, "V" \in q[p][pg].flags
  PROVE  LET f == q[p][pg].ppn
             q2 == [q EXCEPT ![p][pg] = NoPte]
         IN /\ Counted(q2, Deref(rc, f))
            /\ Unshared(q2)
            /\ q2 \in PageTables
<1> DEFINE f == q[p][pg].ppn
           q2 == [q EXCEPT ![p][pg] = NoPte]
           m == <<p, pg>>
<1>1. f \in Frames /\ q2 \in PageTables
  BY LeafType DEF PageTables, Pte
<1>2. ASSUME NEW p2 \in Tasks, NEW pg2 \in Pages
      PROVE  q2[p2][pg2] = IF <<p2, pg2>> = m THEN NoPte ELSE q[p2][pg2]
  BY DEF PageTables
<1>3. \A g : Naming(q2, g) = Naming(q, g) \ {m}
  BY <1>2 DEF Naming, NoPte
<1>4. m \in Naming(q, f) /\ \A g : m \in Naming(q, g) => g = f
  BY DEF Naming
<1>5. Counted(q2, Deref(rc, f))
  <2> SUFFICES ASSUME NEW g \in Frames, Naming(q2, g) # {}
               PROVE  Deref(rc, f)[g] >= 1 + Cardinality(Naming(q2, g))
    BY DEF Counted
  <2>1. Naming(q, g) # {} /\ rc[g] \in Nat
    BY <1>3 DEF Counts
  <2>2. rc[g] >= 1 + Cardinality(Naming(q, g)) /\ rc[g] >= 2
    BY <2>1, NamedIsCounted DEF Counted
  <2>3. CASE g = f
    <3>1. Cardinality(Naming(q2, f)) = Cardinality(Naming(q, f)) - 1
      <4>1. IsFiniteSet(Naming(q, f)) /\ m \in Naming(q, f)
        BY <1>4, NamingFinite
      <4>2. Cardinality(Naming(q, f) \ {m}) = Cardinality(Naming(q, f)) - 1
        BY <4>1, FS_RemoveElement
      <4> QED BY <1>3, <4>2
    <3>2. Deref(rc, f)[f] = rc[f] - 1
      BY <1>1, <2>1, <2>2, <2>3 DEF Deref, Counts
    <3> QED BY <2>1, <2>2, <2>3, <3>1, <3>2, NamingFinite
  <2>4. CASE g # f
    <3>1. Naming(q2, g) = Naming(q, g)
      BY <1>3, <1>4, <2>4
    <3>2. Deref(rc, f)[g] = rc[g]
      BY <1>1, <2>4 DEF Deref, Counts
    <3> QED BY <2>2, <3>1, <3>2
  <2> QED BY <2>3, <2>4
<1>6. Unshared(q2)
  <2> SUFFICES ASSUME NEW p2 \in Tasks, NEW pg2 \in Pages,
                      {"V", "W"} \subseteq q2[p2][pg2].flags
               PROVE  Naming(q2, q2[p2][pg2].ppn) = {<<p2, pg2>>}
    BY DEF Unshared
  <2>1. <<p2, pg2>> # m /\ q2[p2][pg2] = q[p2][pg2]
    BY <1>2 DEF NoPte
  <2>2. Naming(q, q[p2][pg2].ppn) = {<<p2, pg2>>}
    BY <2>1 DEF Unshared
  <2> QED BY <1>3, <2>1, <2>2
<1> QED BY <1>1, <1>5, <1>6

\* Entering a frame that no entry names and that has one reference.
LEMMA EnterKeepsCounted ==
  ASSUME NEW q \in PageTables, NEW rc \in Counts, Counted(q, rc), Unshared(q),
         NEW p \in Tasks, NEW pg \in Pages, "V" \notin q[p][pg].flags,
         NEW f \in Frames, Naming(q, f) = {}, rc[f] = 1,
         NEW perm \in SUBSET PteBits
  PROVE  LET q2 == [q EXCEPT ![p][pg] = Leaf(f, perm)]
         IN Counted(q2, Ref(rc, f)) /\ Unshared(q2)
<1> DEFINE q2 == [q EXCEPT ![p][pg] = Leaf(f, perm)]
           m == <<p, pg>>
<1>1. ASSUME NEW p2 \in Tasks, NEW pg2 \in Pages
      PROVE  q2[p2][pg2] = IF <<p2, pg2>> = m THEN Leaf(f, perm) ELSE q[p2][pg2]
  BY DEF PageTables
<1>2. Naming(q2, f) = {m}
  BY <1>1 DEF Naming, Leaf
<1>3. \A g : g # f => Naming(q2, g) = Naming(q, g)
  BY <1>1 DEF Naming, Leaf
<1>4. Counted(q2, Ref(rc, f))
  <2> SUFFICES ASSUME NEW g \in Frames, Naming(q2, g) # {}
               PROVE  Ref(rc, f)[g] >= 1 + Cardinality(Naming(q2, g))
    BY DEF Counted
  <2>1. CASE g = f
    <3>1. Ref(rc, f)[f] = 2
      BY DEF Ref, Counts
    <3>2. Cardinality(Naming(q2, f)) = 1
      BY <1>2, FS_Singleton
    <3> QED BY <2>1, <3>1, <3>2
  <2>2. CASE g # f
    <3>1. Ref(rc, f)[g] = rc[g]
      BY <2>2 DEF Ref, Counts
    <3>2. Naming(q2, g) = Naming(q, g)
      BY <1>3, <2>2
    <3>3. rc[g] >= 1 + Cardinality(Naming(q, g))
      BY <3>2 DEF Counted
    <3> QED BY <3>1, <3>2, <3>3
  <2> QED BY <2>1, <2>2
<1>5. Unshared(q2)
  <2> SUFFICES ASSUME NEW p2 \in Tasks, NEW pg2 \in Pages,
                      {"V", "W"} \subseteq q2[p2][pg2].flags
               PROVE  Naming(q2, q2[p2][pg2].ppn) = {<<p2, pg2>>}
    BY DEF Unshared
  <2>1. CASE <<p2, pg2>> = m
    <3>1. q2[p2][pg2].ppn = f
      BY <1>1, <2>1 DEF Leaf
    <3> QED BY <1>2, <2>1, <3>1
  <2>2. CASE <<p2, pg2>> # m
    <3>1. q2[p2][pg2] = q[p2][pg2]
      BY <1>1, <2>2
    <3>2. <<p2, pg2>> \in Naming(q, q[p2][pg2].ppn)
      BY <3>1 DEF Naming
    <3>3. q[p2][pg2].ppn # f
      BY <3>2
    <3>4. Naming(q2, q[p2][pg2].ppn) = Naming(q, q[p2][pg2].ppn)
      BY <1>3, <3>3
    <3>5. Naming(q, q[p2][pg2].ppn) = {<<p2, pg2>>}
      BY <3>1 DEF Unshared
    <3> QED BY <3>1, <3>4, <3>5
  <2> QED BY <2>1, <2>2
<1> QED BY <1>4, <1>5

\* Sharing a mapped page with a task that does not map it, or maps the same
\* frame there: neither entry allows stores afterwards.
LEMMA ShareKeepsCounted ==
  ASSUME NEW q \in PageTables, NEW rc \in Counts, Counted(q, rc), Unshared(q),
         NEW p \in Tasks, NEW c \in Tasks, p # c, NEW pg \in Pages,
         "V" \in q[p][pg].flags,
         "V" \in q[c][pg].flags => q[c][pg].ppn = q[p][pg].ppn,
         NEW perm \in SUBSET PteBits, "W" \notin perm
  PROVE  LET f == q[p][pg].ppn
             q2 == [q EXCEPT ![p][pg] = Leaf(f, perm), ![c][pg] = Leaf(f, perm)]
         IN Counted(q2, Ref(rc, f)) /\ Unshared(q2)
<1> DEFINE f == q[p][pg].ppn
           q2 == [q EXCEPT ![p][pg] = Leaf(f, perm), ![c][pg] = Leaf(f, perm)]
           m == <<p, pg>>
           n == <<c, pg>>
<1>1. f \in Frames
  BY DEF PageTables, Pte
<1>2. ASSUME NEW p2 \in Tasks, NEW pg2 \in Pages
      PROVE  q2[p2][pg2] = IF pg2 = pg /\ (p2 = p \/ p2 = c)
                           THEN Leaf(f, perm) ELSE q[p2][pg2]
  BY DEF PageTables
<1>3. m \in Naming(q, f)
  BY DEF Naming
<1> HIDE DEF q2
<1>4. Naming(q2, f) = Naming(q, f) \cup {n}
  <2>1. ASSUME NEW x \in Tasks \X Pages
        PROVE  x \in Naming(q2, f) <=> x \in Naming(q, f) \cup {n}
    <3>1. x = <<x[1], x[2]>> /\ x[1] \in Tasks /\ x[2] \in Pages
      OBVIOUS
    <3>2. q2[x[1]][x[2]] = IF x[2] = pg /\ (x[1] = p \/ x[1] = c)
                           THEN Leaf(f, perm) ELSE q[x[1]][x[2]]
      BY <1>2, <3>1
    <3>3. CASE x[2] = pg /\ x[1] = c
      <4>1. x = n /\ x \in Naming(q2, f)
        BY <3>1, <3>2, <3>3 DEF Naming, Leaf
      <4> QED BY <4>1
    <3>4. CASE x[2] = pg /\ x[1] = p
      <4>1. x = m /\ x \in Naming(q2, f)
        BY <3>1, <3>2, <3>4 DEF Naming, Leaf
      <4> QED BY <1>3, <4>1
    <3>5. CASE ~(x[2] = pg /\ (x[1] = p \/ x[1] = c))
      <4>1. x # n /\ q2[x[1]][x[2]] = q[x[1]][x[2]]
        BY <3>1, <3>2, <3>5
      <4> QED BY <4>1 DEF Naming
    <3> QED BY <3>3, <3>4, <3>5
  <2> QED BY <2>1 DEF Naming
<1>5. ASSUME NEW g, g # f PROVE Naming(q2, g) = Naming(q, g)
  <2>1. ASSUME NEW x \in Tasks \X Pages
        PROVE  x \in Naming(q2, g) <=> x \in Naming(q, g)
    <3>1. x = <<x[1], x[2]>> /\ x[1] \in Tasks /\ x[2] \in Pages
      OBVIOUS
    <3>2. q2[x[1]][x[2]] = IF x[2] = pg /\ (x[1] = p \/ x[1] = c)
                           THEN Leaf(f, perm) ELSE q[x[1]][x[2]]
      BY <1>2, <3>1
    <3>3. CASE x[2] = pg /\ (x[1] = p \/ x[1] = c)
      <4>1. x \notin Naming(q2, g)
        BY <1>5, <3>2, <3>3 DEF Naming, Leaf
      <4>2. x \notin Naming(q, g)
        BY <1>5, <3>1, <3>3 DEF Naming
      <4> QED BY <4>1, <4>2
    <3>4. CASE ~(x[2] = pg /\ (x[1] = p \/ x[1] = c))
      <4>1. q2[x[1]][x[2]] = q[x[1]][x[2]]
        BY <3>2, <3>4
      <4> QED BY <4>1 DEF Naming
    <3> QED BY <3>3, <3>4
  <2> QED BY <2>1 DEF Naming
<1>6. Counted(q2, Ref(rc, f))
  <2> SUFFICES ASSUME NEW g \in Frames, Naming(q2, g) # {}
               PROVE  Ref(rc, f)[g] >= 1 + Cardinality(Naming(q2, g))
    BY DEF Counted
  <2>1. CASE g = f
    <3>1. rc[f] >= 1 + Cardinality(Naming(q, f)) /\ rc[f] >= 2 /\ rc[f] \in Nat
      BY <1>1, <1>3, NamedIsCounted DEF Counted, Counts
    <3>2. Ref(rc, f)[f] = rc[f] + 1
      BY <1>1, <3>1 DEF Ref, Counts
    <3>3. IsFiniteSet(Naming(q, f)) /\ Cardinality(Naming(q, f)) \in Nat
      BY NamingFinite
    <3>4. Cardinality(Naming(q, f) \cup {n}) <= Cardinality(Naming(q, f)) + 1
      <4>1. Cardinality(Naming(q, f) \cup {n}) =
              IF n \in Naming(q, f) THEN Cardinality(Naming(q, f))
              ELSE Cardinality(Naming(q, f)) + 1
        BY <3>3, FS_AddElement
      <4> QED BY <3>3, <4>1
    <3>5. Cardinality(Naming(q2, f)) \in Nat
      BY NamingFinite
    <3>6. Ref(rc, f)[f] >= 1 + Cardinality(Naming(q2, f))
      BY <1>4, <3>1, <3>2, <3>3, <3>4, <3>5
    <3> QED BY <2>1, <3>6
  <2>2. CASE g # f
    <3>1. Ref(rc, f)[g] = rc[g]
      BY <1>1, <2>2 DEF Ref, Counts
    <3>2. Naming(q2, g) = Naming(q, g)
      BY <1>5, <2>2
    <3>3. rc[g] >= 1 + Cardinality(Naming(q, g))
      BY <3>2 DEF Counted
    <3> QED BY <3>1, <3>2, <3>3
  <2> QED BY <2>1, <2>2
<1>7. Unshared(q2)
  <2> SUFFICES ASSUME NEW p2 \in Tasks, NEW pg2 \in Pages,
                      {"V", "W"} \subseteq q2[p2][pg2].flags
               PROVE  Naming(q2, q2[p2][pg2].ppn) = {<<p2, pg2>>}
    BY DEF Unshared
  <2>1. ~(pg2 = pg /\ (p2 = p \/ p2 = c)) /\ q2[p2][pg2] = q[p2][pg2]
    BY <1>2 DEF Leaf
  <2>2. Naming(q, q[p2][pg2].ppn) = {<<p2, pg2>>}
    BY <2>1 DEF Unshared
  <2>3. q[p2][pg2].ppn # f
    BY <1>3, <2>1, <2>2
  <2>4. Naming(q2, q[p2][pg2].ppn) = Naming(q, q[p2][pg2].ppn)
    BY <1>5, <2>3
  <2> QED BY <2>1, <2>2, <2>4
<1> QED BY <1>6, <1>7 DEF q2

-----------------------------------------------------------------------------
(* The inductive invariant                                                 *)

\* Tasks not created yet map nothing.
UnbornMapNothing ==
  \A p \in Tasks, pg \in Pages : p > task_num => "V" \notin pt[p][pg].flags

\* The running task is in the task table; the child of a fork under way is not.
CurrentRuns ==
  current <= task_num /\ (kop.at = "fork" => current # task_num)

\* What a fork has given the child so far are frames of the parent's.
ForkShares ==
  kop.at = "fork" =>
    \A pg \in Pages : "V" \in pt[task_num][pg].flags
                        => pt[task_num][pg].ppn = pt[current][pg].ppn

IInv ==
  /\ TypeOK
  /\ Counted(pt, refcnt)
  /\ Unshared(pt)
  /\ UnbornMapNothing
  /\ CurrentRuns
  /\ ForkShares

\* Nothing is mapped when the first task starts.
LEMMA InitIInv == Init => IInv
<1> SUFFICES ASSUME Init PROVE IInv
  OBVIOUS
<1>1. TypeOK
  BY InitType
<1>2. \A p \in Tasks, pg \in Pages : pt[p][pg] = NoPte
  BY DEF Init, NoPtes
<1>3. \A f : Naming(pt, f) = {}
  BY <1>2 DEF Naming, NoPte
<1>4. Counted(pt, refcnt)
  BY <1>3 DEF Counted
<1>5. Unshared(pt) /\ UnbornMapNothing
  BY <1>2 DEF Unshared, UnbornMapNothing, NoPte
<1>6. CurrentRuns /\ ForkShares
  BY DEF Init, CurrentRuns, ForkShares, User
<1> QED BY <1>1, <1>4, <1>5, <1>6 DEF IInv

\* A step that changes neither tables, counts, tasks nor the kernel's place.
LEMMA FrameIInv ==
  ASSUME IInv, TypeOK', UNCHANGED <<task_num, current, pt, refcnt>>,
         kop'.at = kop.at
  PROVE  IInv'
BY DEF IInv, Counted, Unshared, UnbornMapNothing, CurrentRuns, ForkShares, Naming

\* A reset request changes nothing but the power.
LEMMA OutOfMemoryIInv ==
  ASSUME IInv, TypeOK', NEW rc, NEW n, OutOfMemory(rc, n) PROVE IInv'
<1>1. kop'.at = kop.at
  BY DEF OutOfMemory, IInv, TypeOK, Kops
<1> QED BY <1>1, FrameIInv DEF OutOfMemory

\* A step outside fork that changes one entry of the running task.
LEMMA OneEntryIInv ==
  ASSUME IInv, TypeOK', NEW pg \in Pages, NEW e,
         pt' = [pt EXCEPT ![current][pg] = e],
         Counted(pt', refcnt'), Unshared(pt'),
         UNCHANGED <<task_num, current>>, kop.at # "fork", kop'.at # "fork"
  PROVE  IInv'
<1>1. current \in Tasks /\ task_num \in Tasks /\ current <= task_num
  BY DEF IInv, TypeOK, CurrentRuns
<1>2. ASSUME NEW p \in Tasks, NEW pg2 \in Pages, p > task_num
      PROVE  "V" \notin pt'[p][pg2].flags
  <2>1. p # current
    BY <1>1, <1>2 DEF Tasks
  <2>2. pt'[p] = pt[p]
    BY <2>1 DEF IInv, TypeOK
  <2> QED BY <1>2, <2>2 DEF IInv, UnbornMapNothing
<1>3. UnbornMapNothing'
  BY <1>2 DEF UnbornMapNothing
<1>4. CurrentRuns' /\ ForkShares'
  BY DEF IInv, CurrentRuns, ForkShares
<1>5. Counted(pt, refcnt)' /\ Unshared(pt)'
  BY DEF Counted, Unshared, Naming
<1> QED BY <1>3, <1>4, <1>5 DEF IInv

\* A fault enters a frame nobody names, after clearing the shared entry if the
\* page had one.
LEMMA FaultIInv ==
  ASSUME IInv, TypeOK', NEW kind, NEW a \in UserAddr, PageFault(kind, a)
  PROVE  IInv'
<1> DEFINE l == vmas[current]
           pg == PageOf(a)
           old == pt[current][pg]
<1>1. /\ pg \in Pages /\ l \in Seq(Vma) /\ current \in Tasks
      /\ pt \in PageTables /\ refcnt \in Counts
      /\ old \in Pte /\ old.ppn \in Frames /\ kop.at = "user"
  <2>1. pg \in Pages
    BY LayoutAssumption, PageFacts
  <2>2. l \in Seq(Vma) /\ current \in Tasks /\ pt \in PageTables /\ refcnt \in Counts
    BY DEF IInv, TypeOK, PageTables, Counts
  <2>3. old \in Pte
    BY <2>1, <2>2 DEF PageTables
  <2>4. old.ppn \in Frames
    BY <2>3 DEF Pte
  <2>5. kop.at = "user"
    BY DEF PageFault, At
  <2> QED BY <2>1, <2>2, <2>3, <2>4, <2>5
<1>2. Counted(pt, refcnt) /\ Unshared(pt)
  BY DEF IInv
<1>3. CASE UNCHANGED vars
  BY <1>3, FrameIInv DEF vars
<1>4. CASE FaultCow(kind, a)
  <2> DEFINE rc == Deref(refcnt, old.ppn)
             q1 == [pt EXCEPT ![current][pg] = NoPte]
  <2>1. "V" \in old.flags /\ UNCHANGED <<task_num, current>>
    BY <1>4 DEF FaultCow
  <2>2. <<current, pg>> \in Naming(pt, old.ppn)
    BY <1>1, <2>1 DEF Naming
  <2>3. refcnt[old.ppn] >= 2
    BY <1>1, <1>2, <2>2, NamedIsCounted
  <2>4. Counted(q1, rc) /\ Unshared(q1) /\ q1 \in PageTables
    BY <1>1, <1>2, <2>1, ClearKeepsCounted
  <2>5. rc \in Counts
    BY <1>1, CountType DEF Counts
  <2>6. PICK i \in FindVma(l, a) :
          \/ \E new \in LowestFree(rc, 1) :
               /\ content' = [content EXCEPT ![new] = content[old.ppn]]
               /\ pt' = [pt EXCEPT ![current][pg] = Leaf(new, PermOf(l[i]))]
               /\ refcnt' = Ref(Taken(rc, {new}), new)
               /\ UNCHANGED kop
          \/ OutOfMemory(rc, 1)
    <3>1. refcnt[old.ppn] # 0
      BY <1>1, <2>3 DEF Counts
    <3>2. PICK i \in FindVma(l, a) :
            IF refcnt[old.ppn] = 0 THEN TRUE
            ELSE \/ \E new \in LowestFree(rc, 1) :
                      /\ content' = [content EXCEPT ![new] = content[old.ppn]]
                      /\ pt' = [pt EXCEPT ![current][pg] = Leaf(new, PermOf(l[i]))]
                      /\ refcnt' = Ref(Taken(rc, {new}), new)
                      /\ UNCHANGED kop
                 \/ OutOfMemory(rc, 1)
      BY <1>4 DEF FaultCow
    <3> QED BY <3>1, <3>2
  <2>7. ASSUME NEW new \in LowestFree(rc, 1),
               pt' = [pt EXCEPT ![current][pg] = Leaf(new, PermOf(l[i]))],
               refcnt' = Ref(Taken(rc, {new}), new),
               UNCHANGED kop
        PROVE  IInv'
    <3> DEFINE rc2 == Taken(rc, {new})
    <3>1. new \in Frames /\ new \in Free(rc) /\ rc[new] = 0
      BY LowestFreeIsFree DEF Free
    <3>2. Counted(q1, rc2) /\ rc2 \in Counts
      BY <2>4, <2>5, <3>1, TakeKeepsCounted, CountType DEF Counts
    <3>3. Naming(q1, new) = {}
      BY <2>4, <2>5, <3>1, NamedIsCounted
    <3>4. rc2[new] = 1
      BY <3>1 DEF Taken
    <3>5. PermOf(l[i]) \in SUBSET PteBits
      BY <1>1, FindVmaType, LeafType
    <3>6. "V" \notin q1[current][pg].flags
      BY <1>1 DEF PageTables, NoPte
    <3>7. pt' = [q1 EXCEPT ![current][pg] = Leaf(new, PermOf(l[i]))]
      BY <1>1, <2>7 DEF PageTables
    <3> HIDE DEF q1, rc2
    <3>8. /\ Counted([q1 EXCEPT ![current][pg] = Leaf(new, PermOf(l[i]))],
                     Ref(rc2, new))
          /\ Unshared([q1 EXCEPT ![current][pg] = Leaf(new, PermOf(l[i]))])
      BY <1>1, <2>4, <3>1, <3>2, <3>3, <3>4, <3>5, <3>6, EnterKeepsCounted
    <3>9. Counted(pt', refcnt') /\ Unshared(pt')
      BY <2>7, <3>7, <3>8 DEF rc2
    <3> QED BY <1>1, <2>1, <2>7, <3>9, OneEntryIInv
  <2> QED BY <2>6, <2>7, OutOfMemoryIInv
<1>5. CASE FaultDemand(kind, a)
  <2> DEFINE n == 1 + Cardinality(NewTables(current, pg))
             F == LowestFree(refcnt, n)
  <2>1. PICK i \in FindVma(l, a) :
          \/ \E new \in LowestFree(refcnt, 1) :
               /\ pt' = [pt EXCEPT ![current][pg] = Leaf(new, PermOf(l[i]))]
               /\ refcnt' = Ref(Taken(refcnt, F), new)
               /\ Cardinality(F) = n
               /\ UNCHANGED <<task_num, current, kop>>
          \/ OutOfMemory(refcnt, n)
    BY <1>5 DEF FaultDemand
  <2>2. "V" \notin old.flags
    BY <1>5 DEF FaultDemand, Mapped
  <2>3. ASSUME NEW new \in LowestFree(refcnt, 1),
               pt' = [pt EXCEPT ![current][pg] = Leaf(new, PermOf(l[i]))],
               refcnt' = Ref(Taken(refcnt, F), new),
               UNCHANGED <<task_num, current, kop>>
        PROVE  IInv'
    <3> DEFINE rc2 == Taken(refcnt, F)
    <3>1. new \in Frames /\ refcnt[new] = 0 /\ F \in SUBSET Free(refcnt)
      BY LowestFreeIsFree DEF Free
    <3>2. new \in F
      <4>1. n \in Nat \ {0}
        BY NewTablesFinite
      <4> QED BY <4>1, LowestFreeNested
    <3>3. Counted(pt, rc2) /\ rc2 \in Counts
      BY <1>1, <1>2, <3>1, TakeKeepsCounted, CountType DEF Counts
    <3>4. Naming(pt, new) = {}
      BY <1>1, <1>2, <3>1, NamedIsCounted
    <3>5. rc2[new] = 1
      BY <3>1, <3>2 DEF Taken
    <3>6. PermOf(l[i]) \in SUBSET PteBits
      BY <1>1, FindVmaType, LeafType
    <3> HIDE DEF rc2
    <3>7. /\ Counted([pt EXCEPT ![current][pg] = Leaf(new, PermOf(l[i]))],
                     Ref(rc2, new))
          /\ Unshared([pt EXCEPT ![current][pg] = Leaf(new, PermOf(l[i]))])
      BY <1>1, <1>2, <2>2, <3>1, <3>3, <3>4, <3>5, <3>6, EnterKeepsCounted
    <3>8. Counted(pt', refcnt') /\ Unshared(pt')
      BY <2>3, <3>7 DEF rc2
    <3> QED BY <1>1, <2>3, <3>8, OneEntryIInv
  <2> QED BY <2>1, <2>3, OutOfMemoryIInv
<1> QED BY <1>3, <1>4, <1>5 DEF PageFault, FaultRejected, FaultSpurious

\* The child, which is not the parent, gets entries of the parent's frames.
LEMMA ForkPageIInv ==
  ASSUME IInv, TypeOK', ForkPage PROVE IInv'
<1> DEFINE pg == PageOf(kop.va)
           pte == pt[current][pg]
           perm == SharedPerm(pte.flags)
           n == Cardinality(NewTables(task_num, pg))
           F == LowestFree(refcnt, n)
           rc == Taken(refcnt, F)
           e == Leaf(pte.ppn, perm)
           q == [pt EXCEPT ![current][pg] = e, ![task_num][pg] = e]
<1>1. kop.at = "fork" /\ current \in Tasks /\ task_num \in Tasks
      /\ pt \in PageTables /\ refcnt \in Counts
  BY DEF IInv, TypeOK, PageTables, Counts, ForkPage, At
<1>2. pg \in Pages
  BY ForkPagePage DEF IInv
<1>3. current # task_num /\ current <= task_num
  BY <1>1 DEF IInv, CurrentRuns
<1>4. pte \in Pte /\ perm \in SUBSET PteBits /\ "W" \notin perm
  BY <1>1, <1>2 DEF PageTables, Pte, PteBits, SharedPerm
<1>5. Counted(pt, refcnt) /\ Unshared(pt)
  BY DEF IInv
<1>6. ASSUME "V" \in pte.flags, pt' = q, refcnt' = Ref(rc, pte.ppn),
             UNCHANGED <<task_num, current>>, kop'.at = "fork"
      PROVE  IInv'
  <2>1. F \in SUBSET Free(refcnt)
    BY LowestFreeIsFree
  <2>2. Counted(pt, rc) /\ rc \in Counts
    BY <1>1, <1>5, <2>1, TakeKeepsCounted, CountType DEF Counts
  <2>3. "V" \in pt[task_num][pg].flags => pt[task_num][pg].ppn = pte.ppn
    BY <1>1, <1>2 DEF IInv, ForkShares
  <2>4. Counted(q, Ref(rc, pte.ppn)) /\ Unshared(q)
    BY <1>1, <1>2, <1>3, <1>4, <1>5, <1>6, <2>2, <2>3, ShareKeepsCounted
  <2>5. ASSUME NEW p \in Tasks, NEW pg2 \in Pages
        PROVE  q[p][pg2] = IF pg2 = pg /\ (p = current \/ p = task_num)
                           THEN e ELSE pt[p][pg2]
    BY <1>1 DEF PageTables
  <2> HIDE DEF q
  <2>6. Counted(pt, refcnt)' /\ Unshared(pt)'
    BY <1>6, <2>4 DEF Counted, Unshared, Naming
  <2>7. UnbornMapNothing'
    <3> SUFFICES ASSUME NEW p \in Tasks, NEW pg2 \in Pages, p > task_num
                 PROVE  "V" \notin pt'[p][pg2].flags
      BY <1>6 DEF UnbornMapNothing
    <3>1. p # current /\ p # task_num
      BY <1>1, <1>3 DEF Tasks
    <3>2. pt'[p][pg2] = pt[p][pg2]
      BY <1>6, <2>5, <3>1
    <3> QED BY <3>2 DEF IInv, UnbornMapNothing
  <2>8. ForkShares'
    <3> SUFFICES ASSUME NEW pg2 \in Pages, "V" \in pt'[task_num][pg2].flags
                 PROVE  pt'[task_num][pg2].ppn = pt'[current][pg2].ppn
      BY <1>6 DEF ForkShares
    <3>1. CASE pg2 = pg
      BY <1>1, <1>6, <2>5, <3>1
    <3>2. CASE pg2 # pg
      <4>1. pt'[task_num][pg2] = pt[task_num][pg2] /\ pt'[current][pg2] = pt[current][pg2]
        BY <1>1, <1>6, <2>5, <3>2
      <4> QED BY <1>1, <4>1 DEF IInv, ForkShares
    <3> QED BY <3>1, <3>2
  <2>9. CurrentRuns'
    BY <1>3, <1>6 DEF CurrentRuns
  <2> QED BY <2>6, <2>7, <2>8, <2>9 DEF IInv
<1>7. [kop EXCEPT !.va = @ + PGSIZE].at = "fork"
  BY <1>1 DEF IInv, TypeOK, Kops
<1>8. CASE OutOfMemory(refcnt, n)
  BY <1>8, OutOfMemoryIInv
<1>9. CASE Mapped(current, pg) /\ ~OutOfMemory(refcnt, n)
  <2>1. /\ "V" \in pte.flags /\ pt' = q /\ refcnt' = Ref(rc, pte.ppn)
        /\ UNCHANGED <<task_num, current>>
        /\ kop' = [kop EXCEPT !.va = @ + PGSIZE]
    BY <1>9 DEF ForkPage, Mapped
  <2> QED BY <1>6, <1>7, <2>1
<1>10. CASE ~Mapped(current, pg)
  <2>1. /\ kop' = [kop EXCEPT !.va = @ + PGSIZE]
        /\ UNCHANGED <<task_num, current, pt, refcnt>>
    BY <1>10 DEF ForkPage
  <2> QED BY <1>1, <1>7, <2>1, FrameIInv
<1> QED BY <1>8, <1>9, <1>10

\* An unmapped page loses its entry and a reference; the copy unmap_page makes
\* of a shared page is a frame no entry names.
LEMMA UnmapPageIInv ==
  ASSUME IInv, TypeOK', UnmapPage PROVE IInv'
<1> DEFINE pg == PageOf(kop.va)
           pte == pt[current][pg]
           rc == Deref(refcnt, pte.ppn)
           q == [pt EXCEPT ![current][pg] = NoPte]
<1>1. kop.at = "unmap" /\ current \in Tasks /\ pt \in PageTables /\ refcnt \in Counts
  BY DEF IInv, TypeOK, PageTables, Counts, UnmapPage, At
<1>2. pg \in Pages
  BY UnmapPagePage DEF IInv
<1>3. pte.ppn \in Frames
  BY <1>1, <1>2 DEF PageTables, Pte
<1>4. Counted(pt, refcnt) /\ Unshared(pt)
  BY DEF IInv
<1>5. [kop EXCEPT !.va = @ + PGSIZE].at = "unmap"
  BY <1>1 DEF IInv, TypeOK, Kops
<1>6. ASSUME "V" \in pte.flags
      PROVE  Counted(q, rc) /\ Unshared(q) /\ rc \in Counts
  BY <1>1, <1>2, <1>3, <1>4, <1>6, ClearKeepsCounted, CountType DEF Counts
<1>7. ASSUME "V" \in pte.flags, pt' = q,
             refcnt' = rc \/ \E new \in LowestFree(rc, 1) : refcnt' = Taken(rc, {new}),
             kop' = [kop EXCEPT !.va = @ + PGSIZE], UNCHANGED <<task_num, current>>
      PROVE  IInv'
  <2>1. Counted(q, refcnt')
    <3>1. CASE refcnt' = rc
      BY <1>6, <1>7, <3>1
    <3>2. ASSUME NEW new \in LowestFree(rc, 1), refcnt' = Taken(rc, {new})
          PROVE  Counted(q, refcnt')
      <4>1. {new} \in SUBSET Free(rc)
        BY LowestFreeIsFree
      <4> QED BY <1>6, <1>7, <3>2, <4>1, TakeKeepsCounted
    <3> QED BY <1>7, <3>1, <3>2
  <2>2. kop.at # "fork" /\ kop'.at # "fork"
    BY <1>1, <1>5, <1>7
  <2>3. Counted(pt', refcnt') /\ Unshared(pt')
    BY <1>6, <1>7, <2>1
  <2> QED BY <1>2, <1>7, <2>2, <2>3, OneEntryIInv
<1>8. CASE OutOfMemory(rc, 1)
  BY <1>8, OutOfMemoryIInv
<1>9. CASE Mapped(current, pg) /\ ~OutOfMemory(rc, 1)
  <2>1. /\ pt' = q /\ kop' = [kop EXCEPT !.va = @ + PGSIZE]
        /\ UNCHANGED <<task_num, current>>
        /\ refcnt' = rc \/ \E new \in LowestFree(rc, 1) : refcnt' = Taken(rc, {new})
    BY <1>9 DEF UnmapPage
  <2> QED BY <1>7, <1>9, <2>1 DEF Mapped
<1>10. CASE ~Mapped(current, pg)
  <2>1. /\ kop' = [kop EXCEPT !.va = @ + PGSIZE]
        /\ UNCHANGED <<task_num, current, pt, refcnt>>
    BY <1>10 DEF UnmapPage
  <2> QED BY <1>1, <1>5, <2>1, FrameIInv
<1> QED BY <1>8, <1>9, <1>10

\* Taking frames for the kernel, with the same tables and the same task.
LEMMA TakeIInv ==
  ASSUME IInv, NEW n, refcnt' = Taken(refcnt, LowestFree(refcnt, n)), pt' = pt
  PROVE  Counted(pt, refcnt)' /\ Unshared(pt)'
<1>1. refcnt \in Counts /\ Counted(pt, refcnt) /\ Unshared(pt)
  BY DEF IInv, TypeOK, Counts
<1>2. LowestFree(refcnt, n) \in SUBSET Free(refcnt)
  BY LowestFreeIsFree
<1>3. Counted(pt, refcnt')
  BY <1>1, <1>2, TakeKeepsCounted
<1> QED BY <1>1, <1>3 DEF Counted, Unshared, Naming

\* Every step of the kernel and of the programs keeps the invariant.
LEMMA NextIInv == IInv /\ [Next]_vars => IInv'
<1> SUFFICES ASSUME IInv, [Next]_vars PROVE IInv'
  OBVIOUS
<1>1. TypeOK'
  BY NextType DEF IInv
<1>2. task_num \in Tasks /\ current \in Tasks /\ current <= task_num
  BY DEF IInv, TypeOK, CurrentRuns
<1>3. ASSUME NEW a \in UserAddr, NEW d \in WriteData, Store(PageOf(a), d)
      PROVE  IInv'
  BY <1>1, <1>3, FrameIInv DEF Store
<1>4. ASSUME NEW p \in Tasks, Switch(p) PROVE IInv'
  <2>1. UNCHANGED <<task_num, pt, refcnt, kop>> /\ current' <= task_num
        /\ kop.at = "user"
    BY <1>4 DEF Switch, At
  <2>2. CurrentRuns' /\ ForkShares'
    BY <2>1 DEF CurrentRuns, ForkShares
  <2> QED BY <1>1, <2>1, <2>2
          DEF IInv, Counted, Unshared, UnbornMapNothing, Naming
<1>5. ASSUME NEW kind, NEW a \in UserAddr, PageFault(kind, a) PROVE IInv'
  BY <1>1, <1>5, FaultIInv
<1>6. CASE ForkBegin
  <2> DEFINE n == 5 + Len(vmas[current])
             F == LowestFree(refcnt, n)
  <2>1. CASE OutOfMemory(refcnt, n)
    BY <1>1, <2>1, OutOfMemoryIInv
  <2>2. CASE ~OutOfMemory(refcnt, n)
    <3>1. /\ task_num' = task_num + 1 /\ refcnt' = Taken(refcnt, F)
          /\ UNCHANGED <<current, pt>>
      BY <1>6, <2>2 DEF ForkBegin
    <3>2. Counted(pt, refcnt)' /\ Unshared(pt)'
      BY <3>1, TakeIInv
    <3>3. task_num' \in Tasks /\ task_num' > task_num /\ current # task_num'
      BY <1>1, <1>2, <3>1 DEF TypeOK, Tasks
    <3>4. UnbornMapNothing'
      BY <1>2, <3>1, <3>3 DEF IInv, UnbornMapNothing, Tasks
    <3>5. CurrentRuns'
      BY <1>2, <3>1, <3>3 DEF CurrentRuns, Tasks
    <3>6. ForkShares'
      BY <3>1, <3>3 DEF IInv, UnbornMapNothing, ForkShares
    <3> QED BY <1>1, <3>2, <3>4, <3>5, <3>6 DEF IInv
  <2> QED BY <2>1, <2>2
<1>7. CASE ForkPage
  BY <1>1, <1>7, ForkPageIInv
<1>8. CASE ForkNextVma
  <2>1. kop'.at = kop.at /\ UNCHANGED <<task_num, current, pt, refcnt>>
    BY <1>8 DEF ForkNextVma, IInv, TypeOK, Kops
  <2> QED BY <1>1, <2>1, FrameIInv
<1>9. CASE ForkEnd
  <2>1. CASE OutOfMemory(refcnt, 1)
    BY <1>1, <2>1, OutOfMemoryIInv
  <2>2. CASE ~OutOfMemory(refcnt, 1)
    <3>1. /\ refcnt' = Taken(refcnt, LowestFree(refcnt, 1)) /\ kop' = User
          /\ UNCHANGED <<task_num, current, pt>>
      BY <1>9, <2>2 DEF ForkEnd
    <3>2. Counted(pt, refcnt)' /\ Unshared(pt)'
      BY <3>1, TakeIInv
    <3>3. UnbornMapNothing'
      BY <3>1 DEF IInv, UnbornMapNothing
    <3>4. CurrentRuns' /\ ForkShares'
      BY <1>2, <3>1 DEF CurrentRuns, ForkShares, User
    <3> QED BY <1>1, <3>2, <3>3, <3>4 DEF IInv
  <2> QED BY <2>1, <2>2
<1>10. ASSUME NEW b \in BrkArgs, BrkGrow(b) PROVE IInv'
  BY <1>1, <1>10, FrameIInv DEF BrkGrow
<1>11. ASSUME UNCHANGED <<task_num, current, pt, refcnt>>, kop'.at # "fork"
       PROVE  IInv'
  <2>1. CurrentRuns' /\ ForkShares'
    BY <1>2, <1>11 DEF CurrentRuns, ForkShares
  <2> QED BY <1>1, <1>11, <2>1
          DEF IInv, Counted, Unshared, UnbornMapNothing, Naming
<1>12. ASSUME NEW b \in BrkArgs, BrkShrink(b) PROVE IInv'
  <2>1. kop'.at = "unmap"
    BY <1>12 DEF BrkShrink, User
  <2> QED BY <1>11, <1>12, <2>1 DEF BrkShrink
<1>13. CASE UnmapPage
  BY <1>1, <1>13, UnmapPageIInv
<1>14. CASE UnmapEnd
  <2>1. kop'.at = "user"
    BY <1>14 DEF UnmapEnd, User
  <2> QED BY <1>11, <1>14, <2>1 DEF UnmapEnd
<1>15. CASE UNCHANGED vars
  BY <1>1, <1>15, FrameIInv DEF vars
<1> QED
  BY <1>3, <1>4, <1>5, <1>6, <1>7, <1>8, <1>9, <1>10, <1>12, <1>13, <1>14, <1>15
  DEF Next, PoweredOff, BrkUnchanged

\* What the invariant says of writable pages.
LEMMA IInvPrivate == IInv => WritableIsPrivate
<1> SUFFICES ASSUME IInv, NEW p \in Tasks, NEW pg \in Pages,
                    Mapped(p, pg), "W" \in pt[p][pg].flags
             PROVE  Mappers(pt[p][pg].ppn) = {<<p, pg>>}
  BY DEF WritableIsPrivate
<1>1. Naming(pt, pt[p][pg].ppn) = {<<p, pg>>}
  BY DEF IInv, Unshared, Mapped
<1>2. Mappers(pt[p][pg].ppn) = Naming(pt, pt[p][pg].ppn)
  BY DEF Mappers, Naming, Mapped
<1> QED BY <1>1, <1>2

\* A page that may be written is named by one entry only, at every step of
\* every fork, fault and unmap, whatever the programs do: no store of a task is
\* ever seen by another through a page table.
THEOREM PrivateWritable == Spec => []WritableIsPrivate
  BY InitIInv, NextIInv, IInvPrivate, PTL DEF Spec

\* A mapped frame has at least one reference more than entries that name it.
MappedNotFree ==
  \A f \in Frames : Mappers(f) # {} => refcnt[f] >= 1 + Cardinality(Mappers(f))

\* A mapped frame is never free, so buddy_alloc never hands it out while a task
\* reads or writes it: the counts of ref_page and deref_page cover the entries.
THEOREM MappedIsHeld == Spec => []MappedNotFree
<1>1. IInv => MappedNotFree
  <2> SUFFICES ASSUME IInv, NEW f \in Frames, Mappers(f) # {}
               PROVE  refcnt[f] >= 1 + Cardinality(Mappers(f))
    BY DEF MappedNotFree
  <2>1. Mappers(f) = Naming(pt, f)
    BY DEF Mappers, Naming, Mapped
  <2> QED BY <2>1 DEF IInv, Counted
<1> QED BY <1>1, InitIInv, NextIInv, PTL DEF Spec

-----------------------------------------------------------------------------
(* The invariant                                                           *)

\* A shared entry does not allow stores.
SharedReadOnly ==
  \A p \in Tasks, pg \in Pages :
    {"V", "S"} \subseteq pt[p][pg].flags => "W" \notin pt[p][pg].flags

\* A frame the hardware may still reach is not free.
CachedHeld ==
  \A pg \in Pages : "V" \in tlb[pg].flags => refcnt[tlb[pg].ppn] > 0

\* While a program runs, what is still cached of a page is a copy nobody may
\* store to of what the page holds.
CachedFresh ==
  kop.at = "user" =>
    \A pg \in Pages :
      "V" \in tlb[pg].flags =>
        /\ Mapped(current, pg)
        /\ content[tlb[pg].ppn] = content[pt[current][pg].ppn]
        /\ "W" \notin tlb[pg].flags
        /\ \A p \in Tasks, pg2 \in Pages :
             {"V", "W"} \subseteq pt[p][pg2].flags => pt[p][pg2].ppn # tlb[pg].ppn

FInv == IInv /\ FreeFramesZeroed /\ SharedReadOnly /\ CachedHeld /\ CachedFresh

\* What a program finds when it starts.
LEMMA InitFInv == Init => FInv
<1> SUFFICES ASSUME Init PROVE FInv
  OBVIOUS
<1>1. IInv
  BY InitIInv
<1>2. FreeFramesZeroed
  BY DEF Init, FreeFramesZeroed, Free
<1>3. /\ \A p \in Tasks, pg \in Pages : pt[p][pg] = NoPte
      /\ \A pg \in Pages : tlb[pg] = NoPte
  BY DEF Init, NoPtes
<1>4. SharedReadOnly /\ CachedHeld /\ CachedFresh
  BY <1>3 DEF SharedReadOnly, CachedHeld, CachedFresh, NoPte
<1> QED BY <1>1, <1>2, <1>4 DEF FInv

-----------------------------------------------------------------------------
(* Frames                                                                  *)

\* A frame that is free after a step was free before it, with the same content.
FreeBefore ==
  \A f \in Frames : refcnt'[f] = 0 => refcnt[f] = 0 /\ content'[f] = content[f]

\* The frame of a valid entry has two references or more.
LEMMA EntryHeld ==
  ASSUME IInv, NEW p \in Tasks, NEW pg \in Pages, "V" \in pt[p][pg].flags
  PROVE  pt[p][pg].ppn \in Frames /\ refcnt[pt[p][pg].ppn] >= 2
<1>1. pt[p][pg].ppn \in Frames /\ refcnt \in Counts
  BY DEF IInv, TypeOK, Pte, Counts
<1>2. <<p, pg>> \in Naming(pt, pt[p][pg].ppn)
  BY DEF Naming
<1> QED BY <1>1, <1>2, NamedIsCounted DEF IInv

\* Taking free frames, and writing into none but those.
LEMMA TakenFreeBefore ==
  ASSUME TypeOK, NEW F \in SUBSET Free(refcnt), refcnt' = Taken(refcnt, F),
         \A f \in Frames \ F : content'[f] = content[f]
  PROVE  FreeBefore
BY DEF FreeBefore, Taken, TypeOK

\* The same, with one more reference on a frame that is not free then.
LEMMA RefFreeBefore ==
  ASSUME TypeOK, NEW F \in SUBSET Free(refcnt), NEW g \in Frames,
         refcnt' = Ref(Taken(refcnt, F), g),
         \A f \in Frames \ F : content'[f] = content[f]
  PROVE  FreeBefore
BY DEF FreeBefore, Taken, Ref, TypeOK

\* Dropping one of several references of a frame.
LEMMA DerefFreeBefore ==
  ASSUME TypeOK, NEW g \in Frames, refcnt[g] >= 2
  PROVE  /\ Deref(refcnt, g) \in Counts
         /\ \A f \in Frames : Deref(refcnt, g)[f] = 0 <=> refcnt[f] = 0
         /\ Free(Deref(refcnt, g)) = Free(refcnt)
BY DEF TypeOK, Deref, Free, Counts

\* Stores of programs go to frames that are not free.
LEMMA StoreTarget ==
  ASSUME FInv, NEW a \in UserAddr, NEW d, Store(PageOf(a), d)
  PROVE  LET pg == PageOf(a) e == pt[current][pg] IN
         /\ pg \in Pages /\ current \in Tasks
         /\ {"V", "W", "U"} \subseteq e.flags
         /\ content' = [content EXCEPT ![e.ppn] = d]
         /\ tlb' = [tlb EXCEPT ![pg] = NoPte]
<1> DEFINE pg == PageOf(a)
<1>1. pg \in Pages /\ current \in Tasks
  BY LayoutAssumption, PageFacts DEF FInv, IInv, TypeOK
<1>2. kop.at = "user"
  BY DEF Store, At
<1>3. PICK e \in Translations(pg) :
        /\ {"V", "W", "U"} \subseteq e.flags
        /\ content' = [content EXCEPT ![e.ppn] = d]
        /\ tlb' = [tlb EXCEPT ![pg] = IF e = pt[current][pg] THEN NoPte ELSE @]
  BY DEF Store
<1>4. e = pt[current][pg]
  BY <1>1, <1>2, <1>3 DEF Translations, FInv, CachedFresh
<1> QED BY <1>1, <1>3, <1>4

\* What a fault that changes anything does: it gives the page a frame that was
\* free, for a shared page after dropping a reference to the old frame.
LEMMA FaultEffect ==
  ASSUME FInv, NEW kind, NEW a \in UserAddr, PageFault(kind, a)
  PROVE  LET pg == PageOf(a) old == pt[current][pg] IN
         /\ pg \in Pages /\ current \in Tasks /\ kop.at = "user"
         /\ UNCHANGED <<task_num, current, vmas, brk>>
         /\ kop'.at = kop.at
         /\ \/ UNCHANGED <<pt, refcnt, content, tlb>>
            \/ \E v \in Vma, new \in Free(refcnt) :
                 /\ \E i \in FindVma(vmas[current], a) : v = vmas[current][i]
                 /\ pt' = [pt EXCEPT ![current][pg] = Leaf(new, PermOf(v))]
                 /\ \/ /\ {"V", "S"} \subseteq old.flags
                       /\ content' = [content EXCEPT ![new] = content[old.ppn]]
                       /\ refcnt' = Ref(Taken(Deref(refcnt, old.ppn), {new}), new)
                       /\ tlb' = [tlb EXCEPT ![pg] = old]
                    \/ \E F \in SUBSET Free(refcnt) :
                         /\ "V" \notin old.flags /\ new \in F
                         /\ content'[new] = FreshPage(v, pg, new)
                         /\ \A f \in Frames \ F : content'[f] = content[f]
                         /\ refcnt' = Ref(Taken(refcnt, F), new)
                         /\ UNCHANGED tlb
<1> DEFINE l == vmas[current]
           pg == PageOf(a)
           old == pt[current][pg]
<1>1. /\ pg \in Pages /\ current \in Tasks /\ l \in Seq(Vma) /\ kop.at = "user"
      /\ old.ppn \in Frames /\ kop \in Kops /\ refcnt \in Counts
  <2>1. pg \in Pages
    BY LayoutAssumption, PageFacts
  <2>2. current \in Tasks /\ l \in Seq(Vma) /\ kop \in Kops /\ refcnt \in Counts
    BY DEF FInv, IInv, TypeOK, Counts
  <2>3. old \in Pte
    BY <2>1, <2>2 DEF FInv, IInv, TypeOK
  <2>4. old.ppn \in Frames
    BY <2>3 DEF Pte
  <2> QED BY <2>1, <2>2, <2>4 DEF PageFault, At
<1>2. ASSUME NEW rc, NEW n, OutOfMemory(rc, n)
      PROVE  /\ UNCHANGED <<task_num, current, vmas, brk, pt, refcnt, content, tlb>>
             /\ kop'.at = kop.at
  BY <1>1, <1>2 DEF OutOfMemory, Kops
<1>3. CASE UNCHANGED vars
  BY <1>1, <1>3 DEF vars
<1>4. CASE FaultCow(kind, a)
  <2>1. {"V", "S"} \subseteq old.flags /\ UNCHANGED <<task_num, current, vmas, brk>>
    BY <1>4 DEF FaultCow
  <2>2. refcnt[old.ppn] >= 2
    BY <1>1, <2>1, EntryHeld DEF FInv
  <2>3. refcnt[old.ppn] # 0
    BY <1>1, <2>2 DEF Counts
  <2>4. PICK i \in FindVma(l, a) :
          \/ \E new \in LowestFree(Deref(refcnt, old.ppn), 1) :
               /\ content' = [content EXCEPT ![new] = content[old.ppn]]
               /\ pt' = [pt EXCEPT ![current][pg] = Leaf(new, PermOf(l[i]))]
               /\ refcnt' = Ref(Taken(Deref(refcnt, old.ppn), {new}), new)
               /\ tlb' = [tlb EXCEPT ![pg] = old]
               /\ UNCHANGED kop
          \/ OutOfMemory(Deref(refcnt, old.ppn), 1)
    BY <1>4, <2>3 DEF FaultCow
  <2>5. l[i] \in Vma
    BY <1>1, FindVmaType
  <2>6. LowestFree(Deref(refcnt, old.ppn), 1) \subseteq Free(refcnt)
    BY <1>1, <2>2, LowestFreeIsFree, DerefFreeBefore DEF FInv, IInv
  <2> QED BY <1>1, <1>2, <2>1, <2>4, <2>5, <2>6
<1>5. CASE FaultDemand(kind, a)
  <2> DEFINE n == 1 + Cardinality(NewTables(current, pg))
             F == LowestFree(refcnt, n)
  <2>1. PICK i \in FindVma(l, a) :
          /\ "V" \notin old.flags
          /\ \/ \E new \in LowestFree(refcnt, 1) :
                  /\ pt' = [pt EXCEPT ![current][pg] = Leaf(new, PermOf(l[i]))]
                  /\ content' = [Claimed(F) EXCEPT ![new] = FreshPage(l[i], pg, new)]
                  /\ refcnt' = Ref(Taken(refcnt, F), new)
                  /\ UNCHANGED <<task_num, current, vmas, brk, tlb, kop>>
             \/ OutOfMemory(refcnt, n)
    BY <1>5 DEF FaultDemand, Mapped
  <2>2. l[i] \in Vma /\ F \in SUBSET Free(refcnt)
    BY <1>1, FindVmaType, LowestFreeIsFree
  <2>3. ASSUME NEW new \in LowestFree(refcnt, 1),
               content' = [Claimed(F) EXCEPT ![new] = FreshPage(l[i], pg, new)]
        PROVE  /\ new \in F /\ new \in Free(refcnt)
               /\ content'[new] = FreshPage(l[i], pg, new)
               /\ \A f \in Frames \ F : content'[f] = content[f]
    <3>1. n \in Nat \ {0}
      BY NewTablesFinite
    <3>2. new \in F
      BY <3>1, LowestFreeNested
    <3> QED BY <2>2, <2>3, <3>2 DEF Claimed, Free
  <2>4. CASE OutOfMemory(refcnt, n)
    BY <1>1, <1>2, <2>4
  <2> HIDE DEF F
  <2> QED BY <1>1, <2>1, <2>2, <2>3, <2>4
<1> QED BY <1>3, <1>4, <1>5 DEF PageFault, FaultRejected, FaultSpurious

\* do_fork shares one page, or passes over it.
LEMMA ForkPageEffect ==
  ASSUME FInv, ForkPage
  PROVE  LET pg == PageOf(kop.va) pte == pt[current][pg]
             e == Leaf(pte.ppn, SharedPerm(pte.flags))
         IN
         /\ pg \in Pages /\ current \in Tasks /\ task_num \in Tasks
         /\ UNCHANGED <<task_num, current, vmas, brk>>
         /\ kop.at = "fork" /\ kop'.at = "fork"
         /\ \/ UNCHANGED <<pt, refcnt, content, tlb>>
            \/ /\ "V" \in pte.flags
               /\ pt' = [pt EXCEPT ![current][pg] = e, ![task_num][pg] = e]
               /\ tlb' = [tlb EXCEPT ![pg] = pte]
               /\ \E F \in SUBSET Free(refcnt) :
                    /\ refcnt' = Ref(Taken(refcnt, F), pte.ppn)
                    /\ \A f \in Frames \ F : content'[f] = content[f]
<1> DEFINE pg == PageOf(kop.va)
           pte == pt[current][pg]
           F == LowestFree(refcnt, Cardinality(NewTables(task_num, pg)))
<1>1. pg \in Pages /\ current \in Tasks /\ task_num \in Tasks /\ kop \in Kops
      /\ kop.at = "fork"
  BY ForkPagePage DEF FInv, IInv, TypeOK, ForkPage, At
<1>2. kop'.at = "fork"
  BY <1>1 DEF ForkPage, OutOfMemory, Kops
<1>3. UNCHANGED <<task_num, current, vmas, brk>>
  BY DEF ForkPage, OutOfMemory
<1>4. F \in SUBSET Free(refcnt)
  BY LowestFreeIsFree
<1>5. CASE ~Mapped(current, pg) \/ OutOfMemory(refcnt, Cardinality(NewTables(task_num, pg)))
  BY <1>1, <1>2, <1>3, <1>5 DEF ForkPage, OutOfMemory
<1>6. CASE Mapped(current, pg) /\ ~OutOfMemory(refcnt, Cardinality(NewTables(task_num, pg)))
  <2>1. \A f \in Frames \ F : Claimed(F)[f] = content[f]
    BY DEF Claimed
  <2>2. /\ "V" \in pte.flags
        /\ pt' = [pt EXCEPT ![current][pg] = Leaf(pte.ppn, SharedPerm(pte.flags)),
                            ![task_num][pg] = Leaf(pte.ppn, SharedPerm(pte.flags))]
        /\ tlb' = [tlb EXCEPT ![pg] = pte]
        /\ refcnt' = Ref(Taken(refcnt, F), pte.ppn)
        /\ content' = Claimed(F)
    BY <1>6 DEF ForkPage, Mapped
  <2> HIDE DEF F
  <2> QED BY <1>1, <1>2, <1>3, <1>4, <2>1, <2>2
<1> QED BY <1>5, <1>6

\* unmap_page clears one entry, or passes over it; the frame stays held.
LEMMA UnmapPageEffect ==
  ASSUME FInv, UnmapPage
  PROVE  LET pg == PageOf(kop.va) pte == pt[current][pg] IN
         /\ pg \in Pages /\ current \in Tasks
         /\ UNCHANGED <<task_num, current, vmas, brk>>
         /\ kop.at = "unmap" /\ kop'.at = "unmap"
         /\ \/ UNCHANGED <<pt, refcnt, content, tlb>>
            \/ /\ "V" \in pte.flags /\ FreeBefore
               /\ pt' = [pt EXCEPT ![current][pg] = NoPte]
               /\ tlb' = [tlb EXCEPT ![pg] = pte]
               /\ \/ refcnt' = Deref(refcnt, pte.ppn)
                  \/ \E new \in Free(refcnt) :
                       refcnt' = Taken(Deref(refcnt, pte.ppn), {new})
<1> DEFINE pg == PageOf(kop.va)
           pte == pt[current][pg]
           rc == Deref(refcnt, pte.ppn)
<1>1. pg \in Pages /\ current \in Tasks /\ kop \in Kops /\ kop.at = "unmap"
  BY UnmapPagePage DEF FInv, IInv, TypeOK, UnmapPage, At
<1>2. kop'.at = "unmap"
  BY <1>1 DEF UnmapPage, OutOfMemory, Kops
<1>3. UNCHANGED <<task_num, current, vmas, brk>>
  BY DEF UnmapPage, OutOfMemory
<1>4. CASE ~Mapped(current, pg) \/ OutOfMemory(rc, 1)
  BY <1>1, <1>2, <1>3, <1>4 DEF UnmapPage, OutOfMemory
<1>5. CASE Mapped(current, pg) /\ ~OutOfMemory(rc, 1)
  <2>1. /\ "V" \in pte.flags
        /\ pt' = [pt EXCEPT ![current][pg] = NoPte]
        /\ tlb' = [tlb EXCEPT ![pg] = pte]
        /\ \/ refcnt' = rc /\ content' = content
           \/ \E new \in LowestFree(rc, 1) :
                /\ refcnt' = Taken(rc, {new})
                /\ content' = [content EXCEPT ![new] = content[pte.ppn]]
    BY <1>5 DEF UnmapPage, Mapped
  <2>2. pte.ppn \in Frames /\ refcnt[pte.ppn] >= 2
    BY <1>1, <2>1, EntryHeld DEF FInv
  <2>3. rc \in Counts /\ Free(rc) = Free(refcnt)
        /\ \A f \in Frames : rc[f] = 0 <=> refcnt[f] = 0
    BY <2>2, DerefFreeBefore DEF FInv, IInv
  <2>4. \A new \in LowestFree(rc, 1) : new \in Frames /\ new \in Free(refcnt)
    BY <2>3, LowestFreeIsFree
  <2>5. refcnt' = rc \/ \E new \in Free(refcnt) : refcnt' = Taken(rc, {new})
    BY <2>1, <2>4
  <2>6. FreeBefore
    <3> HIDE DEF rc
    <3> QED BY <2>1, <2>3, <2>4 DEF FreeBefore, Taken, FInv, IInv, TypeOK
  <2> QED BY <1>1, <1>2, <1>3, <2>1, <2>5, <2>6
<1> QED BY <1>4, <1>5

-----------------------------------------------------------------------------
(* Steps                                                                   *)

\* A translation that may be used after a step is one that could be used before
\* it, or the entry of its page then.
CachedBefore ==
  \A pg \in Pages :
    \/ tlb'[pg] = tlb[pg]
    \/ "V" \notin tlb'[pg].flags
    \/ "V" \in pt[current][pg].flags /\ tlb'[pg] = pt[current][pg]

Kept == FreeBefore /\ SharedReadOnly' /\ CachedBefore /\ CachedFresh'

\* What a step keeps of the invariant follows from its parts.
LEMMA KeptFInv ==
  ASSUME FInv, [Next]_vars, Kept PROVE FInv'
<1>1. IInv' /\ TypeOK'
  BY NextIInv DEF FInv, IInv
<1>2. FreeFramesZeroed'
  BY DEF FInv, FreeFramesZeroed, Kept, FreeBefore, Free
<1>3. CachedHeld'
  <2> SUFFICES ASSUME NEW pg \in Pages, "V" \in tlb'[pg].flags
               PROVE  refcnt'[tlb'[pg].ppn] > 0
    BY DEF CachedHeld
  <2>1. current \in Tasks /\ tlb'[pg].ppn \in Frames
        /\ refcnt \in Counts /\ refcnt' \in Counts
    BY <1>1 DEF FInv, IInv, TypeOK, Pte, Counts
  <2>2. refcnt[tlb'[pg].ppn] > 0
    <3>1. CASE tlb'[pg] = tlb[pg]
      BY <3>1 DEF FInv, CachedHeld
    <3>2. CASE "V" \in pt[current][pg].flags /\ tlb'[pg] = pt[current][pg]
      BY <2>1, <3>2, EntryHeld DEF FInv, Counts
    <3> QED BY <3>1, <3>2 DEF Kept, CachedBefore
  <2>3. refcnt'[tlb'[pg].ppn] # 0
    BY <2>1, <2>2 DEF Kept, FreeBefore
  <2> QED BY <2>1, <2>3 DEF Counts
<1> QED BY <1>1, <1>2, <1>3 DEF FInv, Kept

\* A step that leaves tables, counts, contents and translations alone.
LEMMA SameKept ==
  ASSUME FInv, UNCHANGED <<current, pt, refcnt, content, tlb>>,
         kop'.at = "user" => kop.at = "user"
  PROVE  Kept
BY DEF Kept, FreeBefore, SharedReadOnly, CachedBefore, CachedFresh, FInv, Mapped

\* A step after which nothing is cached any more.
LEMMA FlushKept ==
  ASSUME FInv, tlb' = NoPtes, pt' = pt, FreeBefore PROVE Kept
<1>1. \A pg \in Pages : "V" \notin tlb'[pg].flags
  BY DEF NoPtes, NoPte
<1> QED BY <1>1 DEF Kept, SharedReadOnly, CachedBefore, CachedFresh, FInv

\* A store reaches nothing that is still cached for another page, and the walk
\* it makes forgets what was cached for its own.
LEMMA StoreKept ==
  ASSUME FInv, NEW a \in UserAddr, NEW d, Store(PageOf(a), d) PROVE Kept
<1> DEFINE pg == PageOf(a)
           e == pt[current][pg]
<1>1. /\ pg \in Pages /\ current \in Tasks
      /\ {"V", "W", "U"} \subseteq e.flags
      /\ content' = [content EXCEPT ![e.ppn] = d]
      /\ tlb' = [tlb EXCEPT ![pg] = NoPte]
  BY StoreTarget
<1>2. UNCHANGED <<current, pt, refcnt, kop>> /\ kop.at = "user"
  BY DEF Store, At
<1>3. e.ppn \in Frames /\ refcnt[e.ppn] >= 2 /\ refcnt \in Counts
  BY <1>1, EntryHeld DEF FInv, IInv, TypeOK, Counts
<1>4. \A f : f # e.ppn => content'[f] = content[f]
  BY <1>1 DEF FInv, IInv, TypeOK
<1>5. FreeBefore
  BY <1>2, <1>3, <1>4 DEF FreeBefore, Counts
<1>6. \A pg2 \in Pages : tlb'[pg2] = IF pg2 = pg THEN NoPte ELSE tlb[pg2]
  BY <1>1 DEF FInv, IInv, TypeOK
<1>7. CachedBefore
  BY <1>6 DEF CachedBefore, NoPte
<1>8. SharedReadOnly'
  BY <1>2 DEF SharedReadOnly, FInv
<1>9. CachedFresh'
  <2> SUFFICES ASSUME NEW pg2 \in Pages, "V" \in tlb'[pg2].flags
               PROVE  /\ Mapped(current, pg2)
                      /\ content'[tlb[pg2].ppn] = content'[pt[current][pg2].ppn]
                      /\ tlb'[pg2] = tlb[pg2] /\ "W" \notin tlb[pg2].flags
                      /\ \A p \in Tasks, pg3 \in Pages :
                           {"V", "W"} \subseteq pt[p][pg3].flags
                             => pt[p][pg3].ppn # tlb[pg2].ppn
    BY <1>2 DEF CachedFresh, Mapped
  <2>1. pg2 # pg /\ tlb'[pg2] = tlb[pg2]
    BY <1>6 DEF NoPte
  <2>2. /\ Mapped(current, pg2)
        /\ content[tlb[pg2].ppn] = content[pt[current][pg2].ppn]
        /\ "W" \notin tlb[pg2].flags
        /\ \A p \in Tasks, pg3 \in Pages :
             {"V", "W"} \subseteq pt[p][pg3].flags => pt[p][pg3].ppn # tlb[pg2].ppn
    BY <1>2, <2>1 DEF FInv, CachedFresh
  <2>3. e.ppn # tlb[pg2].ppn
    BY <1>1, <2>2
  <2>4. e.ppn # pt[current][pg2].ppn
    <3>1. Naming(pt, e.ppn) = {<<current, pg>>}
      BY <1>1 DEF FInv, IInv, Unshared
    <3>2. <<current, pg2>> \in Naming(pt, pt[current][pg2].ppn)
      BY <1>1, <2>2 DEF Naming, Mapped
    <3> QED BY <2>1, <3>1, <3>2
  <2> QED BY <1>4, <2>1, <2>2, <2>3, <2>4
<1> QED BY <1>5, <1>7, <1>8, <1>9 DEF Kept

\* The entry demand paging or copy on write makes is not marked as shared.
LEMMA FreshNotShared == \A v \in Vma : \A f : "S" \notin Leaf(f, PermOf(v)).flags
BY DEF Vma, VmBits, Leaf, PermOf

\* One entry of the running task gets a frame that was free: what was cached
\* for other pages stays what those pages hold.
LEMMA EnteredFresh ==
  ASSUME FInv, current' = current, NEW pg \in Pages, NEW v \in Vma,
         NEW new \in Free(refcnt), kop.at = "user",
         pt' = [pt EXCEPT ![current][pg] = Leaf(new, PermOf(v))],
         \A f \in Frames : refcnt[f] > 0 => content'[f] = content[f]
  PROVE  /\ SharedReadOnly'
         /\ \A pg2 \in Pages \ {pg} :
              "V" \in tlb[pg2].flags =>
                /\ Mapped(current, pg2)'
                /\ content'[tlb[pg2].ppn] = content'[pt'[current][pg2].ppn]
                /\ "W" \notin tlb[pg2].flags
                /\ \A p \in Tasks, pg3 \in Pages :
                     {"V", "W"} \subseteq pt'[p][pg3].flags
                       => pt'[p][pg3].ppn # tlb[pg2].ppn
<1>1. current \in Tasks /\ refcnt \in Counts /\ new \in Frames /\ refcnt[new] = 0
  BY DEF FInv, IInv, TypeOK, Counts, Free
<1>2. ASSUME NEW p \in Tasks, NEW pg2 \in Pages
      PROVE  pt'[p][pg2] = IF p = current /\ pg2 = pg THEN Leaf(new, PermOf(v))
                           ELSE pt[p][pg2]
  BY DEF FInv, IInv, TypeOK
<1>3. SharedReadOnly'
  BY <1>2, FreshNotShared DEF SharedReadOnly, FInv
<1>4. ASSUME NEW pg2 \in Pages \ {pg}, "V" \in tlb[pg2].flags
      PROVE  /\ Mapped(current, pg2)'
             /\ content'[tlb[pg2].ppn] = content'[pt'[current][pg2].ppn]
             /\ "W" \notin tlb[pg2].flags
             /\ \A p \in Tasks, pg3 \in Pages :
                  {"V", "W"} \subseteq pt'[p][pg3].flags
                    => pt'[p][pg3].ppn # tlb[pg2].ppn
  <2>1. /\ Mapped(current, pg2)
        /\ content[tlb[pg2].ppn] = content[pt[current][pg2].ppn]
        /\ "W" \notin tlb[pg2].flags
        /\ \A p \in Tasks, pg3 \in Pages :
             {"V", "W"} \subseteq pt[p][pg3].flags => pt[p][pg3].ppn # tlb[pg2].ppn
    BY <1>4 DEF FInv, CachedFresh
  <2>2. tlb[pg2].ppn \in Frames /\ refcnt[tlb[pg2].ppn] > 0
    BY <1>4 DEF FInv, IInv, TypeOK, Pte, CachedHeld
  <2>3. pt[current][pg2].ppn \in Frames /\ refcnt[pt[current][pg2].ppn] > 0
    BY <1>1, <2>1, EntryHeld DEF FInv, Mapped, Counts
  <2>4. pt'[current][pg2] = pt[current][pg2]
    BY <1>1, <1>2
  <2>5. new # tlb[pg2].ppn
    BY <1>1, <2>2
  <2>6. ASSUME NEW p \in Tasks, NEW pg3 \in Pages,
               {"V", "W"} \subseteq pt'[p][pg3].flags
        PROVE  pt'[p][pg3].ppn # tlb[pg2].ppn
    BY <1>2, <2>1, <2>5, <2>6 DEF Leaf
  <2> QED BY <2>1, <2>2, <2>3, <2>4, <2>6 DEF Mapped
<1> QED BY <1>3, <1>4

\* A page fault leaves in the cache at most the shared entry it replaced, whose
\* frame holds what the copy holds.
LEMMA FaultKept ==
  ASSUME FInv, NEW kind, NEW a \in UserAddr, PageFault(kind, a) PROVE Kept
<1> DEFINE pg == PageOf(a)
           old == pt[current][pg]
<1>1. /\ pg \in Pages /\ current \in Tasks /\ kop.at = "user"
      /\ UNCHANGED <<task_num, current, vmas, brk>>
      /\ kop'.at = kop.at
      /\ \/ UNCHANGED <<pt, refcnt, content, tlb>>
         \/ \E v \in Vma, new \in Free(refcnt) :
              /\ pt' = [pt EXCEPT ![current][pg] = Leaf(new, PermOf(v))]
              /\ \/ /\ {"V", "S"} \subseteq old.flags
                    /\ content' = [content EXCEPT ![new] = content[old.ppn]]
                    /\ refcnt' = Ref(Taken(Deref(refcnt, old.ppn), {new}), new)
                    /\ tlb' = [tlb EXCEPT ![pg] = old]
                 \/ \E F \in SUBSET Free(refcnt) :
                      /\ "V" \notin old.flags /\ new \in F
                      /\ \A f \in Frames \ F : content'[f] = content[f]
                      /\ refcnt' = Ref(Taken(refcnt, F), new)
                      /\ UNCHANGED tlb
  BY FaultEffect
<1>2. ASSUME NEW v \in Vma, NEW new \in Free(refcnt),
             pt' = [pt EXCEPT ![current][pg] = Leaf(new, PermOf(v))],
             {"V", "S"} \subseteq old.flags,
             content' = [content EXCEPT ![new] = content[old.ppn]],
             refcnt' = Ref(Taken(Deref(refcnt, old.ppn), {new}), new),
             tlb' = [tlb EXCEPT ![pg] = old]
      PROVE  Kept
  <2>1. /\ old.ppn \in Frames /\ refcnt[old.ppn] >= 2
        /\ new \in Frames /\ refcnt[new] = 0 /\ refcnt \in Counts
    BY <1>1, <1>2, EntryHeld DEF FInv, IInv, TypeOK, Counts, Free
  <2>2. \A f \in Frames : content'[f] = IF f = new THEN content[old.ppn] ELSE content[f]
    BY <1>2 DEF FInv, IInv, TypeOK
  <2>3. \A f \in Frames : refcnt[f] > 0 => content'[f] = content[f]
    BY <2>1, <2>2
  <2>4. FreeBefore
    <3> DEFINE rc == Deref(refcnt, old.ppn)
    <3>1. rc \in Counts /\ \A f \in Frames : rc[f] = 0 <=> refcnt[f] = 0
      BY <2>1, DerefFreeBefore DEF FInv, IInv
    <3>2. refcnt' = Ref(Taken(rc, {new}), new)
      BY <1>2
    <3> HIDE DEF rc
    <3> QED BY <2>1, <2>2, <3>1, <3>2 DEF FreeBefore, Taken, Ref, Counts
  <2>5. \A pg2 \in Pages : tlb'[pg2] = IF pg2 = pg THEN old ELSE tlb[pg2]
    BY <1>2 DEF FInv, IInv, TypeOK
  <2>6. CachedBefore
    BY <1>2, <2>5 DEF CachedBefore
  <2>7. /\ SharedReadOnly'
        /\ \A pg2 \in Pages \ {pg} :
             "V" \in tlb[pg2].flags =>
               /\ Mapped(current, pg2)'
               /\ content'[tlb[pg2].ppn] = content'[pt'[current][pg2].ppn]
               /\ "W" \notin tlb[pg2].flags
               /\ \A p \in Tasks, pg3 \in Pages :
                    {"V", "W"} \subseteq pt'[p][pg3].flags
                      => pt'[p][pg3].ppn # tlb[pg2].ppn
    BY <1>1, <1>2, <2>3, EnteredFresh
  <2>8. /\ Mapped(current, pg)'
        /\ content'[old.ppn] = content'[pt'[current][pg].ppn]
        /\ "W" \notin old.flags
        /\ \A p \in Tasks, pg3 \in Pages :
             {"V", "W"} \subseteq pt'[p][pg3].flags => pt'[p][pg3].ppn # old.ppn
    <3>1. ASSUME NEW p \in Tasks, NEW pg2 \in Pages
          PROVE  pt'[p][pg2] = IF p = current /\ pg2 = pg THEN Leaf(new, PermOf(v))
                               ELSE pt[p][pg2]
      BY <1>2 DEF FInv, IInv, TypeOK
    <3>2. pt'[current][pg] = Leaf(new, PermOf(v))
      BY <1>1, <3>1
    <3>3. ASSUME NEW p \in Tasks, NEW pg3 \in Pages,
                 {"V", "W"} \subseteq pt'[p][pg3].flags, pt'[p][pg3].ppn = old.ppn
          PROVE  FALSE
      <4>1. ~(p = current /\ pg3 = pg) /\ pt'[p][pg3] = pt[p][pg3]
        BY <2>1, <3>1, <3>3 DEF Leaf
      <4>2. Naming(pt, old.ppn) = {<<p, pg3>>}
        BY <3>3, <4>1 DEF FInv, IInv, Unshared
      <4>3. <<current, pg>> \in Naming(pt, old.ppn)
        BY <1>1, <1>2 DEF Naming
      <4> QED BY <4>1, <4>2, <4>3
    <3>4. "W" \notin old.flags
      BY <1>1, <1>2 DEF FInv, SharedReadOnly
    <3>5. content'[old.ppn] = content'[new]
      BY <2>1, <2>2
    <3> QED BY <1>1, <3>2, <3>3, <3>4, <3>5 DEF Mapped, Leaf
  <2>9. CachedFresh'
    <3> SUFFICES ASSUME NEW pg2 \in Pages, "V" \in tlb'[pg2].flags
                 PROVE  /\ Mapped(current, pg2)'
                        /\ content'[tlb'[pg2].ppn] = content'[pt'[current][pg2].ppn]
                        /\ "W" \notin tlb'[pg2].flags
                        /\ \A p \in Tasks, pg3 \in Pages :
                             {"V", "W"} \subseteq pt'[p][pg3].flags
                               => pt'[p][pg3].ppn # tlb'[pg2].ppn
      BY <1>1 DEF CachedFresh
    <3>1. CASE pg2 = pg
      BY <2>5, <2>8, <3>1
    <3>2. CASE pg2 # pg
      <4>1. tlb'[pg2] = tlb[pg2] /\ pg2 \in Pages \ {pg}
        BY <2>5, <3>2
      <4> QED BY <2>7, <4>1
    <3> QED BY <3>1, <3>2
  <2> QED BY <2>4, <2>6, <2>7, <2>9 DEF Kept
<1>3. ASSUME NEW v \in Vma, NEW new \in Free(refcnt), NEW F \in SUBSET Free(refcnt),
             pt' = [pt EXCEPT ![current][pg] = Leaf(new, PermOf(v))],
             "V" \notin old.flags, new \in F,
             \A f \in Frames \ F : content'[f] = content[f],
             refcnt' = Ref(Taken(refcnt, F), new),
             UNCHANGED tlb
      PROVE  Kept
  <2>1. \A f \in Frames : refcnt[f] > 0 => content'[f] = content[f]
    BY <1>3 DEF Free
  <2>2. FreeBefore
    BY <1>3, RefFreeBefore DEF FInv, IInv, Free
  <2>3. CachedBefore
    BY <1>3 DEF CachedBefore
  <2>4. /\ SharedReadOnly'
        /\ \A pg2 \in Pages \ {pg} :
             "V" \in tlb[pg2].flags =>
               /\ Mapped(current, pg2)'
               /\ content'[tlb[pg2].ppn] = content'[pt'[current][pg2].ppn]
               /\ "W" \notin tlb[pg2].flags
               /\ \A p \in Tasks, pg3 \in Pages :
                    {"V", "W"} \subseteq pt'[p][pg3].flags
                      => pt'[p][pg3].ppn # tlb[pg2].ppn
    BY <1>1, <1>3, <2>1, EnteredFresh
  <2>5. "V" \notin tlb[pg].flags
    BY <1>1, <1>3 DEF FInv, CachedFresh, Mapped
  <2>6. CachedFresh'
    BY <1>1, <1>3, <2>4, <2>5 DEF CachedFresh
  <2> QED BY <2>2, <2>3, <2>4, <2>6 DEF Kept
<1>4. CASE UNCHANGED <<pt, refcnt, content, tlb>>
  BY <1>1, <1>4, SameKept
<1> QED BY <1>1, <1>2, <1>3, <1>4

\* In a fork and in an unmap only frames and marks matter: translations are
\* flushed before the program goes on.
LEMMA ForkPageKept == ASSUME FInv, ForkPage PROVE Kept
<1> DEFINE pg == PageOf(kop.va)
           pte == pt[current][pg]
           e == Leaf(pte.ppn, SharedPerm(pte.flags))
<1>1. /\ pg \in Pages /\ current \in Tasks /\ task_num \in Tasks
      /\ UNCHANGED <<task_num, current, vmas, brk>>
      /\ kop.at = "fork" /\ kop'.at = "fork"
      /\ \/ UNCHANGED <<pt, refcnt, content, tlb>>
         \/ /\ "V" \in pte.flags
            /\ pt' = [pt EXCEPT ![current][pg] = e, ![task_num][pg] = e]
            /\ tlb' = [tlb EXCEPT ![pg] = pte]
            /\ \E F \in SUBSET Free(refcnt) :
                 /\ refcnt' = Ref(Taken(refcnt, F), pte.ppn)
                 /\ \A f \in Frames \ F : content'[f] = content[f]
  BY ForkPageEffect
<1>2. CASE UNCHANGED <<pt, refcnt, content, tlb>>
  BY <1>1, <1>2, SameKept
<1>3. ASSUME "V" \in pte.flags,
             pt' = [pt EXCEPT ![current][pg] = e, ![task_num][pg] = e],
             tlb' = [tlb EXCEPT ![pg] = pte],
             NEW F \in SUBSET Free(refcnt),
             refcnt' = Ref(Taken(refcnt, F), pte.ppn),
             \A f \in Frames \ F : content'[f] = content[f]
      PROVE  Kept
  <2>1. pte.ppn \in Frames
    BY <1>1, <1>3, EntryHeld DEF FInv
  <2>2. FreeBefore
    BY <1>3, <2>1, RefFreeBefore DEF FInv, IInv
  <2>3. CachedBefore
    <3>1. \A pg2 \in Pages : tlb'[pg2] = IF pg2 = pg THEN pte ELSE tlb[pg2]
      BY <1>3 DEF FInv, IInv, TypeOK
    <3> QED BY <1>3, <3>1 DEF CachedBefore
  <2>4. {"V", "S"} \subseteq e.flags => "W" \notin e.flags
    BY <1>1, <1>3 DEF Leaf, SharedPerm, FInv, SharedReadOnly
  <2>5. \A p \in Tasks, pg2 \in Pages : pt'[p][pg2] = e \/ pt'[p][pg2] = pt[p][pg2]
    BY <1>1, <1>3 DEF FInv, IInv, TypeOK
  <2>6. SharedReadOnly'
    BY <2>4, <2>5 DEF SharedReadOnly, FInv
  <2>7. CachedFresh'
    BY <1>1 DEF CachedFresh
  <2> QED BY <2>2, <2>3, <2>6, <2>7 DEF Kept
<1> QED BY <1>1, <1>2, <1>3

\* unmap_page drops references and clears one entry at a time.
LEMMA UnmapPageKept == ASSUME FInv, UnmapPage PROVE Kept
<1> DEFINE pg == PageOf(kop.va)
           pte == pt[current][pg]
<1>1. /\ pg \in Pages /\ current \in Tasks
      /\ UNCHANGED <<task_num, current, vmas, brk>>
      /\ kop.at = "unmap" /\ kop'.at = "unmap"
      /\ \/ UNCHANGED <<pt, refcnt, content, tlb>>
         \/ /\ "V" \in pte.flags /\ FreeBefore
            /\ pt' = [pt EXCEPT ![current][pg] = NoPte]
            /\ tlb' = [tlb EXCEPT ![pg] = pte]
  BY UnmapPageEffect
<1>2. CASE UNCHANGED <<pt, refcnt, content, tlb>>
  BY <1>1, <1>2, SameKept
<1>3. ASSUME "V" \in pte.flags, FreeBefore,
             pt' = [pt EXCEPT ![current][pg] = NoPte],
             tlb' = [tlb EXCEPT ![pg] = pte]
      PROVE  Kept
  <2>1. CachedBefore
    <3>1. \A pg2 \in Pages : tlb'[pg2] = IF pg2 = pg THEN pte ELSE tlb[pg2]
      BY <1>3 DEF FInv, IInv, TypeOK
    <3> QED BY <1>3, <3>1 DEF CachedBefore
  <2>2. \A p \in Tasks, pg2 \in Pages : pt'[p][pg2] = NoPte \/ pt'[p][pg2] = pt[p][pg2]
    BY <1>1, <1>3 DEF FInv, IInv, TypeOK
  <2>3. SharedReadOnly'
    BY <2>2 DEF SharedReadOnly, FInv, NoPte
  <2>4. CachedFresh'
    BY <1>1 DEF CachedFresh
  <2> QED BY <1>3, <2>1, <2>3, <2>4 DEF Kept
<1> QED BY <1>1, <1>2, <1>3

\* Every step of the kernel and of the programs keeps the invariant.
LEMMA NextFInv == FInv /\ [Next]_vars => FInv'
<1> SUFFICES ASSUME FInv, [Next]_vars PROVE Kept
  BY KeptFInv
<1>1. /\ kop \in Kops /\ TypeOK
      /\ \A n : /\ LowestFree(refcnt, n) \in SUBSET Free(refcnt)
                /\ \A f \in Frames \ LowestFree(refcnt, n) :
                     Claimed(LowestFree(refcnt, n))[f] = content[f]
  BY LowestFreeIsFree DEF FInv, IInv, TypeOK, Claimed
<1>2. ASSUME NEW rc, NEW n, OutOfMemory(rc, n) PROVE Kept
  BY <1>1, <1>2, SameKept DEF OutOfMemory, Kops
<1>3. ASSUME NEW a \in UserAddr, NEW d \in WriteData, Store(PageOf(a), d) PROVE Kept
  BY <1>3, StoreKept
<1>4. ASSUME UNCHANGED <<refcnt, content>> PROVE FreeBefore
  BY <1>4 DEF FreeBefore
<1>5. ASSUME NEW p \in Tasks, Switch(p) PROVE Kept
  BY <1>4, <1>5, FlushKept DEF Switch, SfenceVma
<1>6. ASSUME NEW kind, NEW a \in UserAddr, PageFault(kind, a) PROVE Kept
  BY <1>6, FaultKept
<1>7. CASE ForkBegin
  <2> DEFINE n == 5 + Len(vmas[current])
             F == LowestFree(refcnt, n)
  <2>1. CASE ~OutOfMemory(refcnt, n)
    <3>1. /\ refcnt' = Taken(refcnt, F) /\ content' = Claimed(F)
          /\ UNCHANGED <<current, pt, tlb>> /\ kop'.at = "fork"
      BY <1>7, <2>1 DEF ForkBegin, User
    <3>2. FreeBefore
      BY <1>1, <3>1, TakenFreeBefore
    <3> QED BY <3>1, <3>2 DEF Kept, SharedReadOnly, CachedBefore, CachedFresh, FInv
  <2> QED BY <1>2, <2>1
<1>8. CASE ForkPage
  BY <1>8, ForkPageKept
<1>9. CASE ForkNextVma
  BY <1>1, <1>9, SameKept DEF ForkNextVma, At, Kops
<1>10. CASE ForkEnd
  <2> DEFINE F == LowestFree(refcnt, 1)
  <2>1. CASE ~OutOfMemory(refcnt, 1)
    <3>1. /\ refcnt' = Taken(refcnt, F) /\ content' = Claimed(F)
          /\ pt' = pt /\ tlb' = NoPtes
      BY <1>10, <2>1 DEF ForkEnd, SfenceVma
    <3>2. FreeBefore
      BY <1>1, <3>1, TakenFreeBefore
    <3> QED BY <3>1, <3>2, FlushKept
  <2> QED BY <1>2, <2>1
<1>11. ASSUME NEW b \in BrkArgs, BrkGrow(b) PROVE Kept
  BY <1>11, SameKept DEF BrkGrow, At
<1>12. ASSUME NEW b \in BrkArgs, BrkShrink(b) PROVE Kept
  BY <1>12, SameKept DEF BrkShrink, At
<1>13. CASE UnmapPage
  BY <1>13, UnmapPageKept
<1>14. CASE UnmapEnd
  BY <1>4, <1>14, FlushKept DEF UnmapEnd, SfenceVma
<1>15. CASE UNCHANGED vars
  BY <1>15, SameKept DEF vars
<1> QED
  BY <1>3, <1>5, <1>6, <1>7, <1>8, <1>9, <1>10, <1>11, <1>12, <1>13, <1>14, <1>15
  DEF Next, PoweredOff, BrkUnchanged

-----------------------------------------------------------------------------
(* Theorems                                                                *)

\* A free frame holds zeros, whatever the programs do: no path of faults, forks
\* and brk calls gives back a frame that was written to, so a page taken
\* without being cleared reads as zeros.
THEOREM FreeStaysZeroed == Spec => []FreeFramesZeroed
  BY InitFInv, NextFInv, PTL DEF Spec, FInv

\* While a program runs, a translation the kernel has replaced reads what the
\* page table would give, and allows no store: do_page_fault may leave out the
\* sfence.vma that do_fork, unmap_page and __switch_to run.
THEOREM TlbStaysCoherent == Spec => []TlbCoherent
<1>1. FInv => TlbCoherent
  BY DEF FInv, CachedFresh, TlbCoherent
<1> QED BY <1>1, InitFInv, NextFInv, PTL DEF Spec

-----------------------------------------------------------------------------
(* Areas                                                                   *)

Apart(v, w) == v.vm_end < w.vm_start \/ w.vm_end < v.vm_start

\* Area h of l is the heap, up to break b or further and short of the stack.
HeapAt(l, h, b) ==
  /\ l[h].vm_start = START_BRK
  /\ START_BRK <= PgRoundUp(b) /\ PgRoundUp(b) <= l[h].vm_end
  /\ l[h].vm_end < USER_END - PGSIZE
  /\ \A i \in DOMAIN l \ {h} :
       l[i].vm_end < START_BRK \/ USER_END - PGSIZE <= l[i].vm_start

GoodAreas(l, b) ==
  /\ \A i \in DOMAIN l, j \in DOMAIN l : i # j => Apart(l[i], l[j])
  /\ \E h \in DOMAIN l : HeapAt(l, h, b)

\* mm->brk, of a child under way too: do_fork copies it at its end.
BrkOf(p) == IF kop.at = "fork" /\ p = task_num THEN brk[current] ELSE brk[p]

AreasGood == \A p \in 1..task_num : GoodAreas(vmas[p], BrkOf(p))

\* The break a shrink is on the way to.
ShrinkBounds ==
  kop.at = "unmap" =>
    START_BRK <= PgRoundUp(kop.brk) /\ PgRoundUp(kop.brk) <= PgRoundUp(brk[current])

AInv == FInv /\ AreasGood /\ ShrinkBounds

\* The bounds of the areas of a list are integers.
LEMMA AreaBounds ==
  ASSUME NEW l \in Seq(Vma), NEW i \in DOMAIN l
  PROVE  /\ l[i].vm_start \in Nat /\ l[i].vm_end \in Nat /\ l[i] \in Vma
         /\ Len(l) \in Nat /\ DOMAIN l = 1..Len(l)
<1>1. DOMAIN l = 1..Len(l) /\ Len(l) \in Nat
  BY LenProperties
<1>2. l[i] \in Vma
  BY <1>1, ElementOfSeq
<1>3. l[i].vm_start \in Nat /\ l[i].vm_end \in Nat
  BY <1>2, SizeAssumption DEF Vma, Addr
<1> QED BY <1>1, <1>2, <1>3

\* The layout of user space.
LEMMA Layout ==
  /\ PGSIZE \in Nat \ {0} /\ USER_END \in Nat /\ START_BRK \in Nat
  /\ START_BRK < USER_END - PGSIZE /\ USER_END - PGSIZE \in Nat
BY SizeAssumption, LayoutAssumption DEF Addr

\* find_vma with the old break returns the heap and nothing else.
LEMMA FindsHeap ==
  ASSUME NEW l \in Seq(Vma), NEW b \in Breaks, NEW h \in DOMAIN l, HeapAt(l, h, b)
  PROVE  FindVma(l, PgRoundUp(b)) = {h}
<1>1. PgRoundUp(b) \in Nat /\ PgRoundUp(b) < USER_END - PGSIZE
      /\ START_BRK <= PgRoundUp(b)
  BY BreakFacts, SizeAssumption, AreaBounds, Layout DEF HeapAt
<1>2. Covers(l[h], PgRoundUp(b))
  BY DEF HeapAt, Covers
<1>3. ASSUME NEW i \in DOMAIN l, i # h PROVE ~Covers(l[i], PgRoundUp(b))
  <2>1. l[i].vm_start \in Nat /\ l[i].vm_end \in Nat
    BY AreaBounds
  <2>2. l[i].vm_end < START_BRK \/ USER_END - PGSIZE <= l[i].vm_start
    BY <1>3 DEF HeapAt
  <2> QED BY <1>1, <2>1, <2>2, Layout DEF Covers
<1>4. \A j \in 1..(h - 1) : j \in DOMAIN l /\ j # h
  BY AreaBounds
<1> QED BY <1>2, <1>3, <1>4 DEF FindVma

\* The reverse of a good list is good.
LEMMA ReverseGood ==
  ASSUME NEW l \in Seq(Vma), NEW b, GoodAreas(l, b) PROVE GoodAreas(Reverse(l), b)
<1> DEFINE r == Reverse(l)
           n == Len(l)
<1>1. n \in Nat /\ DOMAIN l = 1..n /\ DOMAIN r = 1..n
  BY LenProperties DEF Reverse
<1>2. \A i \in 1..n : r[i] = l[n + 1 - i] /\ n + 1 - i \in 1..n
  BY <1>1 DEF Reverse
<1>3. ASSUME NEW i \in DOMAIN r, NEW j \in DOMAIN r, i # j PROVE Apart(r[i], r[j])
  <2>1. n + 1 - i # n + 1 - j
    BY <1>1, <1>3
  <2> QED BY <1>1, <1>2, <2>1 DEF GoodAreas
<1>4. PICK h \in DOMAIN l : HeapAt(l, h, b)
  BY DEF GoodAreas
<1>5. HeapAt(r, n + 1 - h, b)
  <2>1. r[n + 1 - h] = l[h]
    <3>1. n + 1 - h \in 1..n /\ n + 1 - (n + 1 - h) = h
      BY <1>1
    <3> QED BY <1>2, <3>1
  <2>2. ASSUME NEW i \in DOMAIN r \ {n + 1 - h}
        PROVE  r[i].vm_end < START_BRK \/ USER_END - PGSIZE <= r[i].vm_start
    <3>1. n + 1 - i \in DOMAIN l \ {h}
      BY <1>1, <2>2
    <3>2. r[i] = l[n + 1 - i]
      BY <1>1, <1>2
    <3> QED BY <1>4, <3>1, <3>2 DEF HeapAt
  <2> QED BY <1>4, <2>1, <2>2 DEF HeapAt
<1>6. n + 1 - h \in DOMAIN r
  BY <1>1
<1> QED BY <1>3, <1>5, <1>6 DEF GoodAreas

\* A new end for the heap, from the break on and short of the stack.
LEMMA NewEndGood ==
  ASSUME NEW l \in Seq(Vma), NEW b0 \in Breaks, GoodAreas(l, b0),
         NEW i \in FindVma(l, PgRoundUp(b0)), NEW b \in Breaks, NEW e \in Nat,
         START_BRK <= PgRoundUp(b), PgRoundUp(b) <= e, e < USER_END - PGSIZE
  PROVE  GoodAreas(SetEnd(l, i, e), b)
<1> DEFINE m == SetEnd(l, i, e)
<1>1. PICK h \in DOMAIN l : HeapAt(l, h, b0)
  BY DEF GoodAreas
<1>2. i = h
  BY <1>1, FindsHeap
<1>3. /\ DOMAIN m = DOMAIN l
      /\ \A j \in DOMAIN l : m[j].vm_start = l[j].vm_start
      /\ \A j \in DOMAIN l \ {h} : m[j] = l[j]
  BY <1>1, <1>2, AreaBounds DEF SetEnd, Vma
<1>4. m[h].vm_end = e /\ m[h].vm_start = START_BRK
  <2>1. l[h] \in Vma
    BY <1>1, AreaBounds
  <2>2. m[h] = [l[h] EXCEPT !.vm_end = e]
    BY <1>1, <1>2 DEF SetEnd
  <2> QED BY <1>1, <2>1, <2>2 DEF Vma, HeapAt
<1> HIDE DEF m
<1>5. HeapAt(m, h, b)
  BY <1>1, <1>3, <1>4 DEF HeapAt
<1>6. ASSUME NEW j \in DOMAIN m, NEW k \in DOMAIN m, j # k PROVE Apart(m[j], m[k])
  <2>0. \A x \in DOMAIN l : l[x].vm_start \in Nat /\ l[x].vm_end \in Nat
    BY AreaBounds
  <2>1. CASE j # h /\ k # h
    BY <1>3, <1>6, <2>1 DEF GoodAreas
  <2>2. CASE j = h
    <3>1. k \in DOMAIN l \ {h} /\ m[k] = l[k]
      BY <1>3, <1>6, <2>2
    <3>2. l[k].vm_end < START_BRK \/ USER_END - PGSIZE <= l[k].vm_start
      BY <1>1, <3>1 DEF HeapAt
    <3> QED BY <1>4, <2>0, <2>2, <3>1, <3>2, Layout DEF Apart
  <2>3. CASE k = h
    <3>1. j \in DOMAIN l \ {h} /\ m[j] = l[j]
      BY <1>3, <1>6, <2>3
    <3>2. l[j].vm_end < START_BRK \/ USER_END - PGSIZE <= l[j].vm_start
      BY <1>1, <3>1 DEF HeapAt
    <3> QED BY <1>4, <2>0, <2>3, <3>1, <3>2, Layout DEF Apart
  <2> QED BY <2>1, <2>2, <2>3
<1> QED BY <1>1, <1>3, <1>5, <1>6 DEF GoodAreas, m

\* The addresses of the segments, in the order of the program header.
LEMMA SegmentBounds ==
  LET n == Len(Segments) IN
  /\ n \in Nat /\ DOMAIN Segments = 1..n
  /\ \A i \in 1..n : /\ Segments[i].vm_start \in Nat /\ Segments[i].vm_end \in Nat
                     /\ Segments[i].vm_end < START_BRK
                     /\ Segments[i].vm_start < Segments[i].vm_end
                     /\ \A j \in 1..n : i < j => Segments[i].vm_end < Segments[j].vm_start
<1> DEFINE n == Len(Segments)
<1>1. Segments \in Seq(Vma)
  BY SegmentAssumption
<1>2. n \in Nat /\ DOMAIN Segments = 1..n
  BY <1>1, LenProperties
<1>3. \A i \in 1..n : Segments[i].vm_start \in Nat /\ Segments[i].vm_end \in Nat
  BY <1>1, <1>2, AreaBounds
<1> QED BY <1>2, <1>3, SegmentAssumption

\* The areas load_program and task_init build: heap, stack, segments.
LEMMA InitialList ==
  LET n == Len(Segments) l == InitialVmas IN
  /\ DOMAIN l = 1..(n + 2) /\ l[1] = HeapVma /\ l[2] = StackVma
  /\ \A k \in 1..n : l[k + 2] = Segments[n + 1 - k]
<1> DEFINE n == Len(Segments)
           l == InitialVmas
           r == Reverse(Segments)
           m == DoMmap(r, StackVma)
<1>1. n \in Nat /\ DOMAIN Segments = 1..n
  BY SegmentBounds
<1>2. r \in Seq(Vma) /\ Len(r) = n /\ \A k \in 1..n : r[k] = Segments[n + 1 - k]
  <2>1. DOMAIN r = 1..n
    BY <1>1 DEF Reverse
  <2>2. r \in Seq(Vma)
    BY SegmentAssumption, ReverseType
  <2>3. Len(r) = n
    BY <1>1, <2>1, <2>2, LenProperties
  <2> QED BY <1>1, <2>2, <2>3 DEF Reverse
<1> HIDE DEF r
<1>3. /\ m \in Seq(Vma \cup {StackVma}) /\ Len(m) = n + 1
      /\ m[1] = StackVma
      /\ \A k \in 1..n : m[k + 1] = r[k]
  BY <1>1, <1>2 DEF DoMmap
<1> HIDE DEF m
<1>4. l = DoMmap(m, HeapVma)
  BY DEF InitialVmas, m, r
<1>5. /\ Len(l) = n + 2 /\ l[1] = HeapVma
      /\ \A k \in 1..(n + 1) : l[k + 1] = m[k]
      /\ l \in Seq(Vma \cup {StackVma, HeapVma})
  BY <1>1, <1>3, <1>4 DEF DoMmap
<1>6. l[2] = StackVma
  <2>1. 1 \in 1..(n + 1) /\ 1 + 1 = 2
    BY <1>1
  <2> QED BY <1>3, <1>5, <2>1
<1>7. ASSUME NEW k \in 1..n PROVE l[k + 2] = Segments[n + 1 - k]
  <2>1. k + 1 \in 1..(n + 1) /\ (k + 1) + 1 = k + 2
    BY <1>1
  <2>2. l[k + 2] = m[k + 1]
    BY <1>5, <2>1
  <2> QED BY <1>2, <1>3, <2>2
<1>8. DOMAIN l = 1..(n + 2)
  BY <1>5, LenProperties
<1> QED BY <1>5, <1>6, <1>7, <1>8

\* The heap starts on a page boundary.
LEMMA StartRounded == PgRoundUp(START_BRK) = START_BRK
<1>1. PICK q \in Nat : START_BRK = q * PGSIZE
  BY Layout, LayoutAssumption, Quotient DEF PgRoundDown, PageOf
<1>2. (q * PGSIZE + PGSIZE - 1) \div PGSIZE = q
  BY Layout, <1>1
<1> QED BY <1>1, <1>2 DEF PgRoundUp, PgRoundDown, PageOf

\* The first lists of areas are good.
LEMMA InitialGood == GoodAreas(InitialVmas, START_BRK)
<1> DEFINE n == Len(Segments)
           l == InitialVmas
<1>1. /\ n \in Nat /\ DOMAIN Segments = 1..n
      /\ \A i \in 1..n : /\ Segments[i].vm_start \in Nat /\ Segments[i].vm_end \in Nat
                         /\ Segments[i].vm_end < START_BRK
                         /\ Segments[i].vm_start < Segments[i].vm_end
                         /\ \A j \in 1..n : i < j => Segments[i].vm_end < Segments[j].vm_start
  BY SegmentBounds
<1>2. /\ DOMAIN l = 1..(n + 2) /\ l[1] = HeapVma /\ l[2] = StackVma
      /\ \A k \in 1..n : l[k + 2] = Segments[n + 1 - k]
  BY InitialList
<1> HIDE DEF l
<1>3. ASSUME NEW k \in 1..(n + 2), k # 1, k # 2
      PROVE  n + 3 - k \in 1..n /\ l[k] = Segments[n + 3 - k]
  <2>1. PICK x \in 1..n : x = k - 2
    BY <1>1, <1>3
  <2>2. x + 2 = k /\ n + 1 - x = n + 3 - k
    BY <1>1, <1>3, <2>1
  <2>3. l[x + 2] = Segments[n + 1 - x]
    BY <1>2
  <2>4. n + 1 - x \in 1..n
    BY <1>1
  <2> QED BY <2>2, <2>3, <2>4
<1>5. HeapAt(l, 1, START_BRK)
  <2>1. ASSUME NEW i \in DOMAIN l \ {1}
        PROVE  l[i].vm_end < START_BRK \/ USER_END - PGSIZE <= l[i].vm_start
    <3>1. CASE i = 2
      BY <1>2, <3>1, Layout DEF StackVma
    <3>2. CASE i # 2
      BY <1>1, <1>2, <1>3, <2>1, <3>2
    <3> QED BY <3>1, <3>2
  <2> QED BY <1>2, StartRounded, <2>1, Layout DEF HeapAt, HeapVma
<1>6. ASSUME NEW i \in DOMAIN l, NEW j \in DOMAIN l, i < j PROVE Apart(l[i], l[j])
  <2>1. CASE i = 1 /\ j = 2
    BY <1>2, <2>1, Layout DEF Apart, HeapVma, StackVma
  <2>2. CASE i = 1 /\ j # 2
    <3>1. j # 1 /\ j \in 1..(n + 2)
      BY <1>2, <1>6, <2>2
    <3>2. n + 3 - j \in 1..n /\ l[j] = Segments[n + 3 - j]
      BY <1>3, <2>2, <3>1
    <3> QED BY <1>1, <1>2, <2>2, <3>2 DEF Apart, HeapVma
  <2>3. CASE i = 2
    <3>1. j # 1 /\ j # 2 /\ j \in 1..(n + 2)
      BY <1>1, <1>2, <1>6, <2>3
    <3>2. n + 3 - j \in 1..n /\ l[j] = Segments[n + 3 - j]
      BY <1>3, <3>1
    <3>3. l[j].vm_end < START_BRK /\ l[j].vm_end \in Nat
      BY <1>1, <3>2
    <3>4. l[i].vm_start = USER_END - PGSIZE
      BY <1>2, <2>3 DEF StackVma
    <3> QED BY <3>3, <3>4, Layout DEF Apart
  <2>4. CASE i # 1 /\ i # 2
    <3>1. i \in 1..(n + 2) /\ j \in 1..(n + 2) /\ j # 1 /\ j # 2
      BY <1>1, <1>2, <1>6, <2>4
    <3>2. /\ n + 3 - i \in 1..n /\ l[i] = Segments[n + 3 - i]
          /\ n + 3 - j \in 1..n /\ l[j] = Segments[n + 3 - j]
      BY <1>3, <2>4, <3>1
    <3>3. n + 3 - j < n + 3 - i
      BY <1>1, <1>6, <3>1
    <3> QED BY <1>1, <3>2, <3>3 DEF Apart
  <2> QED BY <2>1, <2>2, <2>3, <2>4
<1>7. ASSUME NEW i \in DOMAIN l, NEW j \in DOMAIN l, i # j PROVE Apart(l[i], l[j])
  <2>1. i < j \/ j < i
    BY <1>1, <1>2, <1>7
  <2> QED BY <1>6, <2>1 DEF Apart
<1>8. 1 \in DOMAIN l
  BY <1>1, <1>2
<1> QED BY <1>5, <1>7, <1>8 DEF GoodAreas, l

\* What a program finds when it starts.
LEMMA InitAInv == Init => AInv
<1> SUFFICES ASSUME Init PROVE AInv
  OBVIOUS
<1>1. kop.at = "user" /\ task_num = 1
  BY DEF Init, User
<1>2. AreasGood
  <2> SUFFICES ASSUME NEW p \in 1..task_num PROVE GoodAreas(vmas[p], BrkOf(p))
    BY DEF AreasGood
  <2>1. p = 1 /\ p \in Tasks
    BY <1>1, SizeAssumption DEF Tasks
  <2>2. vmas[p] = InitialVmas /\ BrkOf(p) = START_BRK
    BY <1>1, <2>1 DEF Init, BrkOf
  <2> QED BY <2>2, InitialGood
<1> QED BY <1>1, <1>2, InitFInv DEF AInv, ShrinkBounds

\* A step that changes neither areas, breaks, tasks nor what the kernel is at.
LEMMA SameAInv ==
  ASSUME AInv, UNCHANGED <<task_num, current, vmas, brk>>,
         kop'.at = kop.at, kop.at = "unmap" => kop'.brk = kop.brk
  PROVE  AreasGood' /\ ShrinkBounds'
BY DEF AInv, AreasGood, BrkOf, ShrinkBounds

\* Every step of the kernel and of the programs keeps the invariant.
LEMMA NextAInv == AInv /\ [Next]_vars => AInv'
<1> SUFFICES ASSUME AInv, [Next]_vars PROVE AreasGood' /\ ShrinkBounds'
  BY NextFInv DEF AInv
<1>1. /\ kop \in Kops /\ current \in Tasks /\ task_num \in Tasks
      /\ current \in 1..task_num
      /\ (kop.at = "fork" => current # task_num)
      /\ vmas \in [Tasks -> Seq(Vma)] /\ brk \in [Tasks -> Breaks]
  BY DEF AInv, FInv, IInv, TypeOK, CurrentRuns, Tasks
<1>2. 1..task_num \subseteq Tasks
  BY <1>1, SizeAssumption DEF Tasks
<1>3. ASSUME NEW rc, NEW n, OutOfMemory(rc, n) PROVE AreasGood' /\ ShrinkBounds'
  BY <1>1, <1>3, SameAInv DEF OutOfMemory, Kops
<1>4. ASSUME NEW a \in UserAddr, NEW d \in WriteData, Store(PageOf(a), d)
      PROVE  AreasGood' /\ ShrinkBounds'
  BY <1>4, SameAInv DEF Store
<1>5. ASSUME NEW p \in Tasks, Switch(p) PROVE AreasGood' /\ ShrinkBounds'
  BY <1>5 DEF Switch, At, AInv, AreasGood, BrkOf, ShrinkBounds
<1>6. ASSUME NEW kind, NEW a \in UserAddr, PageFault(kind, a)
      PROVE  AreasGood' /\ ShrinkBounds'
  <2>1. /\ UNCHANGED <<task_num, current, vmas, brk>>
        /\ kop.at = "user" /\ kop'.at = kop.at
    BY <1>6, FaultEffect DEF AInv
  <2> QED BY <2>1, SameAInv
<1>7. CASE ForkBegin
  <2> DEFINE n == 5 + Len(vmas[current])
             c == task_num + 1
  <2>1. CASE ~OutOfMemory(refcnt, n)
    <3>1. /\ task_num' = c /\ vmas' = [vmas EXCEPT ![c] = Reverse(vmas[current])]
          /\ UNCHANGED <<current, brk>> /\ kop.at = "user" /\ kop'.at = "fork"
          /\ task_num < MaxTasks
      BY <1>7, <2>1 DEF ForkBegin, At, User
    <3>2. c \in Tasks /\ c \notin 1..task_num /\ 1..c = 1..task_num \cup {c}
      BY <1>1, <3>1, SizeAssumption DEF Tasks
    <3>3. vmas[current] \in Seq(Vma) /\ GoodAreas(vmas[current], brk[current])
      <4>1. BrkOf(current) = brk[current]
        BY <3>1 DEF BrkOf
      <4> QED BY <1>1, <4>1 DEF AInv, AreasGood
    <3>4. ASSUME NEW p \in 1..c PROVE GoodAreas(vmas'[p], BrkOf(p)')
      <4>1. CASE p = c
        <5>1. vmas'[p] = Reverse(vmas[current]) /\ BrkOf(p)' = brk[current]
          BY <1>1, <3>1, <3>2, <4>1 DEF BrkOf
        <5> QED BY <3>3, <5>1, ReverseGood
      <4>2. CASE p \in 1..task_num
        <5>1. p # c /\ p \in Tasks
          BY <1>2, <3>2, <4>2
        <5>2. vmas'[p] = vmas[p] /\ BrkOf(p)' = BrkOf(p)
          BY <1>1, <3>1, <5>1 DEF BrkOf
        <5> QED BY <4>2, <5>2 DEF AInv, AreasGood
      <4> QED BY <3>2, <4>1, <4>2
    <3> QED BY <3>1, <3>4 DEF AreasGood, ShrinkBounds
  <2> QED BY <1>3, <2>1
<1>8. CASE ForkPage
  <2>1. /\ UNCHANGED <<task_num, current, vmas, brk>>
        /\ kop.at = "fork" /\ kop'.at = "fork"
    BY <1>8, ForkPageEffect DEF AInv
  <2> QED BY <2>1, SameAInv
<1>9. CASE ForkNextVma
  <2>1. kop.at = "fork" /\ kop'.at = "fork" /\ UNCHANGED <<task_num, current, vmas, brk>>
    BY <1>1, <1>9 DEF ForkNextVma, At, Kops
  <2> QED BY <2>1, SameAInv
<1>10. CASE ForkEnd
  <2>1. CASE ~OutOfMemory(refcnt, 1)
    <3>1. /\ brk' = [brk EXCEPT ![task_num] = brk[current]]
          /\ UNCHANGED <<task_num, current, vmas>>
          /\ kop.at = "fork" /\ kop'.at = "user"
      BY <1>10, <2>1 DEF ForkEnd, At, User
    <3>2. \A p \in 1..task_num : BrkOf(p)' = BrkOf(p)
      BY <1>1, <1>2, <3>1 DEF BrkOf
    <3> QED BY <3>1, <3>2 DEF AInv, AreasGood, ShrinkBounds
  <2> QED BY <1>3, <2>1
<1>11. ASSUME kop.at = "user" PROVE GoodAreas(vmas[current], brk[current])
  <2>1. BrkOf(current) = brk[current]
    BY <1>11 DEF BrkOf
  <2> QED BY <1>1, <2>1 DEF AInv, AreasGood
<1>12. ASSUME NEW b \in BrkArgs, BrkGrow(b) PROVE AreasGood' /\ ShrinkBounds'
  <2>1. /\ kop.at = "user" /\ kop'.at = "user" /\ UNCHANGED <<task_num, current>>
        /\ brk' = [brk EXCEPT ![current] = b]
        /\ PgRoundUp(b) > OldBrk
    BY <1>12 DEF BrkGrow, At
  <2>2. PICK i \in FindVma(vmas[current], OldBrk) :
          vmas' = [vmas EXCEPT ![current] = SetEnd(@, i, PgRoundUp(b))]
    BY <1>12 DEF BrkGrow
  <2>3. /\ b \in Breaks /\ brk[current] \in Breaks
        /\ PgRoundUp(b) \in Nat /\ PgRoundUp(b) < USER_END - PGSIZE
        /\ OldBrk \in Nat /\ START_BRK <= OldBrk
    <3>1. b \in Breaks /\ brk[current] \in Breaks
      BY <1>1 DEF Breaks
    <3>2. PgRoundUp(b) \in Nat /\ OldBrk \in Nat
      BY <3>1, BreakFacts, Layout DEF OldBrk
    <3>3. START_BRK <= OldBrk
      BY <1>11, <2>1 DEF GoodAreas, HeapAt, OldBrk
    <3> QED BY <3>1, <3>2, <3>3, LayoutAssumption
  <2>4. GoodAreas(SetEnd(vmas[current], i, PgRoundUp(b)), b)
    <3>1. START_BRK <= PgRoundUp(b) /\ PgRoundUp(b) <= PgRoundUp(b)
      BY <2>1, <2>3, Layout
    <3>2. vmas[current] \in Seq(Vma) /\ i \in FindVma(vmas[current], PgRoundUp(brk[current]))
      BY <1>1 DEF OldBrk
    <3> QED BY <1>11, <2>1, <2>3, <3>1, <3>2, NewEndGood
  <2>5. ASSUME NEW p \in 1..task_num PROVE GoodAreas(vmas'[p], brk'[p])
    <3>1. CASE p = current
      BY <1>1, <2>1, <2>2, <2>4, <3>1
    <3>2. CASE p # current
      <4>1. vmas'[p] = vmas[p] /\ brk'[p] = brk[p] /\ BrkOf(p) = brk[p]
        BY <1>1, <1>2, <2>1, <2>2, <3>2 DEF BrkOf
      <4> QED BY <4>1 DEF AInv, AreasGood
    <3> QED BY <3>1, <3>2
  <2> QED BY <2>1, <2>5 DEF AreasGood, BrkOf, ShrinkBounds
<1>13. ASSUME NEW b \in BrkArgs, BrkShrink(b) PROVE AreasGood' /\ ShrinkBounds'
  <2>1. /\ kop.at = "user" /\ kop'.at = "unmap" /\ kop'.brk = b
        /\ UNCHANGED <<task_num, current, brk>>
        /\ START_BRK <= PgRoundUp(b) /\ PgRoundUp(b) < OldBrk
    BY <1>13 DEF BrkShrink, At, User
  <2>2. PICK i \in FindVma(vmas[current], OldBrk) :
          vmas' = [vmas EXCEPT ![current] = SetEnd(@, i, OldBrk)]
    BY <1>13 DEF BrkShrink
  <2>3. /\ b \in Breaks /\ brk[current] \in Breaks
        /\ PgRoundUp(b) \in Nat /\ OldBrk \in Nat
    <3>1. b \in Breaks /\ brk[current] \in Breaks
      BY <1>1 DEF Breaks
    <3> QED BY <3>1, BreakFacts, Layout DEF OldBrk
  <2>4. START_BRK <= OldBrk /\ OldBrk < USER_END - PGSIZE
    <3>1. PICK h \in DOMAIN vmas[current] : HeapAt(vmas[current], h, brk[current])
      BY <1>11, <2>1 DEF GoodAreas
    <3>2. vmas[current][h].vm_end \in Nat
      BY <1>1, AreaBounds
    <3> QED BY <2>3, <3>1, <3>2, Layout DEF HeapAt, OldBrk
  <2>5. GoodAreas(SetEnd(vmas[current], i, OldBrk), brk[current])
    <3>1. vmas[current] \in Seq(Vma) /\ i \in FindVma(vmas[current], PgRoundUp(brk[current]))
          /\ OldBrk = PgRoundUp(brk[current]) /\ OldBrk <= OldBrk
      BY <1>1, <2>3 DEF OldBrk
    <3> QED BY <1>11, <2>1, <2>3, <2>4, <3>1, NewEndGood
  <2>6. ASSUME NEW p \in 1..task_num PROVE GoodAreas(vmas'[p], brk[p])
    <3>1. CASE p = current
      BY <1>1, <2>2, <2>5, <3>1
    <3>2. CASE p # current
      <4>1. vmas'[p] = vmas[p] /\ BrkOf(p) = brk[p]
        BY <1>1, <1>2, <2>1, <2>2, <3>2 DEF BrkOf
      <4> QED BY <4>1 DEF AInv, AreasGood
    <3> QED BY <3>1, <3>2
  <2>7. AreasGood'
    BY <2>1, <2>6 DEF AreasGood, BrkOf
  <2>8. ShrinkBounds'
    BY <2>1, <2>3 DEF ShrinkBounds, OldBrk
  <2> QED BY <2>7, <2>8
<1>14. CASE UnmapPage
  <2>1. /\ UNCHANGED <<task_num, current, vmas, brk>>
        /\ kop.at = "unmap" /\ kop'.at = "unmap"
    BY <1>14, UnmapPageEffect DEF AInv
  <2>2. kop'.brk = kop.brk
    BY <1>1, <1>14 DEF UnmapPage, OutOfMemory, Kops
  <2> QED BY <2>1, <2>2, SameAInv
<1>15. CASE UnmapEnd
  <2>1. /\ kop.at = "unmap" /\ kop'.at = "user" /\ UNCHANGED <<task_num, current, vmas>>
        /\ brk' = [brk EXCEPT ![current] = kop.brk]
    BY <1>15 DEF UnmapEnd, At, User
  <2>2. START_BRK <= PgRoundUp(kop.brk) /\ PgRoundUp(kop.brk) <= PgRoundUp(brk[current])
        /\ PgRoundUp(kop.brk) \in Nat /\ PgRoundUp(brk[current]) \in Nat
    <3>1. kop.brk \in Breaks /\ brk[current] \in Breaks
      BY <1>1 DEF Kops
    <3> QED BY <2>1, <3>1, BreakFacts, Layout DEF AInv, ShrinkBounds
  <2>3. GoodAreas(vmas[current], kop.brk)
    <3>1. GoodAreas(vmas[current], brk[current])
      <4>1. BrkOf(current) = brk[current]
        BY <2>1 DEF BrkOf
      <4> QED BY <1>1, <4>1 DEF AInv, AreasGood
    <3>2. PICK h \in DOMAIN vmas[current] : HeapAt(vmas[current], h, brk[current])
      BY <3>1 DEF GoodAreas
    <3>3. vmas[current][h].vm_end \in Nat
      BY <1>1, AreaBounds
    <3>4. HeapAt(vmas[current], h, kop.brk)
      BY <2>2, <3>2, <3>3 DEF HeapAt
    <3> QED BY <3>1, <3>4 DEF GoodAreas
  <2>4. ASSUME NEW p \in 1..task_num PROVE GoodAreas(vmas[p], brk'[p])
    <3>1. CASE p = current
      BY <1>1, <2>1, <2>3, <3>1
    <3>2. CASE p # current
      <4>1. brk'[p] = BrkOf(p)
        BY <1>1, <1>2, <2>1, <3>2 DEF BrkOf
      <4> QED BY <4>1 DEF AInv, AreasGood
    <3> QED BY <3>1, <3>2
  <2> QED BY <2>1, <2>4 DEF AreasGood, BrkOf, ShrinkBounds
<1>16. CASE UNCHANGED vars
  BY <1>16, SameAInv DEF vars
<1> QED
  BY <1>4, <1>5, <1>6, <1>7, <1>8, <1>9, <1>10, <1>12, <1>13, <1>14, <1>15, <1>16
  DEF Next, PoweredOff, BrkUnchanged

\* Every task that exists has a heap where sys_brk looks for it: the result of
\* find_vma, which sys_brk uses unchecked, is never NULL and never another area,
\* whatever grew, shrank and was copied before.
THEOREM BrkAlwaysFindsHeap == Spec => []BrkFindsHeap
<1>1. AInv => BrkFindsHeap
  <2> SUFFICES ASSUME AInv, NEW p \in Existing
               PROVE  \E i \in FindVma(vmas[p], PgRoundUp(brk[p])) :
                        vmas[p][i].vm_start = START_BRK
    BY DEF BrkFindsHeap
  <2>1. /\ task_num \in Tasks /\ vmas \in [Tasks -> Seq(Vma)]
        /\ brk \in [Tasks -> Breaks]
    BY DEF AInv, FInv, IInv, TypeOK
  <2>2. p \in 1..task_num /\ p \in Tasks /\ BrkOf(p) = brk[p]
    BY <2>1, SizeAssumption DEF Existing, Tasks, BrkOf
  <2>3. PICK h \in DOMAIN vmas[p] : HeapAt(vmas[p], h, brk[p])
    BY <2>2 DEF AInv, AreasGood, GoodAreas
  <2>4. FindVma(vmas[p], PgRoundUp(brk[p])) = {h}
    BY <2>1, <2>2, <2>3, FindsHeap
  <2> QED BY <2>3, <2>4 DEF HeapAt
<1> QED BY <1>1, InitAInv, NextAInv, PTL DEF Spec

-----------------------------------------------------------------------------
(* Exact counts                                                            *)

\* Counts rc are those of tables q: one from alloc_page, one per entry.
Exact(q, rc) ==
  \A f \in Frames : Naming(q, f) # {} => rc[f] = 1 + Cardinality(Naming(q, f))

\* A named frame has two references or more, and a free one no name.
LEMMA ExactHeld ==
  ASSUME NEW q, NEW rc \in Counts, Exact(q, rc), NEW f \in Frames
  PROVE  /\ Naming(q, f) # {} => rc[f] >= 2
         /\ rc[f] = 0 => Naming(q, f) = {}
<1>1. ASSUME Naming(q, f) # {} PROVE rc[f] >= 2
  <2>1. Cardinality(Naming(q, f)) # 0 /\ Cardinality(Naming(q, f)) \in Nat
    BY <1>1, NamingFinite, FS_EmptySet
  <2> QED BY <1>1, <2>1 DEF Exact
<1> QED BY <1>1

\* Taking free frames.
LEMMA TakeExact ==
  ASSUME NEW q, NEW rc \in Counts, Exact(q, rc), NEW F \in SUBSET Free(rc)
  PROVE  Exact(q, Taken(rc, F))
<1> SUFFICES ASSUME NEW f \in Frames, Naming(q, f) # {}
             PROVE  Taken(rc, F)[f] = 1 + Cardinality(Naming(q, f))
  BY DEF Exact
<1>1. rc[f] >= 2
  BY ExactHeld
<1>2. f \notin F
  BY <1>1 DEF Free
<1> QED BY <1>2 DEF Taken, Exact

\* Clearing an entry and dropping its reference.
LEMMA ClearExact ==
  ASSUME NEW q \in PageTables, NEW rc \in Counts, Exact(q, rc),
         NEW p \in Tasks, NEW pg \in Pages, "V" \in q[p][pg].flags
  PROVE  LET f == q[p][pg].ppn
             q2 == [q EXCEPT ![p][pg] = NoPte]
         IN Exact(q2, Deref(rc, f)) /\ \A g : Naming(q2, g) \subseteq Naming(q, g)
<1> DEFINE f == q[p][pg].ppn
           q2 == [q EXCEPT ![p][pg] = NoPte]
           m == <<p, pg>>
<1>1. f \in Frames
  BY DEF PageTables, Pte
<1>2. ASSUME NEW p2 \in Tasks, NEW pg2 \in Pages
      PROVE  q2[p2][pg2] = IF <<p2, pg2>> = m THEN NoPte ELSE q[p2][pg2]
  BY DEF PageTables
<1>3. \A g : Naming(q2, g) = Naming(q, g) \ {m}
  BY <1>2 DEF Naming, NoPte
<1>4. m \in Naming(q, f) /\ \A g : m \in Naming(q, g) => g = f
  BY DEF Naming
<1> SUFFICES ASSUME NEW g \in Frames, Naming(q2, g) # {}
             PROVE  Deref(rc, f)[g] = 1 + Cardinality(Naming(q2, g))
  BY <1>3 DEF Exact
<1>5. Naming(q, g) # {} /\ rc[g] \in Nat
  BY <1>3 DEF Counts
<1>6. rc[g] = 1 + Cardinality(Naming(q, g)) /\ rc[g] >= 2
  BY <1>5, ExactHeld DEF Exact
<1>7. CASE g = f
  <2>1. IsFiniteSet(Naming(q, f)) /\ m \in Naming(q, f) /\ Cardinality(Naming(q, f)) \in Nat
    BY <1>4, NamingFinite
  <2>2. Cardinality(Naming(q, f) \ {m}) = Cardinality(Naming(q, f)) - 1
    BY <2>1, FS_RemoveElement
  <2>3. Deref(rc, f)[f] = rc[f] - 1
    BY <1>1, <1>5, <1>6, <1>7 DEF Deref, Counts
  <2>4. rc[f] = 1 + Cardinality(Naming(q, f)) /\ Naming(q2, f) = Naming(q, f) \ {m}
    BY <1>3, <1>6, <1>7
  <2>5. Deref(rc, f)[f] = 1 + Cardinality(Naming(q2, f))
    <3> HIDE DEF f, q2, m
    <3> QED BY <2>1, <2>2, <2>3, <2>4
  <2> QED BY <1>7, <2>5
<1>8. CASE g # f
  <2>1. Naming(q2, g) = Naming(q, g)
    BY <1>3, <1>4, <1>8
  <2>2. Deref(rc, f)[g] = rc[g]
    BY <1>1, <1>8 DEF Deref, Counts
  <2> QED BY <1>6, <2>1, <2>2
<1> QED BY <1>7, <1>8

\* Naming a frame that has one name fewer: by an entry that was not valid, or
\* that named another frame which has its account settled.
LEMMA EnterExact ==
  ASSUME NEW q \in PageTables, NEW rc \in Counts, Exact(q, rc),
         NEW p \in Tasks, NEW pg \in Pages, "V" \notin q[p][pg].flags,
         NEW f \in Frames, NEW perm,
         rc[f] = 1 + Cardinality(Naming(q, f))
  PROVE  Exact([q EXCEPT ![p][pg] = Leaf(f, perm)], Ref(rc, f))
<1> DEFINE q2 == [q EXCEPT ![p][pg] = Leaf(f, perm)]
           m == <<p, pg>>
<1>1. ASSUME NEW p2 \in Tasks, NEW pg2 \in Pages
      PROVE  q2[p2][pg2] = IF <<p2, pg2>> = m THEN Leaf(f, perm) ELSE q[p2][pg2]
  BY DEF PageTables
<1>2. Naming(q2, f) = Naming(q, f) \cup {m} /\ m \notin Naming(q, f)
  BY <1>1 DEF Naming, Leaf
<1>3. \A g : g # f => Naming(q2, g) = Naming(q, g)
  BY <1>1 DEF Naming, Leaf
<1> HIDE DEF q2
<1> SUFFICES ASSUME NEW g \in Frames, Naming(q2, g) # {}
             PROVE  Ref(rc, f)[g] = 1 + Cardinality(Naming(q2, g))
  BY DEF Exact, q2
<1>4. CASE g = f
  <2>1. IsFiniteSet(Naming(q, f)) /\ Cardinality(Naming(q, f)) \in Nat
    BY NamingFinite
  <2>2. Cardinality(Naming(q2, f)) = Cardinality(Naming(q, f)) + 1
    BY <1>2, <2>1, FS_AddElement
  <2>3. Ref(rc, f)[f] = rc[f] + 1
    BY <2>1 DEF Ref, Counts
  <2> QED BY <1>4, <2>1, <2>2, <2>3
<1>5. CASE g # f
  BY <1>3, <1>5 DEF Exact, Ref, Counts
<1> QED BY <1>4, <1>5

\* Pages do_fork has passed: those of earlier areas, and of this one below va.
Passed(pg) ==
  LET l == vmas[current] IN
  \E j \in DOMAIN l :
    /\ j <= kop.vma
    /\ l[j].vm_start <= pg * PGSIZE /\ pg * PGSIZE < l[j].vm_end
    /\ j = kop.vma => pg * PGSIZE < kop.va

\* do_fork goes through the areas in order and through each page by page; what
\* the child maps was passed.
ForkPlace ==
  kop.at = "fork" =>
    LET l == vmas[current] IN
    /\ kop.vma \in DOMAIN l =>
         l[kop.vma].vm_start <= kop.va /\ PgRoundDown(kop.va) = kop.va
    /\ \A pg \in Pages : "V" \in pt[task_num][pg].flags => Passed(pg)

EInv == AInv /\ Exact(pt, refcnt) /\ ForkPlace

\* The next page address.
LEMMA NextPage ==
  ASSUME NEW a \in Nat, PgRoundDown(a) = a
  PROVE  PgRoundDown(a + PGSIZE) = a + PGSIZE /\ PageOf(a) * PGSIZE = a
<1>1. PICK q \in Nat : a = q * PGSIZE
  BY Layout, Quotient DEF PgRoundDown, PageOf
<1>2. (q * PGSIZE + PGSIZE) \div PGSIZE = q + 1 /\ (q * PGSIZE) \div PGSIZE = q
  BY Layout, <1>1
<1>3. (q + 1) * PGSIZE = q * PGSIZE + PGSIZE
  BY Layout, <1>1
<1> QED BY <1>1, <1>2, <1>3 DEF PgRoundDown, PageOf

\* The page do_fork is at is one the child does not map yet.
LEMMA NotYetShared ==
  ASSUME EInv, ForkPage PROVE "V" \notin pt[task_num][PageOf(kop.va)].flags
<1> DEFINE l == vmas[current]
           pg == PageOf(kop.va)
<1>1. /\ kop.at = "fork" /\ kop.vma \in DOMAIN l /\ kop.va < l[kop.vma].vm_end
      /\ kop.va \in Nat /\ l \in Seq(Vma) /\ current \in 1..task_num /\ pg \in Pages
      /\ current # task_num
  BY ForkPagePage DEF ForkPage, At, EInv, AInv, FInv, IInv, TypeOK, CurrentRuns, Kops, Tasks
<1>2. l[kop.vma].vm_start <= kop.va /\ pg * PGSIZE = kop.va
  BY <1>1, NextPage DEF EInv, ForkPlace
<1> SUFFICES ASSUME Passed(pg) PROVE FALSE
  BY <1>1 DEF EInv, ForkPlace
<1>3. PICK j \in DOMAIN l :
        /\ j <= kop.vma
        /\ l[j].vm_start <= kop.va /\ kop.va < l[j].vm_end
        /\ j # kop.vma
  <2>1. PICK j \in DOMAIN l :
          /\ j <= kop.vma
          /\ l[j].vm_start <= pg * PGSIZE /\ pg * PGSIZE < l[j].vm_end
          /\ j = kop.vma => pg * PGSIZE < kop.va
    BY DEF Passed
  <2> HIDE DEF pg
  <2>2. l[j].vm_start <= kop.va /\ kop.va < l[j].vm_end
    BY <1>2, <2>1
  <2>3. j # kop.vma
    BY <1>1, <1>2, <2>1
  <2> QED BY <2>1, <2>2, <2>3
<1>4. Apart(l[j], l[kop.vma])
  <2>1. BrkOf(current) = brk[current]
    BY <1>1 DEF BrkOf
  <2> QED BY <1>1, <1>3, <2>1 DEF EInv, AInv, AreasGood, GoodAreas
<1>5. l[j].vm_start \in Nat /\ l[j].vm_end \in Nat
      /\ l[kop.vma].vm_start \in Nat /\ l[kop.vma].vm_end \in Nat
  BY <1>1, AreaBounds
<1> QED BY <1>1, <1>2, <1>3, <1>4, <1>5 DEF Apart

\* What do_fork has passed, one page further.
LEMMA PassesPage ==
  ASSUME EInv, ForkPage, UNCHANGED <<task_num, current, vmas>>,
         kop' = [kop EXCEPT !.va = @ + PGSIZE],
         \A pg \in Pages \ {PageOf(kop.va)} : pt'[task_num][pg] = pt[task_num][pg]
  PROVE  ForkPlace'
<1> DEFINE l == vmas[current]
           here == PageOf(kop.va)
<1>1. /\ kop.at = "fork" /\ kop.vma \in DOMAIN l /\ kop.va < l[kop.vma].vm_end
      /\ kop.va \in Nat /\ kop.vma \in Nat /\ kop \in Kops /\ here \in Pages
      /\ l \in Seq(Vma)
  BY ForkPagePage DEF ForkPage, At, EInv, AInv, FInv, IInv, TypeOK, Kops
<1>2. /\ l[kop.vma].vm_start <= kop.va /\ PgRoundDown(kop.va) = kop.va
      /\ here * PGSIZE = kop.va
      /\ PgRoundDown(kop.va + PGSIZE) = kop.va + PGSIZE
  BY <1>1, NextPage DEF EInv, ForkPlace
<1>3. kop'.at = "fork" /\ kop'.vma = kop.vma /\ kop'.va = kop.va + PGSIZE
  BY <1>1 DEF Kops
<1>4. l[kop.vma].vm_start \in Nat
  BY <1>1, AreaBounds
<1>5. ASSUME NEW pg \in Pages, "V" \in pt'[task_num][pg].flags PROVE Passed(pg)'
  <2>0. pg * PGSIZE \in Nat
    BY PageFacts, Layout
  <2>1. CASE pg = here
    <3>1. /\ PGSIZE \in Nat \ {0} /\ pg * PGSIZE = kop.va
          /\ kop.va < kop'.va /\ kop'.vma = kop.vma
      BY <1>1, <1>2, <1>3, <2>1, Layout
    <3>2. /\ kop.vma \in DOMAIN l /\ kop.vma <= kop'.vma
          /\ l[kop.vma].vm_start <= pg * PGSIZE /\ pg * PGSIZE < l[kop.vma].vm_end
      BY <1>1, <1>2, <3>1
    <3>3. vmas'[current'] = l
      OBVIOUS
    <3> QED BY <3>1, <3>2, <3>3 DEF Passed
  <2>2. CASE pg # here
    <3>1. Passed(pg)
      BY <1>1, <1>5, <2>2 DEF EInv, ForkPlace
    <3>2. PICK j \in DOMAIN l :
            /\ j <= kop.vma
            /\ l[j].vm_start <= pg * PGSIZE /\ pg * PGSIZE < l[j].vm_end
            /\ j = kop.vma => pg * PGSIZE < kop.va
      BY <3>1 DEF Passed
    <3>3. PGSIZE \in Nat \ {0}
      BY Layout
    <3>4. pg * PGSIZE < kop.va => pg * PGSIZE < kop'.va
      BY <1>1, <1>3, <2>0, <3>3
    <3>5. j <= kop'.vma /\ (j = kop'.vma => pg * PGSIZE < kop'.va) /\ vmas'[current'] = l
      BY <1>3, <3>2, <3>4
    <3> QED BY <3>2, <3>5 DEF Passed
  <2> QED BY <2>1, <2>2
<1>6. l[kop.vma].vm_start <= kop'.va /\ PgRoundDown(kop'.va) = kop'.va
  <2>1. PGSIZE \in Nat \ {0}
    BY Layout
  <2>2. PgRoundDown(kop'.va) = kop'.va
    BY <1>2, <1>3
  <2> QED BY <1>1, <1>2, <1>3, <1>4, <2>1, <2>2
<1>7. vmas'[current'] = l
  OBVIOUS
<1> HIDE DEF l
<1> QED BY <1>3, <1>5, <1>6, <1>7 DEF ForkPlace

\* Types of the account.
LEMMA AccountTypes ==
  ASSUME EInv
  PROVE  pt \in PageTables /\ refcnt \in Counts /\ kop \in Kops
         /\ current \in Tasks /\ task_num \in Tasks /\ TypeOK
BY DEF EInv, AInv, FInv, IInv, TypeOK, PageTables, Counts

\* A fault enters a frame nobody names.
LEMMA FaultExact ==
  ASSUME EInv, NEW kind, NEW a \in UserAddr, PageFault(kind, a)
  PROVE  Exact(pt', refcnt')
<1> DEFINE pg == PageOf(a)
           old == pt[current][pg]
<1>1. /\ pg \in Pages /\ current \in Tasks
      /\ \/ UNCHANGED <<pt, refcnt>>
         \/ \E v \in Vma, new \in Free(refcnt) :
              /\ pt' = [pt EXCEPT ![current][pg] = Leaf(new, PermOf(v))]
              /\ \/ /\ {"V", "S"} \subseteq old.flags
                    /\ refcnt' = Ref(Taken(Deref(refcnt, old.ppn), {new}), new)
                 \/ \E F \in SUBSET Free(refcnt) :
                      /\ "V" \notin old.flags /\ new \in F
                      /\ refcnt' = Ref(Taken(refcnt, F), new)
  <2>1. FInv
    BY DEF EInv, AInv
  <2>2. /\ pg \in Pages /\ current \in Tasks
        /\ \/ UNCHANGED <<pt, refcnt, content, tlb>>
           \/ \E v \in Vma, new \in Free(refcnt) :
                /\ pt' = [pt EXCEPT ![current][pg] = Leaf(new, PermOf(v))]
                /\ \/ /\ {"V", "S"} \subseteq old.flags
                      /\ refcnt' = Ref(Taken(Deref(refcnt, old.ppn), {new}), new)
                   \/ \E F \in SUBSET Free(refcnt) :
                        /\ "V" \notin old.flags /\ new \in F
                        /\ \A f \in Frames \ F : content'[f] = content[f]
                        /\ refcnt' = Ref(Taken(refcnt, F), new)
    BY <2>1, FaultEffect
  <2> QED BY <2>2
<1>2. pt \in PageTables /\ refcnt \in Counts /\ Exact(pt, refcnt) /\ TypeOK
  BY AccountTypes DEF EInv
<1>3. ASSUME NEW q \in PageTables, NEW rc \in Counts, Exact(q, rc),
             "V" \notin q[current][pg].flags, NEW f \in Frames,
             Naming(q, f) = {}, rc[f] = 1, NEW perm
      PROVE  Exact([q EXCEPT ![current][pg] = Leaf(f, perm)], Ref(rc, f))
  <2>1. rc[f] = 1 + Cardinality(Naming(q, f))
    BY <1>3, FS_EmptySet
  <2> QED BY <1>1, <1>3, <2>1, EnterExact
<1>4. ASSUME NEW v \in Vma, NEW new \in Free(refcnt),
             pt' = [pt EXCEPT ![current][pg] = Leaf(new, PermOf(v))],
             {"V", "S"} \subseteq old.flags,
             refcnt' = Ref(Taken(Deref(refcnt, old.ppn), {new}), new)
      PROVE  Exact(pt', refcnt')
  <2> DEFINE rc == Deref(refcnt, old.ppn)
             q == [pt EXCEPT ![current][pg] = NoPte]
             rc2 == Taken(rc, {new})
  <2>1. old.ppn \in Frames /\ refcnt[old.ppn] >= 2
    BY <1>1, <1>4, EntryHeld DEF EInv, AInv, FInv
  <2>2. rc \in Counts /\ Free(rc) = Free(refcnt)
    BY <1>2, <2>1, DerefFreeBefore
  <2>3. Exact(q, rc) /\ Naming(q, new) \subseteq Naming(pt, new)
    BY <1>1, <1>2, <1>4, ClearExact
  <2>4. new \in Frames /\ Naming(pt, new) = {}
    BY <1>2, ExactHeld DEF Free
  <2>5. Exact(q, rc2)
    BY <1>4, <2>2, <2>3, TakeExact
  <2>6. rc2 \in Counts /\ rc2[new] = 1
    BY <2>2, <2>4 DEF Taken, Counts
  <2>7. q \in PageTables /\ "V" \notin q[current][pg].flags
    BY <1>1, <1>2, LeafType DEF PageTables, NoPte
  <2>8. pt' = [q EXCEPT ![current][pg] = Leaf(new, PermOf(v))]
    BY <1>1, <1>2, <1>4 DEF PageTables
  <2>9. Naming(q, new) = {}
    BY <2>3, <2>4
  <2>10. refcnt' = Ref(rc2, new)
    BY <1>4
  <2> HIDE DEF q, rc2
  <2> QED BY <1>3, <2>4, <2>5, <2>6, <2>7, <2>8, <2>9, <2>10
<1>5. ASSUME NEW v \in Vma, NEW new \in Free(refcnt), NEW F \in SUBSET Free(refcnt),
             pt' = [pt EXCEPT ![current][pg] = Leaf(new, PermOf(v))],
             "V" \notin old.flags, new \in F,
             refcnt' = Ref(Taken(refcnt, F), new)
      PROVE  Exact(pt', refcnt')
  <2>1. new \in Frames /\ Naming(pt, new) = {}
    BY <1>2, ExactHeld DEF Free
  <2>2. Exact(pt, Taken(refcnt, F)) /\ Taken(refcnt, F) \in Counts
        /\ Taken(refcnt, F)[new] = 1
    <3>1. Exact(pt, Taken(refcnt, F))
      BY <1>2, TakeExact
    <3> QED BY <1>2, <1>5, <2>1, <3>1 DEF Taken, Counts
  <2> QED BY <1>2, <1>3, <1>5, <2>1, <2>2
<1> QED BY <1>1, <1>2, <1>4, <1>5

\* do_fork counts the child's entry, which is new.
LEMMA ForkPageExact == ASSUME EInv, ForkPage PROVE Exact(pt', refcnt')
<1> DEFINE pg == PageOf(kop.va)
           pte == pt[current][pg]
           perm == SharedPerm(pte.flags)
           e == Leaf(pte.ppn, perm)
<1>1. /\ pg \in Pages /\ current \in Tasks /\ task_num \in Tasks
      /\ \/ UNCHANGED <<pt, refcnt>>
         \/ /\ "V" \in pte.flags
            /\ pt' = [pt EXCEPT ![current][pg] = e, ![task_num][pg] = e]
            /\ \E F \in SUBSET Free(refcnt) : refcnt' = Ref(Taken(refcnt, F), pte.ppn)
  BY ForkPageEffect DEF EInv, AInv
<1>2. pt \in PageTables /\ refcnt \in Counts /\ Exact(pt, refcnt)
      /\ current # task_num /\ "V" \notin pt[task_num][pg].flags
  BY AccountTypes, NotYetShared DEF EInv, AInv, FInv, IInv, CurrentRuns, ForkPage, At
<1>3. ASSUME "V" \in pte.flags,
             pt' = [pt EXCEPT ![current][pg] = e, ![task_num][pg] = e],
             NEW F \in SUBSET Free(refcnt), refcnt' = Ref(Taken(refcnt, F), pte.ppn)
      PROVE  Exact(pt', refcnt')
  <2> DEFINE rc == Taken(refcnt, F)
             q == [pt EXCEPT ![current][pg] = e]
  <2>1. Exact(pt, rc) /\ rc \in Counts
    BY <1>2, TakeExact, CountType DEF Counts
  <2>2. Exact(q, rc) /\ Naming(q, pte.ppn) = Naming(pt, pte.ppn)
    <3>1. \A p2 \in Tasks, pg2 \in Pages :
            /\ "V" \in q[p2][pg2].flags <=> "V" \in pt[p2][pg2].flags
            /\ q[p2][pg2].ppn = pt[p2][pg2].ppn
      <4> SUFFICES ASSUME NEW p2 \in Tasks, NEW pg2 \in Pages
                   PROVE  /\ "V" \in q[p2][pg2].flags <=> "V" \in pt[p2][pg2].flags
                          /\ q[p2][pg2].ppn = pt[p2][pg2].ppn
        OBVIOUS
      <4>1. q[p2][pg2] = IF p2 = current /\ pg2 = pg THEN e ELSE pt[p2][pg2]
        BY <1>1, <1>2 DEF PageTables
      <4>2. "V" \in e.flags /\ e.ppn = pte.ppn
        BY DEF Leaf
      <4> QED BY <1>3, <4>1, <4>2
    <3> HIDE DEF q, rc
    <3>2. \A g : Naming(q, g) = Naming(pt, g)
      BY <3>1 DEF Naming
    <3> QED BY <2>1, <3>2 DEF Exact
  <2>3. pte \in Pte /\ pte.ppn \in Frames /\ perm \in SUBSET PteBits
    BY <1>1, <1>2 DEF PageTables, Pte, PteBits, SharedPerm
  <2>4. q \in PageTables /\ q[task_num][pg] = pt[task_num][pg]
    BY <1>1, <1>2, <2>3, LeafType DEF PageTables
  <2>5. pt' = [q EXCEPT ![task_num][pg] = e]
    BY <1>3
  <2>6. <<current, pg>> \in Naming(pt, pte.ppn)
    BY <1>1, <1>3 DEF Naming
  <2>7. rc[pte.ppn] = 1 + Cardinality(Naming(q, pte.ppn))
    BY <2>1, <2>2, <2>3, <2>6 DEF Exact
  <2> HIDE DEF q, rc
  <2>8. Exact([q EXCEPT ![task_num][pg] = Leaf(pte.ppn, perm)], Ref(rc, pte.ppn))
    BY <1>1, <1>2, <2>2, <2>1, <2>3, <2>4, <2>7, EnterExact
  <2> QED BY <1>3, <2>5, <2>8 DEF rc
<1> QED BY <1>1, <1>2, <1>3

\* unmap_page drops the reference of the entry it clears.
LEMMA UnmapPageExact == ASSUME EInv, UnmapPage PROVE Exact(pt', refcnt')
<1> DEFINE pg == PageOf(kop.va)
           pte == pt[current][pg]
           rc == Deref(refcnt, pte.ppn)
<1>1. /\ pg \in Pages /\ current \in Tasks
      /\ \/ UNCHANGED <<pt, refcnt>>
         \/ /\ "V" \in pte.flags
            /\ pt' = [pt EXCEPT ![current][pg] = NoPte]
            /\ refcnt' = rc \/ \E new \in Free(refcnt) : refcnt' = Taken(rc, {new})
  BY UnmapPageEffect DEF EInv, AInv
<1>2. pt \in PageTables /\ refcnt \in Counts /\ Exact(pt, refcnt) /\ TypeOK
  BY AccountTypes DEF EInv
<1>3. ASSUME "V" \in pte.flags, pt' = [pt EXCEPT ![current][pg] = NoPte],
             refcnt' = rc \/ \E new \in Free(refcnt) : refcnt' = Taken(rc, {new})
      PROVE  Exact(pt', refcnt')
  <2>1. pte.ppn \in Frames /\ refcnt[pte.ppn] >= 2
    BY <1>1, <1>3, EntryHeld DEF EInv, AInv, FInv
  <2>2. rc \in Counts /\ Free(rc) = Free(refcnt)
    BY <1>2, <2>1, DerefFreeBefore
  <2>3. Exact(pt', rc)
    BY <1>1, <1>2, <1>3, ClearExact
  <2>4. ASSUME NEW new \in Free(refcnt), refcnt' = Taken(rc, {new})
        PROVE  Exact(pt', refcnt')
    <3> HIDE DEF rc
    <3> QED BY <2>2, <2>3, <2>4, TakeExact
  <2> QED BY <1>3, <2>3, <2>4
<1> QED BY <1>1, <1>2, <1>3

\* Nothing is mapped when the first task starts.
LEMMA InitEInv == Init => EInv
<1> SUFFICES ASSUME Init PROVE EInv
  OBVIOUS
<1>1. \A p \in Tasks, pg \in Pages : pt[p][pg] = NoPte
  BY DEF Init, NoPtes
<1>2. Exact(pt, refcnt)
  BY <1>1 DEF Exact, Naming, NoPte
<1>3. ForkPlace
  BY DEF Init, User, ForkPlace
<1> QED BY <1>2, <1>3, InitAInv DEF EInv

\* Every step of the kernel and of the programs keeps the account exact.
LEMMA NextEInv == EInv /\ [Next]_vars => EInv'
<1> SUFFICES ASSUME EInv, [Next]_vars PROVE Exact(pt', refcnt') /\ ForkPlace'
  BY NextAInv DEF EInv
<1>1. /\ kop \in Kops /\ current \in Tasks /\ task_num \in Tasks /\ TypeOK
      /\ refcnt \in Counts /\ Exact(pt, refcnt)
      /\ \A n : LowestFree(refcnt, n) \in SUBSET Free(refcnt)
  BY AccountTypes, LowestFreeIsFree DEF EInv
<1>2. ASSUME UNCHANGED <<pt, refcnt>> PROVE Exact(pt', refcnt')
  BY <1>1, <1>2
<1>3. ASSUME kop'.at # "fork" PROVE ForkPlace'
  BY <1>3 DEF ForkPlace
<1>4. ASSUME NEW rc, NEW n, OutOfMemory(rc, n) PROVE Exact(pt', refcnt') /\ ForkPlace'
  BY <1>1, <1>2, <1>4 DEF OutOfMemory, EInv, ForkPlace, Passed, Kops
<1>5. ASSUME NEW a \in UserAddr, NEW d \in WriteData, Store(PageOf(a), d)
      PROVE  Exact(pt', refcnt') /\ ForkPlace'
  BY <1>2, <1>3, <1>5 DEF Store, At
<1>6. ASSUME NEW p \in Tasks, Switch(p) PROVE Exact(pt', refcnt') /\ ForkPlace'
  BY <1>2, <1>3, <1>6 DEF Switch, At
<1>7. ASSUME NEW kind, NEW a \in UserAddr, PageFault(kind, a)
      PROVE  Exact(pt', refcnt') /\ ForkPlace'
  <2>1. kop.at = "user" /\ kop'.at = kop.at
    BY <1>7, FaultEffect DEF EInv, AInv
  <2> QED BY <1>3, <1>7, <2>1, FaultExact
<1>8. CASE ForkBegin
  <2> DEFINE n == 5 + Len(vmas[current])
  <2>1. CASE ~OutOfMemory(refcnt, n)
    <3>1. /\ task_num' = task_num + 1 /\ refcnt' = Taken(refcnt, LowestFree(refcnt, n))
          /\ UNCHANGED <<current, pt>> /\ task_num < MaxTasks
          /\ kop' = [User EXCEPT !.at = "fork"]
          /\ vmas' = [vmas EXCEPT ![task_num + 1] = Reverse(vmas[current])]
      BY <1>8, <2>1 DEF ForkBegin
    <3>2. Exact(pt', refcnt')
      BY <1>1, <3>1, TakeExact
    <3>3. kop'.vma = 0
      BY <3>1 DEF User
    <3>4. task_num' \in Tasks /\ task_num' > task_num /\ current # task_num'
      BY <1>1, <3>1, SizeAssumption DEF Tasks, EInv, AInv, FInv, IInv, CurrentRuns
    <3>5. \A pg \in Pages : "V" \notin pt'[task_num'][pg].flags
      BY <3>1, <3>4 DEF EInv, AInv, FInv, IInv, UnbornMapNothing
    <3>6. 0 \notin DOMAIN vmas'[current']
      <4>1. vmas'[current'] = vmas[current] /\ vmas[current] \in Seq(Vma)
        BY <1>1, <3>1, <3>4 DEF TypeOK
      <4> QED BY <4>1, LenProperties
    <3> QED BY <3>2, <3>3, <3>5, <3>6 DEF ForkPlace
  <2> QED BY <1>4, <2>1
<1>9. CASE ForkPage
  <2> DEFINE pg == PageOf(kop.va)
             n == Cardinality(NewTables(task_num, pg))
  <2>1. CASE ~OutOfMemory(refcnt, n)
    <3>1. /\ UNCHANGED <<task_num, current, vmas>>
          /\ kop' = [kop EXCEPT !.va = @ + PGSIZE]
      BY <1>9, <2>1 DEF ForkPage
    <3>2. \A pg2 \in Pages \ {pg} : pt'[task_num][pg2] = pt[task_num][pg2]
      BY <1>1, <1>9, ForkPageEffect DEF EInv, AInv, TypeOK
    <3> QED BY <1>9, <3>1, <3>2, ForkPageExact, PassesPage
  <2> QED BY <1>4, <2>1
<1>10. CASE ForkNextVma
  <2> DEFINE l == vmas[current]
             va == IF kop.vma < Len(l) THEN l[kop.vma + 1].vm_start ELSE 0
  <2>1. /\ kop.at = "fork" /\ kop.vma \in Nat /\ kop.vma <= Len(l)
        /\ l \in Seq(Vma) /\ Len(l) \in Nat /\ DOMAIN l = 1..Len(l)
    BY <1>1, <1>10, LenProperties DEF ForkNextVma, At, Kops, TypeOK
  <2>2. /\ kop'.at = "fork" /\ kop'.vma = kop.vma + 1 /\ kop'.va = va
        /\ UNCHANGED <<task_num, current, vmas, pt, refcnt>>
    BY <1>1, <1>10 DEF ForkNextVma, At, Kops
  <2>3. ASSUME kop'.vma \in DOMAIN l
        PROVE  l[kop'.vma].vm_start <= kop'.va /\ PgRoundDown(kop'.va) = kop'.va
    <3>1. kop'.va = l[kop'.vma].vm_start
      BY <2>1, <2>2, <2>3
    <3>2. l[kop'.vma] \in Vma /\ l[kop'.vma].vm_start \in Nat
      BY <2>1, <2>3, AreaBounds
    <3> QED BY <3>1, <3>2 DEF Vma, FileBacked
  <2>4. ASSUME NEW pg \in Pages, Passed(pg) PROVE Passed(pg)'
    BY <2>1, <2>2, <2>4 DEF Passed
  <2> QED BY <1>2, <2>1, <2>2, <2>3, <2>4 DEF ForkPlace, EInv
<1>11. CASE ForkEnd
  <2>1. CASE ~OutOfMemory(refcnt, 1)
    <3>1. refcnt' = Taken(refcnt, LowestFree(refcnt, 1)) /\ pt' = pt /\ kop'.at = "user"
      BY <1>11, <2>1 DEF ForkEnd, User
    <3>2. Exact(pt', refcnt')
      BY <1>1, <3>1, TakeExact
    <3> QED BY <1>3, <3>1, <3>2
  <2> QED BY <1>4, <2>1
<1>12. ASSUME NEW b \in BrkArgs, BrkGrow(b) PROVE Exact(pt', refcnt') /\ ForkPlace'
  BY <1>2, <1>3, <1>12 DEF BrkGrow, At
<1>13. ASSUME NEW b \in BrkArgs, BrkShrink(b) PROVE Exact(pt', refcnt') /\ ForkPlace'
  BY <1>2, <1>3, <1>13 DEF BrkShrink, User
<1>14. CASE UnmapPage
  <2>1. kop'.at = "unmap"
    BY <1>14, UnmapPageEffect DEF EInv, AInv
  <2> QED BY <1>3, <1>14, <2>1, UnmapPageExact
<1>15. CASE UnmapEnd
  BY <1>2, <1>3, <1>15 DEF UnmapEnd, User
<1>16. CASE UNCHANGED vars
  BY <1>2, <1>16 DEF vars, EInv, ForkPlace, Passed
<1> QED
  BY <1>5, <1>6, <1>7, <1>8, <1>9, <1>10, <1>11, <1>12, <1>13, <1>14, <1>15, <1>16
  DEF Next, PoweredOff, BrkUnchanged

\* The reference count of a mapped frame is one more than the entries that name
\* it, at every step of every fault, fork and unmap: ref_page and deref_page
\* miss no entry and count none twice.
THEOREM CountsStayExact == Spec => []RefCountExact
<1>1. EInv => RefCountExact
  <2>1. \A f : Mappers(f) = Naming(pt, f)
    BY DEF Mappers, Naming, Mapped
  <2> QED BY <2>1 DEF EInv, Exact, RefCountExact
<1> QED BY <1>1, InitEInv, NextEInv, PTL DEF Spec

-----------------------------------------------------------------------------
(* Segments and pages                                                      *)

ReadOnlyPages ==
  UNION {SegmentPages(s) : s \in {i \in DOMAIN Segments : "W" \notin Segments[i].vm_flags}}

\* A page address and its page.
LEMMA PageAddress ==
  ASSUME NEW pg \in Nat
  PROVE  pg * PGSIZE \in Nat /\ PageOf(pg * PGSIZE) = pg
         /\ PgRoundDown(pg * PGSIZE) = pg * PGSIZE
BY Layout DEF PgRoundDown, PageOf

\* Pages between page addresses.
LEMMA PageBetween ==
  ASSUME NEW a \in Nat, PgRoundDown(a) = a, NEW pg \in Nat
  PROVE  /\ a < pg * PGSIZE + PGSIZE <=> a <= pg * PGSIZE
         /\ PageOf(a) <= pg <=> a <= pg * PGSIZE
<1>1. PICK q \in Nat : a = q * PGSIZE /\ q = PageOf(a)
  BY Layout, Quotient DEF PgRoundDown, PageOf
<1>2. a < pg * PGSIZE + PGSIZE => a <= pg * PGSIZE
  BY <1>1, Layout, MultiplesOrdered
<1>3. a <= pg * PGSIZE => a < pg * PGSIZE + PGSIZE
  BY Layout
<1>4. q <= pg => q * PGSIZE <= pg * PGSIZE
  <2>1. \A k \in Nat : (q + k) * PGSIZE = q * PGSIZE + k * PGSIZE /\ k * PGSIZE >= 0
    BY Layout
  <2>2. q <= pg => pg - q \in Nat /\ pg = q + (pg - q)
    OBVIOUS
  <2> QED BY <2>1, <2>2, Layout
<1>5. q > pg => q * PGSIZE >= pg * PGSIZE + PGSIZE
  <2>1. \A k \in Nat : (pg + 1 + k) * PGSIZE = pg * PGSIZE + PGSIZE + k * PGSIZE
                       /\ k * PGSIZE >= 0
    BY Layout
  <2>2. q > pg => q - pg - 1 \in Nat /\ q = pg + 1 + (q - pg - 1)
    OBVIOUS
  <2> QED BY <2>1, <2>2, Layout
<1> QED BY <1>1, <1>2, <1>3, <1>4, <1>5, Layout

\* Segments are areas, and their pages those that start inside.
LEMMA SegmentFacts ==
  ASSUME NEW s \in DOMAIN Segments
  PROVE  /\ Segments[s] \in Vma /\ s \in Nat
         /\ Segments[s].vm_start \in Nat /\ Segments[s].vm_end \in Nat
         /\ Segments[s].vm_end < START_BRK
         /\ \A pg \in Pages : pg \in SegmentPages(s) <=>
              Segments[s].vm_start <= pg * PGSIZE /\ pg * PGSIZE < Segments[s].vm_end
<1>1. /\ Segments[s] \in Vma /\ s \in Nat
      /\ Segments[s].vm_start \in Nat /\ Segments[s].vm_end \in Nat
  BY AreaBounds, SegmentAssumption
<1>2. PgRoundDown(Segments[s].vm_start) = Segments[s].vm_start
  BY <1>1 DEF Vma, FileBacked
<1>3. ASSUME NEW pg \in Pages
      PROVE  pg \in SegmentPages(s) <=>
              Segments[s].vm_start <= pg * PGSIZE /\ pg * PGSIZE < Segments[s].vm_end
  <2>1. pg \in Nat /\ pg * PGSIZE \in Nat
    BY PageFacts, Layout
  <2> QED BY <1>1, <1>2, <2>1, PageBetween, Layout DEF SegmentPages, PagesOf
<1> QED BY <1>1, <1>3, SegmentAssumption

\* A page of an address in a segment, or at its end, is in no other segment.
LEMMA OneSegment ==
  ASSUME NEW s \in DOMAIN Segments, NEW pg \in Pages,
         Segments[s].vm_start <= pg * PGSIZE, pg * PGSIZE <= Segments[s].vm_end,
         NEW t \in DOMAIN Segments, pg \in SegmentPages(t)
  PROVE  t = s
<1>1. pg * PGSIZE \in Nat
  BY PageFacts, Layout
<1>2. /\ s \in Nat /\ Segments[s].vm_start \in Nat /\ Segments[s].vm_end \in Nat
      /\ t \in Nat /\ Segments[t].vm_start \in Nat /\ Segments[t].vm_end \in Nat
      /\ Segments[t].vm_start <= pg * PGSIZE /\ pg * PGSIZE < Segments[t].vm_end
  BY SegmentFacts
<1>3. ~(s < t)
  BY <1>1, <1>2, SegmentAssumption
<1>4. ~(t < s)
  BY <1>1, <1>2, SegmentAssumption
<1> QED BY <1>2, <1>3, <1>4

\* From the heap on there are no segments.
LEMMA NoSegment ==
  ASSUME NEW pg \in Pages, START_BRK <= pg * PGSIZE
  PROVE  /\ \A s \in DOMAIN Segments : pg \notin SegmentPages(s)
         /\ Fresh[pg] = Zero /\ pg \notin ReadOnlyPages
<1>1. pg * PGSIZE \in Nat
  BY PageFacts, Layout
<1>2. ASSUME NEW s \in DOMAIN Segments PROVE pg \notin SegmentPages(s)
  BY <1>1, SegmentFacts, Layout
<1> QED BY <1>2 DEF Fresh, ReadOnlyPages

\* What demand paging gives in a page of a segment.
LEMMA SegmentFresh ==
  ASSUME NEW s \in DOMAIN Segments, NEW pg \in Pages,
         Segments[s].vm_start <= pg * PGSIZE, pg * PGSIZE <= Segments[s].vm_end,
         NEW f
  PROVE  /\ FreshPage(Segments[s], pg, f) = Fresh[pg]
         /\ "W" \in Segments[s].vm_flags => pg \notin ReadOnlyPages
<1> DEFINE v == Segments[s]
           off == pg * PGSIZE - v.vm_start
<1>1. /\ pg * PGSIZE \in Nat /\ v.vm_start \in Nat /\ v.vm_end \in Nat
      /\ v.vm_filesz \in Nat /\ v.vm_filesz <= v.vm_end - v.vm_start
  BY PageFacts, Layout, SegmentFacts, SegmentAssumption DEF Vma
<1>2. \A t \in DOMAIN Segments : pg \in SegmentPages(t) => t = s
  BY OneSegment
<1>3. "ANON" \notin v.vm_flags
  BY FileAssumption
<1>4. FreshPage(v, pg, f) = IF off >= v.vm_filesz THEN Zero ELSE Image[PageOf(v.vm_pgoff + off)]
  BY <1>3 DEF FreshPage
<1>5. CASE pg \in SegmentPages(s)
  <2>1. (CHOOSE t \in DOMAIN Segments : pg \in SegmentPages(t)) = s
    BY <1>2, <1>5
  <2>2. Fresh[pg] = IF off < v.vm_filesz THEN Image[PageOf(v.vm_pgoff + off)] ELSE Zero
    BY <1>5, <2>1 DEF Fresh
  <2>3. off < v.vm_filesz <=> ~(off >= v.vm_filesz)
    BY <1>1
  <2>4. "W" \in v.vm_flags => pg \notin ReadOnlyPages
    BY <1>2 DEF ReadOnlyPages
  <2> QED BY <1>4, <2>2, <2>3, <2>4
<1>6. CASE pg \notin SegmentPages(s)
  <2>1. pg * PGSIZE = v.vm_end
    BY <1>1, <1>6, SegmentFacts
  <2>2. off >= v.vm_filesz
    BY <1>1, <2>1
  <2>3. \A t \in DOMAIN Segments : pg \notin SegmentPages(t)
    BY <1>2, <1>6
  <2>4. Fresh[pg] = Zero /\ pg \notin ReadOnlyPages
    BY <2>3 DEF Fresh, ReadOnlyPages
  <2> QED BY <1>4, <2>2, <2>4
<1> QED BY <1>5, <1>6

-----------------------------------------------------------------------------
(* Which areas there are                                                   *)

SegmentArea(v) == \E s \in DOMAIN Segments : v = Segments[s]
HeapArea(v) == v.vm_start = START_BRK /\ v.vm_flags = {"R", "W", "ANON"}

\* The segments, the stack, and what the heap has become.
Kinds(l) ==
  /\ \A i \in DOMAIN l : SegmentArea(l[i]) \/ l[i] = StackVma \/ HeapArea(l[i])
  /\ \A s \in DOMAIN Segments : \E i \in DOMAIN l : l[i] = Segments[s]
  /\ \E i \in DOMAIN l : l[i] = StackVma

AreaKinds == \A p \in 1..task_num : Kinds(vmas[p])

\* The page of an address in an area: what demand paging gives there, and
\* whether it may be written.
LEMMA CoveredPage ==
  ASSUME NEW l \in Seq(Vma), Kinds(l), NEW i \in DOMAIN l,
         NEW a \in Addr, Covers(l[i], a), NEW f, content[f] = Zero
  PROVE  /\ FreshPage(l[i], PageOf(a), f) = Fresh[PageOf(a)]
         /\ "W" \in l[i].vm_flags => PageOf(a) \notin ReadOnlyPages
<1> DEFINE v == l[i]
           pg == PageOf(a)
<1>1. /\ v \in Vma /\ v.vm_start \in Nat /\ v.vm_end \in Nat
      /\ a \in Nat /\ pg \in Pages /\ pg \in Nat /\ pg * PGSIZE \in Nat
      /\ pg * PGSIZE <= a /\ a < pg * PGSIZE + PGSIZE
  <2>1. v \in Vma /\ v.vm_start \in Nat /\ v.vm_end \in Nat /\ a \in Nat /\ pg \in Pages
    BY AreaBounds, PageFacts
  <2>2. pg \in Nat /\ pg * PGSIZE <= a /\ a < pg * PGSIZE + PGSIZE
    <3>1. PGSIZE \in Nat \ {0}
      BY Layout
    <3>2. /\ a \div PGSIZE \in Nat
          /\ (a \div PGSIZE) * PGSIZE <= a
          /\ a < (a \div PGSIZE) * PGSIZE + PGSIZE
      BY <2>1, <3>1, Quotient
    <3> QED BY <3>2 DEF PageOf
  <2> QED BY <2>1, <2>2, PageAddress
<1>2. PgRoundDown(v.vm_start) = v.vm_start /\ v.vm_start <= a /\ a <= v.vm_end
  BY <1>1 DEF Vma, FileBacked, Covers
<1>3. v.vm_start <= pg * PGSIZE /\ pg * PGSIZE <= v.vm_end
  <2>1. v.vm_start < pg * PGSIZE + PGSIZE
    <3>1. PGSIZE \in Nat
      BY Layout
    <3> HIDE DEF pg, v
    <3> QED BY <1>1, <1>2, <3>1
  <2> QED BY <1>1, <1>2, <2>1, PageBetween
<1> HIDE DEF pg
<1>4. CASE SegmentArea(v)
  BY <1>1, <1>3, <1>4, SegmentFresh DEF SegmentArea, pg
<1>5. CASE ~SegmentArea(v)
  <2>1. v = StackVma \/ HeapArea(v)
    BY <1>5 DEF Kinds
  <2>2. START_BRK <= v.vm_start /\ "ANON" \in v.vm_flags
    BY <2>1, Layout DEF StackVma, HeapArea
  <2>3. START_BRK <= pg * PGSIZE
    BY <1>1, <1>3, <2>2, Layout
  <2>4. Fresh[pg] = Zero /\ pg \notin ReadOnlyPages
    BY <1>1, <2>3, NoSegment
  <2> QED BY <2>2, <2>4 DEF FreshPage, pg
<1> QED BY <1>4, <1>5

\* The reverse of a list has the same areas.
LEMMA ReverseKinds ==
  ASSUME NEW l \in Seq(Vma), Kinds(l) PROVE Kinds(Reverse(l))
<1> DEFINE r == Reverse(l)
           n == Len(l)
<1>1. n \in Nat /\ DOMAIN l = 1..n /\ DOMAIN r = 1..n
  BY LenProperties DEF Reverse
<1>2. \A i \in 1..n : r[i] = l[n + 1 - i] /\ n + 1 - i \in 1..n
  BY <1>1 DEF Reverse
<1>3. \A i \in 1..n : r[n + 1 - i] = l[i] /\ n + 1 - i \in 1..n
  <2> SUFFICES ASSUME NEW i \in 1..n PROVE r[n + 1 - i] = l[i] /\ n + 1 - i \in 1..n
    OBVIOUS
  <2>1. n + 1 - i \in 1..n /\ n + 1 - (n + 1 - i) = i
    BY <1>1
  <2> QED BY <1>2, <2>1
<1> HIDE DEF r
<1> QED BY <1>1, <1>2, <1>3 DEF Kinds, r

\* A new end for the heap.
LEMMA NewEndKinds ==
  ASSUME NEW l \in Seq(Vma), NEW b \in Breaks, GoodAreas(l, b), Kinds(l),
         NEW i \in FindVma(l, PgRoundUp(b)), NEW e \in Nat
  PROVE  Kinds(SetEnd(l, i, e))
<1> DEFINE m == SetEnd(l, i, e)
<1>1. PICK h \in DOMAIN l : HeapAt(l, h, b)
  BY DEF GoodAreas
<1>2. i = h
  BY <1>1, FindsHeap
<1>3. l[h] \in Vma /\ l[h].vm_start = START_BRK
  BY <1>1, AreaBounds DEF HeapAt
<1>4. /\ DOMAIN m = DOMAIN l
      /\ \A j \in DOMAIN l \ {h} : m[j] = l[j]
      /\ m[h] = [l[h] EXCEPT !.vm_end = e]
  BY <1>1, <1>2, AreaBounds DEF SetEnd
<1>5. ~SegmentArea(l[h]) /\ l[h] # StackVma
  <2>1. \A s \in DOMAIN Segments : Segments[s].vm_start # START_BRK
    <3> SUFFICES ASSUME NEW s \in DOMAIN Segments PROVE Segments[s].vm_start # START_BRK
      OBVIOUS
    <3>1. Segments[s].vm_start < Segments[s].vm_end /\ Segments[s].vm_end < START_BRK
      BY SegmentAssumption
    <3> QED BY <3>1, SegmentFacts, Layout
  <2>2. StackVma.vm_start # START_BRK
    BY Layout DEF StackVma
  <2> QED BY <1>3, <2>1, <2>2 DEF SegmentArea
<1>6. HeapArea(m[h])
  BY <1>1, <1>3, <1>4, <1>5 DEF Kinds, HeapArea, Vma
<1> HIDE DEF m
<1> QED BY <1>1, <1>4, <1>5, <1>6 DEF Kinds, SegmentArea, m

\* The areas load_program and task_init build.
LEMMA InitialKinds == Kinds(InitialVmas)
<1> DEFINE n == Len(Segments)
           l == InitialVmas
<1>1. n \in Nat /\ DOMAIN Segments = 1..n
  BY SegmentBounds
<1>2. /\ DOMAIN l = 1..(n + 2) /\ l[1] = HeapVma /\ l[2] = StackVma
      /\ \A j \in 3..(n + 2) : l[j] = Segments[n + 3 - j]
  <2>1. \A j \in 3..(n + 2) : \E k \in 1..n : j = k + 2 /\ n + 1 - k = n + 3 - j
    <3> SUFFICES ASSUME NEW j \in 3..(n + 2)
                 PROVE  \E k \in 1..n : j = k + 2 /\ n + 1 - k = n + 3 - j
      OBVIOUS
    <3>1. j - 2 \in 1..n
      BY <1>1
    <3> QED BY <1>1, <3>1
  <2> QED BY <2>1, InitialList
<1> HIDE DEF l
<1>3. ASSUME NEW j \in 1..(n + 2)
      PROVE  SegmentArea(l[j]) \/ l[j] = StackVma \/ HeapArea(l[j])
  <2>1. CASE j \in 3..(n + 2)
    <3>1. n + 3 - j \in 1..n
      BY <1>1, <2>1
    <3> QED BY <1>1, <1>2, <2>1, <3>1 DEF SegmentArea
  <2>2. CASE j = 1
    BY <1>2, <2>2 DEF HeapArea, HeapVma
  <2>3. CASE j = 2
    BY <1>2, <2>3
  <2> QED BY <1>1, <2>1, <2>2, <2>3
<1>4. ASSUME NEW s \in DOMAIN Segments PROVE \E i \in DOMAIN l : l[i] = Segments[s]
  <2>1. n + 3 - s \in 3..(n + 2) /\ n + 3 - (n + 3 - s) = s /\ n + 3 - s \in 1..(n + 2)
    BY <1>1
  <2> QED BY <1>2, <2>1
<1>5. 2 \in DOMAIN l
  BY <1>1, <1>2
<1> QED BY <1>2, <1>3, <1>4, <1>5 DEF Kinds, l

-----------------------------------------------------------------------------
(* The invariant                                                           *)

\* No entry allows a store to a page of a segment that is not writable.
NoTextWritable ==
  \A p \in Tasks, pg \in Pages :
    {"V", "W"} \subseteq pt[p][pg].flags => pg \notin ReadOnlyPages

\* The child of a fork under way maps what its parent maps of the pages passed.
ForkCopied ==
  kop.at = "fork" =>
    \A pg \in Pages :
      /\ "V" \in pt[task_num][pg].flags => "V" \in pt[current][pg].flags
      /\ Passed(pg) /\ "V" \in pt[current][pg].flags
           => "V" \in pt[task_num][pg].flags

\* unmap_page goes from the new break to the old one page by page.
UnmapPlace ==
  kop.at = "unmap" =>
    /\ PgRoundUp(kop.brk) <= kop.va /\ PgRoundDown(kop.va) = kop.va
    /\ kop.end = PgRoundUp(brk[current])

PInv == EInv /\ AreaKinds /\ NoTextWritable /\ ForkCopied /\ UnmapPlace

\* Types of the invariant.
LEMMA PrivateTypes ==
  ASSUME PInv
  PROVE  /\ TypeOK /\ FInv /\ IInv /\ EInv
         /\ pt \in PageTables /\ refcnt \in Counts /\ content \in [Frames -> Data]
         /\ vmas \in [Tasks -> Seq(Vma)] /\ brk \in [Tasks -> Breaks]
         /\ kop \in Kops /\ current \in Tasks /\ task_num \in Tasks
         /\ current \in 1..task_num /\ 1..task_num \subseteq Tasks
         /\ (kop.at = "fork" => current # task_num)
<1>1. EInv /\ FInv /\ IInv /\ TypeOK
  BY DEF PInv, EInv, AInv, FInv, IInv
<1>2. /\ pt \in PageTables /\ refcnt \in Counts /\ content \in [Frames -> Data]
      /\ vmas \in [Tasks -> Seq(Vma)] /\ brk \in [Tasks -> Breaks]
      /\ kop \in Kops /\ current \in Tasks /\ task_num \in Tasks
  BY <1>1 DEF TypeOK, PageTables, Counts
<1>3. current \in 1..task_num /\ (kop.at = "fork" => current # task_num)
  BY <1>1, <1>2 DEF IInv, CurrentRuns, Tasks
<1> QED BY <1>1, <1>2, <1>3, SizeAssumption DEF Tasks

\* What a program finds when it starts.
LEMMA InitPInv == Init => PInv
<1> SUFFICES ASSUME Init PROVE PInv
  OBVIOUS
<1>1. task_num = 1 /\ kop.at = "user"
  BY DEF Init, User
<1>2. AreaKinds
  <2> SUFFICES ASSUME NEW p \in 1..task_num PROVE Kinds(vmas[p])
    BY DEF AreaKinds
  <2>1. p = 1 /\ p \in Tasks
    BY <1>1, SizeAssumption DEF Tasks
  <2> QED BY <2>1, InitialKinds DEF Init
<1>3. NoTextWritable
  BY DEF Init, NoPtes, NoPte, NoTextWritable
<1> QED BY <1>1, <1>2, <1>3, InitEInv DEF PInv, ForkCopied, UnmapPlace

\* The list of areas changes with a fork, which copies it, and with the end of
\* the heap.
LEMMA KindsKept == PInv /\ [Next]_vars => AreaKinds'
<1> SUFFICES ASSUME PInv, [Next]_vars PROVE AreaKinds'
  OBVIOUS
<1>1. /\ current \in 1..task_num /\ 1..task_num \subseteq Tasks
      /\ vmas \in [Tasks -> Seq(Vma)] /\ brk \in [Tasks -> Breaks]
      /\ \A p \in 1..task_num : Kinds(vmas[p])
  BY PrivateTypes DEF PInv, AreaKinds
<1>2. CASE UNCHANGED <<task_num, vmas>>
  BY <1>1, <1>2 DEF AreaKinds
<1>3. CASE ForkBegin /\ ~OutOfMemory(refcnt, 5 + Len(vmas[current]))
  <2> DEFINE c == task_num + 1
  <2>1. /\ task_num' = c /\ vmas' = [vmas EXCEPT ![c] = Reverse(vmas[current])]
        /\ task_num < MaxTasks
    BY <1>3 DEF ForkBegin
  <2>2. c \in Tasks /\ 1..c = 1..task_num \cup {c} /\ c \notin 1..task_num
    BY <2>1, PrivateTypes, SizeAssumption DEF Tasks
  <2>3. Kinds(Reverse(vmas[current]))
    BY <1>1, ReverseKinds
  <2>4. \A p \in 1..task_num : vmas'[p] = vmas[p]
    BY <1>1, <2>1, <2>2
  <2>5. vmas'[c] = Reverse(vmas[current])
    BY <1>1, <2>1, <2>2
  <2> HIDE DEF c
  <2> QED BY <1>1, <2>1, <2>2, <2>3, <2>4, <2>5 DEF AreaKinds
<1>4. ASSUME kop.at = "user", task_num' = task_num, NEW e \in Nat,
             NEW i \in FindVma(vmas[current], OldBrk),
             vmas' = [vmas EXCEPT ![current] = SetEnd(@, i, e)]
      PROVE  AreaKinds'
  <2>1. GoodAreas(vmas[current], brk[current])
    BY <1>1, <1>4 DEF PInv, EInv, AInv, AreasGood, BrkOf
  <2>2. Kinds(SetEnd(vmas[current], i, e))
    BY <1>1, <1>4, <2>1, NewEndKinds DEF OldBrk
  <2>3. \A p \in 1..task_num : vmas'[p] = IF p = current THEN SetEnd(vmas[current], i, e)
                                                         ELSE vmas[p]
    BY <1>1, <1>4
  <2> QED BY <1>1, <1>4, <2>2, <2>3 DEF AreaKinds
<1>5. ASSUME NEW b \in BrkArgs, BrkGrow(b) \/ BrkShrink(b) PROVE AreaKinds'
  <2>1. PgRoundUp(b) \in Nat /\ OldBrk \in Nat
    BY <1>1, BreakFacts, Layout DEF Breaks, OldBrk
  <2> QED BY <1>4, <1>5, <2>1 DEF BrkGrow, BrkShrink, At
<1>6. ASSUME NEW rc, NEW n, OutOfMemory(rc, n) PROVE AreaKinds'
  BY <1>2, <1>6 DEF OutOfMemory
<1>7. ASSUME NEW kind, NEW a \in UserAddr, PageFault(kind, a) PROVE AreaKinds'
  BY <1>2, <1>7, FaultEffect, PrivateTypes
<1>8. CASE ForkPage
  BY <1>2, <1>8, ForkPageEffect, PrivateTypes
<1>9. CASE UnmapPage
  BY <1>2, <1>9, UnmapPageEffect, PrivateTypes
<1>10. CASE ForkBegin /\ OutOfMemory(refcnt, 5 + Len(vmas[current]))
  BY <1>6, <1>10
<1>11. CASE ForkNextVma \/ ForkEnd \/ UnmapEnd \/ UNCHANGED vars
  BY <1>2, <1>6, <1>11 DEF ForkNextVma, ForkEnd, UnmapEnd, vars
<1>12. ASSUME NEW a \in UserAddr, NEW d \in WriteData, Store(PageOf(a), d)
       PROVE  AreaKinds'
  BY <1>2, <1>12 DEF Store
<1>13. ASSUME NEW p \in Tasks, Switch(p) PROVE AreaKinds'
  BY <1>2, <1>13 DEF Switch
<1> QED
  BY <1>3, <1>5, <1>7, <1>8, <1>9, <1>10, <1>11, <1>12, <1>13
  DEF Next, PoweredOff, BrkUnchanged

\* A fault that changes anything gives the page a free frame, which reads as
\* the page did before, and the right to write only where the program has it.
LEMMA FaultReads ==
  ASSUME PInv, NEW kind, NEW a \in UserAddr, PageFault(kind, a)
  PROVE  LET pg == PageOf(a) IN
         /\ pg \in Pages
         /\ \/ UNCHANGED <<pt, content>>
            \/ \E v \in Vma, new \in Free(refcnt) :
                 /\ pt' = [pt EXCEPT ![current][pg] = Leaf(new, PermOf(v))]
                 /\ "W" \in v.vm_flags => pg \notin ReadOnlyPages
                 /\ content'[new] = View(current, pg)
                 /\ \A f \in Frames : refcnt[f] > 0 => content'[f] = content[f]
<1> DEFINE pg == PageOf(a)
           old == pt[current][pg]
<1>1. /\ pg \in Pages /\ a \in Addr /\ FInv /\ current \in Tasks
      /\ vmas[current] \in Seq(Vma) /\ Kinds(vmas[current])
      /\ pt \in PageTables /\ refcnt \in Counts /\ content \in [Frames -> Data]
  BY PrivateTypes, FaultEffect, LayoutAssumption DEF PInv, AreaKinds
<1>2. ASSUME NEW new \in Free(refcnt)
      PROVE  new \in Frames /\ refcnt[new] = 0 /\ content[new] = Zero
  BY <1>1 DEF Free, FInv, FreeFramesZeroed
<1>3. ASSUME NEW v, NEW i \in FindVma(vmas[current], a), v = vmas[current][i],
             NEW new \in Free(refcnt)
      PROVE  /\ FreshPage(v, pg, new) = Fresh[pg]
             /\ "W" \in v.vm_flags => pg \notin ReadOnlyPages
  <2>1. i \in DOMAIN vmas[current] /\ Covers(vmas[current][i], a)
    BY <1>1, FindVmaType
  <2> QED BY <1>1, <1>2, <1>3, <2>1, CoveredPage
<1>4. ASSUME NEW v \in Vma, NEW new \in Free(refcnt),
             \E i \in FindVma(vmas[current], a) : v = vmas[current][i],
             {"V", "S"} \subseteq old.flags,
             content' = [content EXCEPT ![new] = content[old.ppn]]
      PROVE  /\ "W" \in v.vm_flags => pg \notin ReadOnlyPages
             /\ content'[new] = View(current, pg)
             /\ \A f \in Frames : refcnt[f] > 0 => content'[f] = content[f]
  <2>1. content'[new] = content[old.ppn]
    BY <1>1, <1>2, <1>4
  <2>2. View(current, pg) = content[old.ppn]
    BY <1>4 DEF View, Mapped
  <2>3. \A f \in Frames : refcnt[f] > 0 => content'[f] = content[f]
    BY <1>1, <1>2, <1>4
  <2>4. "W" \in v.vm_flags => pg \notin ReadOnlyPages
    BY <1>3, <1>4
  <2> QED BY <2>1, <2>2, <2>3, <2>4
<1>5. ASSUME NEW v \in Vma, NEW new \in Free(refcnt),
             \E i \in FindVma(vmas[current], a) : v = vmas[current][i],
             "V" \notin old.flags, NEW F \in SUBSET Free(refcnt),
             content'[new] = FreshPage(v, pg, new),
             \A f \in Frames \ F : content'[f] = content[f]
      PROVE  /\ "W" \in v.vm_flags => pg \notin ReadOnlyPages
             /\ content'[new] = View(current, pg)
             /\ \A f \in Frames : refcnt[f] > 0 => content'[f] = content[f]
  <2>1. FreshPage(v, pg, new) = Fresh[pg] /\ ("W" \in v.vm_flags => pg \notin ReadOnlyPages)
    BY <1>3, <1>5
  <2>2. View(current, pg) = Fresh[pg]
    BY <1>5 DEF View, Mapped
  <2>3. \A f \in Frames : refcnt[f] > 0 => f \notin F
    BY <1>1, <1>2 DEF Free
  <2> QED BY <1>5, <2>1, <2>2, <2>3
<1>6. \/ UNCHANGED <<pt, refcnt, content, tlb>>
      \/ \E v \in Vma, new \in Free(refcnt) :
           /\ \E i \in FindVma(vmas[current], a) : v = vmas[current][i]
           /\ pt' = [pt EXCEPT ![current][pg] = Leaf(new, PermOf(v))]
           /\ \/ /\ {"V", "S"} \subseteq old.flags
                 /\ content' = [content EXCEPT ![new] = content[old.ppn]]
                 /\ refcnt' = Ref(Taken(Deref(refcnt, old.ppn), {new}), new)
                 /\ tlb' = [tlb EXCEPT ![pg] = old]
              \/ \E F \in SUBSET Free(refcnt) :
                   /\ "V" \notin old.flags /\ new \in F
                   /\ content'[new] = FreshPage(v, pg, new)
                   /\ \A f \in Frames \ F : content'[f] = content[f]
                   /\ refcnt' = Ref(Taken(refcnt, F), new)
                   /\ UNCHANGED tlb
  BY <1>1, FaultEffect
<1> HIDE DEF pg, old
<1> QED BY <1>1, <1>4, <1>5, <1>6 DEF pg

\* A step that changes one entry of a task, which then may be written only where
\* the program may write, or not at all.
LEMMA OneEntryText ==
  ASSUME PInv, NEW pg \in Pages, NEW e,
         pt' = [pt EXCEPT ![current][pg] = e],
         "W" \in e.flags => pg \notin ReadOnlyPages
  PROVE  NoTextWritable'
<1>1. \A p \in Tasks, pg2 \in Pages :
        pt'[p][pg2] = IF p = current /\ pg2 = pg THEN e ELSE pt[p][pg2]
  BY PrivateTypes DEF PageTables
<1> QED BY <1>1 DEF NoTextWritable, PInv

\* A page gets the right to be written only from an area with that right.
LEMMA TextKept == PInv /\ [Next]_vars => NoTextWritable'
<1> SUFFICES ASSUME PInv, [Next]_vars PROVE NoTextWritable'
  OBVIOUS
<1>1. FInv /\ current \in Tasks /\ task_num \in Tasks /\ pt \in PageTables
  BY PrivateTypes
<1>2. CASE UNCHANGED pt
  BY <1>2 DEF NoTextWritable, PInv
<1>3. ASSUME NEW rc, NEW n, OutOfMemory(rc, n) PROVE NoTextWritable'
  BY <1>2, <1>3 DEF OutOfMemory
<1>4. ASSUME NEW kind, NEW a \in UserAddr, PageFault(kind, a) PROVE NoTextWritable'
  <2>1. ASSUME NEW v \in Vma, NEW new,
               "W" \in v.vm_flags => PageOf(a) \notin ReadOnlyPages
        PROVE  "W" \in Leaf(new, PermOf(v)).flags => PageOf(a) \notin ReadOnlyPages
    BY <2>1 DEF Leaf, PermOf
  <2> QED BY <1>2, <1>4, <2>1, FaultReads, OneEntryText
<1>5. CASE ForkPage
  <2> DEFINE pg == PageOf(kop.va)
             pte == pt[current][pg]
             e == Leaf(pte.ppn, SharedPerm(pte.flags))
  <2>1. pg \in Pages /\ (UNCHANGED pt \/ pt' = [pt EXCEPT ![current][pg] = e, ![task_num][pg] = e])
    BY <1>1, <1>5, ForkPageEffect
  <2>2. "W" \notin e.flags
    BY DEF Leaf, SharedPerm
  <2> HIDE DEF pg, e
  <2>3. ASSUME pt' = [pt EXCEPT ![current][pg] = e, ![task_num][pg] = e]
        PROVE  \A p \in Tasks, pg2 \in Pages : pt'[p][pg2] = e \/ pt'[p][pg2] = pt[p][pg2]
    BY <1>1, <2>1, <2>3 DEF PageTables
  <2> QED BY <1>2, <2>1, <2>2, <2>3 DEF NoTextWritable, PInv
<1>6. CASE UnmapPage
  <2>1. PageOf(kop.va) \in Pages
        /\ (UNCHANGED pt \/ pt' = [pt EXCEPT ![current][PageOf(kop.va)] = NoPte])
    BY <1>1, <1>6, UnmapPageEffect
  <2>2. "W" \notin NoPte.flags
    BY DEF NoPte
  <2> QED BY <1>2, <2>1, <2>2, OneEntryText
<1>7. CASE ForkBegin \/ ForkNextVma \/ ForkEnd \/ UnmapEnd \/ UNCHANGED vars
  BY <1>2, <1>3, <1>7 DEF ForkBegin, ForkNextVma, ForkEnd, UnmapEnd, vars
<1>8. ASSUME NEW a \in UserAddr, NEW d \in WriteData, Store(PageOf(a), d)
      PROVE  NoTextWritable'
  BY <1>2, <1>8 DEF Store
<1>9. ASSUME NEW p \in Tasks, Switch(p) PROVE NoTextWritable'
  BY <1>2, <1>9 DEF Switch
<1>10. ASSUME NEW b \in BrkArgs, BrkGrow(b) \/ BrkShrink(b) PROVE NoTextWritable'
  BY <1>2, <1>10 DEF BrkGrow, BrkShrink
<1> QED
  BY <1>4, <1>5, <1>6, <1>7, <1>8, <1>9, <1>10 DEF Next, PoweredOff, BrkUnchanged

\* One step of do_fork passes the page it is at and no other.
LEMMA PassedNext ==
  ASSUME PInv, ForkPage, UNCHANGED <<current, vmas>>,
         kop' = [kop EXCEPT !.va = @ + PGSIZE], NEW pg \in Pages, Passed(pg)'
  PROVE  Passed(pg) \/ pg = PageOf(kop.va)
<1> DEFINE l == vmas[current]
           here == PageOf(kop.va)
<1>1. /\ kop \in Kops /\ kop.va \in Nat /\ kop.vma \in DOMAIN l /\ here \in Pages
      /\ kop.at = "fork" /\ l \in Seq(Vma)
  BY PrivateTypes, ForkPagePage DEF ForkPage, At, Kops
<1>2. PgRoundDown(kop.va) = kop.va /\ here * PGSIZE = kop.va
  BY <1>1, NextPage DEF PInv, EInv, ForkPlace
<1>3. kop'.vma = kop.vma /\ kop'.va = kop.va + PGSIZE
  BY <1>1 DEF Kops
<1>4. pg \in Nat /\ here \in Nat /\ pg * PGSIZE \in Nat /\ PageOf(pg * PGSIZE) = pg
  BY <1>1, PageFacts, PageAddress
<1>5. PICK j \in DOMAIN l :
        /\ j <= kop.vma
        /\ l[j].vm_start <= pg * PGSIZE /\ pg * PGSIZE < l[j].vm_end
        /\ j = kop.vma => pg * PGSIZE < kop.va + PGSIZE
  BY <1>3 DEF Passed
<1>6. CASE j # kop.vma
  BY <1>5, <1>6 DEF Passed
<1>7. CASE j = kop.vma
  <2>1. pg * PGSIZE <= here * PGSIZE
    BY <1>2, <1>4, <1>5, <1>7, Layout, MultiplesOrdered
  <2>2. pg * PGSIZE < kop.va \/ pg * PGSIZE = kop.va
    BY <1>1, <1>2, <1>4, <2>1
  <2>3. CASE pg * PGSIZE < kop.va
    BY <1>5, <2>3 DEF Passed
  <2>4. CASE pg * PGSIZE = kop.va
    BY <1>4, <2>4
  <2> QED BY <2>2, <2>3, <2>4
<1> QED BY <1>6, <1>7

\* do_fork gives the child every page it passes that the parent maps.
LEMMA CopiedKept == PInv /\ [Next]_vars => ForkCopied'
<1> SUFFICES ASSUME PInv, [Next]_vars, kop'.at = "fork" PROVE ForkCopied'
  BY DEF ForkCopied
<1>1. /\ FInv /\ kop \in Kops /\ current \in Tasks /\ task_num \in Tasks
      /\ pt \in PageTables /\ vmas \in [Tasks -> Seq(Vma)]
      /\ (kop.at = "fork" => current # task_num)
  BY PrivateTypes
<1>2. ASSUME UNCHANGED <<task_num, current, vmas, pt>>, kop.at = "fork",
             kop'.vma = kop.vma, kop'.va = kop.va
      PROVE  ForkCopied'
  BY <1>2 DEF PInv, ForkCopied, Passed
<1>3. ASSUME NEW rc, NEW n, OutOfMemory(rc, n) PROVE ForkCopied'
  BY <1>1, <1>2, <1>3 DEF OutOfMemory, Kops
<1>4. CASE ForkBegin
  <2> DEFINE n == 5 + Len(vmas[current])
  <2>1. CASE ~OutOfMemory(refcnt, n)
    <3>1. /\ task_num' = task_num + 1 /\ task_num < MaxTasks
          /\ UNCHANGED <<current, pt>> /\ kop'.vma = 0
          /\ vmas' = [vmas EXCEPT ![task_num + 1] = Reverse(vmas[current])]
      BY <1>4, <2>1 DEF ForkBegin, User
    <3>2. task_num' \in Tasks /\ task_num' > task_num /\ current # task_num'
      BY <1>1, <3>1, SizeAssumption DEF Tasks, FInv, IInv, CurrentRuns
    <3>3. \A pg \in Pages : "V" \notin pt'[task_num'][pg].flags
      BY <1>1, <3>1, <3>2 DEF FInv, IInv, UnbornMapNothing
    <3>4. vmas'[current'] \in Seq(Vma)
      BY <1>1, <3>1, <3>2
    <3>5. \A j \in DOMAIN vmas'[current'] : j \in Nat /\ j > 0
      BY <3>4, LenProperties
    <3>6. \A pg : ~Passed(pg)'
      BY <3>1, <3>5 DEF Passed
    <3> QED BY <3>3, <3>6 DEF ForkCopied
  <2> QED BY <1>3, <1>4, <2>1
<1>5. CASE ForkPage
  <2> DEFINE pg == PageOf(kop.va)
             pte == pt[current][pg]
             e == Leaf(pte.ppn, SharedPerm(pte.flags))
             n == Cardinality(NewTables(task_num, pg))
  <2>1. CASE ~OutOfMemory(refcnt, n)
    <3>1. /\ UNCHANGED <<task_num, current, vmas>> /\ kop.at = "fork"
          /\ kop' = [kop EXCEPT !.va = @ + PGSIZE]
      BY <1>5, <2>1 DEF ForkPage, At
    <3>2. \/ "V" \notin pte.flags /\ pt' = pt
          \/ pt' = [pt EXCEPT ![current][pg] = e, ![task_num][pg] = e]
      BY <1>5, <2>1 DEF ForkPage, Mapped
    <3>3. pg \in Pages /\ "V" \in e.flags
      BY <1>5, PrivateTypes, ForkPagePage DEF Leaf
    <3> HIDE DEF e, pte, pg
    <3>4. CASE "V" \notin pte.flags /\ pt' = pt
      <4>1. ASSUME NEW pg2 \in Pages, Passed(pg2)', "V" \in pt[current][pg2].flags
            PROVE  Passed(pg2)
        BY <1>5, <3>1, <3>4, <4>1, PassedNext DEF pg, pte
      <4> QED BY <3>1, <3>4, <4>1 DEF ForkCopied, PInv
    <3>5. CASE pt' = [pt EXCEPT ![current][pg] = e, ![task_num][pg] = e]
      <4>1. \A pg2 \in Pages : /\ pt'[current][pg2] = IF pg2 = pg THEN e ELSE pt[current][pg2]
                               /\ pt'[task_num][pg2] = IF pg2 = pg THEN e ELSE pt[task_num][pg2]
        BY <1>1, <3>1, <3>3, <3>5 DEF PageTables
      <4>2. ASSUME NEW pg2 \in Pages, Passed(pg2)', pg2 # pg PROVE Passed(pg2)
        BY <1>5, <3>1, <4>2, PassedNext DEF pg
      <4> QED BY <3>1, <3>3, <4>1, <4>2 DEF ForkCopied, PInv
    <3> QED BY <3>2, <3>4, <3>5
  <2> QED BY <1>3, <2>1
<1>6. CASE ForkNextVma
  <2> DEFINE l == vmas[current]
             va == IF kop.vma < Len(l) THEN l[kop.vma + 1].vm_start ELSE 0
  <2>1. /\ kop.at = "fork" /\ kop.vma \in Nat /\ kop.va \in Nat /\ kop.vma <= Len(l)
        /\ kop.vma > 0 => kop.va >= l[kop.vma].vm_end
        /\ l \in Seq(Vma) /\ Len(l) \in Nat /\ DOMAIN l = 1..Len(l)
    BY <1>1, <1>6, LenProperties DEF ForkNextVma, At, Kops
  <2>2. /\ kop'.vma = kop.vma + 1 /\ kop'.va = va
        /\ UNCHANGED <<task_num, current, vmas, pt>>
    BY <1>1, <1>6 DEF ForkNextVma, Kops
  <2>3. ASSUME NEW pg \in Pages, Passed(pg)' PROVE Passed(pg)
    <3>0. pg * PGSIZE \in Nat
      BY PageFacts, PageAddress
    <3>1. PICK j \in DOMAIN l :
            /\ j <= kop.vma + 1
            /\ l[j].vm_start <= pg * PGSIZE /\ pg * PGSIZE < l[j].vm_end
            /\ j = kop.vma + 1 => pg * PGSIZE < va
      BY <2>2, <2>3 DEF Passed
    <3>2. j \in Nat /\ j > 0 /\ l[j].vm_start \in Nat /\ l[j].vm_end \in Nat
      BY <2>1, AreaBounds
    <3>3. j # kop.vma + 1
      BY <2>1, <3>0, <3>1, <3>2
    <3>4. j = kop.vma => pg * PGSIZE < kop.va
      BY <2>1, <3>0, <3>1, <3>2
    <3> QED BY <2>1, <3>1, <3>2, <3>3, <3>4 DEF Passed
  <2> QED BY <2>1, <2>2, <2>3 DEF ForkCopied, PInv
<1>7. CASE ForkEnd
  BY <1>3, <1>7 DEF ForkEnd, User
<1>8. CASE UNCHANGED vars
  BY <1>2, <1>8 DEF vars
<1>9. CASE UnmapPage
  BY <1>1, <1>9, UnmapPageEffect
<1>10. ASSUME NEW kind, NEW a \in UserAddr, PageFault(kind, a) PROVE FALSE
  BY <1>1, <1>10, FaultEffect
<1>11. CASE UnmapEnd
  BY <1>11 DEF UnmapEnd, User
<1>12. ASSUME NEW a \in UserAddr, NEW d \in WriteData, Store(PageOf(a), d) PROVE FALSE
  BY <1>12 DEF Store, At
<1>13. ASSUME NEW p \in Tasks, Switch(p) PROVE FALSE
  BY <1>13 DEF Switch, At
<1>14. ASSUME NEW b \in BrkArgs, BrkGrow(b) \/ BrkShrink(b) PROVE FALSE
  BY <1>14 DEF BrkGrow, BrkShrink, At, User
<1> QED
  BY <1>4, <1>5, <1>6, <1>7, <1>8, <1>9, <1>10, <1>11, <1>12, <1>13, <1>14
  DEF Next, PoweredOff, BrkUnchanged

\* A break rounds up to a page address.
LEMMA RoundedUp ==
  ASSUME NEW b \in Breaks
  PROVE  PgRoundUp(b) \in Nat /\ PgRoundDown(PgRoundUp(b)) = PgRoundUp(b)
<1>1. b \in Nat /\ PgRoundUp(b) \in Nat
  BY BreakFacts, Layout
<1>2. b + PGSIZE - 1 \in Nat
  BY <1>1, Layout
<1>3. PageOf(b + PGSIZE - 1) \in Nat
  BY <1>2, Quotient, Layout DEF PageOf
<1> HIDE DEF PageOf
<1> QED BY <1>1, <1>3, PageAddress DEF PgRoundUp, PgRoundDown

\* unmap_page stays between the two breaks.
LEMMA PlaceKept == PInv /\ [Next]_vars => UnmapPlace'
<1> SUFFICES ASSUME PInv, [Next]_vars, kop'.at = "unmap" PROVE UnmapPlace'
  BY DEF UnmapPlace
<1>1. /\ FInv /\ kop \in Kops /\ current \in Tasks
      /\ brk \in [Tasks -> Breaks]
  BY PrivateTypes
<1>2. ASSUME UNCHANGED <<current, brk>>, kop.at = "unmap",
             kop'.va = kop.va, kop'.end = kop.end, kop'.brk = kop.brk
      PROVE  UnmapPlace'
  BY <1>2 DEF PInv, UnmapPlace
<1>3. ASSUME NEW rc, NEW n, OutOfMemory(rc, n) PROVE UnmapPlace'
  BY <1>1, <1>2, <1>3 DEF OutOfMemory, Kops
<1>4. ASSUME NEW b \in BrkArgs, BrkShrink(b) PROVE UnmapPlace'
  <2>1. /\ kop'.va = PgRoundUp(b) /\ kop'.brk = b /\ kop'.end = OldBrk
        /\ UNCHANGED <<current, brk>>
    BY <1>4 DEF BrkShrink, User
  <2>2. PgRoundUp(b) \in Nat /\ b \in Nat
    BY BreakFacts, Layout DEF Breaks
  <2>3. PgRoundDown(PgRoundUp(b)) = PgRoundUp(b)
    BY RoundedUp DEF Breaks
  <2> QED BY <2>1, <2>2, <2>3 DEF UnmapPlace, OldBrk
<1>5. CASE UnmapPage
  <2> DEFINE rc == Deref(refcnt, pt[current][PageOf(kop.va)].ppn)
  <2>1. CASE ~OutOfMemory(rc, 1)
    <3>1. /\ kop' = [kop EXCEPT !.va = @ + PGSIZE] /\ UNCHANGED <<current, brk>>
          /\ kop.at = "unmap"
      BY <1>5, <2>1 DEF UnmapPage, At
    <3>2. /\ kop'.va = kop.va + PGSIZE /\ kop'.end = kop.end /\ kop'.brk = kop.brk
          /\ kop.va \in Nat
      BY <1>1, <3>1 DEF Kops
    <3>3. PgRoundUp(kop.brk) \in Nat
      BY <1>1, BreakFacts, Layout DEF Kops
    <3>4. PgRoundUp(kop.brk) <= kop.va /\ PgRoundDown(kop.va) = kop.va
      BY <3>1 DEF PInv, UnmapPlace
    <3>5. PgRoundDown(kop.va + PGSIZE) = kop.va + PGSIZE
      BY <3>2, <3>4, NextPage
    <3>6. PgRoundUp(kop.brk) <= kop.va + PGSIZE
      BY <3>2, <3>3, <3>4, Layout
    <3> QED BY <3>1, <3>2, <3>5, <3>6 DEF PInv, UnmapPlace
  <2> QED BY <1>3, <2>1
<1>6. CASE UNCHANGED vars
  BY <1>2, <1>6 DEF vars
<1>7. CASE ForkBegin \/ ForkNextVma \/ ForkEnd \/ UnmapEnd
  <2>1. CASE ForkBegin
    BY <1>3, <2>1 DEF ForkBegin, User
  <2>2. CASE ForkNextVma
    BY <1>1, <2>2 DEF ForkNextVma, At, Kops
  <2>3. CASE ForkEnd \/ UnmapEnd
    BY <1>3, <2>3 DEF ForkEnd, UnmapEnd, User
  <2> QED BY <1>7, <2>1, <2>2, <2>3
<1>8. CASE ForkPage
  BY <1>1, <1>8, ForkPageEffect
<1>9. ASSUME NEW kind, NEW a \in UserAddr, PageFault(kind, a) PROVE FALSE
  BY <1>1, <1>9, FaultEffect
<1>10. ASSUME NEW a \in UserAddr, NEW d \in WriteData, Store(PageOf(a), d) PROVE FALSE
  BY <1>10 DEF Store, At
<1>11. ASSUME NEW p \in Tasks, Switch(p) PROVE FALSE
  BY <1>11 DEF Switch, At
<1>12. ASSUME NEW b \in BrkArgs, BrkGrow(b) PROVE FALSE
  BY <1>12 DEF BrkGrow, At
<1> QED
  BY <1>4, <1>5, <1>6, <1>7, <1>8, <1>9, <1>10, <1>11, <1>12
  DEF Next, PoweredOff, BrkUnchanged

\* Every step of the kernel and of the programs keeps the invariant.
LEMMA NextPInv == PInv /\ [Next]_vars => PInv'
BY NextEInv, KindsKept, TextKept, CopiedKept, PlaceKept DEF PInv

-----------------------------------------------------------------------------
(* What tasks read                                                         *)

Mem == [p \in Tasks |->
          IF p \in Existing THEN [pg \in Pages |-> View(p, pg)] ELSE Fresh]

Limit == [p \in Tasks |->
            IF p \in Existing THEN HeapLimit(p) ELSE PageOf(START_BRK)]

\* The tasks that exist can be counted.
LEMMA ExistingCount ==
  ASSUME task_num \in Tasks
  PROVE  Cardinality(Existing) = IF kop.at = "fork" THEN task_num - 1 ELSE task_num
BY FS_Interval, SizeAssumption DEF Existing, Tasks

\* The abstract state changes only if a task comes to exist, the heap of one
\* gets another limit, or one reads something else in a page.
LEMMA Stutters ==
  ASSUME Existing' = Existing,
         \A p \in Existing : HeapLimit(p)' = HeapLimit(p),
         \A p \in Existing, pg \in Pages : View(p, pg)' = View(p, pg)
  PROVE  UNCHANGED Private!vars
<1>1. Mem' = Mem
  BY DEF Mem
<1>2. Limit' = Limit
  BY DEF Limit
<1>3. Cardinality(Existing)' = Cardinality(Existing)
  OBVIOUS
<1> QED BY <1>1, <1>2, <1>3 DEF Private!vars, Mem, Limit

LEMMA InitSimulates == Init => Private!Init
<1> SUFFICES ASSUME Init PROVE Private!Init
  OBVIOUS
<1>1. task_num = 1 /\ kop.at = "user" /\ task_num \in Tasks
  BY SizeAssumption DEF Init, User, Tasks
<1>2. Existing = 1..1 /\ Cardinality(Existing) = 1
  BY <1>1, ExistingCount DEF Existing
<1>3. Mem = [p \in Tasks |-> Fresh]
  <2>1. \A p \in Tasks, pg \in Pages : View(p, pg) = Fresh[pg]
    BY DEF Init, NoPtes, NoPte, View, Mapped
  <2>2. Fresh = [pg \in Pages |-> Fresh[pg]]
    BY DEF Fresh
  <2> QED BY <2>1, <2>2 DEF Mem
<1>4. Limit = [p \in Tasks |-> PageOf(START_BRK)]
  <2>1. \A p \in Tasks : HeapLimit(p) = PageOf(START_BRK)
    BY <1>1, StartRounded DEF Init, HeapLimit
  <2> QED BY <2>1 DEF Limit
<1> QED BY <1>2, <1>3, <1>4 DEF Private!Init, Mem, Limit

-----------------------------------------------------------------------------
(* Steps                                                                   *)

\* The page of a larger address is no smaller.
LEMMA PageMonotone ==
  ASSUME NEW a \in Nat, NEW b \in Nat, a <= b PROVE PageOf(a) <= PageOf(b)
<1> DEFINE q == PageOf(a)
           r == PageOf(b)
<1>1. q \in Nat /\ r \in Nat /\ q * PGSIZE <= a /\ b < r * PGSIZE + PGSIZE
  BY Quotient, Layout DEF PageOf
<1> HIDE DEF q, r
<1>2. q * PGSIZE < r * PGSIZE + PGSIZE
  BY <1>1, Layout
<1>3. ASSUME q > r PROVE FALSE
  <2>1. \A k \in Nat : (r + 1 + k) * PGSIZE = r * PGSIZE + PGSIZE + k * PGSIZE
                       /\ k * PGSIZE >= 0
    BY <1>1, Layout
  <2>2. q - r - 1 \in Nat /\ q = r + 1 + (q - r - 1)
    BY <1>1, <1>3
  <2> QED BY <1>1, <1>2, <2>1, <2>2, Layout
<1>4. q <= r
  BY <1>1, <1>3
<1> QED BY <1>4 DEF q, r

\* No frame in use gets another content.
HeldKept == \A f \in Frames : refcnt[f] > 0 => content'[f] = content[f]

\* A page reads the same while its entry names the same frame.
LEMMA SameEntryReads ==
  ASSUME PInv, HeldKept, NEW p \in Tasks, NEW pg \in Pages,
         pt'[p][pg].ppn = pt[p][pg].ppn,
         "V" \in pt'[p][pg].flags <=> "V" \in pt[p][pg].flags
  PROVE  View(p, pg)' = View(p, pg)
<1>1. CASE "V" \in pt[p][pg].flags
  <2>1. pt[p][pg].ppn \in Frames /\ refcnt[pt[p][pg].ppn] > 0
    BY <1>1, EntryHeld, PrivateTypes DEF Counts
  <2> QED BY <1>1, <2>1 DEF HeldKept, View, Mapped
<1>2. CASE "V" \notin pt[p][pg].flags
  BY <1>2 DEF View, Mapped
<1> QED BY <1>1, <1>2

\* Claiming free frames changes nothing in use.
LEMMA ClaimKeepsHeld ==
  ASSUME NEW n, content' = Claimed(LowestFree(refcnt, n)) PROVE HeldKept
<1>1. \A f \in LowestFree(refcnt, n) : refcnt[f] = 0
  BY DEF LowestFree, Free
<1> QED BY <1>1 DEF HeldKept, Claimed

\* A step that moves neither tasks nor breaks and keeps what tasks read.
LEMMA QuietStutters ==
  ASSUME PInv, UNCHANGED <<task_num, current, brk>>, kop'.at = kop.at,
         kop.at = "unmap" => kop'.brk = kop.brk,
         \A p \in Existing, pg \in Pages : View(p, pg)' = View(p, pg)
  PROVE  UNCHANGED Private!vars
<1>1. Existing' = Existing
  BY DEF Existing
<1>2. \A p \in Existing : HeapLimit(p)' = HeapLimit(p)
  BY DEF HeapLimit
<1> QED BY <1>1, <1>2, Stutters

\* The same for a step that leaves tables and contents alone.
LEMMA SameStutters ==
  ASSUME PInv, UNCHANGED <<task_num, current, brk, pt, content>>, kop'.at = kop.at,
         kop.at = "unmap" => kop'.brk = kop.brk
  PROVE  UNCHANGED Private!vars
<1>1. \A p \in Existing, pg \in Pages : View(p, pg)' = View(p, pg)
  BY DEF View, Mapped
<1> QED BY <1>1, QuietStutters

\* A reset request is not seen.
LEMMA OffStutters ==
  ASSUME PInv, NEW rc, NEW n, OutOfMemory(rc, n) PROVE UNCHANGED Private!vars
<1>1. kop'.at = kop.at /\ kop'.brk = kop.brk
  BY PrivateTypes DEF OutOfMemory, Kops
<1> QED BY <1>1, SameStutters DEF OutOfMemory

\* Tasks that exist are tasks, the running one among them.
LEMMA ExistingTasks ==
  ASSUME PInv
  PROVE  /\ Existing \subseteq 1..task_num /\ Existing \subseteq Tasks
         /\ current \in Existing
         /\ kop.at # "fork" => Existing = 1..task_num
         /\ current <= Cardinality(Existing)
<1>1. /\ current \in 1..task_num /\ 1..task_num \subseteq Tasks
      /\ task_num \in Tasks /\ (kop.at = "fork" => current # task_num)
  BY PrivateTypes
<1>2. task_num \in Nat /\ current \in Nat
  BY <1>1, SizeAssumption DEF Tasks
<1>3. Existing \subseteq 1..task_num /\ current \in Existing
  BY <1>1, <1>2 DEF Existing
<1>4. current <= Cardinality(Existing)
  BY <1>1, <1>2, ExistingCount
<1> QED BY <1>1, <1>3, <1>4 DEF Existing

\* One page of one task reads d: what the abstract memory makes of that.
LEMMA OnePageChanged ==
  ASSUME PInv, Existing' = Existing, NEW p \in Existing, NEW pg \in Pages, NEW d,
         \A q \in Tasks, pg2 \in Pages :
           View(q, pg2)' = IF q = p /\ pg2 = pg THEN d ELSE View(q, pg2)
  PROVE  Mem' = [Mem EXCEPT ![p][pg] = d]
<1> DEFINE G == [Mem[p] EXCEPT ![pg] = d]
           N == [q \in Tasks |-> [pg2 \in Pages |-> View(q, pg2)']]
<1>1. p \in Tasks
  BY ExistingTasks
<1>2. Mem[p] = [pg2 \in Pages |-> View(p, pg2)]
  BY <1>1 DEF Mem
<1>3. G = N[p]
  <2>1. N[p] = [pg2 \in Pages |-> IF pg2 = pg THEN d ELSE View(p, pg2)]
    BY <1>1
  <2> QED BY <1>2, <2>1
<1>4. ASSUME NEW q \in Tasks, q # p PROVE N[q] = [pg2 \in Pages |-> View(q, pg2)]
  BY <1>4
<1>5. Mem' = [q \in Tasks |-> IF q \in Existing THEN N[q] ELSE Fresh]
  BY DEF Mem
<1> HIDE DEF N
<1>6. Mem' = [q \in Tasks |-> IF q = p THEN N[p] ELSE Mem[q]]
  <2>1. \A q \in Tasks : Mem'[q] = IF q = p THEN N[p] ELSE Mem[q]
    BY <1>4, <1>5 DEF Mem
  <2> HIDE DEF Mem
  <2> QED BY <1>5, <2>1
<1>7. [Mem EXCEPT ![p] = G] = [q \in Tasks |-> IF q = p THEN G ELSE Mem[q]]
  BY DEF Mem
<1> QED BY <1>3, <1>6, <1>7

\* A store is a store to the memory of the running task, and to no read-only
\* page: no other entry names the frame of an entry that allows stores.
LEMMA StoreSimulates ==
  ASSUME PInv, NEW a \in UserAddr, NEW d \in WriteData, Store(PageOf(a), d)
  PROVE  Private!Store(current, PageOf(a), d)
<1> DEFINE pg == PageOf(a)
           e == pt[current][pg]
<1>1. /\ pg \in Pages /\ current \in Tasks /\ {"V", "W"} \subseteq e.flags
      /\ content' = [content EXCEPT ![e.ppn] = d]
      /\ content \in [Frames -> Data] /\ current \in Existing
  BY StoreTarget, PrivateTypes, ExistingTasks
<1>2. UNCHANGED <<task_num, current, pt, brk, kop>>
  BY DEF Store
<1>3. e.ppn \in Frames
  BY <1>1, EntryHeld, PrivateTypes
<1>4. ASSUME NEW p \in Tasks, NEW pg2 \in Pages
      PROVE  View(p, pg2)' = IF p = current /\ pg2 = pg THEN d ELSE View(p, pg2)
  <2>1. CASE p = current /\ pg2 = pg
    BY <1>1, <1>2, <1>3, <2>1 DEF View, Mapped
  <2>2. CASE ~(p = current /\ pg2 = pg)
    <3>1. ASSUME "V" \in pt[p][pg2].flags PROVE pt[p][pg2].ppn # e.ppn
      <4>1. Naming(pt, e.ppn) = {<<current, pg>>}
        BY <1>1, PrivateTypes DEF IInv, Unshared
      <4>2. pt[p][pg2].ppn = e.ppn => <<p, pg2>> \in Naming(pt, e.ppn)
        BY <3>1 DEF Naming
      <4> QED BY <2>2, <4>1, <4>2
    <3> HIDE DEF e, pg
    <3>2. content'[pt[p][pg2].ppn] = content[pt[p][pg2].ppn] \/ "V" \notin pt[p][pg2].flags
      BY <1>1, <3>1
    <3>3. pt' = pt
      BY <1>2
    <3>4. View(p, pg2)' = View(p, pg2)
      BY <3>2, <3>3 DEF View, Mapped
    <3> QED BY <2>2, <3>4
  <2> QED BY <2>1, <2>2
<1> HIDE DEF e, pg
<1>5. Mem' = [Mem EXCEPT ![current][pg] = d]
  <2>1. Existing' = Existing
    BY <1>2 DEF Existing
  <2> QED BY <1>1, <1>4, <2>1, OnePageChanged
<1>6. Limit' = Limit /\ Cardinality(Existing)' = Cardinality(Existing)
  BY <1>2 DEF Limit, HeapLimit, Existing
<1>7. pg \notin ReadOnlyPages
  BY <1>1 DEF PInv, NoTextWritable, e
<1>8. current <= Cardinality(Existing)
  BY ExistingTasks
<1> QED BY <1>5, <1>6, <1>7, <1>8 DEF Private!Store, Mem, Limit, ReadOnlyPages, pg

\* A fault is not seen.
LEMMA FaultStutters ==
  ASSUME PInv, NEW kind, NEW a \in UserAddr, PageFault(kind, a)
  PROVE  UNCHANGED Private!vars
<1> DEFINE pg == PageOf(a)
<1>1. /\ UNCHANGED <<task_num, current, brk>> /\ kop'.at = kop.at /\ kop.at = "user"
      /\ pg \in Pages /\ pt \in PageTables /\ current \in Tasks
  BY FaultEffect, PrivateTypes
<1>2. CASE UNCHANGED <<pt, content>>
  BY <1>1, <1>2, SameStutters
<1>3. ASSUME NEW v \in Vma, NEW new \in Free(refcnt),
             pt' = [pt EXCEPT ![current][pg] = Leaf(new, PermOf(v))],
             content'[new] = View(current, pg), HeldKept
      PROVE  UNCHANGED Private!vars
  <2>1. ASSUME NEW p \in Tasks, NEW pg2 \in Pages PROVE View(p, pg2)' = View(p, pg2)
    <3>1. pt'[p][pg2] = IF p = current /\ pg2 = pg THEN Leaf(new, PermOf(v)) ELSE pt[p][pg2]
      BY <1>1, <1>3 DEF PageTables
    <3>2. CASE p = current /\ pg2 = pg
      BY <1>3, <3>1, <3>2 DEF View, Mapped, Leaf
    <3>3. CASE ~(p = current /\ pg2 = pg)
      BY <1>3, <3>1, <3>3, SameEntryReads
    <3> QED BY <3>2, <3>3
  <2> QED BY <1>1, <2>1, ExistingTasks, QuietStutters
<1> QED BY <1>2, <1>3, FaultReads DEF HeldKept

\* do_fork shows nothing before its end.
LEMMA ForkStutters ==
  ASSUME PInv, ForkBegin \/ ForkPage \/ ForkNextVma
  PROVE  UNCHANGED Private!vars
<1>1. /\ FInv /\ kop \in Kops /\ current \in Tasks /\ task_num \in Tasks
      /\ pt \in PageTables /\ Existing \subseteq Tasks
  BY PrivateTypes, ExistingTasks
<1>2. CASE ForkBegin
  <2> DEFINE n == 5 + Len(vmas[current])
  <2>1. CASE ~OutOfMemory(refcnt, n)
    <3>1. /\ task_num' = task_num + 1 /\ UNCHANGED <<current, brk, pt>>
          /\ content' = Claimed(LowestFree(refcnt, n))
          /\ kop.at = "user" /\ kop'.at = "fork"
      BY <1>2, <2>1 DEF ForkBegin, At, User
    <3>2. task_num \in Nat /\ task_num + 1 - 1 = task_num
      BY <1>1, SizeAssumption DEF Tasks
    <3>3. Existing' = Existing
      BY <3>1, <3>2 DEF Existing
    <3>4. \A p \in Existing, pg \in Pages : View(p, pg)' = View(p, pg)
      BY <1>1, <3>1, ClaimKeepsHeld, SameEntryReads
    <3>5. \A p \in Existing : HeapLimit(p)' = HeapLimit(p)
      BY <3>1 DEF HeapLimit
    <3> QED BY <3>3, <3>4, <3>5, Stutters
  <2> QED BY <1>2, <2>1, OffStutters
<1>3. CASE ForkPage
  <2> DEFINE pg == PageOf(kop.va)
             pte == pt[current][pg]
             e == Leaf(pte.ppn, SharedPerm(pte.flags))
             n == Cardinality(NewTables(task_num, pg))
  <2>1. CASE ~OutOfMemory(refcnt, n)
    <3>1. /\ UNCHANGED <<task_num, current, brk>> /\ kop.at = "fork" /\ kop'.at = kop.at
          /\ pg \in Pages
      BY <1>1, <1>3, ForkPageEffect
    <3>2. \/ UNCHANGED <<pt, content>>
          \/ /\ "V" \in pte.flags
             /\ pt' = [pt EXCEPT ![current][pg] = e, ![task_num][pg] = e]
             /\ content' = Claimed(LowestFree(refcnt, n))
      BY <1>3, <2>1 DEF ForkPage, Mapped
    <3>3. CASE UNCHANGED <<pt, content>>
      BY <3>1, <3>3, SameStutters
    <3>4. CASE /\ "V" \in pte.flags
               /\ pt' = [pt EXCEPT ![current][pg] = e, ![task_num][pg] = e]
               /\ content' = Claimed(LowestFree(refcnt, n))
      <4>1. \A p \in Existing : p # task_num
        BY <1>1, <3>1, SizeAssumption DEF Existing, Tasks
      <4>2. ASSUME NEW p \in Existing, NEW pg2 \in Pages
            PROVE  View(p, pg2)' = View(p, pg2)
        <5>1. pt'[p][pg2] = IF p = current /\ pg2 = pg THEN e ELSE pt[p][pg2]
          <6> HIDE DEF e, pg
          <6> QED BY <1>1, <3>1, <3>4, <4>1 DEF PageTables
        <5>2. /\ pt'[p][pg2].ppn = pt[p][pg2].ppn
              /\ "V" \in pt'[p][pg2].flags <=> "V" \in pt[p][pg2].flags
          BY <3>4, <5>1 DEF Leaf
        <5> QED BY <1>1, <3>4, <5>2, ClaimKeepsHeld, SameEntryReads
      <4> QED BY <3>1, <4>2, QuietStutters
    <3> QED BY <3>2, <3>3, <3>4
  <2> QED BY <2>1, OffStutters
<1>4. CASE ForkNextVma
  <2>1. kop'.at = kop.at /\ kop'.brk = kop.brk
    BY <1>1, <1>4 DEF ForkNextVma, Kops
  <2> QED BY <1>4, <2>1, SameStutters DEF ForkNextVma
<1> QED BY <1>2, <1>3, <1>4

\* brk moves the limit of one heap.
LEMMA ResizeSimulates ==
  ASSUME PInv, kop.at = "user", kop'.at # "fork", NEW b \in BrkArgs,
         UNCHANGED <<task_num, current, pt, content>>,
         START_BRK <= PgRoundUp(b),
         HeapLimit(current)' = PageOf(PgRoundUp(b)),
         \A p \in Existing \ {current} : HeapLimit(p)' = HeapLimit(p)
  PROVE  /\ PageOf(PgRoundUp(b)) \in Pages
         /\ Private!Resize(current, PageOf(PgRoundUp(b)))
<1> DEFINE n == PageOf(PgRoundUp(b))
<1>1. PgRoundUp(b) \in Nat /\ PgRoundUp(b) \in Addr
  BY RoundedUp, LayoutAssumption, Layout DEF Breaks, Addr
<1>2. n \in Pages /\ n >= PageOf(START_BRK)
  <2>1. PageOf(START_BRK) \in Nat /\ n \in Nat
    BY <1>1, Quotient, Layout DEF PageOf
  <2> QED BY <1>1, <2>1, PageFacts, PageMonotone, Layout
<1>3. Existing' = Existing
  BY DEF Existing
<1>4. current \in Existing /\ Existing \subseteq Tasks /\ current <= Cardinality(Existing)
  BY ExistingTasks
<1>5. Mem' = Mem
  BY <1>3 DEF Mem, View, Mapped
<1> HIDE DEF n
<1>6. Limit' = [Limit EXCEPT ![current] = n]
  <2>1. \A p \in Existing : HeapLimit(p)' = IF p = current THEN n ELSE HeapLimit(p)
    BY DEF n
  <2>2. Limit' = [p \in Tasks |->
                    IF p \in Existing THEN IF p = current THEN n ELSE HeapLimit(p)
                                      ELSE PageOf(START_BRK)]
    BY <1>3, <2>1 DEF Limit
  <2> QED BY <1>4, <2>2 DEF Limit
<1> QED BY <1>2, <1>3, <1>4, <1>5, <1>6 DEF Private!Resize, Mem, Limit, n

\* sys_brk growing a heap, or starting to shrink one.
LEMMA BrkSimulates ==
  ASSUME PInv, NEW b \in BrkArgs, BrkGrow(b) \/ BrkShrink(b)
  PROVE  /\ PageOf(PgRoundUp(b)) \in Pages
         /\ Private!Resize(current, PageOf(PgRoundUp(b)))
<1>1. kop.at = "user" /\ current \in Tasks /\ brk \in [Tasks -> Breaks]
      /\ Existing \subseteq Tasks
  BY PrivateTypes, ExistingTasks DEF BrkGrow, BrkShrink, At
<1>2. CASE BrkGrow(b)
  <2>1. /\ UNCHANGED <<task_num, current, pt, content, kop>>
        /\ brk' = [brk EXCEPT ![current] = b] /\ PgRoundUp(b) > OldBrk
    BY <1>2 DEF BrkGrow
  <2>2. START_BRK <= PgRoundUp(b)
    <3>1. PgRoundUp(b) \in Nat /\ OldBrk \in Nat
      BY <1>1, RoundedUp DEF Breaks, OldBrk
    <3>2. START_BRK <= OldBrk
      <4>1. GoodAreas(vmas[current], brk[current])
        BY <1>1, PrivateTypes DEF PInv, EInv, AInv, AreasGood, BrkOf
      <4> QED BY <4>1 DEF GoodAreas, HeapAt, OldBrk
    <3> QED BY <2>1, <3>1, <3>2, Layout
  <2>3. HeapLimit(current)' = PageOf(PgRoundUp(b))
    BY <1>1, <2>1 DEF HeapLimit
  <2>4. \A p \in Existing \ {current} : HeapLimit(p)' = HeapLimit(p)
    BY <1>1, <2>1 DEF HeapLimit
  <2> QED BY <1>1, <2>1, <2>2, <2>3, <2>4, ResizeSimulates
<1>3. CASE BrkShrink(b)
  <2>1. /\ UNCHANGED <<task_num, current, pt, content, brk>>
        /\ kop'.at = "unmap" /\ kop'.brk = b
        /\ START_BRK <= PgRoundUp(b)
    BY <1>3 DEF BrkShrink, User
  <2>2. HeapLimit(current)' = PageOf(PgRoundUp(b))
    BY <2>1 DEF HeapLimit
  <2>3. \A p \in Existing \ {current} : HeapLimit(p)' = HeapLimit(p)
    BY <1>1, <2>1 DEF HeapLimit
  <2> QED BY <1>1, <2>1, <2>2, <2>3, ResizeSimulates
<1> QED BY <1>2, <1>3

\* The pages unmap_page goes through are above the limit, and no segment or
\* stack has them.
LEMMA UnmapAbove ==
  ASSUME PInv, UnmapPage
  PROVE  /\ HeapLimit(current) <= PageOf(kop.va)
         /\ PageOf(kop.va) \notin StaticPages
<1> DEFINE pg == PageOf(kop.va)
<1>1. /\ kop \in Kops /\ kop.at = "unmap" /\ kop.va \in Nat /\ kop.va < kop.end
      /\ kop.brk \in Breaks /\ pg \in Pages /\ current \in 1..task_num
      /\ current \in Tasks /\ vmas \in [Tasks -> Seq(Vma)] /\ brk \in [Tasks -> Breaks]
  BY PrivateTypes, UnmapPagePage DEF UnmapPage, At, Kops
<1>2. /\ PgRoundUp(kop.brk) <= kop.va /\ PgRoundDown(kop.va) = kop.va
      /\ kop.end = PgRoundUp(brk[current]) /\ START_BRK <= PgRoundUp(kop.brk)
      /\ PgRoundUp(kop.brk) \in Nat /\ PgRoundUp(brk[current]) \in Nat
  BY <1>1, RoundedUp DEF PInv, UnmapPlace, EInv, AInv, ShrinkBounds
<1>3. pg * PGSIZE = kop.va
  BY <1>1, <1>2, NextPage
<1>4. HeapLimit(current) <= pg
  BY <1>1, <1>2, PageMonotone DEF HeapLimit
<1>5. START_BRK <= kop.va
  BY <1>1, <1>2, Layout
<1>6. kop.va < USER_END - PGSIZE
  <2>1. GoodAreas(vmas[current], brk[current])
    BY <1>1 DEF PInv, EInv, AInv, AreasGood, BrkOf
  <2>2. PICK h \in DOMAIN vmas[current] : HeapAt(vmas[current], h, brk[current])
    BY <2>1 DEF GoodAreas
  <2>3. vmas[current][h].vm_end \in Nat
    BY <1>1, AreaBounds
  <2> QED BY <1>1, <1>2, <2>2, <2>3, Layout DEF HeapAt
<1>7. \A s \in DOMAIN Segments : pg \notin SegmentPages(s)
  BY <1>1, <1>3, <1>5, NoSegment
<1>8. pg \notin PagesOf(StackVma)
  <2>1. USER_END - PGSIZE \in Nat /\ PgRoundDown(USER_END - PGSIZE) = USER_END - PGSIZE
    <3>1. \E i \in DOMAIN vmas[current] : vmas[current][i] = StackVma
      BY <1>1 DEF PInv, AreaKinds, Kinds
    <3>2. StackVma \in Vma
      BY <1>1, <3>1, AreaBounds
    <3> QED BY <3>2, Layout DEF Vma, FileBacked, StackVma
  <2>2. pg \in Nat
    BY <1>1, PageFacts
  <2>3. ~(USER_END - PGSIZE <= pg * PGSIZE)
    BY <1>1, <1>3, <1>6, <2>1
  <2>4. ~(USER_END - PGSIZE < pg * PGSIZE + PGSIZE)
    BY <2>1, <2>2, <2>3, PageBetween
  <2>5. pg * PGSIZE + PGSIZE > USER_END - PGSIZE <=> USER_END - PGSIZE < pg * PGSIZE + PGSIZE
    OBVIOUS
  <2> QED BY <2>4, <2>5 DEF PagesOf, StackVma
<1> QED BY <1>4, <1>7, <1>8 DEF StaticPages

\* unmap_page discards a page of the running task, and nothing else.
LEMMA UnmapPageSimulates ==
  ASSUME PInv, UnmapPage
  PROVE  Private!Discard(current, PageOf(kop.va)) \/ UNCHANGED Private!vars
<1> DEFINE pg == PageOf(kop.va)
           pte == pt[current][pg]
           rc == Deref(refcnt, pte.ppn)
<1>1. /\ kop \in Kops /\ kop.at = "unmap" /\ pg \in Pages /\ current \in Tasks
      /\ pt \in PageTables /\ refcnt \in Counts /\ content \in [Frames -> Data]
      /\ UNCHANGED <<task_num, current, brk>> /\ kop'.at = "unmap"
      /\ current \in Existing /\ current <= Cardinality(Existing) /\ FInv /\ TypeOK
  BY PrivateTypes, ExistingTasks, UnmapPageEffect
<1>2. kop'.brk = kop.brk
  BY <1>1 DEF UnmapPage, OutOfMemory, Kops
<1>3. CASE OutOfMemory(rc, 1)
  BY <1>3, OffStutters
<1>4. CASE ~Mapped(current, pg)
  <2>1. UNCHANGED <<pt, content>>
    BY <1>4 DEF UnmapPage
  <2> QED BY <1>1, <1>2, <2>1, SameStutters
<1>5. CASE Mapped(current, pg) /\ ~OutOfMemory(rc, 1)
  <2>1. pt' = [pt EXCEPT ![current][pg] = NoPte]
    BY <1>5 DEF UnmapPage
  <2>2. pte.ppn \in Frames /\ refcnt[pte.ppn] >= 2
    BY <1>1, <1>5, EntryHeld DEF FInv, Mapped
  <2>3. HeldKept
    <3>1. Free(rc) = Free(refcnt)
      BY <1>1, <2>2, DerefFreeBefore
    <3>2. content' = content
          \/ \E new \in LowestFree(rc, 1) : content' = [content EXCEPT ![new] = content[pte.ppn]]
      BY <1>5 DEF UnmapPage
    <3>3. \A new \in LowestFree(rc, 1) : refcnt[new] = 0
      BY <3>1, LowestFreeIsFree DEF Free
    <3> HIDE DEF rc, pte
    <3> QED BY <1>1, <3>2, <3>3 DEF HeldKept
  <2>4. ASSUME NEW p \in Tasks, NEW pg2 \in Pages
        PROVE  View(p, pg2)' = IF p = current /\ pg2 = pg THEN Fresh[pg] ELSE View(p, pg2)
    <3>1. pt'[p][pg2] = IF p = current /\ pg2 = pg THEN NoPte ELSE pt[p][pg2]
      BY <1>1, <2>1 DEF PageTables
    <3>2. CASE p = current /\ pg2 = pg
      BY <3>1, <3>2 DEF View, Mapped, NoPte
    <3>3. CASE ~(p = current /\ pg2 = pg)
      BY <2>3, <3>1, <3>3, SameEntryReads
    <3> QED BY <3>2, <3>3
  <2> HIDE DEF pg, pte, rc
  <2>5. Existing' = Existing /\ Limit' = Limit
    BY <1>1, <1>2 DEF Existing, Limit, HeapLimit
  <2>6. Mem' = [Mem EXCEPT ![current][pg] = Fresh[pg]]
    BY <1>1, <2>4, <2>5, OnePageChanged
  <2>7. Limit[current] <= pg /\ pg \notin StaticPages
    BY <1>1, UnmapAbove DEF pg, Limit
  <2>8. Private!Discard(current, pg)
    BY <1>1, <2>5, <2>6, <2>7 DEF Private!Discard, Mem, Limit
  <2> QED BY <2>8 DEF pg
<1> QED BY <1>3, <1>4, <1>5

\* At its end do_fork has passed every page the parent may use.
LEMMA AllPassed ==
  ASSUME PInv, ForkEnd, NEW pg \in Pages,
         pg \in StaticPages \/ (PageOf(START_BRK) <= pg /\ pg < HeapLimit(current))
  PROVE  Passed(pg)
<1> DEFINE l == vmas[current]
           r == PgRoundUp(brk[current])
<1>1. /\ kop.at = "fork" /\ kop \in Kops /\ l \in Seq(Vma) /\ current \in 1..task_num
      /\ current # task_num /\ brk[current] \in Breaks /\ kop.vma > Len(l)
  BY PrivateTypes DEF ForkEnd, At
<1>2. pg \in Nat /\ pg * PGSIZE \in Nat
  BY PageFacts, PageAddress
<1>3. \A j \in DOMAIN l : j <= kop.vma /\ j # kop.vma
  <2>1. Len(l) \in Nat /\ DOMAIN l = 1..Len(l) /\ kop.vma \in Nat
    BY <1>1, LenProperties DEF Kops
  <2> QED BY <1>1, <2>1
<1>4. ASSUME NEW j \in DOMAIN l, l[j].vm_start <= pg * PGSIZE, pg * PGSIZE < l[j].vm_end
      PROVE  Passed(pg)
  BY <1>3, <1>4 DEF Passed
<1>5. Kinds(l) /\ GoodAreas(l, brk[current])
  BY <1>1 DEF PInv, AreaKinds, EInv, AInv, AreasGood, BrkOf
<1>6. ASSUME NEW s \in DOMAIN Segments, pg \in SegmentPages(s) PROVE Passed(pg)
  <2>1. PICK j \in DOMAIN l : l[j] = Segments[s]
    BY <1>5 DEF Kinds
  <2> QED BY <1>4, <1>6, <2>1, SegmentFacts
<1>7. ASSUME pg \in PagesOf(StackVma) PROVE Passed(pg)
  <2>1. PICK j \in DOMAIN l : l[j] = StackVma
    BY <1>5 DEF Kinds
  <2>2. /\ l[j].vm_start \in Nat /\ l[j].vm_end \in Nat
        /\ PgRoundDown(l[j].vm_start) = l[j].vm_start
    BY <1>1, AreaBounds DEF Vma, FileBacked
  <2>3. l[j].vm_start < pg * PGSIZE + PGSIZE /\ pg * PGSIZE < l[j].vm_end
    BY <1>2, <1>7, <2>1, <2>2, Layout DEF PagesOf
  <2> QED BY <1>2, <1>4, <2>2, <2>3, PageBetween
<1>8. ASSUME PageOf(START_BRK) <= pg, pg < PageOf(r) PROVE Passed(pg)
  <2>1. START_BRK <= pg * PGSIZE
    BY <1>2, <1>8, PageBetween, Layout, LayoutAssumption
  <2>2. r \in Nat /\ PgRoundDown(r) = r
    BY <1>1, RoundedUp
  <2>3. pg * PGSIZE < r
    <3>1. PageOf(r) \in Nat
      BY <2>2, Quotient, Layout DEF PageOf
    <3>2. ~(r <= pg * PGSIZE)
      BY <1>2, <1>8, <2>2, <3>1, PageBetween
    <3> QED BY <1>2, <2>2, <3>2
  <2>4. PICK h \in DOMAIN l : HeapAt(l, h, brk[current])
    BY <1>5 DEF GoodAreas
  <2>5. l[h].vm_start = START_BRK /\ r <= l[h].vm_end /\ l[h].vm_end \in Nat
    BY <1>1, <2>4, AreaBounds DEF HeapAt
  <2>6. pg * PGSIZE < l[h].vm_end
    BY <1>2, <2>2, <2>3, <2>5
  <2> QED BY <1>4, <2>1, <2>5, <2>6
<1>9. HeapLimit(current) = PageOf(r)
  BY <1>1 DEF HeapLimit
<1> QED BY <1>6, <1>7, <1>8, <1>9 DEF StaticPages

\* With the last step of do_fork a task comes to exist, with a copy of what its
\* parent may use and the same limit.
LEMMA ForkEndSimulates ==
  ASSUME PInv, ForkEnd PROVE Private!Fork(current) \/ UNCHANGED Private!vars
<1>1. /\ kop.at = "fork" /\ current \in Tasks /\ task_num \in Tasks /\ IInv
      /\ current # task_num /\ pt \in PageTables /\ brk \in [Tasks -> Breaks]
      /\ Existing \subseteq Tasks /\ current \in Existing
      /\ current <= Cardinality(Existing)
  BY PrivateTypes, ExistingTasks DEF ForkEnd, At
<1>2. CASE OutOfMemory(refcnt, 1)
  BY <1>2, OffStutters
<1>3. CASE ~OutOfMemory(refcnt, 1)
  <2>1. /\ brk' = [brk EXCEPT ![task_num] = brk[current]]
        /\ content' = Claimed(LowestFree(refcnt, 1)) /\ kop'.at = "user"
        /\ UNCHANGED <<task_num, current, pt>>
    BY <1>3 DEF ForkEnd, User
  <2>2. HeldKept
    BY <2>1, ClaimKeepsHeld
  <2>3. task_num \in Nat /\ task_num > 0
    BY <1>1, SizeAssumption DEF Tasks
  <2>4. /\ Existing = 1..(task_num - 1) /\ Existing' = 1..task_num
        /\ task_num \notin Existing /\ Existing' = Existing \cup {task_num}
    BY <1>1, <2>1, <2>3 DEF Existing
  <2>5. Cardinality(Existing) = task_num - 1 /\ Cardinality(Existing)' = task_num
    <3>1. Cardinality(Existing) = task_num - 1
      BY <1>1, ExistingCount
    <3>2. Cardinality(1..task_num) = task_num
      BY <2>3, FS_Interval
    <3> QED BY <2>4, <3>1, <3>2
  <2>6. \A p \in Tasks, pg \in Pages : View(p, pg)' = View(p, pg)
    BY <2>1, <2>2, SameEntryReads
  <2>7. \A p \in Existing : Mem'[p] = Mem[p]
    BY <1>1, <2>4, <2>6 DEF Mem
  <2>8. ASSUME NEW pg \in Pages,
               pg \in StaticPages \/ (PageOf(START_BRK) <= pg /\ pg < Limit[current])
        PROVE  Mem'[task_num][pg] = Mem[current][pg]
    <3>1. Limit[current] = HeapLimit(current)
      BY <1>1 DEF Limit
    <3>2. Passed(pg)
      BY <2>8, <3>1, AllPassed
    <3>3. "V" \in pt[task_num][pg].flags <=> "V" \in pt[current][pg].flags
      BY <1>1, <3>2 DEF PInv, ForkCopied
    <3>4. "V" \in pt[task_num][pg].flags => pt[task_num][pg].ppn = pt[current][pg].ppn
      BY <1>1 DEF IInv, ForkShares
    <3>5. View(task_num, pg) = View(current, pg)
      BY <3>3, <3>4 DEF View, Mapped
    <3>6. \A p \in Tasks : p = task_num => Mem'[p][pg] = View(p, pg)
      BY <2>4, <2>6 DEF Mem
    <3>7. Mem[current][pg] = View(current, pg)
      BY <1>1 DEF Mem
    <3> QED BY <1>1, <3>5, <3>6, <3>7
  <2>9. Limit' = [Limit EXCEPT ![task_num] = Limit[current]]
    <3>1. \A p \in Existing : HeapLimit(p)' = HeapLimit(p)
      BY <1>1, <2>1, <2>4 DEF HeapLimit
    <3>2. \A p : p = task_num => HeapLimit(p)' = HeapLimit(current)
      BY <1>1, <2>1 DEF HeapLimit
    <3>3. Limit[current] = HeapLimit(current)
      BY <1>1 DEF Limit
    <3>4. Limit' = [p \in Tasks |-> IF p = task_num THEN HeapLimit(current) ELSE Limit[p]]
      <4>1. \A p \in Tasks : Limit'[p] = IF p = task_num THEN HeapLimit(current) ELSE Limit[p]
        BY <2>4, <3>1, <3>2 DEF Limit
      <4>2. Limit' = [p \in Tasks |-> Limit'[p]]
        BY DEF Limit
      <4> HIDE DEF Limit
      <4> QED BY <4>1, <4>2
    <3> QED BY <3>3, <3>4 DEF Limit
  <2>10. \A pg \in StaticPages : pg \in Pages
    BY DEF StaticPages, SegmentPages, PagesOf
  <2>11. \A pg \in StaticPages \cup {pg \in Pages : PageOf(START_BRK) <= pg /\ pg < Limit[current]} :
           Mem'[task_num][pg] = Mem[current][pg]
    BY <2>8, <2>10
  <2>12. task_num - 1 + 1 = task_num
    BY <2>3
  <2> HIDE DEF Mem, Limit
  <2>13. /\ current <= task_num - 1 /\ task_num - 1 + 1 \in Tasks
         /\ Cardinality(Existing)' = Cardinality(Existing) + 1
         /\ Limit' = [Limit EXCEPT ![Cardinality(Existing) + 1] = Limit[current]]
         /\ \A q \in 1..Cardinality(Existing) : Mem'[q] = Mem[q]
         /\ \A pg \in StaticPages \cup {pg \in Pages : PageOf(START_BRK) <= pg /\ pg < Limit[current]} :
              Mem'[Cardinality(Existing) + 1][pg] = Mem[current][pg]
    BY <1>1, <2>4, <2>5, <2>7, <2>9, <2>11, <2>12
  <2> QED BY <1>1, <2>5, <2>13 DEF Private!Fork, Private!Legal, Mem, Limit
<1> QED BY <1>2, <1>3

\* Every step is a step of the private memories or not seen.
LEMMA NextSimulates == PInv /\ [Next]_vars => [Private!Next]_Private!vars
<1> SUFFICES ASSUME PInv, [Next]_vars PROVE Private!Next \/ UNCHANGED Private!vars
  OBVIOUS
<1>1. current \in Tasks /\ kop \in Kops /\ FInv /\ Existing \subseteq Tasks
  BY PrivateTypes, ExistingTasks
<1>2. ASSUME NEW a \in UserAddr, NEW d \in WriteData, Store(PageOf(a), d)
      PROVE  Private!Next
  <2>1. PageOf(a) \in Pages
    BY LayoutAssumption, PageFacts
  <2> QED BY <1>1, <1>2, <2>1, StoreSimulates DEF Private!Next
<1>3. ASSUME NEW p \in Tasks, Switch(p) PROVE UNCHANGED Private!vars
  <2>1. /\ kop.at = "user" /\ UNCHANGED <<task_num, brk, pt, content, kop>>
    BY <1>3 DEF Switch, At
  <2>2. Existing' = Existing /\ \A q \in Existing : HeapLimit(q)' = HeapLimit(q)
    BY <2>1 DEF Existing, HeapLimit
  <2>3. \A q \in Existing, pg \in Pages : View(q, pg)' = View(q, pg)
    BY <2>1 DEF View, Mapped
  <2> QED BY <2>2, <2>3, Stutters
<1>4. ASSUME NEW kind, NEW a \in UserAddr, PageFault(kind, a) PROVE UNCHANGED Private!vars
  BY <1>4, FaultStutters
<1>5. CASE ForkBegin \/ ForkPage \/ ForkNextVma
  BY <1>5, ForkStutters
<1>6. CASE ForkEnd
  <2>1. CASE Private!Fork(current)
    BY <1>1, <2>1 DEF Private!Next, Private!Fork
  <2> QED BY <1>6, <2>1, ForkEndSimulates
<1>7. ASSUME NEW b \in BrkArgs, BrkGrow(b) \/ BrkShrink(b) PROVE Private!Next
  BY <1>1, <1>7, BrkSimulates DEF Private!Next
<1>8. CASE UnmapPage
  <2>1. PageOf(kop.va) \in Pages
    BY <1>8, PrivateTypes, UnmapPagePage
  <2>2. CASE Private!Discard(current, PageOf(kop.va))
    BY <1>1, <2>1, <2>2 DEF Private!Next, Private!Discard
  <2> QED BY <1>8, <2>2, UnmapPageSimulates
<1>9. CASE UnmapEnd
  <2>1. /\ kop.at = "unmap" /\ kop'.at = "user" /\ brk' = [brk EXCEPT ![current] = kop.brk]
        /\ UNCHANGED <<task_num, current, pt, content>>
    BY <1>9 DEF UnmapEnd, At, User
  <2>2. Existing' = Existing
    BY <2>1 DEF Existing
  <2>3. \A q \in Existing : HeapLimit(q)' = HeapLimit(q)
    BY <1>1, <2>1, PrivateTypes DEF HeapLimit
  <2>4. \A q \in Existing, pg \in Pages : View(q, pg)' = View(q, pg)
    BY <2>1 DEF View, Mapped
  <2> QED BY <2>2, <2>3, <2>4, Stutters
<1>10. CASE UNCHANGED vars
  BY <1>10, SameStutters DEF vars
<1> QED
  BY <1>2, <1>3, <1>4, <1>5, <1>6, <1>7, <1>8, <1>9, <1>10
  DEF Next, PoweredOff, BrkUnchanged

\* The memory subsystem gives every task the private memory PrivateMemory
\* promises: whatever the faults, forks, unmaps and switches, a program reads
\* what it or its ancestors stored, or what the file or a fresh page holds.
THEOREM ImplementsPrivateMemory == Spec => RefinesPrivateMemory
BY InitSimulates, InitPInv, NextPInv, NextSimulates, PTL
DEF Spec, RefinesPrivateMemory, Private!Spec
=============================================================================
