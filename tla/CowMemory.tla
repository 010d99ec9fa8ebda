----------------------------- MODULE CowMemory -----------------------------
(***************************************************************************)
(* User memory of the kernel: VMAs, page tables, reference-counted frames, *)
(* demand paging, copy on write, brk and the translation cache.            *)
(*                                                                         *)
(* The kernel runs on one hart with interrupts off, so a system call or a  *)
(* fault handler is never preempted.  The loops of do_fork and unmap_page  *)
(* still take one step per iteration (kop says where the kernel is): what  *)
(* they leave half done is visible to the invariants.                      *)
(*                                                                         *)
(* An address is a number below USER_END, a page the quotient by PGSIZE;   *)
(* contents are whole pages.  A and D bits are left out: every mapping     *)
(* sets both.                                                              *)
(*                                                                         *)
(* Operators named after a defect (RefForgotten, SfenceLost ...) are not    *)
(* used: each is a wrong form of the definition after it that the          *)
(* properties must tell from the right one.                                *)
(***************************************************************************)
EXTENDS Integers, Sequences, FiniteSets

CONSTANTS
  PGSIZE,      \* bytes of a page
  FANOUT,      \* entries of a page table
  USER_END,    \* first address above user space; the stack is the page below
  NR_FRAMES,   \* frames the buddy allocator manages
  MaxTasks,    \* bound: tasks the instance creates
  UserAddr,    \* bound: addresses the programs of the instance access
  BrkArgs,     \* bound: breaks they ask for
  MaxDropped,  \* bound: they give heap back while fewer frames are lost
  START_BRK,   \* end of the embedded program image, rounded up
  Segments,    \* PT_LOAD headers of the program, in file order
  Image,       \* page contents of the program file
  Zero,        \* the content of a page of zeros
  Kernel,      \* the content of a frame the kernel uses for itself
  WriteData    \* contents a program may store

Tasks  == 1..MaxTasks
Addr   == 0..(USER_END - 1)
PageOf(a) == a \div PGSIZE
Pages  == {PageOf(a) : a \in Addr}
Frames == 0..(NR_FRAMES - 1)

PgRoundDown(a) == PageOf(a) * PGSIZE
PgRoundUp(a)   == PgRoundDown(a + PGSIZE - 1)

PteBits == {"V", "R", "W", "X", "U", "S"}
VmBits  == {"R", "W", "X", "ANON"}
Pte == [ppn : Frames, flags : SUBSET PteBits]

\* An area starts on a page boundary and its file part is in the image.
FileBacked(v) ==
  /\ PgRoundDown(v.vm_start) = v.vm_start
  /\ \A a \in v.vm_start..(v.vm_start + v.vm_filesz - 1) :
       PageOf(v.vm_pgoff + a - v.vm_start) \in DOMAIN Image

Vma == {v \in [vm_start : Addr, vm_end : 0..USER_END, vm_pgoff : Nat,
                vm_filesz : Nat, vm_flags : SUBSET VmBits] : FileBacked(v)}

\* Values of mm->brk.
Breaks == BrkArgs \cup {START_BRK}

Data == {Zero, Kernel} \cup WriteData \cup {Image[i] : i \in DOMAIN Image}

(***************************************************************************)
(* The linker script and load_program give segments that start on a page   *)
(* boundary and do not share a page; their closed intervals must not touch *)
(* each other, the heap or the stack, because find_vma takes vm_end for an *)
(* address of the area.                                                    *)
(***************************************************************************)
ASSUME SizeAssumption ==
  /\ PGSIZE \in Nat \ {0} /\ FANOUT \in Nat \ {0}
  /\ NR_FRAMES \in Nat \ {0} /\ MaxDropped \in Nat /\ MaxTasks \in Nat \ {0}
  /\ USER_END \in Nat /\ START_BRK \in Addr
  /\ USER_END - PGSIZE \in Addr

ASSUME SegmentAssumption ==
  /\ Segments \in Seq(Vma)
  /\ \A i \in DOMAIN Segments :
       LET s == Segments[i] IN
       /\ PgRoundDown(s.vm_pgoff) = s.vm_pgoff
       /\ s.vm_start < s.vm_end /\ s.vm_end < START_BRK
       /\ s.vm_filesz <= s.vm_end - s.vm_start
       /\ \A j \in DOMAIN Segments :
            i < j => s.vm_end < Segments[j].vm_start

\* load_program never marks an area of the file as anonymous.
ASSUME FileAssumption ==
  \A i \in DOMAIN Segments : "ANON" \notin Segments[i].vm_flags

ASSUME LayoutAssumption ==
  /\ PgRoundDown(START_BRK) = START_BRK
  /\ PgRoundDown(USER_END) = USER_END
  /\ START_BRK < USER_END - PGSIZE
  /\ UserAddr \subseteq Addr
  /\ BrkArgs \subseteq Nat
  /\ \A b \in BrkArgs : PgRoundUp(b) < USER_END - PGSIZE

ASSUME DataAssumption ==
  /\ Zero # Kernel
  /\ Kernel \notin WriteData
  /\ \A i \in DOMAIN Image : Image[i] # Kernel

VARIABLES
  task_num,   \* last pid given out; task[1 .. task_num] once the fork is over
  current,    \* pid of the running task
  vmas,       \* vmas[p], the list mm->mmap of p, head first
  brk,        \* brk[p], mm->brk
  pt,         \* pt[p][pg], leaf page-table entry of p
  tables,     \* tables[p], interior page tables of p that exist
  refcnt,     \* buddy.ref_cnt; zero means the frame is free
  content,    \* what a frame holds
  tlb,        \* tlb[pg], a cached translation older than the page table
  kop         \* where the kernel is

vars == <<task_num, current, vmas, brk, pt, tables, refcnt, content, tlb, kop>>

NoPte  == [ppn |-> 0, flags |-> {}]
NoPtes == [pg \in Pages |-> NoPte]
Kops == [at : {"user", "fork", "unmap"}, off : BOOLEAN,
         vma : Nat, va : Nat, end : 0..USER_END, brk : Breaks]
User == [at |-> "user", off |-> FALSE, vma |-> 0, va |-> 0, end |-> 0, brk |-> START_BRK]
At(place) == kop.at = place /\ ~kop.off

TypeOK ==
  /\ task_num \in Tasks /\ current \in Tasks
  /\ vmas \in [Tasks -> Seq(Vma)]
  /\ brk \in [Tasks -> Breaks]
  /\ pt \in [Tasks -> [Pages -> Pte]]
  /\ tables \in [Tasks -> SUBSET ({0, 1} \X Nat)]
  /\ refcnt \in [Frames -> Nat]
  /\ content \in [Frames -> Data]
  /\ tlb \in [Pages -> Pte]
  /\ kop \in Kops

-----------------------------------------------------------------------------
(* Frames: buddy_alloc, ref_page, deref_page                               *)

Free(rc) == {f \in Frames : rc[f] = 0}

\* The n frames that n calls of alloc_page return, lowest first.
LowestFree(rc, n) ==
  LET free == Free(rc) IN {f \in free : Cardinality({g \in free : g < f}) < n}

\* Reference counts and contents once the kernel took frames F for itself.
Taken(rc, F) == [f \in Frames |-> IF f \in F THEN 1 ELSE rc[f]]
Claimed(F) == [f \in Frames |-> IF f \in F THEN Kernel ELSE content[f]]

RefForgotten(rc, f) == rc

Deref(rc, f) == [rc EXCEPT ![f] = IF @ > 0 THEN @ - 1 ELSE 0]
Ref(rc, f)   == [rc EXCEPT ![f] = IF @ > 0 THEN @ + 1 ELSE 0]

\* buddy_alloc resets the machine when no block is left.
OutOfMemory(rc, n) ==
  /\ Cardinality(Free(rc)) < n
  /\ kop' = [kop EXCEPT !.off = TRUE]
  /\ UNCHANGED <<task_num, current, vmas, brk, pt, tables, refcnt, content, tlb>>

-----------------------------------------------------------------------------
(* Page tables: walk_page_table, vm_create_mapping                         *)

Mapped(p, pg) == "V" \in pt[p][pg].flags

Leaf(f, perm) == [ppn |-> f, flags |-> perm \cup {"V"}]

Interior(pg) == {<<1, pg \div (FANOUT * FANOUT)>>, <<0, pg \div FANOUT>>}
NewTables(p, pg) == Interior(pg) \ tables[p]

PermUnmasked(v) == v.vm_flags \cup {"U"}

\* (vm_flags << 1) | PTE_U: the four VM bits land on R, W, X and U.
PermOf(v) == (v.vm_flags \ {"ANON"}) \cup {"U"}

SharedPermKeepsW(flags) == IF "W" \in flags THEN flags \cup {"S"} ELSE flags

\* What do_fork makes of a parent's entry, and gives to the child as well.
SharedPerm(flags) == IF "W" \in flags THEN (flags \ {"W"}) \cup {"S"} ELSE flags

SfenceLost == tlb

\* sfence.vma: every cached translation is forgotten.
SfenceVma == NoPtes

\* The page-table entries that name frame f.
Mappers(f) ==
  {m \in Tasks \X Pages : Mapped(m[1], m[2]) /\ pt[m[1]][m[2]].ppn = f}

\* Frames with user data that are allocated and that no entry names.
Dropped ==
  LET named == {pt[m[1]][m[2]].ppn : m \in {m \in Tasks \X Pages : Mapped(m[1], m[2])}}
  IN {f \in Frames : content[f] # Kernel /\ refcnt[f] > 0} \ named

-----------------------------------------------------------------------------
(* Areas: find_vma, do_mmap, load_program, task_init                       *)

Covers(v, a) == v.vm_start <= a /\ a <= v.vm_end

\* The index of the first area of the list that covers a; empty for NULL.
FindVma(l, a) ==
  {i \in DOMAIN l : Covers(l[i], a) /\ \A j \in 1..(i - 1) : ~Covers(l[j], a)}

SetEndInclusive(l, i, end) == [l EXCEPT ![i].vm_end = end - 1]

\* do_vma_mmap and do_vma_munmap store the new end of an area.
SetEnd(l, i, end) == [l EXCEPT ![i].vm_end = end]

Reverse(l) == [i \in DOMAIN l |-> l[Len(l) + 1 - i]]

DoMmap(l, v) == <<v>> \o l

StackVma == [vm_start |-> USER_END - PGSIZE, vm_end |-> USER_END,
             vm_pgoff |-> 0, vm_filesz |-> 0, vm_flags |-> {"R", "W", "ANON"}]
HeapVma  == [vm_start |-> START_BRK, vm_end |-> START_BRK,
             vm_pgoff |-> 0, vm_filesz |-> 0, vm_flags |-> {"R", "W", "ANON"}]

\* Each do_mmap pushes at the head, so the segments end up in reverse.
InitialVmas == DoMmap(DoMmap(Reverse(Segments), StackVma), HeapVma)

\* task_struct of idle; then task_struct, mm, one page per area, pgd,
\* sighand, signal and files of task 1.
BootFrames == 7 + Len(InitialVmas)

Init ==
  /\ task_num = 1
  /\ current = 1
  /\ vmas = [p \in Tasks |-> IF p = 1 THEN InitialVmas ELSE <<>>]
  /\ brk = [p \in Tasks |-> START_BRK]
  /\ pt = [p \in Tasks |-> NoPtes]
  /\ tables = [p \in Tasks |-> {}]
  /\ refcnt = [f \in Frames |-> IF f < BootFrames THEN 1 ELSE 0]
  /\ content = [f \in Frames |-> IF f < BootFrames THEN Kernel ELSE Zero]
  /\ tlb = NoPtes
  /\ kop = User

-----------------------------------------------------------------------------
(* The running program                                                     *)

(***************************************************************************)
(* The hardware caches one translation per page.  It is the present entry, *)
(* or one the kernel replaced and has not flushed (tlb); a walk may happen *)
(* at any time and then forgets the old one.                               *)
(***************************************************************************)
Translations(pg) == {pt[current][pg], tlb[pg]}

\* A store goes to the frame the translation names, if that allows stores.
Store(pg, d) ==
  /\ At("user")
  /\ \E e \in Translations(pg) :
       /\ {"V", "W", "U"} \subseteq e.flags
       /\ content' = [content EXCEPT ![e.ppn] = d]
       /\ tlb' = [tlb EXCEPT ![pg] = IF e = pt[current][pg] THEN NoPte ELSE @]
  /\ UNCHANGED <<task_num, current, vmas, brk, pt, tables, refcnt, kop>>

\* switch_to another task: __switch_to writes satp and runs sfence.vma.
Switch(p) ==
  /\ At("user")
  /\ p # current
  /\ p <= task_num
  /\ current' = p
  /\ tlb' = SfenceVma
  /\ UNCHANGED <<task_num, vmas, brk, pt, tables, refcnt, content, kop>>

-----------------------------------------------------------------------------
(* do_page_fault; scause 12, 13 and 15 are the kinds X, R and W            *)

\* The hardware faults when the translation it uses forbids the access.
Faulting(kind, pg) ==
  \E e \in Translations(pg) :
    /\ e = pt[current][pg] \/ "V" \in e.flags
    /\ ~({"V", kind} \subseteq e.flags)

\* No area, or one that forbids the access: return, and the program faults again.
FaultRejected(kind, a) ==
  LET l == vmas[current] IN
  /\ \A i \in FindVma(l, a) : kind \notin l[i].vm_flags
  /\ UNCHANGED vars

\* Mapped and not shared: nothing to do, the access is retried.
FaultSpurious(kind, a) ==
  LET l == vmas[current] IN
  /\ \E i \in FindVma(l, a) : kind \in l[i].vm_flags
  /\ Mapped(current, PageOf(a))
  /\ "S" \notin pt[current][PageOf(a)].flags
  /\ UNCHANGED vars

\* Shared: give the task a frame of its own.  deref_page refuses only a free
\* frame; the other branch drops a reference, copies and counts the mapping.
FaultCow(kind, a) ==
  LET l == vmas[current]  pg == PageOf(a)  old == pt[current][pg]
      rc == Deref(refcnt, old.ppn)
  IN
  \E i \in FindVma(l, a) :
    /\ kind \in l[i].vm_flags
    /\ {"V", "S"} \subseteq old.flags
    /\ IF refcnt[old.ppn] = 0
       THEN /\ pt' = [pt EXCEPT ![current][pg] =
                        Leaf(old.ppn, (old.flags \ {"S"}) \cup {"W"})]
            /\ tlb' = [tlb EXCEPT ![pg] = old]
            /\ UNCHANGED <<refcnt, content, kop>>
       ELSE \/ \E new \in LowestFree(rc, 1) :
                 /\ content' = [content EXCEPT ![new] = content[old.ppn]]
                 /\ pt' = [pt EXCEPT ![current][pg] = Leaf(new, PermOf(l[i]))]
                 /\ refcnt' = Ref(Taken(rc, {new}), new)
                 /\ tlb' = [tlb EXCEPT ![pg] = old]
                 /\ UNCHANGED kop
            \/ OutOfMemory(rc, 1)
    /\ UNCHANGED <<task_num, current, vmas, brk, tables>>

FreshPageOfFile(v, pg, f) ==
  LET off == pg * PGSIZE - v.vm_start IN
  IF "ANON" \in v.vm_flags THEN content[f]
  ELSE IF off >= v.vm_filesz THEN Zero
  ELSE Image[PageOf(off)]

\* What a fresh page of area v holds: a file page, zeros past the file, and
\* for an anonymous area whatever the frame held.
FreshPage(v, pg, f) ==
  LET off == pg * PGSIZE - v.vm_start IN
  IF "ANON" \in v.vm_flags THEN content[f]
  ELSE IF off >= v.vm_filesz THEN Zero
  ELSE Image[PageOf(v.vm_pgoff + off)]

\* Not mapped: a frame for the page, then frames for missing page tables.
FaultDemand(kind, a) ==
  LET l == vmas[current]  pg == PageOf(a)  nt == NewTables(current, pg)
      F == LowestFree(refcnt, 1 + Cardinality(nt))
  IN
  \E i \in FindVma(l, a) :
    /\ kind \in l[i].vm_flags
    /\ ~Mapped(current, pg)
    /\ \/ \E new \in LowestFree(refcnt, 1) :
            /\ Cardinality(F) = 1 + Cardinality(nt)
            /\ pt' = [pt EXCEPT ![current][pg] = Leaf(new, PermOf(l[i]))]
            /\ tables' = [tables EXCEPT ![current] = @ \cup nt]
            /\ content' = [Claimed(F) EXCEPT ![new] = FreshPage(l[i], pg, new)]
            /\ refcnt' = Ref(Taken(refcnt, F), new)
            /\ UNCHANGED <<task_num, current, vmas, brk, tlb, kop>>
       \/ OutOfMemory(refcnt, 1 + Cardinality(nt))

PageFault(kind, a) ==
  /\ At("user")
  /\ Faulting(kind, PageOf(a))
  /\ \/ FaultRejected(kind, a)
     \/ FaultSpurious(kind, a)
     \/ FaultCow(kind, a)
     \/ FaultDemand(kind, a)

-----------------------------------------------------------------------------
(* do_fork: pid and bookkeeping pages, one step per page of every area,    *)
(* then files, sfence.vma and the entry in the task table                  *)

ForkBegin ==
  LET n == 5 + Len(vmas[current])  F == LowestFree(refcnt, n) IN
  /\ At("user")
  /\ task_num < MaxTasks
  /\ \/ /\ Cardinality(F) = n
        /\ task_num' = task_num + 1
        /\ vmas' = [vmas EXCEPT ![task_num + 1] = Reverse(vmas[current])]
        /\ refcnt' = Taken(refcnt, F)
        /\ content' = Claimed(F)
        /\ kop' = [User EXCEPT !.at = "fork"]
        /\ UNCHANGED <<current, brk, pt, tables, tlb>>
     \/ OutOfMemory(refcnt, n)

\* One page of the area: a mapped page is shared, and if it was writable both
\* tasks lose the right to write and get the S mark.
ForkPage ==
  LET l == vmas[current]  pg == PageOf(kop.va)  pte == pt[current][pg]
      perm == SharedPerm(pte.flags)
      nt == NewTables(task_num, pg)  F == LowestFree(refcnt, Cardinality(nt))
  IN
  /\ At("fork")
  /\ kop.vma \in DOMAIN l
  /\ kop.va < l[kop.vma].vm_end
  /\ IF Mapped(current, pg)
     THEN \/ /\ Cardinality(F) = Cardinality(nt)
             /\ pt' = [pt EXCEPT ![current][pg] = Leaf(pte.ppn, perm),
                                 ![task_num][pg] = Leaf(pte.ppn, perm)]
             /\ tables' = [tables EXCEPT ![task_num] = @ \cup nt]
             /\ refcnt' = Ref(Taken(refcnt, F), pte.ppn)
             /\ content' = Claimed(F)
             /\ tlb' = [tlb EXCEPT ![pg] = pte]
             /\ kop' = [kop EXCEPT !.va = @ + PGSIZE]
             /\ UNCHANGED <<task_num, current, vmas, brk>>
          \/ OutOfMemory(refcnt, Cardinality(nt))
     ELSE /\ kop' = [kop EXCEPT !.va = @ + PGSIZE]
          /\ UNCHANGED <<task_num, current, vmas, brk, pt, tables, refcnt,
                         content, tlb>>

ForkNextVma ==
  LET l == vmas[current] IN
  /\ At("fork")
  /\ kop.vma <= Len(l)
  /\ kop.vma > 0 => kop.va >= l[kop.vma].vm_end
  /\ kop' = [kop EXCEPT !.vma = @ + 1,
               !.va = IF kop.vma < Len(l) THEN l[kop.vma + 1].vm_start ELSE 0]
  /\ UNCHANGED <<task_num, current, vmas, brk, pt, tables, refcnt, content, tlb>>

ForkEnd ==
  LET F == LowestFree(refcnt, 1) IN
  /\ At("fork")
  /\ kop.vma > Len(vmas[current])
  /\ \/ /\ Cardinality(F) = 1
        /\ brk' = [brk EXCEPT ![task_num] = brk[current]]
        /\ refcnt' = Taken(refcnt, F)
        /\ content' = Claimed(F)
        /\ tlb' = SfenceVma
        /\ kop' = User
        /\ UNCHANGED <<task_num, current, vmas, pt, tables>>
     \/ OutOfMemory(refcnt, 1)

-----------------------------------------------------------------------------
(* sys_brk, do_vma_mmap, do_vma_munmap, unmap_page                         *)

OldBrk == PgRoundUp(brk[current])

\* A query, a break below the start, or one in the page of the old break:
\* nothing changes, mm->brk included.
BrkUnchanged(b) ==
  /\ At("user")
  /\ b = 0 \/ PgRoundUp(b) < START_BRK \/ PgRoundUp(b) = OldBrk
  /\ UNCHANGED vars

BrkGrow(b) ==
  /\ At("user")
  /\ PgRoundUp(b) > OldBrk
  /\ \E i \in FindVma(vmas[current], OldBrk) :
       vmas' = [vmas EXCEPT ![current] = SetEnd(@, i, PgRoundUp(b))]
  /\ brk' = [brk EXCEPT ![current] = b]
  /\ UNCHANGED <<task_num, current, pt, tables, refcnt, content, tlb, kop>>

\* do_vma_munmap is given [new, old) and stores the old end in the area.
BrkShrink(b) ==
  /\ At("user")
  /\ b > 0
  /\ Cardinality(Dropped) < MaxDropped
  /\ START_BRK <= PgRoundUp(b) /\ PgRoundUp(b) < OldBrk
  /\ \E i \in FindVma(vmas[current], OldBrk) :
       vmas' = [vmas EXCEPT ![current] = SetEnd(@, i, OldBrk)]
  /\ kop' = [User EXCEPT !.at = "unmap", !.va = PgRoundUp(b),
                         !.end = OldBrk, !.brk = b]
  /\ UNCHANGED <<task_num, current, brk, pt, tables, refcnt, content, tlb>>

\* A shared page is first copied to a new frame, which is then dropped with
\* the entry; either way the entry is cleared.
UnmapPage ==
  LET pg == PageOf(kop.va)  pte == pt[current][pg]  rc == Deref(refcnt, pte.ppn) IN
  /\ At("unmap")
  /\ kop.va < kop.end
  /\ \/ /\ ~Mapped(current, pg)
        /\ kop' = [kop EXCEPT !.va = @ + PGSIZE]
        /\ UNCHANGED <<task_num, current, vmas, brk, pt, tables, refcnt,
                       content, tlb>>
     \/ /\ Mapped(current, pg)
        /\ "S" \notin pte.flags \/ refcnt[pte.ppn] = 0
        /\ refcnt' = rc
        /\ pt' = [pt EXCEPT ![current][pg] = NoPte]
        /\ tlb' = [tlb EXCEPT ![pg] = pte]
        /\ kop' = [kop EXCEPT !.va = @ + PGSIZE]
        /\ UNCHANGED <<task_num, current, vmas, brk, tables, content>>
     \/ /\ Mapped(current, pg)
        /\ "S" \in pte.flags /\ refcnt[pte.ppn] > 0
        /\ \/ \E new \in LowestFree(rc, 1) :
                /\ refcnt' = Taken(rc, {new})
                /\ content' = [content EXCEPT ![new] = content[pte.ppn]]
                /\ pt' = [pt EXCEPT ![current][pg] = NoPte]
                /\ tlb' = [tlb EXCEPT ![pg] = pte]
                /\ kop' = [kop EXCEPT !.va = @ + PGSIZE]
                /\ UNCHANGED <<task_num, current, vmas, brk, tables>>
           \/ OutOfMemory(rc, 1)

UnmapEnd ==
  /\ At("unmap")
  /\ kop.va >= kop.end
  /\ brk' = [brk EXCEPT ![current] = kop.brk]
  /\ tlb' = SfenceVma
  /\ kop' = User
  /\ UNCHANGED <<task_num, current, vmas, pt, tables, refcnt, content>>

\* The machine stays off after a reset request.
PoweredOff == kop.off /\ UNCHANGED vars

-----------------------------------------------------------------------------
Next ==
  \/ \E a \in UserAddr, d \in WriteData : Store(PageOf(a), d)
  \/ \E p \in Tasks : Switch(p)
  \/ \E kind \in {"X", "R", "W"}, a \in UserAddr : PageFault(kind, a)
  \/ ForkBegin
  \/ ForkPage
  \/ ForkNextVma
  \/ ForkEnd
  \/ \E b \in BrkArgs : BrkUnchanged(b)
  \/ \E b \in BrkArgs : BrkGrow(b)
  \/ \E b \in BrkArgs : BrkShrink(b)
  \/ UnmapPage
  \/ UnmapEnd
  \/ PoweredOff

Spec == Init /\ [][Next]_vars
-----------------------------------------------------------------------------
(* Properties                                                              *)

\* Tasks in the task table: do_fork enters the child last.
Existing == 1..(IF kop.at = "fork" THEN task_num - 1 ELSE task_num)

\* The reference count of a mapped frame is one more than the number of
\* entries that name it (alloc_page counts one, do_page_fault and do_fork one
\* per entry), in the middle of a fork or an unmap too.  Code: ref_page and
\* deref_page as do_page_fault, do_fork and unmap_page call them.
RefCountExact ==
  \A f \in Frames :
    Mappers(f) # {} => refcnt[f] = 1 + Cardinality(Mappers(f))

\* A page that may be written is named by one entry only, so a store is never
\* seen by another task.  Code: do_fork clears W in parent and child.
WritableIsPrivate ==
  \A p \in Tasks, pg \in Pages :
    Mapped(p, pg) /\ "W" \in pt[p][pg].flags
      => Mappers(pt[p][pg].ppn) = {<<p, pg>>}

\* A free frame holds zeros.  alloc_page does not clear its page, and an
\* anonymous page, a page table and the mm of a child all take it for zero.
FreeFramesZeroed == \A f \in Free(refcnt) : content[f] = Zero

\* While a program runs, a cached translation reads what the page table would
\* give, and one that allows stores names the mapped frame of a writable
\* entry.  Code: where do_fork, unmap_page and __switch_to run sfence.vma,
\* and where do_page_fault does not.
TlbCoherent ==
  kop.at = "user" =>
    \A pg \in Pages :
      "V" \in tlb[pg].flags =>
        /\ Mapped(current, pg)
        /\ content[tlb[pg].ppn] = content[pt[current][pg].ppn]
        /\ "W" \in tlb[pg].flags => tlb[pg] = pt[current][pg]

\* sys_brk looks the heap up by its rounded old break and uses the result
\* unchecked: for every task that lookup finds the heap.  Code: sys_brk.
BrkFindsHeap ==
  \A p \in Existing :
    \E i \in FindVma(vmas[p], PgRoundUp(brk[p])) :
      vmas[p][i].vm_start = START_BRK

(***************************************************************************)
(* The refinement: what a task reads in a page is the content of the frame *)
(* the page maps to or, before it is mapped, what demand paging will give. *)
(***************************************************************************)
PagesOf(v) == {pg \in Pages : /\ pg * PGSIZE + PGSIZE > v.vm_start
                              /\ pg * PGSIZE < v.vm_end}
SegmentPages(s) == PagesOf(Segments[s])

\* What demand paging gives in a page no store has reached.
Fresh ==
  [pg \in Pages |->
    IF \E s \in DOMAIN Segments : pg \in SegmentPages(s)
    THEN LET s == CHOOSE s \in DOMAIN Segments : pg \in SegmentPages(s)
             v == Segments[s]
             off == pg * PGSIZE - v.vm_start
         IN IF off < v.vm_filesz THEN Image[PageOf(v.vm_pgoff + off)] ELSE Zero
    ELSE Zero]

View(p, pg) == IF Mapped(p, pg) THEN content[pt[p][pg].ppn] ELSE Fresh[pg]

\* The first page above the heap; brk starts by giving the tail back.
HeapLimit(p) ==
  IF kop.at = "unmap" /\ p = current
  THEN PageOf(PgRoundUp(kop.brk)) ELSE PageOf(PgRoundUp(brk[p]))

StaticPages == (UNION {SegmentPages(s) : s \in DOMAIN Segments}) \cup PagesOf(StackVma)

\* Pages task p may use.
Usable(p) == StaticPages \cup PageOf(START_BRK)..(HeapLimit(p) - 1)

Private ==
  INSTANCE PrivateMemory WITH
    ReadOnly <- UNION {SegmentPages(s) : s \in
                  {i \in DOMAIN Segments : "W" \notin Segments[i].vm_flags}},
    Static <- StaticPages,
    Data <- WriteData,
    Initial <- Fresh,
    HeapStart <- PageOf(START_BRK),
    ntasks <- Cardinality(Existing),
    mem <- [p \in Tasks |->
             IF p \in Existing THEN [pg \in Pages |-> View(p, pg)] ELSE Fresh],
    limit <- [p \in Tasks |->
               IF p \in Existing THEN HeapLimit(p) ELSE PageOf(START_BRK)]

\* Copy on write, demand paging and brk give every task the private memory
\* PrivateMemory promises: forks copy, stores stay at home, read-only pages
\* keep the file's content, and what brk gives back reads as fresh again.
RefinesPrivateMemory == Private!Spec
=============================================================================
