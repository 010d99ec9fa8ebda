------------------------------- MODULE Malloc -------------------------------
(***************************************************************************)
(* malloc and free of a user program (user/src/memalloc.c) on sbrk         *)
(* (user/src/syscalls.c) on the system call brk (kernel/ksyscalls.c).      *)
(*                                                                         *)
(* Every block has a header in front of it; the headers are a list from    *)
(* head to tail.  The two loops over that list are steps of their own: a   *)
(* lost link would show as a walk that ends in NULL.  Addresses are        *)
(* numbers, and the heap starts above NULL.                                *)
(*                                                                         *)
(* Operators named after a defect (LinkedToHead ...) are not used: each    *)
(* is a wrong form of the definition after it that the properties must     *)
(* tell from the right one.                                                *)
(***************************************************************************)
EXTENDS Integers

CONSTANTS
  PageSize,
  HeapStart,   \* mm->start_brk
  HeaderSize,  \* sizeof(header_t)
  Sizes,       \* what the program asks for
  MaxBreak     \* bound: the program asks for no more when the break would pass it

ASSUME MallocAssumption ==
  /\ PageSize \in Nat \ {0}
  /\ HeapStart \in Nat \ {0} /\ HeapStart % PageSize = 0
  /\ HeaderSize \in Nat \ {0}
  /\ Sizes \subseteq Nat \ {0}
  /\ MaxBreak \in Nat

NULL == 0

VARIABLES
  header,       \* the headers in memory: address -> size, is_free, next
  head, tail,   \* of the list
  current_brk,  \* the static of sbrk
  mm,           \* the kernel's brk, and the end of the heap area
  loop,         \* which loop the program is in
  current,      \* the cursor of that loop
  arg,          \* the size asked for, or the header to be unlinked
  live          \* what the program holds: pointer -> the size it asked for

vars == <<header, head, tail, current_brk, mm, loop, current, arg, live>>

PgRoundUp(a) == ((a + PageSize - 1) \div PageSize) * PageSize
Headers == DOMAIN header
End(h) == h + HeaderSize + header[h].size
Pointer(h) == h + HeaderSize    \* header + 1

Without(f, x) == [y \in DOMAIN f \ {x} |-> f[y]]
With(f, x, v) == [y \in DOMAIN f \cup {x} |-> IF y = x THEN v ELSE f[y]]

TypeOK ==
  /\ header \in [Headers -> [size : Nat \ {0}, is_free : BOOLEAN, next : Nat]]
  /\ Headers \subseteq Nat
  /\ head \in Nat /\ tail \in Nat
  /\ current_brk \in Nat
  /\ mm \in [brk : Nat, end : Nat]
  /\ loop \in {"none", "get_free_block", "unlink"}
  /\ current \in Nat /\ arg \in Nat
  /\ live \in [DOMAIN live -> Nat \ {0}] /\ DOMAIN live \subseteq Nat

Init ==
  /\ header = [h \in {} |-> [size |-> 1, is_free |-> FALSE, next |-> NULL]]
  /\ live = [p \in {} |-> 1]
  /\ head = NULL /\ tail = NULL /\ current_brk = NULL
  /\ mm = [brk |-> HeapStart, end |-> HeapStart]
  /\ loop = "none" /\ current = NULL /\ arg = 0

\* sys_brk: what it returns and what it makes of mm.  A smaller break unmaps the pages
\* but leaves the area its old end.
SysBrk(m, brk) ==
  LET oldbrk == PgRoundUp(m.brk)
      newbrk == PgRoundUp(brk)
  IN CASE brk = 0 -> [ret |-> oldbrk, mm |-> m]
       [] brk # 0 /\ newbrk < HeapStart -> [ret |-> m.brk, mm |-> m]
       [] brk # 0 /\ newbrk >= HeapStart /\ newbrk = oldbrk -> [ret |-> brk, mm |-> m]
       [] OTHER -> [ret |-> brk,
                    mm |-> [brk |-> brk, end |-> IF newbrk < oldbrk THEN oldbrk ELSE newbrk]]

\* sbrk: current_brk becomes whatever brk answers; the result is the old one, or -1.
OldBrk == IF current_brk = NULL THEN SysBrk(mm, NULL).ret ELSE current_brk
Sbrk(increment) ==
  LET new_brk == OldBrk + increment
      answer == SysBrk(mm, new_brk)
  IN [ret |-> IF answer.ret = new_brk THEN OldBrk ELSE -1,
      current_brk |-> answer.ret, mm |-> answer.mm]
SbrkSets(increment) ==
  /\ current_brk' = Sbrk(increment).current_brk
  /\ mm' = Sbrk(increment).mm

-----------------------------------------------------------------------------
\* malloc(0) returns NULL and changes nothing.
Malloc(size) ==
  /\ loop = "none"
  /\ loop' = "get_free_block" /\ current' = head /\ arg' = size
  /\ UNCHANGED <<header, head, tail, current_brk, mm, live>>

Return == loop' = "none" /\ current' = NULL /\ arg' = 0

Suits(h) == header[h].is_free /\ header[h].size >= arg

GetFreeBlockSame ==
  /\ loop = "get_free_block" /\ current # NULL /\ ~Suits(current)
  /\ current' = head
  /\ UNCHANGED <<header, head, tail, current_brk, mm, loop, arg, live>>

GetFreeBlockNext ==
  /\ loop = "get_free_block" /\ current # NULL /\ ~Suits(current)
  /\ current' = header[current].next
  /\ UNCHANGED <<header, head, tail, current_brk, mm, loop, arg, live>>

\* The first block that is large enough is taken as it is.
Reuse ==
  /\ loop = "get_free_block" /\ current # NULL /\ Suits(current)
  /\ header' = [header EXCEPT ![current].is_free = FALSE]
  /\ live' = With(live, Pointer(current), arg)
  /\ Return
  /\ UNCHANGED <<head, tail, current_brk, mm>>

NewHeader == [size |-> arg, is_free |-> FALSE, next |-> NULL]
LinkedToHead(new_block) ==
  IF head = NULL THEN With(header, new_block, NewHeader)
  ELSE With([header EXCEPT ![head].next = new_block], new_block, NewHeader)
Linked(new_block) ==
  IF head = NULL THEN With(header, new_block, NewHeader)
  ELSE With([header EXCEPT ![tail].next = new_block], new_block, NewHeader)

Extend ==
  /\ loop = "get_free_block" /\ current = NULL
  /\ LET total_size == HeaderSize + arg
         new_block == Sbrk(total_size).ret
     IN /\ SbrkSets(total_size)
        /\ IF new_block = -1
           THEN UNCHANGED <<header, head, tail, live>>
           ELSE /\ header' = Linked(new_block)
                /\ head' = IF head = NULL THEN new_block ELSE head
                /\ tail' = new_block
                /\ live' = With(live, Pointer(new_block), arg)
  /\ Return

-----------------------------------------------------------------------------
\* free(NULL) returns at once.  A block is the last one when it ends at sbrk(0).
IsLast(h) == End(h) = Sbrk(0).ret

FreeInner(p) ==
  LET h == p - HeaderSize IN
  /\ loop = "none" /\ ~IsLast(h)
  /\ header' = [header EXCEPT ![h].is_free = TRUE]
  /\ live' = Without(live, p)
  /\ SbrkSets(0)
  /\ UNCHANGED <<head, tail, loop, current, arg>>

FreeOnly(p) ==
  LET h == p - HeaderSize IN
  /\ loop = "none" /\ IsLast(h) /\ head = tail
  /\ head' = NULL /\ tail' = NULL
  /\ SbrkSets(-(header[h].size + HeaderSize))
  /\ header' = Without(header, h)
  /\ live' = Without(live, p)
  /\ UNCHANGED <<loop, current, arg>>

FreeLast(p) ==
  LET h == p - HeaderSize IN
  /\ loop = "none" /\ IsLast(h) /\ head # tail
  /\ loop' = "unlink" /\ current' = head /\ arg' = h
  /\ live' = Without(live, p)
  /\ SbrkSets(0)
  /\ UNCHANGED <<header, head, tail>>

UnlinkNext ==
  /\ loop = "unlink" /\ header[current].next # tail
  /\ current' = header[current].next
  /\ UNCHANGED <<header, head, tail, current_brk, mm, loop, arg, live>>

UnlinkTwoHeaders ==
  /\ loop = "unlink" /\ header[current].next = tail
  /\ SbrkSets(-(header[arg].size + 2 * HeaderSize))
  /\ header' = Without([header EXCEPT ![current].next = NULL], arg)
  /\ tail' = current
  /\ Return
  /\ UNCHANGED <<head, live>>

\* The header goes back to the kernel with its block.
Unlink ==
  /\ loop = "unlink" /\ header[current].next = tail
  /\ SbrkSets(-(header[arg].size + HeaderSize))
  /\ header' = Without([header EXCEPT ![current].next = NULL], arg)
  /\ tail' = current
  /\ Return
  /\ UNCHANGED <<head, live>>

Next ==
  \/ \E size \in Sizes : OldBrk + HeaderSize + size <= MaxBreak /\ Malloc(size)
  \/ \E p \in DOMAIN live : FreeInner(p) \/ FreeOnly(p) \/ FreeLast(p)
  \/ GetFreeBlockNext \/ Reuse \/ Extend \/ UnlinkNext \/ Unlink

Calls == GetFreeBlockNext \/ Reuse \/ Extend \/ UnlinkNext \/ Unlink

Spec == Init /\ [][Next]_vars /\ WF_vars(Calls)

-----------------------------------------------------------------------------
\* What the program holds overlaps no header and nothing else it holds, is as large as
\* it asked for, and lies in pages that the kernel has given and not taken back
\* (malloc and free over sbrk and sys_brk).
BlocksApart ==
  /\ \A p \in DOMAIN live :
       /\ HeapStart <= p /\ p + live[p] <= PgRoundUp(mm.brk) /\ p + live[p] <= mm.end
       /\ \A q \in DOMAIN live \ {p} : p + live[p] <= q \/ q + live[q] <= p
       /\ \A h \in Headers : p + live[p] <= h \/ h + HeaderSize <= p

\* The headers are one list that tiles the heap from its start to the break, each
\* block linked to the one that starts where it ends: no memory is lost, whatever the
\* order of the calls (the links of malloc and free).
ListTiles ==
  /\ IF Headers = {} THEN head = NULL /\ tail = NULL
                     ELSE head = HeapStart /\ {head, tail} \subseteq Headers /\ End(tail) = current_brk
  /\ \A h \in Headers : IF h = tail THEN header[h].next = NULL
                                    ELSE header[h].next = End(h) /\ End(h) \in Headers

\* The loops only look at headers, and the loop of free at one in front of the tail: it
\* never follows a NULL (get_free_block, free).
WalksStayInList ==
  /\ loop = "get_free_block" => current \in Headers \cup {NULL}
  /\ loop = "unlink" => current \in Headers /\ current < tail /\ tail = arg

\* sbrk and the kernel agree on the page of the break although the kernel keeps the old
\* break when the page stays the same (sys_brk, sbrk).
BreaksAgree == current_brk # NULL => PgRoundUp(current_brk) = PgRoundUp(mm.brk)

\* A block that is neither free nor being freed is one the program holds: none leaks
\* (is_free in malloc and free).
NoneLeaks ==
  \A h \in Headers : header[h].is_free \/ Pointer(h) \in DOMAIN live
                       \/ (loop = "unlink" /\ h = arg)

\* The bookkeeping of malloc is sound: its types, the tiling of the heap by the
\* list, loops that stay in the list, one break for sbrk and the kernel, and no
\* block that is neither free nor held (malloc and free).
HeapWhole == TypeOK /\ ListTiles /\ WalksStayInList /\ BreaksAgree /\ NoneLeaks

\* malloc and free keep the promise of UserHeap.
Heap == INSTANCE UserHeap WITH Bottom <- HeapStart,
          top <- IF current_brk = NULL THEN HeapStart ELSE current_brk
RefinesUserHeap == Heap!HeapSpec

\* Every call of malloc and free returns (the two loops end).
CallsReturn == loop # "none" ~> loop = "none"
=============================================================================
