------------------------------- MODULE Buddy -------------------------------
(***************************************************************************)
(* The page allocator of mm.c: a buddy system in a complete binary tree,   *)
(* with reference counts.  bitmap[i] is the length of the longest free     *)
(* block below node i; the nodes below an allocated block keep their old   *)
(* values, and buddy_free finds the block of a page by climbing to the     *)
(* first zero.                                                             *)
(*                                                                         *)
(* Operators named after a defect (DescendGreater ...) are not used: each  *)
(* is a wrong form of a definition after it that the properties must tell  *)
(* from the right one.                                                     *)
(***************************************************************************)
EXTENDS Integers, FiniteSets

CONSTANTS
  SIZE,      \* buddy.size, pages managed, a power of two
  Reserved,  \* pages below free_page_start, allocated by buddy_init
  Requests,  \* bound: numbers of pages callers ask for
  MaxRef     \* bound: references a block gets

\* Powers of two.
Pow2[k \in Nat] == IF k = 0 THEN 1 ELSE 2 * Pow2[k - 1]

ASSUME BuddyAssumption ==
  /\ \E k \in 0..SIZE : SIZE = Pow2[k]
  /\ Reserved \in 0..SIZE
  /\ Requests \subseteq Nat
  /\ MaxRef \in Nat \ {0}

Pages == 0..(SIZE - 1)
Nodes == 0..(2 * SIZE - 2)

VARIABLES
  bitmap,   \* buddy.bitmap
  ref_cnt,  \* buddy.ref_cnt
  answer,   \* what the last call that has a result returned
  off       \* the machine has been reset for want of memory

vars == <<bitmap, ref_cnt, answer, off>>

Left(i)   == 2 * i + 1
Right(i)  == 2 * i + 2
Parent(i) == ((i + 1) \div 2) - 1
LeafOf(p) == p + SIZE - 1

\* Pages below a node: SIZE at the root, half as many on each level down.
NodeSize == [i \in Nodes |-> CHOOSE len \in {Pow2[k] : k \in 0..SIZE} :
                               SIZE <= (i + 1) * len /\ (i + 1) * len < 2 * SIZE]
FirstPage(i) == (i + 1) * NodeSize[i] - SIZE
Block(p, len) == p..(p + len - 1)
Span == [i \in Nodes |-> Block(FirstPage(i), NodeSize[i])]

\* The nodes on the way from a node, which is left out, to the root.
Above == [i \in Nodes |->
           {j \in Nodes : NodeSize[j] > NodeSize[i] /\ Span[i] \subseteq Span[j]}]

Larger(a, b) == IF a > b THEN a ELSE b

\* The least power of two that is not below n; fixsize.
FixSize(n) == CHOOSE m \in {Pow2[k] : k \in 0..n} :
                m >= n /\ \A k \in 0..n : Pow2[k] >= n => m <= Pow2[k]
Rounded(n) == IF n = 0 THEN 1 ELSE FixSize(n)

-----------------------------------------------------------------------------
(* buddy_alloc                                                             *)

DescendGreater(t, n) ==
  LET from[i \in {j \in Nodes : NodeSize[j] >= n}] ==
        IF NodeSize[i] = n THEN i
        ELSE IF t[Left(i)] > n THEN from[Left(i)] ELSE from[Right(i)]
  IN from[0]

\* Down from the root to a node of n pages, to the left where n pages fit.
Descend(t, n) ==
  LET from[i \in {j \in Nodes : NodeSize[j] >= n}] ==
        IF NodeSize[i] = n THEN i
        ELSE IF t[Left(i)] >= n THEN from[Left(i)] ELSE from[Right(i)]
  IN from[0]

\* Tree t after node i is taken, with the nodes above it brought up to date.
TakeNode(t, i) ==
  LET new[j \in Nodes] == IF j = i THEN 0
                          ELSE IF j \in Above[i] THEN Larger(new[Left(j)], new[Right(j)])
                          ELSE t[j]
  IN new

-----------------------------------------------------------------------------
(* buddy_free                                                              *)

\* Up from the leaf of page p to the first node marked as taken, else the root.
Climb(t, p) ==
  LET from[i \in Nodes] == IF t[i] = 0 \/ i = 0 THEN i ELSE from[Parent(i)]
  IN from[LeafOf(p)]

GiveNodeUnmerged(t, i) ==
  LET new[j \in Nodes] ==
        IF j = i THEN NodeSize[i]
        ELSE IF j \in Above[i] THEN Larger(new[Left(j)], new[Right(j)])
        ELSE t[j]
  IN new

\* Tree t after node i is given back; two free buddies merge.
GiveNode(t, i) ==
  LET new[j \in Nodes] ==
        IF j = i THEN IF t[i] = 0 THEN NodeSize[i] ELSE 2 * NodeSize[i]
        ELSE IF j \in Above[i]
             THEN LET l == new[Left(j)]  r == new[Right(j)] IN
                  IF l + r = NodeSize[j] THEN NodeSize[j] ELSE Larger(l, r)
             ELSE t[j]
  IN new

BuddyFree(t, rc, p) == IF rc[p] # 0 THEN t ELSE GiveNode(t, Climb(t, p))

-----------------------------------------------------------------------------
\* Pages a caller may hold an address of.
Given == Reserved..(SIZE - 1)

\* buddy_init: all free, then one page after another is allocated.
Boot[k \in 0..Reserved] ==
  IF k = 0 THEN NodeSize
  ELSE TakeNode(Boot[k - 1], Descend(Boot[k - 1], 1))

Init ==
  /\ bitmap = Boot[Reserved]
  /\ ref_cnt = [p \in Pages |-> IF p < Reserved THEN 1 ELSE 0]
  /\ answer = 0
  /\ off = FALSE

Returns(result) ==
  /\ answer' = result
  /\ UNCHANGED off

AllocPages(nrpages) ==
  LET n == Rounded(nrpages)  i == Descend(bitmap, n) IN
  /\ ~off
  /\ bitmap[0] >= n
  /\ bitmap' = TakeNode(bitmap, i)
  /\ ref_cnt' = [ref_cnt EXCEPT ![FirstPage(i)] = 1]
  /\ Returns(FirstPage(i))

\* No block is long enough: the firmware resets the machine.
OutOfMemory(nrpages) ==
  /\ ~off
  /\ bitmap[0] < Rounded(nrpages)
  /\ off' = TRUE
  /\ UNCHANGED <<bitmap, ref_cnt, answer>>

RefPage(p) ==
  /\ ~off
  /\ ref_cnt[p] < MaxRef
  /\ \/ /\ ref_cnt[p] = 0
        /\ UNCHANGED <<bitmap, ref_cnt>>
        /\ Returns(-1)
     \/ /\ ref_cnt[p] > 0
        /\ ref_cnt' = [ref_cnt EXCEPT ![p] = @ + 1]
        /\ UNCHANGED bitmap
        /\ Returns(0)

DerefPage(p) ==
  /\ ~off
  /\ \/ /\ ref_cnt[p] = 0
        /\ UNCHANGED <<bitmap, ref_cnt>>
        /\ Returns(-1)
     \/ /\ ref_cnt[p] > 0
        /\ ref_cnt' = [ref_cnt EXCEPT ![p] = @ - 1]
        /\ bitmap' = BuddyFree(bitmap, ref_cnt', p)
        /\ Returns(0)

\* The caller gives back what alloc_pages gave it, whose count is then not zero.
\* No answer: free_pages is void.
FreePages(p) ==
  /\ ~off
  /\ ref_cnt[p] > 0
  /\ bitmap' = BuddyFree(bitmap, ref_cnt, p)
  /\ UNCHANGED <<ref_cnt, answer, off>>

PoweredOff == off /\ UNCHANGED vars

Next ==
  \/ \E n \in Requests : AllocPages(n) \/ OutOfMemory(n)
  \/ \E p \in Given : RefPage(p)
  \/ \E p \in Given : DerefPage(p)
  \/ \E p \in Given : FreePages(p)
  \/ PoweredOff

Spec == Init /\ [][Next]_vars
-----------------------------------------------------------------------------
(* Properties                                                              *)

TypeOK ==
  /\ bitmap \in [Nodes -> 0..SIZE]
  /\ \A i \in Nodes : bitmap[i] <= NodeSize[i]
  /\ ref_cnt \in [Pages -> 0..MaxRef]
  /\ answer \in {-1} \cup Pages
  /\ off \in BOOLEAN

\* Pages of the block that starts at p: buddy_free would give back this many.
BlockLen(p) == NodeSize[Climb(bitmap, p)]
Held == {p \in Pages : ref_cnt[p] > 0}
InUse == UNION {Block(p, BlockLen(p)) : p \in Held}

\* The length of the longest aligned block below node i that is free.
LongestFree(i, used) ==
  LET free == {j \in Nodes : Span[j] \subseteq Span[i] \ used} IN
  IF free = {} THEN 0
  ELSE NodeSize[CHOOSE j \in free : \A k \in free : NodeSize[k] <= NodeSize[j]]

\* The state has its types, and the tree tells the truth at every node that is not inside an allocated
\* block, however blocks were split and merged before; buddy_alloc decides on
\* it without a further look.
TreeExact ==
  LET used == InUse
      blocks == {Block(p, BlockLen(p)) : p \in Held}
  IN /\ TypeOK
     /\ \A i \in Nodes :
          (\A block \in blocks : ~(Span[i] \subseteq block))
            => bitmap[i] = LongestFree(i, used)

\* A block of FrameAllocator is a page with references, and as long as
\* buddy_free would find it.
Abstract ==
  INSTANCE FrameAllocator WITH
    Requests <- {Rounded(n) : n \in Requests},
    held <- [p \in Pages |-> IF p \in Held
               THEN [len |-> BlockLen(p), refs |-> ref_cnt[p]]
               ELSE [len |-> 0, refs |-> 0]]
\* The blocks of the tree behave as FrameAllocator says: no two overlap, the
\* lowest block that fits is given out, memory is refused only when none fits,
\* and the last deref_page gives back exactly what alloc_pages took.
RefinesFrameAllocator == Abstract!Spec
=============================================================================
