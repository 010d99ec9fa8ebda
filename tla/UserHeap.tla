------------------------------ MODULE UserHeap ------------------------------
(***************************************************************************)
(* What malloc and free promise to a program: a block is given whole, below *)
(* the break, and to nobody else until it is freed; only memory that is not *)
(* in use goes back to the kernel.                                         *)
(***************************************************************************)
EXTENDS Integers

CONSTANTS
  Bottom,   \* the first address of the heap
  Sizes     \* what programs ask for

VARIABLES
  live,     \* the blocks handed out: address -> the size that was asked for
  top       \* the end of the memory the kernel has given

heapVars == <<live, top>>

HeapInit ==
  /\ live = [p \in {} |-> 0]
  /\ top = Bottom

Allocate(p, n) ==
  /\ p \notin DOMAIN live
  /\ top <= top' /\ Bottom <= p /\ p + n <= top'
  /\ \A q \in DOMAIN live : p + n <= q \/ q + live[q] <= p
  /\ live' = [q \in DOMAIN live \cup {p} |-> IF q = p THEN n ELSE live[q]]

\* The memory above the last block in use may go back.
InUse(blocks) == \A p \in DOMAIN blocks : p + blocks[p] <= top'
Lower == Bottom <= top' /\ top' <= top

Release(p) ==
  /\ live' = [q \in DOMAIN live \ {p} |-> live[q]]
  /\ Lower /\ InUse(live')

GiveBack ==
  /\ UNCHANGED live
  /\ Lower /\ InUse(live)

HeapNext ==
  \/ \E p \in DOMAIN live' : live'[p] \in Sizes /\ Allocate(p, live'[p])
  \/ \E p \in DOMAIN live : Release(p)
  \/ GiveBack

HeapSpec == HeapInit /\ [][HeapNext]_heapVars
=============================================================================
