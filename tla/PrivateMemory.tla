--------------------------- MODULE PrivateMemory ---------------------------
(***************************************************************************)
(* What the memory subsystem of the kernel promises to user programs.      *)
(*                                                                         *)
(* Every task owns a private memory of pages.  A store by a task changes   *)
(* that task's memory and nobody else's; do_fork gives the child a copy of *)
(* every page the parent may legally use; brk moves the limit of the heap, *)
(* and the pages it cuts off go back to their initial value.  There are no *)
(* frames, page tables, reference counts or translation caches here: those *)
(* belong to CowMemory, which is shown to implement this module.           *)
(***************************************************************************)
EXTENDS Naturals

CONSTANTS
  Tasks,      \* the pids that may ever exist, 1 .. the bound of the instance
  Pages,      \* user page numbers
  ReadOnly,   \* pages of segments that are not writable
  Static,     \* pages a program may always use: its segments and its stack
  Data,       \* page contents
  Initial,    \* the content a page has before the first store
  HeapStart   \* number of the first heap page

VARIABLES
  ntasks,     \* tasks 1 .. ntasks exist
  mem,        \* mem[p][pg], what task p reads in page pg
  limit       \* limit[p], the first page number above the heap of p

vars == <<ntasks, mem, limit>>

\* Pages task p may use: the static ones and the heap below its break.
Legal(p) == Static \cup {pg \in Pages : HeapStart <= pg /\ pg < limit[p]}

Init ==
  /\ ntasks = 1
  /\ mem = [p \in Tasks |-> Initial]
  /\ limit = [p \in Tasks |-> HeapStart]

\* A user store: exactly one page of one task changes, never a read-only one.
Store(p, pg, d) ==
  /\ p <= ntasks
  /\ pg \notin ReadOnly
  /\ UNCHANGED <<ntasks, limit>>
  /\ mem' = [mem EXCEPT ![p][pg] = d]

\* brk moves the limit; no page changes its content by that.
Resize(p, n) ==
  /\ p <= ntasks
  /\ n >= HeapStart
  /\ limit' = [limit EXCEPT ![p] = n]
  /\ UNCHANGED <<ntasks, mem>>

\* A page above the limit loses its content.
Discard(p, pg) ==
  /\ p <= ntasks
  /\ limit[p] <= pg
  /\ pg \notin Static
  /\ UNCHANGED <<ntasks, limit>>
  /\ mem' = [mem EXCEPT ![p][pg] = Initial[pg]]

(***************************************************************************)
(* A new task agrees with its parent on every page the parent may use, and *)
(* nobody else notices.  What the child finds in other pages is its own    *)
(* affair, so nothing is said about them.                                  *)
(***************************************************************************)
Fork(p) ==
  /\ p <= ntasks
  /\ ntasks + 1 \in Tasks
  /\ ntasks' = ntasks + 1
  /\ limit' = [limit EXCEPT ![ntasks + 1] = limit[p]]
  /\ \A q \in 1..ntasks : mem'[q] = mem[q]
  /\ \A pg \in Legal(p) : mem'[ntasks + 1][pg] = mem[p][pg]

Next ==
  \E p \in Tasks :
    \/ \E pg \in Pages, d \in Data : Store(p, pg, d)
    \/ \E n \in Pages : Resize(p, n)
    \/ \E pg \in Pages : Discard(p, pg)
    \/ Fork(p)

Spec == Init /\ [][Next]_vars
=============================================================================
