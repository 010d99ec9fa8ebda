--------------------------- MODULE FrameAllocator ---------------------------
(***************************************************************************)
(* What the page allocator promises its callers: blocks of pages, aligned  *)
(* to their size, that never overlap; a request is refused only when no    *)
(* block of that size is free, and it gets the lowest one; a block stays   *)
(* allocated exactly as long as it has references.  There is no tree here: *)
(* Buddy implements this module.                                           *)
(***************************************************************************)
EXTENDS Integers

CONSTANTS
  SIZE,      \* pages there are, a power of two
  Reserved,  \* pages below the first one given out
  Requests   \* block lengths callers may ask for, powers of two

Pages == 0..(SIZE - 1)
None == [len |-> 0, refs |-> 0]

VARIABLES
  held,      \* held[p], the block that starts at page p, or None
  answer,    \* answer to the last call: a page, 0 or -1
  off        \* the machine has been reset for want of memory

vars == <<held, answer, off>>

BlockAt(p, len) == p..(p + len - 1)
InUse == UNION {BlockAt(p, held[p].len) : p \in Pages}

\* Where a block of len pages fits.
Fits(len) ==
  LET free == Pages \ InUse
  IN {p \in Pages : p % len = 0 /\ BlockAt(p, len) \subseteq free}

Init ==
  /\ held = [p \in Pages |-> IF p < Reserved THEN [len |-> 1, refs |-> 1] ELSE None]
  /\ answer = 0
  /\ off = FALSE

Alloc(len) ==
  /\ ~off
  /\ LET fits == Fits(len) IN
     \E p \in fits :
       /\ \A q \in fits : p <= q
       /\ held' = [held EXCEPT ![p] = [len |-> len, refs |-> 1]]
       /\ answer' = p
  /\ UNCHANGED off

Refuse(len) ==
  /\ ~off
  /\ Fits(len) = {}
  /\ off' = TRUE
  /\ UNCHANGED <<held, answer>>

Ref(p) ==
  /\ ~off
  /\ held[p] # None
  /\ held' = [held EXCEPT ![p].refs = @ + 1]
  /\ answer' = 0
  /\ UNCHANGED off

Deref(p) ==
  /\ ~off
  /\ held[p] # None
  /\ held' = [held EXCEPT ![p] = IF @.refs = 1 THEN None
                                 ELSE [len |-> @.len, refs |-> @.refs - 1]]
  /\ answer' = 0
  /\ UNCHANGED off

\* A page where no block starts has no references to change.
Invalid(p) ==
  /\ ~off
  /\ held[p] = None
  /\ answer' = -1
  /\ UNCHANGED <<held, off>>

Next ==
  \/ \E len \in Requests : Alloc(len) \/ Refuse(len)
  \/ \E p \in Pages : Ref(p) \/ Deref(p) \/ Invalid(p)

Spec == Init /\ [][Next]_vars
=============================================================================
