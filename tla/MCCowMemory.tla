---------------------------- MODULE MCCowMemory ----------------------------
(***************************************************************************)
(* Instances of CowMemory for TLC.  Pages have two addresses, so a break   *)
(* or a fault address may lie inside a page or on its boundary.            *)
(***************************************************************************)
EXTENDS CowMemory, TLC

CONSTANTS f0, f1, d0

\* One writable segment at page 0, with a page of .bss behind its file page.
DataOnly == <<[vm_start |-> 0, vm_end |-> 1, vm_pgoff |-> 2,
               vm_filesz |-> 1, vm_flags |-> {"R", "W"}]>>

\* Read-only text at page 0, then data of two pages, the second one .bss.
TextAndData ==
  <<[vm_start |-> 0, vm_end |-> 1, vm_pgoff |-> 0,
     vm_filesz |-> 1, vm_flags |-> {"R", "X"}],
    [vm_start |-> 2, vm_end |-> 5, vm_pgoff |-> 2,
     vm_filesz |-> 1, vm_flags |-> {"R", "W"}]>>

MCImage == (0 :> f0) @@ (1 :> f1)
=============================================================================
