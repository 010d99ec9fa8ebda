------------------------------ MODULE KernelMap ------------------------------
(***************************************************************************)
(* The kernel's own page tables (kernel/vm.c) and the part of head.S that  *)
(* moves the hart from physical to virtual addresses.  The hart starts     *)
(* without translation, turns on a table of two giant pages, builds the    *)
(* final table while it runs on that one, and turns that one on.  Nothing  *)
(* catches an access that is not mapped (stvec is set later): lost says    *)
(* that there was one.                                                     *)
(*                                                                         *)
(* Addresses are page numbers.  A table has Fan entries, so a giant page   *)
(* is Fan * Fan pages.                                                     *)
(*                                                                         *)
(* Operators named after a defect (MmInitUnreserved ...) are not used: each *)
(* is a wrong form of the definition after it that the properties must     *)
(* tell from the right one.                                                *)
(***************************************************************************)
EXTENDS Integers, FiniteSets, Sequences

CONSTANTS
  Fan,                         \* entries of a table
  PhyStart, PhySize, OpenSbi,  \* PHY_START, PHY_SIZE, OPENSBI_SIZE
  VmStart,                     \* VM_START
  TextPages, RoPages, DataPages,  \* the sections of the kernel's image
  IoStart, IoPages, IoOffset   \* VIRTIO_START, VIRTIO_SIZE * VIRTIO_COUNT, IOMAP_OFFSET

Giant == Fan * Fan
Space == 0 .. Fan * Giant - 1

VpnTop(va) == va \div Giant
VpnMid(va) == (va \div Fan) % Fan
VpnLow(va) == va % Fan

Pa2VaOffset == VmStart - PhyStart
Va2Pa(va) == va - Pa2VaOffset
Pa2Va(pa) == pa + Pa2VaOffset
PhyEnd == PhyStart + PhySize

\* vmlinux.lds: the image is linked behind OpenSBI in the direct map, every
\* section on pages of its own; both root tables are in .bss.
Stext == VmStart + OpenSbi
Srodata == Stext + TextPages
Sdata == Srodata + RoPages
Ekernel == Sdata + DataPages
Early == Va2Pa(Ekernel) - 2
Swapper == Va2Pa(Ekernel) - 1
\* The page below _sbss, .bss.stack.
BootStack == Ekernel - 3

\* The virtual pages that setup_vm_final maps, and the tables it takes for them
\* besides the root.
DirectMap == Stext .. Stext + PhySize - 1
IoMap == IoStart + IoOffset .. IoStart + IoOffset + IoPages - 1
ToMap == DirectMap \cup IoMap
TablesTaken == Cardinality({VpnTop(va) : va \in ToMap}) + Cardinality({va \div Fan : va \in ToMap})

\* What the layout of the machine and of the image gives; Boot assumes it.
MapAssumption ==
  /\ Fan \in Nat \ {0} /\ TextPages \in Nat \ {0} /\ RoPages \in Nat /\ DataPages \in Nat
  /\ DataPages >= 3
  /\ PhyStart \in Space /\ VmStart \in Space /\ PhySize \in Nat /\ OpenSbi \in Nat
  /\ IoStart \in Nat /\ IoPages \in Nat /\ IoOffset \in Nat
  /\ PhyStart % Giant = 0 /\ VmStart % Giant = 0
  /\ OpenSbi + PhySize <= Giant
  /\ Va2Pa(Ekernel) + 1 + TablesTaken <= PhyEnd
  /\ IoMap \subseteq Space
  /\ \A va \in ToMap : va >= (Fan * Giant) \div 2
  /\ \A va \in IoMap : VpnTop(va) # VpnTop(VmStart)

VARIABLES
  stage,    \* where the boot is
  satp,     \* -1 without translation, or the page of the root table
  tables,   \* the page tables there are, by physical page
  next,     \* the next page the allocator hands out
  todo,     \* the calls of create_mapping that setup_vm_final has still to do
  lost      \* an access was not mapped

mapVars == <<stage, satp, tables, next, todo, lost>>

NoPte == [ppn |-> -1, perm |-> {}]
Empty == [i \in 0 .. Fan - 1 |-> NoPte]

-----------------------------------------------------------------------------
\* What the hart finds for a virtual page: a leaf at any level, or nothing.
Walk(root, ts, va) ==
  LET top == ts[root][VpnTop(va)]
      mid == ts[top.ppn][VpnMid(va)]
      low == ts[mid.ppn][VpnLow(va)]
  IN CASE top = NoPte -> NoPte
       [] top # NoPte /\ top.perm # {} -> [top EXCEPT !.ppn = @ + (va % Giant)]
       [] OTHER -> IF mid = NoPte THEN NoPte ELSE low

Translate(root, ts, va) ==
  IF root = -1 THEN [ppn |-> va, perm |-> {"R", "W", "X"}] ELSE Walk(root, ts, va)

\* The hart reaches physical page pa at address va, in the way asked for.
Reaches(root, ts, va, pa, perm) ==
  Translate(root, ts, va).ppn = pa /\ perm \in Translate(root, ts, va).perm

Init == /\ stage = "setup_vm" /\ satp = -1
        /\ tables = [t \in {Early, Swapper} |-> Empty]
        /\ next = Va2Pa(Ekernel)
        /\ todo = <<>>
        /\ lost = FALSE

SetupVmHighOnly ==
  LET giant == [ppn |-> (PhyStart \div Giant) * Giant, perm |-> {"R", "W", "X"}]
  IN /\ stage = "setup_vm"
     /\ tables' = [tables EXCEPT ![Early] = [Empty EXCEPT ![VpnTop(VmStart)] = giant]]
     /\ stage' = "relocate"
     /\ UNCHANGED <<satp, next, todo, lost>>

\* Two giant pages: the place the kernel runs at, and the direct map.
SetupVm ==
  LET giant == [ppn |-> (PhyStart \div Giant) * Giant, perm |-> {"R", "W", "X"}]
  IN /\ stage = "setup_vm"
     /\ tables' = [tables EXCEPT ![Early] = [Empty EXCEPT ![VpnTop(PhyStart)] = giant,
                                                          ![VpnTop(VmStart)] = giant]]
     /\ stage' = "relocate"
     /\ UNCHANGED <<satp, next, todo, lost>>

\* satp is written while the program counter is physical; the return goes to
\* the virtual address in ra, and sp is the virtual one from then on.
Relocate ==
  /\ stage = "relocate"
  /\ satp' = Early
  /\ lost' = (lost \/ ~(/\ Reaches(Early, tables, Va2Pa(Stext), Va2Pa(Stext), "X")
                        /\ Reaches(Early, tables, Stext, Va2Pa(Stext), "X")
                        /\ Reaches(Early, tables, BootStack, Va2Pa(BootStack), "W")))
  /\ stage' = "mm_init"
  /\ UNCHANGED <<tables, next, todo>>

MmInitUnreserved ==
  /\ stage = "mm_init"
  /\ lost' = (lost \/ ~Reaches(satp, tables, Pa2Va(next), next, "W"))
  /\ stage' = "setup_vm_final"
  /\ UNCHANGED <<satp, tables, next, todo>>

\* buddy_init puts its arrays behind the image, in the direct map.
MmInit ==
  /\ stage = "mm_init"
  /\ next' = next + 1
  /\ lost' = (lost \/ ~Reaches(satp, tables, Pa2Va(next), next, "W"))
  /\ stage' = "setup_vm_final"
  /\ UNCHANGED <<satp, tables, todo>>

Mapping(va, pa, size, perm) == [va |-> va, pa |-> pa, left |-> size, perm |-> perm]

\* The four calls of create_mapping, in their order.
SetupVmFinal ==
  /\ stage = "setup_vm_final"
  /\ tables' = [tables EXCEPT ![Swapper] = Empty]
  /\ todo' = << Mapping(Stext, Va2Pa(Stext), Srodata - Stext, {"R", "X"}),
                Mapping(Srodata, Va2Pa(Srodata), Sdata - Srodata, {"R"}),
                Mapping(Sdata, Va2Pa(Sdata), PhySize - (Sdata - Stext), {"R", "W"}),
                Mapping(IoStart + IoOffset, IoStart, IoPages, {"R", "W"}) >>
  /\ stage' = "create_mapping"
  /\ UNCHANGED <<satp, next, lost>>

\* The entry of table t at index i leads to another table: the one there is,
\* or the next page of the allocator, which is not cleared (and was clear).
Descend(ts, t, i, page) ==
  IF ts[t][i] = NoPte
  THEN [u \in (DOMAIN ts) \cup {page} |->
          IF u = page THEN Empty
          ELSE IF u = t THEN [ts[t] EXCEPT ![i] = [ppn |-> page, perm |-> {}]]
          ELSE ts[u]]
  ELSE ts

\* The allocator's next page after page was used for table t, or was not.
NextAfter(t, page) == IF t = page THEN page + 1 ELSE page

\* One round of the loop of create_mapping; it follows the tables by their
\* physical addresses.
MapPage ==
  LET m == Head(todo)
      ts1 == Descend(tables, Swapper, VpnTop(m.va), next)
      t1 == ts1[Swapper][VpnTop(m.va)].ppn
      next1 == NextAfter(t1, next)
      ts2 == Descend(ts1, t1, VpnMid(m.va), next1)
      t2 == ts2[t1][VpnMid(m.va)].ppn
  IN /\ stage = "create_mapping"
     /\ todo # <<>> /\ m.left > 0
     /\ tables' = [ts2 EXCEPT ![t2][VpnLow(m.va)] = [ppn |-> m.pa, perm |-> m.perm]]
     /\ next' = NextAfter(t2, next1)
     /\ todo' = <<[m EXCEPT !.va = @ + 1, !.pa = @ + 1, !.left = @ - 1]>> \o Tail(todo)
     /\ lost' = (lost \/ ~(/\ Reaches(satp, tables, Pa2Va(Swapper), Swapper, "W")
                           /\ Reaches(satp, tables, t1, t1, "W")
                           /\ Reaches(satp, tables, t2, t2, "W")))
     /\ UNCHANGED <<stage, satp>>

\* The loop of one call ends and the next begins.
NextMapping ==
  /\ stage = "create_mapping"
  /\ todo # <<>> /\ Head(todo).left = 0
  /\ todo' = Tail(todo)
  /\ UNCHANGED <<stage, satp, tables, next, lost>>

\* The final table is turned on under the running kernel.
Activate ==
  /\ stage = "create_mapping" /\ todo = <<>>
  /\ satp' = Swapper
  /\ lost' = (lost \/ ~(/\ Reaches(Swapper, tables, Stext, Va2Pa(Stext), "X")
                        /\ Reaches(Swapper, tables, BootStack, Va2Pa(BootStack), "W")))
  /\ stage' = "mapped"
  /\ UNCHANGED <<tables, next, todo>>

Next == \/ SetupVm \/ Relocate \/ MmInit \/ SetupVmFinal
        \/ MapPage \/ NextMapping \/ Activate

-----------------------------------------------------------------------------
\* The table each step of the boot runs on maps what the step touches: code,
\* stack, the pages of the allocator, and the tables that create_mapping
\* follows by physical address, which only the early table maps.
BootNeverFaults == ~lost

\* No page of a table is handed out twice, nor is it part of the image: every
\* table is reached from one entry only (create_mapping, alloc_page).
TablesApart ==
  LET entries == {e \in (DOMAIN tables) \X (0 .. Fan - 1) :
                     tables[e[1]][e[2]] # NoPte /\ tables[e[1]][e[2]].perm = {}}
  IN /\ \A e, f \in entries : tables[e[1]][e[2]].ppn = tables[f[1]][f[2]].ppn => e = f
     /\ \A t \in DOMAIN tables \ {Early, Swapper} : t \in Va2Pa(Ekernel) + 1 .. next - 1

PermOf(pa) == CASE pa < Va2Pa(Srodata) -> {"R", "X"}
                [] pa \in Va2Pa(Srodata) .. Va2Pa(Sdata) - 1 -> {"R"}
                [] OTHER -> {"R", "W"}

\* When the final table is on, every page of the image and of the memory behind
\* it is at its place in the direct map, code and constants cannot be written
\* and nothing that can be written is executed, the windows of the devices are
\* at theirs, no other page is mapped to anything, and the lower half is left
\* to programs (setup_vm_final).
KernelMapped ==
  stage = "mapped" =>
    /\ \A pa \in Va2Pa(Stext) .. PhyEnd - 1 :
          Walk(satp, tables, Pa2Va(pa)) = [ppn |-> pa, perm |-> PermOf(pa)]
    /\ \A pa \in IoStart .. IoStart + IoPages - 1 :
          Walk(satp, tables, pa + IoOffset) = [ppn |-> pa, perm |-> {"R", "W"}]
    /\ \A va \in Space :
          Walk(satp, tables, va) # NoPte =>
            /\ va >= (Fan * Giant) \div 2
            /\ Walk(satp, tables, va).ppn \in {Va2Pa(va), va - IoOffset}
=============================================================================
