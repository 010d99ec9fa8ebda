-------------------------------- MODULE Boot --------------------------------
(***************************************************************************)
(* The kernel from reset to a volume it can open files on (kernel/head.S,  *)
(* fs/virtio.c, fs/mbr.c, fat32_init and is_fat32 of fs/fat32.c), and then *)
(* the requests of fat32.c: KernelMap and VirtioBlk put together.          *)
(*                                                                         *)
(* is_fat32 and fat32_init read into the same buffer, the header that      *)
(* fat32_open_file later takes the root directory from.                    *)
(*                                                                         *)
(* Operators named after a defect (EntriesButLast ...) are not used: each  *)
(* is a wrong form of the definition after it that the properties must     *)
(* tell from the right one.                                                *)
(***************************************************************************)
EXTENDS VirtioBlk, Sequences, TLC

CONSTANTS
  Fan, PhyStart, PhySize, OpenSbi, VmStart, TextPages, RoPages, DataPages,
  IoStart, IoPages, IoOffset,   \* of KernelMap
  Linux,        \* Linux[d][i]: the first sector of entry i of the partition table in
                \* the sector content d, when its type is 0x83; -1 otherwise
  Signed,       \* the sector contents that end with the signature 0xaa55
  FileSectors,  \* the sectors that fat32.c asks for when the kernel runs
  Clear         \* what a buffer of .bss holds at boot

ASSUME BootAssumption ==
  /\ \A d \in Data : DOMAIN Linux[d] = 1 .. 4
  /\ {"boot", "mbr", "header", "sector", "table"} = Buffers
  /\ IoPages = Transports
  /\ Clear \in Data \ Signed
  /\ FileSectors \subseteq SectorNos /\ 0 \in SectorNos
  /\ \A d \in Data : \A i \in 1 .. 4 : Linux[d][i] \in SectorNos \cup {-1}

VARIABLES stage, satp, tables, next, todo, lost,  \* of KernelMap
          at,       \* how far the boot is
          entry,    \* i of mbr_init
          volume    \* fat32_volume: the place and the header it was computed from

mapVars == <<stage, satp, tables, next, todo, lost>>
bootVars == <<at, entry, volume>>
allVars == <<vars, mapVars, bootVars>>

M == INSTANCE KernelMap

ASSUME LayoutAssumption == M!MapAssumption

NoVolume == [lba |-> -1]

BootInit ==
  /\ Init /\ M!Init
  /\ memory = [b \in Buffers |-> Clear]
  /\ at = "map" /\ entry = 1 /\ volume = NoVolume

\* setup_vm, relocate, mm_init, setup_vm_final, as far as task_init.
MapKernel ==
  /\ at = "map" /\ M!Next
  /\ at' = IF stage' = "mapped" THEN "virtio_dev_init" ELSE at
  /\ UNCHANGED <<vars, entry, volume>>

\* virtio_dev_init before its first request.
VirtioDevInit ==
  /\ at = "virtio_dev_init"
  /\ Probe \/ BlkInit
  /\ UNCHANGED <<mapVars, bootVars>>

\* virtio_blk_init looks for the signature of sector 0 and goes on without it.
ReadSignature ==
  /\ at = "virtio_dev_init"
  /\ Call("in", 0, "boot")
  /\ at' = "mbr_init"
  /\ UNCHANGED <<mapVars, entry, volume>>

ReadMbr ==
  /\ at = "mbr_init"
  /\ Call("in", 0, "mbr")
  /\ at' = "partitions"
  /\ UNCHANGED <<mapVars, entry, volume>>

\* The entries of the partition table.
EntriesButLast == 3
Entries == 4

Lba == Linux[memory["mbr"]][entry]

SkipPartition ==
  /\ at = "partitions" /\ driver = "idle" /\ entry <= Entries /\ Lba = -1
  /\ entry' = entry + 1
  /\ UNCHANGED <<vars, mapVars, at, volume>>

\* partition_init: is_fat32 reads the header and looks at its signature.
ReadHeader ==
  /\ at = "partitions" /\ entry <= Entries /\ Lba # -1
  /\ Call("in", Lba, "header")
  /\ at' = "is_fat32"
  /\ UNCHANGED <<mapVars, entry, volume>>

NotFat32 ==
  /\ at = "is_fat32" /\ driver = "idle" /\ memory["header"] \notin Signed
  /\ at' = "partitions" /\ entry' = entry + 1
  /\ UNCHANGED <<vars, mapVars, volume>>

IsFat32 ==
  /\ at = "is_fat32" /\ memory["header"] \in Signed
  /\ Call("in", Lba, "header")
  /\ at' = "fat32_init"
  /\ UNCHANGED <<mapVars, entry, volume>>

Fat32Init ==
  /\ at = "fat32_init" /\ driver = "idle"
  /\ volume' = [lba |-> Lba, header |-> memory["header"]]
  /\ at' = "partitions" /\ entry' = entry + 1
  /\ UNCHANGED <<vars, mapVars>>

StartKernel ==
  /\ at = "partitions" /\ driver = "idle" /\ entry = Entries + 1
  /\ at' = "running"
  /\ UNCHANGED <<vars, mapVars, entry, volume>>

\* fat32.c, whether there is a volume or not: its two buffers, read into, changed, written back.
FileRequest(type, s, b) ==
  /\ at = "running"
  /\ Call(type, s, b)
  /\ UNCHANGED <<mapVars, bootVars>>

FileUse(d) ==
  /\ at = "running"
  /\ Use("sector", d)
  /\ UNCHANGED <<mapVars, bootVars>>

\* A request in progress.
InRequest == (Publish \/ Notify \/ Return) /\ UNCHANGED <<mapVars, bootVars>>
DeviceRuns == Device /\ UNCHANGED <<mapVars, bootVars>>

Mbr == ReadMbr \/ SkipPartition \/ ReadHeader \/ NotFat32 \/ IsFat32 \/ Fat32Init
Hart == MapKernel \/ VirtioDevInit \/ ReadSignature \/ Mbr \/ StartKernel \/ InRequest

BootNext ==
  \/ Hart
  \/ DeviceRuns
  \/ \E s \in FileSectors : \/ FileRequest("in", s, "sector")
                            \/ FileRequest("out", s, "sector")
                            \/ FileRequest("in", s, "table")
  \/ \E d \in Data : FileUse(d)

BootSpec == BootInit /\ [][BootNext]_allVars /\ WF_allVars(Hart) /\ WF_allVars(DeviceRuns)

-----------------------------------------------------------------------------
\* Every step of the boot finds what it touches mapped by the table in use.
BootNeverFaults == M!BootNeverFaults

\* Whenever the driver writes to the registers of its device, the table in use
\* has the window it chose (virtio_dev_init, io_to_virt).
DriverReachesDevice ==
  status # {} =>
    M!Reaches(satp, tables, IoStart + IoOffset + regs, IoStart + regs, "W")

\* No page is handed out twice for a table, the final table maps what it should
\* and nothing else, and the driver finds its device there: setup_vm_final, with the
\* allocator that mm_init has just made, before virtio_dev_init.
KernelMapped == M!TablesApart /\ M!KernelMapped /\ DriverReachesDevice

\* The partitions of type 0x83 that mbr_init goes through, the last of them.
LinuxEntries == {i \in 1 .. 4 : Linux[memory["mbr"]][i] # -1}
LastEntry == CHOOSE i \in LinuxEntries : \A j \in LinuxEntries : j <= i

\* When the kernel runs, the header that open takes the root directory from
\* is the one that the numbers of the volume were computed from, provided the
\* last partition of the type was a FAT32 volume: a later one that is not
\* leaves its own first sector in the header (is_fat32, fat32_init).
VolumeWhole ==
  at = "running" /\ LinuxEntries # {} =>
    \/ memory["header"] \notin Signed
    \/ volume = [lba |-> Linux[memory["mbr"]][LastEntry], header |-> memory["header"]]
=============================================================================
