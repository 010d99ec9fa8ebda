SPECIFICATION BootSpec
CONSTANTS
  QueueSize = 4
  IdxMod = 8
  Transports = 2
  BlkAt = {1}
  Capacity = 3
  SectorNos = {0, 1, 2, 3}
  Buffers = {"boot", "mbr", "header", "sector", "table"}
  Data = {"mbr", "fat", "plain"}
  Images <- MCDisks
  Stale = {0}
  Fan = 4
  PhyStart = 16
  PhySize = 15
  OpenSbi = 1
  VmStart = 48
  TextPages = 2
  RoPages = 1
  DataPages = 3
  IoStart = 2
  IoPages = 2
  IoOffset = 32
  Linux <- MCLinux
  FileSectors = {2, 3}
  Clear = "plain"
  Signed = {"fat", "mbr"}
INVARIANTS QueueInOrder BootNeverFaults KernelMapped VolumeWhole
PROPERTIES DeviceOwnsRequest RequestsReturn RefinesDisk
