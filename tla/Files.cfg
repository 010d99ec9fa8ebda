SPECIFICATION Spec
CONSTANTS
  MaxTasks = 2
  MAX_FILE_NUMBER = 4
  UserFds = {3}
  FatEntries = 16
  SectorUnits = 2
  SecPerCluster = 2
  EOC <- MCEOC
  Fat <- MCFat
  Root = 2
  Directory <- MCDirectory
  DiskData <- MCDiskData
  OtherPaths = {"ext2"}
  Paths = {"a", "missing", "ext2"}
  Flags <- MCFlags
  Out <- MCOut
  Seeks <- MCSeeks
INVARIANTS
  OtherDataKept
PROPERTIES
  RefinesFileService
  CallsReturn
