SPECIFICATION Spec
CONSTANTS
  MaxTasks = 1
  MAX_FILE_NUMBER = 4
  UserFds = {3}
  FatEntries = 16
  SectorUnits = 2
  SecPerCluster = 2
  EOC <- MCEOC
  Fat <- FarFat
  Root = 2
  Directory <- FarDirectory
  DiskData <- FarDiskData
  OtherPaths = {"ext2"}
  Paths = {"a"}
  Flags <- MCFlags
  Out <- MCOut
  Seeks <- MCSeeks
PROPERTY RefinesFileService
