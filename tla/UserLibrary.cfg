SPECIFICATION LibrarySpec
CHECK_DEADLOCK FALSE
CONSTANTS
  PageSize = 8
  HeapStart = 8
  HeaderSize = 2
  Sizes = {1, 3, 6}
  MaxBreak = 30
  PrintCalls <- MCPrintCalls
  Files = {"sbi", "stdout", "str"}
  Buffers = {0, 1, 4}
  CharBits = 3
  ShortBits = 4
  IntBits = 5
  LongBits = 6
  Strings <- MCStrings
  PadSize = 2
  PtrDigits = 2
  Glyphs <- MCGlyphs
  Scans <- MCScans
  Inputs <- MCInputs
  UNGET_BUFSIZE = 16
  Scripts <- MCScripts
  Volume <- MCVolume
  UserFds = {3, 4}
  Codes <- MCCodes
  MaxInt = 127
  CAT_BUF_SIZE = 2
INVARIANTS HeapWhole PrintsAsStandard BufferBounded ReadsAsDescribed ShellObeys
PROPERTIES RefinesUserHeap CallsReturn StoredIsWritten
