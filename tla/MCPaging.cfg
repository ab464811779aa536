SPECIFICATION PagingSpec
CONSTANTS
  Entries = 4
  DirSize = 64
  WordBits = 4
  BITSIZE = 2
  BASE = 32
  KernelMap = 20
  TmpPages = 12
  HeapPages = 8
  BitmapWord = 5
  RamSizes <- MC_RamSizes
  Lfbs <- MC_Lfbs
  LastFrame = 319
  CodeLengths <- MC_CodeLengths
  MaxProcesses = 4
INVARIANTS
  PagingTypeOK
  NoFrameMappedTwice
  OnlyTheKernelIsShared
  HeapIsBacked
  CodeStays
  TablesKeepTheirMemory
CHECK_DEADLOCK FALSE
