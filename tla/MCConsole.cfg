SPECIFICATION ConsoleSpec
CONSTANTS
  Files <- MC_Files
  MaxFiles = 2
  Location = 4096
  DirName = "dev"
  Word = 128
  PosWord = 256
  screen_width = 16
  screen_height = 96
  bytes_per_line = 52
  HIST_LENGTH = 16
  Newline = "NL"
  MAX_MODULES = 2
  BASE_VIRTUAL = 3072
  ModuleLists <- MC_ModuleLists
  Longer <- MC_Longer
  DiskName = "initrd"
  DumpSize = 3
  Packets <- MC_Packets
  Numbers <- MC_Numbers
INVARIANTS
  ConsoleTypeOK
  ReadsAreTheFiles
  HistoryIsListing
  
  MouseOnScreen
  OverdrawIsBounded
