SPECIFICATION LineSpec
CONSTANTS
  KB_BUF_SIZE = 4
  ScanCodes <- MC_ScanCodes
  ShellCodes <- MC_ShellCodes
  kbdus <- MC_kbdus
  kbdusShift <- MC_kbdusShift
  LineLength = 3
  MaxTyped = 4
INVARIANTS
  LineTypeOK
  LineIsWhatWasTyped
PROPERTY
  ImplementsKeyQueue
CHECK_DEADLOCK FALSE
