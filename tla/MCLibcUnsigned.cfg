SPECIFICATION LibcSpec
CONSTANTS
  IntMax = 127
  Size = 4
  Bytes <- MC_Bytes
  Strings <- MC_Strings
  Bases <- MC_Bases
  Numerals <- MC_Numerals
  Formats <- MC_Formats
INVARIANT
  OthersAreUnsigned
CHECK_DEADLOCK FALSE
