SPECIFICATION MouseSpec
CONSTANTS
  Mice <- MC_Mice
  Keys <- MC_Keys
  MaxKeys = 1
  Moves <- MC_Moves
  MaxMoves = 2
  MaxLate = 1
INVARIANTS
  MouseTypeOK
  ModeAgrees
  PacketsAreWhole
PROPERTY
  BytesAreServed
CHECK_DEADLOCK FALSE
