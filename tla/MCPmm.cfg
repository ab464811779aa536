SPECIFICATION PmmSpec
CONSTANTS
  total_blocks <- MC_total_blocks
  Clients <- MC_Clients
  LastBlock <- MC_LastBlock
INVARIANTS
  PmmTypeOK
  SingleOwner
  BitmapIsOwnership
  GrantsAreMemory
PROPERTY
  ImplementsFrameAllocator
