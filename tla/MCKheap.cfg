SPECIFICATION BootSpec
CONSTANTS
  heap_max <- MC_heap_max
  Sizes <- MC_Sizes
  MaxCurr <- MC_MaxCurr
  Modes <- MC_Modes
  MaxFiles <- MC_MaxFiles
  MaxProcesses <- MC_MaxProcesses
  Fillers <- MC_Fillers
  ClientSizes <- MC_ClientSizes
INVARIANTS
  HeapTypeOK
  ListInOrder
  OverrunIsBounded
  InsideHeap

  
CHECK_DEADLOCK FALSE
