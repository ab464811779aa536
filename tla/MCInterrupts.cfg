SPECIFICATION Spec
CONSTANTS
  Lines <- MC_Lines
  Spurious <- MC_Spurious
  TickMod <- MC_TickMod
INVARIANTS
  TypeOK
  InServiceIsCurrent
  HandlersFindTheirTables
  TicksAreHarmless
PROPERTIES
  RequestsAreServed
  BootFinishes
CHECK_DEADLOCK FALSE
