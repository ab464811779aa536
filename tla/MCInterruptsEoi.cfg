SPECIFICATION Spec
CONSTANTS
  Lines <- MC_Lines
  Spurious <- MC_Spurious
  TickMod <- MC_TickMod
INVARIANT
  EoiBeforeReturn
CHECK_DEADLOCK FALSE
