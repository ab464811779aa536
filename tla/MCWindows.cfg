SPECIFICATION WindowsSpec
CONSTANT MAX_WINDOWS = 6
INVARIANTS
  WindowsTypeOK
  PaintingEnds
PROPERTY
  ImplementsWindowStack
CHECK_DEADLOCK FALSE
