SPECIFICATION SessionSpec
CONSTANTS
  Connections = 1
CHECK_DEADLOCK FALSE
INVARIANT NoViewIsFrozen
