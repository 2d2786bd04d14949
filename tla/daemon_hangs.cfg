CONSTANTS
  QuitCap = 3
  MaxSignals = 3
SPECIFICATION Spec
PROPERTIES
  ShutdownCompletes
CHECK_DEADLOCK FALSE
