CONSTANTS
  QuitCap = 3
  MaxSignals = 5
SPECIFICATION Spec
INVARIANTS
  TypeOK
  NoCollectionAfterHandshake
  
  JamTakesSignals
PROPERTIES
  ShutdownUnlessJammed
CHECK_DEADLOCK FALSE
