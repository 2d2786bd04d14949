SPECIFICATION FleetFairSpec
CONSTANTS
  Nodes = {n1, n2}
  Strangers = {s}
  Blocks = {b}
  Index <- MCIndex
  MaxIndex = 1
  MaxDrops = 1
  Fleets <- NotSelf
INVARIANTS
  FleetTypeOK
  
PROPERTY SafelistedAreAnswered
\* All have the block and every connection that may break is up again.
CHECK_DEADLOCK FALSE
