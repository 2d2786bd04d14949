CONSTANTS
  b1 = b1
  b2 = b2
  NoBlock = NoBlock
  Blocks = {b1, b2}
  Size <- MCSizes
  Manual = {m1}
  Periodic = {p1}
  Datastores = {"badger"}
  Targets = {2}
  MinFree = 1
  Capacity = 2
  Requests = {r1}
  MaxReads = 1
SPECIFICATION Spec
INVARIANTS
  SuccessFreesEnough
  OvershootBounded
PROPERTIES
  KeepsPromise
CHECK_DEADLOCK FALSE
