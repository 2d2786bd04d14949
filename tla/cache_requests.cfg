CONSTANTS
  b1 = b1
  b2 = b2
  NoBlock = NoBlock
  Blocks = {b1, b2}
  Size <- MCSizes
  Manual = {m1}
  Periodic = {}
  Datastores = {"none", "plain"}
  Targets = {0, 2}
  MinFree = 2
  Capacity = 2
  Requests = {r1, r2}
  MaxReads = 1
SPECIFICATION FairSpec
INVARIANTS
  CacheFromOrdinary
  ScratchFromNetwork
  IndInv
PROPERTIES
  RunsEnd
CHECK_DEADLOCK FALSE
