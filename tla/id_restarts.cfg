CONSTANTS
  Instances = {i1}
  Seeds = {"s"}
  MaxStarts = 3
SPECIFICATION Spec
INVARIANTS
  KeyInUseIsSaved
  IndInv
PROPERTIES
  IdentityIsStable
CHECK_DEADLOCK FALSE
