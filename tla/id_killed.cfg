CONSTANTS
  Instances = {i1}
  Seeds = {"s"}
  MaxStarts = 2
SPECIFICATION Spec
INVARIANTS
  NeverLockedOut
CHECK_DEADLOCK FALSE
