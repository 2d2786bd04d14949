SPECIFICATION Spec
CONSTANTS
  MB = 2
  Machines <- MCMachines
  MaxMemory <- MCMaxMemory
  MaxFD <- MCMaxFD
  ConnMgrHi = {0, 1, 600}
  Defaults = {1, 64}
INVARIANTS
  TypeOK
  HostsShareBudget
  RoomForConnMgr
  
\* One computation: it ends.
CHECK_DEADLOCK FALSE
