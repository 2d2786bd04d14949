SPECIFICATION Spec
CONSTANTS
  Options <- AllOptions
  Bootstraps <- MCBootstraps
  Routers <- MCRouters
  Domains = {d1, d2}
INVARIANTS
  TypeOK
  BackendServes
  FleetIsFound
  FleetKnowsNode
  StartsFromItsPeers
  
  NoPlaceholder
\* A node that is up, or that failed to come up, takes no further step here.
CHECK_DEADLOCK FALSE
