SPECIFICATION FairSpec
CONSTANTS
  Http = {h1, h2}
  DHT = dht
INVARIANTS
  NotFoundIsThorough
  OnlyTheDHTFails
PROPERTIES
  
  HttpLookupEnds
\* A lookup that has its result takes no further step.
CHECK_DEADLOCK FALSE
