CONSTANTS
  Peers = {p1}
  Purges = {h1, h2}
  Dialled = {p1}
  Classes = {"publicIP", "specialDNS"}
  MaxOpened = 2
SPECIFICATION Spec
INVARIANTS
  TypeOK
  NoConnectionSurvives
  ForgottenOrRelearned
  
CHECK_DEADLOCK FALSE
