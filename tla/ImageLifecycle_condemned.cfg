\* One process reserves a tag that another condemns.
SPECIFICATION Spec
CONSTANTS
  p1 = p1
  p2 = p2
  a = a
  b = b
  None = None
  Runs <- Two
  Contents <- AB
  FaultSets <- NoFaults
PROPERTIES CondemnSparesReserved
CHECK_DEADLOCK FALSE
