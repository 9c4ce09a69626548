\* Two processes, with what the records survive or with what the claims do.
SPECIFICATION Spec
CONSTANTS
  p1 = p1
  p2 = p2
  a = a
  b = b
  None = None
  Runs <- Two
  Contents <- AB
  FaultSets <- FaultPlans
INVARIANTS TypeOK MistaggedIsRecorded
PROPERTIES ClaimedImageStays
SYMMETRY BothSymmetries
CHECK_DEADLOCK FALSE
