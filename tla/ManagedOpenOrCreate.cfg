CONSTANTS
  Processes = {p1, p2, p3}
  Size = 3
  StepwiseGrowth = FALSE
  MaxCreateOrOpenTries = 2
  MaxFiles = 2
SPECIFICATION FairSpec
CHECK_DEADLOCK FALSE
INVARIANTS
  
  Inv
PROPERTIES
  CallsEnd
