CONSTANTS
  Processes = {p1, p2, p3}
  Invalid = Invalid
  MaxDeaths = 3
  Owner = owner
  Cleaners = {c1}
  Files = {f1, f2, f3, f4}
  None = None
SPECIFICATION MCSpec
CHECK_DEADLOCK FALSE
INVARIANTS
  OneTakeoverPerDeath
  
  
  
PROPERTIES
  DeadOwnerIsReplaced
