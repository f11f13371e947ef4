CONSTANTS
  Processes = {p1, p2}
  Invalid = Invalid
  MaxDeaths = 0
SPECIFICATION Spec
INVARIANTS
  MutualExclusion
