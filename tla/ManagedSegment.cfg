CONSTANTS
  Alignment = 2
  UsableByPreviousChunk = 1
  AllocatedCtrlUnits = 1
  BlockCtrlUnits = 3
  EndCtrlBlockUnits = 1
  BaseUnit = 0
  SegmentSize = 28
  MaxSegmentSize = 36
  Requests = {1, 12}
  Objects = {1, 3}
  Overalignments = {4}
  ManyCalls <- EqualCalls
  GrowSizes = {6, 7}
  HeapAlignments = {4, 8, 16}
  MaxMultiple = 48
  MaxObjects = 4
  Processes = {p1, p2}
  Memory = {b1, b2}
  Lengths = {2}
  MaxDepth = 2
  IndexTypes = {"iset", "flat_map"}
  NestingIndexes = {"iset"}
  None = None
SYMMETRY Interchangeable
SPECIFICATION SegmentSpec
CHECK_DEADLOCK FALSE
INVARIANTS
  
  
  HeapIsConsistent
  
  DirectoryInv
  FoundIsBuilt
PROPERTIES
  ObjectsStay
