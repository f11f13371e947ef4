CONSTANTS
  Alignment = 2
  UsableByPreviousChunk = 1
  AllocatedCtrlUnits = 1
  BlockCtrlUnits = 3
  EndCtrlBlockUnits = 1
  BaseUnit = 0
  SegmentSize = 28
  MaxSegmentSize = 36
  Requests = {12}
  Objects = {1}
  Overalignments = {4}
  ManyCalls <- EqualCalls
  GrowSizes = {6, 7}
  HeapAlignments = {4}
  MaxMultiple = 1
  MaxObjects = 1
  Processes = {p1, p2}
  Memory = {b1, b2}
  Lengths = {2}
  MaxDepth = 2
  IndexTypes = {"flat_map"}
  NestingIndexes = {"flat_map"}
  None = None
SYMMETRY Interchangeable
SPECIFICATION SegmentSpec
CHECK_DEADLOCK FALSE
PROPERTIES
  ObjectsStay
