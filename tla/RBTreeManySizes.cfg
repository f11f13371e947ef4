CONSTANTS
  Alignment = 2
  UsableByPreviousChunk = 1
  AllocatedCtrlUnits = 1
  BlockCtrlUnits = 3
  EndCtrlBlockUnits = 1
  BaseUnit = 0
  SegmentSize = 28
  MaxSegmentSize = 36
  Requests = {1, 6, 12}
  Objects = {1, 3}
  Overalignments = {4}
  ManyCalls <- LargeObjectCalls
  GrowSizes = {6, 7}
  HeapAlignments = {4}
  MaxMultiple = 4
  MaxObjects = 1
SPECIFICATION MCSpec
INVARIANTS
  BuffersAreKept
CHECK_DEADLOCK FALSE
