SPECIFICATION Spec
CONSTANTS
  MaxBlock = 4
  BufferLimit = 2
  Scan = Scan
PROPERTIES CutOffFlushes HeadNoticed RangeEnds
CHECK_DEADLOCK FALSE
