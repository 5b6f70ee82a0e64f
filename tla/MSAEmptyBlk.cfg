SPECIFICATION Spec
CONSTANTS
  BlkLen = 4
  HdrLen = 1
  SizeRange = 64
  Limit = 0
  Length = {1, 2}
  MaxBlks = 2
  MaxCount = 3
PROPERTY EmptyBlkFreed
CHECK_DEADLOCK FALSE
