SPECIFICATION FairSpec
CONSTANTS
  BlkLen = 4
  HdrLen = 1
  SizeRange = 64
  Limit = 7
  Length = {0, 1, 2, 3}
  MaxBlks = 2
  MaxCount = 2
INVARIANTS TypeOK HeapSound HeldKept CountNotLow UseCounted MarksCounted LimitKept
CHECK_DEADLOCK FALSE
PROPERTY Answered
