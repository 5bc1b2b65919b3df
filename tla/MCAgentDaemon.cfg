SPECIFICATION FairSpec
CONSTANTS
  Lines = 1
  FileEvents = 1
  BatchSize = 2
  LinesCap = 1
  OutCap = 1
  SegmentMax = 9
  MaxSize = 9
  Fragment = Fragment
  Left <- MCLeft
  MaxFailures = 1
  MaxRuns = 1
INVARIANTS
  TypeOK
  AddedOnce
  MemoryIsSpooled
  ReplayIsWhole
PROPERTY Returns
CHECK_DEADLOCK FALSE
