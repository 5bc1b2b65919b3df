SPECIFICATION Spec
CONSTANTS
  SegmentMax = 2
  MaxSize = 3
  Fragment = Fragment
  MaxEvents = 7
  MaxSegments = 6
INVARIANTS
  ReplayComplete
PROPERTY QueueSpec
CHECK_DEADLOCK FALSE
