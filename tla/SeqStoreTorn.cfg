SPECIFICATION SpecWithAccidents
CONSTANTS
  Block = 3
  Empty = Empty
  MaxSeq = 24
PROPERTY NeverReused
CHECK_DEADLOCK FALSE
