SPECIFICATION AgentSpec
CONSTANTS
  Block = 2
  Empty = Empty
  MaxSeq = 24
  Files = {auth}
  Journals = {journald}
  Watches = {}
  Seed = 0
  Capacity = 1
  NoEvent = NoEvent
  MaxLines <- MCMaxLines
  MaxBoots = 2
  BeatBoots = 1
INVARIANTS
  NothingLostInside
  NumbersIdentify
  CalmBeatIsCurrent
PROPERTIES
  NeverReused
  EveryLineSent
CHECK_DEADLOCK FALSE
