SPECIFICATION Spec
CONSTANTS
  iii = iii
  v = v
  x = x
  Rules <- MCRules
  Categories <- MCCategories
  Kinds <- MCKinds
  Uuids <- MCUuids
  WindowSize = 5
  MaxEvents = 6
INVARIANTS
  AlertsSound
  IncrementalIsBatch
  BurstsApart
  PrefixesApart
  NothingMissed
CHECK_DEADLOCK FALSE
