SPECIFICATION Spec
CONSTANTS
  Agents = {a1, a2}
  HEARTBEAT_INTERVAL = 2
  MISSED_HEARTBEAT_LIMIT = 1
  CORRELATION_WINDOW = 1
  None = None
  MaxClock = 4
SYMMETRY Symmetry
INVARIANTS
  LossNoticedInTime
PROPERTY DispositionJustified
CHECK_DEADLOCK FALSE
