SPECIFICATION Spec
CONSTANTS
  Agents = {a1}
  HEARTBEAT_INTERVAL = 2
  MISSED_HEARTBEAT_LIMIT = 1
  CORRELATION_WINDOW = 1
  None = None
  MaxClock = 4
INVARIANT ReportedWasBroadcast
CHECK_DEADLOCK FALSE
