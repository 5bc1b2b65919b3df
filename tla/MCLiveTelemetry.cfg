SPECIFICATION Spec
CONSTANTS
  Agents = {a1}
  NotYet = NotYet
  MaxEvents = 2
  MaxIncidents = 2
  MaxFlips = 2
  MaxDrops = 1
  MaxPolls = 1
  MaxOccasions = 4
  QueueMax = 2
  ReplayLimit = 1
  BootLimit = 2
  ListLimit = 2
  MaxRows = 2
  MaxShown = 3
INVARIANTS RowsOnce NothingLostSilently LiveMeansStreaming ReportCoversShown
PROPERTIES QuietAfterUnmount WatchdogConverges
CHECK_DEADLOCK FALSE
