SPECIFICATION Spec
CONSTANTS
  Events <- MCEvents
  MaxTimers = 2
INVARIANTS ScreensAgree VerdictRight
PROPERTY AuditEnds
