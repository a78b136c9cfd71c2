CONSTANTS
  StaleAfter = 2
  GateStale = 1
  PollTimeout = 1
  Absent = Absent
  MaxTime = 5
  MaxTurns = 1
SPECIFICATION ReadingSpec
INVARIANT BadDriveIsReported
CHECK_DEADLOCK FALSE
