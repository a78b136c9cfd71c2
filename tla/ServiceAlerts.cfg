CONSTANTS
  Interval = 2
  Backoff = 4
  Threshold = 3
  Window = 6
  EscalateAfter = 20
  AlertEvery = 1
  Slack = 1
  NoVerdict = NoVerdict
  MaxFaults = 1
SPECIFICATION FairSpec
PROPERTIES WithdrawnOnRecovery OutageIsShown RecoveryIsShown
