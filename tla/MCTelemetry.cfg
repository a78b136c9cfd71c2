CONSTANTS
  Nas = nas
  Boxes = {}
  Tabs = {tab}
  StaleFactor = 1
  Interval = 1
  ResetDrop = 0
  MinBackoff = 2
  MaxBackoff = 3
  None = None
  MaxRun = 1
  MaxSeq = 2
  InFlight = 2
  MaxPipe = 2
  MaxBreaks = 1
SPECIFICATION FairSpec
INVARIANTS TypeOK IgnoredAtMost SilenceShown TabsAgree LiveNeedsSocket
PROPERTIES NeverStepsBack SilenceReachesTheTab Reconnects
