CONSTANTS
  Rules = {down, cert}
  Targets = {nas}
  PushRules = {down}
  MaxStrikes = 2
  Strikes <- MCStrikes
  Loop = loop
  OneShots = {}
  Ids = {1, 2, 3}
  NoRow = NoRow
  MaxFailures = 1
  MaxCrashes = 1
SPECIFICATION FairSpec
INVARIANTS TypeOK AtMostOneOpen
PROPERTIES OpensEarned AckHolds KeepsPromise LastingBreachIsShown ClearedIsResolved
