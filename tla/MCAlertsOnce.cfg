CONSTANTS
  Rules = {breaker}
  Targets = {nas}
  PushRules = {breaker}
  MaxStrikes = 1
  Strikes <- MCStrikes
  Loop = loop
  OneShots = {once}
  Ids = {1, 2, 3, 4}
  NoRow = NoRow
  MaxFailures = 1
  MaxCrashes = 1
SPECIFICATION FairSpec
INVARIANT PushedOnce
PROPERTY ClearedIsResolved
