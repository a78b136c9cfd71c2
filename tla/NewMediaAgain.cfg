CONSTANTS
  Titles = {"a", "b"}
  Top = 2
  Undefined = "none"
  MaxShelfChanges = 1
  MaxMediaFaults = 1
SPECIFICATION MediaSpec
INVARIANT OnlyNotifiesOnce
