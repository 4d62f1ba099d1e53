SPECIFICATION Spec
CONSTANTS
  Pings = {a, b}
  Day = 4
  Hour = 2
  Configs <- MCConfigs
  Limit = 1
  LastRequest = 2
  MaxTime = 10
  MaxFaults = 1
INVARIANTS BudgetHolds TwiceOnlyInDoubt
PROPERTIES QuietIsKept QueuedIsDelivered
CHECK_DEADLOCK FALSE
