SPECIFICATION BackupSpec
CONSTANTS
  Interval = 3
  Delay = 1
  Keep = 3
  Foreign = 1
  MaxTime = 10
INVARIANTS SnapshotsRestore SnapshotsAreFresh
CHECK_DEADLOCK FALSE
