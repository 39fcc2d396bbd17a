CONSTANTS
  left = left
  right = right
  Left = left
  Right = right
  Protocols <- MCProtocols
  Versions <- MCVersions
  Running <- MCRunning
  MaxSyncs = 1
SPECIFICATION MCSpec
INVARIANTS
  TypeOK
  OnlyCompatibleSync
  SameVerdict
  ScheduledOnce
  DeadlineStands
PROPERTIES
  ConflictIsHeard
CHECK_DEADLOCK FALSE
