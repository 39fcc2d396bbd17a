CONSTANTS
  left = left
  right = right
  Left = left
  Right = right
  Protocols <- MCProtocols
  Versions <- MCVersions
  Running <- MCRunning
  MaxSyncs = 1
SPECIFICATION MCSpec
PROPERTIES
  SuccessCancelsTimer
CHECK_DEADLOCK FALSE
