CONSTANTS
  w1 = w1
  w2 = w2
  w3 = w3
  main = main
  user = user
  none = none
  Workers <- MCThreeWorkers
  Launcher = main
  Callers <- MCOneCaller
  NoThread = none
  UsesRun = FALSE
  WriteErrors <- MCNoErrors
  MaxSends = 1
  MaxPushes = 1
  MaxReceives = 0
  WaiterModulus = 2
SPECIFICATION FairSpec
INVARIANT HaltIsOnceAndComplete
PROPERTIES
  WokenSendLoopEnds
  ReceiveLoopEnds
CHECK_DEADLOCK FALSE
