CONSTANTS
  w1 = w1
  w2 = w2
  w3 = w3
  main = main
  user = user
  none = none
  Workers <- MCTwoWorkers
  Launcher = main
  Callers <- MCOneCaller
  NoThread = none
  UsesRun = FALSE
  WriteErrors <- MCNoErrors
  MaxSends = 1
  MaxPushes = 2
  MaxReceives = 1
  WaiterModulus = 2
SPECIFICATION FairSpec
PROPERTY JoinEnds
CHECK_DEADLOCK FALSE
