CONSTANTS
  w1 = w1
  w2 = w2
  w3 = w3
  main = main
  user = user
  none = none
  Workers <- MCTwoWorkers
  Launcher = main
  Callers <- MCNobody
  NoThread = none
  UsesRun = FALSE
  WriteErrors <- MCNoErrors
  MaxSends = 1
  MaxPushes = 1
  MaxReceives = 0
  WaiterModulus = 2
SPECIFICATION Spec
INVARIANT NoSelfDeadlock
CHECK_DEADLOCK FALSE
