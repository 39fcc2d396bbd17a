CONSTANTS
  w1 = w1
  w2 = w2
  w3 = w3
  main = main
  user = user
  none = none
  Workers <- MCTwoWorkers
  Launcher = main
  Callers <- MCNobody
  NoThread = none
  UsesRun = TRUE
  WriteErrors <- MCAnyError
  MaxSends = 2
  MaxPushes = 3
  MaxReceives = 1
  WaiterModulus = 2
SPECIFICATION Spec
INVARIANTS
  HaltingHasOneOwner
  NoMessageLost
  SentInOrder
SYMMETRY WorkerSymmetry
CHECK_DEADLOCK FALSE
