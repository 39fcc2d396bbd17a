CONSTANTS
  d1 = d1
  d2 = d2
  Devices <- MCTwoDevices
  AbsInfo <- MCAbsInfo
  Coefficients <- MCPolynomials
  RawValues <- MCRaw
  MaxEvents <- MCEvents
SPECIFICATION Spec
INVARIANTS
  EmulatedPositionIsTotal
  EmulatedMovesAddUp
  LinearInRange
  PolynomialAsWritten
PROPERTIES
  StoppedLoopsEnd
CHECK_DEADLOCK FALSE
