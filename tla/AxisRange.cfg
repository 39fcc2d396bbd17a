CONSTANTS
  d1 = d1
  d2 = d2
  Devices <- MCTwoDevices
  AbsInfo <- MCSymmetricInfo
  Coefficients <- MCPolynomials
  RawValues <- MCRaw
  MaxEvents <- MCEvents
SPECIFICATION Spec
INVARIANT StaysInUnitRange
CHECK_DEADLOCK FALSE
