CONSTANTS
  zero = zero
  one = one
  absent = absent
  Names <- MCNames
  Values <- MCValues
  Absent = absent
  Zero = zero
  MaskBits = 3
  ModuleNames <- MCModuleNames
  InputsToAdd <- MCInputsToAdd
  SensorsToAdd <- MCSensorsToAdd
  UsesReset = FALSE
  MaxMessages = 1
SPECIFICATION Spec
INVARIANTS
  ReadsSetNothing
CHECK_DEADLOCK FALSE
