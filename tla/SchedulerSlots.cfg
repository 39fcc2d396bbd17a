CONSTANTS
  a1 = a1
  a2 = a2
  k1 = k1
  s1 = s1
  w1 = w1
  w2 = w2
  u1 = u1
  none = none
  Actions <- MCTwoActions
  Timers <- MCNone
  Slots <- MCSlot
  Workers <- MCTwoWorkers
  Users <- MCUser
  NoThread = none
  MaxCancels = 1
  MaxResets = 0
SPECIFICATION Spec
INVARIANTS
  SlotStaysArmed
PROPERTIES
  CancelledIsRemoved
  ActiveIsServed
CHECK_DEADLOCK FALSE
