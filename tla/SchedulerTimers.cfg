CONSTANTS
  a1 = a1
  a2 = a2
  k1 = k1
  s1 = s1
  w1 = w1
  w2 = w2
  u1 = u1
  none = none
  Actions <- MCOneAction
  Timers <- MCOneTimer
  Slots <- MCSlot
  Workers <- MCTwoWorkers
  Users <- MCUser
  NoThread = none
  MaxCancels = 2
  MaxResets = 1
SPECIFICATION Spec
INVARIANTS
  NullNeedsTwoCancels
PROPERTIES
  CancelPreventsCall
CHECK_DEADLOCK FALSE
