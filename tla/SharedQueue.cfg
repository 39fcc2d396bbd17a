CONSTANTS
  m1 = m1
  m2 = m2
  c1 = c1
  c2 = c2
  none = none
  Messages <- MCMessages
  Consumers <- MCConsumers
  NoMessage <- none
  WaiterModulus <- MCWaiterModulus
  MaxPushes <- MCMaxPushes
SPECIFICATION FairSpec
INVARIANTS
  TypeOK
  Conservation
  NoLostWakeup
  AbortReleasesAll
PROPERTIES
  AbortEndsCalls
  CallsMakeProgress
  ImplementsMessageQueue
