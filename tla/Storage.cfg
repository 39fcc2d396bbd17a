CONSTANTS
  x = x
  y = y
  b = b
  c = c
  d1 = d1
  d2 = d2
  d3 = d3
  user = user
  v1 = v1
  v2 = v2
  byte = byte
  garbage = garbage
  null = null
  Arrays <- MCArrays
  Buffers <- MCBuffers
  Blocks <- MCBlocks
  UserBlock = user
  Values <- MCValues
  Byte = byte
  Garbage = garbage
  Null = null
  MaxSize = 2
  MaxRefs = 2
SPECIFICATION Spec
INVARIANTS
  OwnedOnce
  ValueSemantics
  OnlySpoiledFault
  BuffersAreReadable
PROPERTIES
  NothingLeaks
CONSTRAINT
  MCOneKind
SYMMETRY MCSymmetry
CHECK_DEADLOCK FALSE
