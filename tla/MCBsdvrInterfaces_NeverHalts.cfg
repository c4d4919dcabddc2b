SPECIFICATION MCSpec
CONSTANTS
  a1 = a1
  a2 = a2
  b1 = b1
  i1 = i1
  i2 = i2
  Node = {m, x, a1, a2, b1}
  Address = {a1, a2, b1}
  Interface = {i1, i2}
  On <- MCOn
  NoAddress = noAddress
  Bcast = bcast
  NoRoute = noRoute
  Filtered = {}
  EnableHello = TRUE
  MaxPRQueueLen = 2
  HopCounts = {1}
  MaxInputs = 5
SYMMETRY Symmetry
INVARIANT NeverHalts
CHECK_DEADLOCK FALSE
