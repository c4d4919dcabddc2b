SPECIFICATION MCSpec
CONSTANTS
  Node = {a, b, c}
  self = a
  Bcast = bcast
  NoRoute = noRoute
  Filtered = {}
  EnableHello = TRUE
  MaxPRQueueLen = 1
  HopCounts = {15, 16, 255}
  MaxUpdates = 2
  MaxInterfaceEvents = 0
SYMMETRY Symmetry
INVARIANT BestRoutesInstalled
CHECK_DEADLOCK FALSE
