SPECIFICATION MCSpec
CONSTANTS
  Node = {a, b, c}
  self = a
  Bcast = bcast
  NoRoute = noRoute
  Filtered = {}
  EnableHello = TRUE
  MaxPRQueueLen = 1
  HopCounts = {15, 16, 255}
  MaxUpdates = 0
  MaxInterfaceEvents = 2
SYMMETRY Symmetry
INVARIANT HelloTimerRuns
CHECK_DEADLOCK FALSE
