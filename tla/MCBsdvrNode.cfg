SPECIFICATION MCSpec
CONSTANTS
  Node = {a, b, c}
  self = a
  Bcast = bcast
  NoRoute = noRoute
  Filtered = {c}
  EnableHello = TRUE
  MaxPRQueueLen = 2
  HopCounts = {15, 16, 255}
  MaxUpdates = 3
  MaxInterfaceEvents = 2
INVARIANTS
  TypeOK RoutesBacked RowsOwned NeighborsWatched PendingRepliesBounded ComputeSettles
PROPERTY RoutesPersist
CHECK_DEADLOCK FALSE
