SPECIFICATION MCSpec
CONSTANTS
  a = a
  b = b
  c = c
  Node = {a, b, c}
  InRange <- Line
  Bcast = bcast
  NoRoute = noRoute
  Filtered = {c}
  EnableHello = TRUE
  MaxPRQueueLen = 1
  MaxFailures = 1
  MaxInterfaceEvents = 1
INVARIANTS
  NoSelfRoutes NodesStayActive HopsReal
PROPERTY NodesImplementNode
CHECK_DEADLOCK FALSE
