SPECIFICATION FairSpec
CONSTANTS
  Neighbor = {n1}
  Destination = {d1, d2}
  Timeouts = {2}
  MaxLens = {2}
PROPERTY PendingRepliesHandled
