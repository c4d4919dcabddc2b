SPECIFICATION Spec
CONSTANTS
  Neighbor = {n1, n2}
  Destination = {d1, d2}
  Timeouts = {1, 2}
  MaxLens = {1, 2, 3}
INVARIANT QueueAged
PROPERTY RepliesHeldBack
