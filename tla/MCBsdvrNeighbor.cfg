SPECIFICATION FairSpec
CONSTANTS
  Peer = {p, q}
  HelloInterval = 2
  Delay = 3
  Off = off
INVARIANTS TypeOK PurgeInTime
PROPERTIES ServiceSpec SilentNeighborsLeave
