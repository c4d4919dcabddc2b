SPECIFICATION Spec
CONSTANTS
  a = a
  e1 = e1
  e2 = e2
  p1 = p1
  p2 = p2
  p3 = p3
  Packet = {p1, p2, p3}
  Dest = {a, Bcast}
  Bcast = Bcast
  Device = {e1, e2}
  NoDevice = NoDevice
  NoRoute = NoRoute
  Foreign = Foreign
  Local = Local
  Dst <- MCDst
  Oif <- MCOif
  EnableBroadcast = TRUE
  MaxLens = {1, 2}
  MaxLoop = 2
INVARIANT TypeOK
INVARIANT BufferBounded
PROPERTY PacketsKept
PROPERTY DeviceKept
