SPECIFICATION FairSpec
CONSTANTS
  ip = ip
  H248RTPIP = ip
  RTPIP = ip
  Calls = {c1, c2}
  PortMin = 3
  PortMax = 15
  Foreign <- ForeignSocket
  Nil = Nil
INVARIANTS
  SocketsAccounted
PROPERTIES
  RelayEnds
  CallsServed
