CONSTANTS
  ClientPackets <- FromClient
  ServerPackets <- FromServer
  MaxPackets = 2
  Ways <- AllWays
SPECIFICATION Spec
INVARIANTS
  ServerIntact
  SingleIntact
  FirstPacketRight
CHECK_DEADLOCK FALSE
