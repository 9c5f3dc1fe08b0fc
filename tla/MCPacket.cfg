SPECIFICATION PacketSpec
CONSTANTS
  Payload = {0, 3}
  HeaderLen = 3
  MacLen = 4
  StartSize = 4
  MaxConns = 2
  MaxPackets = 3
  MaxWrites = 2
CHECK_DEADLOCK FALSE
INVARIANTS
  PacketInv
  PacketsArriveWhole
PROPERTIES
  PacketsAreHandled
