CONSTANTS
  Size <- MCSize
  MaxLabel = 63
  MaxPacket = 125
  HeadLen = 12
  Service <- MCService
  Local = "local"
  Sub = "_sub"
  Discovery <- MCDiscovery
  MaxAddresses = 2
  MaxAnswers = 5
SPECIFICATION PacketSpec
INVARIANTS
  PacketTypeOK
  NamesReadBack
  RecordsReadBack
