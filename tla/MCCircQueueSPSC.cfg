CONSTANTS
  Size = 3
  WordMod = 64
  Producers = {p1}
  Consumers = {c1}
  PushWaits <- MCWaits
  PopWaits <- MCPopWaits
  MaxPush = 9
  MaxLength = 20
SPECIFICATION FairSpec
INVARIANTS
  LeastPower
  UnreadKept
PROPERTIES
  PushReturns
