CONSTANTS
  Size = 3
  WordMod = 64
  Producers = {p1, p2}
  Consumers = {c1}
  PushWaits <- MCBlocking
  PopWaits <- MCPopWaits
  MaxPush = 6
  MaxLength = 16
SPECIFICATION FairSpec
INVARIANTS
  Occupancy
PROPERTIES
  ImplementsBoundedQueue
