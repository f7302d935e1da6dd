CONSTANTS
  Tasks = {t1, t2}
  Items = {i1, i2, i3, i4, i5}
  MaxServices = 1
  QLen = 2
  Timeout = 1
  MaxCalls = 5
  None = None
SPECIFICATION Spec
CHECK_DEADLOCK FALSE
INVARIANTS
  OneOwner
  ActionsLive
  
PROPERTIES
  CallsEnd
