CONSTANTS
  s1 = s1  s2 = s2  d = d  sta = sta  eth = eth
  Services = {s1, s2}
  Delegated = {d}
  Self = Self
  HostOf <- MCHostOf
  Ifs = {sta, eth}
  Protos = {v4}
  Twin <- MCTwin
  NoIf = NoIf
  OwnNames = {s2}
  MaxEvents = 6
SPECIFICATION Spec
INVARIANTS
  QueueMatches
  RecordsLive
  ProbedFirst
  DupHasTwin
PROPERTIES
  Settles
