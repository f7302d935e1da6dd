CONSTANTS
  c1 = c1  c2 = c2
  Addrs = {a1, a2}
  Pcbs = {p1}
  Callers = {c1, c2}
  May <- MCMay
  MaxResults <- MCMaxResults
  QLen = 2
  Delay = 1
  Sends = 2
  Timeout = 1
  Resend = 0
  MaxPosts = 2
  MaxCalls = 1
  DeleteEarly = FALSE
  None = None
SPECIFICATION Spec
INVARIANTS
  QueuedInOrder
  SearchesLive
PROPERTIES
  NeverEarly
  CallsReturn
  PacketsLeave
