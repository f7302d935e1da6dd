CONSTANTS
  Threads = {mqtt, cloud, led}
  Tasks = {mqtt, cloud}
  Keys = {uri, state}
  UriKey = uri
  Sizes = {1, 2}
  BuffSize = 3
  Word = 8
  MaxPos = 5
  None = None
SPECIFICATION Spec
INVARIANTS
  RegisteredFound
