SPECIFICATION Spec
CONSTANTS
  h1 = h1
  Host = {h1}
  e1 = e1
  r1 = r1
  Editor = {e1}
  Reader = {r1}
  None = None
  Engine = "bolt"
  MaxFaults = 1
INVARIANTS
  SettledHostIsTrue
  OperationsReachTheirHost
