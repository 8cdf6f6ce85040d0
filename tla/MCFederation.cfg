SPECIFICATION Spec
CONSTANTS
  Peer = {p1}
  Prefixed = {p1}
  t1 = t1
  t2 = t2
  Handler = {t1, t2}
  None = None
  Gone = Gone
  Engine = "bolt"
  MaxTokens = 3
  MaxFaults = 1
SYMMETRY Symmetry
INVARIANTS
  OldTokenDies
  OptOutKeepsToken
  ImportsKept
PROPERTY RevokedStaysRevoked
