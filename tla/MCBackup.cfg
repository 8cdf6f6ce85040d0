SPECIFICATION Spec
CONSTANTS
  p1 = p1
  p2 = p2
  k1 = k1
  k2 = k2
  NoKey = NoKey
  Proc = {p1, p2}
  Key = {k1, k2}
  MaxArchives = 2
  MaxRotations = 1
  MaxFaults = 1
SYMMETRY Symmetry
INVARIANTS
  OrphansOnlyByFault
  FingerprintTrue
  ListedTrue
