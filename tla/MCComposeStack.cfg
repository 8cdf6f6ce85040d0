SPECIFICATION Spec
CONSTANTS
  h1 = h1
  h2 = h2
  Host = {h1, h2}
  NoHost = NoHost
  c1 = c1
  c2 = c2
  Content = {c1, c2}
  NoContent = NoContent
  Handler = {t1}
  d1 = d1
  Deployment = {d1}
  Services = 2
  Keep = 1
  MaxRev = 2
  UsageReported = FALSE
  Faults = {"impatient", "crash", "lost", "leak", "blind", "undropped", "noVersion", "daemonFails"}
  MaxMishaps = 1
SYMMETRY Symmetry
INVARIANTS
  RevisionsUnique
  StatusTruthful
  NoOrphans
PROPERTY HistoryKeepsOverwritten
