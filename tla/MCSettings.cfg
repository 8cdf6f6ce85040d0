SPECIFICATION Spec
CONSTANTS
  Registry = {r1}
  Handler = {t1, t2}
  Conn = {c1, c2}
  Secret = {p1}
  None = None
  Gone = Gone
  MaxFaults = 1
INVARIANTS
  LinkTracksCatalog
  LiveIsStored
PROPERTY SecretSurvives
