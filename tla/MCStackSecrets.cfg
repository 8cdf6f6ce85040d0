SPECIFICATION Spec
CONSTANTS
  s1 = s1
  s2 = s2
  f1 = f1
  f2 = f2
  v1 = v1
  v2 = v2
  Service <- Started
  Binding = {b1}
  Form <- Forms
  Field = {f1, f2}
  Value = {v1, v2}
  Typed <- Payloads
  All = All
  NoField = NoField
  None = None
  Mounted = Mounted
  KeepLast = 1
  MaxVersions = 3
  MaxEdits = 2
  MaxFaults = 1
INVARIANTS
  ServicesAgree
  DriftTruthful
  EditsSurvive
  NothingLeft
PROPERTY AppendKeepsFields
