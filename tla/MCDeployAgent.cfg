SPECIFICATION AgentFairSpec
CONSTANTS
  c1 = c1
  c2 = c2
  c3 = c3
  Container = {c1, c2, c3}
  First = c1
  HasPeer = FALSE
  PortPublished = TRUE
  ProjectNetwork = FALSE
INVARIANTS
  NeverContainerless
  OneSwirlRuns
  RecoveryOnlyOnFault
PROPERTIES
  BackupUntilHealthy
  VerdictMatches
  JobEnds
CHECK_DEADLOCK FALSE
