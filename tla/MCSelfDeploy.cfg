SPECIFICATION FairSpec
CONSTANTS
  j1 = j1
  j2 = j2
  Job = {j1, j2}
  NoJob = NoJob
  MaxEvents = 1
  Faults = {"spawnFails", "crash", "primaryCrash", "slowBoot"}
INVARIANTS
  OneDeployAtATime
  StateNamesDeploy
PROPERTIES
  LockReturned
  PendingResolves
