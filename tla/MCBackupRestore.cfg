SPECIFICATION RestoreSpec
CONSTANTS
  u1 = u1
  User = {u1}
  Scheduler = Scheduler
  Coll <- Components
  Record <- Records
  Component <- Belongs
  Exported <- Exportable
  Wiped <- Charts
  Initial <- There
  Retention = 1
  MaxCreated = 3
  MaxEdits = 1
  MaxDeletes = 1
  MaxDays = 2
  MaxFailures = 2
PROPERTIES
  
  NewestKept
INVARIANTS
  OncePerDay
