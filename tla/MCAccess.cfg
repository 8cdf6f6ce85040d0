CONSTANTS
    Nil = Nil
    Users = {u1}
    Roles = {r1}
    Tokens = {t1}
    Requests = {q1}
    Permissions <- MCPermissions
    Life = 1
    Grace = 1
    MaxTime = 3
    MaxEdits = 2
SPECIFICATION AccessSpec
CHECK_DEADLOCK FALSE
INVARIANTS
    ServedInTime
    ChangesReachSessions
