CONSTANTS
    Nil = Nil
    Statuses = {0, 1, 3}
    SendLogs = TRUE
SPECIFICATION Spec
INVARIANT ExitAnnounced
CHECK_DEADLOCK FALSE
