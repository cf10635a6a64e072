CONSTANTS
    Nil = Nil
    Statuses = {0, 1, 3}
    SendLogs = TRUE
SPECIFICATION Spec
INVARIANT ExitCodes
PROPERTY RestartTerminates
CHECK_DEADLOCK FALSE
