SPECIFICATION Spec
CONSTANTS
    Threads = {w1, w2, w3, w4}
    None = None
    NULL = NULL
    Owner = NULL
    thd_max = 3
    MaxTasks = 4
    MaxFailures = 1
INVARIANTS
    TypeOK
    ThreadsCounted
    NoStrandedTask
    TasksConserved
    FreedIdle
PROPERTIES
    TasksRun
\* The server has stopped, or has run every task of the bound.
CHECK_DEADLOCK FALSE
