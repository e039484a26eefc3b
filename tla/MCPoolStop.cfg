SPECIFICATION Spec
CONSTANTS
    Threads = {w1, w2}
    None = None
    NULL = NULL
    Owner = NULL
    thd_max = 2
    MaxTasks = 4
    MaxFailures = 1
PROPERTIES
    StopEnds
CHECK_DEADLOCK FALSE
