\* Does sockbase_schedule go on with a connection that has been freed?
CONSTANTS
    Fds = {f1, f2}
    NoFd = NoFd
    MaxUnread = 1
SPECIFICATION Spec
CHECK_DEADLOCK FALSE
INVARIANT AliveAfterReceive
