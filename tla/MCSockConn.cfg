\* Connections that come, send and go beside workers that take descriptors.
\* A process that has crashed does nothing more: no deadlock check.
CONSTANTS
    Fds = {f1, f2, f3}
    NoFd = NoFd
    MaxUnread = 2
SPECIFICATION FairSpec
CHECK_DEADLOCK FALSE
INVARIANT TypeOK
INVARIANT CountRight
INVARIANT ReadIsTold
PROPERTY PluginsSeeLife
 
