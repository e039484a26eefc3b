\* Bounds: see the README. Requests and connections are bounded, so the model stops.
SPECIFICATION Spec
CONSTANTS
    Users = {u1, u2}
    Robots = {r1, r2}
    Sockets = {s1, s2, s3}
    Workers = {w1, w2}
    Network = net
    Nobody = nobody
    NoRobot = none
    NoSocket = closed
    Scheduler = scheduler
    MaxRequests = 3
    MaxConnects = 3
SYMMETRY Symmetry
CHECK_DEADLOCK FALSE
INVARIANT TypeOK
INVARIANT RobotInOneMap
INVARIANT UsedIsConnected
INVARIANT EntryIsLive
 
INVARIANT UsedIsFollowing
