SPECIFICATION Spec
CONSTANTS
    BlockLen = 5
    HeaderLen = 2
    Blocks = {b1, b2, b3}
    NoBlock = NoBlock
    Sizes <- MCSizes
    MaxPackets = 3
INVARIANTS
    TypeOK
    RecvWindow
    RefcountExact
PROPERTIES
    PacketsInOrder
    AllDelivered
\* The connection is gone for good once it is closed.
CHECK_DEADLOCK FALSE
