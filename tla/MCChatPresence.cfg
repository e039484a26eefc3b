SPECIFICATION PresenceSpec
CONSTANTS
    Users = {u1, u2}
    Sockets = {s1, s2}
    Sessions = {p1}
    Groups = {g1}
    NoSession = NoSession
    Workers = {w1, w2}
    Network = Network
    Nobody = Nobody
    MaxPackets = 2
    MaxPairs = 4
SYMMETRY Symmetry
INVARIANT TypeOK
INVARIANT GhostOnlyAfterLatePacket
