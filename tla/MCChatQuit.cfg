SPECIFICATION OnlineSpec
CONSTANTS
    Users = {u1, u2, u3}
    Sockets = {s1, s2, s3}
    Sessions = {}
    Groups = {g1}
    NoSession = NoSession
    Workers = {w1, w2}
    Network = Network
    Nobody = Nobody
    MaxPackets = 4
    MaxPairs = 3
PROPERTIES
    QuitClearsMeeting
