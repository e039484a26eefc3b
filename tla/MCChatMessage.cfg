\* A run ends when MaxPackets packets have been handled.
SPECIFICATION TalkingSpec
CONSTANTS
    Users = {u1, u2, u3}
    Sockets = {s1, s2, s3}
    Sessions = {p1, p2}
    Groups = {g1}
    NoSession = NoSession
    Workers = {w1, w2}
    Network = Network
    Nobody = Nobody
    MaxPackets = 3
    MaxPairs = 3
SYMMETRY Symmetry
CHECK_DEADLOCK FALSE
INVARIANT ExclusiveSession
INVARIANT MembersTold
INVARIANT PrivateMail
INVARIANT ToldBeforeMail
INVARIANT ConfirmedIsForgotten
PROPERTY LeftOnlyIfAway
