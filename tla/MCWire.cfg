\* A run ends when MaxPackets packets have been sent and read.
SPECIFICATION Spec
CONSTANTS
    Workers = {w1, w2}
    TextLengths = {0, 3}
    EntryCounts = {0, 2}
    MaxPackets = 2
    MaxShort = 2
CHECK_DEADLOCK FALSE
INVARIANT TypeOK
INVARIANT RoundTrip
INVARIANT PacketsFilled
INVARIANT LostOnlyIfMixed
