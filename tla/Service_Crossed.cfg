SPECIFICATION SSpec
CONSTANTS
    Getters = {"GetUuid", "GetSeqNum"}
    Gets = {g1, g2}
    Dispatches = {d1}
    Streams = {s1}
    MaxEvents = 2
    MaxQueue = 2
    MaxWire = 2
INVARIANT OwnReplies
CHECK_DEADLOCK FALSE
