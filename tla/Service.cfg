SPECIFICATION SFairSpec
CONSTANTS
    Getters = {"GetUuid"}
    Gets = {g1}
    Dispatches = {d1}
    Streams = {s1}
    MaxEvents = 2
    MaxQueue = 2
    MaxWire = 2
INVARIANTS StreamShape NothingMissed NoSessionLeft
PROPERTIES Answered ShutdownEnds
CHECK_DEADLOCK FALSE
