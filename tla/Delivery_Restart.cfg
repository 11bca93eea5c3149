CONSTANTS
    Workers = {p}
    Names = {"A", "B"}
    TopicCap = 1
    UuidCap = 2
    WorkerCap = 2
    MaxSeq = 2
    Kinds <- EachItsType
    Subscribed = {"A", "B"}
    Channels = {1, 2}
    MayLose = FALSE
    MayRestart = {"broker", "receiver", "worker"}
SPECIFICATION DSpec
INVARIANTS RelayedOnce DeliveredOnce
