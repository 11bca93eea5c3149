CONSTANTS
    Workers = {p}
    Names = {"A", "B"}
    TopicCap = 2
    UuidCap = 2
    WorkerCap = 2
    MaxSeq = 2
    Kinds <- StatesOnly
    Subscribed = {"A", "B"}
    Channels = {1}
    MayLose = FALSE
    MayRestart = {"worker"}
SPECIFICATION DSpec
INVARIANT SnapshotAsserted
