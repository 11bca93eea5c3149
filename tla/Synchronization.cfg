CONSTANTS
    MaxIndex = 1
    MaxRetry = 1
    SeqMod = 16
    MaxElems = 2
SPECIFICATION SFairSpec
INVARIANTS
    OneSocket
    OnlyCurrentReplies
    WholeSnapshot
PROPERTIES
    DownloadEnds
CHECK_DEADLOCK FALSE
