CONSTANTS
    TokenMod = 3
    MaxStarts = 4
    MaxOps = 2
    FailingStarts = {2}
    InitSequence = 14
    MaxSeq = 1
    ByteSize = 16
    SeqNSize = 2
    LengthSize = 1
    UuidSize = 1
    NameCapacity = 2
SPECIFICATION WFairSpec
PROPERTY SentIncreases
