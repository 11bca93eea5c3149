CONSTANTS
    ByteSize = 16
    SeqNSize = 2
    LengthSize = 1
    UuidSize = 1
    NameCapacity = 2
    Sent <- AllKinds
    Foreign <- ShortParts
SPECIFICATION XSpec
INVARIANTS RoundTrips ReadsWithin
CHECK_DEADLOCK FALSE
