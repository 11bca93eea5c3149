SPECIFICATION WSpec
CONSTANTS
    SeqSize = 2
    MaxOps = 2
    MaxMsgs = 1
INVARIANTS PolledIsOpen EventProtocol EmptyOnlyReopened
CHECK_DEADLOCK FALSE
