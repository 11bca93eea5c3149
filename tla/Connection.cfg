CONSTANT MaxMsgs = 2
SPECIFICATION CFairSpec
INVARIANTS
    TimersFollow
PROPERTIES
    Reconnects
    NoticesLoss
