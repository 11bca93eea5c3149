CONSTANTS
    MaxObjects = 4
    s1 = s1
    s2 = s2
    s3 = s3
    a = a
    b = b
    Socks = {s1, s2, s3}
    Pollers = {p1, p2}
    Names = {a, b}
    Thread <- ThreadOf
    Opens <- Ways
    Arrays <- TwiceOrBoth
    Objects = {u, v, w}
    Refs = {r1, r2}
    Size = 2
    Null = Null
    Callers = {t1, t2}
    Types = {"Started", "Delivery"}
    Matches <- OneOrAny
    MaxQueue = 2
    ByteSize = 4
    SeqNSize = 2
    LengthSize = 1
    UuidSize = 1
    IdSize = 2
    IdMin = 2
    IdMax = 6
    Takers = {t1, t2}
    Buffers = {b1, b2, b3, b4}
    Values = {0, 1}
    HighWater = 1
    NoBuffer = NoBuffer
    Topics = {n1, n2, UPDT}
    HUGZ = HUGZ
    UPDT = UPDT
    Addrs = {a}
    Default = b
    MaxEndp = 2
    t1 = t1
    Uuids = {u, v}
    UuidBytes = {0, 1}
    NullUuid = 0
    Readers = {t1, t2}
    UuidOwner <- FirstOwns
    Nobody = Null
SPECIFICATION PFairSpec
INVARIANTS
    NoDangling
    PollersFollow
    OpenIsWhole
    RefCounts
    TokensConserved
    MessagesWhole
    SettingsOfStart
    StringsTrue
PROPERTIES
    TimerProgress
    Implements
    OpenReturns
    TimeoutIsTrue
    WaitEnds
