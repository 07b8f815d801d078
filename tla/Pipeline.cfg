SPECIFICATION Spec
CONSTANTS
    h = h
    f = f
    x = x
    s1 = s1
    MaxTime = 2
    Never = Never
    SourceIds = {s1}
    Sources = {x}
    AnyIP = AnyIP
    NoPolicy = NoPolicy
    Clients = {h}
    Feeds = {f}
    RawDepth = 2
    RateSlots = 1
    NoEvent = NoEvent
    BatchSize = 1
    MaxFed = 3
    Expiries <- MCExpiries
CHECK_DEADLOCK FALSE
INVARIANTS
    AcceptedAccounted
    ContainedNotDetected
    EvidenceIsLogged
PROPERTIES
    IngestAnswers
    AcceptedIsLogged
