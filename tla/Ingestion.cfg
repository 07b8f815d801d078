SPECIFICATION IngestionSpec
CONSTANTS
    h = h
    f = f
    x = x
    MaxTime = 0
    Never = Never
    SourceIds = {}
    Sources = {x}
    AnyIP = AnyIP
    NoPolicy = NoPolicy
    Clients = {h}
    Feeds = {f}
    RawDepth = 1
    RateSlots = 1
    NoEvent = NoEvent
    BatchSize = 1
    MaxFed = 4
    Files = {f}
    MaxPieces = 5
    Expiries = {}
CHECK_DEADLOCK FALSE
INVARIANTS
    LinesReadOnce
