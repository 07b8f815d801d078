SPECIFICATION EventsSpec
CONSTANTS
    u = u
    v = v
    Capacity = 3
    Assets = {u, v}
    AnyAsset = AnyAsset
    MaxPage = 2
    Limits <- MCLimits
    MaxEvents = 5
    NoEvent = NoEvent
    s1 = s1
    s2 = s2
    Streams = {s1, s2}
    NoStream = NoStream
    Depth = 2
    MaxPublished = 4
    volume = volume
    spread = spread
    k1 = k1
    k2 = k2
    i1 = i1
    i2 = i2
    MaxTime = 3
    Never = Never
    Rules = {volume, spread}
    Window <- MCWindow
    Threshold <- MCThreshold
    Diversity <- MCDiversity
    WindowKeys = {k1, k2}
    NoKey = NoKey
    Items = {i1, i2}
    MaxProcessed = 3
CHECK_DEADLOCK FALSE
INVARIANTS
    TypeOK
    PagesSkipNothing
    NobodyIsCutOff
    StreamFaithful
    HasNewest
    WindowsAreExact
    FiresExactly
PROPERTIES
    RingIsLog
    PublishReturns
