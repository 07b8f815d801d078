SPECIFICATION Spec
CONSTANTS
    c1 = c1
    c2 = c2
    x = x
    MaxTime = 3
    Never = Never
    ControlIds = {c1, c2}
    IPs = {x}
    NoIP = NoIP
    RawDurations <- MCRawDurations
    MinDuration <- MCMinDuration
    MaxDuration = 3
    Day = 2
    NoControl = NoControl
    SourceIds = {c1, c2}
    Sources = {x}
    AnyIP = NoIP
    NoPolicy = NoPolicy
CHECK_DEADLOCK FALSE
INVARIANTS
    RevokedNotEnforced
