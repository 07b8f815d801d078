SPECIFICATION Spec
CONSTANTS
    s1 = s1
    s2 = s2
    x = x
    AnyOne = AnyOne
    MaxTime = 2
    Never = Never
    SourceIds = {s1, s2}
    Sources = {x}
    AnyIP = AnyOne
    NoPolicy = NoPolicy
    Rate = 1
    Burst = 2
    Expiries <- MCExpiries
    MaxBlocked = 2
SYMMETRY Symmetry
INVARIANTS
    TokenBound
    CountersAgree
    SummaryAlmostComplete
