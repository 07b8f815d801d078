SPECIFICATION SystemSpec
CONSTANTS
    k1 = k1
    k2 = k2
    ann = ann
    a1 = a1
    a2 = a2
    p = p
    c = c
    x = x
    y = y
    host = host
    d1 = d1
    d2 = d2
    Keys = {k1, k2}
    Analysts = {ann}
    Nobody = Nobody
    EvidenceCap = 2
    AlertIds = {a1, a2}
    Ops = {p, c}
    CaseOps = {c}
    SeedOp = SeedOp
    Seeds <- MCSeeds
    NoAlert = NoAlert
    MaxBatches = 3
    IPs = {x, y}
    NoIP = NoIP
    CaseKeys = {x, y, host}
    Origins <- MCOrigins
    Terms <- MCTerms
    NoCase = NoCase
    Stores = {"memory", "postgres"}
    ControlIds = {d1, d2}
    RawDurations <- MCRawDurations
    MinDuration <- MCMinDuration
    MaxDuration = 3
    Day = 2
    NoControl = NoControl
    NoPolicy = NoPolicy
    MaxTime = 0
    Never = Never
SYMMETRY Symmetry
CHECK_DEADLOCK FALSE
INVARIANTS
    OneOpenPerKey
    AlertsCoherent
    BatchesRecorded
    CaseIsWorkedOff
    OncePerAlertAndAddress
    CaseIsEnforced
    StatusRollsUp
PROPERTIES
    NoHistoryRewritten
