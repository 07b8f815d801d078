SPECIFICATION Spec
CONSTANTS
    a1 = a1
    a2 = a2
    p = p
    q = q
    k1 = k1
    k2 = k2
    ann = ann
    Keys = {k1, k2}
    Analysts = {ann}
    Nobody = Nobody
    EvidenceCap = 2
    AlertIds = {a1, a2}
    Ops = {p, q}
    Pipeline = Pipeline
    NoAlert = NoAlert
    NoJob = NoJob
    UpdateAccepted = TRUE
    MaxBatches = 3
    MaxFaults = 2
SYMMETRY Symmetry
CHECK_DEADLOCK FALSE
INVARIANTS
    RowsCoherent
    DuplicateOnlyByFaultOrRace
    AnsweredIsDurable
    AtMostOnce
PROPERTIES
    HistoryLostOnlyByRace
    ImplementsContract
