SPECIFICATION Spec
CONSTANTS
    k1 = k1
    k2 = k2
    ann = ann
    a1 = a1
    a2 = a2
    a3 = a3
    p = p
    q = q
    Keys = {k1}
    Analysts = {ann}
    Nobody = Nobody
    EvidenceCap = 2
    AlertIds = {a1, a2, a3}
    Ops = {p, q}
    SeedOp = SeedOp
    Seeds <- MCSeeds
    NoAlert = NoAlert
    NoCall = NoCall
    NoHit = NoHit
    MaxBatches = 3
SYMMETRY Symmetry
CHECK_DEADLOCK FALSE
INVARIANTS
    EvidenceKept
    HarmIsLocal
PROPERTIES
    ImplementsContract
