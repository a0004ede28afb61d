SPECIFICATION Spec
CONSTANTS
    p1 = p1
    p2 = p2
    m1 = m1
    m2 = m2
    t1 = t1
    t2 = t2
    POs = {p1}
    NoPO = NoPO
    Models = {m1}
    NoModel = NoModel
    Texts = {t1}
    NoText = NoText
    MaxInputs = 7
    MaxFaults = 1
SYMMETRY Symmetry
CHECK_DEADLOCK FALSE
INVARIANTS RescanPrints
