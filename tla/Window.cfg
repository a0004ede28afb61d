SPECIFICATION FairSpec
CONSTANTS
    p1 = p1
    p2 = p2
    m1 = m1
    m2 = m2
    t1 = t1
    t2 = t2
    POs = {p1}
    NoPO = NoPO
    Models = {m1}
    NoModel = NoModel
    Texts = {t1, t2}
    NoText = NoText
    MaxInputs = 6
    MaxFaults = 1
CHECK_DEADLOCK FALSE
INVARIANTS TypeOK MatchesChosenModel BusyHasWork ProposalIsForBarcode
PROPERTIES BusyEnds
