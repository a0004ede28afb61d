SPECIFICATION Spec
CONSTANTS
    p1 = p1
    w1 = w1
    w2 = w2
    s1 = s1
    s2 = s2
    POs = {p1}
    InvIds = {1, 2}
    Models = {"A", "A-"}
    Barcodes = {"a", "x"}
    Serials = {s1, s2}
    NoSerial = NoSerial
    NoInv = NoInv
    NoRow = NoRow
    ReceivingIds <- MCReceivingIds
    ReceivingIdOf <- MCReceivingIdOf
    NormKey <- MCNormKey
    EmptyKey = ""
    SourceRow <- MCSourceRow
    Workers = {w1}
    MaxScans = 3
    MaxErrors = 0
    MaxCrashes = 1
    MaxRefreshes = 0
SYMMETRY Symmetry
CHECK_DEADLOCK FALSE
INVARIANTS RetryEmits
