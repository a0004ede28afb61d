SPECIFICATION SyncSpec
CONSTANTS
    p1 = p1
    w1 = w1
    s1 = s1
    s2 = s2
    POs = {p1}
    InvIds = {1, 2, 3}
    Models = {"A", "A-"}
    Barcodes = {"a", "x"}
    Serials = {s1, s2}
    NoSerial = NoSerial
    NoInv = NoInv
    NoRow = NoRow
    ReceivingIds <- MCReceivingIds
    ReceivingIdOf <- MCReceivingIdOf
    NormKey <- MCNormKey
    EmptyKey = ""
    SourceRow <- MCSourceRow
    Workers = {w1}
    MaxScans = 3
    MaxErrors = 1
    MaxSyncs = 1
    MaxSyncErrors = 1
    MaxCrashes = 1
    MaxRefreshes = 0
SYMMETRY Symmetry
CHECK_DEADLOCK FALSE
INVARIANTS DuplicateNeedsLostPost ReadyItemsAgreeWithRecord ReceivedIsReady VerdictTellsTable PassRepairs
