SPECIFICATION FairSpec
CONSTANTS
    Items = {1, 2, 3}
    InitiallyReady = {1, 3}
    Slots = {1, 2, 3}
    SlotOfItem <- MCSlotOfItem
    Valid = {1, 3}
    LineOfSlot <- MCLineOfSlot
    InvNumber <- MCInvNumber
    NonNumeric = NonNumeric
    PortalRank <- MCPortalRank
    NoItem = NoItem
    NoStatus = NoStatus
    MaxRaises = 2
    MaxGlitches = 1
    MaxRefusals = 1
    MaxErrors = 1
    MaxCrashes = 1
    MaxRequeues = 1
INVARIANTS NoAttemptAfterTwoFailures BoundToOwnSlot
PROPERTIES ImplementsLifecycle PassEnds ReadyIsHandled
