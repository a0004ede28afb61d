SPECIFICATION Spec
CONSTANTS
    Items = {1, 2, 3}
    InitiallyReady = {}
    Slots = {1, 2, 3}
    SlotOfItem <- MCSlotOfItem
    Valid = {1, 2, 3}
    LineOfSlot <- MCLineOfSlot
    InvNumber <- MCInvNumber
    NonNumeric = NonNumeric
    PortalRank <- MCPortalRank
    NoItem = NoItem
    NoStatus = NoStatus
    MaxRaises = 3
    MaxGlitches = 1
    MaxRefusals = 1
    MaxErrors = 1
    MaxCrashes = 1
    MaxRequeues = 1
INVARIANTS TypeOK ReceivedWasEntered ReceiptNeedsUnknown KillIsEarned StatusTellsStreak
