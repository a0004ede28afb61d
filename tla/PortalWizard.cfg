SPECIFICATION FairSpec
CONSTANTS
    Items = {1, 2}
    NoItem = NoItem
    Rows = {"a1", "a2", "b3"}
    NoRow = NoRow
    RowsOf <- MCRowsOf
    PageOf <- MCPageOf
    Pages = 3
    ToBeReceived <- MCToBeReceived
    MaxGridPages = 2
    MaxCalls = 2
    MaxPasses = 1
    MaxFault <- MCMaxFault
CHECK_DEADLOCK FALSE
INVARIANTS TypeOK NotFoundIsTrue FailuresAreExplained PlacedUnlessMissing
PROPERTIES KeepsContract CallEnds
