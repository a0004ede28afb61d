SPECIFICATION FairSpec
CONSTANTS
    Char = {"a", "A", "b", "-"}
    Lower <- MCLower
    Separators = {"-"}
    Barcodes <- MCBarcodes
    Models <- MCModels
    Typed <- MCTyped
    NoModel = NoModel
    MaxScans = 2
    MaxChanges = 1
CHECK_DEADLOCK FALSE
INVARIANTS TypeOK WalkIsSubsequence NeverGuesses AsksOnlyInDoubt
PROPERTIES ScanIsAnswered
