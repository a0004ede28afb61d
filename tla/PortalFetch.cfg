SPECIFICATION Spec
CONSTANTS
    Populators = {"scan1", "scan2"}
    Refresher = "refresh"
    POs = {"p"}
    InvIds = {1, 2}
    PoOf <- MCPoOf
    MaxVersion = 2
    OnOrder <- MCOnOrder
    None = None
    Disk = Disk
    Orphan = Orphan
    MaxStarts = 2
    MaxFault <- MCMaxFault
CHECK_DEADLOCK FALSE
INVARIANTS TypeOK FreshIfAlone OrderIsOneExport
PROPERTIES NeverEmptied
