SPECIFICATION FairSpec
CONSTANTS
    File <- MCFile
    Table <- MCTable
    Name <- MCName
    Field <- MCField
    None = "none"
    Content <- MCContent
    Unreadable = {"lost"}
    Requests <- MCRequests
    HasId = {"user", "order"}
    Dependents <- MCDependents
    Short <- MCShort
    MaxExact = 16
    MaxLoads = 2
    MaxAppRows = 2
INVARIANTS
    LoadedExactly
    AllOrNothing
    OthersUntouched
    FreshIds
PROPERTY
    LoadReturns
CHECK_DEADLOCK FALSE
