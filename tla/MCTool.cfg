SPECIFICATION ToolSpec
CONSTANTS
    A = A
    B = B
    Names = {A, B}
    Scalars = {"u32"}
    Blank = Blank
    Rows <- MCRows
    MaxRows = 5
    MaxFiles = 2
    Kinds = {"number", "real", "bool", "string", "enum", "class"}
    MemberNames <- TwoMembers
    Schemas = {s1, s2}
    MaxRuns = 3
SYMMETRY NameSymmetry
INVARIANTS TypeOK ItemsConserved ItemsOwned ChildrenInherit LookupCurrent ImportOrderFree
INVARIANTS Understood RunRepairs
CHECK_DEADLOCK FALSE
