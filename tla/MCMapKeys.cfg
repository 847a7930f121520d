SPECIFICATION ToolSpec
CONSTANTS
    A = A
    B = B
    Names = {A, B}
    Scalars = {"u32"}
    Blank = Blank
    Rows = {}
    MaxRows = 0
    MaxFiles = 0
    Kinds = {"number", "real", "bool", "string", "enum", "class"}
    MemberNames <- TwoMembers
    Schemas = {s1}
    MaxRuns = 0
INVARIANT KeysSkipped
CHECK_DEADLOCK FALSE
