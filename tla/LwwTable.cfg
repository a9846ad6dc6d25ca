SPECIFICATION FairSpec
CONSTANTS
    a = a
    b = b
    v1 = v1
    v2 = v2
    NoRow = NoRow
    Node <- MCNode2
    Key = {1, 2}
    Value <- MCValue
    Seeded = {1}
    Statements = {"INSERT", "UPDATE", "TOUCH", "DELETE"}
    MaxTime = 2
    MaxWrites = 4
INVARIANTS
    TypeOK
    OnlyTiesDiverge
    InsertsFindNoRow
PROPERTIES
    TimesAscend
    EventuallyDrained
CHECK_DEADLOCK FALSE
