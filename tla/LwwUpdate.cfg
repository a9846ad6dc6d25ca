SPECIFICATION Spec
CONSTANTS
    a = a
    b = b
    v1 = v1
    v2 = v2
    NoRow = NoRow
    Node <- MCNode2
    Key = {1}
    Value <- MCValue
    Seeded = {1}
    Statements = {"UPDATE"}
    MaxTime = 1
    MaxWrites = 1
PROPERTIES
    UpdateTakesEffect
CHECK_DEADLOCK FALSE
