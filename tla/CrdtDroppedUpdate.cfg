SPECIFICATION Spec
CONSTANTS
    v1 = v1
    v2 = v2
    NoRow = NoRow
    Node = {1, 2}
    Rank <- MCRank
    Key = {1}
    Value <- MCValue
    Seeded = {}
    SeedRow <- MCSeedRow
    Statements = {"INSERT", "UPDATE"}
    GeneratedKeys = TRUE
    Wall = {1, 2}
    MaxInt4 = 20
    MaxWrites = 2
PROPERTIES
    LocalUpdateTakesEffect
CHECK_DEADLOCK FALSE
