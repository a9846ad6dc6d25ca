SPECIFICATION Spec
CONSTANTS
    v1 = v1
    v2 = v2
    NoRow = NoRow
    Node = {1, 2}
    Rank <- MCRank
    Key = {1, 2}
    Value <- MCValue
    Seeded = {}
    SeedRow <- MCSeedRow
    Statements = {"INSERT", "UPDATE", "DELETE"}
    GeneratedKeys = TRUE
    Wall = {1, 2}
    MaxInt4 = 4
    MaxWrites = 4
INVARIANTS
    TypeOK
    OwnStampsCovered
    StampsIdentifyWrites
    Convergence
    InsertsFindNoRow
PROPERTIES
    RowsAscend
CHECK_DEADLOCK FALSE
