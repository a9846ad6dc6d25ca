SPECIFICATION FairSpec
CONSTANTS
    v1 = v1
    v2 = v2
    NoRow = NoRow
    Node = {1, 2, 3}
    Rank <- MCRank
    Key = {1}
    Value <- MCValue
    Seeded = {1}
    SeedRow <- MCSeedRow
    Statements = {"UPDATE", "DELETE"}
    GeneratedKeys = TRUE
    Wall = {1, 2}
    MaxInt4 = 10
    MaxWrites = 2
INVARIANTS
    StampsIdentifyWrites
    Convergence
    ClockCoversRows
PROPERTIES
    RowsAscend
    LocalUpdateTakesEffect
    RefinesRegister
    EventualConvergence
CHECK_DEADLOCK FALSE
