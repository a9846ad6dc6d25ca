SPECIFICATION HealthSpec
CONSTANTS
    All = All
    Node = {1, 2}
    Table <- MCTable
    KeyType <- MCKeyType
    Foreign <- MCForeign
    NodeOrder <- MCNodeOrder
    Run = {r1, r2}
    Commands <- MCSetupAll
    Ready = {1, 2}
    Concurrent = FALSE
    MaxFaults = 1
    Logical = {1, 2}
    Stray <- MCStray
INVARIANTS
    SuccessMeansReplicating
CHECK_DEADLOCK FALSE
