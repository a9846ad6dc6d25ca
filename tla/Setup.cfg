SPECIFICATION HealthFairSpec
CONSTANTS
    All = All
    Node = {1, 2}
    Table <- MCTable
    KeyType <- MCKeyType
    Foreign <- MCForeign
    NodeOrder <- MCNodeOrder
    Run = {r1, r2}
    Commands <- MCCommand
    Ready = {}
    Concurrent = TRUE
    MaxFaults = 1
    Logical = {1, 2}
    Stray <- MCStray
INVARIANTS
    HealthTypeOK
    SubscriptionsHaveSlots
    TablesHaveIdentity
    SuccessMeansDone
    NoIssuesMeansMesh
PROPERTIES
    LaterRunCompletes
    CompleteMeshIsHealthy
CHECK_DEADLOCK FALSE
