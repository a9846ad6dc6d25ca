SPECIFICATION BootSpec
CONSTANTS
    Node = {1, 2}
    NodeOrder <- MCNodeOrder
    Row = {"r1"}
    Start <- MCEmpty
    Meshed = {}
    Deployments <- MCGap
    MaxErrors = 0
INVARIANTS
    CloneHasAllData
CHECK_DEADLOCK FALSE
