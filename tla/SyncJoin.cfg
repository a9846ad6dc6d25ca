SPECIFICATION FairSpec
CONSTANTS
    Node = {1, 2, 3}
    NodeOrder <- MCNodeOrder
    Row = {"r1"}
    Start <- MCJoin
    Meshed = {1, 2}
PROPERTIES
    EventuallyInSync
CHECK_DEADLOCK FALSE
