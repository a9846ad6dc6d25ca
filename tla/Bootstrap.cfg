SPECIFICATION BootFairSpec
CONSTANTS
    Node = {1, 2, 3}
    NodeOrder <- MCNodeOrder
    Row = {"r1", "r2"}
    Start <- MCEmpty
    Meshed = {}
    Deployments <- MCDeployments
    MaxErrors = 1
INVARIANTS
    BootTypeOK
    InSyncMeansSame
    
    SubscriptionsFindSlots
PROPERTIES
    QuietSetupSyncs
    RestartSubscribes
    ScriptsEnd
CHECK_DEADLOCK FALSE
