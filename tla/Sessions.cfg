SPECIFICATION FairSpec
CONSTANTS
    s1 = s1
    s2 = s2
    None = None
    Node = {1}
    Rank <- MCRank
    Session <- MCSession
    Key = {1}
    Wall = {1, 2}
    Incoming <- MCIncoming
    MaxRows = 4
INVARIANTS
    TypeOK
    StampsAscend
    ClockCoversLog
    OneStamper
    DeadlockTakesClockFirst
PROPERTIES
    ClockAscends
    RefinesAtomicClock
    TransactionsEnd
CHECK_DEADLOCK FALSE
