SPECIFICATION FairSpec
CONSTANTS
    Workers = {w1}
    Root = Root
    Main = Main
    None = None
    Jobs = 1
INVARIANTS
    SignalsOwnGroup
PROPERTIES
    CleanedIsGone
    ReportIsSettled
    OwnerLossCleansUp
CHECK_DEADLOCK FALSE
