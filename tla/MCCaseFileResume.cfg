\* Faults and crashes under fairness, with any two requests in between.
CONSTANTS
    Visitors = {v1}
    VisitOps <- AllOps
    MaxSite = 1
    MaxVisits = 2
    MaxPasses = 0
    MaxFaults = 3
SPECIFICATION FairSpec
INVARIANTS
    LoneJobKeepsItsFlag
PROPERTIES
    DownloadsSettle
CHECK_DEADLOCK FALSE
