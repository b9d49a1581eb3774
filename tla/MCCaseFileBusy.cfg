\* Everything at once: two requests, a watch pass, the job, one fault.
CONSTANTS
    Visitors = {v1, v2}
    VisitOps <- AllOps
    MaxSite = 1
    MaxVisits = 2
    MaxPasses = 1
    MaxFaults = 1
SPECIFICATION Spec
SYMMETRY VisitorSymmetry
INVARIANTS
    TypeOK
    AckedDecisionSurvives
    NewsIsNotSilent
CHECK_DEADLOCK FALSE
