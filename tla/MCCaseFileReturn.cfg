\* A refusal taken back comes back with the next restart.
CONSTANTS
    Visitors = {v1}
    VisitOps <- TrashOps
    MaxSite = 0
    MaxVisits = 2
    MaxPasses = 0
    MaxFaults = 1
SPECIFICATION Spec
INVARIANT ReturnedCaseStaysReturned
CHECK_DEADLOCK FALSE
