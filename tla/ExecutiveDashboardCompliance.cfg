\* A ticket is resolved between the two queries, when another one counts already.
SPECIFICATION DashboardSpec
CONSTANTS
    Ticket = {t1, t2}
    MaxCommits = 3
    MaxFaults = 0
    Question <- MCQuestion
    MaxRows = 2
    Notes <- MCNotes
    DetailLimit = 1
    FactLimit = 12
    LimitationLimit = 8
    WarningLimit = 12
    MaxWorldChanges = 0
    MaxLookupFailures = 0
SYMMETRY Tickets
INVARIANT ComplianceIsPercentage
CHECK_DEADLOCK FALSE
