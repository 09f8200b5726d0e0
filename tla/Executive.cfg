\* The dashboard: a run that began earlier can end and another begin, or one
\* begin and end, between any two queries.  The AI request: more records than an answer shows,
\* two changes of the sources, and enough failures for all of them to be
\* unavailable.
SPECIFICATION MCSpec
CONSTANTS
    Ticket = {t1, t2}
    MaxCommits = 2
    MaxFaults = 1
    Question <- MCQuestion
    MaxRows = 2
    Notes <- MCNotes
    DetailLimit = 1
    FactLimit = 12
    LimitationLimit = 8
    WarningLimit = 12
    MaxWorldChanges = 2
    MaxLookupFailures = 2
SYMMETRY Tickets
INVARIANTS
    HealthyWasTrue
    UndisturbedAddsUp
    ConfidenceWarranted
    NamesMissingEvidence
    StaysInScope
    Founded
    SectionsAgree
\* A run ends when commits and changes are used up, or the request has ended.
CHECK_DEADLOCK FALSE
