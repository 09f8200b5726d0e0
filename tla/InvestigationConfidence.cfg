SPECIFICATION MCInvestigationSpec
CONSTANTS
    Question <- MCQuestion
    MaxRows = 2
    Notes <- MCNotes
    DetailLimit = 1
    FactLimit = 12
    LimitationLimit = 8
    WarningLimit = 12
    MaxWorldChanges = 2
    MaxLookupFailures = 2
INVARIANT MissingEvidenceLowersConfidence
CHECK_DEADLOCK FALSE
