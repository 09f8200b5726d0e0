\* The cache: one unit of time is a refresh interval of 60 seconds.
\* The collection: three values, problems or hosts change while up to three
\* refreshes collect them; a series of three points outgrows window and limit.
SPECIFICATION MCSpec
CONSTANTS
    Interval = 1
    StaleAfter = 2
    MaxTime = 4
    MaxFaults = 2
    MaxHost = 2
    ItemOf <- MCItemOf
    Raw = {20}
    HostStates = {"absent", "up"}
    Severities = {"average", "unknown"}
    TopLimit = 1
    Window = 1
    MaxPoints = 2
    MaxClock = 3
    MaxChanges = 3
    MaxFailures = 1
INVARIANTS
    CacheIsNewestSuccess
    
    BlamesLaterFailure
    HealthyIsCurrent
    LiveHistory
    WorstHostsShown
PROPERTIES
    HistoryLostForAReason
