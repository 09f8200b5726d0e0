\* One unit of time is a refresh interval of 60 seconds.
SPECIFICATION Spec
CONSTANTS
    Interval = 1
    StaleAfter = 2
    MaxTime = 5
    MaxFaults = 2
INVARIANT FailureShown
