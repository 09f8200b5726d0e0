\* Three tickets on pages of one and two pages allowed, so that every page
\* boundary can be crossed, and the page limit met, while the source changes.
SPECIFICATION FairSpec
CONSTANTS
    MaxTicket = 3
    MaxVersion = 2
    MaxTime = 2
    MaxFaults = 1
    MaxDeleted = 1
    PageSize = 1
    MaxPages = 2
    Overlap = 1
    Skew = 1
INVARIANTS
    NoUpdateMissed
PROPERTIES
    TicketsChangeWithSuccess
    ImplementsMirror
    CaughtUp
