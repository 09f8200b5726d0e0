\* Two threads, so that a refresh, a logout and a login each meet another one
\* half-way; an idle time longer than the refresh interval.  Users are created
\* by two threads and two commands at once, some with the same name.
SPECIFICATION MCSpec
CONSTANTS
    Req = {r1, r2}
    Idle = 3
    Absolute = 4
    RefreshAfter = 1
    Latency = 1
    Window = 1
    MaxFailures = 1
    MaxTime = 5
    MaxSwitches = 2
    Endpoint = {e1, e2}
    Command = {o1, o2}
    Spelling <- MCSpelling
    Name = {"ann", "bob"}
    Stored <- MCStored
    MaxCreations = 4
    MaxCreationFaults = 2
INVARIANTS
    LogoutIsFinal
    StaysSignedIn
    FailuresBounded
    CreationsAudited
\* The clock stops at MaxTime, and the creations are used up.
CHECK_DEADLOCK FALSE
