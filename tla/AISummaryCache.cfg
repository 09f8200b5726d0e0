\* Two entries for three ranges, so that entries are pushed out and expire.
SPECIFICATION FairSpec
CONSTANTS
    Request = {r1, r2, r3}
    Key = {k1, k2, k3}
    Nobody = nobody
    TTL = 2
    MaxEntries = 2
    MaxTime = 3
    MaxGenerations = 4
    MaxFaults = 1
INVARIANTS
    OldestExpiresFirst
    Coalesced
    AnswerIsCurrent
PROPERTY RequestsEnd
\* A run ends when time and generations are used up.
CHECK_DEADLOCK FALSE
