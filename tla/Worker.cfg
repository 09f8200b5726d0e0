\* A record may be refused in a loop that catches the error and in one that does
\* not, and two other loops may meet an error that none catches, so that the
\* process ends in every way and any number of times, at any stage of the others.
\* Three records on pages of one and two pages allowed: records appear, change,
\* go and come back before, on and behind the page being read, and the page
\* limit is met; three faults let a request fail for good.
SPECIFICATION MCSpec
CONSTANTS
    Rejecting = {"zabbix", "wazuh"}
    Breaking = {"freshservice", "snipe_it"}
    MaxRecord = 3
    MaxVersion = 2
    MaxRemoved = 2
    MaxRestored = 1
    MaxFaults = 3
    PageSize = 1
    MaxPages = 2
INVARIANTS
    ListingComplete
    RequestsBounded
PROPERTIES
    LoopsGoOn
    CountIsTrue
    ImplementsMirror
    ListingsCatchUp
