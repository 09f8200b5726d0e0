SPECIFICATION Spec
CONSTANTS
    Source = {"wazuh", "zabbix"}
    Record = {1, 2}
    Value = {"a", "b"}
    NoValue = "none"
    Evidence <- MCEvidence
    ManualMappings = TRUE
    MaxBatch = 2
    MaxLinks = 1
    MaxDevice = 3
    MaxBatches = 3
INVARIANTS
    IndexExact
    OneRecordPerSource
    ConflictsExplained
    ConfidenceIsStrongest
    StoreBounded
PROPERTY LinksAreStable
\* A run ends when its batches are used up, or the store is full.
CHECK_DEADLOCK FALSE
