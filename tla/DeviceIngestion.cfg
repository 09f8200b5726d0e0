SPECIFICATION Spec
CONSTANTS
    Source = {"wazuh", "zabbix", "snipe_it"}
    Evidence <- IngestedEvidence
    ManualMappings = FALSE
    Text <- MCText
    Address <- MCAddress
    Value <- MCValue
    NoValue = "none"
    Canonical <- MCCanonical
    CanonicalHost <- MCCanonicalHost
    StableIp <- MCStableIp
    WazuhAgent <- MCWazuhAgent
    ZabbixHost <- MCZabbixHost
    SnipeItAsset <- MCSnipeItAsset
    Record = {1, 2}
    MaxBatch = 2
    MaxLinks = 2
    MaxDevice = 4
    MaxBatches = 2
INVARIANTS
    AssetsStayAlone
    SameHostMeets
\* A run ends when its batches are used up.
CHECK_DEADLOCK FALSE
