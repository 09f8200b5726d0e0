-------------------------- MODULE MCDeviceIngestion --------------------------
\* An instance of DeviceIngestion for TLC: one name in three spellings and
\* another one, a loopback and a routable address.
EXTENDS DeviceIngestion

MCText == {"SRV", "srv.", "pc"}
MCAddress == {"127.0.0.1", "10.0.0.1"}
MCValue == {"srv", "srv.", "pc", "10.0.0.1"}
MCCanonical == [t \in MCText \cup {"none"} |-> IF t = "SRV" THEN "srv" ELSE t]
MCCanonicalHost == [t \in MCText \cup {"none"} |-> IF t \in {"SRV", "srv."} THEN "srv" ELSE t]
MCStableIp == [a \in MCAddress \cup {"none"} |-> IF a = "10.0.0.1" THEN a ELSE "none"]

MCWazuhAgent ==
    {[name |-> n, ip |-> "10.0.0.1", os |-> "pc"] : n \in MCText}
MCZabbixHost ==
    {[name |-> "pc", technical_name |-> "SRV",
      interfaces |-> <<[address |-> "127.0.0.1", is_main |-> TRUE]>>],
     [name |-> "SRV", technical_name |-> "pc",
      interfaces |-> <<[address |-> "10.0.0.1", is_main |-> FALSE],
                       [address |-> "127.0.0.1", is_main |-> TRUE]>>]}
MCSnipeItAsset ==
    {[name |-> n, serial |-> "SRV", asset_tag |-> "none", category |-> "pc", location |-> "pc"] :
        n \in {"SRV", "pc"}}
=============================================================================
