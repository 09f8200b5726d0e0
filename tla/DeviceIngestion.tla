--------------------------- MODULE DeviceIngestion ---------------------------
(***************************************************************************)
(* What the worker feeds to the correlation engine (ingestion.py and      *)
(* normalize.py): the identifiers each source can show, normalized, with  *)
(* no manual mappings.  Raw texts and addresses are values; the constants *)
(* Canonical, CanonicalHost and StableIp give what normalization makes of *)
(* them.                                                                   *)
(***************************************************************************)
EXTENDS DeviceCorrelation

CONSTANTS
    Text, Address,           \* raw names, labels and interface addresses
    Canonical,               \* normalize_identifier: trimmed, lower case
    CanonicalHost,           \* normalize_hostname: and without trailing dots
    StableIp,                \* normalize_stable_ip: NoValue for loopback etc.
    WazuhAgent, ZabbixHost, SnipeItAsset   \* what the sources may report

Optional(S) == S \cup {NoValue}

ASSUME NormalizationAssumption ==
    /\ Canonical \in [Optional(Text) -> Optional(Value)]
    /\ CanonicalHost \in [Optional(Text) -> Optional(Value)]
    /\ StableIp \in [Optional(Address) -> Optional(Value)]

ASSUME RecordsAssumption ==
    /\ WazuhAgent \subseteq [name : Optional(Text), ip : Optional(Address), os : Optional(Text)]
    /\ SnipeItAsset \subseteq [name : Optional(Text), serial : Optional(Text),
                               asset_tag : Optional(Text), category : Optional(Text),
                               location : Optional(Text)]
    /\ \A host \in ZabbixHost :
        /\ host.name \in Optional(Text) /\ host.technical_name \in Optional(Text)
        /\ host.interfaces \in Seq([address : Optional(Address), is_main : BOOLEAN])

\* normalized_identifiers of an observation with the given fields.
Normalized(shown) ==
    [f \in Field |->
        IF f \notin DOMAIN shown THEN NoValue
        ELSE IF f = "hostname" THEN CanonicalHost[shown[f]]
        ELSE IF f = "stable_ip" THEN StableIp[shown[f]]
        ELSE Canonical[shown[f]]]

\* Mutated form of WazuhObservation: the name is not taken for the hostname.
WazuhObservationNameOnly(agent) ==
    [name |-> agent.name, stable_ip |-> agent.ip, os |-> agent.os]

\* correlate_wazuh_agents: the agent's name is its hostname, too.
WazuhObservation(agent) ==
    [name |-> agent.name, hostname |-> agent.name, stable_ip |-> agent.ip, os |-> agent.os]

\* _stable_zabbix_ip: main interfaces first, then in the order reported.
StableInterfaces(host) ==
    {i \in DOMAIN host.interfaces : StableIp[host.interfaces[i].address] # NoValue}
Precedes(host, i, j) ==
    LET main(n) == host.interfaces[n].is_main IN
    (main(i) /\ ~main(j)) \/ (main(i) = main(j) /\ i <= j)
StableZabbixIp(host) ==
    IF StableInterfaces(host) = {} THEN NoValue
    ELSE LET first == CHOOSE i \in StableInterfaces(host) :
                        \A j \in StableInterfaces(host) : Precedes(host, i, j)
         IN  host.interfaces[first].address

\* correlate_zabbix_hosts
ZabbixObservation(host) ==
    [name |-> host.name, hostname |-> host.technical_name, stable_ip |-> StableZabbixIp(host)]

\* Mutated form of SnipeItObservation: a hostname is guessed from the name.
SnipeItObservationGuess(asset) ==
    [name |-> asset.name, hostname |-> asset.name, serial |-> asset.serial,
     asset_tag |-> asset.asset_tag, device_type |-> asset.category, location |-> asset.location]

\* _snipe_it_observation
SnipeItObservation(asset) ==
    [name |-> asset.name, serial |-> asset.serial, asset_tag |-> asset.asset_tag,
     device_type |-> asset.category, location |-> asset.location]

IngestedEvidence ==
    [wazuh |-> {Normalized(WazuhObservation(agent)) : agent \in WazuhAgent},
     zabbix |-> {Normalized(ZabbixObservation(host)) : host \in ZabbixHost},
     snipe_it |-> {Normalized(SnipeItObservation(asset)) : asset \in SnipeItAsset}]

\* The worker correlates what the three sources report, and nobody maps by hand.
ASSUME IngestionAssumption ==
    /\ Source = {"wazuh", "zabbix", "snipe_it"}
    /\ Evidence = IngestedEvidence
    /\ ManualMappings = FALSE

-----------------------------------------------------------------------------
(* Properties *)

\* An asset of Snipe-IT never shares a device with a record of another
\* source, whatever its names, serials and tags: the sources show no strong
\* identifier, hostname, address or secondary evidence in common with it
\* (ingestion.py, matcher.py).
AssetsStayAlone ==
    \A rows \in Rows : \A k, j \in DOMAIN rows.links :
        k # j /\ rows.links[k].device = rows.links[j].device => k[1] # "snipe_it"

\* An agent and a host that go by one hostname meet in one device, in either
\* order of arrival and however the name is spelled, unless one of them has
\* changed or a third agent or host is there to be taken into account.
SameHost(l, r) ==
    \E agent \in WazuhAgent, host \in ZabbixHost :
        /\ l.ids = Normalized(WazuhObservation(agent)) /\ ~l.drifted
        /\ r.ids = Normalized(ZabbixObservation(host)) /\ ~r.drifted
        /\ CanonicalHost[agent.name] = CanonicalHost[host.technical_name]
        /\ CanonicalHost[agent.name] # NoValue
SameHostMeets ==
    \A rows \in Rows : \A k, j \in DOMAIN rows.links :
        /\ k[1] = "wazuh" /\ j[1] = "zabbix"
        /\ SameHost(rows.links[k], rows.links[j])
        /\ \A i \in DOMAIN rows.links \ {k, j} : i[1] = "snipe_it"
        => rows.links[k].device = rows.links[j].device
=============================================================================
