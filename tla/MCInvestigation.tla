--------------------------- MODULE MCInvestigation ---------------------------
\* The requests of an instance of AIInvestigation for TLC.
EXTENDS AIInvestigation

\* A request without any words, which is the dashboard summary.
Dashboard ==
    [kind |-> "dashboard", named |-> {}, score |-> [s \in AISource |-> 0], strong |-> {},
     phrase |-> FALSE, devices |-> 0, records |-> FALSE, counts |-> FALSE, host |-> FALSE]
Investigate == [Dashboard EXCEPT !.kind = "investigate"]

\* "What needs attention?", "Compare Wazuh and Zabbix", "Why is the port closed?"
\* (no source wins), ticket counts, the records of the sources, and a
\* device with and without a source.
MCQuestion ==
    {Dashboard, [Dashboard EXCEPT !.kind = "zabbix"],
     [Investigate EXCEPT !.phrase = TRUE],
     [Investigate EXCEPT !.named = {"wazuh", "zabbix"}],
     [Investigate EXCEPT !.score.freshservice = 1],
     [Investigate EXCEPT !.score.freshservice = 1, !.strong = {"freshservice"}, !.counts = TRUE],
     [Investigate EXCEPT !.named = {"freshservice"}, !.records = TRUE, !.counts = TRUE],
     [Investigate EXCEPT !.score.snipe_it = 2, !.score.zabbix = 1, !.records = TRUE],
     [Investigate EXCEPT !.score.zabbix = 1, !.strong = {"zabbix"}, !.host = TRUE],
     [Investigate EXCEPT !.named = {"wazuh"}, !.records = TRUE],
     [Investigate EXCEPT !.devices = 1, !.records = TRUE],
     [Investigate EXCEPT !.devices = 1, !.named = {"zabbix"}],
     [Investigate EXCEPT !.devices = 2]}

\* Zabbix warns about missing metrics, network data and topology, healthy or not.
MCNotes == [wazuh |-> 0, zabbix |-> 7, snipe_it |-> 0, freshservice |-> 0]

AllFine == health = [s \in AISource |-> "healthy"] /\ rows = [s \in AISource |-> 0]
ZabbixDown ==
    /\ health = [s \in AISource |-> IF s = "zabbix" THEN "down" ELSE "healthy"]
    /\ rows = [s \in AISource |-> MaxRows]

\* Two of the states the sources may be in, from which changes lead to others,
\* and few of the sets of sources a device may be linked to.
MCInvestigationInit ==
    /\ InvestigationInit
    /\ AllFine \/ ZabbixDown
    /\ links \in {{}, {"zabbix"}, {"wazuh", "zabbix", "snipe_it"}}

MCInvestigationSpec == MCInvestigationInit /\ [][InvestigationNext]_investigationVars
=============================================================================
