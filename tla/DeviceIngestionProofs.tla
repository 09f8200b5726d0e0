------------------------ MODULE DeviceIngestionProofs ------------------------
(***************************************************************************)
(* Proofs about what the worker feeds to the correlation engine: assets    *)
(* stay alone, and an agent and a host of one hostname meet.  They rest on *)
(* the invariant of the engine: the index is exact, so that the device of  *)
(* the host is offered to the agent.                                       *)
(***************************************************************************)
EXTENDS DeviceIngestion, DeviceCorrelationProofs

-----------------------------------------------------------------------------
(* What the sources show *)

Others == {"wazuh", "zabbix"}

\* Snipe-IT shows nothing that another source shows, but for the name.
LEMMA Shown ==
    /\ \A ids \in Evidence["snipe_it"] :
        ids.hostname = NoValue /\ ids.stable_ip = NoValue /\ ids.os = NoValue
    /\ \A s \in Others : \A ids \in Evidence[s] :
        /\ ids.serial = NoValue /\ ids.asset_tag = NoValue
        /\ ids.device_type = NoValue /\ ids.location = NoValue
<1>0. /\ Evidence["snipe_it"] = {Normalized(SnipeItObservation(asset)) : asset \in SnipeItAsset}
      /\ Evidence["wazuh"] = {Normalized(WazuhObservation(agent)) : agent \in WazuhAgent}
      /\ Evidence["zabbix"] = {Normalized(ZabbixObservation(host)) : host \in ZabbixHost}
  BY IngestionAssumption DEF IngestedEvidence
<1>1. \A shown : \A f \in Field \ DOMAIN shown : Normalized(shown)[f] = NoValue
  BY DEF Normalized
<1>2. Field = {"serial", "asset_tag", "hostname", "stable_ip", "name", "os", "device_type",
               "location"}
  BY DEF Field, IndexKey, SecondaryKey
<1>3. ASSUME NEW asset PROVE
      /\ "hostname" \notin DOMAIN SnipeItObservation(asset)
      /\ "stable_ip" \notin DOMAIN SnipeItObservation(asset)
      /\ "os" \notin DOMAIN SnipeItObservation(asset)
  BY DEF SnipeItObservation
<1>4. ASSUME NEW agent PROVE
      /\ "serial" \notin DOMAIN WazuhObservation(agent)
      /\ "asset_tag" \notin DOMAIN WazuhObservation(agent)
      /\ "device_type" \notin DOMAIN WazuhObservation(agent)
      /\ "location" \notin DOMAIN WazuhObservation(agent)
  BY DEF WazuhObservation
<1>5. ASSUME NEW host PROVE
      /\ "serial" \notin DOMAIN ZabbixObservation(host)
      /\ "asset_tag" \notin DOMAIN ZabbixObservation(host)
      /\ "device_type" \notin DOMAIN ZabbixObservation(host)
      /\ "location" \notin DOMAIN ZabbixObservation(host)
  BY DEF ZabbixObservation
<1>6. ASSUME NEW ids \in Evidence["snipe_it"] PROVE
      ids.hostname = NoValue /\ ids.stable_ip = NoValue /\ ids.os = NoValue
  <2>1. PICK asset : ids = Normalized(SnipeItObservation(asset))
    BY <1>0, <1>6
  <2> QED BY <1>1, <1>2, <1>3, <2>1
<1>7. ASSUME NEW ids, NEW shown, ids = Normalized(shown),
             "serial" \notin DOMAIN shown, "asset_tag" \notin DOMAIN shown,
             "device_type" \notin DOMAIN shown, "location" \notin DOMAIN shown
      PROVE  /\ ids.serial = NoValue /\ ids.asset_tag = NoValue
             /\ ids.device_type = NoValue /\ ids.location = NoValue
  BY <1>1, <1>2, <1>7
<1>8. ASSUME NEW ids \in Evidence["wazuh"] PROVE
        /\ ids.serial = NoValue /\ ids.asset_tag = NoValue
        /\ ids.device_type = NoValue /\ ids.location = NoValue
  <2>1. PICK agent : ids = Normalized(WazuhObservation(agent))
    BY <1>0, <1>8
  <2> QED BY <1>4, <1>7, <2>1
<1>9. ASSUME NEW ids \in Evidence["zabbix"] PROVE
        /\ ids.serial = NoValue /\ ids.asset_tag = NoValue
        /\ ids.device_type = NoValue /\ ids.location = NoValue
  <2>1. PICK host : ids = Normalized(ZabbixObservation(host))
    BY <1>0, <1>9
  <2> QED BY <1>5, <1>7, <2>1
<1> QED BY <1>6, <1>8, <1>9 DEF Others

\* An asset matches nothing else.
LEMMA Strangers ==
    ASSUME NEW l \in Evidence["snipe_it"], NEW s \in Others, NEW r \in Evidence[s]
    PROVE  MatchConfidence(l, r) = 0 /\ MatchConfidence(r, l) = 0
<1>1. /\ l.hostname = NoValue /\ l.stable_ip = NoValue /\ l.os = NoValue
      /\ r.serial = NoValue /\ r.asset_tag = NoValue
      /\ r.device_type = NoValue /\ r.location = NoValue
  BY Shown
<1>2. /\ \A f \in StrongKey : ~Matches(l, r, f) /\ ~Matches(r, l, f)
      /\ \A f \in {"hostname", "stable_ip"} : ~Matches(l, r, f) /\ ~Matches(r, l, f)
      /\ \A f \in SecondaryKey : ~Matches(l, r, f) /\ ~Matches(r, l, f)
  BY <1>1 DEF Matches, StrongKey, SecondaryKey
<1>3. Secondary(l, r) = {} /\ Secondary(r, l) = {}
  BY <1>2 DEF Secondary
<1> QED BY <1>2, <1>3 DEF MatchConfidence

\* Two records that show one hostname, and neither serial nor tag, match by it.
LEMMA SameName ==
    ASSUME NEW s \in Others, NEW l \in Evidence[s], NEW t \in Others, NEW r \in Evidence[t],
           l.hostname = r.hostname, l.hostname # NoValue
    PROVE  ~StrongConflict(l, r) /\ MatchConfidence(l, r) = 90
<1>1. \A f \in StrongKey : l[f] = NoValue /\ r[f] = NoValue
  BY Shown DEF StrongKey
<1>2. Matches(l, r, "hostname") /\ ~StrongConflict(l, r)
      /\ ~(\E f \in StrongKey : Matches(l, r, f))
  BY <1>1 DEF Matches, StrongConflict, Conflicts
<1> QED BY <1>2 DEF MatchConfidence

-----------------------------------------------------------------------------
(* The links *)

\* What a link shows, its source can show.
ShowsEvidence(links) == \A k \in DOMAIN links : links[k].ids \in Evidence[k[1]]

Alone(links) ==
    \A k, j \in DOMAIN links :
        k # j /\ links[k].device = links[j].device => k[1] # "snipe_it"

\* An agent and a host with nothing else about but assets.
Pair(links, k, j) ==
    /\ k[1] = "wazuh" /\ j[1] = "zabbix"
    /\ SameHost(links[k], links[j])
    /\ \A i \in DOMAIN links \ {k, j} : i[1] = "snipe_it"
Meet(links) ==
    \A k, j \in DOMAIN links : Pair(links, k, j) => links[k].device = links[j].device

Ingested(rows) == ShowsEvidence(rows.links) /\ Alone(rows.links) /\ Meet(rows.links)
IngestionInv == Ingested(db) /\ Ingested(work)

\* A record is an asset, an agent or a host.
LEMMA Sources == \A k \in Key : k[1] = "snipe_it" \/ k[1] \in Others
BY IngestionAssumption DEF Key, Others

\* A record joins a device for the sake of a link that it matches.
LEMMA JoinsMatch ==
    ASSUME NEW s, NEW ids, NEW d, NEW c, c > 0, d \in Joinable(s, ids, c)
    PROVE  \E j \in LinksOf(work.links, d) :
                j[1] # s /\ MatchConfidence(ids, work.links[j].ids) = c
BY DEF Joinable, SameSource

\* No record joins an asset, and no asset joins a record.
LEMMA JoinsOthers ==
    ASSUME Good(work), Ingested(work), NEW k \in Key, NEW ids \in Evidence[k[1]],
           NEW d, NEW c, c > 0, d \in Joinable(k[1], ids, c)
    PROVE  /\ k[1] \in Others
           /\ \E j \in LinksOf(work.links, d) :
                    j[1] \in Others /\ MatchConfidence(ids, work.links[j].ids) = c
           /\ \A j \in LinksOf(work.links, d) : j[1] # "snipe_it"
<1>1. PICK j \in LinksOf(work.links, d) :
            j[1] # k[1] /\ MatchConfidence(ids, work.links[j].ids) = c
  BY JoinsMatch
<1>2. j \in Key /\ work.links[j].ids \in Evidence[j[1]] /\ j \in DOMAIN work.links
  BY DEF Good, RowsOK, LinksOf, Ingested, ShowsEvidence
<1>3. c # 0
  OBVIOUS
<1>4. k[1] \in Others /\ j[1] \in Others
  BY <1>1, <1>2, <1>3, Sources, Strangers
<1>5. \A i \in LinksOf(work.links, d) : i[1] # "snipe_it"
  BY <1>2, <1>4 DEF LinksOf, Ingested, Alone, Others
<1> QED BY <1>1, <1>4, <1>5

\* Beside assets, the only one that a record can join is the partner b.
LEMMA OnlyPartner ==
    ASSUME Good(work), Ingested(work), NEW k \in Key, NEW ids \in Evidence[k[1]],
           NEW b \in DOMAIN work.links, \A i \in DOMAIN work.links \ {b} : i[1] = "snipe_it",
           NEW d, NEW c, c > 0, d \in Joinable(k[1], ids, c)
    PROVE  d = work.links[b].device /\ c = MatchConfidence(ids, work.links[b].ids)
BY JoinsOthers DEF LinksOf, Others

\* The partner of the same hostname is the best candidate.
LEMMA PartnerIsBest ==
    ASSUME IInv, pc = "batch", Ingested(work), NEW k \in Key, k \notin DOMAIN work.links,
           NEW ids \in Evidence[k[1]], k[1] \in Others,
           NEW b \in DOMAIN work.links, b[1] \in Others, b[1] # k[1],
           \A i \in DOMAIN work.links \ {b} : i[1] = "snipe_it",
           work.links[b].ids.hostname = ids.hostname, ids.hostname # NoValue
    PROVE  Best(k[1], ids, work.links[b].device, 90)
<1> DEFINE e == work.links[b].device
           v == ids.hostname
<1>1. work.links[b].ids \in Evidence[b[1]] /\ b \in Key /\ Good(work)
  BY DEF IInv, Good, RowsOK, Ingested, ShowsEvidence
<1>2. ~StrongConflict(ids, work.links[b].ids) /\ MatchConfidence(ids, work.links[b].ids) = 90
  BY <1>1, SameName
<1>3. LinksOf(work.links, e) = {b}
  <2>1. ASSUME NEW i \in DOMAIN work.links, i # b PROVE work.links[i].device # e
    BY <2>1 DEF Ingested, Alone
  <2> QED BY <2>1 DEF LinksOf
<1>4. e \in UNION {index[f][ids[f]] : f \in {g \in IndexKey : ids[g] # NoValue}}
  <2>1. ids \in Identifiers
    BY EvidenceType
  <2>2. "hostname" \in IndexKey /\ v \in Value
    BY <2>1 DEF IndexKey, Identifiers, Field
  <2>3. index = IndexOf(work.links)
    <3>1. pc = "batch"
      OBVIOUS
    <3> QED BY <3>1 DEF IInv, IndexExact
  <2>4. index["hostname"][v] =
            {work.links[j].device : j \in {i \in DOMAIN work.links : work.links[i].ids["hostname"] = v}}
    BY <2>2, <2>3 DEF IndexOf
  <2>5. e \in index["hostname"][v]
    BY <2>4
  <2> QED BY <2>2, <2>5
<1>5. ~SameSource(k[1], e) /\ ~ConflictWith(ids, e)
  BY <1>2, <1>3 DEF SameSource, ConflictWith
<1>6. e \in Joinable(k[1], ids, 90)
  BY <1>2, <1>3, <1>4, <1>5 DEF Joinable
<1>7. ASSUME NEW c \in Confidences, c > 0, NEW d \in Joinable(k[1], ids, c)
      PROVE  d = e /\ c = 90
  BY <1>1, <1>2, <1>7, OnlyPartner
<1>8. 90 \in Confidences /\ 90 > 0 /\ \A c \in Confidences : c > 90 => c > 0 /\ c # 90
  BY DEF Confidences
<1>9. Joinable(k[1], ids, 90) = {e}
  BY <1>6, <1>7, <1>8
<1>10. \A c \in Confidences : c > 90 => Joinable(k[1], ids, c) = {}
  BY <1>7, <1>8
<1> QED BY <1>8, <1>9, <1>10 DEF Best

\* A sighting of a known record: what has not drifted shows what it did.
LEMMA RefreshIngests ==
    ASSUME IInv, Ingested(work), NEW k \in Key, NEW ids \in Evidence[k[1]],
           RefreshExisting(k, ids)
    PROVE  Ingested(work')
<1> DEFINE links == work.links
           links2 == Refreshed(work.links, k, ids)
<1>1. k \in DOMAIN links /\ work'.links = links2
  BY DEF RefreshExisting
<1>2. /\ DOMAIN links \subseteq Key /\ links \in [DOMAIN links -> Link]
      /\ ids \in Identifiers
  BY EvidenceType DEF IInv, Good, RowsOK
<1>3. /\ DOMAIN links2 = DOMAIN links
      /\ links2 \in [DOMAIN links -> Link]
      /\ \A j \in DOMAIN links \ {k} : links2[j] = links[j]
      /\ links2[k].device = links[k].device
      /\ links2[k].ids = ids
      /\ links[k].drifted => links2[k].drifted
      /\ links[k].ids # ids => links2[k].drifted
  BY <1>1, <1>2, RefreshedFacts
<1> HIDE DEF links2
<1>4. \A j \in DOMAIN links : links2[j].device = links[j].device
  BY <1>3
<1>5. ShowsEvidence(links2)
  BY <1>3 DEF Ingested, ShowsEvidence
<1>6. Alone(links2)
  BY <1>3, <1>4 DEF Ingested, Alone
<1>7. \A j \in DOMAIN links :
            ~links2[j].drifted => links2[j].ids = links[j].ids /\ ~links[j].drifted
  BY <1>3
<1>8. ASSUME NEW a \in DOMAIN links, NEW b \in DOMAIN links, Pair(links2, a, b)
      PROVE  Pair(links, a, b)
  <2>1. SameHost(links[a], links[b])
    BY <1>7, <1>8 DEF Pair, SameHost
  <2> QED BY <1>3, <1>8, <2>1 DEF Pair
<1>9. Meet(links2)
  BY <1>3, <1>4, <1>8 DEF Ingested, Meet
<1> QED BY <1>1, <1>5, <1>6, <1>9 DEF Ingested

\* The hostname of a pair.
LEMMA PairName ==
    ASSUME NEW l, NEW r, SameHost(l, r)
    PROVE  l.ids.hostname = r.ids.hostname /\ l.ids.hostname # NoValue
<1>1. PICK agent \in WazuhAgent, host \in ZabbixHost :
        /\ l.ids = Normalized(WazuhObservation(agent))
        /\ r.ids = Normalized(ZabbixObservation(host))
        /\ CanonicalHost[agent.name] = CanonicalHost[host.technical_name]
        /\ CanonicalHost[agent.name] # NoValue
  BY DEF SameHost
<1>2. /\ WazuhObservation(agent).hostname = agent.name
      /\ "hostname" \in DOMAIN WazuhObservation(agent)
      /\ ZabbixObservation(host).hostname = host.technical_name
      /\ "hostname" \in DOMAIN ZabbixObservation(host)
      /\ "hostname" \in Field
  BY DEF WazuhObservation, ZabbixObservation, Field, IndexKey
<1>3. /\ l.ids.hostname = CanonicalHost[agent.name]
      /\ r.ids.hostname = CanonicalHost[host.technical_name]
  BY <1>1, <1>2 DEF Normalized
<1> QED BY <1>1, <1>3

\* The only other agent or host is of the same name.
Partner(k, ids, b) ==
    /\ k[1] \in Others /\ b[1] \in Others /\ b[1] # k[1]
    /\ \A i \in DOMAIN work.links \ {b} : i[1] = "snipe_it"
    /\ work.links[b].ids.hostname = ids.hostname /\ ids.hostname # NoValue

\* A new link to d, when d has no asset and k is none, or d has no link, and
\* when a partner of k is at d.
LEMMA InsertIngests ==
    ASSUME Ingested(work), NEW k \in Key \ DOMAIN work.links, NEW ids \in Evidence[k[1]],
           NEW d, NEW c,
           \/ LinksOf(work.links, d) = {}
           \/ k[1] \in Others /\ \A j \in LinksOf(work.links, d) : j[1] # "snipe_it",
           \A b \in DOMAIN work.links : Partner(k, ids, b) => work.links[b].device = d,
           work'.links = WithLink(work.links, k, NewLink(d, ids, c, FALSE))
    PROVE  Ingested(work')
<1> DEFINE links == work.links
           links2 == work'.links
<1>1. /\ DOMAIN links2 = DOMAIN links \cup {k}
      /\ links2[k].device = d /\ links2[k].ids = ids
      /\ \A j \in DOMAIN links : links2[j] = links[j] /\ j # k
  <2> DEFINE link == NewLink(d, ids, c, FALSE)
  <2>1. link.device = d /\ link.ids = ids
    BY DEF NewLink
  <2> HIDE DEF link
  <2>2. links2 = [j \in DOMAIN links \cup {k} |-> IF j = k THEN link ELSE links[j]]
    BY DEF link, WithLink
  <2>3. /\ DOMAIN links2 = DOMAIN links \cup {k}
        /\ links2[k] = link
        /\ \A j \in DOMAIN links : links2[j] = links[j] /\ j # k
    BY <2>2
  <2> QED BY <2>1, <2>3
<1> HIDE DEF links2
<1>2. ShowsEvidence(links2)
  BY <1>1 DEF Ingested, ShowsEvidence
<1>3. Alone(links2)
  <2> SUFFICES ASSUME NEW a \in DOMAIN links2, NEW b \in DOMAIN links2, a # b,
                      links2[a].device = links2[b].device
               PROVE  a[1] # "snipe_it"
    BY DEF Alone
  <2>1. CASE a \in DOMAIN links /\ b \in DOMAIN links
    BY <1>1, <2>1 DEF Ingested, Alone
  <2>2. CASE a = k /\ b \in DOMAIN links
    BY <1>1, <2>2 DEF LinksOf, Others
  <2>3. CASE a \in DOMAIN links /\ b = k
    BY <1>1, <2>3 DEF LinksOf, Others
  <2> QED BY <1>1, <2>1, <2>2, <2>3
<1>4. Meet(links2)
  <2> SUFFICES ASSUME NEW a \in DOMAIN links2, NEW b \in DOMAIN links2, Pair(links2, a, b)
               PROVE  links2[a].device = links2[b].device
    BY DEF Meet
  <2>0. /\ a # b /\ a[1] \in Others /\ b[1] \in Others /\ a[1] # b[1]
        /\ links2[a].ids.hostname = links2[b].ids.hostname /\ links2[a].ids.hostname # NoValue
        /\ \A i \in DOMAIN links2 \ {a, b} : i[1] = "snipe_it"
    BY PairName DEF Pair, Others
  <2>1. CASE a \in DOMAIN links /\ b \in DOMAIN links
    <3>1. Pair(links, a, b)
      BY <1>1, <2>1 DEF Pair
    <3> QED BY <1>1, <2>1, <3>1 DEF Ingested, Meet
  <2>2. CASE a = k /\ b \in DOMAIN links
    <3>1. \A i \in DOMAIN links \ {b} : i[1] = "snipe_it"
      BY <1>1, <2>0, <2>2
    <3> QED BY <1>1, <2>0, <2>2, <3>1 DEF Partner
  <2>3. CASE a \in DOMAIN links /\ b = k
    <3>1. \A i \in DOMAIN links \ {a} : i[1] = "snipe_it"
      BY <1>1, <2>0, <2>3
    <3> QED BY <1>1, <2>0, <2>3, <3>1 DEF Partner
  <2> QED BY <1>1, <2>0, <2>1, <2>2, <2>3
<1> QED BY <1>2, <1>3, <1>4 DEF Ingested, links2

\* A record that joins a device joins its partner, if that is all there is.
LEMMA JoinIngests ==
    ASSUME IInv, Ingested(work), NEW k \in Key, NEW ids \in Evidence[k[1]], JoinDevice(k, ids)
    PROVE  Ingested(work')
<1>1. PICK d \in DOMAIN work.devices, c \in Confidences :
        /\ Best(k[1], ids, d, c)
        /\ InsertLink(k, ids, work.devices, d, c, FALSE)
  BY DEF JoinDevice
<1>2. c > 0 /\ d \in Joinable(k[1], ids, c) /\ k \notin DOMAIN work.links /\ Good(work)
  BY <1>1 DEF Best, JoinDevice, IInv
<1>3. k[1] \in Others /\ \A j \in LinksOf(work.links, d) : j[1] # "snipe_it"
  BY <1>2, JoinsOthers
<1>4. ASSUME NEW b \in DOMAIN work.links, \A i \in DOMAIN work.links \ {b} : i[1] = "snipe_it"
      PROVE  work.links[b].device = d
  BY <1>2, <1>4, OnlyPartner
<1>5. work'.links = WithLink(work.links, k, NewLink(d, ids, c, FALSE))
  BY <1>1 DEF InsertLink
<1>6. \A b \in DOMAIN work.links : Partner(k, ids, b) => work.links[b].device = d
  BY <1>4 DEF Partner
<1> QED BY <1>2, <1>3, <1>5, <1>6, InsertIngests

\* A record that becomes a device of its own has no partner.
LEMMA CreateIngests ==
    ASSUME IInv, Ingested(work), NEW k \in Key, NEW ids \in Evidence[k[1]], CreateDevice(k, ids)
    PROVE  Ingested(work')
<1> DEFINE d == Len(work.devices) + 1
<1>1. /\ k \notin DOMAIN work.links /\ pc = "batch" /\ Good(work)
      /\ work'.links = WithLink(work.links, k, NewLink(d, ids, 0, FALSE))
      /\ \A e \in DOMAIN work.devices, c \in Confidences : ~Best(k[1], ids, e, c)
  BY DEF CreateDevice, InsertLink, Observe, IInv
<1>2. LinksOf(work.links, d) = {}
  <2>1. work.devices \in Seq(Device)
        /\ \A j \in DOMAIN work.links : work.links[j].device \in DOMAIN work.devices
    BY <1>1 DEF Good, RowsOK
  <2>2. d \notin DOMAIN work.devices
    BY <2>1
  <2> QED BY <2>1, <2>2 DEF LinksOf
<1>3. ASSUME NEW b \in DOMAIN work.links, Partner(k, ids, b) PROVE FALSE
  <2>1. Best(k[1], ids, work.links[b].device, 90)
    BY <1>1, <1>3, PartnerIsBest DEF Partner
  <2>2. work.links[b].device \in DOMAIN work.devices /\ 90 \in Confidences
    BY <1>1 DEF Good, RowsOK, Confidences
  <2> QED BY <1>1, <2>1, <2>2
<1> HIDE DEF d
<1> QED BY <1>1, <1>2, <1>3, InsertIngests

\* Every step keeps the invariant.
LEMMA IngestionKeeps == IInv /\ IngestionInv /\ [Next]_vars => IngestionInv'
<1> SUFFICES ASSUME IInv, IngestionInv, [Next]_vars PROVE IngestionInv'
  OBVIOUS
<1>0. Ingested(db) /\ Ingested(work)
  BY DEF IngestionInv
<1>1. CASE LoadState \/ Commit \/ Rollback \/ UNCHANGED vars
  <2>1. db' \in {db, work} /\ work' \in {db, work}
    BY <1>1 DEF LoadState, Commit, Rollback, EndBatch, vars
  <2> QED BY <1>0, <2>1 DEF IngestionInv
<1>2. ASSUME NEW k \in Key, NEW ids \in Evidence[k[1]],
             RefreshExisting(k, ids) \/ JoinDevice(k, ids) \/ CreateDevice(k, ids)
      PROVE  IngestionInv'
  <2>1. Ingested(work')
    BY <1>0, <1>2, RefreshIngests, JoinIngests, CreateIngests
  <2>2. db' = db
    BY <1>2 DEF RefreshExisting, JoinDevice, CreateDevice, InsertLink
  <2> QED BY <1>0, <2>1, <2>2 DEF IngestionInv
<1>3. \A k, ids, d : ~MapNew(k, ids, d) /\ ~MapExisting(k, ids, d)
  BY IngestionAssumption DEF MapNew, MapExisting
<1> QED BY <1>1, <1>2, <1>3 DEF Next

\* The invariant holds.
LEMMA IngestionInvariance == Spec => []IngestionInv
<1>1. Init => IngestionInv
  BY DEF Init, IngestionInv, Ingested, ShowsEvidence, Alone, Meet
<1> QED BY <1>1, IngestionKeeps, Invariance, PTL DEF Spec

\* An asset never shares a device with a record of another source, and an
\* agent and a host of one hostname do, for any records and values.
THEOREM AssetsCorrect == Spec => []AssetsStayAlone
<1>1. IngestionInv => AssetsStayAlone
  BY DEF IngestionInv, Ingested, Alone, AssetsStayAlone, Rows
<1> QED BY <1>1, IngestionInvariance, PTL

\* However the name is spelled and whichever comes first.
THEOREM SameHostCorrect == Spec => []SameHostMeets
<1>1. IngestionInv => SameHostMeets
  BY DEF IngestionInv, Ingested, Meet, Pair, SameHostMeets, Rows
<1> QED BY <1>1, IngestionInvariance, PTL
=============================================================================
