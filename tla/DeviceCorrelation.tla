-------------------------- MODULE DeviceCorrelation --------------------------
(***************************************************************************)
(* The device correlation engine: DeviceCorrelationService.correlate and  *)
(* the matcher.  A batch of observations is worked through one by one, on *)
(* an in-memory state that is loaded from the database at its start and   *)
(* maintained incrementally, and is committed as a whole or rolled back.  *)
(*                                                                         *)
(* An observation is a source record and its normalized identifiers.  The *)
(* label of a match (match_method) and last_seen_at are left out.         *)
(***************************************************************************)
EXTENDS Integers, Sequences, FiniteSets

CONSTANTS
    Source,         \* the sources that observe devices
    Record,         \* ids of the records of a source
    Value,          \* values of normalized identifiers
    NoValue,        \* an identifier that is absent
    Evidence,       \* Evidence[s]: the identifiers a record of s may show
    ManualMappings, \* does a caller pass manual mappings?
    MaxBatch,       \* MAX_CORRELATION_OBSERVATIONS
    MaxLinks,       \* MAX_CORRELATION_LINKS
    MaxDevice,      \* bound: devices ever created
    MaxBatches      \* bound: batches

IndexKey == {"serial", "asset_tag", "hostname", "stable_ip", "name"}
StrongKey == {"serial", "asset_tag"}
SecondaryKey == {"os", "device_type", "location"}
Field == IndexKey \cup SecondaryKey
Identifiers == [Field -> Value \cup {NoValue}]

ASSUME NoValueIsNone == NoValue \notin Value
ASSUME EvidenceAssumption == Evidence \in [Source -> SUBSET Identifiers]
ASSUME BoundsAssumption ==
    /\ ManualMappings \in BOOLEAN
    /\ MaxBatch \in Nat /\ MaxLinks \in Nat
    /\ MaxDevice \in Nat /\ MaxBatches \in Nat

Key == Source \X Record

VARIABLES
    db,       \* the committed rows: links by record, devices by id
    work,     \* the rows as the transaction of the batch sees them
    index,    \* index[f][v]: devices with a link that shows v for f
    pc,       \* "idle" or "batch"
    count,    \* observations of the batch worked through
    batches   \* counts the batches, to bound them

vars == <<db, work, index, pc, count, batches>>

-----------------------------------------------------------------------------
(* The matcher *)

Matches(l, r, f) == l[f] # NoValue /\ l[f] = r[f]
Conflicts(l, r, f) == l[f] # NoValue /\ r[f] # NoValue /\ l[f] # r[f]
StrongConflict(l, r) == \E f \in StrongKey : Conflicts(l, r, f)

Secondary(l, r) == {f \in SecondaryKey : Matches(l, r, f)}
Combined(n) == IF n >= 3 THEN 75 ELSE 50 + 10 * n
Confidences == {0, 60, 70, 75, 80, 90, 100}

\* match_observations: the confidence of the strongest match, 0 for none.
MatchConfidence(l, r) ==
    IF StrongConflict(l, r) THEN 0
    ELSE IF \E f \in StrongKey : Matches(l, r, f) THEN 100
    ELSE IF Matches(l, r, "hostname") THEN 90
    ELSE IF Conflicts(l, r, "hostname") THEN 0
    ELSE IF Matches(l, r, "stable_ip") THEN 80
    ELSE IF Matches(l, r, "name") /\ Secondary(l, r) # {}
         THEN Combined(Cardinality(Secondary(l, r)))
    ELSE 0

-----------------------------------------------------------------------------
(* Links, devices and the index *)

LinksOf(links, d) == {k \in DOMAIN links : links[k].device = d}

IndexOf(links) ==
    [f \in IndexKey |-> [v \in Value |->
        {links[k].device : k \in {j \in DOMAIN links : links[j].ids[f] = v}}]]

\* Mutated form of RemoveLink: another link with the same value is ignored.
RemoveLinkAlways(k) ==
    [f \in IndexKey |-> [v \in Value |->
        IF work.links[k].ids[f] = v THEN index[f][v] \ {work.links[k].device} ELSE index[f][v]]]

\* _remove_link_from_indexes: unless another link of the device shows it.
RemoveLink(k) ==
    [f \in IndexKey |-> [v \in Value |->
        IF /\ work.links[k].ids[f] = v
           /\ \A j \in LinksOf(work.links, work.links[k].device) \ {k} :
                    work.links[j].ids[f] # v
        THEN index[f][v] \ {work.links[k].device}
        ELSE index[f][v]]]

\* _index_link
AddLink(idx, ids, d) ==
    [f \in IndexKey |-> [v \in Value |->
        IF ids[f] = v THEN idx[f][v] \cup {d} ELSE idx[f][v]]]

\* _merge_device_fields: a canonical field is set once (the name is not one).
Merge(fields, ids) ==
    [f \in Field \ {"name"} |-> IF fields[f] = NoValue THEN ids[f] ELSE fields[f]]

NoFields == [f \in Field \ {"name"} |-> NoValue]

\* Mutated form of SameSource: the guard is gone.
SameSourceNever(s, d) == FALSE

SameSource(s, d) == \E k \in LinksOf(work.links, d) : k[1] = s

\* Mutated form of ConflictWith: only the link that matches is looked at.
ConflictWithAll(ids, d) ==
    LinksOf(work.links, d) # {}
        /\ \A k \in LinksOf(work.links, d) : StrongConflict(ids, work.links[k].ids)

\* _has_strong_identifier_conflict: with any link of the device.
ConflictWith(ids, d) ==
    \E k \in LinksOf(work.links, d) : StrongConflict(ids, work.links[k].ids)

\* Devices the index offers that a record of s may join, with confidence c.
Joinable(s, ids, c) ==
    {d \in UNION {index[f][ids[f]] : f \in {g \in IndexKey : ids[g] # NoValue}} :
        /\ ~SameSource(s, d)
        /\ ~ConflictWith(ids, d)
        /\ \E k \in LinksOf(work.links, d) : MatchConfidence(ids, work.links[k].ids) = c
        /\ \A k \in LinksOf(work.links, d) : MatchConfidence(ids, work.links[k].ids) <= c}

\* _best_candidate: the only device of the highest confidence, if there is
\* exactly one.
Best(s, ids, d, c) ==
    /\ c > 0
    /\ Joinable(s, ids, c) = {d}
    /\ \A b \in Confidences : b > c => Joinable(s, ids, b) = {}

\* The largest confidence among links, 0 if there are none.
Strongest(links, ks) ==
    CHOOSE c \in Confidences :
        /\ c = 0 \/ \E k \in ks : links[k].confidence = c
        /\ \A k \in ks : links[k].confidence <= c

-----------------------------------------------------------------------------
(* A batch *)

\* Mutated form of LoadState: the capacity check is gone.
LoadStateUnchecked ==
    /\ pc = "idle"
    /\ batches < MaxBatches
    /\ work' = db
    /\ index' = IndexOf(db.links)
    /\ pc' = "batch"
    /\ count' = 0
    /\ batches' = batches + 1
    /\ UNCHANGED db

\* _load_state; with more than MaxLinks rows it raises, and no batch starts.
LoadState ==
    /\ pc = "idle"
    /\ batches < MaxBatches
    /\ Cardinality(DOMAIN db.links) <= MaxLinks
    /\ work' = db
    /\ index' = IndexOf(db.links)
    /\ pc' = "batch"
    /\ count' = 0
    /\ batches' = batches + 1
    /\ UNCHANGED db

\* One more observation of the batch.
Observe == pc = "batch" /\ count < MaxBatch /\ count' = count + 1

\* Mutated form of Refreshed: the link counts as automatic again.
RefreshedAutomatic(links, k, ids) ==
    [links EXCEPT ![k] = [@ EXCEPT
        !.ids = ids,
        !.manual = FALSE,
        !.drifted = links[k].drifted \/ ids # links[k].ids]]

Refreshed(links, k, ids) ==
    [links EXCEPT ![k] = [@ EXCEPT
        !.ids = ids,
        !.drifted = links[k].drifted \/ ids # links[k].ids]]

\* Mutated form of RefreshExisting: the old identifiers stay in the index.
RefreshExistingNoRemove(k, ids) ==
    /\ Observe
    /\ k \in DOMAIN work.links
    /\ LET d == work.links[k].device IN
       /\ work' = [links |-> Refreshed(work.links, k, ids),
                   devices |-> [work.devices EXCEPT ![d].fields = Merge(@, ids)]]
       /\ index' = AddLink(index, ids, d)
    /\ UNCHANGED <<db, pc, batches>>

\* The record is linked already: the link stays, its identifiers change.
RefreshExisting(k, ids) ==
    /\ Observe
    /\ k \in DOMAIN work.links
    /\ LET d == work.links[k].device IN
       /\ work' = [links |-> Refreshed(work.links, k, ids),
                   devices |-> [work.devices EXCEPT ![d].fields = Merge(@, ids)]]
       /\ index' = AddLink(RemoveLink(k), ids, d)
    /\ UNCHANGED <<db, pc, batches>>

NewLink(d, ids, c, manual) ==
    [device |-> d, ids |-> ids, confidence |-> c, manual |-> manual, drifted |-> FALSE]

WithLink(links, k, link) == [j \in DOMAIN links \cup {k} |-> IF j = k THEN link ELSE links[j]]

\* A new link of k to device d of devs, with confidence c.
InsertLink(k, ids, devs, d, c, manual) ==
    /\ work' = [links |-> WithLink(work.links, k, NewLink(d, ids, c, manual)),
                devices |-> [devs EXCEPT
                    ![d] = [fields |-> Merge(@.fields, ids),
                            confidence |-> IF c > @.confidence THEN c ELSE @.confidence]]]
    /\ index' = AddLink(index, ids, d)
    /\ UNCHANGED <<db, pc, batches>>

\* Mutated form of JoinDevice: the new link's confidence is not merged.
JoinDeviceKeep(k, ids) ==
    /\ Observe
    /\ k \notin DOMAIN work.links
    /\ \E d \in DOMAIN work.devices, c \in Confidences :
        /\ Best(k[1], ids, d, c)
        /\ work' = [links |-> WithLink(work.links, k, NewLink(d, ids, c, FALSE)),
                    devices |-> [work.devices EXCEPT ![d].fields = Merge(@, ids)]]
        /\ index' = AddLink(index, ids, d)
    /\ UNCHANGED <<db, pc, batches>>

\* A record not seen before joins the device that fits best ...
JoinDevice(k, ids) ==
    /\ Observe
    /\ k \notin DOMAIN work.links
    /\ \E d \in DOMAIN work.devices, c \in Confidences :
        /\ Best(k[1], ids, d, c)
        /\ InsertLink(k, ids, work.devices, d, c, FALSE)

\* ... or becomes a device of its own.
CreateDevice(k, ids) ==
    /\ Observe
    /\ k \notin DOMAIN work.links
    /\ \A d \in DOMAIN work.devices, c \in Confidences : ~Best(k[1], ids, d, c)
    /\ Len(work.devices) < MaxDevice
    /\ InsertLink(k, ids, Append(work.devices, [fields |-> NoFields, confidence |-> 0]),
                  Len(work.devices) + 1, 0, FALSE)

\* A manual mapping for a record not seen before.
MapNew(k, ids, d) ==
    /\ ManualMappings
    /\ Observe
    /\ k \notin DOMAIN work.links
    /\ InsertLink(k, ids, work.devices, d, 100, TRUE)

\* Mutated form of Leave: the device left keeps its confidence.
LeaveKeep(k, d) == work.devices

\* _refresh_device_confidence of the device that k leaves for d.
Leave(k, d) ==
    LET old == work.links[k].device IN
    IF old = d THEN work.devices
    ELSE [work.devices EXCEPT ![old].confidence =
            Strongest(work.links, LinksOf(work.links, old) \ {k})]

\* A manual mapping for a linked record: the link may move to another device.
MapExisting(k, ids, d) ==
    /\ ManualMappings
    /\ Observe
    /\ k \in DOMAIN work.links
    /\ work' = [links |-> [work.links EXCEPT ![k] = NewLink(d, ids, 100, TRUE)],
                devices |-> [Leave(k, d) EXCEPT
                    ![d] = [fields |-> Merge(@.fields, ids), confidence |-> 100]]]
    /\ index' = AddLink(RemoveLink(k), ids, d)
    /\ UNCHANGED <<db, pc, batches>>

\* The in-memory state is dropped with the end of correlate.
EndBatch ==
    /\ pc = "batch"
    /\ pc' = "idle"
    /\ work' = db'
    /\ index' = IndexOf(<<>>)
    /\ count' = 0
    /\ UNCHANGED batches

Commit == db' = work /\ EndBatch

\* Any exception: a mapping to a missing device, an identifier that is too
\* long, a database error.
Rollback == UNCHANGED db /\ EndBatch

-----------------------------------------------------------------------------

Init ==
    /\ db = [links |-> <<>>, devices |-> <<>>]
    /\ work = db
    /\ index = IndexOf(<<>>)
    /\ pc = "idle"
    /\ count = 0
    /\ batches = 0

Next ==
    \/ LoadState
    \/ \E k \in Key : \E ids \in Evidence[k[1]] :
        \/ RefreshExisting(k, ids)
        \/ JoinDevice(k, ids)
        \/ CreateDevice(k, ids)
        \/ \E d \in DOMAIN work.devices : MapNew(k, ids, d) \/ MapExisting(k, ids, d)
    \/ Commit
    \/ Rollback

Spec == Init /\ [][Next]_vars

-----------------------------------------------------------------------------
(* Properties *)

Link == [device : Nat \ {0}, ids : Identifiers, confidence : Confidences,
         manual : BOOLEAN, drifted : BOOLEAN]
Device == [fields : [Field \ {"name"} -> Value \cup {NoValue}], confidence : Confidences]

RowsOK(rows) ==
    /\ rows = [links |-> rows.links, devices |-> rows.devices]
    /\ DOMAIN rows.links \subseteq Key
    /\ rows.links \in [DOMAIN rows.links -> Link]
    /\ rows.devices \in Seq(Device)
    /\ \A k \in DOMAIN rows.links : rows.links[k].device \in DOMAIN rows.devices

TypeOK ==
    /\ RowsOK(db)
    /\ RowsOK(work)
    /\ index \in [IndexKey -> [Value -> SUBSET (Nat \ {0})]]
    /\ pc \in {"idle", "batch"}
    /\ count \in 0 .. MaxBatch
    /\ batches \in Nat

\* The index that a batch maintains step by step is the one that loading the
\* links again would build: no candidate is missed or offered for an
\* identifier no link shows any more (_remove_link_from_indexes, _index_link).
IndexExact == pc = "batch" => index = IndexOf(work.links)

Rows == {db, work}

\* Automatically, a device holds at most one record of each source, so two
\* records that one source tells apart are never merged (_best_candidate).
Separated(links) ==
    \A k, j \in DOMAIN links :
        links[k].device = links[j].device /\ k[1] = j[1] /\ k # j
            => links[k].manual \/ links[j].manual
OneRecordPerSource == \A rows \in Rows : Separated(rows.links)

\* Two records of one device contradict each other in a serial number or an
\* asset tag only if one was mapped by hand or changed after it was linked.
Explained(links) ==
    \A k, j \in DOMAIN links :
        links[k].device = links[j].device /\ StrongConflict(links[k].ids, links[j].ids)
            => \E i \in {k, j} : links[i].manual \/ links[i].drifted
ConflictsExplained == \A rows \in Rows : Explained(rows.links)

\* A device's confidence is the highest of its links, also after links have
\* been moved away from it by hand (_refresh_device_confidence).
Attained(links, d, c) ==
    /\ \A k \in LinksOf(links, d) : links[k].confidence <= c
    /\ c = 0 \/ \E k \in LinksOf(links, d) : links[k].confidence = c
ConfidenceIsStrongest ==
    \A rows \in Rows : \A d \in DOMAIN rows.devices :
        Attained(rows.links, d, rows.devices[d].confidence)

\* Committed links are for ever, a manual one stays manual, and only a manual
\* mapping moves a record to another device.
LinksAreStable ==
    [][\A k \in DOMAIN db.links :
        /\ k \in DOMAIN db'.links
        /\ db.links[k].manual => db'.links[k].manual
        /\ db'.links[k].device # db.links[k].device => db'.links[k].manual]_vars

\* The capacity check runs before a batch, not during it: the table can
\* exceed the limit, but by no more than one batch.
StoreBounded == Cardinality(DOMAIN db.links) <= MaxLinks + MaxBatch
=============================================================================
