----------------------- MODULE DeviceCorrelationProofs -----------------------
(***************************************************************************)
(* Proofs about DeviceCorrelation.  Every step that works through an      *)
(* observation changes the links in one of three ways: it refreshes one   *)
(* link, adds one, or replaces one.  The lemmas say what each of the three *)
(* does to the index and to the rows; the theorems put them together.     *)
(***************************************************************************)
EXTENDS DeviceCorrelation, SequenceTheorems, FiniteSetTheorems, TLAPS

Links == UNION {[D -> Link] : D \in SUBSET Key}

\* links2 is links but for the link of k, which is at device d and shows ids.
Differs(links2, links, k, d, ids) ==
    /\ DOMAIN links2 = DOMAIN links \cup {k}
    /\ links2[k].device = d
    /\ links2[k].ids = ids
    /\ \A j \in DOMAIN links \ {k} :
        links2[j].device = links[j].device /\ links2[j].ids = links[j].ids

\* Adding a link to the index of all other links gives the index of all links.
LEMMA AddExact ==
    ASSUME NEW links, NEW links2, NEW k, NEW d, NEW ids, NEW idx,
           Differs(links2, links, k, d, ids),
           \A f \in IndexKey, v \in Value :
                idx[f][v] = {links[j].device : j \in {i \in DOMAIN links \ {k} : links[i].ids[f] = v}}
    PROVE  AddLink(idx, ids, d) = IndexOf(links2)
<1> SUFFICES ASSUME NEW f \in IndexKey, NEW v \in Value
             PROVE  (IF ids[f] = v THEN idx[f][v] \cup {d} ELSE idx[f][v])
                        = {links2[j].device : j \in {i \in DOMAIN links2 : links2[i].ids[f] = v}}
    BY DEF AddLink, IndexOf
<1>1. {i \in DOMAIN links2 : links2[i].ids[f] = v} =
        {i \in DOMAIN links \ {k} : links[i].ids[f] = v} \cup (IF ids[f] = v THEN {k} ELSE {})
    BY DEF Differs
<1>2. \A i \in DOMAIN links \ {k} : links2[i].device = links[i].device
    BY DEF Differs
<1> QED BY <1>1, <1>2 DEF Differs

\* Removing the link of k leaves the index of all other links: a device stays
\* under a value exactly if another link of it shows the value.
LEMMA RemoveExact ==
    ASSUME index = IndexOf(work.links), NEW k \in DOMAIN work.links,
           NEW f \in IndexKey, NEW v \in Value
    PROVE  RemoveLink(k)[f][v] =
            {work.links[j].device : j \in {i \in DOMAIN work.links \ {k} : work.links[i].ids[f] = v}}
<1> DEFINE Showing == {i \in DOMAIN work.links : work.links[i].ids[f] = v}
           Others == {i \in DOMAIN work.links \ {k} : work.links[i].ids[f] = v}
           d == work.links[k].device
<1>1. index[f][v] = {work.links[j].device : j \in Showing}
    BY DEF IndexOf
<1>2. CASE work.links[k].ids[f] # v
    BY <1>1, <1>2 DEF RemoveLink
<1>3. CASE /\ work.links[k].ids[f] = v
           /\ \E j \in LinksOf(work.links, d) \ {k} : work.links[j].ids[f] = v
    BY <1>1, <1>3 DEF RemoveLink, LinksOf
<1>4. CASE /\ work.links[k].ids[f] = v
           /\ \A j \in LinksOf(work.links, d) \ {k} : work.links[j].ids[f] # v
  <2>1. RemoveLink(k)[f][v] = index[f][v] \ {d}
    BY <1>4 DEF RemoveLink
  <2>2. \A j \in Others : work.links[j].device # d
    BY <1>4 DEF LinksOf
  <2> QED BY <1>1, <1>4, <2>1, <2>2
<1> QED BY <1>2, <1>3, <1>4
Fields == [Field \ {"name"} -> Value \cup {NoValue}]

\* Merged fields are fields.
LEMMA MergeType ==
    ASSUME NEW fields \in Fields, NEW ids \in Identifiers
    PROVE  Merge(fields, ids) \in Fields
BY DEF Fields, Merge, Identifiers

\* A refresh keeps everything of a link but its identifiers, and says so when
\* they change.
LEMMA RefreshedFacts ==
    ASSUME NEW links, DOMAIN links \subseteq Key, links \in [DOMAIN links -> Link],
           NEW k \in DOMAIN links, NEW ids \in Identifiers
    PROVE  LET links2 == Refreshed(links, k, ids) IN
           /\ DOMAIN links2 = DOMAIN links
           /\ links2 \in [DOMAIN links2 -> Link]
           /\ \A j \in DOMAIN links \ {k} : links2[j] = links[j]
           /\ links2[k].device = links[k].device
           /\ links2[k].manual = links[k].manual
           /\ links2[k].confidence = links[k].confidence
           /\ links2[k].ids = ids
           /\ links[k].drifted => links2[k].drifted
           /\ links[k].ids # ids => links2[k].drifted
<1> DEFINE old == links[k]
           new == [old EXCEPT !.ids = ids, !.drifted = old.drifted \/ ids # old.ids]
<1>1. old \in Link
  OBVIOUS
<1>2. Refreshed(links, k, ids) = [links EXCEPT ![k] = new]
  BY DEF Refreshed
<1>3. (old.drifted \/ ids # old.ids) \in BOOLEAN
  OBVIOUS
<1>4. new \in Link
  BY <1>1, <1>3 DEF Link
<1>5. /\ new.device = old.device /\ new.manual = old.manual
      /\ new.confidence = old.confidence /\ new.ids = ids
  BY <1>1 DEF Link
<1>6. new.drifted = (old.drifted \/ ids # old.ids)
  BY <1>1 DEF Link
<1> HIDE DEF new
<1> QED BY <1>2, <1>4, <1>5, <1>6

\* Replacing one link leaves the others alone.
LEMMA ReplacedFacts ==
    ASSUME NEW links, DOMAIN links \subseteq Key, links \in [DOMAIN links -> Link],
           NEW k \in DOMAIN links, NEW link \in Link
    PROVE  LET links2 == [links EXCEPT ![k] = link] IN
           /\ DOMAIN links2 = DOMAIN links
           /\ links2 \in [DOMAIN links2 -> Link]
           /\ \A j \in DOMAIN links \ {k} : links2[j] = links[j]
           /\ links2[k] = link
OBVIOUS

\* A new link is a link.
LEMMA NewLinkType ==
    ASSUME NEW d \in Nat \ {0}, NEW ids \in Identifiers,
           NEW c \in Confidences, NEW manual \in BOOLEAN
    PROVE  NewLink(d, ids, c, manual) \in Link
BY DEF NewLink, Link

\* The largest confidence exists: there are seven of them.
LEMMA StrongestAttained ==
    ASSUME NEW links, NEW ks, \A k \in ks : links[k].confidence \in Confidences
    PROVE  /\ Strongest(links, ks) \in Confidences
           /\ \A k \in ks : links[k].confidence <= Strongest(links, ks)
           /\ \/ Strongest(links, ks) = 0
              \/ \E k \in ks : links[k].confidence = Strongest(links, ks)
<1> DEFINE S == {c \in Confidences : c = 0 \/ \E k \in ks : links[k].confidence = c}
           P(c) == /\ c = 0 \/ \E k \in ks : links[k].confidence = c
                   /\ \A k \in ks : links[k].confidence <= c
<1>1. \E c \in S : \A b \in S : b <= c
  <2> HIDE DEF S
  <2>1. S \subseteq {0, 60, 70, 75, 80, 90, 100} /\ 0 \in S
    BY DEF S, Confidences
  <2> QED BY <2>1
<1>2. \A k \in ks : links[k].confidence \in S
  OBVIOUS
<1>3. \E c \in Confidences : P(c)
  BY <1>1, <1>2
<1>4. Strongest(links, ks) = CHOOSE c \in Confidences : P(c)
  BY DEF Strongest
<1> HIDE DEF P
<1>5. Strongest(links, ks) \in Confidences /\ P(Strongest(links, ks))
  BY <1>3, <1>4
<1> QED BY <1>5 DEF P

-----------------------------------------------------------------------------
(* Devices *)

\* Replacing one device leaves the others alone.
LEMMA DeviceReplaced ==
    ASSUME NEW devices \in Seq(Device), NEW d \in DOMAIN devices, NEW e \in Device
    PROVE  LET devices2 == [devices EXCEPT ![d] = e] IN
           /\ devices2 \in Seq(Device)
           /\ DOMAIN devices2 = DOMAIN devices
           /\ devices2[d] = e
           /\ \A b \in DOMAIN devices \ {d} : devices2[b] = devices[b]
BY ExceptSeq

\* Merging identifiers into a device leaves all confidences alone.
LEMMA FieldsMerged ==
    ASSUME NEW devices \in Seq(Device), NEW d \in DOMAIN devices, NEW ids \in Identifiers
    PROVE  LET devices2 == [devices EXCEPT ![d].fields = Merge(@, ids)] IN
           /\ devices2 \in Seq(Device)
           /\ DOMAIN devices2 = DOMAIN devices
           /\ \A b \in DOMAIN devices : devices2[b].confidence = devices[b].confidence
<1> DEFINE e == [fields |-> Merge(devices[d].fields, ids), confidence |-> devices[d].confidence]
<1>1. devices[d] \in Device
  OBVIOUS
<1>2. e \in Device
  BY <1>1, MergeType DEF Device, Fields
<1>3. [devices[d] EXCEPT !.fields = Merge(devices[d].fields, ids)] = e
  BY <1>1 DEF Device
<1>4. [devices EXCEPT ![d].fields = Merge(@, ids)] = [devices EXCEPT ![d] = e]
  BY <1>3
<1>5. e.confidence = devices[d].confidence
  OBVIOUS
<1> HIDE DEF e
<1>6. LET devices2 == [devices EXCEPT ![d] = e] IN
        /\ devices2 \in Seq(Device)
        /\ DOMAIN devices2 = DOMAIN devices
        /\ devices2[d] = e
        /\ \A b \in DOMAIN devices \ {d} : devices2[b] = devices[b]
  BY <1>2, DeviceReplaced
<1> QED BY <1>4, <1>5, <1>6

\* A device that is added gets a number of its own.
LEMMA DeviceAppended ==
    ASSUME NEW devices \in Seq(Device), NEW e \in Device
    PROVE  LET devices2 == Append(devices, e) IN
           /\ devices2 \in Seq(Device)
           /\ Len(devices) + 1 \in Nat \ {0}
           /\ Len(devices) + 1 \notin DOMAIN devices
           /\ DOMAIN devices2 = DOMAIN devices \cup {Len(devices) + 1}
           /\ devices2[Len(devices) + 1] = e
           /\ \A b \in DOMAIN devices : devices2[b] = devices[b]
OBVIOUS

-----------------------------------------------------------------------------
(* The three changes of the rows *)

Good(rows) ==
    /\ RowsOK(rows)
    /\ Separated(rows.links)
    /\ Explained(rows.links)
    /\ \A d \in DOMAIN rows.devices : Attained(rows.links, d, rows.devices[d].confidence)

\* A sighting of a known record keeps the rows good: it moves no link, and a
\* conflict that it brings about has drifted.
LEMMA RefreshKeepsGood ==
    ASSUME Good(work), NEW k \in DOMAIN work.links, NEW ids \in Identifiers
    PROVE  LET d == work.links[k].device IN
           Good([links |-> Refreshed(work.links, k, ids),
                 devices |-> [work.devices EXCEPT ![d].fields = Merge(@, ids)]])
<1> DEFINE links == work.links
           devices == work.devices
           links2 == Refreshed(links, k, ids)
           devices2 == [devices EXCEPT ![links[k].device].fields = Merge(@, ids)]
<1>1. /\ DOMAIN links \subseteq Key /\ links \in [DOMAIN links -> Link]
      /\ devices \in Seq(Device)
      /\ \A j \in DOMAIN links : links[j].device \in DOMAIN devices
  BY DEF Good, RowsOK
<1>2. /\ DOMAIN links2 = DOMAIN links
      /\ links2 \in [DOMAIN links2 -> Link]
      /\ \A j \in DOMAIN links \ {k} : links2[j] = links[j]
      /\ links2[k].device = links[k].device /\ links2[k].manual = links[k].manual
      /\ links2[k].confidence = links[k].confidence
      /\ links2[k].ids = ids
      /\ links[k].drifted => links2[k].drifted
      /\ links[k].ids # ids => links2[k].drifted
  BY <1>1, RefreshedFacts
<1>3. /\ devices2 \in Seq(Device) /\ DOMAIN devices2 = DOMAIN devices
      /\ \A b \in DOMAIN devices : devices2[b].confidence = devices[b].confidence
  BY <1>1, FieldsMerged
<1> HIDE DEF links2, devices2
<1>4. RowsOK([links |-> links2, devices |-> devices2])
  BY <1>1, <1>2, <1>3 DEF RowsOK
<1>5. \A j \in DOMAIN links :
        /\ links2[j].device = links[j].device /\ links2[j].manual = links[j].manual
        /\ links2[j].confidence = links[j].confidence
  BY <1>2
<1>6. Separated(links2)
  BY <1>2, <1>5 DEF Good, Separated
<1>7. Explained(links2)
  <2> SUFFICES ASSUME NEW i \in DOMAIN links, NEW j \in DOMAIN links,
                      links2[i].device = links2[j].device,
                      StrongConflict(links2[i].ids, links2[j].ids)
               PROVE  \E m \in {i, j} : links2[m].manual \/ links2[m].drifted
    BY <1>2 DEF Explained
  <2>1. CASE ids # links[k].ids /\ k \in {i, j}
    BY <1>2, <2>1
  <2>2. CASE ids = links[k].ids \/ k \notin {i, j}
    <3>1. links2[i].ids = links[i].ids /\ links2[j].ids = links[j].ids
      BY <1>2, <2>2
    <3>2. \E m \in {i, j} : links[m].manual \/ links[m].drifted
      BY <1>5, <3>1 DEF Good, Explained
    <3> QED BY <1>2, <1>5, <3>2
  <2> QED BY <2>1, <2>2
<1>8. ASSUME NEW d \in DOMAIN devices2
      PROVE  Attained(links2, d, devices2[d].confidence)
  <2>1. /\ d \in DOMAIN devices
        /\ devices2[d].confidence = devices[d].confidence
    BY <1>3
  <2>2. LinksOf(links2, d) = LinksOf(links, d)
    BY <1>2, <1>5 DEF LinksOf
  <2>3. \A j \in LinksOf(links, d) : links2[j].confidence = links[j].confidence
    BY <1>5 DEF LinksOf
  <2>4. Attained(links, d, devices[d].confidence)
    BY <2>1 DEF Good
  <2> QED BY <2>1, <2>2, <2>3, <2>4 DEF Attained
<1> QED BY <1>4, <1>6, <1>7, <1>8 DEF Good, links2, devices2

\* A conflict is mutual, and never with oneself.
LEMMA ConflictSymmetric ==
    ASSUME NEW l, NEW r
    PROVE  /\ StrongConflict(l, r) => StrongConflict(r, l)
           /\ ~StrongConflict(l, l)
BY DEF StrongConflict, Conflicts

\* A new link, by hand or to a device without a record of its source and
\* without a conflict.
LEMMA InsertKeepsGood ==
    ASSUME NEW links, NEW devices, Good([links |-> links, devices |-> devices]),
           NEW k \in Key \ DOMAIN links, NEW ids \in Identifiers,
           NEW d \in DOMAIN devices, NEW c \in Confidences, NEW manual \in BOOLEAN,
           \/ manual
           \/ \A j \in LinksOf(links, d) : j[1] # k[1] /\ ~StrongConflict(ids, links[j].ids)
    PROVE  Good([links |-> WithLink(links, k, NewLink(d, ids, c, manual)),
                 devices |-> [devices EXCEPT
                    ![d] = [fields |-> Merge(@.fields, ids),
                            confidence |-> IF c > @.confidence THEN c ELSE @.confidence]]])
<1> DEFINE link == NewLink(d, ids, c, manual)
           links2 == WithLink(links, k, link)
           e == [fields |-> Merge(devices[d].fields, ids),
                 confidence |-> IF c > devices[d].confidence THEN c ELSE devices[d].confidence]
           devices2 == [devices EXCEPT ![d] = e]
<1>1. /\ DOMAIN links \subseteq Key /\ links \in [DOMAIN links -> Link]
      /\ devices \in Seq(Device)
      /\ \A j \in DOMAIN links : links[j].device \in DOMAIN devices
      /\ Separated(links) /\ Explained(links)
      /\ \A b \in DOMAIN devices : Attained(links, b, devices[b].confidence)
  BY DEF Good, RowsOK
<1>2. d \in Nat \ {0} /\ devices[d] \in Device
  BY <1>1
<1>3. link \in Link /\ link.device = d /\ link.ids = ids /\ link.confidence = c
        /\ link.manual = manual
  BY <1>2, NewLinkType DEF NewLink
<1>4. e \in Device /\ e.confidence \in Confidences
        /\ e.confidence = IF c > devices[d].confidence THEN c ELSE devices[d].confidence
  BY <1>2, MergeType DEF Device, Fields
<1> HIDE DEF link, e
<1>5. /\ DOMAIN links2 = DOMAIN links \cup {k} /\ DOMAIN links2 \subseteq Key
      /\ links2 \in [DOMAIN links2 -> Link]
      /\ \A j \in DOMAIN links \ {k} : links2[j] = links[j]
      /\ links2[k] = link
  <2>1. k \in Key
    OBVIOUS
  <2> QED BY <1>1, <1>3, <2>1 DEF WithLink
<1>6. /\ devices2 \in Seq(Device) /\ DOMAIN devices2 = DOMAIN devices
      /\ devices2[d] = e /\ \A b \in DOMAIN devices \ {d} : devices2[b] = devices[b]
  BY <1>1, <1>4, DeviceReplaced
<1> HIDE DEF links2, devices2
<1>7. RowsOK([links |-> links2, devices |-> devices2])
  BY <1>1, <1>3, <1>5, <1>6 DEF RowsOK
<1>8. Separated(links2)
  BY <1>1, <1>3, <1>5 DEF Separated, LinksOf
<1>9. Explained(links2)
  <2> SUFFICES ASSUME NEW i \in DOMAIN links2, NEW j \in DOMAIN links2,
                      links2[i].device = links2[j].device,
                      StrongConflict(links2[i].ids, links2[j].ids)
               PROVE  \E m \in {i, j} : links2[m].manual \/ links2[m].drifted
    BY DEF Explained
  <2>1. CASE i # k /\ j # k
    BY <1>1, <1>5, <2>1 DEF Explained
  <2>2. CASE i = k /\ j = k
    BY <2>2, ConflictSymmetric
  <2>3. CASE i = k /\ j # k
    BY <1>3, <1>5, <2>3 DEF LinksOf
  <2>4. CASE i # k /\ j = k
    <3>1. StrongConflict(links2[j].ids, links2[i].ids)
      BY ConflictSymmetric
    <3> QED BY <1>3, <1>5, <2>4, <3>1 DEF LinksOf
  <2> QED BY <2>1, <2>2, <2>3, <2>4
<1>10. \A b \in DOMAIN devices2 : Attained(links2, b, devices2[b].confidence)
  <2> SUFFICES ASSUME NEW b \in DOMAIN devices
               PROVE  Attained(links2, b, devices2[b].confidence)
    BY <1>6
  <2>1. CASE b # d
    <3>1. LinksOf(links2, b) = LinksOf(links, b)
            /\ \A j \in LinksOf(links, b) : links2[j] = links[j]
      BY <1>3, <1>5, <2>1 DEF LinksOf
    <3> QED BY <1>1, <1>6, <2>1, <3>1 DEF Attained
  <2>2. CASE b = d
    <3>1. /\ LinksOf(links2, d) = LinksOf(links, d) \cup {k}
          /\ \A j \in LinksOf(links, d) : links2[j] = links[j]
      BY <1>3, <1>5 DEF LinksOf
    <3>2. devices[d].confidence \in Int /\ c \in Int /\ c >= 0
            /\ \A j \in LinksOf(links, d) : links[j].confidence \in Int
      <4>1. \A x \in Confidences : x \in Int /\ x >= 0
        BY DEF Confidences
      <4>2. devices[d].confidence \in Confidences
        BY <1>2 DEF Device
      <4>3. \A j \in LinksOf(links, d) : links[j].confidence \in Confidences
        BY <1>1 DEF Link, LinksOf
      <4>4. \A j \in LinksOf(links, d) : links[j].confidence \in Int
        BY <4>1, <4>3
      <4>5. devices[d].confidence \in Int /\ c \in Int /\ c >= 0
        BY <4>1, <4>2
      <4> QED BY <4>4, <4>5
    <3>3. Attained(links, d, devices[d].confidence)
      BY <1>1
    <3> QED BY <1>3, <1>4, <1>5, <1>6, <2>2, <3>1, <3>2, <3>3 DEF Attained
  <2> QED BY <2>1, <2>2
<1> QED BY <1>7, <1>8, <1>9, <1>10 DEF Good, links2, devices2, link, e

\* A device that is added has no links yet.
LEMMA BlankKeepsGood ==
    ASSUME NEW links, NEW devices, Good([links |-> links, devices |-> devices])
    PROVE  LET devices2 == Append(devices, [fields |-> NoFields, confidence |-> 0]) IN
           /\ Good([links |-> links, devices |-> devices2])
           /\ Len(devices) + 1 \in DOMAIN devices2
           /\ LinksOf(links, Len(devices) + 1) = {}
<1> DEFINE e == [fields |-> NoFields, confidence |-> 0]
           devices2 == Append(devices, e)
           n == Len(devices) + 1
<1>1. /\ DOMAIN links \subseteq Key /\ links \in [DOMAIN links -> Link]
      /\ devices \in Seq(Device)
      /\ \A j \in DOMAIN links : links[j].device \in DOMAIN devices
      /\ \A b \in DOMAIN devices : Attained(links, b, devices[b].confidence)
  BY DEF Good, RowsOK
<1>2. e \in Device /\ e.confidence = 0
  BY DEF Device, NoFields, Confidences
<1> HIDE DEF e
<1>3. /\ devices2 \in Seq(Device) /\ n \in Nat \ {0} /\ n \notin DOMAIN devices
      /\ DOMAIN devices2 = DOMAIN devices \cup {n}
      /\ devices2[n] = e /\ \A b \in DOMAIN devices : devices2[b] = devices[b]
  BY <1>1, <1>2, DeviceAppended
<1> HIDE DEF devices2, n
<1>4. LinksOf(links, n) = {}
  BY <1>1, <1>3 DEF LinksOf
<1>5. \A b \in DOMAIN devices2 : Attained(links, b, devices2[b].confidence)
  BY <1>1, <1>2, <1>3, <1>4 DEF Attained
<1>6. Good([links |-> links, devices |-> devices2])
  BY <1>1, <1>3, <1>5 DEF Good, RowsOK
<1> QED BY <1>3, <1>4, <1>6 DEF devices2, n, e

\* The device that a link is moved away from takes the strongest of the rest.
LEMMA LeaveFacts ==
    ASSUME Good(work), NEW k \in DOMAIN work.links, NEW d \in DOMAIN work.devices
    PROVE  LET old == work.links[k].device IN
           /\ Leave(k, d) \in Seq(Device)
           /\ DOMAIN Leave(k, d) = DOMAIN work.devices
           /\ \A b \in DOMAIN work.devices \ {old} : Leave(k, d)[b] = work.devices[b]
           /\ old # d => Leave(k, d)[old].confidence
                            = Strongest(work.links, LinksOf(work.links, old) \ {k})
<1> DEFINE old == work.links[k].device
           c == Strongest(work.links, LinksOf(work.links, old) \ {k})
           e == [fields |-> work.devices[old].fields, confidence |-> c]
<1>1. /\ work.devices \in Seq(Device) /\ old \in DOMAIN work.devices
      /\ \A j \in DOMAIN work.links : work.links[j] \in Link
  BY DEF Good, RowsOK
<1>2. CASE old = d
  BY <1>1, <1>2 DEF Leave
<1>3. CASE old # d
  <2>1. \A j \in LinksOf(work.links, old) \ {k} : work.links[j].confidence \in Confidences
    BY <1>1 DEF LinksOf, Link
  <2>2. c \in Confidences
    BY <2>1, StrongestAttained
  <2> HIDE DEF c
  <2>3. e \in Device /\ work.devices[old] \in Device /\ e.confidence = c
    <3>1. work.devices[old] \in Device
      BY <1>1
    <3> QED BY <2>2, <3>1 DEF Device
  <2>4. [work.devices[old] EXCEPT !.confidence = c] = e
    BY <2>3 DEF Device
  <2>5. [work.devices EXCEPT ![old].confidence = c] = [work.devices EXCEPT ![old] = e]
    BY <2>4
  <2>6. Leave(k, d) = [work.devices EXCEPT ![old] = e]
    BY <1>3, <2>5 DEF Leave, c
  <2> HIDE DEF e, old
  <2>7. LET devices2 == [work.devices EXCEPT ![old] = e] IN
          /\ devices2 \in Seq(Device)
          /\ DOMAIN devices2 = DOMAIN work.devices
          /\ devices2[old] = e
          /\ \A b \in DOMAIN work.devices \ {old} : devices2[b] = work.devices[b]
    BY <1>1, <2>3, DeviceReplaced
  <2> QED BY <2>3, <2>6, <2>7 DEF old, c
<1> QED BY <1>2, <1>3

\* Mapping a known record by hand keeps the rows good, those of the device it
\* leaves included.
LEMMA MapKeepsGood ==
    ASSUME Good(work), NEW k \in DOMAIN work.links, NEW ids \in Identifiers,
           NEW d \in DOMAIN work.devices
    PROVE  Good([links |-> [work.links EXCEPT ![k] = NewLink(d, ids, 100, TRUE)],
                 devices |-> [Leave(k, d) EXCEPT
                    ![d] = [fields |-> Merge(@.fields, ids), confidence |-> 100]]])
<1> DEFINE links == work.links
           devices == work.devices
           old == links[k].device
           left == Leave(k, d)
           link == NewLink(d, ids, 100, TRUE)
           links2 == [links EXCEPT ![k] = link]
           e == [fields |-> Merge(left[d].fields, ids), confidence |-> 100]
           devices2 == [left EXCEPT ![d] = e]
<1>1. /\ DOMAIN links \subseteq Key /\ links \in [DOMAIN links -> Link]
      /\ devices \in Seq(Device)
      /\ \A j \in DOMAIN links : links[j].device \in DOMAIN devices
      /\ Separated(links) /\ Explained(links)
      /\ \A b \in DOMAIN devices : Attained(links, b, devices[b].confidence)
  BY DEF Good, RowsOK
<1>2. /\ left \in Seq(Device) /\ DOMAIN left = DOMAIN devices
      /\ \A b \in DOMAIN devices \ {old} : left[b] = devices[b]
      /\ old # d => left[old].confidence = Strongest(links, LinksOf(links, old) \ {k})
  BY LeaveFacts
<1> HIDE DEF left
<1>3. d \in Nat \ {0} /\ left[d] \in Device /\ 100 \in Confidences
  BY <1>1, <1>2 DEF Confidences
<1>4. link \in Link /\ link.device = d /\ link.ids = ids /\ link.confidence = 100 /\ link.manual
  BY <1>3, NewLinkType DEF NewLink
<1>5. e \in Device /\ e.confidence = 100
  BY <1>3, MergeType DEF Device, Fields
<1> HIDE DEF link, e
<1>6. /\ DOMAIN links2 = DOMAIN links /\ links2 \in [DOMAIN links2 -> Link]
      /\ \A j \in DOMAIN links \ {k} : links2[j] = links[j]
      /\ links2[k] = link
  BY <1>1, <1>4
<1>7. /\ devices2 \in Seq(Device) /\ DOMAIN devices2 = DOMAIN devices
      /\ devices2[d] = e /\ \A b \in DOMAIN devices \ {d} : devices2[b] = left[b]
  BY <1>2, <1>5, DeviceReplaced
<1> HIDE DEF links2, devices2
<1>8. RowsOK([links |-> links2, devices |-> devices2])
  BY <1>1, <1>4, <1>6, <1>7 DEF RowsOK
<1>9. Separated(links2)
  BY <1>1, <1>4, <1>6 DEF Separated
<1>10. Explained(links2)
  <2> SUFFICES ASSUME NEW i \in DOMAIN links2, NEW j \in DOMAIN links2, i # k, j # k,
                      links2[i].device = links2[j].device,
                      StrongConflict(links2[i].ids, links2[j].ids)
               PROVE  \E m \in {i, j} : links2[m].manual \/ links2[m].drifted
    BY <1>4, <1>6 DEF Explained
  <2> QED BY <1>1, <1>6 DEF Explained
<1>11. \A j \in DOMAIN links2 : links2[j].confidence \in Confidences
  BY <1>6 DEF Link
<1>12. \A b \in DOMAIN devices2 : Attained(links2, b, devices2[b].confidence)
  <2> SUFFICES ASSUME NEW b \in DOMAIN devices
               PROVE  Attained(links2, b, devices2[b].confidence)
    BY <1>7
  <2>1. CASE b = d
    <3>1. \A x \in Confidences : x <= 100
      BY DEF Confidences
    <3>2. k \in LinksOf(links2, d) /\ links2[k].confidence = 100
      BY <1>4, <1>6 DEF LinksOf
    <3> QED BY <1>5, <1>7, <1>11, <2>1, <3>1, <3>2 DEF Attained, LinksOf
  <2>2. CASE b # d /\ b = old
    <3>1. /\ LinksOf(links2, b) = LinksOf(links, b) \ {k}
          /\ \A j \in LinksOf(links2, b) : links2[j] = links[j]
      BY <1>4, <1>6, <2>2 DEF LinksOf
    <3>2. \A j \in LinksOf(links, b) \ {k} : links[j].confidence \in Confidences
      BY <1>1 DEF Link, LinksOf
    <3>3. devices2[b].confidence = Strongest(links, LinksOf(links, b) \ {k})
      BY <1>2, <1>7, <2>2
    <3>4. /\ \A j \in LinksOf(links, b) \ {k} : links[j].confidence <= devices2[b].confidence
          /\ \/ devices2[b].confidence = 0
             \/ \E j \in LinksOf(links, b) \ {k} : links[j].confidence = devices2[b].confidence
      BY <3>2, <3>3, StrongestAttained
    <3> QED BY <3>1, <3>4 DEF Attained
  <2>3. CASE b # d /\ b # old
    <3>1. /\ LinksOf(links2, b) = LinksOf(links, b)
          /\ \A j \in LinksOf(links2, b) : links2[j] = links[j]
      BY <1>4, <1>6, <2>3 DEF LinksOf
    <3>2. devices2[b] = devices[b]
      BY <1>2, <1>7, <2>3
    <3> QED BY <1>1, <3>1, <3>2 DEF Attained
  <2> QED BY <2>1, <2>2, <2>3
<1> QED BY <1>8, <1>9, <1>10, <1>12 DEF Good, links2, devices2, link, e, left

-----------------------------------------------------------------------------
(* The inductive invariant *)

RestOK ==
    /\ index \in [IndexKey -> [Value -> SUBSET (Nat \ {0})]]
    /\ pc \in {"idle", "batch"}
    /\ count \in 0 .. MaxBatch
    /\ batches \in Nat

IInv == Good(db) /\ Good(work) /\ IndexExact /\ RestOK

\* What links determine is an index.
LEMMA IndexType ==
    ASSUME NEW rows, RowsOK(rows)
    PROVE  IndexOf(rows.links) \in [IndexKey -> [Value -> SUBSET (Nat \ {0})]]
BY DEF IndexOf, RowsOK, Link

\* Empty rows are good.
LEMMA EmptyGood == Good([links |-> <<>>, devices |-> <<>>])
<1> DEFINE rows == [links |-> <<>>, devices |-> <<>>]
<1>1. DOMAIN rows.links = {} /\ DOMAIN rows.devices = {} /\ rows.devices \in Seq(Device)
  OBVIOUS
<1>2. rows.links \in [DOMAIN rows.links -> Link]
  OBVIOUS
<1> QED BY <1>1, <1>2 DEF Good, RowsOK, Separated, Explained

\* The index of no links is an index.
LEMMA EmptyIndexType == IndexOf(<<>>) \in [IndexKey -> [Value -> SUBSET (Nat \ {0})]]
<1>1. RowsOK([links |-> <<>>, devices |-> <<>>])
  BY EmptyGood DEF Good
<1> QED BY <1>1, IndexType

\* Evidence consists of identifiers.
LEMMA EvidenceType ==
    ASSUME NEW k \in Key, NEW ids \in Evidence[k[1]]
    PROVE  ids \in Identifiers
BY EvidenceAssumption DEF Key

\* One step of a batch: new links that differ in one link, and the index that
\* comes with them.
LEMMA BatchStep ==
    ASSUME IInv, Observe, Good(work'), UNCHANGED <<db, pc, batches>>,
           index' = IndexOf(work'.links)
    PROVE  IInv'
<1>1. index' \in [IndexKey -> [Value -> SUBSET (Nat \ {0})]]
  BY IndexType DEF Good
<1>2. count' \in 0 .. MaxBatch
  BY BoundsAssumption DEF Observe, IInv, RestOK
<1> QED BY <1>1, <1>2 DEF IInv, RestOK, IndexExact

\* A step that inserts a link, by hand or without a conflict, keeps IInv.
LEMMA InsertStep ==
    ASSUME IInv, Observe, NEW k \in Key \ DOMAIN work.links, NEW ids \in Identifiers,
           NEW devs, Good([links |-> work.links, devices |-> devs]),
           NEW d \in DOMAIN devs, NEW c \in Confidences, NEW manual \in BOOLEAN,
           \/ manual
           \/ \A j \in LinksOf(work.links, d) :
                    j[1] # k[1] /\ ~StrongConflict(ids, work.links[j].ids),
           InsertLink(k, ids, devs, d, c, manual)
    PROVE  IInv'
<1> DEFINE link == NewLink(d, ids, c, manual)
<1>1. Good(work')
  BY InsertKeepsGood DEF InsertLink
<1>2. work'.links = WithLink(work.links, k, link)
  BY DEF InsertLink
<1>3. Differs(work'.links, work.links, k, d, ids)
  BY <1>2 DEF Differs, WithLink, NewLink
<1>4. index = IndexOf(work.links)
  BY DEF IInv, IndexExact, Observe
<1>5. \A f \in IndexKey, v \in Value : index[f][v] =
        {work.links[j].device : j \in {i \in DOMAIN work.links \ {k} : work.links[i].ids[f] = v}}
  BY <1>4 DEF IndexOf
<1>6. AddLink(index, ids, d) = IndexOf(work'.links)
  BY <1>3, <1>5, AddExact
<1> QED BY <1>1, <1>6, BatchStep DEF InsertLink

\* RefreshExisting keeps IInv.
LEMMA RefreshStep ==
    ASSUME IInv, NEW k \in Key, NEW ids \in Identifiers, RefreshExisting(k, ids)
    PROVE  IInv'
<1> DEFINE d == work.links[k].device
<1>1. k \in DOMAIN work.links /\ Observe /\ Good(work)
  BY DEF RefreshExisting, IInv
<1>2. /\ work' = [links |-> Refreshed(work.links, k, ids),
                  devices |-> [work.devices EXCEPT ![d].fields = Merge(@, ids)]]
      /\ index' = AddLink(RemoveLink(k), ids, d)
  BY DEF RefreshExisting
<1>3. Good(work')
  BY <1>1, <1>2, RefreshKeepsGood
<1>4. Differs(work'.links, work.links, k, d, ids)
  <2>1. DOMAIN work.links \subseteq Key /\ work.links \in [DOMAIN work.links -> Link]
    BY <1>1 DEF Good, RowsOK
  <2>2. LET links2 == Refreshed(work.links, k, ids) IN
          /\ DOMAIN links2 = DOMAIN work.links
          /\ \A j \in DOMAIN work.links \ {k} : links2[j] = work.links[j]
          /\ links2[k].device = work.links[k].device
          /\ links2[k].ids = ids
    BY <1>1, <2>1, RefreshedFacts
  <2>3. work'.links = Refreshed(work.links, k, ids)
    BY <1>2
  <2> HIDE <1>2
  <2> QED BY <1>1, <2>2, <2>3 DEF Differs
<1>5. index = IndexOf(work.links)
  BY <1>1 DEF IInv, IndexExact, Observe
<1>6. \A f \in IndexKey, v \in Value : RemoveLink(k)[f][v] =
        {work.links[j].device : j \in {i \in DOMAIN work.links \ {k} : work.links[i].ids[f] = v}}
  BY <1>1, <1>5, RemoveExact
<1>7. AddLink(RemoveLink(k), ids, d) = IndexOf(work'.links)
  BY <1>4, <1>6, AddExact
<1> QED BY <1>1, <1>2, <1>3, <1>7, BatchStep DEF RefreshExisting

\* MapExisting keeps IInv.
LEMMA MapStep ==
    ASSUME IInv, NEW k \in Key, NEW ids \in Identifiers, NEW d \in DOMAIN work.devices,
           MapExisting(k, ids, d)
    PROVE  IInv'
<1>1. k \in DOMAIN work.links /\ Observe /\ Good(work)
  BY DEF MapExisting, IInv
<1>2. /\ work' = [links |-> [work.links EXCEPT ![k] = NewLink(d, ids, 100, TRUE)],
                  devices |-> [Leave(k, d) EXCEPT
                    ![d] = [fields |-> Merge(@.fields, ids), confidence |-> 100]]]
      /\ index' = AddLink(RemoveLink(k), ids, d)
  BY DEF MapExisting
<1>3. Good(work')
  BY <1>1, <1>2, MapKeepsGood
<1>4. Differs(work'.links, work.links, k, d, ids)
  <2>1. work.links \in [DOMAIN work.links -> Link]
    BY <1>1 DEF Good, RowsOK
  <2> QED BY <1>1, <1>2, <2>1 DEF Differs, NewLink
<1>5. index = IndexOf(work.links)
  BY <1>1 DEF IInv, IndexExact, Observe
<1>6. \A f \in IndexKey, v \in Value : RemoveLink(k)[f][v] =
        {work.links[j].device : j \in {i \in DOMAIN work.links \ {k} : work.links[i].ids[f] = v}}
  BY <1>1, <1>5, RemoveExact
<1>7. AddLink(RemoveLink(k), ids, d) = IndexOf(work'.links)
  BY <1>4, <1>6, AddExact
<1> QED BY <1>1, <1>2, <1>3, <1>7, BatchStep DEF MapExisting

\* JoinDevice keeps IInv: the best candidate is one without a conflict.
LEMMA JoinStep ==
    ASSUME IInv, NEW k \in Key, NEW ids \in Identifiers, JoinDevice(k, ids)
    PROVE  IInv'
<1>1. PICK d \in DOMAIN work.devices, c \in Confidences :
        /\ Best(k[1], ids, d, c)
        /\ InsertLink(k, ids, work.devices, d, c, FALSE)
  BY DEF JoinDevice
<1>2. d \in Joinable(k[1], ids, c)
  BY <1>1 DEF Best
<1>3. \A j \in LinksOf(work.links, d) :
        j[1] # k[1] /\ ~StrongConflict(ids, work.links[j].ids)
  BY <1>2 DEF Joinable, SameSource, ConflictWith
<1>4. Good([links |-> work.links, devices |-> work.devices])
  BY DEF IInv, Good, RowsOK
<1>5. Observe /\ k \in Key \ DOMAIN work.links
  BY DEF JoinDevice
<1> QED BY <1>1, <1>3, <1>4, <1>5, InsertStep

\* CreateDevice keeps IInv: nothing is on the device yet.
LEMMA CreateStep ==
    ASSUME IInv, NEW k \in Key, NEW ids \in Identifiers, CreateDevice(k, ids)
    PROVE  IInv'
<1> DEFINE devs == Append(work.devices, [fields |-> NoFields, confidence |-> 0])
           d == Len(work.devices) + 1
<1>1. Good([links |-> work.links, devices |-> work.devices])
  BY DEF IInv, Good, RowsOK
<1>2. /\ Good([links |-> work.links, devices |-> devs])
      /\ d \in DOMAIN devs /\ LinksOf(work.links, d) = {}
  BY <1>1, BlankKeepsGood
<1>3. Observe /\ k \in Key \ DOMAIN work.links /\ InsertLink(k, ids, devs, d, 0, FALSE)
  BY DEF CreateDevice
<1>4. 0 \in Confidences
  BY DEF Confidences
<1> HIDE DEF devs, d
<1> QED BY <1>2, <1>3, <1>4, InsertStep

\* MapNew keeps IInv.
LEMMA MapNewStep ==
    ASSUME IInv, NEW k \in Key, NEW ids \in Identifiers, NEW d \in DOMAIN work.devices,
           MapNew(k, ids, d)
    PROVE  IInv'
<1>1. Good([links |-> work.links, devices |-> work.devices])
  BY DEF IInv, Good, RowsOK
<1>2. 100 \in Confidences
  BY DEF Confidences
<1> QED BY <1>1, <1>2, InsertStep DEF MapNew

\* IInv holds initially.
LEMMA InitInv == Init => IInv
BY EmptyGood, EmptyIndexType, BoundsAssumption DEF Init, IInv, RestOK, IndexExact

\* Every step keeps IInv.
LEMMA NextInv == IInv /\ [Next]_vars => IInv'
<1> SUFFICES ASSUME IInv, [Next]_vars PROVE IInv'
  OBVIOUS
<1>1. CASE LoadState
  BY <1>1, IndexType, BoundsAssumption DEF LoadState, IInv, RestOK, IndexExact, Good
<1>2. ASSUME NEW k \in Key, NEW ids \in Evidence[k[1]],
             \/ RefreshExisting(k, ids)
             \/ JoinDevice(k, ids)
             \/ CreateDevice(k, ids)
             \/ \E d \in DOMAIN work.devices : MapNew(k, ids, d) \/ MapExisting(k, ids, d)
      PROVE  IInv'
  BY <1>2, EvidenceType, RefreshStep, JoinStep, CreateStep, MapNewStep, MapStep
<1>3. CASE Commit \/ Rollback
  BY <1>3, EmptyIndexType, BoundsAssumption
    DEF Commit, Rollback, EndBatch, IInv, RestOK, IndexExact
<1>4. CASE UNCHANGED vars
  BY <1>4 DEF vars, IInv, RestOK, IndexExact
<1> QED BY <1>1, <1>2, <1>3, <1>4 DEF Next

\* IInv holds in every state.
LEMMA Invariance == Spec => []IInv
BY InitInv, NextInv, PTL DEF Spec

-----------------------------------------------------------------------------
(* Theorems *)

\* Types, and every link points to a device that exists (the foreign key of
\* device_source_links), committed or not.
THEOREM TypeCorrect == Spec => []TypeOK
<1>1. IInv => TypeOK
  BY DEF IInv, RestOK, Good, TypeOK
<1> QED BY <1>1, Invariance, PTL

\* The index maintained by adding and removing single links is exact, for any
\* number of records, devices and values.
THEOREM IndexCorrect == Spec => []IndexExact
<1>1. IInv => IndexExact
  BY DEF IInv
<1> QED BY <1>1, Invariance, PTL

\* No two records of one source are merged automatically.
THEOREM SeparationCorrect == Spec => []OneRecordPerSource
<1>1. IInv => OneRecordPerSource
  BY DEF IInv, Good, OneRecordPerSource, Rows
<1> QED BY <1>1, Invariance, PTL

\* Contradicting serial numbers or asset tags on a device have a cause that is
\* on record.
THEOREM ConflictsCorrect == Spec => []ConflictsExplained
<1>1. IInv => ConflictsExplained
  BY DEF IInv, Good, ConflictsExplained, Rows
<1> QED BY <1>1, Invariance, PTL

\* The confidence of a device is the maximum over its links.
THEOREM ConfidenceCorrect == Spec => []ConfidenceIsStrongest
<1>1. IInv => ConfidenceIsStrongest
  BY DEF IInv, Good, ConfidenceIsStrongest, Rows
<1> QED BY <1>1, Invariance, PTL

-----------------------------------------------------------------------------
(* What a batch does to the links it found *)

\* links2 keeps every link of links, and moves one only by hand.
Keeps(links2, links) ==
    \A k \in DOMAIN links :
        /\ k \in DOMAIN links2
        /\ links[k].manual => links2[k].manual
        /\ links2[k].device # links[k].device => links2[k].manual

\* How many links the batch has added so far.
Growth ==
    /\ IsFiniteSet(DOMAIN db.links) /\ IsFiniteSet(DOMAIN work.links)
    /\ Cardinality(DOMAIN db.links) <= MaxLinks + MaxBatch
    /\ pc = "batch" => Cardinality(DOMAIN work.links) <= MaxLinks + count

BatchInv == Growth /\ (pc = "batch" => Keeps(work.links, db.links))

\* Every step of a batch keeps the links, and adds at most the one of k.
LEMMA StepKeeps ==
    ASSUME IInv, NEW k \in Key, NEW ids \in Identifiers,
           \/ RefreshExisting(k, ids)
           \/ JoinDevice(k, ids)
           \/ CreateDevice(k, ids)
           \/ \E d \in DOMAIN work.devices : MapNew(k, ids, d) \/ MapExisting(k, ids, d)
    PROVE  /\ \/ DOMAIN work'.links = DOMAIN work.links
              \/ DOMAIN work'.links = DOMAIN work.links \cup {k}
           /\ Keeps(work'.links, work.links)
           /\ Observe /\ UNCHANGED <<db, pc>>
<1>1. DOMAIN work.links \subseteq Key /\ work.links \in [DOMAIN work.links -> Link]
  BY DEF IInv, Good, RowsOK
<1>2. CASE RefreshExisting(k, ids)
  <2>1. k \in DOMAIN work.links /\ work'.links = Refreshed(work.links, k, ids)
    BY <1>2 DEF RefreshExisting
  <2>2. LET links2 == Refreshed(work.links, k, ids) IN
          /\ DOMAIN links2 = DOMAIN work.links
          /\ \A j \in DOMAIN work.links \ {k} : links2[j] = work.links[j]
          /\ links2[k].device = work.links[k].device
          /\ links2[k].manual = work.links[k].manual
    BY <1>1, <2>1, RefreshedFacts
  <2>3. Observe /\ UNCHANGED <<db, pc>>
    BY <1>2 DEF RefreshExisting
  <2> QED BY <2>1, <2>2, <2>3 DEF Keeps
<1>3. CASE JoinDevice(k, ids) \/ CreateDevice(k, ids)
            \/ \E d \in DOMAIN work.devices : MapNew(k, ids, d)
  <2>1. PICK devs, d, c, manual : InsertLink(k, ids, devs, d, c, manual)
    BY <1>3 DEF JoinDevice, CreateDevice, MapNew
  <2>2. Observe /\ UNCHANGED <<db, pc>> /\ k \notin DOMAIN work.links
    BY <1>3 DEF JoinDevice, CreateDevice, MapNew, InsertLink
  <2>3. /\ DOMAIN work'.links = DOMAIN work.links \cup {k}
        /\ \A j \in DOMAIN work.links : work'.links[j] = work.links[j]
    BY <2>1, <2>2 DEF InsertLink, WithLink
  <2> QED BY <2>2, <2>3 DEF Keeps
<1>4. CASE \E d \in DOMAIN work.devices : MapExisting(k, ids, d)
  <2>0. PICK d \in DOMAIN work.devices : MapExisting(k, ids, d)
    BY <1>4
  <2>1. /\ k \in DOMAIN work.links
        /\ work'.links = [work.links EXCEPT ![k] = NewLink(d, ids, 100, TRUE)]
    BY <2>0 DEF MapExisting
  <2>2. Observe /\ UNCHANGED <<db, pc>>
    BY <1>4 DEF MapExisting
  <2>3. /\ DOMAIN work'.links = DOMAIN work.links
        /\ work'.links[k].manual
        /\ \A j \in DOMAIN work.links \ {k} : work'.links[j] = work.links[j]
    BY <1>1, <2>1 DEF NewLink
  <2> QED BY <2>2, <2>3 DEF Keeps
<1> QED BY <1>2, <1>3, <1>4

\* Keeping links composes.
LEMMA KeepsTransitive ==
    ASSUME NEW links1, NEW links2, NEW links3,
           Keeps(links2, links1), Keeps(links3, links2)
    PROVE  Keeps(links3, links1)
<1> SUFFICES ASSUME NEW k \in DOMAIN links1
             PROVE  /\ k \in DOMAIN links3
                    /\ links1[k].manual => links3[k].manual
                    /\ links3[k].device # links1[k].device => links3[k].manual
  BY DEF Keeps
<1> QED BY DEF Keeps

\* BatchInv holds initially.
LEMMA InitBatchInv == Init => BatchInv
<1> SUFFICES ASSUME Init PROVE BatchInv
  OBVIOUS
<1>1. DOMAIN db.links = {} /\ DOMAIN work.links = {} /\ pc = "idle"
  BY DEF Init
<1> QED BY <1>1, FS_EmptySet, BoundsAssumption DEF BatchInv, Growth

\* Every step keeps BatchInv, given IInv.
LEMMA NextBatchInv == IInv /\ BatchInv /\ [Next]_vars => BatchInv'
<1> SUFFICES ASSUME IInv, BatchInv, [Next]_vars PROVE BatchInv'
  OBVIOUS
<1>0. count \in 0 .. MaxBatch /\ MaxBatch \in Nat /\ MaxLinks \in Nat
  BY BoundsAssumption DEF IInv, RestOK
<1>1. CASE LoadState
  <2>1. Keeps(db.links, db.links)
    BY DEF Keeps
  <2> QED BY <1>0, <1>1, <2>1 DEF LoadState, BatchInv, Growth
<1>2. ASSUME NEW k \in Key, NEW ids \in Evidence[k[1]],
             \/ RefreshExisting(k, ids)
             \/ JoinDevice(k, ids)
             \/ CreateDevice(k, ids)
             \/ \E d \in DOMAIN work.devices : MapNew(k, ids, d) \/ MapExisting(k, ids, d)
      PROVE  BatchInv'
  <2>1. /\ \/ DOMAIN work'.links = DOMAIN work.links
           \/ DOMAIN work'.links = DOMAIN work.links \cup {k}
        /\ Keeps(work'.links, work.links)
        /\ Observe /\ UNCHANGED <<db, pc>>
    BY <1>2, EvidenceType, StepKeeps
  <2>2. Keeps(work'.links, db'.links)
    BY <2>1, KeepsTransitive DEF BatchInv, Observe
  <2>3. /\ IsFiniteSet(DOMAIN work'.links)
        /\ Cardinality(DOMAIN work'.links) <= Cardinality(DOMAIN work.links) + 1
        /\ Cardinality(DOMAIN work.links) \in Nat
        /\ Cardinality(DOMAIN work'.links) \in Nat
    <3>1. IsFiniteSet(DOMAIN work.links) /\ Cardinality(DOMAIN work.links) \in Nat
      BY FS_CardinalityType DEF BatchInv, Growth
    <3>2. /\ IsFiniteSet(DOMAIN work.links \cup {k})
          /\ \/ Cardinality(DOMAIN work.links \cup {k}) = Cardinality(DOMAIN work.links)
             \/ Cardinality(DOMAIN work.links \cup {k}) = Cardinality(DOMAIN work.links) + 1
      BY <3>1, FS_AddElement
    <3>3. CASE DOMAIN work'.links = DOMAIN work.links
      BY <3>1, <3>3
    <3>4. CASE DOMAIN work'.links = DOMAIN work.links \cup {k}
      BY <3>1, <3>2, <3>4
    <3> QED BY <2>1, <3>3, <3>4
  <2>4. Cardinality(DOMAIN work'.links) <= MaxLinks + count'
    BY <1>0, <2>1, <2>3 DEF BatchInv, Growth, Observe
  <2> QED BY <2>1, <2>2, <2>3, <2>4 DEF BatchInv, Growth
<1>3. CASE Commit \/ Rollback
  <2>1. pc' = "idle" /\ (db' = work \/ db' = db) /\ work' = db' /\ pc = "batch"
    BY <1>3 DEF Commit, Rollback, EndBatch
  <2>2. Cardinality(DOMAIN work.links) \in Nat
    BY FS_CardinalityType DEF BatchInv, Growth
  <2>3. Cardinality(DOMAIN db'.links) <= MaxLinks + MaxBatch
    BY <1>0, <2>1, <2>2 DEF BatchInv, Growth
  <2>4. IsFiniteSet(DOMAIN db'.links)
    BY <2>1 DEF BatchInv, Growth
  <2> QED BY <2>1, <2>3, <2>4 DEF BatchInv, Growth
<1>4. CASE UNCHANGED vars
  BY <1>4 DEF vars, BatchInv, Growth
<1> QED BY <1>1, <1>2, <1>3, <1>4 DEF Next

\* BatchInv holds in every state.
LEMMA BatchInvariance == Spec => []BatchInv
BY InitBatchInv, NextBatchInv, Invariance, PTL, InitInv, NextInv DEF Spec

\* The table of links outgrows its limit by at most one batch.
THEOREM CapacityCorrect == Spec => []StoreBounded
<1>1. BatchInv => StoreBounded
  BY DEF BatchInv, Growth, StoreBounded
<1> QED BY <1>1, BatchInvariance, PTL

\* A committed link never disappears, never turns automatic again, and moves
\* only by hand.
THEOREM StabilityCorrect == Spec => LinksAreStable
<1> DEFINE Stable == \A k \in DOMAIN db.links :
            /\ k \in DOMAIN db'.links
            /\ db.links[k].manual => db'.links[k].manual
            /\ db'.links[k].device # db.links[k].device => db'.links[k].manual
<1>1. IInv /\ BatchInv /\ [Next]_vars => [Stable]_vars
  <2> SUFFICES ASSUME IInv, BatchInv, Next PROVE Stable \/ UNCHANGED vars
    BY DEF vars
  <2>1. CASE Commit
    BY <2>1 DEF Commit, EndBatch, BatchInv, Keeps
  <2>2. CASE UNCHANGED db
    BY <2>2
  <2>3. Commit \/ UNCHANGED db
    <3>1. LoadState \/ Rollback => UNCHANGED db
      BY DEF LoadState, Rollback
    <3>2. ASSUME NEW k \in Key, NEW ids \in Evidence[k[1]],
                 \/ RefreshExisting(k, ids)
                 \/ JoinDevice(k, ids)
                 \/ CreateDevice(k, ids)
                 \/ \E d \in DOMAIN work.devices : MapNew(k, ids, d) \/ MapExisting(k, ids, d)
          PROVE  UNCHANGED db
      BY <3>2, EvidenceType, StepKeeps
    <3> QED BY <3>1, <3>2 DEF Next
  <2> QED BY <2>1, <2>2, <2>3
<1> QED BY <1>1, Invariance, BatchInvariance, PTL DEF Spec, LinksAreStable
=============================================================================
