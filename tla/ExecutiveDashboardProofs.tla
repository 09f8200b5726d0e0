----------------------- MODULE ExecutiveDashboardProofs -----------------------
(***************************************************************************)
(* Proofs about one request for the executive dashboard: its types, that  *)
(* a source it shows as healthy was fine meanwhile, and that its ticket    *)
(* numbers fit together when nothing was committed meanwhile.              *)
(***************************************************************************)
EXTENDS ExecutiveDashboard, TLAPS, FiniteSetTheorems

Latest == {"none", "running", "failed", "success"}
Run == [latest : Latest, success : Nat, old : BOOLEAN]
Seen == [success : Nat, old : BOOLEAN, row : Nat, latest : Latest,
         rows : Nat, eligible : Nat, met : Nat, open : Nat]

\* Counting gives a number, and counting fewer kinds does not give more.
LEMMA CountFacts ==
    ASSUME DOMAIN tickets \subseteq Ticket
    PROVE  /\ \A K : Count(K) \in Nat
           /\ \A K, L : K \subseteq L => Count(K) <= Count(L)
           /\ \A K, L, M : K \cap L = {} /\ K \cup L \subseteq M => Count(K) + Count(L) <= Count(M)
<1> DEFINE Of(K) == {t \in DOMAIN tickets : tickets[t] \in K}
<1>1. IsFiniteSet(DOMAIN tickets)
  BY TicketsAssumption, FS_Subset
<1>2. ASSUME NEW K PROVE IsFiniteSet(Of(K)) /\ Count(K) \in Nat
  <2>1. IsFiniteSet(Of(K))
    BY <1>1, FS_Subset
  <2> QED BY <2>1, FS_CardinalityType DEF Count
<1>3. ASSUME NEW K, NEW L, K \subseteq L PROVE Count(K) <= Count(L)
  <2>1. Of(K) \subseteq Of(L)
    BY <1>3
  <2> QED BY <2>1, <1>2, FS_Subset DEF Count
<1>4. ASSUME NEW K, NEW L, NEW M, K \cap L = {}, K \cup L \subseteq M
      PROVE  Count(K) + Count(L) <= Count(M)
  <2>1. Of(K) \cap Of(L) = {} /\ Of(K) \cup Of(L) = Of(K \cup L)
    BY <1>4
  <2>2. Count(K \cup L) = Count(K) + Count(L)
    <3>1. Cardinality(Of(K) \cup Of(L))
            = Cardinality(Of(K)) + Cardinality(Of(L)) - Cardinality(Of(K) \cap Of(L))
      BY <1>2, FS_Union
    <3>2. Cardinality(Of(K) \cap Of(L)) = 0
      BY <2>1, FS_EmptySet
    <3> HIDE DEF Of
    <3>3. Count(K) = Cardinality(Of(K)) /\ Count(L) = Cardinality(Of(L))
          /\ Count(K \cup L) = Cardinality(Of(K \cup L))
      BY DEF Count, Of
    <3> QED BY <2>1, <3>1, <3>2, <3>3, <1>2
  <2>3. Count(K \cup L) <= Count(M)
    BY <1>3, <1>4
  <2> QED BY <1>2, <2>2, <2>3
<1> QED BY <1>2, <1>3, <1>4

-----------------------------------------------------------------------------
(* Types *)

\* The initial variables have their types.
LEMMA TypeInit == Init => TypeOK
<1> SUFFICES ASSUME Init PROVE TypeOK
  OBVIOUS
<1>1. DOMAIN shown = {}
  BY DEF Init
<1>2. runs \in [Stored -> Run]
  <2>1. \A r \in EarlierRuns : r \in Run
    BY DEF EarlierRuns, Run, Latest
  <2> QED BY <2>1 DEF Init
<1>3. seen \in Seen
  BY DEF Init, NothingSeen, Seen, Latest
<1>4. DOMAIN tickets \subseteq Ticket /\ \A t \in DOMAIN tickets : tickets[t] \in Kind
  BY DEF Init
<1> QED BY <1>1, <1>2, <1>3, <1>4 DEF Init, TypeOK, Run, Seen, Latest

\* A health that is shown is one of the four states.
LEMMA HealthIsStatus == \A s, number : Health(s, number) \in Status
BY DEF Health, Status

\* Every step of the request belongs to a stored source.
LEMMA OwnerIsStored == \A step : Owner(step) \in Stored
BY DEF Owner, Stored

\* Showing one more source keeps the type of the answer.
LEMMA ShowTyped ==
    ASSUME TypeOK, NEW s \in Source, NEW status \in Status, Show(s, status)
    PROVE  DOMAIN shown' \subseteq Source /\ \A t \in DOMAIN shown' : shown'[t] \in Status
BY DEF TypeOK, Show

\* What a source's runs become keeps their type.
LEMMA RunsTyped ==
    ASSUME TypeOK, NEW s \in Stored,
           \/ runs' = [runs EXCEPT ![s].latest = "running"]
           \/ runs' = [runs EXCEPT ![s].latest = "failed"]
           \/ runs' = [runs EXCEPT ![s].old = TRUE]
           \/ runs' = [runs EXCEPT ![s] =
                    [latest |-> "success", success |-> runs[s].success + 1, old |-> FALSE]]
    PROVE  runs' \in [Stored -> Run]
<1>1. runs \in [Stored -> Run]
  BY DEF TypeOK, Run, Latest
<1>2. runs[s] \in Run
  BY <1>1
<1>3. /\ [runs[s] EXCEPT !.latest = "running"] \in Run
      /\ [runs[s] EXCEPT !.latest = "failed"] \in Run
      /\ [runs[s] EXCEPT !.old = TRUE] \in Run
  BY <1>2 DEF Run, Latest
<1>4. [latest |-> "success", success |-> runs[s].success + 1, old |-> FALSE] \in Run
  BY <1>2 DEF Run, Latest
<1> QED BY <1>1, <1>3, <1>4

\* A commit of the worker keeps the types if what it stores has them.
LEMMA CommitTyped ==
    ASSUME TypeOK, Commits,
           runs' \in [Stored -> Run],
           DOMAIN tickets' \subseteq Ticket,
           \A t \in DOMAIN tickets' : tickets'[t] \in Kind
    PROVE  TypeOK'
<1>1. fineSince' \subseteq Stored
  BY DEF TypeOK, Commits
<1>2. commits' \in Nat /\ disturbed' \in BOOLEAN
  BY DEF TypeOK, Commits
<1>3. UNCHANGED <<configured, pc, aborted, seen, shown, faults>>
  BY DEF Commits
<1> QED BY <1>1, <1>2, <1>3 DEF TypeOK, Run, Latest

\* Every step keeps the types.
LEMMA TypeStep == TypeOK /\ [Next]_vars => TypeOK'
<1> SUFFICES ASSUME TypeOK, [Next]_vars PROVE TypeOK'
  OBVIOUS
<1> USE DEF vars, stored, request
<1>1. runs \in [Stored -> Run] /\ seen \in Seen
  BY DEF TypeOK, Run, Seen, Latest
<1>2. ASSUME NEW s \in Stored, RunStarts(s) \/ RunFails(s) \/ SyncZabbixOrAssets(s) PROVE TypeOK'
  <2>1. UNCHANGED tickets /\ Commits
    BY <1>2 DEF RunStarts, RunFails, SyncZabbixOrAssets
  <2>2. runs' \in [Stored -> Run]
    BY <1>2, RunsTyped DEF RunStarts, RunFails, SyncZabbixOrAssets, Succeeded
  <2> QED BY <2>1, <2>2, CommitTyped DEF TypeOK
<1>3. ASSUME NEW s \in Stored, GrowsOld(s) PROVE TypeOK'
  <2>1. runs' \in [Stored -> Run]
    BY <1>3, RunsTyped DEF GrowsOld
  <2> QED BY <1>3, <2>1 DEF GrowsOld, TypeOK, Run, Latest
<1>4. CASE SyncTickets
  <2>1. PICK listed \in SUBSET Ticket : \E kinds \in [listed -> Kind] :
            tickets' = [t \in DOMAIN tickets \cup listed |->
                            IF t \in listed THEN kinds[t] ELSE tickets[t]]
    BY <1>4 DEF SyncTickets
  <2>2. DOMAIN tickets' \subseteq Ticket /\ \A t \in DOMAIN tickets' : tickets'[t] \in Kind
    BY <2>1 DEF TypeOK
  <2>3. runs' \in [Stored -> Run]
    BY <1>4, RunsTyped DEF SyncTickets, Succeeded, Stored
  <2> QED BY <1>4, <2>2, <2>3, CommitTyped DEF SyncTickets
<1>5. CASE Begin
  <2>1. DOMAIN shown' = {} /\ fineSince' = {} /\ seen' \in Seen
    BY <1>5 DEF Begin, NothingSeen, Seen, Latest
  <2> QED BY <1>5, <2>1 DEF Begin, TypeOK, Seen, Latest
<1>6. CASE AskWazuh
  <2>1. PICK status \in Status : Show("wazuh", status)
    BY <1>6 DEF AskWazuh, Status
  <2>2. DOMAIN shown' \subseteq Source /\ \A t \in DOMAIN shown' : shown'[t] \in Status
    BY <2>1, ShowTyped DEF Source
  <2>3. faults' \in Nat
    BY <1>6 DEF AskWazuh, TypeOK
  <2> QED BY <1>6, <2>2, <2>3 DEF AskWazuh, Following, TypeOK
<1>7. CASE ReadClock
  <2>1. seen' \in Seen
    <3>1. runs[Owner(pc)] \in Run
      BY <1>1, OwnerIsStored
    <3> QED BY <1>7, <3>1 DEF ReadClock, NothingSeen, Seen, Run, Latest
  <2>2. fineSince' \subseteq Stored
    BY <1>7, OwnerIsStored DEF ReadClock, TypeOK
  <2>3. pc' \in DOMAIN Following
    BY <1>7 DEF ReadClock, Following, Clock
  <2> QED BY <1>7, <2>1, <2>2, <2>3 DEF ReadClock, TypeOK, Seen, Latest
<1>8. CASE QueryFails
  <2>1. Show(Owner(pc), "unavailable")
    BY <1>8 DEF QueryFails, Unavailable
  <2>2. DOMAIN shown' \subseteq Source /\ \A t \in DOMAIN shown' : shown'[t] \in Status
    BY <2>1, OwnerIsStored, ShowTyped DEF Source, Status
  <2>3. pc' \in {"idle"} \cup DOMAIN Following
    BY <1>8 DEF QueryFails, AfterSource, Following
  <2>4. faults' \in Nat /\ seen' \in Seen
    BY <1>8 DEF QueryFails, NothingSeen, TypeOK, Seen, Latest
  <2> QED BY <1>8, <2>2, <2>3, <2>4 DEF QueryFails, TypeOK, Seen, Latest
<1>9. CASE RowOfNoUse \/ ReadZabbixSuccess \/ ReadAssetSuccess \/ ReadTicketSuccess
  <2>1. PICK s \in Stored : \E status \in Status : Show(s, status)
    BY <1>9, HealthIsStatus
    DEF RowOfNoUse, ReadZabbixSuccess, ReadAssetSuccess, ReadTicketSuccess, Stored, Status
  <2>2. DOMAIN shown' \subseteq Source /\ \A t \in DOMAIN shown' : shown'[t] \in Status
    BY <2>1, ShowTyped DEF Source
  <2>3. pc' \in DOMAIN Following
    BY <1>9 DEF RowOfNoUse, ReadZabbixSuccess, ReadAssetSuccess, ReadTicketSuccess,
                Reads, AfterSource, Following
  <2> QED BY <1>9, <2>2, <2>3
      DEF RowOfNoUse, ReadZabbixSuccess, ReadAssetSuccess, ReadTicketSuccess,
          Reads, Succeeds, TypeOK
<1>10. CASE ReadRow \/ ReadZabbixRun \/ ReadAssets \/ ReadAssetRun \/ ReadTicketRun
  <2>1. \A s \in Stored : runs[s].latest \in Latest /\ runs[s].success \in Nat
    BY <1>1 DEF Run
  <2>2. seen' \in Seen /\ shown' = shown
    BY <1>1, <1>10, <2>1 DEF ReadRow, ReadZabbixRun, ReadAssets, ReadAssetRun, ReadTicketRun,
                             Remember, Seen, Stored
  <2>3. pc' \in DOMAIN Following
    BY <1>10 DEF ReadRow, ReadZabbixRun, ReadAssets, ReadAssetRun, ReadTicketRun, Reads, Following
  <2> QED BY <1>10, <2>2, <2>3
      DEF ReadRow, ReadZabbixRun, ReadAssets, ReadAssetRun, ReadTicketRun,
          Reads, Succeeds, TypeOK, Seen, Latest
<1>11. CASE ReadTotal \/ ReadEligible \/ ReadMet \/ ReadOpen
  <2>1. \A K : Count(K) \in Nat
    BY CountFacts DEF TypeOK
  <2>2. seen' \in Seen /\ shown' = shown
    BY <1>1, <1>11, <2>1 DEF ReadTotal, ReadEligible, ReadMet, ReadOpen, Remember, Seen
  <2>3. pc' \in {"idle"} \cup DOMAIN Following
    BY <1>11 DEF ReadTotal, ReadEligible, ReadMet, ReadOpen, Reads, Following
  <2> QED BY <1>11, <2>2, <2>3
      DEF ReadTotal, ReadEligible, ReadMet, ReadOpen, Reads, Succeeds, TypeOK, Seen, Latest
<1>12. CASE UNCHANGED vars
  BY <1>12 DEF TypeOK
<1> QED BY <1>2, <1>3, <1>4, <1>5, <1>6, <1>7, <1>8, <1>9, <1>10, <1>11, <1>12 DEF Next

\* The variables of the request, the stored data and the history keep their
\* types (executive_dashboard/service.py, get_dashboard).
THEOREM TypeCorrect == Spec => []TypeOK
BY TypeInit, TypeStep, PTL DEF Spec

-----------------------------------------------------------------------------
(* Health *)

\* Since the clock was read for s: if s is fine, that has been noted, and a
\* success committed since was noted, for then s was fine.
Noted(s) ==
    /\ FineByClock(s) => s \in fineSince
    /\ runs[s].success >= seen.success
    /\ runs[s].success # seen.success => s \in fineSince

\* With the newest run read before, the success of this number makes s healthy
\* only if s was fine.
Warranted(s, number) ==
    seen.latest # "failed" /\ s \in configured /\ number # 0 /\ ~OldByClock(number)
        => s \in fineSince

\* A source is fine when its newest run is read, or becomes so by a success
\* committed before the next query.
HealthInv ==
    /\ HealthyWasTrue
    /\ pc \in Query => Noted(Owner(pc))
    /\ pc \in {"zabbixRun", "zabbixSuccess"} =>
        seen.row # 0 /\ (seen.row # seen.success => "zabbix" \in fineSince)
    /\ pc = "zabbixSuccess" => Warranted("zabbix", seen.row)
    /\ pc = "assetSuccess" => Warranted("snipe_it", runs["snipe_it"].success)
    /\ pc = "ticketSuccess" => Warranted("freshservice", runs["freshservice"].success)

\* What the steps that read are, and whose.
LEMMA Steps ==
    /\ Query = {"row", "zabbixRun", "zabbixSuccess", "assets", "assetRun", "assetSuccess",
                "total", "ticketRun", "ticketSuccess", "eligible", "met", "open"}
    /\ \A q \in {"row", "zabbixRun", "zabbixSuccess"} : Owner(q) = "zabbix"
    /\ \A q \in {"assets", "assetRun", "assetSuccess"} : Owner(q) = "snipe_it"
    /\ \A q \in {"total", "ticketRun", "ticketSuccess", "eligible", "met", "open"} :
        Owner(q) = "freshservice"
BY DEF Query, Following, Clock, Owner

\* What a commit does to the runs of a source: its newest success stays, or is
\* the one it has just made.
MovesOn(s) ==
    \/ runs'[s].success = runs[s].success
    \/ runs'[s].success = runs[s].success + 1 /\ runs'[s].latest = "success" /\ s \in configured

\* A success committed after the clock was read leaves its source fine.
LEMMA SuccessIsFine ==
    ASSUME TypeOK, NEW s \in Stored, UNCHANGED <<configured, seen>>,
           runs[s].success >= seen.success, MovesOn(s), runs'[s].success # runs[s].success
    PROVE  FineByClock(s)' /\ runs'[s].success > seen.success
<1>1. runs[s].success \in Nat /\ seen.success \in Nat
  BY DEF TypeOK
<1>2. /\ runs'[s].success = runs[s].success + 1
      /\ runs'[s].latest = "success" /\ s \in configured
  BY DEF MovesOn
<1>3. runs'[s].success > seen.success /\ runs'[s].success # 0
  BY <1>1, <1>2
<1>4. ~OldByClock(runs[s].success)'
  BY <1>1, <1>3 DEF OldByClock
<1> QED BY <1>2, <1>3, <1>4 DEF FineByClock

\* A commit keeps the invariant.
LEMMA CommitHealth ==
    ASSUME TypeOK, HealthInv, Commits, \A s \in Stored : MovesOn(s)
    PROVE  HealthInv'
<1>1. /\ fineSince' = fineSince \cup {s \in Stored : pc \in Query /\ s = Owner(pc) /\ FineByClock(s)'}
      /\ UNCHANGED <<configured, pc, seen, shown>>
  BY DEF Commits
<1>2. HealthyWasTrue'
  BY <1>1 DEF HealthInv, HealthyWasTrue
<1>3. ASSUME pc \in Query, NEW s, s = Owner(pc)
      PROVE  Noted(s)' /\ (runs'[s].success # runs[s].success => s \in fineSince')
  <2>1. s \in Stored /\ Noted(s)
    BY <1>3, OwnerIsStored DEF HealthInv
  <2>2. FineByClock(s)' => s \in fineSince'
    BY <1>1, <1>3, <2>1
  <2>3. runs[s].success \in Nat /\ seen.success \in Nat /\ runs[s].success >= seen.success
    BY <2>1 DEF TypeOK, Noted
  <2>4. CASE runs'[s].success = runs[s].success
    BY <1>1, <2>1, <2>2, <2>3, <2>4 DEF Noted
  <2>5. CASE runs'[s].success # runs[s].success
    <3>1. FineByClock(s)' /\ runs'[s].success > seen.success
      BY <1>1, <2>1, <2>3, <2>5, SuccessIsFine
    <3>2. s \in fineSince' /\ runs'[s].success >= seen.success
      <4>1. runs'[s].success \in Nat
        BY <2>1, <2>3 DEF MovesOn
      <4> QED BY <2>2, <2>3, <3>1, <4>1
    <3> QED BY <1>1, <3>2 DEF Noted
  <2> QED BY <2>4, <2>5
<1>4. ASSUME pc \in Query, NEW s, s = Owner(pc), Warranted(s, runs[s].success)
      PROVE  Warranted(s, runs[s].success)'
  <2>1. CASE runs'[s].success = runs[s].success
    BY <1>1, <1>4, <2>1 DEF Warranted, OldByClock
  <2>2. CASE runs'[s].success # runs[s].success
    BY <1>3, <1>4, <2>2 DEF Warranted
  <2> QED BY <2>1, <2>2
<1>5. pc = "zabbixSuccess" => Warranted("zabbix", seen.row)'
  BY <1>1 DEF HealthInv, Warranted, OldByClock
<1>6. /\ pc = "assetSuccess" => Warranted("snipe_it", runs["snipe_it"].success)'
      /\ pc = "ticketSuccess" => Warranted("freshservice", runs["freshservice"].success)'
  BY <1>4, Steps DEF HealthInv
<1>7. pc \in Query => Noted(Owner(pc))'
  BY <1>1, <1>3
<1>8. pc \in {"zabbixRun", "zabbixSuccess"} =>
        seen'.row # 0 /\ (seen'.row # seen'.success => "zabbix" \in fineSince')
  BY <1>1 DEF HealthInv
<1> QED BY <1>1, <1>2, <1>5, <1>6, <1>7, <1>8 DEF HealthInv

\* Time alone keeps the invariant: it judges age by the clock read before.
LEMMA TimeHealth ==
    ASSUME TypeOK, HealthInv, UNCHANGED <<configured, request>>,
           \A s \in Stored : runs'[s].latest = runs[s].latest /\ runs'[s].success = runs[s].success
    PROVE  HealthInv'
<1> USE DEF request
<1>1. HealthyWasTrue'
  BY DEF HealthInv, HealthyWasTrue
<1>2. ASSUME NEW s \in Stored
      PROVE  /\ Noted(s)' <=> Noted(s)
             /\ Warranted(s, runs[s].success)' <=> Warranted(s, runs[s].success)
  <2>1. FineByClock(s)' <=> FineByClock(s)
    BY DEF FineByClock, OldByClock
  <2> QED BY <2>1 DEF Noted, Warranted, OldByClock
<1>3. pc \in Query => Noted(Owner(pc))'
  BY <1>2, OwnerIsStored DEF HealthInv
<1>4. Warranted("zabbix", seen.row)' <=> Warranted("zabbix", seen.row)
  BY DEF Warranted, OldByClock
<1> QED BY <1>1, <1>2, <1>3, <1>4 DEF HealthInv, Stored

\* The invariant holds initially: nothing is shown.
LEMMA HealthInit == Init => HealthInv
<1> SUFFICES ASSUME Init PROVE HealthInv
  OBVIOUS
<1>1. DOMAIN shown = {}
  BY DEF Init
<1> QED BY <1>1, Steps DEF Init, HealthInv, HealthyWasTrue

\* A query that only remembers what it reads keeps what was noted.
LEMMA RememberKeepsNoted ==
    ASSUME TypeOK, NEW s \in Stored, Noted(s), UNCHANGED <<stored, fineSince>>,
           seen'.success = seen.success, seen'.old = seen.old
    PROVE  Noted(s)'
<1>1. FineByClock(s)' <=> FineByClock(s)
  BY DEF FineByClock, OldByClock, stored
<1> QED BY <1>1 DEF Noted, stored

\* With the newest run read now, no success but a warranted one can follow.
LEMMA RunReadWarrants ==
    ASSUME TypeOK, NEW s \in Stored, Noted(s), UNCHANGED <<stored, fineSince>>,
           Remember("latest", runs[s].latest),
           NEW number, number # seen.success => s \in fineSince
    PROVE  Warranted(s, number)'
<1>1. /\ seen'.latest = runs[s].latest
      /\ seen'.success = seen.success /\ seen'.old = seen.old
      /\ UNCHANGED <<runs, configured>>
  BY DEF Remember, TypeOK, stored
<1>2. SUFFICES ASSUME runs[s].latest # "failed", s \in configured, number # 0,
                      number = seen.success, ~seen.old, runs[s].success = seen.success
               PROVE  s \in fineSince
  BY <1>1 DEF Warranted, OldByClock, Noted
<1>3. FineByClock(s)
  BY <1>2 DEF FineByClock, OldByClock
<1> QED BY <1>3 DEF Noted

\* Every step keeps the invariant.
LEMMA HealthStep == TypeOK /\ HealthInv /\ [Next]_vars => HealthInv'
<1> SUFFICES ASSUME TypeOK, HealthInv, [Next]_vars PROVE HealthInv'
  OBVIOUS
<1>0. \A s \in Stored : runs[s].success \in Nat
  BY DEF TypeOK
<1>1. ASSUME NEW s \in Stored, RunStarts(s) \/ RunFails(s) \/ SyncZabbixOrAssets(s) PROVE HealthInv'
  <2>1. Commits /\ \A t \in Stored : MovesOn(t)
    BY <1>1 DEF RunStarts, RunFails, SyncZabbixOrAssets, Succeeded, MovesOn, TypeOK
  <2> QED BY <2>1, CommitHealth
<1>2. CASE SyncTickets
  <2>1. Commits /\ \A t \in Stored : MovesOn(t)
    BY <1>2 DEF SyncTickets, Succeeded, MovesOn, TypeOK
  <2> QED BY <2>1, CommitHealth
<1>3. ASSUME NEW s \in Stored, GrowsOld(s) PROVE HealthInv'
  <2>1. \A t \in Stored : runs'[t].latest = runs[t].latest /\ runs'[t].success = runs[t].success
    BY <1>3 DEF GrowsOld, TypeOK
  <2> QED BY <1>3, <2>1, TimeHealth DEF GrowsOld
<1>4. CASE Begin
  <2>1. DOMAIN shown' = {} /\ pc' = "wazuh"
    BY <1>4 DEF Begin
  <2> QED BY <2>1, Steps DEF HealthInv, HealthyWasTrue
\* Showing a source as healthy that was fine keeps the first conjunct.
<1>5. ASSUME NEW s, NEW status, Show(s, status), UNCHANGED fineSince,
             status = "healthy" => s = "wazuh" \/ s \in fineSince
      PROVE  HealthyWasTrue'
  BY <1>5 DEF Show, HealthInv, HealthyWasTrue
<1>6. CASE AskWazuh
  <2>1. HealthyWasTrue' /\ pc' = "zabbixClock"
    BY <1>5, <1>6 DEF AskWazuh
  <2> QED BY <2>1, Steps DEF HealthInv
<1>7. CASE ReadClock
  <2>1. /\ pc \in Clock /\ pc' = Following[pc] /\ UNCHANGED <<stored, shown>>
        /\ seen' = [NothingSeen EXCEPT !.success = runs[Owner(pc)].success,
                                      !.old = runs[Owner(pc)].old]
        /\ fineSince' = fineSince \cup {t \in {Owner(pc)} : FineByClock(t)'}
    BY <1>7 DEF ReadClock
  <2>2. HealthyWasTrue'
    BY <2>1 DEF HealthInv, HealthyWasTrue
  <2>3. pc' \in {"row", "assets", "total"} /\ Owner(pc') = Owner(pc)
    BY <2>1 DEF Following, Clock, Owner
  <2>4. Noted(Owner(pc))'
    <3>1. PICK s \in Stored : s = Owner(pc)
      BY OwnerIsStored
    <3>2. runs'[s].success = runs[s].success /\ seen'.success = runs[s].success
      BY <2>1, <3>1 DEF stored, NothingSeen
    <3>3. FineByClock(s)' => s \in fineSince'
      BY <2>1, <3>1
    <3>4. Noted(s)'
      BY <1>0, <3>2, <3>3 DEF Noted
    <3> QED BY <2>3, <3>1, <3>4
  <2> QED BY <2>2, <2>3, <2>4 DEF HealthInv
<1>8. CASE QueryFails
  <2>1. Show(Owner(pc), "unavailable") /\ UNCHANGED fineSince
    BY <1>8 DEF QueryFails, Unavailable
  <2>2. HealthyWasTrue'
    BY <1>5, <2>1
  <2>3. pc' \in {"assetClock", "ticketClock", "idle"}
    BY <1>8 DEF QueryFails, AfterSource
  <2> QED BY <2>2, <2>3, Steps DEF HealthInv
<1>9. CASE RowOfNoUse
  <2>1. HealthyWasTrue'
    BY <1>5, <1>9 DEF RowOfNoUse, Succeeds
  <2>2. pc' = "assetClock"
    BY <1>9 DEF RowOfNoUse, AfterSource
  <2> QED BY <2>1, <2>2, Steps DEF HealthInv
<1>10. ASSUME NEW q \in Query, Succeeds(q) PROVE Noted(Owner(q)) /\ UNCHANGED <<stored, fineSince>>
  BY <1>10 DEF Succeeds, HealthInv
<1>11. CASE ReadRow
  <2>1. /\ pc' = "zabbixRun" /\ UNCHANGED <<stored, fineSince, shown>> /\ Noted("zabbix")
        /\ seen'.row = runs["zabbix"].success /\ runs["zabbix"].success # 0
        /\ seen'.success = seen.success /\ seen'.old = seen.old
    BY <1>10, <1>11, Steps DEF ReadRow, Reads, Remember, Following, TypeOK
  <2>2. Noted("zabbix")'
    BY <2>1, RememberKeepsNoted DEF Stored
  <2>3. HealthyWasTrue'
    BY <2>1 DEF HealthInv, HealthyWasTrue
  <2>4. Noted(Owner(pc))'
    BY <2>1, <2>2, Steps
  <2>5. seen'.row # seen'.success => "zabbix" \in fineSince'
    BY <2>1 DEF Noted
  <2> QED BY <2>1, <2>3, <2>4, <2>5 DEF HealthInv
<1>12. CASE ReadZabbixRun
  <2>1. /\ pc = "zabbixRun" /\ pc' = "zabbixSuccess"
        /\ UNCHANGED <<stored, fineSince, shown>> /\ Noted("zabbix")
        /\ Remember("latest", runs["zabbix"].latest)
        /\ seen'.success = seen.success /\ seen'.old = seen.old /\ seen'.row = seen.row
    BY <1>10, <1>12, Steps DEF ReadZabbixRun, Reads, Succeeds, Remember, Following, TypeOK
  <2>2. seen.row # 0 /\ (seen.row # seen.success => "zabbix" \in fineSince)
    BY <2>1 DEF HealthInv
  <2>3. Warranted("zabbix", seen.row)'
    <3>1. ASSUME NEW n, n = seen.row PROVE Warranted("zabbix", n)'
      BY <2>1, <2>2, <3>1, RunReadWarrants DEF Stored
    <3> QED BY <2>1, <3>1 DEF Warranted, OldByClock
  <2>4. Noted(Owner(pc))'
    BY <2>1, RememberKeepsNoted, Steps DEF Stored
  <2>5. HealthyWasTrue'
    BY <2>1 DEF HealthInv, HealthyWasTrue
  <2> QED BY <2>1, <2>2, <2>3, <2>4, <2>5 DEF HealthInv
<1>13. CASE ReadAssetRun \/ ReadTicketRun
  <2>1. PICK s \in {"snipe_it", "freshservice"} :
            /\ Remember("latest", runs[s].latest) /\ Noted(s)
            /\ Owner(pc') = s
            /\ pc' = IF s = "snipe_it" THEN "assetSuccess" ELSE "ticketSuccess"
    BY <1>10, <1>13, Steps DEF ReadAssetRun, ReadTicketRun, Reads, Following
  <2>2. UNCHANGED <<stored, fineSince>>
    BY <1>13 DEF ReadAssetRun, ReadTicketRun, Reads, Succeeds
  <2>3. seen'.success = seen.success /\ seen'.old = seen.old /\ shown' = shown
    BY <2>1 DEF Remember, TypeOK
  <2>4. Warranted(s, runs[s].success)'
    <3>1. ASSUME NEW n, n = runs[s].success PROVE Warranted(s, n)'
      BY <2>1, <2>2, <3>1, RunReadWarrants DEF Stored, Noted
    <3> QED BY <2>2, <3>1 DEF Warranted, OldByClock, stored
  <2>5. Noted(s)'
    BY <2>1, <2>2, <2>3, RememberKeepsNoted DEF Stored
  <2>6. HealthyWasTrue'
    BY <2>2, <2>3 DEF HealthInv, HealthyWasTrue
  <2> QED BY <2>1, <2>4, <2>5, <2>6 DEF HealthInv
<1>14. CASE ReadZabbixSuccess
  <2>1. pc = "zabbixSuccess" /\ pc' = "assetClock" /\ UNCHANGED fineSince
    BY <1>14 DEF ReadZabbixSuccess, Reads, Succeeds, Following
  <2>2. seen.row # 0 /\ Warranted("zabbix", seen.row)
    BY <2>1 DEF HealthInv
  <2>3. HealthyWasTrue'
    BY <1>5, <1>14, <2>1, <2>2 DEF ReadZabbixSuccess, Warranted
  <2> QED BY <2>1, <2>3, Steps DEF HealthInv
\* What Health makes of a warranted success.
<1>15. ASSUME NEW s, NEW number, Warranted(s, number), Health(s, number) = "healthy"
       PROVE  s \in fineSince
  BY <1>15 DEF Health, Warranted
<1>16. CASE ReadAssetSuccess
  <2>1. /\ pc = "assetSuccess" /\ pc' = "ticketClock" /\ UNCHANGED fineSince
        /\ Show("snipe_it", Health("snipe_it", runs["snipe_it"].success))
    BY <1>16 DEF ReadAssetSuccess, Reads, Succeeds, Following
  <2>2. HealthyWasTrue'
    BY <1>5, <1>15, <2>1 DEF HealthInv
  <2> QED BY <2>1, <2>2, Steps DEF HealthInv
\* A step between queries about tickets keeps what was noted.
<1>17. ASSUME pc \in {"assets", "total", "ticketSuccess", "eligible", "met", "open"},
              pc' = Following[pc], Succeeds(pc), HealthyWasTrue',
              seen'.success = seen.success, seen'.old = seen.old
       PROVE  HealthInv'
  <2>1. /\ pc' \in {"assetRun", "ticketRun", "eligible", "met", "open", "idle"}
        /\ pc' # "idle" => Owner(pc') = Owner(pc) /\ pc' \in Query
    BY <1>17, Steps DEF Following
  <2>2. Noted(Owner(pc)) /\ UNCHANGED <<stored, fineSince>>
    BY <1>10, <1>17, Steps
  <2>3. ASSUME NEW s, s = Owner(pc) PROVE Noted(s)'
    BY <1>17, <2>2, <2>3, OwnerIsStored, RememberKeepsNoted
  <2>4. pc' \in Query => Noted(Owner(pc))'
    BY <2>1, <2>3, Steps
  <2> QED BY <1>17, <2>1, <2>4 DEF HealthInv
<1>18. CASE ReadTicketSuccess
  <2>1. /\ pc = "ticketSuccess" /\ UNCHANGED <<fineSince, seen>>
        /\ Show("freshservice", Health("freshservice", runs["freshservice"].success))
        /\ Succeeds(pc) /\ pc' = Following[pc]
    BY <1>18 DEF ReadTicketSuccess, Reads, Succeeds
  <2>2. HealthyWasTrue'
    BY <1>5, <1>15, <2>1 DEF HealthInv
  <2> QED BY <1>17, <2>1, <2>2
<1>19. CASE ReadAssets \/ ReadTotal \/ ReadEligible \/ ReadMet \/ ReadOpen
  <2>1. /\ pc \in {"assets", "total", "eligible", "met", "open"}
        /\ Succeeds(pc) /\ pc' = Following[pc] /\ UNCHANGED shown
        /\ seen'.success = seen.success /\ seen'.old = seen.old
    BY <1>19 DEF ReadAssets, ReadTotal, ReadEligible, ReadMet, ReadOpen, Reads, Succeeds,
                 Remember, TypeOK
  <2>2. HealthyWasTrue'
    BY <2>1 DEF Succeeds, HealthInv, HealthyWasTrue
  <2> QED BY <1>17, <2>1, <2>2
<1>20. CASE UNCHANGED vars
  BY <1>20, TimeHealth DEF vars, stored
<1> QED BY <1>1, <1>2, <1>3, <1>4, <1>6, <1>7, <1>8, <1>9, <1>11, <1>12, <1>13, <1>14,
           <1>16, <1>18, <1>19, <1>20 DEF Next

\* Every stored source shown as healthy was fine at some instant since the clock
\* that its data is judged by was read, however the worker's commits fall
\* between its queries (get_dashboard and _health_state of the three sources).
THEOREM HealthyCorrect == Spec => []HealthyWasTrue
<1>1. HealthInv => HealthyWasTrue
  BY DEF HealthInv
<1> QED BY <1>1, TypeInit, TypeStep, HealthInit, HealthStep, PTL DEF Spec

-----------------------------------------------------------------------------
(* Numbers *)

\* What the counting queries have returned is still so, unless disturbed.
CountInv ==
    ~disturbed =>
        /\ pc \in {"ticketRun", "ticketSuccess", "eligible", "met", "open"} => seen.rows = Count(Kind)
        /\ pc \in {"met", "open"} => seen.eligible = Count({"met", "missed"})
        /\ pc = "open" => seen.met = Count({"met"})
        /\ UndisturbedAddsUp

\* The invariant holds initially: everything is zero.
LEMMA CountInit == Init => CountInv
BY DEF Init, CountInv, UndisturbedAddsUp, NothingSeen

\* Every step keeps the invariant.
LEMMA CountStep == TypeOK /\ CountInv /\ [Next]_vars => CountInv'
<1> SUFFICES ASSUME TypeOK, CountInv, [Next]_vars PROVE CountInv'
  OBVIOUS
<1> USE DEF vars, stored, request
<1>1. CASE Commits
  <2>1. CASE pc = "idle"
    <3>1. UNCHANGED <<pc, seen>> /\ (disturbed' <=> disturbed)
      BY <1>1, <2>1 DEF Commits
    <3> QED BY <2>1, <3>1 DEF CountInv, UndisturbedAddsUp
  <2>2. CASE pc # "idle"
    BY <1>1, <2>2 DEF Commits, CountInv
  <2> QED BY <2>1, <2>2
<1>2. ASSUME UNCHANGED tickets PROVE \A K : Count(K)' = Count(K)
  BY <1>2 DEF Count
<1>3. CASE Begin \/ AskWazuh
  BY <1>3 DEF Begin, AskWazuh, CountInv, UndisturbedAddsUp
<1>12. CASE ReadClock
  <2>1. pc' \in {"row", "assets", "total"}
    BY <1>12 DEF ReadClock, Clock, Following
  <2> QED BY <2>1 DEF CountInv, UndisturbedAddsUp
\* What grows old is no ticket.
<1>13. ASSUME NEW s \in Stored, GrowsOld(s) PROVE CountInv'
  <2>1. UNCHANGED <<tickets, request>>
    BY <1>13 DEF GrowsOld
  <2> QED BY <1>2, <2>1 DEF request, CountInv, UndisturbedAddsUp
<1>4. CASE QueryFails
  <2>1. seen' = NothingSeen /\ pc' \in {"assetClock", "ticketClock", "idle"}
    BY <1>4 DEF QueryFails, AfterSource
  <2> QED BY <2>1 DEF CountInv, UndisturbedAddsUp, NothingSeen
<1>5. CASE RowOfNoUse \/ ReadRow \/ ReadZabbixRun \/ ReadZabbixSuccess
            \/ ReadAssets \/ ReadAssetRun \/ ReadAssetSuccess
  <2>1. pc' \in {"zabbixRun", "zabbixSuccess", "assetClock", "assetRun", "assetSuccess", "ticketClock"}
    BY <1>5 DEF RowOfNoUse, ReadRow, ReadZabbixRun, ReadZabbixSuccess, ReadAssets, ReadAssetRun,
                ReadAssetSuccess, Reads, AfterSource, Following
  <2> QED BY <2>1 DEF CountInv, UndisturbedAddsUp
<1>6. CASE ReadTotal
  <2>1. pc' = "ticketRun" /\ seen'.rows = Count(Kind) /\ UNCHANGED <<tickets, disturbed>>
    BY <1>6 DEF ReadTotal, Reads, Succeeds, Remember, Following, TypeOK
  <2> QED BY <1>2, <2>1 DEF CountInv, UndisturbedAddsUp
<1>7. CASE ReadTicketRun \/ ReadTicketSuccess
  <2>1. /\ pc \in {"ticketRun", "ticketSuccess"} /\ pc' \in {"ticketSuccess", "eligible"}
        /\ seen'.rows = seen.rows /\ UNCHANGED <<tickets, disturbed>>
    BY <1>7 DEF ReadTicketRun, ReadTicketSuccess, Reads, Succeeds, Remember, Following, TypeOK
  <2> QED BY <1>2, <2>1 DEF CountInv, UndisturbedAddsUp
<1>8. CASE ReadEligible
  <2>1. /\ pc = "eligible" /\ pc' = "met" /\ UNCHANGED <<tickets, disturbed>>
        /\ seen'.rows = seen.rows /\ seen'.eligible = Count({"met", "missed"})
    BY <1>8 DEF ReadEligible, Reads, Succeeds, Remember, Following, TypeOK
  <2> QED BY <1>2, <2>1 DEF CountInv, UndisturbedAddsUp
<1>9. CASE ReadMet
  <2>1. /\ pc = "met" /\ pc' = "open" /\ UNCHANGED <<tickets, disturbed>>
        /\ seen'.rows = seen.rows /\ seen'.eligible = seen.eligible /\ seen'.met = Count({"met"})
    BY <1>9 DEF ReadMet, Reads, Succeeds, Remember, Following, TypeOK
  <2> QED BY <1>2, <2>1 DEF CountInv, UndisturbedAddsUp
<1>10. CASE ReadOpen
  <2>1. /\ pc = "open" /\ pc' = "idle" /\ UNCHANGED <<tickets, disturbed>>
        /\ seen'.rows = seen.rows /\ seen'.eligible = seen.eligible
        /\ seen'.met = seen.met /\ seen'.open = Count({"open"})
    BY <1>10 DEF ReadOpen, Reads, Succeeds, Remember, Following, TypeOK
  <2>2. /\ Count({"met"}) <= Count({"met", "missed"})
        /\ Count({"met", "missed"}) + Count({"open"}) <= Count(Kind)
    BY CountFacts DEF TypeOK, Kind
  <2> QED BY <2>1, <2>2 DEF CountInv, UndisturbedAddsUp
<1>11. CASE UNCHANGED vars
  BY <1>2, <1>11 DEF CountInv, UndisturbedAddsUp
<1> QED
  BY <1>1, <1>3, <1>4, <1>5, <1>6, <1>7, <1>8, <1>9, <1>10, <1>11, <1>12, <1>13
  DEF Next, RunStarts, RunFails, SyncZabbixOrAssets, SyncTickets

\* The ticket numbers of a request that no commit met fit together, for any
\* number of tickets (freshservice/service.py, get_dashboard).
THEOREM NumbersCorrect == Spec => []UndisturbedAddsUp
<1>1. CountInv => UndisturbedAddsUp
  BY DEF CountInv, UndisturbedAddsUp
<1> QED BY <1>1, TypeInit, TypeStep, CountInit, CountStep, PTL DEF Spec
=============================================================================
