------------------------- MODULE ExecutiveDashboard -------------------------
(***************************************************************************)
(* One request for the executive dashboard, or for the integration health:*)
(* ExecutiveDashboardService.get_dashboard asks Wazuh, and then reads the  *)
(* stored Zabbix, Snipe-IT and Freshservice data.  For each it first reads *)
(* the clock, by which it judges the age of the data, and then makes a     *)
(* series of queries on the one database session.  Each query sees what is *)
(* committed when it runs (READ COMMITTED), and the worker, another        *)
(* process, commits in between.  A failed query leaves the session's       *)
(* transaction aborted.                                                    *)
(***************************************************************************)
EXTENDS Integers, FiniteSets

CONSTANTS
    Ticket,      \* Freshservice tickets
    MaxCommits,  \* bound: commits of the worker
    MaxFaults    \* bound: calls to Wazuh and queries that fail

ASSUME BoundsAssumption ==
    MaxCommits \in Nat /\ MaxFaults \in Nat
ASSUME TicketsAssumption == IsFiniteSet(Ticket)

Stored == {"zabbix", "snipe_it", "freshservice"}
Source == {"wazuh"} \cup Stored
Status == {"healthy", "degraded", "unavailable", "not_configured"}

\* What tells tickets apart: "met" and "missed" are closed, were resolved this
\* month and had a due date, which was met or missed.
Kind == {"open", "pending", "met", "missed"}

VARIABLES
    configured,  \* the stored sources with complete settings
    runs,        \* per stored source: newest run, number of its newest success
                 \* (0: none), whether that is now older than the source's limit
    tickets,     \* the stored tickets, with their kinds
    pc,          \* the next step of the request
    aborted,     \* the transaction of the request's session is aborted
    seen,        \* what the source's clock and queries have returned so far
    shown,       \* health by source, as far as the answer is built
    disturbed,   \* the worker committed during the request (history)
    fineSince,   \* sources that were fine since their clock was read (history)
    commits, faults

stored == <<configured, runs, tickets>>
request == <<pc, aborted, seen, shown, disturbed, fineSince>>
vars == <<stored, request, commits, faults>>

NoRuns == [latest |-> "none", success |-> 0, old |-> FALSE]
NothingSeen ==
    [success |-> 0, old |-> FALSE, row |-> 0, latest |-> "none",
     rows |-> 0, eligible |-> 0, met |-> 0, open |-> 0]

\* The steps that read the clock or query, each with the one that follows it,
\* and the source they belong to.
Following ==
    [zabbixClock |-> "row", row |-> "zabbixRun", zabbixRun |-> "zabbixSuccess",
     zabbixSuccess |-> "assetClock",
     assetClock |-> "assets", assets |-> "assetRun", assetRun |-> "assetSuccess",
     assetSuccess |-> "ticketClock",
     ticketClock |-> "total", total |-> "ticketRun", ticketRun |-> "ticketSuccess",
     ticketSuccess |-> "eligible", eligible |-> "met", met |-> "open", open |-> "idle"]
Clock == {"zabbixClock", "assetClock", "ticketClock"}
Query == DOMAIN Following \ Clock
Owner(step) ==
    CASE step \in {"zabbixClock", "row", "zabbixRun", "zabbixSuccess"} -> "zabbix"
      [] step \in {"assetClock", "assets", "assetRun", "assetSuccess"} -> "snipe_it"
      [] OTHER -> "freshservice"
AfterSource(s) ==
    CASE s = "zabbix" -> "assetClock" [] s = "snipe_it" -> "ticketClock" [] OTHER -> "idle"

\* The success of this number is too old by the clock read for its source.  One
\* committed after that is not: it is given its time just before its commit.
OldByClock(number) == number = seen.success /\ seen.old

\* The data of s is within its limit by the clock read for s, and the newest
\* run has not failed.
FineByClock(s) ==
    /\ s \in configured
    /\ runs[s].success # 0 /\ ~OldByClock(runs[s].success)
    /\ runs[s].latest # "failed"

-----------------------------------------------------------------------------
(* The worker *)

Commits ==
    /\ commits < MaxCommits
    /\ commits' = commits + 1
    /\ disturbed' = (disturbed \/ pc # "idle")
    /\ UNCHANGED <<configured, pc, aborted, seen, shown, faults>>
    /\ fineSince' = fineSince \cup {s \in Stored : pc \in Query /\ s = Owner(pc) /\ FineByClock(s)'}

\* A run that an ended worker leaves behind stays the newest, and running, until
\* the next begins.
RunStarts(s) ==
    /\ s \in configured
    /\ runs[s].latest # "running"
    /\ runs' = [runs EXCEPT ![s].latest = "running"]
    /\ UNCHANGED tickets
    /\ Commits

RunFails(s) ==
    /\ s \in configured
    /\ runs[s].latest = "running"
    /\ runs' = [runs EXCEPT ![s].latest = "failed"]
    /\ UNCHANGED tickets
    /\ Commits

Succeeded(s) ==
    /\ s \in configured
    /\ runs[s].latest = "running"
    /\ runs' = [runs EXCEPT ![s] =
                    [latest |-> "success", success |-> runs[s].success + 1, old |-> FALSE]]

\* The row of the Zabbix cache is committed with the success, and has its time;
\* what is in it, and what the assets are, does not matter to the properties.
SyncZabbixOrAssets(s) ==
    /\ s \in {"zabbix", "snipe_it"}
    /\ Succeeded(s)
    /\ UNCHANGED tickets
    /\ Commits

\* Stored tickets are never removed.
SyncTickets ==
    /\ Succeeded("freshservice")
    /\ \E listed \in SUBSET Ticket : \E kinds \in [listed -> Kind] :
        tickets' = [t \in DOMAIN tickets \cup listed |->
                        IF t \in listed THEN kinds[t] ELSE tickets[t]]
    /\ Commits

\* Time passes: the newest success gets older than two sync intervals, or than
\* three minutes for Zabbix.
GrowsOld(s) ==
    /\ runs[s].success # 0 /\ ~runs[s].old
    /\ runs' = [runs EXCEPT ![s].old = TRUE]
    /\ UNCHANGED <<configured, tickets, request, commits, faults>>

-----------------------------------------------------------------------------
(* The request *)

Show(s, status) == shown' = [t \in DOMAIN shown \cup {s} |-> IF t = s THEN status ELSE shown[t]]

Begin ==
    /\ pc = "idle"
    /\ pc' = "wazuh"
    /\ aborted' = FALSE
    /\ seen' = NothingSeen
    /\ shown' = <<>>
    /\ disturbed' = FALSE
    /\ fineSince' = {}
    /\ UNCHANGED <<stored, commits, faults>>

\* The call succeeds, or fails with an IntegrationError.
AskWazuh ==
    /\ pc = "wazuh"
    /\ pc' = "zabbixClock"
    /\ \/ Show("wazuh", "healthy") /\ UNCHANGED faults
       \/ /\ faults < MaxFaults
          /\ faults' = faults + 1
          /\ \E status \in {"unavailable", "not_configured"} : Show("wazuh", status)
    /\ UNCHANGED <<stored, aborted, seen, disturbed, fineSince, commits>>

\* The clock is read first, whatever has become of the transaction.
ReadClock ==
    /\ pc \in Clock
    /\ pc' = Following[pc]
    /\ LET s == Owner(pc) IN
        /\ seen' = [NothingSeen EXCEPT !.success = runs[s].success, !.old = runs[s].old]
        /\ UNCHANGED <<stored, aborted, shown, disturbed, commits, faults>>
        /\ fineSince' = fineSince \cup {t \in {s} : FineByClock(t)'}

\* Mutated form of Unavailable: the default of the answer's model is kept.
UnavailableHealthy == "healthy"

Unavailable == "unavailable"

\* A query fails, by itself or because the transaction is aborted: the source
\* is shown as unavailable, and the next one is read on the same session.
QueryFails ==
    /\ pc \in Query
    /\ \/ aborted /\ UNCHANGED faults
       \/ ~aborted /\ faults < MaxFaults /\ faults' = faults + 1
    /\ aborted' = TRUE
    /\ Show(Owner(pc), Unavailable)
    /\ pc' = AfterSource(Owner(pc))
    /\ seen' = NothingSeen
    /\ UNCHANGED <<stored, disturbed, fineSince, commits>>

\* Query q succeeds.
Succeeds(q) ==
    /\ pc = q
    /\ ~aborted
    /\ UNCHANGED <<stored, aborted, disturbed, fineSince, commits, faults>>
Reads(q) == Succeeds(q) /\ pc' = Following[q]

Remember(what, value) == seen' = [seen EXCEPT ![what] = value] /\ UNCHANGED shown

\* A cache that was never filled, or, written by a worker of another version,
\* does not validate: nothing more is asked about Zabbix.
RowOfNoUse ==
    /\ Succeeds("row")
    /\ pc' = AfterSource("zabbix")
    /\ \/ runs["zabbix"].success = 0 /\ "zabbix" \notin configured
            /\ Show("zabbix", "not_configured")
       \/ runs["zabbix"].success = 0 /\ "zabbix" \in configured
            /\ Show("zabbix", "unavailable")
       \/ runs["zabbix"].success # 0 /\ Show("zabbix", "unavailable")
    /\ UNCHANGED seen

ReadRow ==
    /\ runs["zabbix"].success # 0
    /\ Reads("row")
    /\ Remember("row", runs["zabbix"].success)

ReadZabbixRun == Reads("zabbixRun") /\ Remember("latest", runs["zabbix"].latest)

\* Which success is the newest tells nothing: a failed run is another one.
ReadZabbixSuccess ==
    /\ Reads("zabbixSuccess")
    /\ Show("zabbix",
            IF "zabbix" \notin configured THEN "not_configured"
            ELSE IF seen.latest = "failed" \/ OldByClock(seen.row) THEN "degraded"
            ELSE "healthy")
    /\ UNCHANGED seen

\* _health_state, the same for both synchronised sources: with the newest run
\* read before, and the success of this number.
Health(s, number) ==
    IF s \notin configured THEN "not_configured"
    ELSE IF number = 0 THEN IF seen.latest = "failed" THEN "unavailable" ELSE "degraded"
    ELSE IF seen.latest = "failed" \/ OldByClock(number) THEN "degraded"
    ELSE "healthy"

ReadAssets == Reads("assets") /\ UNCHANGED <<seen, shown>>
ReadAssetRun == Reads("assetRun") /\ Remember("latest", runs["snipe_it"].latest)
ReadAssetSuccess ==
    /\ Reads("assetSuccess")
    /\ Show("snipe_it", Health("snipe_it", runs["snipe_it"].success))
    /\ UNCHANGED seen

Count(kinds) == Cardinality({t \in DOMAIN tickets : tickets[t] \in kinds})

ReadTotal == Reads("total") /\ Remember("rows", Count(Kind))
ReadTicketRun == Reads("ticketRun") /\ Remember("latest", runs["freshservice"].latest)
ReadTicketSuccess ==
    /\ Reads("ticketSuccess")
    /\ Show("freshservice", Health("freshservice", runs["freshservice"].success))
    /\ UNCHANGED seen

\* Mutated form of ReadEligible: the status is not looked at.
ReadEligibleOpen == Reads("eligible") /\ Remember("eligible", Count({"met", "missed", "open"}))

ReadEligible == Reads("eligible") /\ Remember("eligible", Count({"met", "missed"}))

ReadMet == Reads("met") /\ Remember("met", Count({"met"}))
ReadOpen == Reads("open") /\ Remember("open", Count({"open"}))

-----------------------------------------------------------------------------

\* What earlier runs of a source, of which the first success is the newest
\* that is left to tell of, may have left behind.
EarlierRuns ==
    {run \in [latest : {"none", "running", "failed", "success"}, success : {0, 1}, old : BOOLEAN] :
        IF run.success = 0 THEN run.latest # "success" /\ ~run.old ELSE run.latest # "none"}

Init ==
    /\ configured \in SUBSET Stored
    /\ runs \in [Stored -> EarlierRuns]
    /\ tickets \in UNION {[earlier -> Kind] : earlier \in SUBSET Ticket}
    /\ runs["freshservice"].success = 0 => tickets = <<>>
    /\ pc = "idle"
    /\ aborted = FALSE
    /\ seen = NothingSeen
    /\ shown = <<>>
    /\ disturbed = FALSE
    /\ fineSince = {}
    /\ commits = 0
    /\ faults = 0

Next ==
    \/ \E s \in Stored :
        RunStarts(s) \/ RunFails(s) \/ SyncZabbixOrAssets(s) \/ GrowsOld(s)
    \/ SyncTickets
    \/ Begin \/ AskWazuh \/ ReadClock \/ QueryFails
    \/ RowOfNoUse \/ ReadRow \/ ReadZabbixRun \/ ReadZabbixSuccess
    \/ ReadAssets \/ ReadAssetRun \/ ReadAssetSuccess
    \/ ReadTotal \/ ReadTicketRun \/ ReadTicketSuccess
    \/ ReadEligible \/ ReadMet \/ ReadOpen

Spec == Init /\ [][Next]_vars

-----------------------------------------------------------------------------
(* Properties *)

TypeOK ==
    /\ configured \in SUBSET Stored
    /\ runs \in [Stored -> [latest : {"none", "running", "failed", "success"},
                            success : Nat, old : BOOLEAN]]
    /\ DOMAIN tickets \subseteq Ticket /\ \A t \in DOMAIN tickets : tickets[t] \in Kind
    /\ pc \in {"idle", "wazuh"} \cup DOMAIN Following
    /\ aborted \in BOOLEAN
    /\ seen \in [success : Nat, old : BOOLEAN, row : Nat,
                 latest : {"none", "running", "failed", "success"},
                 rows : Nat, eligible : Nat, met : Nat, open : Nat]
    /\ DOMAIN shown \subseteq Source /\ \A s \in DOMAIN shown : shown[s] \in Status
    /\ disturbed \in BOOLEAN
    /\ fineSince \subseteq Stored
    /\ commits \in Nat /\ faults \in Nat

\* A stored source that is shown as healthy was fine at some instant since its
\* clock was read: its data was not too old by that clock, and its newest run
\* had not failed.  Neither the separate queries for the row, the newest run and
\* the newest success nor a failed query make it look better than it ever was.
HealthyWasTrue ==
    \A s \in DOMAIN shown \ {"wazuh"} : shown[s] = "healthy" => s \in fineSince

\* The ticket numbers of a request that no commit of the worker met fit
\* together, each ticket being counted where it belongs (get_dashboard).
UndisturbedAddsUp ==
    pc = "idle" /\ ~disturbed =>
        seen.met <= seen.eligible /\ seen.eligible + seen.open <= seen.rows

\* "le=100": where there are eligible tickets, the share of them whose due date
\* was met is a percentage, so there are never more met than eligible ones.
\* (Without eligible tickets the code gives no percentage.)
ComplianceIsPercentage == seen.eligible > 0 => seen.met <= seen.eligible
=============================================================================
