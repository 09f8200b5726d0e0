-------------------------- MODULE ZabbixCollection --------------------------
(***************************************************************************)
(* What one refresh of the Zabbix cache collects and stores:               *)
(* ZabbixDashboardService.get_dashboard asks for hosts, problems and items *)
(* concurrently while Zabbix goes on changing, ranks the most affected     *)
(* hosts, and ZabbixCacheRefreshService.refresh merges the current values  *)
(* with the series of the stored snapshot.  When a refresh runs, and how   *)
(* its outcome is shown, is the subject of ZabbixCache.                    *)
(*                                                                         *)
(* A host has one interface.  A series is the set of its points.           *)
(***************************************************************************)
EXTENDS Integers, FiniteSets, Sequences

CONSTANTS
    MaxHost,     \* hosts are 1..MaxHost
    ItemOf,      \* ItemOf[i]: host, metric and mode of item i
    Raw,         \* the values an item can have
    HostStates,  \* of absent, disabled, maintenance, up and down, those to use
    Severities,  \* the severities a problem can have
    TopLimit,    \* rank_top_affected_hosts, limit
    Window,      \* ZABBIX_LIVE_WINDOW_SECONDS
    MaxPoints,   \* ZABBIX_LIVE_MAX_POINTS
    MaxClock,    \* bound: the clock
    MaxChanges,  \* bound: changes of hosts, problems and values
    MaxFailures  \* bound: failed calls, and changes of the models

Host == 1 .. MaxHost
Item == DOMAIN ItemOf
Problem == [host : Host, severity : Severities]

ResourceMetric == {"cpu", "memory", "disk"}
NetworkMetric == {"latency", "inbound", "outbound"}
Metric == {ItemOf[i].metric : i \in Item}
HostState == {"absent", "disabled", "maintenance", "up", "down"}

\* The modes of a metric, the better one first.
ModeOrder ==
    [cpu |-> <<"idle", "used">>, memory |-> <<"pused", "util", "pavailable">>,
     disk |-> <<"pused", "pfree">>, latency |-> <<"exact", "averaged">>,
     inbound |-> <<"bytes">>, outbound |-> <<"bytes">>]

SeverityRank ==
    [not_classified |-> 1, information |-> 2, warning |-> 3, average |-> 4,
     high |-> 5, disaster |-> 6, unknown |-> 7]

ASSUME CollectionAssumption ==
    /\ MaxHost \in Nat /\ TopLimit \in Nat /\ Window \in Nat /\ MaxPoints \in Nat \ {0}
    /\ Raw \subseteq Int /\ HostStates \subseteq HostState
    /\ Severities \subseteq DOMAIN SeverityRank
    /\ ItemOf \in Seq([host : Host, metric : DOMAIN ModeOrder, mode : STRING])
    /\ \A i \in Item : \E n \in DOMAIN ModeOrder[ItemOf[i].metric] :
            ModeOrder[ItemOf[i].metric][n] = ItemOf[i].mode

VARIABLES
    clock,      \* the time, the same in Zabbix and here
    hostState,  \* per host: absent, disabled, maintenance, up or down
    active,     \* the active problems
    sample,     \* per item: its last value and when it was taken, 0 if never
    step,       \* idle, gathering or maps
    done,       \* the calls that have been answered
    got,        \* their answers
    snapshot,   \* the stored dashboard; readable: the models accept it
    since,      \* history: since[k][c], the value last reported for the time
                \* c by the refreshes that stored a series for k without a break
    changes, failures

zabbix == <<clock, hostState, active, sample, changes>>
refresh == <<step, done, got>>
collectionVars == <<zabbix, refresh, snapshot, since, failures>>

NothingGot == [hosts |-> <<>>, problems |-> {}, mapped |-> {}, samples |-> {}, gaps |-> {},
               lost |-> FALSE]  \* lost: history, a network call failed

-----------------------------------------------------------------------------
(* Zabbix *)

Changes ==
    /\ changes < MaxChanges
    /\ changes' = changes + 1
    /\ UNCHANGED <<clock, refresh, snapshot, since, failures>>

HostChanges(h) ==
    /\ \E s \in HostStates \ {hostState[h]} : hostState' = [hostState EXCEPT ![h] = s]
    /\ UNCHANGED <<active, sample>>
    /\ Changes

ProblemChanges(p) ==
    /\ active' = IF p \in active THEN active \ {p} ELSE active \cup {p}
    /\ UNCHANGED <<hostState, sample>>
    /\ Changes

Measure(i) ==
    /\ \E v \in Raw : sample' = [sample EXCEPT ![i] = [clock |-> clock, raw |-> v]]
    /\ sample' # sample
    /\ UNCHANGED <<hostState, active>>
    /\ Changes

TimePasses ==
    /\ clock < MaxClock
    /\ clock' = clock + 1
    /\ UNCHANGED <<hostState, active, sample, changes, refresh, snapshot, since, failures>>

-----------------------------------------------------------------------------
(* The calls of one refresh *)

Calls == {"hosts", "problems", "triggers"} \cup Metric

StartCollection ==
    /\ step = "idle"
    /\ step' = "gathering"
    /\ done' = {}
    /\ got' = NothingGot
    /\ UNCHANGED <<zabbix, snapshot, since, failures>>

EndCollection == step' = "idle" /\ done' = {} /\ got' = NothingGot

Answered(call) ==
    /\ step = "gathering"
    /\ call \in Calls \ done
    /\ done' = done \cup {call}
    /\ UNCHANGED <<zabbix, step, snapshot, since, failures>>

ListHosts ==
    /\ Answered("hosts")
    /\ got' = [got EXCEPT !.hosts =
                [h \in {g \in Host : hostState[g] # "absent"} |-> hostState[h]]]

ListProblems ==
    /\ Answered("problems")
    /\ got' = [got EXCEPT !.problems = active]

\* The hosts of a problem come from its trigger, which is gone when its host
\* has been deleted since the problems were listed.
ListTriggers ==
    /\ "problems" \in done
    /\ Answered("triggers")
    /\ got' = [got EXCEPT !.mapped = {p \in got.problems : hostState[p.host] # "absent"}]

\* Monitored items with a value.
ListItems(metric) ==
    /\ Answered(metric)
    /\ got' = [got EXCEPT !.samples = @ \cup
                {[item |-> i, clock |-> sample[i].clock, raw |-> sample[i].raw] :
                    i \in {j \in Item : /\ ItemOf[j].metric = metric
                                        /\ hostState[ItemOf[j].host] \notin {"absent", "disabled"}
                                        /\ sample[j].clock # 0}}]

Fails == failures < MaxFailures /\ failures' = failures + 1

\* Mutated form of NetworkFails: the failure is swallowed.
NetworkFailsSilently ==
    /\ step = "gathering"
    /\ ~(Metric \cap NetworkMetric \subseteq done)
    /\ Fails
    /\ done' = done \cup (Metric \cap NetworkMetric)
    /\ got' = [got EXCEPT !.samples = {s \in @ : ItemOf[s.item].metric \notin NetworkMetric},
                         !.lost = TRUE]
    /\ UNCHANGED <<zabbix, step, snapshot, since>>

\* One of the network calls raises an IntegrationError, or an item does not
\* normalise: there are no network values, and a warning.
NetworkFails ==
    /\ step = "gathering"
    /\ ~(Metric \cap NetworkMetric \subseteq done)
    /\ Fails
    /\ done' = done \cup (Metric \cap NetworkMetric)
    /\ got' = [got EXCEPT !.samples = {s \in @ : ItemOf[s.item].metric \notin NetworkMetric},
                         !.gaps = @ \cup {"network"}, !.lost = TRUE]
    /\ UNCHANGED <<zabbix, step, snapshot, since>>

\* Any other call fails: the refresh does, and nothing is stored.
CoreFails ==
    /\ step = "gathering"
    /\ ~(Calls \ NetworkMetric \subseteq done)
    /\ Fails
    /\ EndCollection
    /\ UNCHANGED <<zabbix, snapshot, since>>

\* The topology maps are asked for when all the rest is there.
GatherEnds ==
    /\ step = "gathering"
    /\ done = Calls
    /\ step' = "maps"
    /\ UNCHANGED <<zabbix, done, got, snapshot, since, failures>>

-----------------------------------------------------------------------------
(* The current values *)

ModeRank(i) == CHOOSE n \in 1 .. 3 : ModeOrder[ItemOf[i].metric][n] = ItemOf[i].mode

\* Of two items for the same series: the better mode, the newer value, the
\* smaller id.
Preferred(s, t) ==
    \/ ModeRank(s.item) < ModeRank(t.item)
    \/ /\ ModeRank(s.item) = ModeRank(t.item)
       /\ s.clock > t.clock \/ (s.clock = t.clock /\ s.item < t.item)

Key(i) == <<ItemOf[i].host, ItemOf[i].metric>>

\* Per series, the item that was chosen for it.
Chosen == {s \in got.samples : \A t \in got.samples : Key(t.item) = Key(s.item) => t = s \/ Preferred(s, t)}

Inverted == {"idle", "pavailable", "pfree"}
Value(s) == IF ItemOf[s.item].mode \in Inverted THEN 100 - s.raw ELSE s.raw

-----------------------------------------------------------------------------
(* The ranking *)

ProblemsOf(h) == {p \in got.mapped : p.host = h}
ResourcesOf(h) == {s \in Chosen : ItemOf[s.item].host = h /\ ItemOf[s.item].metric \in ResourceMetric}

Largest(S, default) == IF S = {} THEN default ELSE CHOOSE n \in S : \A m \in S : m <= n

\* Mutated form of RankKey: the load goes before the problems.
RankKeyPeakFirst(h) ==
    <<Largest({Value(s) : s \in ResourcesOf(h)}, -1),
      Largest({SeverityRank[p.severity] : p \in ProblemsOf(h)}, 0),
      IF got.hosts[h] = "down" THEN 1 ELSE 0,
      Cardinality(ProblemsOf(h)),
      -h>>

\* Severity, unavailable interfaces, number of problems, peak load, small id.
RankKey(h) ==
    <<Largest({SeverityRank[p.severity] : p \in ProblemsOf(h)}, 0),
      IF got.hosts[h] = "down" THEN 1 ELSE 0,
      Cardinality(ProblemsOf(h)),
      Largest({Value(s) : s \in ResourcesOf(h)}, -1),
      -h>>

Before(g, h) ==
    \E n \in 1 .. 5 : /\ RankKey(g)[n] > RankKey(h)[n]
                      /\ \A m \in 1 .. n - 1 : RankKey(g)[m] = RankKey(h)[m]

Affected ==
    {h \in DOMAIN got.hosts :
        /\ got.hosts[h] # "disabled"
        /\ ProblemsOf(h) # {} \/ got.hosts[h] = "down" \/ ResourcesOf(h) # {}}

TopHosts == {h \in Affected : Cardinality({g \in Affected : Before(g, h)}) < TopLimit}

-----------------------------------------------------------------------------
(* Storing the snapshot *)

\* The current values that become points: CPU and memory of the top hosts,
\* and everything about the network.
Live ==
    {s \in Chosen : \/ ItemOf[s.item].metric \in {"cpu", "memory"} /\ ItemOf[s.item].host \in TopHosts
                    \/ ItemOf[s.item].metric \in NetworkMetric}

Point(s) == [clock |-> s.clock, value |-> Value(s)]

Newest(points, n) == {p \in points : Cardinality({q \in points : q.clock > p.clock}) < n}

\* Mutated form of Merged: the old points are not looked at again.
MergedForEver(s, old) ==
    Newest((IF s.clock >= clock - Window THEN {Point(s)} ELSE {})
             \cup {p \in old : p.clock # s.clock}, MaxPoints)

\* The points of the stored series and the current one, by time, within the
\* window and at most MaxPoints.
Merged(s, old) ==
    Newest({p \in {Point(s)} \cup {p \in old : p.clock # s.clock} : p.clock >= clock - Window},
           MaxPoints)

\* A snapshot that does not validate is treated as none.
Previous(series) == IF snapshot.readable THEN series ELSE <<>>

\* A series without points is left out.
MergedSeries ==
    LET previous == Previous(snapshot.series)
        old(s) == IF Key(s.item) \in DOMAIN previous THEN previous[Key(s.item)] ELSE {}
        stored == {s \in Live : Merged(s, old(s)) # {}}
    IN [k \in {Key(s.item) : s \in stored} |->
            LET s == CHOOSE t \in stored : Key(t.item) = k IN Merged(s, old(s))]

\* What the dashboard says is missing.
Warnings ==
    got.gaps
        \cup (IF got.problems # got.mapped THEN {"unmapped"} ELSE {})
        \cup {m \in ResourceMetric :
                \E h \in DOMAIN got.hosts : /\ got.hosts[h] # "disabled"
                                            /\ \A s \in ResourcesOf(h) : ItemOf[s.item].metric # m}

\* Nodes whose host was deleted or disabled meanwhile are shown as such.
NodeStatus(h) ==
    IF h \notin DOMAIN got.hosts THEN "unknown" ELSE got.hosts[h]
Topology ==
    [h \in {g \in Host : hostState[g] # "absent"} |->
        [status |-> NodeStatus(h), problems |-> Cardinality(ProblemsOf(h))]]

\* The maps arrive, or their IntegrationError becomes a warning; snapshot and
\* run are committed together.
StoreCollected ==
    /\ step = "maps"
    /\ \/ /\ snapshot' = [at |-> clock, readable |-> TRUE, top |-> TopHosts, series |-> MergedSeries,
                         nodes |-> Topology, warnings |-> Warnings]
          /\ UNCHANGED failures
       \/ /\ Fails
          /\ snapshot' = [at |-> clock, readable |-> TRUE, top |-> TopHosts, series |-> MergedSeries,
                         nodes |-> <<>>, warnings |-> Warnings \cup {"topology"}]
    /\ since' =
        [k \in DOMAIN MergedSeries |->
            LET s == CHOOSE t \in Live : Key(t.item) = k
                earlier == Previous(since)
                before == IF k \in DOMAIN earlier THEN earlier[k] ELSE <<>>
            IN [c \in DOMAIN before \cup {s.clock} |-> IF c = s.clock THEN Value(s) ELSE before[c]]]
    /\ EndCollection
    /\ UNCHANGED zabbix

\* The commit fails and is rolled back, or the worker is killed.
StoreFails ==
    /\ step = "maps"
    /\ Fails
    /\ EndCollection
    /\ UNCHANGED <<zabbix, snapshot, since>>

\* The program is replaced by one whose models refuse the stored snapshot; the
\* worker starts anew.
ModelsChange ==
    /\ snapshot.readable
    /\ Fails
    /\ snapshot' = [snapshot EXCEPT !.readable = FALSE]
    /\ EndCollection
    /\ UNCHANGED <<zabbix, since>>

-----------------------------------------------------------------------------

CollectionInit ==
    /\ clock = 1
    /\ hostState = [h \in Host |-> "up"]
    /\ active = {}
    /\ sample = [i \in Item |-> [clock |-> 0, raw |-> 0]]
    /\ step = "idle"
    /\ done = {}
    /\ got = NothingGot
    /\ snapshot = [at |-> 0, readable |-> TRUE, top |-> {}, series |-> <<>>, nodes |-> <<>>, warnings |-> {}]
    /\ since = <<>>
    /\ changes = 0
    /\ failures = 0

CollectionNext ==
    \/ \E h \in Host : HostChanges(h)
    \/ \E p \in Problem : ProblemChanges(p)
    \/ \E i \in Item : Measure(i)
    \/ TimePasses
    \/ StartCollection
    \/ ListHosts
    \/ ListProblems
    \/ ListTriggers
    \/ \E m \in Metric : ListItems(m)
    \/ NetworkFails
    \/ CoreFails
    \/ GatherEnds
    \/ StoreCollected
    \/ StoreFails
    \/ ModelsChange

CollectionSpec == CollectionInit /\ [][CollectionNext]_collectionVars

-----------------------------------------------------------------------------
(* Properties *)

HostList == UNION {[S -> HostState] : S \in SUBSET Host}
Sample == [item : Item, clock : Nat, raw : Int]
Answers == [hosts : HostList, problems : SUBSET Problem, mapped : SUBSET Problem,
            samples : SUBSET Sample, gaps : SUBSET {"network"}, lost : BOOLEAN]

CollectionTypeOK ==
    /\ clock \in Nat
    /\ hostState \in [Host -> HostState]
    /\ active \subseteq Problem
    /\ sample \in [Item -> [clock : Nat, raw : Int]]
    /\ step \in {"idle", "gathering", "maps"}
    /\ done \subseteq Calls
    /\ got \in Answers
    /\ changes \in Nat /\ failures \in Nat

\* A live series is exactly what all the refreshes since it appeared have
\* reported, the last report for each time, within the window and the number
\* of points: nothing is lost or invented by merging one snapshot at a time,
\* whatever refreshes fail and whichever item the values come from.
LiveHistory ==
    \A k \in DOMAIN snapshot.series :
        snapshot.series[k] =
            Newest({[clock |-> c, value |-> since[k][c]] :
                        c \in {d \in DOMAIN since[k] : d >= snapshot.at - Window}}, MaxPoints)

\* The values that Zabbix has for a series, of the best mode that has any.
BestValues(k) ==
    {s \in got.samples : /\ Key(s.item) = k
                         /\ \A t \in got.samples :
                                Key(t.item) = k => ModeRank(s.item) <= ModeRank(t.item)}

\* The history of a series is given up for one of these reasons only: the host
\* is no longer among the most affected ones; the network values could not be
\* read, which a warning says; Zabbix has no value for it; or those of the best
\* mode are from before the window, as are all stored points, unless the stored
\* snapshot does not validate.  The last one is weaker than "there is no value
\* from within the window": an item that has stopped hides a fresh one of a
\* lesser mode (cache.py, _merge_resource_live; resource_pressure.py,
\* _prefer_cpu_modes).
HistoryLostForAReason ==
    [][\A k \in DOMAIN snapshot.series \ DOMAIN snapshot'.series :
        \/ k[2] \in ResourceMetric /\ k[1] \notin snapshot'.top
        \/ k[2] \in NetworkMetric /\ "network" \in snapshot'.warnings
        \/ /\ k[2] \in NetworkMetric => ~got.lost
           /\ BestValues(k) # {} =>
                /\ \A s \in BestValues(k) : s.clock < snapshot'.at - Window
                /\ snapshot.readable =>
                     \A p \in snapshot.series[k] : p.clock < snapshot'.at - Window]_collectionVars

\* As long as a host with a problem is left out of the most affected ones, all
\* of these have a problem at least as severe; only when there is room for all
\* affected hosts are fewer shown than the limit (rank_top_affected_hosts).
WorstHostsShown ==
    step = "maps" =>
        /\ Cardinality(TopHosts) = IF Cardinality(Affected) < TopLimit THEN Cardinality(Affected) ELSE TopLimit
        /\ \A p \in got.mapped : p.host \in Affected \ TopHosts =>
              \A h \in TopHosts : \E q \in ProblemsOf(h) :
                  SeverityRank[q.severity] >= SeverityRank[p.severity]
=============================================================================
