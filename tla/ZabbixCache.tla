----------------------------- MODULE ZabbixCache -----------------------------
(***************************************************************************)
(* The Zabbix dashboard cache: the worker refreshes a single snapshot row  *)
(* (ZabbixCacheRefreshService.refresh, the Zabbix loop of worker.py), the *)
(* API serves it and derives its health (ZabbixCachedDashboardService).   *)
(* The reader is a thread of another process: it reads the row, the       *)
(* newest run and the newest success with three separate queries, and the *)
(* worker may commit between any two of them.                             *)
(*                                                                         *)
(* A snapshot is represented by the number of the run that stored it.     *)
(***************************************************************************)
EXTENDS Integers, Sequences

CONSTANTS
    Interval,     \* ZABBIX_CACHE_REFRESH_INTERVAL_SECONDS
    StaleAfter,   \* ZABBIX_CACHE_STALE_AFTER_SECONDS
    MaxTime,      \* bound: the clock
    MaxFaults     \* bound: failed refreshes and stops of the worker

ASSUME TimingAssumption ==
    /\ Interval \in Nat \ {0}
    /\ MaxTime \in Nat /\ MaxFaults \in Nat
    /\ StaleAfter = 2 * Interval

VARIABLES
    now,         \* the clock both processes read
    configured,  \* base URL and token are set (read when a process starts)
    runs,        \* statuses of the zabbix rows of sync_runs, by id
    cache,       \* the row zabbix_dashboard_cache; run = 0: no row; valid: the
                 \* models of the running program accept its snapshot
    worker,      \* the loop: asleep until wake, refreshing, storing what it
                 \* collected, correlating, or stopped with its process
    wake,        \* 0 unless asleep
    completed,   \* when the refresh being stored had collected all, or else 0
    lost,        \* time since the cached success not spent in the sleep (history)
    reader,      \* progress of a request in the API
    read,        \* what the request has read so far
    response,    \* the last answer given
    faults       \* counts the faults, to bound them

workerVars == <<runs, cache, worker, wake, completed, lost>>
readerVars == <<reader, read, response>>
vars == <<now, configured, workerVars, readerVars, faults>>

NoRow == [run |-> 0, refreshed_at |-> 0, valid |-> FALSE]
Last == Len(runs)

-----------------------------------------------------------------------------
(* The worker *)

\* The refresh commits a run of its own before it asks Zabbix.
StartRefresh ==
    /\ worker = "asleep"
    /\ configured
    /\ now >= wake
    /\ worker' = "refreshing"
    /\ wake' = 0
    /\ runs' = Append(runs, "running")
    /\ UNCHANGED <<now, configured, cache, completed, lost, readerVars, faults>>

\* Everything has been collected; the time that the row will show is read.
Collected ==
    /\ worker = "refreshing"
    /\ worker' = "storing"
    /\ completed' = now
    /\ UNCHANGED <<now, configured, runs, cache, wake, lost, readerVars, faults>>

\* Mutated form of Sleep: the loop sleeps for the staleness window.
SleepTooLong == worker' = "asleep" /\ wake' = now + StaleAfter + 1

Sleep == worker' = "asleep" /\ wake' = now + Interval

\* Mutated form of RefreshSucceeds: the run is closed before the snapshot.
RefreshSucceedsEarly ==
    /\ worker = "storing"
    /\ \/ /\ runs[Last] = "running"
          /\ runs' = [runs EXCEPT ![Last] = "success"]
          /\ UNCHANGED <<cache, worker, lost>>
       \/ /\ runs[Last] = "success"
          /\ cache' = [run |-> Last, refreshed_at |-> completed, valid |-> TRUE]
          /\ worker' = "correlating"
          /\ lost' = now - completed
          /\ UNCHANGED runs
    /\ UNCHANGED <<now, configured, wake, completed, readerVars, faults>>

\* Snapshot and run status are committed in one transaction.
RefreshSucceeds ==
    /\ worker = "storing"
    /\ cache' = [run |-> Last, refreshed_at |-> completed, valid |-> TRUE]
    /\ runs' = [runs EXCEPT ![Last] = "success"]
    /\ worker' = "correlating"
    /\ completed' = 0
    /\ lost' = now - completed  \* history
    /\ UNCHANGED <<now, configured, wake, readerVars, faults>>

\* The devices are correlated before the loop sleeps, whether that succeeds
\* or ends in an error that the loop reports.
Correlated ==
    /\ worker = "correlating"
    /\ Sleep
    /\ UNCHANGED <<now, configured, runs, cache, completed, lost, readerVars, faults>>

\* A refresh that does not succeed, for a reason that the loop catches.
EndsWithoutSuccess ==
    /\ worker \in {"refreshing", "storing"}
    /\ faults < MaxFaults
    /\ faults' = faults + 1
    /\ completed' = 0
    /\ Sleep
    /\ UNCHANGED <<now, configured, cache, lost, readerVars>>

\* IntegrationError, or a database error after the rollback.
RefreshFails == EndsWithoutSuccess /\ runs' = [runs EXCEPT ![Last] = "failed"]

\* A reply that does not fit the models, or a failure that cannot be recorded:
\* the row of the run stays "running".
RefreshRejected == EndsWithoutSuccess /\ UNCHANGED runs

\* The worker is killed, or ended by an error that a loop does not catch; the
\* row of a refresh that was under way stays "running".
Stop ==
    /\ worker # "stopped"
    /\ faults < MaxFaults
    /\ faults' = faults + 1
    /\ worker' = "stopped"
    /\ wake' = 0 /\ completed' = 0
    /\ UNCHANGED <<now, configured, runs, cache, lost, readerVars>>

\* The loop begins with a refresh.
Start ==
    /\ worker = "stopped"
    /\ worker' = "asleep"
    /\ wake' = now
    /\ UNCHANGED <<now, configured, runs, cache, completed, lost, readerVars, faults>>

\* A refresh, the correlation and a stop take any time, and the loop may wake
\* up late: it shares the event loop with the others.
Tick ==
    /\ now < MaxTime
    /\ now' = now + 1
    /\ lost' = IF worker = "asleep" /\ now < wake THEN lost ELSE lost + 1
    /\ UNCHANGED <<configured, runs, cache, worker, wake, completed, readerVars, faults>>

-----------------------------------------------------------------------------
(* The reader: get_dashboard *)

NoAnswer == [status |-> "none", run |-> 0, refreshed_at |-> 0, at |-> 0,
             latest |-> 0, failed |-> FALSE, lastFailed |-> 0]
NotRead == [at |-> 0, row |-> NoRow, latest |-> 0, failed |-> FALSE, lastFailed |-> 0]

Failures == {i \in DOMAIN runs : runs[i] = "failed"}
LastFailed == IF Failures = {} THEN 0 ELSE CHOOSE i \in Failures : \A j \in Failures : j <= i

Refuse(status) ==
    /\ response' = [NoAnswer EXCEPT !.at = now, !.status = status]
    /\ UNCHANGED <<reader, read>>

\* There is nothing to show without a row, or with one that does not validate.
ReadRow ==
    /\ reader = "idle"
    /\ \/ cache.run = 0 /\ Refuse(IF configured THEN "unavailable" ELSE "not_configured")
       \/ cache.run # 0 /\ ~cache.valid /\ Refuse("bad_response")
       \/ /\ cache.valid
          /\ reader' = "row"
          /\ read' = [NotRead EXCEPT !.at = now, !.row = cache]
          /\ UNCHANGED response
    /\ UNCHANGED <<now, configured, workerVars, faults>>

ReadLatestRun ==
    /\ reader = "row"
    /\ reader' = "latest"
    /\ read' = [read EXCEPT !.latest = Last, !.failed = (runs[Last] = "failed"),
                           !.lastFailed = LastFailed]  \* history
    /\ UNCHANGED <<now, configured, workerVars, response, faults>>

\* Mutated forms of LatestFailed: any failure ever counts; the comparison
\* with the newest success is inverted.
LatestFailedEver(lastSuccess) == Failures # {}
LatestFailedInverted(lastSuccess) == read.failed /\ read.latest = lastSuccess

\* The newest run failed, and is not the newest success.
LatestFailed(lastSuccess) == read.failed /\ read.latest # lastSuccess

Old == read.at - read.row.refreshed_at > StaleAfter

Respond ==
    /\ reader = "latest"
    /\ \E lastSuccess \in DOMAIN runs :
        /\ runs[lastSuccess] = "success"
        /\ \A i \in DOMAIN runs : runs[i] = "success" => i <= lastSuccess
        /\ response' =
            [status |-> IF ~configured THEN "not_configured"
                        ELSE IF LatestFailed(lastSuccess) \/ Old THEN "degraded"
                        ELSE "healthy",
             run |-> read.row.run,
             refreshed_at |-> read.row.refreshed_at,
             at |-> read.at,
             latest |-> read.latest,
             failed |-> configured /\ LatestFailed(lastSuccess),
             lastFailed |-> read.lastFailed]
    /\ reader' = "idle"
    /\ read' = NotRead
    /\ UNCHANGED <<now, configured, workerVars, faults>>

-----------------------------------------------------------------------------

\* Empty, or with the snapshot of an earlier deployment, whose models may have
\* been others; the settings may have been removed since then.
Init ==
    /\ now = 0
    /\ configured \in BOOLEAN
    /\ \/ runs = <<>> /\ cache = NoRow
       \/ /\ runs = <<"success">>
          /\ \E valid \in BOOLEAN : cache = [run |-> 1, refreshed_at |-> 0, valid |-> valid]
    /\ worker = "asleep"
    /\ wake = 0
    /\ completed = 0
    /\ lost = 0
    /\ reader = "idle"
    /\ read = NotRead
    /\ response = NoAnswer
    /\ faults = 0

Next ==
    \/ StartRefresh
    \/ Collected
    \/ RefreshSucceeds
    \/ Correlated
    \/ RefreshFails
    \/ RefreshRejected
    \/ Stop
    \/ Start
    \/ Tick
    \/ ReadRow
    \/ ReadLatestRun
    \/ Respond

Spec == Init /\ [][Next]_vars

-----------------------------------------------------------------------------
(* Properties *)

RunStatus == {"running", "success", "failed"}
Row == [run : Nat, refreshed_at : Nat, valid : BOOLEAN]

TypeOK ==
    /\ now \in Nat
    /\ configured \in BOOLEAN
    /\ runs \in Seq(RunStatus)
    /\ cache \in Row
    /\ worker \in {"asleep", "refreshing", "storing", "correlating", "stopped"}
    /\ wake \in Nat /\ completed \in Nat /\ lost \in Int
    /\ reader \in {"idle", "row", "latest"}
    /\ read \in [at : Nat, row : Row, latest : Nat, failed : BOOLEAN, lastFailed : Nat]
    /\ response \in [status : {"none", "healthy", "degraded", "not_configured", "unavailable",
                               "bad_response"},
                     run : Nat, refreshed_at : Nat, at : Nat,
                     latest : Nat, failed : BOOLEAN, lastFailed : Nat]
    /\ faults \in Nat

\* The snapshot served is the one of the newest successful run, at every
\* instant: both are committed together and a failed, killed or rolled back
\* refresh touches neither (cache.py, refresh).
CacheIsNewestSuccess ==
    /\ cache.run # 0 => cache.run <= Last /\ runs[cache.run] = "success"
    /\ \A i \in DOMAIN runs : runs[i] = "success" => i <= cache.run

\* No refresh after the cached success has failed or been abandoned.
NoneFailedSince ==
    Last = cache.run + (IF worker \in {"refreshing", "storing"} THEN 1 ELSE 0)

\* The data look too old only if a later refresh came to nothing, or storing,
\* correlating, waking up late, refreshing and being stopped have together
\* taken more than an interval since then: the sleep of the loop, which begins
\* later than the time shown, never makes a success look stale by itself
\* (worker.py; cache.py, two intervals).
StaleForAReason ==
    configured /\ cache.run # 0 /\ NoneFailedSince /\ now - cache.refreshed_at > StaleAfter
        => lost > StaleAfter - Interval

\* The warning that the latest refresh failed is only given for a refresh
\* later than the one whose data it accompanies, although the three reads
\* are separate queries (get_dashboard).
BlamesLaterFailure ==
    response.failed => /\ response.latest > response.run
                       /\ response.latest <= Last
                       /\ runs[response.latest] = "failed"

\* An answer "healthy" carries data of the window; a failure after that data
\* was followed by a further attempt when the request looked (get_dashboard).
HealthyIsCurrent ==
    response.status = "healthy" =>
        /\ configured
        /\ response.at - response.refreshed_at <= StaleAfter
        /\ response.lastFailed > response.run => response.latest > response.lastFailed

\* The design document's reading of freshness: once a refresh failed after
\* the cached success the answer is degraded.  The code only looks at the
\* newest run, which may be one that has just started or was abandoned.
FailureShown ==
    response.status = "healthy" => response.lastFailed <= response.run
=============================================================================
