# A verification development for the monitoring dashboard

TLA+ models, TLC configurations and TLAPS proofs for the AI-powered monitoring
dashboard: a FastAPI process that serves dashboards, and a background worker
that keeps PostgreSQL up to date with four read-only sources (Wazuh, Zabbix,
Freshservice, Snipe-IT). All paths below are relative to `src/app/` unless they
begin with `docs/`.

To run: `tlc -config X.cfg M.tla` for the pairs of the table under *Runs*, and
`tlapm M.tla` for the `*Proofs` modules.

## 1. Inventory of the system

| Component | State it keeps | Operations | What is hard | What makes it correct |
|---|---|---|---|---|
| Background worker (`worker.py`) | four asyncio tasks, nothing stored | one loop per source: attempt, report, sleep | one `gather` for all; which errors a loop catches, and which none does; restart at any point | a loop that fails goes on, and does not end the others |
| Freshservice synchronisation (`integrations/freshservice/sync.py`, `client.py`) | `tickets`, `sync_runs` | start a run, list page by page, store, mark failed | the source changes while it is listed; window of the next run; runs left "running" | no update is lost; tickets and success are one commit |
| Snipe-IT synchronisation (`integrations/snipe_it/sync.py`, `client.py`) | `assets`, `sync_runs` | full listing by offset, upsert | assets deleted or created during the listing | every asset that stays is listed; a failed run stores nothing |
| Zabbix cache (`integrations/zabbix/cache.py`) | one row of `zabbix_dashboard_cache`, `sync_runs` | refresh, mark failed, read | reader's three queries against the worker's commits; age of the row, whose clock is read before storing, correlating and sleeping; a snapshot that no longer validates | row = newest success; health is not better than warranted; old data have a reason |
| Zabbix collection (`integrations/zabbix/client.py`, `service.py`, `top_hosts.py`, `trends.py`, `network.py`, `resource_pressure.py`) | none | gather one dashboard | concurrent calls against a Zabbix that changes, partial answers, ranking, merging of live history | no point of a series is lost or invented; the worst hosts are among those shown |
| Wazuh client and dashboard (`integrations/wazuh/`) | none (a token per listing) | agents, alerts, trends | paging by offset while agents come and go; a token request that may not be repeated | the agents returned are those there are |
| Device correlation (`correlation/service.py`, `matcher.py`) | `devices`, `device_source_links`; index per batch | correlate a batch: refresh, join, create, map by hand | index changed step by step; order of observations; rollback; capacity | one record per source and device; stable links |
| Device ingestion (`correlation/ingestion.py`, `normalize.py`) | none | observations from agents, hosts, assets | what the sources can agree on at all | the same host meets |
| AI summary cache (`ai/cache.py`, `ai/router.py`) | five dicts with a lock each | look up, wait, generate, expire, evict | state read before the lock and used after it; failing generation | one generation per key and period; nobody waits for ever |
| AI service (`ai/service.py`, `evidence.py`, `investigation.py`, `classifier.py`, `ollama.py`) | none; one database session per request | route the question, read summaries, look up details, ask the model, ground its answer | sources change and fail between the reads; caps on facts, limitations and warnings | confidence is warranted; what is missing is named; no other source is spoken of |
| Sessions and login (`auth/`) | `users`, `auth_sessions`, `login_attempts` | login, validate and refresh, logout | threads between query and commit | an ended session stays ended; a used one stays |
| User administration (`auth/admin_router.py`, `cli.py`) | `users`, `auth_audit_events` | create, by endpoint or command | check then insert; the index decides; a second transaction for the duplicate | one row per name, and an audit log that agrees with the answers |
| Executive dashboard and health (`dashboard/executive/service.py`, `integrations/health/service.py`) and the stored dashboards (`integrations/freshservice/service.py`, `integrations/snipe_it/dashboard_service.py`) | one database session per request | ask four sources in turn, sum up | many queries, each with its own snapshot, and a clock read before them; aborted transaction | numbers that fit together; health that was true |
| HTTP transport (`core/http.py`) | none | bounded retries | off-by-one of attempts and delays | at most three attempts, errors reported |
| Settings, models, migrations, pages, routers, Grafana | configuration | none of interest | - | - |

The worker and the web process share PostgreSQL only. The worker's four tasks
share one event loop, so they interleave at `await`s; the endpoints of
authentication are synchronous functions on a thread pool and interleave
everywhere. Isolation is PostgreSQL's default, READ COMMITTED: every query sees
what is committed when it begins.

The hazards of this code, each at its line with the properties that look at it,
are in `PROJECT.json`.

## 2. Modules

| Module | Models | Code |
|---|---|---|
| `TicketMirror` | abstract: what the mirrored tables promise their readers | - |
| `FreshserviceSync` | one synchronisation after another, the source beside it; implements `TicketMirror` | `integrations/freshservice/sync.py`, `client.py`, `worker.py` |
| `ZabbixCache` | refresh runs, the row, correlation and sleep, stops and starts, one reader | `integrations/zabbix/cache.py` |
| `ZabbixCollection` | what one refresh collects, ranks, merges and stores | `integrations/zabbix/service.py`, `client.py`, `top_hosts.py`, `resource_pressure.py`, `network.py`, `cache.py` |
| `DeviceCorrelation` | batches over links, devices and index | `correlation/service.py`, `matcher.py` |
| `DeviceIngestion` | what each source shows of a device; extends `DeviceCorrelation`, whose `Source`, `Evidence` and `ManualMappings` it fixes | `correlation/ingestion.py`, `normalize.py` |
| `AISummaryCache` | one cache with its lock and queue | `ai/cache.py`, `ai/router.py` |
| `AIInvestigation` | one request to the AI service from question to answer | `ai/service.py`, `classifier.py`, `evidence.py`, `investigation.py`, `devices.py`, `freshservice.py`, `snipe_it.py`, `wazuh.py`, `ollama.py` |
| `Worker` | the four loops, how attempts end and what the loops catch, end and restart of the process | `worker.py` |
| `HttpRetries` | when a request is tried again | `core/http.py` |
| `InventoryListing` | the listings of Snipe-IT and Wazuh page by page, composed with `HttpRetries`; the assets table implements `TicketMirror` | `integrations/snipe_it/client.py`, `sync.py`, `integrations/wazuh/client.py` |
| `AuthSessions` | threads with requests on one session, the login limit | `auth/service.py`, `router.py`, `dependencies.py` |
| `UserAdmin` | concurrent creations of users | `auth/admin_router.py`, `cli.py` |
| `ExecutiveDashboard` | one request and its queries, the worker committing in between | `dashboard/executive/service.py`, the stored dashboards |
| `MCZabbix`, `MCWorker`, `MCAuth`, `MCExecutive` | two modules each for one run of TLC | - |
| `MCDeviceCorrelation`, `MCDeviceIngestion`, `MCInvestigation` | the small values for TLC | - |
| `FreshserviceSyncProofs`, `DeviceCorrelationProofs`, `DeviceIngestionProofs`, `ExecutiveDashboardProofs` | theorems about the module they are named for | - |
| `ZabbixProofs`, `WorkerProofs`, `AuthProofs`, `AIProofs` | theorems about `ZabbixCache` and `ZabbixCollection`, `Worker` and `InventoryListing`, `AuthSessions` and `UserAdmin`, `AISummaryCache` and `AIInvestigation` | - |

The four modules that put two into one run have a variable `part`: a behaviour
is one of either module and leaves the variables of the other at an initial
state. That is a disjoint union and not an interleaving, which is faithful since the
two share no variable: `Worker` sees a listing as an attempt that ends in one way or
another, `ZabbixCache` a collection as a refresh that succeeds or fails, and
`ExecutiveDashboard` is what `AIInvestigation` sees as one reading per source.

**FreshserviceSync.** `StartRun` is the part of `sync` up to the first `await`:
it reads the last success, computes `since` (`NextSince`), and commits a run as
running. Then the source may change before each `FetchPage`. The tickets that
match `since` are listed newest id first, `PageSize` at a time; the last page,
as the Link header says, ends the listing. `Store` is the one commit of tickets
and success. `FetchFails` (any `IntegrationError`, all retries included),
`TooManyPages` (the page limit) and `StoreFails` (commit fails, rollback) mark
the run failed. `Abandon` is the worker being killed, or the database being
unreachable, at any point: the run stays "running". Tickets are versions;
`source`, `gone` and `skipped` are the source's side and history, `skipped`
being the tickets that a deletion moved to a page already read. `Skew` is how
far the source's clock may be off.

**ZabbixCache.** `StartRefresh` commits a run; `Collected` is the instant when
everything has been collected and the clock is read that the row will show;
`RefreshSucceeds` commits row and run; `Correlated` is the end of
`correlate_zabbix_cache`, and only then the loop sleeps. `RefreshFails` is an
`IntegrationError` or a failing commit, `RefreshRejected` an error that marks
nothing. `Stop` is a kill, or the end of the process by another loop's error,
which leaves the run running; `Start` begins with a refresh. `Tick` may fall
anywhere: nothing bounds how long a refresh, the correlation or a stop takes, or
how late the loop wakes up (the timeouts are up to 60 seconds each, three rounds
of calls have up to three attempts each, and the event loop is shared). `lost` is
history: the time since the cached success that was not spent in the sleep. A row
is `valid` if the models of the running program accept its snapshot. The
reader's `ReadRow`, `ReadLatestRun`, `Respond` are the three queries of
`get_dashboard`; without a valid row `ReadRow` refuses.

**ZabbixCollection.** `StartCollection` begins a refresh; the calls of its
`gather` are answered in any order (`ListHosts`, `ListProblems`, then
`ListTriggers`, and `ListItems` per metric), with Zabbix changing in between
(`HostChanges`, `ProblemChanges`, `Measure`, `TimePasses`). `NetworkFails` is
the one failure that becomes a warning before the maps are asked for;
`CoreFails` ends the refresh. `Chosen` is the choice of one item per series by
mode, clock and id, `TopHosts` the ranking, `MergedSeries` the merge with the
stored snapshot (`Previous`: one that does not validate counts as none, and
`ModelsChange` is the deployment that makes it so), `StoreCollected` the commit. A host has one interface and one
file system; a metric's request is answered at one instant.

**DeviceCorrelation.** `db` is what is committed, `work` what the batch's
transaction sees, `index` the candidates by identifier that `_load_state` builds
and the helpers change. `LoadState` starts a batch; an observation is one of
`RefreshExisting` (the link is known), `JoinDevice` (best candidate),
`CreateDevice`, `MapNew`, `MapExisting` (by hand); `Commit` and `Rollback` end
it. A link's `drifted` is history: its identifiers changed after it was made.
Identifiers are arbitrary values of `Evidence`; `DeviceIngestion` restricts them
to what the code builds. No caller passes manual mappings yet; they are part
of `correlate`'s interface and its tests, so the run has them.

**DeviceIngestion.** `Normalized`, `WazuhObservation`, `ZabbixObservation` and
`SnipeItObservation` translate the functions of the same name. Case folding,
trailing dots and which addresses are stable are given by tables
(`Canonical`, `CanonicalHost`, `StableIp`) over a small vocabulary.
`IngestionAssumption` says what the worker feeds to the correlation: the evidence
is exactly what these functions make of the records, and nothing is mapped by hand.

**AISummaryCache.** A request looks once without the lock (`AnswerAtOnce`,
`GenerateAtOnce`, `Wait`), and once more with it (`AnswerWaiter`,
`GenerateForWaiter`); `Generated` and `GenerationFails` release it to the first
of the queue. `entries` is the dict; `place` is the insertion order of an entry. A request without a
range uses the present instant, which is a key of its own.

**AIInvestigation.** A `Question` is what the classifier finds in the words:
sources named, term scores, strong terms, devices. `FindDevice`, `Refuse` and
`Ambiguous` are the first returns; `ReadSummary` reads the four sources in turn;
then come the lookups of `Lookups` in the order of `LookupOrder`, one action each
(`todo` has those that are left, `IsNext` names the first of them), and `Prepared`.
`LookupFails` is a database or source error: the aggregates are used instead and
a limitation is added. After a database error the session's transaction stays aborted
(`broken`) and every later query of it fails. What the model says is any
confidence and any source it may mention (`ModelAnswers`); what the code makes
of it are the operators `Grounded`, `IsSafe`, `Facts`, `SourceWarnings`,
`AllLimitations`, `Recommendations`, `Explains`, `Executive` and `Section`. The device's identity, the words
of the answer and the adverse counters one by one are abstracted: the counters of a source
are a number, as are the records that match.

**Worker.** `Begin`, `End` and `Wake` are an attempt and the sleep of a loop.
`Ends(s)` is how an attempt can end, `Catches(s)` the except clauses. An error
that is not caught ends every loop (`AllGone`), and `Restart` is
`restart: unless-stopped` of `compose.yaml`. Besides the errors that its source and
the database can cause at any attempt, a source in `Rejecting` may have a record that
`DeviceObservation` or the cached snapshot refuses (a `ValueError`, at every attempt as
long as the record is there), and one in `Breaking` may end with what no loop
catches: the `OSError` of a CA bundle that does not load (`core/http.py:22`) or the
`RuntimeError` of a run whose row is gone (`integrations/freshservice/sync.py:97`,
`integrations/snipe_it/sync.py:73`, `integrations/zabbix/cache.py:107`).

**InventoryListing.** `client` chooses between `list_assets` and
`list_agents`. `AttemptFails` asks `TriesAgain` of `HttpRetries` whether the
attempt is repeated; `PageArrives` is a page with all the checks the client
makes of it, and the exceptions that fail the run; `PageUnusable` a page that does not
normalise. `Store` is the upsert and the success of the run in one commit,
`HandOver` the return of `list_agents`. The source creates, updates, removes and
(Snipe-IT) restores records between any two steps. `begun`, `moved` and
`shrunk` are history.

**AuthSessions.** A request is a thread: `Arrive` reads the clock,
`ReadSession` is the query, `CommitRefresh` the commit of the refreshed times
(`UPDATE` of these columns only), `LetIn` or `TurnAway` look at the user, then
`Answer` or `Logout`. `StartLogin` checks the limit, `LoginFails` and
`LoginSucceeds` follow after the password check. `ended` and `used` are history.

**UserAdmin.** `Look` is the query for the name, `Insert` the row sent to the
database, where the unique index makes it wait for another's (`Waits`) or refuses it
(`InsertRefused`), `Commit` row and audit event together, `RecordDuplicate`
the separate transaction of a duplicate, `Reply` the answer. `CreationFails`
ends a creation at any point. The command flushes before it writes the audit event
and has no handler for the refusal. `Stored` is `normalize_username`.

**ExecutiveDashboard.** Every query is an action of its own, the three for Zabbix
included; between two of them the worker may commit a run's start, failure or success
with any change of the tickets. Before the queries of a source its clock is read
(`ReadClock`): what was too old then is too old for the answer, and what grows old
later (`GrowsOld`), or is committed later, is not (`OldByClock`). A Zabbix row may be
missing or not validate (`RowOfNoUse`). `QueryFails` is a database error, after which the
session's transaction is aborted and every later query on it fails too. `fineSince` is
history: the sources that were fine, by their clock, at some instant since it was read.
A source may have runs from before (`EarlierRuns`).

## 3. Runs

| Run | Module, configuration | Shows |
|---|---|---|
| `freshservice` | `FreshserviceSync`, `FreshserviceSync.cfg` | `NoUpdateMissed`: a stored ticket that is behind the source will be listed by the next run; `TicketsChangeWithSuccess`; `ImplementsMirror`; `CaughtUp`: when source and faults stop, every live ticket not hidden by a deletion is brought up to date |
| `zabbix_safety` | `MCZabbix`, `Zabbix.cfg` | `CacheIsNewestSuccess`, `StaleForAReason` (data look too old only after a refresh that came to nothing, or if all that is not the sleep took more than an interval), `BlamesLaterFailure`, `HealthyIsCurrent`; `LiveHistory`: a series is what the refreshes reported; `HistoryLostForAReason`; `WorstHostsShown` |
| `zabbix_failure_shown` | `ZabbixCache`, `ZabbixCacheFreshness.cfg` | violated: see *Findings* |
| `device_correlation` | `MCDeviceCorrelation`, `DeviceCorrelation.cfg` | `IndexExact`, `OneRecordPerSource`, `ConflictsExplained`, `ConfidenceIsStrongest`, `StoreBounded`, `LinksAreStable` |
| `device_ingestion` | `MCDeviceIngestion`, `DeviceIngestion.cfg` | `AssetsStayAlone`, `SameHostMeets` |
| `ai_cache` | `AISummaryCache`, `AISummaryCache.cfg` | `Coalesced`, `AnswerIsCurrent`, `OldestExpiresFirst`, `RequestsEnd` |
| `worker` | `MCWorker`, `Worker.cfg` | `LoopsGoOn`: as long as the process stays up every loop comes to its sleep again and again; of the listings `ListingComplete`, `CountIsTrue`, `RequestsBounded`, `ImplementsMirror`, `ListingsCatchUp` |
| `worker_isolation` | `Worker`, `WorkerIsolation.cfg` | violated: see *Findings* |
| `auth` | `MCAuth`, `Auth.cfg` | `LogoutIsFinal`, `StaysSignedIn`, `FailuresBounded`, `CreationsAudited` |
| `executive` | `MCExecutive`, `Executive.cfg` | `HealthyWasTrue`, `UndisturbedAddsUp`; of an AI request `ConfidenceWarranted`, `NamesMissingEvidence`, `StaysInScope`, `Founded` (recommendations and the model's words are about sources that a fact is about), `SectionsAgree` |
| `executive_compliance` | `MCExecutive`, `ExecutiveDashboardCompliance.cfg` | violated: see *Findings* |
| `investigation_confidence` | `MCInvestigation`, `InvestigationConfidence.cfg` | violated: see *Findings* |

The type invariants (`TypeOK`, `CollectionTypeOK` and so on) are theorems and not in
the runs. `HttpRetries` and `TicketMirror` have no state of their own to prove about.

### Bounds, and why they are enough

- Freshservice: three tickets on pages of one, two pages allowed, so that the
  page limit is met, a ticket can change before, on and behind the page being
  read, and a deletion can move one; two versions; overlap and skew of one tick
  (the property needs `Skew <= Overlap`); one failure anywhere. The proof drops
  every bound but the counters' own.
- Zabbix cache: four units of one interval with a window of two, so that data grow
  old while a refresh or the correlation goes on as well as after a failure; two
  faults, so that a failed run is followed by another failed or abandoned one.
- Zabbix collection: two hosts, one of which can be deleted, with two items for one
  series and a network item; three changes, three instants against a window of
  one and two points, so that a series outgrows both; one failure, which may be a call, the
  commit or a change of the models; room
  for one of two affected hosts.
- Correlation: two sources, two records each, identifiers of two values with
  joint evidence of strong and weak kinds, three devices, batches of two and
  three of them: two devices to join, one to be moved to, and the store passes its
  limit during a batch. The proof is for all values.
- Ingestion: the vocabulary has two spellings of one host, one other host, a
  loopback and a stable address.
- AI cache: three requests, three keys for two entries, one failure: eviction,
  expiry, waiting and failure all meet.
- AI request: thirteen requests, one for each way through the classifier and
  the lookups (`MCQuestion`, each with an example of its words); two
  changes of the sources, so that one can recover and another fail between two
  reads; two failures, of which the first may abort the session; seven
  warnings of Zabbix, so that facts and warnings are cut off (a device
  question has twelve lines before the last source).
- Worker: all four sources, no bound: errors, caught or not, and kills may recur for ever.
  Records may be refused in a loop that catches the error and in one that does not.
- Listings: three records on pages of one with two pages allowed, so that every
  boundary can be crossed and the limit met; two removals and a restore;
  three faults, with which a request can fail for good.
- Sessions: two threads (a race needs two), idle time three against a refresh
  interval of one, absolute time four, two changes of `is_active`. The proof
  is for any number of threads and any settings.
- Users: two endpoint threads and two runs of the command, two names of which
  one has two spellings, four creations and two failures: two creations
  of a name meet while a third fails.
- Executive: two tickets (interchangeable, hence the symmetry), two commits, and
  initially at most one source that has run before and one open ticket: enough for the
  run of an earlier attempt to end and another to begin, or a new one to begin and end, between
  any two queries, and for old data with a failed run to be looked at while it recovers. The
  proof is for any number of commits and tickets and all initial states. Where compliance is
  violated (three commits) one ticket counts already when the second one is resolved.

### Fairness

- `FreshserviceSync`: weak fairness of the worker's own progress, since its loop
  is `while True` and every `await` in it has a timeout; nothing makes the
  source change or failures happen. Failures are finitely many (`MaxFaults`), which is the
  assumption "failures stop".
- `AISummaryCache`: the event loop runs every ready task, `asyncio.Lock` is
  first-in first-out, and a generation ends since the provider's request has a
  timeout. No fairness is assumed for new requests.
- `Worker`: each loop's steps and the restart; sleeps end, requests have timeouts, the
  event loop serves every task. `End` is fair but how an attempt ends is not: caught
  errors may recur at every attempt. `LoopsGoOn` has the premise that the process
  stays up from some time on. That cannot be dropped: with an error that is not caught and
  recurs, the process may end each time before any other attempt is over.
- `InventoryListing`: weak fairness of the run's own progress (`Progress`); the
  loop of the worker goes on and each request has a timeout. Nothing makes the
  source change or an attempt fail, and both are bounded: `ListingsCatchUp`
  speaks of a source that has become quiet and fits the page limit.

`CHECK_DEADLOCK FALSE` is used where a bound on time, commits or batches stops
the model; the worker and the synchronisation must not stop, and are checked for
deadlock.

## 4. Findings

1. *A failed Zabbix refresh is hidden while the next one runs*
   (`integrations/zabbix/cache.py:185-189`). The design document
   (`docs/superpowers/specs/2026-08-14-zabbix-cache-staleness-design.md:29-30`)
   ties "healthy" to the latest refresh having succeeded. The code looks at the
   newest run only, which is committed as running before its refresh begins. The weaker
   `HealthyIsCurrent` holds: the data is within the window, and a failure after
   it has been followed by another attempt.
2. *A rejected Wazuh agent ends the worker* (`worker.py:137-145`).
   `docs/deployment/backend-acceptance.md:231` says that one source's failure does not
   terminate the other loops. The `ValidationError` of a name of 256
   characters, or of a long operating system name and version, is a `ValueError`, which
   the Zabbix loop catches and the Wazuh loop does not. An agent that stays
   refused ends the process at every start, so that `LoopsGoOn` says nothing of it: each time the
   other loops get only as far as they come before it answers.
3. *Compliance above 100 percent* (`integrations/freshservice/service.py:101-105`).
   Eligible and met tickets are counted by two queries; a synchronisation
   between them can make the response violate its own model
   (`integrations/freshservice/models.py:82`, `le=100`). In the counterexample one
   ticket counts already and two have met their date; with no eligible ticket the code gives
   no percentage.
4. *A failed lookup does not lower the confidence of an answer*
   (`ai/investigation.py:79-85`). The design
   (`docs/superpowers/specs/2026-08-06-ai-powered-monitoring-platform-design.md:242`)
   says of a failing source that the AI "names missing evidence and lowers
   confidence". When the details of a source cannot be looked up, the limitation is
   added (`NamesMissingEvidence` holds), but the grounding computes the confidence from
   the status read before, and an answer that rests on aggregates is of
   medium confidence. The weaker `ConfidenceWarranted` holds: the
   sources were healthy at some instant of the request.

Seen while modelling, and not findings of a run: `agents[:total]` can cut off an agent
that was received when another was removed during the listing, which is why
`ListingComplete` excepts it (`integrations/wazuh/client.py:147`); an asset
restored during a listing moves one that was received to the next page, where it is a
duplicate that fails the run; a
severity "unknown" ranks above "disaster" among the affected hosts
(`integrations/zabbix/top_hosts.py:22`) and below everything in the evidence of the AI
service (`ai/evidence.py:481`); and the `IntegrityError` of two concurrent
`create-admin` commands is not caught (`cli.py:50`), which ends the slower one with a
traceback and no row.

## 5. Proofs

All theorems are checked by `tlapm` for every value of the constants that the named
assumptions allow (`BoundsAssumption`, `SettingsAssumption` and so on: naturals that are
positive where the code divides or waits, `Skew <= Overlap`, `StaleAfter = 2 *
Interval`, finitely many tickets and threads; `ErrorsAssumption`: only loops that correlate can
meet a record that is refused).

**FreshserviceSyncProofs.** `NoUpdateMissed` speaks of the time between runs and
is not inductive. During a run one must know, for each live ticket that is not
up to date, why it will still be seen: it was listed at an older version, and then its
new timestamp is after the run's start less the overlap (`InNextWindow`); or it
is not listed, and then it is in the next window, or was skipped because of a
deletion, or is still to be listed in this run (`ToBeListed`: its rank is not
below `Done`). That is `ListingInv`; with `RunInv` (the run under way has the window
of the last success) and `VersionInv` (local versions exist at the source)
it makes `WindowInv`. The crucial step is a ticket that changes while listed: an update
can bring a ticket into `Matching`, which moves only the lower ranked ones, and
further back (`RankGrows`), so nothing slips to a page already read. A deletion
moves them the other way, and what slips is put into `skipped`.
`MirrorCorrect` proves the refinement of `TicketMirror` from `VersionInv`,
`AtomicCorrect` the action property.

**ZabbixProofs.** `CacheIsNewestSuccess` follows from `RunsInv`: the run under way is
the last one, and what it has collected is not later than now. `StaleForAReason` follows
from `AgeInv`: as long as no refresh after the success has failed or been
abandoned, the age of the row is at most what has been lost since then and one sleep, less
while the sleep has not begun or goes on. No bound on how long anything takes is
assumed. The two together are `WorkerInv`. The reader's properties compare what its three
queries saw at different times, and follow from `ReaderInv`: runs that have ended keep
their status and the row's run never goes back, so what was read stays true
while the worker goes on. That there is a newest failure (`GreatestExists`)
is derived from the well-foundedness of the naturals.

Of the collection: what all three properties need is a fact about strict orders on
finite sets, that the elements with less than n others ahead of them are n, if
there are as many (`FirstCount`; places are an injection into as many numbers as
there are elements, hence onto them, so that no induction is needed).
`WorstHostsShown` applies it to the lexicographic order of ranks, which is total because
the last rank is the id. `LiveHistory` applies it to the times of points. Its
invariant, `SeriesInv`, is inductive because of `NewestJoined`: joining a point to
the newest n points of a series and taking the newest n again gives what
joining it to all points would have given, also when it replaces a point of the same time
and when the window has moved on. `HistoryLostForAReason` adds that a
value within the window always leaves a point, that the value chosen is the newest of
the best mode that has any (`ChosenExists`, from the well-foundedness of the naturals), and
that a failure of the network calls is among the warnings (`AnswersInv`). It does not say
more than the code does: a stopped item of the best mode, or a stored snapshot that does not
validate, are reasons too.

**DeviceCorrelationProofs.** The invariant `IInv` is `Good` of both the committed and the
working rows, `IndexExact`, and the types. `Good` has the separation of
sources, the explanation of conflicts, and confidences; each kind of
observation keeps it by a lemma of its own (`RefreshKeepsGood`, `InsertKeepsGood`,
`MapKeepsGood`), and the index lemmas `AddExact` and `RemoveExact` say that
adding and removing a link's entries agree with building the index anew.
`IndexExact` is what makes `OneRecordPerSource` hold: a candidate found through
an index is judged by its present links. `StoreBounded` and `LinksAreStable`
need a second invariant, `BatchInv`: a batch has added at most `count` links,
and its rows extend the committed ones.

**DeviceIngestionProofs.** `AssetsStayAlone` and `SameHostMeets` are about the
correlation of what ingestion builds, so the proof stands on `IInv`. `IngestionInv`
adds that a link shows what its source can show, that assets are alone, and that a
pair of one hostname has met. An asset matches nothing else (`Strangers`), hence
nothing joins it. That the pair meets needs the index to be exact: the partner's
device must be among the candidates when the second of the two arrives
(`PartnerIsBest`), and nothing else can be joined with a higher confidence.
A link that has drifted drops out of the claim and never comes back into it.

**WorkerProofs.** Of the worker itself only the types are proved; what matters of it
is liveness.

Of the listings: `RequestsBounded` follows from `RequestInv`, since a request may
follow only while a page is left. `VersionInv` (what is stored or received are versions
the source had, and a row received is not older than the stored one) gives the
refinement of `TicketMirror`. `CountIsTrue` and `ListingComplete` are about *places*: the
place of a record is the number of listed records up to it (`SliceSize` says that a page
has as many records as places). `CountInv` is that the rows received are `offset` many and
different; for Wazuh this needs that agents are listed in the order of their ids,
so that no change brings one back. `CompleteInv` is that whatever was there when
the listing began has a place beyond `offset`, has been received, or was `moved` by a
removal.

**AuthProofs.** `LogoutIsFinal` follows from `EndInv`: after the end
is reported the row is revoked, no step takes that back, and a request that came later
cannot pass `ReadSession`. `StaysSignedIn` follows from `UseInv`: the idle
time of the row always belongs to its `seen`, and a request that is about to
write an older time is no more than `Latency` behind the newest use.
`FailuresBounded` follows from `LimitInv`, which counts an admitted attempt from
the moment it passes the check: the failures in the window and the attempts
being verified together stay below the limit plus the number of threads.

Of the users: `CreationsAudited` follows from `AuditInv` (row, event and answers of a name
agree, where a duplicate that is recorded counts as told before it is) and `CreatorInv`: at
most one creation of a name is between `Insert` and its answer, and it finds no row when
it commits. The second is what the unique index and its wait provide.

**AIProofs.** The cache: `CacheInv` says that the lock is held exactly by the
request that generates, that every entry is what a generation left, in the
order of the generations, and why a summary is not there any more: it has
expired, or `MaxEntries` others were made after it (`KeptInv`). `Coalesced` is then
`GeneratingInv`: what is being generated was not to be had when its generation began.
`AnswerIsCurrent` and `OldestExpiresFirst` follow from the entries alone.

The request: `RequestInv` says which summaries have been read at each stage, that a
lookup is about the sources asked for, and that a summary read as healthy is in `wasFine`.
`ConfidenceWarranted` and `StaysInScope` follow from it alone, `SectionsAgree` with
`ModelInv` (the model is asked exactly when it must be), by lemmas about what the cuts
and concatenations of lines keep. `NamesMissingEvidence`
is a matter of counting: limitations are cut off at `LimitationLimit`, so there
must never be too many. `LimitInv` bounds those there are plus those that the lookups left
can still add (`Due`): three, and two before the model's turn or in an answer about one device. The
proof needs `LimitationLimit >= 5`; the code has eight (`ai/models.py:420`).

**ExecutiveDashboardProofs.** `HealthInv` says of the source whose queries are under way
(`Noted`): if it is fine now by the clock that was read, that is in `fineSince`, and so it
is if a success has been committed since the clock was read, since a success of that kind
cannot be old by that clock (`SuccessIsFine`). Hence what the query for the newest run has
seen justifies what the last query makes of it (`Warranted`): if the run seen has not failed and
the success then found is not too old, the source was fine when the run was read, or
became so by the success. Growing old does not disturb this, since the answer does not look
at the present time (`TimeHealth`). `CountInv`
says which numbers read so far still count the stored tickets, as long as
nothing is committed; at the end they are compared by `CountFacts`, which adds up
the cardinalities of disjoint kinds.

## 6. Only model-checked, and not modelled

Only checked by TLC:
- liveness (`CaughtUp`, `RequestsEnd`, `LoopsGoOn`, `ListingsCatchUp`): the prover does not
  do fairness and `ENABLED`;
- the four violations of *Findings*, which are counterexamples;
- `Founded`, which compares three computations case by case over a small number of lines;
  the proof that the recommendations have their facts would repeat `Facts` line by line.

Every other invariant and action property of a passing run is also a theorem.
Nothing is proved by induction over data. No module uses a recursive operator, so that
every one of them can be proved about.

Abstracted everywhere: the wording of warnings and logs, formats of
requests and answers, and fields that no property tells apart. The Freshservice client
has its own retries with Retry-After, folded into success or failure of a call.

Not modelled:
- `integrations/zabbix/trends.py` and `list_resource_trends`: nothing under `src/app` calls
  them; the totals of `_build_summary`, sums without a state;
- the Wazuh indexer (`integrations/wazuh/indexer_client.py`, `service.py`): each request is a
  fixed set of aggregations, all or none, whose result is a choice here;
- in the AI service the readiness probe (`ai/ollama.py:35-118`), the wording of answers and
  their length limits, and how words are matched;
- the Freshservice and Snipe-IT dashboards but for the queries that fit together
  or not: their other counters, distributions and trends are independent counts of the
  kind followed in `ExecutiveDashboard`;
- settings, migrations, pages, routers and Grafana access: no state of their own.

## 7. Plan

Done, in this order: the ticket synchronisation (the system's core data path)
with its abstract mirror; the Zabbix cache; correlation and ingestion; AI
cache; worker; sessions; executive dashboard, each with its proofs; then the
listings of Snipe-IT and Wazuh with their retries, the Zabbix collection, the AI
request and user administration.

Then the proofs of these, so that no refinement or action property, and of the invariants
only `Founded`, is only model-checked.

Left: the safety part of the liveness arguments (that a listing or a generation
that goes on makes progress by a measure that decreases) could be stated as action
properties and proved; the totals of `_build_summary` and the length limits of
`AIAnalysis` could be modelled.
