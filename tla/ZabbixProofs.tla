---------------------------- MODULE ZabbixProofs ----------------------------
(***************************************************************************)
(* Proofs about the Zabbix dashboard cache: what the worker stores, when   *)
(* it stores it, and what a reader may conclude from three queries.  Then  *)
(* about one collection: the hosts that are shown, the history of the live *)
(* series, and the reasons for which it is given up.                       *)
(***************************************************************************)
EXTENDS ZabbixCache, ZabbixCollection, FiniteSetTheorems, TLAPS, WellFoundedInduction

-----------------------------------------------------------------------------
(* The newest failure *)

Less == {p \in Nat \X Nat : p[1] < p[2]}

\* The order of the natural numbers is well founded.
LEMMA LessWellFounded == IsWellFoundedOn(Less, Nat)
<1>1. OpToRel(<, Nat) = Less
  BY DEF OpToRel, Less
<1> QED BY <1>1, NatLessThanWellFounded

\* A set of natural numbers with a bound has a greatest element.
LEMMA GreatestExists ==
    ASSUME NEW n \in Nat, NEW S, S # {}, \A i \in S : i \in Nat /\ i <= n
    PROVE  \E i \in S : \A j \in S : j <= i
<1> DEFINE T == {n - i : i \in S}
<1>1. T \subseteq Nat /\ T # {}
  OBVIOUS
<1>2. PICK x \in T : \A y \in T : <<y, x>> \notin Less
  <2> HIDE DEF T
  <2> QED BY <1>1, LessWellFounded, WFMin, Zenon
<1>3. PICK i \in S : x = n - i
  OBVIOUS
<1>4. SUFFICES ASSUME NEW j \in S PROVE j <= i
  OBVIOUS
<1>5. <<n - j, n - i>> \notin Less
  BY <1>2, <1>3
<1>6. i \in Nat /\ j \in Nat /\ n - j \in Nat /\ n - i \in Nat
  OBVIOUS
<1> QED BY <1>5, <1>6 DEF Less

\* LastFailed is the number of the newest failed run, or 0.
LEMMA LastFailedFacts ==
    ASSUME runs \in Seq(RunStatus)
    PROVE  /\ LastFailed \in 0 .. Last
           /\ LastFailed # 0 => runs[LastFailed] = "failed"
<1>1. CASE Failures = {}
  BY <1>1 DEF LastFailed, Last
<1>2. CASE Failures # {}
  <2>1. \A i \in Failures : i \in Nat /\ i <= Last
    BY DEF Failures, Last
  <2>2. Last \in Nat
    BY DEF Last
  <2>3. \E i \in Failures : \A j \in Failures : j <= i
    BY <1>2, <2>1, <2>2, GreatestExists
  <2>4. LastFailed \in Failures
    BY <1>2, <2>3 DEF LastFailed
  <2> QED BY <2>4 DEF Failures, Last
<1> QED BY <1>1, <1>2

-----------------------------------------------------------------------------
(* The types *)

\* Closing the run that was opened last changes its status and nothing else.
LEMMA ClosedRuns ==
    ASSUME runs \in Seq(RunStatus), NEW s \in RunStatus
    PROVE  /\ [runs EXCEPT ![Last] = s] \in Seq(RunStatus)
           /\ Len([runs EXCEPT ![Last] = s]) = Len(runs)
           /\ \A i \in DOMAIN runs :
                [runs EXCEPT ![Last] = s][i] = IF i = Last THEN s ELSE runs[i]
<1> DEFINE closed == [runs EXCEPT ![Last] = s]
<1>1. /\ Last \in Nat /\ DOMAIN runs = 1 .. Last /\ DOMAIN closed = 1 .. Last
      /\ \A i \in 1 .. Last : closed[i] \in RunStatus
      /\ \A i \in 1 .. Last : closed[i] = IF i = Last THEN s ELSE runs[i]
  BY DEF Last
<1>2. closed = [i \in 1 .. Last |-> closed[i]]
  BY <1>1
<1>3. closed \in Seq(RunStatus) /\ Len(closed) = Last
  <2> HIDE DEF closed
  <2> QED BY <1>1, <1>2
<1> QED BY <1>1, <1>3 DEF Last

\* The initial variables have their types.
LEMMA TypeInit == Init => TypeOK
<1> USE TimingAssumption
<1> SUFFICES ASSUME Init PROVE TypeOK
  OBVIOUS
<1>1. runs \in Seq(RunStatus)
  <2>1. <<>> \in Seq(RunStatus) /\ "success" \in RunStatus
    BY DEF RunStatus
  <2>2. <<"success">> \in Seq(RunStatus)
    BY <2>1
  <2> QED BY <2>1, <2>2 DEF Init
<1>2. cache \in Row
  <2>1. NoRow \in Row
    BY DEF Row, NoRow
  <2>2. \A valid \in BOOLEAN : [run |-> 1, refreshed_at |-> 0, valid |-> valid] \in Row
    BY DEF Row
  <2> QED BY <2>1, <2>2 DEF Init
<1> QED BY <1>1, <1>2 DEF Init, TypeOK, Row, NoRow, NotRead, NoAnswer

\* Every step keeps the types.
LEMMA TypeStep == TypeOK /\ [Next]_vars => TypeOK'
<1> USE TimingAssumption
<1> SUFFICES ASSUME TypeOK, [Next]_vars PROVE TypeOK'
  OBVIOUS
<1> USE DEF TypeOK, Row, workerVars, readerVars
<1>1. CASE StartRefresh
  BY <1>1 DEF StartRefresh, RunStatus
<1>2. CASE RefreshSucceeds
  <2>1. runs' \in Seq(RunStatus)
    BY <1>2, ClosedRuns DEF RefreshSucceeds, RunStatus
  <2> QED BY <1>2, <2>1 DEF RefreshSucceeds, Last
<1>3. CASE RefreshFails \/ RefreshRejected
  <2>1. runs' \in Seq(RunStatus)
    BY <1>3, ClosedRuns DEF RefreshFails, RefreshRejected, RunStatus
  <2>2. /\ worker' = "asleep" /\ wake' = now + Interval /\ completed' = 0 /\ faults' = faults + 1
        /\ UNCHANGED <<now, configured, cache, lost, reader, read, response>>
    BY <1>3 DEF RefreshFails, RefreshRejected, EndsWithoutSuccess, Sleep
  <2> QED BY <2>1, <2>2
<1>4. CASE Collected \/ Correlated \/ Stop \/ Start
  <2>1. UNCHANGED <<now, configured, runs, cache, lost, reader, read, response>>
    BY <1>4 DEF Collected, Correlated, Stop, Start
  <2>2. /\ worker' \in {"asleep", "storing", "stopped"}
        /\ wake' \in {wake, 0, now, now + Interval} /\ completed' \in {completed, 0, now}
        /\ faults' \in {faults, faults + 1}
    BY <1>4 DEF Collected, Correlated, Stop, Start, Sleep
  <2>3. wake' \in Nat /\ completed' \in Nat /\ faults' \in Nat
    BY <2>2
  <2> QED BY <2>1, <2>2, <2>3
<1>5. CASE Tick
  <2>1. lost' \in Int /\ now' \in Nat
    BY <1>5 DEF Tick
  <2>2. UNCHANGED <<configured, runs, cache, worker, wake, completed, reader, read, response, faults>>
    BY <1>5 DEF Tick
  <2> QED BY <2>1, <2>2
<1>6. CASE ReadRow
  <2>1. ASSUME NEW status \in {"unavailable", "not_configured", "bad_response"}, Refuse(status)
        PROVE  TypeOK'
    <3>1. response' = [NoAnswer EXCEPT !.at = now, !.status = status]
      BY <2>1 DEF Refuse
    <3>2. response' \in [status : {"none", "healthy", "degraded", "not_configured", "unavailable",
                                   "bad_response"},
                   run : Nat, refreshed_at : Nat, at : Nat,
                   latest : Nat, failed : BOOLEAN, lastFailed : Nat]
      BY <3>1 DEF NoAnswer
    <3> QED BY <1>6, <2>1, <3>2 DEF ReadRow, Refuse
  <2>2. CASE read' = [NotRead EXCEPT !.at = now, !.row = cache] /\ reader' = "row" /\ UNCHANGED response
    <3>1. read' \in [at : Nat, row : Row, latest : Nat, failed : BOOLEAN, lastFailed : Nat]
      BY <2>2 DEF NotRead, NoRow
    <3> QED BY <1>6, <2>2, <3>1 DEF ReadRow
  <2> QED BY <1>6, <2>1, <2>2 DEF ReadRow
<1>7. CASE ReadLatestRun
  <2>1. LastFailed \in Nat /\ Last \in Nat
    BY LastFailedFacts DEF Last
  <2> QED BY <1>7, <2>1 DEF ReadLatestRun
<1>8. CASE Respond
  <2>1. PICK lastSuccess \in DOMAIN runs :
          response' =
              [status |-> IF ~configured THEN "not_configured"
                          ELSE IF LatestFailed(lastSuccess) \/ Old THEN "degraded"
                          ELSE "healthy",
               run |-> read.row.run,
               refreshed_at |-> read.row.refreshed_at,
               at |-> read.at,
               latest |-> read.latest,
               failed |-> configured /\ LatestFailed(lastSuccess),
               lastFailed |-> read.lastFailed]
    BY <1>8 DEF Respond
  <2>2. (configured /\ LatestFailed(lastSuccess)) \in BOOLEAN
    BY DEF LatestFailed
  <2>3. read' \in [at : Nat, row : Row, latest : Nat, failed : BOOLEAN, lastFailed : Nat]
    BY <1>8 DEF Respond, NotRead, NoRow
  <2>4. response'.status \in {"healthy", "degraded", "not_configured"}
    BY <2>1
  <2>5. response' \in [status : {"none", "healthy", "degraded", "not_configured", "unavailable",
                                 "bad_response"},
                   run : Nat, refreshed_at : Nat, at : Nat,
                   latest : Nat, failed : BOOLEAN, lastFailed : Nat]
    BY <2>1, <2>2, <2>4
  <2> QED BY <1>8, <2>3, <2>5 DEF Respond
<1>9. CASE UNCHANGED vars
  BY <1>9 DEF vars
<1> QED BY <1>1, <1>2, <1>3, <1>4, <1>5, <1>6, <1>7, <1>8, <1>9 DEF Next

\* The variables keep their types.
THEOREM TypeCorrect == Spec => []TypeOK
BY TypeInit, TypeStep, PTL DEF Spec

\* The types of the pieces that the arithmetic is about.
LEMMA Typed == TypeOK => /\ now \in Nat /\ wake \in Nat /\ completed \in Nat
                         /\ lost \in Int /\ Last \in Nat
                         /\ cache.run \in Nat /\ cache.refreshed_at \in Nat
                         /\ DOMAIN runs = 1 .. Last
                         /\ runs \in Seq(RunStatus)
BY DEF TypeOK, Row, Last

-----------------------------------------------------------------------------
(* What the worker stores, and when *)

\* A run under way is the newest one, and what it has collected is not later
\* than now.
RunsInv ==
    /\ CacheIsNewestSuccess
    /\ cache.valid => cache.run # 0
    /\ cache.refreshed_at <= now
    /\ worker \in {"refreshing", "storing"} =>
        /\ configured /\ Last # 0 /\ runs[Last] = "running"
    /\ worker = "storing" => completed <= now

\* As long as no refresh after the success has failed, its age is what has
\* been lost since then and at most one sleep.
AgeInv ==
    cache.run # 0 /\ NoneFailedSince =>
        /\ now - cache.refreshed_at <= lost + Interval
        /\ worker = "correlating" => now - cache.refreshed_at <= lost
        /\ worker = "asleep" /\ now < wake => wake - cache.refreshed_at <= lost + Interval

WorkerInv == RunsInv /\ AgeInv

\* The worker's invariant holds initially: nothing has been lost.
LEMMA WorkerInit == Init => WorkerInv
<1> SUFFICES ASSUME Init PROVE WorkerInv
  OBVIOUS
<1>1. now = 0 /\ wake = 0 /\ worker = "asleep" /\ cache.refreshed_at = 0 /\ lost = 0
  BY DEF Init, NoRow
<1>2. RunsInv
  <2>1. CASE runs = <<>> /\ cache = NoRow
    BY <1>1, <2>1 DEF RunsInv, CacheIsNewestSuccess, NoRow, Last
  <2>2. CASE runs = <<"success">> /\ \E valid \in BOOLEAN : cache = [run |-> 1, refreshed_at |-> 0, valid |-> valid]
    BY <1>1, <2>2 DEF RunsInv, CacheIsNewestSuccess, Last
  <2> QED BY <2>1, <2>2 DEF Init
<1>3. AgeInv
  BY <1>1, TimingAssumption DEF AgeInv
<1> QED BY <1>2, <1>3 DEF WorkerInv

\* A run that ends with another status than success.
LEMMA WorkerFails ==
    ASSUME TypeOK, WorkerInv, RefreshFails \/ RefreshRejected
    PROVE  WorkerInv'
<1> USE TimingAssumption DEF TypeOK, Row
<1>1. /\ worker \in {"refreshing", "storing"} /\ worker' = "asleep"
      /\ UNCHANGED <<now, configured, cache>>
  BY DEF RefreshFails, RefreshRejected, EndsWithoutSuccess, Sleep
<1>2. /\ Len(runs') = Len(runs) /\ DOMAIN runs' = DOMAIN runs
      /\ \A i \in DOMAIN runs : i # Last => runs'[i] = runs[i]
      /\ runs'[Last] # "success"
  <2>1. CASE RefreshFails
    <3>1. "failed" \in RunStatus /\ runs' = [runs EXCEPT ![Last] = "failed"]
      BY <2>1 DEF RefreshFails, RunStatus
    <3>2. Last \in DOMAIN runs
      BY <1>1, Typed DEF WorkerInv, RunsInv
    <3> QED BY <3>1, <3>2, ClosedRuns
  <2>2. CASE RefreshRejected
    BY <2>2, <1>1 DEF RefreshRejected, WorkerInv, RunsInv
  <2> QED BY <2>1, <2>2
<1>3. Last' = Last /\ cache.run # Last
  BY <1>1, <1>2 DEF WorkerInv, RunsInv, CacheIsNewestSuccess, Last
<1>4. CacheIsNewestSuccess'
  BY <1>1, <1>2, <1>3, Typed DEF WorkerInv, RunsInv, CacheIsNewestSuccess
<1>5. RunsInv'
  BY <1>1, <1>4 DEF WorkerInv, RunsInv
<1>6. ~NoneFailedSince'
  BY <1>1, <1>3, Typed DEF NoneFailedSince
<1> QED BY <1>5, <1>6 DEF WorkerInv, AgeInv

\* Every step keeps the worker's invariant.
LEMMA WorkerStep == TypeOK /\ WorkerInv /\ [Next]_vars => WorkerInv'
<1> SUFFICES ASSUME TypeOK, WorkerInv, [Next]_vars PROVE WorkerInv'
  OBVIOUS
<1> USE TimingAssumption, Typed DEF workerVars, readerVars
<1>0. RunsInv /\ AgeInv
  BY DEF WorkerInv
<1>1. CASE StartRefresh
  <2>1. /\ worker = "asleep" /\ configured /\ worker' = "refreshing"
        /\ runs' = Append(runs, "running")
        /\ UNCHANGED <<now, configured, cache, lost>>
    BY <1>1 DEF StartRefresh
  <2>2. /\ Last' = Last + 1 /\ DOMAIN runs' = 1 .. Last + 1
        /\ runs'[Last + 1] = "running"
        /\ \A i \in 1 .. Last : runs'[i] = runs[i]
    BY <2>1 DEF Last
  <2>3. CacheIsNewestSuccess'
    BY <1>0, <2>1, <2>2 DEF RunsInv, CacheIsNewestSuccess
  <2>4. RunsInv'
    BY <1>0, <2>1, <2>2, <2>3 DEF RunsInv
  <2>5. NoneFailedSince' => NoneFailedSince
    BY <2>1, <2>2 DEF NoneFailedSince
  <2> QED BY <1>0, <2>1, <2>4, <2>5 DEF WorkerInv, AgeInv
<1>2. CASE RefreshSucceeds
  <2>1. /\ worker = "storing" /\ worker' = "correlating" /\ lost' = now - completed
        /\ cache' = [run |-> Last, refreshed_at |-> completed, valid |-> TRUE]
        /\ runs' = [runs EXCEPT ![Last] = "success"]
        /\ UNCHANGED <<now, configured>>
    BY <1>2 DEF RefreshSucceeds
  <2>2. "success" \in RunStatus
    BY DEF RunStatus
  <2>3. /\ Last' = Last /\ Last # 0 /\ DOMAIN runs' = 1 .. Last
        /\ runs'[Last] = "success"
    BY <1>0, <2>1, <2>2, ClosedRuns DEF RunsInv, Last
  <2>4. CacheIsNewestSuccess'
    BY <2>1, <2>3 DEF CacheIsNewestSuccess
  <2>5. RunsInv'
    BY <1>0, <2>1, <2>3, <2>4 DEF RunsInv
  <2>6. AgeInv'
    BY <2>1 DEF AgeInv
  <2> QED BY <2>5, <2>6 DEF WorkerInv
<1>3. CASE RefreshFails \/ RefreshRejected
  BY <1>3, WorkerFails
<1>4. CASE Collected
  <2>1. /\ worker = "refreshing" /\ worker' = "storing" /\ completed' = now
        /\ UNCHANGED <<now, configured, runs, cache, lost>>
    BY <1>4 DEF Collected
  <2>2. RunsInv'
    BY <1>0, <2>1 DEF RunsInv, CacheIsNewestSuccess, Last
  <2>3. AgeInv'
    BY <1>0, <2>1 DEF AgeInv, NoneFailedSince, Last
  <2> QED BY <2>2, <2>3 DEF WorkerInv
<1>5. CASE Correlated
  <2>1. /\ worker = "correlating" /\ worker' = "asleep" /\ wake' = now + Interval
        /\ UNCHANGED <<now, configured, runs, cache, lost>>
    BY <1>5 DEF Correlated, Sleep
  <2>2. RunsInv'
    BY <1>0, <2>1 DEF RunsInv, CacheIsNewestSuccess, Last
  <2>3. now \in Nat /\ cache.refreshed_at \in Nat /\ lost \in Int /\ Interval \in Nat
    OBVIOUS
  <2>4. now - cache.refreshed_at <= lost =>
            (now + Interval) - cache.refreshed_at <= lost + Interval
    BY <2>3
  <2>5. AgeInv'
    BY <1>0, <2>1, <2>4 DEF AgeInv, NoneFailedSince, Last
  <2> QED BY <2>2, <2>5 DEF WorkerInv
<1>6. CASE Stop
  <2>1. /\ worker' = "stopped" /\ UNCHANGED <<now, configured, runs, cache, lost>>
    BY <1>6 DEF Stop
  <2>2. RunsInv'
    BY <1>0, <2>1 DEF RunsInv, CacheIsNewestSuccess, Last
  <2>3. worker \in {"refreshing", "storing"} => cache.run # Last
    BY <1>0 DEF RunsInv, CacheIsNewestSuccess
  <2>4. NoneFailedSince' => NoneFailedSince
    BY <2>1, <2>3 DEF NoneFailedSince, Last
  <2>5. AgeInv'
    BY <1>0, <2>1, <2>4 DEF AgeInv
  <2> QED BY <2>2, <2>5 DEF WorkerInv
<1>7. CASE Start
  <2>1. /\ worker = "stopped" /\ worker' = "asleep" /\ wake' = now
        /\ UNCHANGED <<now, configured, runs, cache, lost>>
    BY <1>7 DEF Start
  <2>2. RunsInv'
    BY <1>0, <2>1 DEF RunsInv, CacheIsNewestSuccess, Last
  <2>3. AgeInv'
    BY <1>0, <2>1 DEF AgeInv, NoneFailedSince, Last
  <2> QED BY <2>2, <2>3 DEF WorkerInv
<1>8. CASE Tick
  <2>1. /\ now' = now + 1 /\ UNCHANGED <<configured, runs, cache, worker, wake, completed>>
        /\ lost' = IF worker = "asleep" /\ now < wake THEN lost ELSE lost + 1
    BY <1>8 DEF Tick
  <2>2. RunsInv'
    BY <1>0, <2>1 DEF RunsInv, CacheIsNewestSuccess, Last
  <2>3. NoneFailedSince' <=> NoneFailedSince
    BY <2>1 DEF NoneFailedSince, Last
  <2>4. SUFFICES ASSUME cache.run # 0, NoneFailedSince
                 PROVE  /\ now + 1 - cache.refreshed_at <= lost' + Interval
                        /\ worker = "correlating" => now + 1 - cache.refreshed_at <= lost'
                        /\ worker = "asleep" /\ now + 1 < wake =>
                                wake - cache.refreshed_at <= lost' + Interval
    <3> QED BY <2>1, <2>2, <2>3 DEF WorkerInv, AgeInv
  <2>5. /\ now - cache.refreshed_at <= lost + Interval
        /\ worker = "correlating" => now - cache.refreshed_at <= lost
        /\ worker = "asleep" /\ now < wake => wake - cache.refreshed_at <= lost + Interval
    BY <1>0, <2>4 DEF AgeInv
  <2>6. CASE worker = "asleep" /\ now < wake
    BY <2>1, <2>5, <2>6
  <2>7. CASE ~(worker = "asleep" /\ now < wake)
    BY <2>1, <2>5, <2>7
  <2> QED BY <2>6, <2>7
<1>9. CASE ReadRow \/ ReadLatestRun \/ Respond \/ UNCHANGED vars
  <2>1. UNCHANGED <<now, configured, runs, cache, worker, wake, completed, lost>>
    BY <1>9 DEF ReadRow, ReadLatestRun, Respond, vars
  <2> QED BY <1>0, <2>1 DEF WorkerInv, RunsInv, AgeInv, NoneFailedSince, CacheIsNewestSuccess, Last
<1> QED BY <1>1, <1>2, <1>3, <1>4, <1>5, <1>6, <1>7, <1>8, <1>9 DEF Next

\* Types and the worker's invariant hold in every state.
LEMMA WorkerInvariance == Spec => [](TypeOK /\ WorkerInv)
<1>1. Spec => []TypeOK
  BY TypeCorrect
<1>2. TypeOK /\ WorkerInv /\ [Next]_vars => WorkerInv'
  BY WorkerStep
<1> QED BY <1>1, <1>2, WorkerInit, PTL DEF Spec

\* The snapshot served is always the one of the newest successful refresh.
THEOREM CacheCorrect == Spec => []CacheIsNewestSuccess
<1>1. WorkerInv => CacheIsNewestSuccess
  BY DEF WorkerInv, RunsInv
<1> QED BY <1>1, WorkerInvariance, PTL

\* The data only look too old after a failed or abandoned refresh, or when more
\* than an interval has been spent outside the sleep of the loop: the sleep
\* alone uses up one of the two intervals of the window, never both.
THEOREM StaleCorrect == Spec => []StaleForAReason
<1>1. TypeOK /\ WorkerInv => StaleForAReason
  <2> SUFFICES ASSUME TypeOK, WorkerInv, cache.run # 0, NoneFailedSince,
                      now - cache.refreshed_at > StaleAfter
               PROVE  lost > StaleAfter - Interval
    BY DEF StaleForAReason
  <2>1. now - cache.refreshed_at <= lost + Interval
    BY DEF WorkerInv, AgeInv
  <2> QED BY <2>1, Typed, TimingAssumption
<1> QED BY <1>1, WorkerInvariance, PTL

-----------------------------------------------------------------------------
(* What a reader may conclude *)

\* The statuses of runs that have ended stay, so that what a request has read
\* is still true when it answers, although the worker goes on.
ReaderInv ==
    /\ reader # "idle" =>
        /\ read.row.run \in DOMAIN runs
        /\ runs[read.row.run] = "success"
    /\ reader = "latest" =>
        /\ read.latest \in DOMAIN runs
        /\ read.row.run <= read.latest
        /\ read.failed => runs[read.latest] = "failed"
        /\ read.lastFailed <= read.latest
        /\ read.lastFailed = read.latest => read.failed
    /\ BlamesLaterFailure
    /\ HealthyIsCurrent

\* The reader's invariant holds initially: nothing is read.
LEMMA ReaderInit == Init => ReaderInv
BY DEF Init, ReaderInv, BlamesLaterFailure, HealthyIsCurrent, NoAnswer

\* A step of the worker opens a run, closes the one under way, or neither.
LEMMA RunsKept ==
    ASSUME TypeOK, WorkerInv,
           \/ StartRefresh \/ Collected \/ RefreshSucceeds \/ Correlated
           \/ RefreshFails \/ RefreshRejected \/ Stop \/ Start \/ Tick
    PROVE  /\ UNCHANGED readerVars /\ configured' = configured
           /\ \A i \in DOMAIN runs :
                /\ i \in DOMAIN runs'
                /\ runs[i] # "running" => runs'[i] = runs[i]
           /\ Last <= Last'
<1> USE Typed
<1>1. CASE StartRefresh
  BY <1>1 DEF StartRefresh, Last
<1>2. CASE RefreshSucceeds
  <2>1. "success" \in RunStatus /\ runs' = [runs EXCEPT ![Last] = "success"]
    BY <1>2 DEF RefreshSucceeds, RunStatus
  <2>2. runs[Last] = "running"
    BY <1>2 DEF RefreshSucceeds, WorkerInv, RunsInv
  <2>3. DOMAIN runs' = DOMAIN runs /\ Last' = Last
    BY <2>1, ClosedRuns DEF Last
  <2>4. \A i \in DOMAIN runs : i # Last => runs'[i] = runs[i]
    BY <2>1
  <2> QED BY <1>2, <2>2, <2>3, <2>4 DEF RefreshSucceeds
<1>3. CASE RefreshFails
  <2>1. "failed" \in RunStatus /\ runs' = [runs EXCEPT ![Last] = "failed"]
    BY <1>3 DEF RefreshFails, RunStatus
  <2>2. runs[Last] = "running"
    BY <1>3 DEF RefreshFails, EndsWithoutSuccess, WorkerInv, RunsInv
  <2>3. DOMAIN runs' = DOMAIN runs /\ Last' = Last
    BY <2>1, ClosedRuns DEF Last
  <2>4. \A i \in DOMAIN runs : i # Last => runs'[i] = runs[i]
    BY <2>1
  <2> QED BY <1>3, <2>2, <2>3, <2>4 DEF RefreshFails, EndsWithoutSuccess
<1>4. CASE Collected \/ Correlated \/ RefreshRejected \/ Stop \/ Start \/ Tick
  BY <1>4 DEF Collected, Correlated, RefreshRejected, EndsWithoutSuccess, Stop, Start, Tick, Last
<1> QED BY <1>1, <1>2, <1>3, <1>4

\* Every step keeps the reader's invariant, given the worker's.
LEMMA ReaderStep == TypeOK /\ WorkerInv /\ ReaderInv /\ [Next]_vars => ReaderInv'
<1> SUFFICES ASSUME TypeOK, WorkerInv, ReaderInv, [Next]_vars PROVE ReaderInv'
  OBVIOUS
<1> USE Typed DEF workerVars, readerVars
<1>0. /\ read.row.run \in Nat /\ read.latest \in Nat /\ read.lastFailed \in Nat
      /\ response.run \in Nat /\ response.latest \in Nat /\ response.lastFailed \in Nat
  BY DEF TypeOK, Row
<1>1. CASE \/ StartRefresh \/ Collected \/ RefreshSucceeds \/ Correlated
           \/ RefreshFails \/ RefreshRejected \/ Stop \/ Start \/ Tick
  <2>1. /\ reader' = reader /\ read' = read /\ response' = response
        /\ configured' = configured
        /\ \A i \in DOMAIN runs : /\ i \in DOMAIN runs'
                                  /\ runs[i] # "running" => runs'[i] = runs[i]
        /\ Last <= Last'
    BY <1>1, RunsKept
  <2>2. BlamesLaterFailure'
    <3> SUFFICES ASSUME response.failed
                 PROVE  /\ response.latest > response.run
                        /\ response.latest <= Last'
                        /\ runs'[response.latest] = "failed"
      BY <2>1 DEF BlamesLaterFailure
    <3>1. /\ response.latest > response.run /\ response.latest <= Last
          /\ runs[response.latest] = "failed"
      BY DEF ReaderInv, BlamesLaterFailure
    <3>2. Last' \in Nat
      <4>1. TypeOK'
        BY TypeStep
      <4> QED BY <4>1 DEF TypeOK, Last
    <3> QED BY <1>0, <2>1, <3>1, <3>2
  <2>3. HealthyIsCurrent'
    BY <2>1 DEF ReaderInv, HealthyIsCurrent
  <2> QED BY <2>1, <2>2, <2>3 DEF ReaderInv
<1>2. CASE ReadRow
  <2>1. UNCHANGED <<runs, configured>>
    BY <1>2 DEF ReadRow
  <2>2. ASSUME NEW status \in {"unavailable", "not_configured", "bad_response"}, Refuse(status)
        PROVE  ReaderInv'
    <3>1. reader = "idle" /\ reader' = "idle"
      BY <1>2, <2>2 DEF ReadRow, Refuse
    <3>2. ~response'.failed /\ response'.status # "healthy"
      BY <2>2 DEF Refuse, NoAnswer
    <3> QED BY <2>1, <3>1, <3>2 DEF ReaderInv, BlamesLaterFailure, HealthyIsCurrent
  <2>3. CASE /\ cache.valid /\ reader' = "row" /\ UNCHANGED response
             /\ read' = [NotRead EXCEPT !.at = now, !.row = cache]
    <3>1. reader' = "row" /\ read'.row = cache /\ response' = response
      BY <2>3 DEF NotRead
    <3>2. cache.run \in DOMAIN runs /\ runs[cache.run] = "success"
      BY <2>3 DEF WorkerInv, RunsInv, CacheIsNewestSuccess
    <3> QED BY <2>1, <3>1, <3>2 DEF ReaderInv, BlamesLaterFailure, HealthyIsCurrent, Last
  <2> QED BY <1>2, <2>2, <2>3 DEF ReadRow
<1>3. CASE ReadLatestRun
  <2>1. /\ reader = "row" /\ reader' = "latest" /\ UNCHANGED <<runs, configured, response>>
        /\ read' = [read EXCEPT !.latest = Last, !.failed = (runs[Last] = "failed"),
                                !.lastFailed = LastFailed]
    BY <1>3 DEF ReadLatestRun
  <2>2. /\ read'.latest = Last /\ read'.failed = (runs[Last] = "failed")
        /\ read'.lastFailed = LastFailed /\ read'.row = read.row
    BY <2>1 DEF TypeOK
  <2>3. LastFailed <= Last /\ (LastFailed # 0 => runs[LastFailed] = "failed")
    BY LastFailedFacts
  <2>4. /\ read.row.run \in DOMAIN runs /\ runs[read.row.run] = "success"
        /\ read.row.run <= Last /\ Last \in DOMAIN runs
    BY <2>1 DEF ReaderInv
  <2>5. Last # 0 /\ (LastFailed = Last => runs[Last] = "failed")
    BY <2>3, <2>4
  <2>6. BlamesLaterFailure' /\ HealthyIsCurrent'
    BY <2>1 DEF ReaderInv, BlamesLaterFailure, HealthyIsCurrent, Last
  <2>7. Last' = Last /\ DOMAIN runs' = DOMAIN runs /\ runs' = runs
    BY <2>1 DEF Last
  <2>8. /\ read'.latest \in DOMAIN runs' /\ read'.row.run <= read'.latest
        /\ read'.failed => runs'[read'.latest] = "failed"
        /\ read'.lastFailed <= read'.latest
        /\ read'.lastFailed = read'.latest => read'.failed
    BY <2>2, <2>3, <2>4, <2>5, <2>7
  <2> QED BY <2>1, <2>2, <2>4, <2>6, <2>7, <2>8 DEF ReaderInv
<1>4. CASE Respond
  <2>1. PICK lastSuccess \in DOMAIN runs :
          /\ runs[lastSuccess] = "success"
          /\ response' =
                [status |-> IF ~configured THEN "not_configured"
                            ELSE IF LatestFailed(lastSuccess) \/ Old THEN "degraded"
                            ELSE "healthy",
                 run |-> read.row.run,
                 refreshed_at |-> read.row.refreshed_at,
                 at |-> read.at,
                 latest |-> read.latest,
                 failed |-> configured /\ LatestFailed(lastSuccess),
                 lastFailed |-> read.lastFailed]
    BY <1>4 DEF Respond
  <2>2. reader = "latest" /\ reader' = "idle" /\ UNCHANGED <<runs, configured>>
    BY <1>4 DEF Respond
  <2>3. /\ read.latest \in DOMAIN runs /\ read.row.run <= read.latest
        /\ runs[read.row.run] = "success"
        /\ read.failed => runs[read.latest] = "failed"
        /\ read.lastFailed <= read.latest
        /\ read.lastFailed = read.latest => read.failed
    BY <2>2 DEF ReaderInv
  <2>4. BlamesLaterFailure'
    <3>1. SUFFICES ASSUME response'.failed
                   PROVE  /\ read.latest > read.row.run
                          /\ read.latest <= Last
                          /\ runs[read.latest] = "failed"
      BY <2>1, <2>2 DEF BlamesLaterFailure, Last
    <3>2. read.failed
      BY <2>1, <3>1 DEF LatestFailed
    <3> QED BY <1>0, <2>3, <3>2
  <2>5. HealthyIsCurrent'
    <3>1. SUFFICES ASSUME response'.status = "healthy"
                   PROVE  /\ configured /\ read.at - read.row.refreshed_at <= StaleAfter
                          /\ read.lastFailed > read.row.run => read.latest > read.lastFailed
      BY <2>1, <2>2 DEF HealthyIsCurrent
    <3>2. configured /\ ~LatestFailed(lastSuccess) /\ ~Old
      BY <2>1, <3>1
    <3>3. read.lastFailed # read.latest
      BY <2>1, <2>3, <3>2 DEF LatestFailed
    <3>4. read.at - read.row.refreshed_at <= StaleAfter
      BY <3>2, TimingAssumption DEF Old, TypeOK, Row
    <3> QED BY <1>0, <2>3, <3>2, <3>3, <3>4
  <2> QED BY <2>2, <2>4, <2>5 DEF ReaderInv
<1>5. CASE UNCHANGED vars
  BY <1>5 DEF vars, ReaderInv, BlamesLaterFailure, HealthyIsCurrent, Last
<1> QED BY <1>1, <1>2, <1>3, <1>4, <1>5 DEF Next

\* The reader's invariant holds in every state.
LEMMA ReaderInvariance == Spec => []ReaderInv
<1>1. Spec => [](TypeOK /\ WorkerInv)
  BY WorkerInvariance
<1>2. TypeOK /\ WorkerInv /\ ReaderInv /\ [Next]_vars => ReaderInv'
  BY ReaderStep
<1> QED BY <1>1, <1>2, ReaderInit, PTL DEF Spec

\* The warning about a failed refresh is given for a later one than the one
\* that stored the data shown.
THEOREM BlameCorrect == Spec => []BlamesLaterFailure
<1>1. ReaderInv => BlamesLaterFailure
  BY DEF ReaderInv
<1> QED BY <1>1, ReaderInvariance, PTL

\* An answer "healthy" carries data of the window, and a failure after that
\* data had been followed by another attempt.
THEOREM HealthyCorrect == Spec => []HealthyIsCurrent
<1>1. ReaderInv => HealthyIsCurrent
  BY DEF ReaderInv
<1> QED BY <1>1, ReaderInvariance, PTL

-----------------------------------------------------------------------------
(* The first elements of an ordered set *)

StrictOrder(S, R) ==
    /\ \A x \in S : <<x, x>> \notin R
    /\ \A x, y, z \in S : <<x, y>> \in R /\ <<y, z>> \in R => <<x, z>> \in R
    /\ \A x, y \in S : x # y => <<x, y>> \in R \/ <<y, x>> \in R

Ahead(S, R, x) == {y \in S : <<y, x>> \in R}
First(S, R, n) == {x \in S : Cardinality(Ahead(S, R, x)) < n}

\* Subsets of a finite set are finite, and no larger.
LEMMA Smaller ==
    ASSUME NEW T, IsFiniteSet(T), NEW S \in SUBSET T
    PROVE  /\ IsFiniteSet(S) /\ Cardinality(S) \in Nat /\ Cardinality(T) \in Nat
           /\ Cardinality(S) <= Cardinality(T)
           /\ Cardinality(S) = Cardinality(T) => S = T
BY FS_Subset, FS_CardinalityType

\* What is further ahead has less before it.
LEMMA AheadGrows ==
    ASSUME NEW S, IsFiniteSet(S), NEW R, StrictOrder(S, R), NEW x \in S, NEW y \in S,
           <<x, y>> \in R
    PROVE  Cardinality(Ahead(S, R, x)) < Cardinality(Ahead(S, R, y))
<1> DEFINE A == Ahead(S, R, x)
           B == Ahead(S, R, y)
<1>1. A \in SUBSET B /\ B \in SUBSET S /\ x \in B /\ x \notin A
  BY DEF Ahead, StrictOrder
<1> HIDE DEF A, B
<1>2. IsFiniteSet(B)
  BY <1>1, Smaller
<1>3. /\ Cardinality(A) \in Nat /\ Cardinality(B) \in Nat
      /\ Cardinality(A) <= Cardinality(B) /\ Cardinality(A) # Cardinality(B)
  BY <1>1, <1>2, Smaller
<1> QED BY <1>3 DEF A, B

\* The first n are n of them, if there are as many.
LEMMA FirstCount ==
    ASSUME NEW S, IsFiniteSet(S), NEW R, StrictOrder(S, R), NEW n \in Nat
    PROVE  /\ IsFiniteSet(First(S, R, n))
           /\ Cardinality(First(S, R, n)) = IF Cardinality(S) < n THEN Cardinality(S) ELSE n
<1> DEFINE place(x) == Cardinality(Ahead(S, R, x))
           N == 0 .. Cardinality(S) - 1
           f == [x \in S |-> place(x)]
           F == First(S, R, n)
           m == IF Cardinality(S) < n THEN Cardinality(S) ELSE n
           M == 0 .. m - 1
           g == [x \in F |-> place(x)]
<1>0. Cardinality(S) \in Nat
  BY Smaller
<1>1. \A x \in S : place(x) \in N
  <2> SUFFICES ASSUME NEW x \in S PROVE place(x) \in N
    OBVIOUS
  <2>1. Ahead(S, R, x) \in SUBSET S /\ Ahead(S, R, x) # S
    BY DEF Ahead, StrictOrder
  <2>2. place(x) \in Nat /\ place(x) <= Cardinality(S) /\ place(x) # Cardinality(S)
    BY <2>1, Smaller
  <2> HIDE DEF place
  <2> QED BY <1>0, <2>2
<1>2. \A x, y \in S : place(x) = place(y) => x = y
  <2> SUFFICES ASSUME NEW x \in S, NEW y \in S, x # y PROVE place(x) # place(y)
    OBVIOUS
  <2>1. place(x) < place(y) \/ place(y) < place(x)
    BY AheadGrows DEF StrictOrder
  <2>2. place(x) \in Int /\ place(y) \in Int
    <3> HIDE DEF place
    <3> QED BY <1>1
  <2> HIDE DEF place
  <2> QED BY <2>1, <2>2
<1>3. F = {x \in S : place(x) < n}
  BY DEF First
<1> HIDE DEF place, F
<1>4. f \in Injection(S, N)
  BY <1>1, <1>2 DEF Injection, IsInjective
<1>5. IsFiniteSet(N) /\ Cardinality(N) = Cardinality(S)
  <2> DEFINE last == Cardinality(S) - 1
  <2>1. 0 \in Int /\ last \in Int /\ last - 0 + 1 = Cardinality(S) /\ (0 > last <=> Cardinality(S) = 0)
    BY <1>0
  <2> HIDE DEF last
  <2>2. IsFiniteSet(0 .. last)
        /\ Cardinality(0 .. last) = IF 0 > last THEN 0 ELSE last - 0 + 1
    BY <2>1, FS_Interval
  <2> QED BY <2>1, <2>2 DEF last
<1>6. f \in Surjection(S, N)
  BY <1>4, <1>5, FS_Injection
<1>7. \A i \in N : \E x \in S : place(x) = i
  BY <1>6 DEF Surjection
<1>8. m \in Nat /\ \A i \in N : i < n <=> i \in M
  BY <1>0
<1>9. M \subseteq N
  BY <1>0
<1>10. \A x \in F : x \in S /\ place(x) \in M
  BY <1>1, <1>3, <1>8
<1> HIDE DEF m, M, N
<1>11. g \in Injection(F, M)
  BY <1>2, <1>10 DEF Injection, IsInjective
<1>12. \A i \in M : \E x \in F : place(x) = i
  BY <1>3, <1>7, <1>8, <1>9
<1>13. g \in Surjection(F, M)
  BY <1>10, <1>12 DEF Surjection
<1>14. IsFiniteSet(M) /\ Cardinality(M) = m
  <2> DEFINE last == m - 1
  <2>1. 0 \in Int /\ last \in Int /\ last - 0 + 1 = m /\ (0 > last <=> m = 0)
    BY <1>8
  <2> HIDE DEF last
  <2>2. IsFiniteSet(0 .. last)
        /\ Cardinality(0 .. last) = IF 0 > last THEN 0 ELSE last - 0 + 1
    BY <2>1, FS_Interval
  <2> QED BY <2>1, <2>2 DEF last, M
<1>15. IsFiniteSet(F) /\ Cardinality(F) = m
  BY <1>11, <1>13, <1>14, FS_Injection
<1> QED BY <1>15 DEF F, m

\* A first one is ahead of the others.
LEMMA FirstAhead ==
    ASSUME NEW S, IsFiniteSet(S), NEW R, StrictOrder(S, R), NEW n \in Nat,
           NEW x \in First(S, R, n), NEW y \in S \ First(S, R, n)
    PROVE  <<x, y>> \in R
<1>1. <<y, x>> \in R \/ <<x, y>> \in R
  BY DEF First, StrictOrder
<1>2. ASSUME <<y, x>> \in R PROVE FALSE
  <2>1. Cardinality(Ahead(S, R, y)) < Cardinality(Ahead(S, R, x))
    BY <1>2, AheadGrows DEF First
  <2>2. Cardinality(Ahead(S, R, x)) < n /\ ~(Cardinality(Ahead(S, R, y)) < n)
    BY DEF First
  <2>3. Cardinality(Ahead(S, R, x)) \in Nat /\ Cardinality(Ahead(S, R, y)) \in Nat
    BY Smaller DEF Ahead
  <2> QED BY <2>1, <2>2, <2>3
<1> QED BY <1>1, <1>2

\* There is a very first one.
LEMMA FirstExists ==
    ASSUME NEW S, IsFiniteSet(S), S # {}, NEW R, StrictOrder(S, R)
    PROVE  \E x \in S : Ahead(S, R, x) = {}
<1>1. Cardinality(S) \in Nat /\ Cardinality(S) # 0
  BY FS_EmptySet, FS_CardinalityType
<1>2. IsFiniteSet(First(S, R, 1)) /\ Cardinality(First(S, R, 1)) = 1
  BY <1>1, FirstCount
<1>3. PICK x : x \in First(S, R, 1)
  BY <1>2, FS_EmptySet
<1>4. /\ x \in S /\ Cardinality(Ahead(S, R, x)) < 1
      /\ IsFiniteSet(Ahead(S, R, x)) /\ Cardinality(Ahead(S, R, x)) \in Nat
  BY <1>3, Smaller DEF First, Ahead
<1>5. Cardinality(Ahead(S, R, x)) = 0
  BY <1>4
<1> QED BY <1>4, <1>5, FS_EmptySet

\* A finite set of numbers has a largest one.
LEMMA LargestType ==
    ASSUME NEW S, IsFiniteSet(S), S \subseteq Int, NEW default \in Int
    PROVE  /\ Largest(S, default) \in Int
           /\ S = {} => Largest(S, default) = default
           /\ S # {} => Largest(S, default) \in S
           /\ \A m \in S : m <= Largest(S, default)
<1>1. CASE S = {}
  BY <1>1 DEF Largest
<1>2. CASE S # {}
  <2> DEFINE R == {p \in S \X S : p[1] > p[2]}
  <2>1. StrictOrder(S, R)
    BY DEF StrictOrder
  <2>2. \A x, y \in S : <<y, x>> \in R <=> y > x
    OBVIOUS
  <2> HIDE DEF R
  <2>3. PICK x \in S : Ahead(S, R, x) = {}
    BY <1>2, <2>1, FirstExists
  <2>4. \A m \in S : m <= x
    <3>1. \A m \in S : ~(m > x) /\ m \in Int /\ x \in Int
      BY <2>2, <2>3 DEF Ahead
    <3> QED BY <3>1
  <2>5. Largest(S, default) \in S /\ \A m \in S : m <= Largest(S, default)
    BY <1>2, <2>4 DEF Largest
  <2> QED BY <1>2, <2>5
<1> QED BY <1>1, <1>2

\* The image of a finite set is finite.
LEMMA ImageFinite ==
    ASSUME NEW S, IsFiniteSet(S), NEW f, DOMAIN f = S, f \in [S -> {f[x] : x \in S}]
    PROVE  IsFiniteSet({f[x] : x \in S})
<1>1. f \in Surjection(S, {f[x] : x \in S})
  BY DEF Surjection
<1> QED BY <1>1, FS_Surjection

-----------------------------------------------------------------------------
(* The types of a collection *)

\* There are finitely many items, and what is known of one.
LEMMA ItemFacts ==
    /\ IsFiniteSet(Item) /\ Item \subseteq Nat
    /\ \A i \in Item : ItemOf[i].host \in Host /\ ItemOf[i].metric \in ResourceMetric \cup NetworkMetric
    /\ \A i \in Item : ModeRank(i) \in 1 .. 3
<1>1. /\ Len(ItemOf) \in Nat /\ Item = 1 .. Len(ItemOf)
      /\ \A i \in Item : ItemOf[i] \in [host : Host, metric : DOMAIN ModeOrder, mode : STRING]
  <2> DEFINE R == [host : Host, metric : DOMAIN ModeOrder, mode : STRING]
  <2>1. ItemOf \in Seq(R)
    BY CollectionAssumption
  <2> HIDE DEF R
  <2>2. /\ Len(ItemOf) \in Nat /\ DOMAIN ItemOf = 1 .. Len(ItemOf)
        /\ \A i \in DOMAIN ItemOf : ItemOf[i] \in R
    BY <2>1
  <2> QED BY <2>2 DEF R, Item
<1>2. IsFiniteSet(Item) /\ Item \subseteq Nat
  <2>1. 1 \in Int /\ Len(ItemOf) \in Int /\ Item \subseteq Nat
    BY <1>1
  <2> QED BY <1>1, <2>1, FS_Interval, Zenon
<1>3. DOMAIN ModeOrder = ResourceMetric \cup NetworkMetric
  BY DEF ModeOrder, ResourceMetric, NetworkMetric
<1>4. \A m \in DOMAIN ModeOrder : DOMAIN ModeOrder[m] \subseteq 1 .. 3
  BY DEF ModeOrder
<1>5. ASSUME NEW i \in Item PROVE ModeRank(i) \in 1 .. 3
  <2>1. ItemOf[i].metric \in DOMAIN ModeOrder
    BY <1>1
  <2>2. \E n \in DOMAIN ModeOrder[ItemOf[i].metric] :
            ModeOrder[ItemOf[i].metric][n] = ItemOf[i].mode
    BY CollectionAssumption
  <2>3. \E n \in 1 .. 3 : ModeOrder[ItemOf[i].metric][n] = ItemOf[i].mode
    BY <1>4, <2>1, <2>2
  <2> HIDE DEF Item
  <2> QED BY <2>3 DEF ModeRank
<1> QED BY <1>1, <1>2, <1>3, <1>5

\* There are finitely many problems.
LEMMA ProblemsFinite == IsFiniteSet(Problem)
<1>1. IsFiniteSet(Host)
  BY CollectionAssumption, FS_Interval DEF Host
<1>2. IsFiniteSet(Severities)
  <2> DEFINE f == [s \in Severities |-> SeverityRank[s]]
  <2>1. f \in Injection(Severities, 1 .. 7)
    BY CollectionAssumption DEF SeverityRank, Injection, IsInjective
  <2>2. IsFiniteSet(1 .. 7)
    <3>1. 1 \in Int /\ 7 \in Int
      OBVIOUS
    <3> QED BY <3>1, FS_Interval, Zenon
  <2> QED BY <2>1, <2>2, FS_Injection
<1>3. IsFiniteSet(Host \X Severities)
  BY <1>1, <1>2, FS_Product
<1>4. [p \in Problem |-> <<p.host, p.severity>>] \in Injection(Problem, Host \X Severities)
  BY DEF Injection, IsInjective, Problem
<1> QED BY <1>3, <1>4, FS_Injection

\* The variables keep their types.
THEOREM CollectionTypeCorrect == CollectionSpec => []CollectionTypeOK
<1> USE DEF CollectionTypeOK, zabbix, refresh
<1>0. NothingGot \in Answers
  <2>1. <<>> \in [{} -> HostState]
    OBVIOUS
  <2>2. <<>> \in HostList
    BY <2>1 DEF HostList
  <2> QED BY <2>2 DEF NothingGot, Answers
<1>1. CollectionInit => CollectionTypeOK
  BY <1>0 DEF CollectionInit, HostState
<1>2. CollectionTypeOK /\ [CollectionNext]_collectionVars => CollectionTypeOK'
  <2> SUFFICES ASSUME CollectionTypeOK, [CollectionNext]_collectionVars PROVE CollectionTypeOK'
    OBVIOUS
  <2>1. ASSUME NEW h \in Host, HostChanges(h) PROVE CollectionTypeOK'
    BY <2>1, CollectionAssumption DEF HostChanges, Changes
  <2>2. ASSUME NEW p \in Problem, ProblemChanges(p) PROVE CollectionTypeOK'
    BY <2>2 DEF ProblemChanges, Changes
  <2>3. ASSUME NEW i \in Item, Measure(i) PROVE CollectionTypeOK'
    BY <2>3, CollectionAssumption DEF Measure, Changes
  <2>4. CASE TimePasses
    BY <2>4 DEF TimePasses
  <2>5. CASE StartCollection
    BY <1>0, <2>5 DEF StartCollection
  <2>6. CASE ListHosts
    <3> DEFINE S == {g \in Host : hostState[g] # "absent"}
               listed == [h \in S |-> hostState[h]]
    <3>1. S \in SUBSET Host /\ listed \in [S -> HostState]
      OBVIOUS
    <3> HIDE DEF S
    <3>2. listed \in HostList
      BY <3>1 DEF HostList
    <3> QED BY <2>6, <3>2 DEF ListHosts, Answered, Answers, S
  <2>7. CASE ListProblems
    BY <2>7 DEF ListProblems, Answered, Answers
  <2>8. CASE ListTriggers
    BY <2>8 DEF ListTriggers, Answered, Answers
  <2>9. ASSUME NEW m \in Metric, ListItems(m) PROVE CollectionTypeOK'
    <3>1. {[item |-> i, clock |-> sample[i].clock, raw |-> sample[i].raw] :
                i \in {j \in Item : /\ ItemOf[j].metric = m
                                    /\ hostState[ItemOf[j].host] \notin {"absent", "disabled"}
                                    /\ sample[j].clock # 0}} \subseteq Sample
      BY DEF Sample
    <3> QED BY <2>9, <3>1 DEF ListItems, Answered, Answers
  <2>10. CASE NetworkFails
    <3> DEFINE kept == {s \in got.samples : ItemOf[s.item].metric \notin NetworkMetric}
    <3>1. got' = [got EXCEPT !.samples = kept, !.gaps = @ \cup {"network"}, !.lost = TRUE]
      BY <2>10 DEF NetworkFails
    <3>2. got' \in Answers
      <4>1. kept \in SUBSET Sample
        BY DEF Answers
      <4> HIDE DEF kept
      <4> QED BY <3>1, <4>1 DEF Answers
    <3>3. done' \subseteq Calls
      BY <2>10 DEF NetworkFails, Calls
    <3> QED BY <2>10, <3>2, <3>3 DEF NetworkFails, Fails
  <2>11. CASE CoreFails \/ StoreFails \/ ModelsChange
    BY <1>0, <2>11 DEF CoreFails, StoreFails, ModelsChange, Fails, EndCollection
  <2>12. CASE GatherEnds
    BY <2>12 DEF GatherEnds
  <2>13. CASE StoreCollected
    BY <1>0, <2>13 DEF StoreCollected, Fails, EndCollection
  <2>14. CASE UNCHANGED collectionVars
    BY <2>14 DEF collectionVars
  <2> QED BY <2>1, <2>2, <2>3, <2>4, <2>5, <2>6, <2>7, <2>8, <2>9, <2>10, <2>11, <2>12, <2>13,
             <2>14 DEF CollectionNext
<1> QED BY <1>1, <1>2, PTL DEF CollectionSpec

-----------------------------------------------------------------------------
(* What has been answered *)

\* There are finitely many samples, one of an item, of the metrics that have
\* been asked for; and a failure of the network calls is a gap.
AnswersInv ==
    /\ IsFiniteSet(got.samples)
    /\ \A s \in got.samples : ItemOf[s.item].metric \in done
    /\ \A s, t \in got.samples : s.item = t.item => s = t
    /\ got.lost => "network" \in got.gaps

\* They are so all the time.
LEMMA AnswersInvariant == CollectionSpec => [](CollectionTypeOK /\ AnswersInv)
<1>1. CollectionInit => AnswersInv
  BY FS_EmptySet DEF CollectionInit, NothingGot, AnswersInv
<1>2. CollectionTypeOK /\ AnswersInv /\ [CollectionNext]_collectionVars => AnswersInv'
  <2> SUFFICES ASSUME CollectionTypeOK, AnswersInv, [CollectionNext]_collectionVars
               PROVE  AnswersInv'
    OBVIOUS
  <2>0. NothingGot.samples = {} /\ IsFiniteSet(NothingGot.samples) /\ ~NothingGot.lost
    BY FS_EmptySet DEF NothingGot
  <2>1. CASE got' = got /\ done' = done
    BY <2>1 DEF AnswersInv
  <2>2. CASE got' = NothingGot
    BY <2>0, <2>2 DEF AnswersInv
  <2>3. CASE ListHosts \/ ListProblems \/ ListTriggers
    <3>1. /\ got'.samples = got.samples /\ got'.lost = got.lost /\ got'.gaps = got.gaps
          /\ done \subseteq done'
      BY <2>3 DEF ListHosts, ListProblems, ListTriggers, Answered, CollectionTypeOK, Answers
    <3> QED BY <3>1 DEF AnswersInv
  <2>4. ASSUME NEW m \in Metric, ListItems(m) PROVE AnswersInv'
    <3> DEFINE listed == {j \in Item : /\ ItemOf[j].metric = m
                                       /\ hostState[ItemOf[j].host] \notin {"absent", "disabled"}
                                       /\ sample[j].clock # 0}
               f == [i \in listed |-> [item |-> i, clock |-> sample[i].clock, raw |-> sample[i].raw]]
               new == {f[i] : i \in listed}
    <3>0. m \notin done /\ done' = done \cup {m}
      BY <2>4 DEF ListItems, Answered
    <3>1. got'.samples = got.samples \cup new /\ got'.lost = got.lost /\ got'.gaps = got.gaps
      BY <2>4 DEF ListItems, CollectionTypeOK, Answers
    <3>2. IsFiniteSet(listed)
      BY ItemFacts, FS_Subset
    <3>3. IsFiniteSet(new)
      <4>1. DOMAIN f = listed /\ f \in [listed -> new]
        OBVIOUS
      <4> HIDE DEF f, listed
      <4> QED BY <3>2, <4>1, ImageFinite
    <3>4. \A i \in listed : ItemOf[i].metric = m /\ f[i].item = i
      OBVIOUS
    <3> HIDE DEF listed, f
    <3>5. \A s \in new : \E i \in listed : s = f[i]
      OBVIOUS
    <3> HIDE DEF new
    <3>6. ASSUME NEW s \in new, NEW t \in new
          PROVE  ItemOf[s.item].metric = m /\ (s.item = t.item => s = t)
      <4>1. PICK i \in listed : s = f[i]
        BY <3>5
      <4>2. PICK j \in listed : t = f[j]
        BY <3>5
      <4> QED BY <3>4, <4>1, <4>2
    <3>7. IsFiniteSet(got'.samples)
      <4>1. IsFiniteSet(got.samples)
        BY DEF AnswersInv
      <4>2. IsFiniteSet(got.samples \cup new)
        BY <3>3, <4>1, FS_Union
      <4> QED BY <3>1, <4>2
    <3>8. \A s \in got'.samples : ItemOf[s.item].metric \in done'
      BY <3>0, <3>1, <3>6 DEF AnswersInv
    <3>9. \A s, t \in got'.samples : s.item = t.item => s = t
      BY <3>0, <3>1, <3>6 DEF AnswersInv
    <3> QED BY <3>1, <3>7, <3>8, <3>9 DEF AnswersInv
  <2>5. CASE NetworkFails
    <3> DEFINE kept == {s \in got.samples : ItemOf[s.item].metric \notin NetworkMetric}
    <3>1. got' = [got EXCEPT !.samples = kept, !.gaps = @ \cup {"network"}, !.lost = TRUE]
      BY <2>5 DEF NetworkFails
    <3>2. kept \in SUBSET got.samples
      OBVIOUS
    <3> HIDE DEF kept
    <3>3. got'.samples = kept /\ "network" \in got'.gaps
      BY <3>1 DEF CollectionTypeOK, Answers
    <3>4. done \subseteq done'
      BY <2>5 DEF NetworkFails
    <3>5. IsFiniteSet(got'.samples)
      BY <3>2, <3>3, FS_Subset DEF AnswersInv
    <3> QED BY <3>2, <3>3, <3>4, <3>5 DEF AnswersInv
  <2>6. CASE UNCHANGED collectionVars
    BY <2>1, <2>6 DEF collectionVars, refresh
  <2> QED BY <2>1, <2>2, <2>3, <2>4, <2>5, <2>6
          DEF CollectionNext, HostChanges, ProblemChanges, Measure, TimePasses, Changes,
              StartCollection, CoreFails, GatherEnds, StoreCollected, StoreFails, ModelsChange,
              EndCollection, refresh, zabbix
<1> QED BY <1>1, <1>2, CollectionTypeCorrect, PTL DEF CollectionSpec

\* At most one item is chosen for a series.
LEMMA ChosenOnce ==
    ASSUME CollectionTypeOK, NEW s \in Chosen, NEW t \in Chosen, Key(s.item) = Key(t.item)
    PROVE  s = t
<1>1. /\ s \in Sample /\ t \in Sample
      /\ s = t \/ (Preferred(s, t) /\ Preferred(t, s))
  BY DEF Chosen, CollectionTypeOK, Answers
<1>2. /\ ModeRank(s.item) \in Int /\ ModeRank(t.item) \in Int
      /\ s.item \in Int /\ t.item \in Int /\ s.clock \in Int /\ t.clock \in Int
  <2>1. /\ s.item \in Item /\ t.item \in Item
        /\ s.clock \in Nat /\ t.clock \in Nat
    BY <1>1 DEF Sample
  <2>2. /\ ModeRank(s.item) \in 1 .. 3 /\ ModeRank(t.item) \in 1 .. 3
        /\ s.item \in Nat /\ t.item \in Nat
    BY <2>1, ItemFacts
  <2> QED BY <2>1, <2>2
<1> QED BY <1>1, <1>2 DEF Preferred

\* For a series that has a sample one is chosen, of no lesser mode and, if of
\* the same, no older.
LEMMA ChosenExists ==
    ASSUME CollectionTypeOK, AnswersInv, NEW s \in got.samples
    PROVE  \E t \in Chosen : /\ Key(t.item) = Key(s.item)
                             /\ ModeRank(t.item) <= ModeRank(s.item)
                             /\ ModeRank(t.item) = ModeRank(s.item) => t.clock >= s.clock
<1> DEFINE T == {t \in got.samples : Key(t.item) = Key(s.item)}
           R == {pair \in T \X T : Preferred(pair[1], pair[2])}
<1>1. IsFiniteSet(T) /\ T # {}
  BY FS_Subset DEF AnswersInv
<1>2. \A t \in T : /\ t \in got.samples /\ t.item \in Int /\ t.clock \in Int
                   /\ ModeRank(t.item) \in Int
  <2>1. \A t \in T : t.item \in Item /\ t.clock \in Nat
    BY DEF CollectionTypeOK, Answers, Sample
  <2>2. \A t \in T : t.item \in Nat /\ ModeRank(t.item) \in 1 .. 3
    BY <2>1, ItemFacts
  <2> QED BY <2>1, <2>2
<1>3. \A t \in got.samples : Key(t.item) = Key(s.item) => t \in T
  OBVIOUS
<1>4. \A x, y \in T : <<x, y>> \in R <=> Preferred(x, y)
  OBVIOUS
<1>5. \A x, y \in T : x # y => x.item # y.item
  BY DEF AnswersInv
<1> HIDE DEF R, T
<1>6. StrictOrder(T, R)
  <2>1. \A x \in T : ~Preferred(x, x)
    BY <1>2 DEF Preferred
  <2>2. \A x, y, z \in T : Preferred(x, y) /\ Preferred(y, z) => Preferred(x, z)
    BY <1>2 DEF Preferred
  <2>3. \A x, y \in T : x # y => Preferred(x, y) \/ Preferred(y, x)
    BY <1>2, <1>5 DEF Preferred
  <2> QED BY <1>4, <2>1, <2>2, <2>3 DEF StrictOrder
<1>7. PICK t \in T : Ahead(T, R, t) = {}
  BY <1>1, <1>6, FirstExists
<1>8. \A u \in T : u = t \/ Preferred(t, u)
  BY <1>4, <1>6, <1>7 DEF Ahead, StrictOrder
<1>9. t \in got.samples /\ Key(t.item) = Key(s.item) /\ s \in T
  BY DEF T
<1>10. t \in Chosen
  BY <1>3, <1>8, <1>9 DEF Chosen
<1>11. /\ ModeRank(t.item) <= ModeRank(s.item)
       /\ ModeRank(t.item) = ModeRank(s.item) => t.clock >= s.clock
  BY <1>2, <1>8, <1>9 DEF Preferred
<1> QED BY <1>9, <1>10, <1>11

\* What is chosen has been reported, and its value is a number.
LEMMA ChosenType ==
    ASSUME CollectionTypeOK, AnswersInv
    PROVE  /\ IsFiniteSet(Chosen) /\ Chosen \subseteq Sample
           /\ \A s \in Chosen : Value(s) \in Int
<1>1. Chosen \in SUBSET got.samples /\ got.samples \subseteq Sample
  BY DEF Chosen, CollectionTypeOK, Answers
<1>2. IsFiniteSet(Chosen)
  BY <1>1, FS_Subset DEF AnswersInv
<1>3. \A s \in Sample : Value(s) \in Int
  BY DEF Value, Sample
<1> QED BY <1>1, <1>2, <1>3

-----------------------------------------------------------------------------
(* The ranking *)

\* The lexicographic order of ranks.
Above(a, b) == \E n \in 1 .. 5 : a[n] > b[n] /\ \A m \in 1 .. n - 1 : a[m] = b[m]

\* It is strict, and total where the last rank tells elements apart.
LEMMA AboveIsStrict ==
    ASSUME NEW a \in [1 .. 5 -> Int], NEW b \in [1 .. 5 -> Int], NEW c \in [1 .. 5 -> Int]
    PROVE  /\ ~Above(a, a)
           /\ Above(a, b) /\ Above(b, c) => Above(a, c)
           /\ a[5] # b[5] => Above(a, b) \/ Above(b, a)
           /\ ~Above(a, b) => b[1] >= a[1]
<1>0. \A n \in 1 .. 5 : a[n] \in Int /\ b[n] \in Int /\ c[n] \in Int
  OBVIOUS
<1>1. ~Above(a, a)
  BY <1>0 DEF Above
<1>2. ASSUME Above(a, b), Above(b, c) PROVE Above(a, c)
  <2>1. PICK n \in 1 .. 5 : a[n] > b[n] /\ \A m \in 1 .. n - 1 : a[m] = b[m]
    BY <1>2 DEF Above
  <2>2. PICK k \in 1 .. 5 : b[k] > c[k] /\ \A m \in 1 .. k - 1 : b[m] = c[m]
    BY <1>2 DEF Above
  <2>3. CASE n <= k
    <3>1. a[n] > c[n]
      <4>1. n = k \/ n \in 1 .. k - 1
        BY <2>3
      <4> QED BY <1>0, <2>1, <2>2, <4>1
    <3>2. \A m \in 1 .. n - 1 : a[m] = c[m]
      BY <2>1, <2>2, <2>3
    <3> QED BY <3>1, <3>2 DEF Above
  <2>4. CASE k < n
    <3>1. a[k] > c[k]
      <4>1. k \in 1 .. n - 1
        BY <2>4
      <4> QED BY <1>0, <2>1, <2>2, <4>1
    <3>2. \A m \in 1 .. k - 1 : a[m] = c[m]
      BY <2>1, <2>2, <2>4
    <3> QED BY <3>1, <3>2 DEF Above
  <2> QED BY <2>3, <2>4
<1>3. ASSUME a[5] # b[5] PROVE Above(a, b) \/ Above(b, a)
  <2>1. PICK n \in 1 .. 5 : a[n] # b[n] /\ \A m \in 1 .. n - 1 : a[m] = b[m]
    <3>1. CASE a[1] # b[1]
      <4>1. 1 \in 1 .. 5 /\ 1 .. 1 - 1 = {}
        OBVIOUS
      <4> QED BY <3>1, <4>1
    <3>2. CASE a[1] = b[1] /\ a[2] # b[2]
      <4>1. 2 \in 1 .. 5 /\ 1 .. 2 - 1 = {1}
        OBVIOUS
      <4> QED BY <3>2, <4>1
    <3>3. CASE a[1] = b[1] /\ a[2] = b[2] /\ a[3] # b[3]
      <4>1. 3 \in 1 .. 5 /\ 1 .. 3 - 1 = {1, 2}
        OBVIOUS
      <4> QED BY <3>3, <4>1
    <3>4. CASE a[1] = b[1] /\ a[2] = b[2] /\ a[3] = b[3] /\ a[4] # b[4]
      <4>1. 4 \in 1 .. 5 /\ 1 .. 4 - 1 = {1, 2, 3}
        OBVIOUS
      <4> QED BY <3>4, <4>1
    <3>5. CASE a[1] = b[1] /\ a[2] = b[2] /\ a[3] = b[3] /\ a[4] = b[4]
      <4>1. 5 \in 1 .. 5 /\ 1 .. 5 - 1 = {1, 2, 3, 4}
        OBVIOUS
      <4> QED BY <1>3, <3>5, <4>1
    <3> QED BY <3>1, <3>2, <3>3, <3>4, <3>5
  <2>2. a[n] > b[n] \/ b[n] > a[n]
    BY <1>0, <2>1
  <2> QED BY <2>1, <2>2 DEF Above
<1>4. ASSUME ~Above(a, b) PROVE b[1] >= a[1]
  <2>1. ~(a[1] > b[1])
    <3>1. 1 \in 1 .. 5 /\ 1 .. 1 - 1 = {}
      OBVIOUS
    <3> QED BY <1>4, <3>1 DEF Above
  <2> QED BY <1>0, <2>1
<1> QED BY <1>1, <1>2, <1>3, <1>4

\* A rank is five numbers, the first of them the worst severity.
LEMMA RankType ==
    ASSUME CollectionTypeOK, AnswersInv, NEW h \in Host
    PROVE  /\ RankKey(h) \in [1 .. 5 -> Int] /\ RankKey(h)[5] = -h
           /\ \A p \in ProblemsOf(h) : SeverityRank[p.severity] <= RankKey(h)[1]
           /\ \A p \in ProblemsOf(h) : SeverityRank[p.severity] \in 1 .. 7
           /\ RankKey(h)[1] >= 1 =>
                \E p \in ProblemsOf(h) : SeverityRank[p.severity] = RankKey(h)[1]
<1> DEFINE P == ProblemsOf(h)
           severity == [p \in P |-> SeverityRank[p.severity]]
           peak == [s \in ResourcesOf(h) |-> Value(s)]
           worst == Largest({SeverityRank[p.severity] : p \in P}, 0)
           load == Largest({Value(s) : s \in ResourcesOf(h)}, -1)
<1>1. P \in SUBSET Problem
  BY DEF ProblemsOf, CollectionTypeOK, Answers
<1>2. \A p \in P : SeverityRank[p.severity] \in 1 .. 7
  BY <1>1, CollectionAssumption DEF Problem, SeverityRank
<1>3. IsFiniteSet(P) /\ Cardinality(P) \in Nat
  BY <1>1, ProblemsFinite, Smaller
<1>4. /\ worst \in Int
      /\ \A p \in P : SeverityRank[p.severity] <= worst
      /\ worst >= 1 => \E p \in P : SeverityRank[p.severity] = worst
  <2> DEFINE S == {SeverityRank[p.severity] : p \in P}
  <2>1. IsFiniteSet(S)
    <3>1. S = {severity[p] : p \in P} /\ DOMAIN severity = P
          /\ severity \in [P -> {severity[p] : p \in P}]
      OBVIOUS
    <3> HIDE DEF severity, P
    <3> QED BY <1>3, <3>1, ImageFinite
  <2>2. S \subseteq Int
    BY <1>2
  <2>3. /\ worst \in Int
        /\ S = {} => worst = 0
        /\ S # {} => worst \in S
        /\ \A m \in S : m <= worst
    <3>1. 0 \in Int /\ worst = Largest(S, 0)
      OBVIOUS
    <3> HIDE DEF S, worst
    <3> QED BY <2>1, <2>2, <3>1, LargestType, Zenon
  <2>4. \A p \in P : SeverityRank[p.severity] \in S
    OBVIOUS
  <2>5. \A m \in S : \E p \in P : SeverityRank[p.severity] = m
    OBVIOUS
  <2> HIDE DEF P, S, worst
  <2> QED BY <2>3, <2>4, <2>5
<1>5. load \in Int
  <2> DEFINE S == {Value(s) : s \in ResourcesOf(h)}
  <2>1. ResourcesOf(h) \in SUBSET Chosen
    BY DEF ResourcesOf
  <2>2. IsFiniteSet(ResourcesOf(h))
    BY <2>1, ChosenType, FS_Subset
  <2>3. IsFiniteSet(S)
    <3>1. S = {peak[s] : s \in ResourcesOf(h)} /\ DOMAIN peak = ResourcesOf(h)
          /\ peak \in [ResourcesOf(h) -> {peak[s] : s \in ResourcesOf(h)}]
      OBVIOUS
    <3> HIDE DEF peak
    <3> QED BY <2>2, <3>1, ImageFinite
  <2>4. S \subseteq Int
    BY <2>1, ChosenType
  <2>5. -1 \in Int /\ load = Largest(S, -1)
    OBVIOUS
  <2> HIDE DEF S, load
  <2> QED BY <2>3, <2>4, <2>5, LargestType, Zenon
<1>6. RankKey(h) = <<worst, IF got.hosts[h] = "down" THEN 1 ELSE 0, Cardinality(P), load, -h>>
  BY DEF RankKey
<1> HIDE DEF P, worst, load
<1>7. h \in Int
  BY CollectionAssumption DEF Host
<1>8. /\ RankKey(h) \in [1 .. 5 -> Int]
      /\ RankKey(h)[5] = -h
      /\ RankKey(h)[1] = worst
  BY <1>3, <1>4, <1>5, <1>6, <1>7
<1> QED BY <1>2, <1>4, <1>8 DEF P

\* The most affected hosts are as many as there is room for, and no host that is
\* left out has a problem worse than all of theirs.
LEMMA TopFacts ==
    ASSUME CollectionTypeOK, AnswersInv
    PROVE  /\ Cardinality(TopHosts) =
                IF Cardinality(Affected) < TopLimit THEN Cardinality(Affected) ELSE TopLimit
           /\ \A p \in got.mapped : p.host \in Affected \ TopHosts =>
                \A h \in TopHosts : \E q \in ProblemsOf(h) :
                    SeverityRank[q.severity] >= SeverityRank[p.severity]
<1> DEFINE A == Affected
           R == {p \in A \X A : Before(p[1], p[2])}
<1>1. IsFiniteSet(Host)
  BY CollectionAssumption, FS_Interval DEF Host
<1>2. A \in SUBSET Host
  BY DEF Affected, CollectionTypeOK, Answers, HostList
<1>3. IsFiniteSet(A)
  BY <1>1, <1>2, FS_Subset
<1>4. \A g, h : Before(g, h) <=> Above(RankKey(g), RankKey(h))
  BY DEF Before, Above
<1>5. \A h \in A : RankKey(h) \in [1 .. 5 -> Int] /\ RankKey(h)[5] = -h /\ h \in Int
  BY <1>2, RankType, CollectionAssumption DEF Host
<1>6. \A g, h \in A : <<g, h>> \in R <=> Above(RankKey(g), RankKey(h))
  BY <1>4
<1> HIDE DEF A, R
<1>7. StrictOrder(A, R)
  <2>1. ASSUME NEW x \in A, NEW y \in A, NEW z \in A
        PROVE  /\ <<x, x>> \notin R
               /\ <<x, y>> \in R /\ <<y, z>> \in R => <<x, z>> \in R
               /\ x # y => <<x, y>> \in R \/ <<y, x>> \in R
    <3>1. x # y => RankKey(x)[5] # RankKey(y)[5]
      BY <1>5
    <3> QED BY <1>5, <1>6, <3>1, AboveIsStrict
  <2> QED BY <2>1 DEF StrictOrder
<1>8. TopHosts = First(A, R, TopLimit)
  <2>1. \A h \in A : {g \in A : Before(g, h)} = Ahead(A, R, h)
    BY <1>4, <1>6 DEF Ahead
  <2> QED BY <2>1 DEF First, TopHosts, A
<1>9. TopLimit \in Nat
  BY CollectionAssumption
<1>10. Cardinality(TopHosts) = IF Cardinality(A) < TopLimit THEN Cardinality(A) ELSE TopLimit
  BY <1>3, <1>7, <1>8, <1>9, FirstCount
<1>11. ASSUME NEW p \in got.mapped, p.host \in A \ TopHosts, NEW h \in TopHosts
       PROVE  \E q \in ProblemsOf(h) : SeverityRank[q.severity] >= SeverityRank[p.severity]
  <2>1. h \in A /\ p.host \in A
    BY <1>8, <1>11 DEF First
  <2>2. <<h, p.host>> \in R
    BY <1>3, <1>7, <1>8, <1>9, <1>11, FirstAhead
  <2>3. <<p.host, h>> \notin R
    BY <1>7, <2>1, <2>2 DEF StrictOrder
  <2>4. RankKey(h)[1] >= RankKey(p.host)[1]
    BY <1>5, <1>6, <2>1, <2>3, AboveIsStrict
  <2>5. p \in ProblemsOf(p.host)
    BY DEF ProblemsOf
  <2>6. /\ SeverityRank[p.severity] <= RankKey(p.host)[1] /\ SeverityRank[p.severity] \in 1 .. 7
        /\ RankKey(p.host)[1] \in Int /\ RankKey(h)[1] \in Int
    BY <1>2, <1>5, <2>1, <2>5, RankType DEF A
  <2>7. RankKey(h)[1] >= 1 /\ RankKey(h)[1] >= SeverityRank[p.severity]
    BY <2>4, <2>6
  <2>8. PICK q \in ProblemsOf(h) : SeverityRank[q.severity] = RankKey(h)[1]
    BY <1>2, <2>1, <2>7, RankType DEF A
  <2> QED BY <2>7, <2>8
<1> QED BY <1>10, <1>11 DEF A

\* The hosts shown are the worst affected ones, whatever number fits.
THEOREM WorstCorrect == CollectionSpec => []WorstHostsShown
<1>1. CollectionTypeOK /\ AnswersInv => WorstHostsShown
  BY TopFacts DEF WorstHostsShown
<1> QED BY <1>1, AnswersInvariant, PTL

-----------------------------------------------------------------------------
(* The newest points of a series *)

\* A series has one point for each time.
IsSeries(P) ==
    IsFiniteSet(P) /\ \A p, q \in P : p.clock \in Int /\ (p.clock = q.clock => p = q)
Newer(P, p) == {q \in P : q.clock > p.clock}
Joined(P, x, low) == {p \in {x} \cup {q \in P : q.clock # x.clock} : p.clock >= low}

\* As many points as there are times.
LEMMA ByClock ==
    ASSUME NEW S, IsSeries(S), NEW T, IsSeries(T), \A s \in S : \E t \in T : t.clock = s.clock
    PROVE  Cardinality(S) <= Cardinality(T)
<1> DEFINE f == [s \in S |-> CHOOSE t \in T : t.clock = s.clock]
<1>1. \A s \in S : f[s] \in T /\ f[s].clock = s.clock
  OBVIOUS
<1>2. f \in [S -> T] /\ \A s, t \in S : f[s] = f[t] => s = t
  <2> HIDE DEF f
  <2>1. \A s, t \in S : f[s] = f[t] => s = t
    BY <1>1 DEF IsSeries
  <2> QED BY <1>1, <2>1 DEF f
<1>3. f \in Injection(S, T)
  BY <1>2 DEF Injection, IsInjective
<1> QED BY <1>3, FS_Injection DEF IsSeries

\* A part of a series is one.
LEMMA SubSeries == ASSUME NEW P, IsSeries(P), NEW Q \in SUBSET P PROVE IsSeries(Q)
BY FS_Subset DEF IsSeries

\* The newest n points are newer than the others, and n, if there are as many.
LEMMA NewestFacts ==
    ASSUME NEW P, IsSeries(P), NEW n \in Nat
    PROVE  /\ IsSeries(Newest(P, n)) /\ Newest(P, n) \subseteq P
           /\ Newest(P, n) # P => Cardinality(Newest(P, n)) = n
           /\ \A p \in Newest(P, n), q \in P \ Newest(P, n) : p.clock > q.clock
           /\ P # {} /\ n # 0 => Newest(P, n) # {}
<1> DEFINE R == {pair \in P \X P : pair[1].clock > pair[2].clock}
<1>1. \A p, q \in P : <<p, q>> \in R <=> p.clock > q.clock
  OBVIOUS
<1> HIDE DEF R
<1>2. StrictOrder(P, R)
  <2>1. \A p \in P : p.clock \in Int
    BY DEF IsSeries
  <2>2. \A p, q \in P : p # q => p.clock > q.clock \/ q.clock > p.clock
    BY <2>1 DEF IsSeries
  <2> QED BY <1>1, <2>1, <2>2 DEF StrictOrder
<1>3. Newest(P, n) = First(P, R, n)
  <2>1. \A p \in P : {q \in P : q.clock > p.clock} = Ahead(P, R, p)
    BY <1>1 DEF Ahead
  <2> QED BY <2>1 DEF Newest, First
<1>4. IsFiniteSet(P)
  BY DEF IsSeries
<1>5. Newest(P, n) \in SUBSET P
  BY DEF Newest
<1>6. Cardinality(Newest(P, n)) = IF Cardinality(P) < n THEN Cardinality(P) ELSE n
  BY <1>2, <1>3, <1>4, FirstCount
<1>7. \A p \in Newest(P, n), q \in P \ Newest(P, n) : p.clock > q.clock
  BY <1>1, <1>2, <1>3, <1>4, <1>5, FirstAhead
<1>8. Newest(P, n) # P => Cardinality(Newest(P, n)) = n
  BY <1>4, <1>5, <1>6, Smaller
<1>9. ASSUME P # {}, n # 0 PROVE Newest(P, n) # {}
  BY <1>4, <1>6, <1>9, FS_EmptySet
<1> QED BY <1>5, <1>7, <1>8, <1>9, SubSeries

\* A series stays one when a point is joined to it.
LEMMA JoinedSeries ==
    ASSUME NEW P, IsSeries(P), NEW x, x.clock \in Int, NEW low \in Int
    PROVE  IsSeries(Joined(P, x, low))
<1> DEFINE Q == {q \in P : q.clock # x.clock}
<1>1. IsFiniteSet(Q \cup {x})
  <2>1. IsFiniteSet(Q)
    BY FS_Subset DEF IsSeries
  <2> HIDE DEF Q
  <2> QED BY <2>1, FS_AddElement
<1>2. IsSeries(Q \cup {x})
  BY <1>1 DEF IsSeries
<1>3. Joined(P, x, low) \in SUBSET (Q \cup {x})
  BY DEF Joined
<1> HIDE DEF Q
<1> QED BY <1>2, <1>3, SubSeries

\* It makes no difference whether a point is joined to all points of a series or
\* to the newest of them.
LEMMA NewestJoined ==
    ASSUME NEW A, IsSeries(A), NEW n \in Nat, NEW x, x.clock \in Int, NEW low \in Int
    PROVE  Newest(Joined(Newest(A, n), x, low), n) = Newest(Joined(A, x, low), n)
<1> DEFINE N == Newest(A, n)
           B == Joined(N, x, low)
           C == Joined(A, x, low)
<1>1. /\ IsSeries(N) /\ N \subseteq A /\ (N # A => Cardinality(N) = n)
      /\ \A p \in N, q \in A \ N : p.clock > q.clock
  BY NewestFacts
<1>2. \A p \in A : p \in N <=> Cardinality(Newer(A, p)) < n
  BY DEF Newest, Newer
<1> HIDE DEF N
<1>3. IsSeries(B) /\ IsSeries(C)
  BY <1>1, JoinedSeries
<1>4. /\ \A p : p \in B <=> p.clock >= low /\ (p = x \/ (p \in N /\ p.clock # x.clock))
      /\ \A p : p \in C <=> p.clock >= low /\ (p = x \/ (p \in A /\ p.clock # x.clock))
  BY DEF Joined
<1>5. B \subseteq C
  BY <1>1, <1>4
<1>6. /\ \A p \in A : p.clock \in Int
      /\ \A p \in B : p.clock \in Int
      /\ \A p \in C : p.clock \in Int
  BY <1>3 DEF IsSeries
<1> HIDE DEF B, C
<1>7. \A p : /\ IsSeries(Newer(A, p)) /\ IsSeries(Newer(B, p)) /\ IsSeries(Newer(C, p))
             /\ Cardinality(Newer(A, p)) \in Nat /\ Cardinality(Newer(B, p)) \in Nat
             /\ Cardinality(Newer(C, p)) \in Nat
  <2> SUFFICES ASSUME NEW p
               PROVE  /\ IsSeries(Newer(A, p)) /\ IsSeries(Newer(B, p)) /\ IsSeries(Newer(C, p))
                      /\ Cardinality(Newer(A, p)) \in Nat /\ Cardinality(Newer(B, p)) \in Nat
                      /\ Cardinality(Newer(C, p)) \in Nat
    OBVIOUS
  <2>1. Newer(A, p) \in SUBSET A /\ Newer(B, p) \in SUBSET B /\ Newer(C, p) \in SUBSET C
    BY DEF Newer
  <2>2. IsSeries(Newer(A, p)) /\ IsSeries(Newer(B, p)) /\ IsSeries(Newer(C, p))
    BY <1>3, <2>1, SubSeries
  <2> QED BY <2>2, FS_CardinalityType DEF IsSeries
<1>8. Newest(B, n) = {p \in B : Cardinality(Newer(B, p)) < n}
      /\ Newest(C, n) = {p \in C : Cardinality(Newer(C, p)) < n}
  BY DEF Newest, Newer
<1>9. ASSUME NEW p \in C, Cardinality(Newer(C, p)) < n
      PROVE  p \in B /\ Cardinality(Newer(B, p)) < n
  <2>1. p \in B
    <3>1. CASE p = x
      BY <1>4, <1>9, <3>1
    <3>2. CASE p # x
      <4>1. p \in A /\ p.clock >= low /\ p.clock # x.clock
        BY <1>4, <1>9, <3>2
      <4>2. \A y \in Newer(A, p) : \E z \in Newer(C, p) : z.clock = y.clock
        <5> SUFFICES ASSUME NEW y \in Newer(A, p) PROVE \E z \in Newer(C, p) : z.clock = y.clock
          OBVIOUS
        <5>1. y \in A /\ y.clock > p.clock /\ y.clock >= low
          BY <1>6, <4>1 DEF Newer
        <5>2. CASE y.clock = x.clock
          <6>1. x \in C
            BY <1>4, <5>1, <5>2
          <6> QED BY <5>1, <5>2, <6>1 DEF Newer
        <5>3. CASE y.clock # x.clock
          <6>1. y \in C
            BY <1>4, <5>1, <5>3
          <6> QED BY <5>1, <6>1 DEF Newer
        <5> QED BY <5>2, <5>3
      <4>3. Cardinality(Newer(A, p)) <= Cardinality(Newer(C, p))
        BY <1>7, <4>2, ByClock
      <4>4. p \in N
        BY <1>2, <1>7, <1>9, <4>1, <4>3
      <4> QED BY <1>4, <4>1, <4>4
    <3> QED BY <3>1, <3>2
  <2>2. Cardinality(Newer(B, p)) <= Cardinality(Newer(C, p))
    <3>1. Newer(B, p) \in SUBSET Newer(C, p)
      BY <1>5 DEF Newer
    <3>2. IsFiniteSet(Newer(C, p))
      BY <1>7 DEF IsSeries
    <3> QED BY <3>1, <3>2, Smaller
  <2> QED BY <1>7, <1>9, <2>1, <2>2
<1>10. ASSUME NEW p \in B, Cardinality(Newer(B, p)) < n
       PROVE  p \in C /\ Cardinality(Newer(C, p)) < n
  <2>1. ASSUME NEW q \in Newer(C, p), q \notin B PROVE FALSE
    <3>1. q \in C /\ q.clock > p.clock
      BY <2>1 DEF Newer
    <3>2. q \in A \ N
      BY <1>4, <2>1, <3>1
    <3>3. Cardinality(N) = n
      BY <1>1, <3>2
    <3>4. \A y \in N : \E z \in Newer(B, p) : z.clock = y.clock
      <4> SUFFICES ASSUME NEW y \in N PROVE \E z \in Newer(B, p) : z.clock = y.clock
        OBVIOUS
      <4>1. y \in A /\ y.clock > q.clock
        BY <1>1, <3>2
      <4>2. y.clock > p.clock /\ y.clock >= low
        <5>1. p.clock \in Int /\ q.clock \in Int /\ y.clock \in Int /\ p.clock >= low
          BY <1>4, <1>6, <3>1, <4>1
        <5> QED BY <3>1, <4>1, <5>1
      <4>3. CASE y.clock = x.clock
        <5>1. x \in B
          BY <1>4, <4>2, <4>3
        <5> QED BY <4>2, <4>3, <5>1 DEF Newer
      <4>4. CASE y.clock # x.clock
        <5>1. y \in B
          BY <1>4, <4>2, <4>4
        <5> QED BY <4>2, <5>1 DEF Newer
      <4> QED BY <4>3, <4>4
    <3>5. Cardinality(N) <= Cardinality(Newer(B, p))
      BY <1>1, <1>7, <3>4, ByClock
    <3> QED BY <1>7, <1>10, <3>3, <3>5
  <2>2. Newer(C, p) = Newer(B, p)
    BY <1>5, <2>1 DEF Newer
  <2> QED BY <1>5, <1>10, <2>2
<1>11. Newest(B, n) = Newest(C, n)
  BY <1>8, <1>9, <1>10
<1> QED BY <1>11 DEF B, C, N

-----------------------------------------------------------------------------
(* The stored series *)

\* What has been reported for a series from a time on.
Reported(f, low) == {[clock |-> c, value |-> f[c]] : c \in {d \in DOMAIN f : d >= low}}
IsHistory(f) == IsFiniteSet(DOMAIN f) /\ DOMAIN f \subseteq Int
Earlier(k) == IF k \in DOMAIN Previous(since) THEN Previous(since)[k] ELSE <<>>
Stored(k) == IF k \in DOMAIN Previous(snapshot.series) THEN Previous(snapshot.series)[k] ELSE {}
LiveMetric == {"cpu", "memory"} \cup NetworkMetric

SeriesInv ==
    /\ LiveHistory
    /\ DOMAIN since = DOMAIN snapshot.series
    /\ {"at", "series"} \subseteq DOMAIN snapshot
    /\ snapshot.at \in Int /\ snapshot.at <= clock
    /\ \A k \in DOMAIN since : IsHistory(since[k]) /\ k[2] \in LiveMetric

\* It is a series.
LEMMA ReportedSeries ==
    ASSUME NEW f, IsHistory(f), NEW low \in Int
    PROVE  IsSeries(Reported(f, low))
<1> DEFINE D == {d \in DOMAIN f : d >= low}
           P == Reported(f, low)
           g == [c \in D |-> [clock |-> c, value |-> f[c]]]
<1>1. IsFiniteSet(D) /\ D \subseteq Int
  BY FS_Subset DEF IsHistory
<1>2. P = {g[c] : c \in D} /\ DOMAIN g = D /\ g \in [D -> {g[c] : c \in D}]
  BY DEF Reported
<1>3. IsFiniteSet(P)
  <2> HIDE DEF g, D, P
  <2> QED BY <1>1, <1>2, ImageFinite
<1>4. \A p \in P : p.clock \in D /\ p = [clock |-> p.clock, value |-> f[p.clock]]
  BY DEF Reported
<1> HIDE DEF D, P
<1>5. \A p, q \in P : p.clock \in Int /\ (p.clock = q.clock => p = q)
  BY <1>1, <1>4
<1> QED BY <1>3, <1>5 DEF IsSeries, P

\* A report that is joined to a history is a point that is joined to its series.
LEMMA ReportJoins ==
    ASSUME NEW f, IsHistory(f), NEW c \in Int, NEW v, NEW low \in Int, NEW low2 \in Int, low <= low2
    PROVE  LET f2 == [d \in DOMAIN f \cup {c} |-> IF d = c THEN v ELSE f[d]]
           IN  /\ IsHistory(f2)
               /\ Reported(f2, low2) = Joined(Reported(f, low), [clock |-> c, value |-> v], low2)
<1> DEFINE f2 == [d \in DOMAIN f \cup {c} |-> IF d = c THEN v ELSE f[d]]
           x == [clock |-> c, value |-> v]
           P == Reported(f, low)
           J == Joined(P, x, low2)
<1>1. IsHistory(f2)
  <2>1. DOMAIN f2 = DOMAIN f \cup {c}
    OBVIOUS
  <2> HIDE DEF f2
  <2> QED BY <2>1, FS_AddElement DEF IsHistory
<1>2. \A d \in DOMAIN f : d \in Int
  BY DEF IsHistory
<1>3. DOMAIN f2 = DOMAIN f \cup {c} /\ f2[c] = v /\ \A d \in DOMAIN f \ {c} : f2[d] = f[d]
  OBVIOUS
<1>4. \A p : p \in J <=> p.clock >= low2 /\ (p = x \/ (p \in P /\ p.clock # c))
  BY DEF Joined
<1>5. \A p : p \in P <=> \E d \in DOMAIN f : d >= low /\ p = [clock |-> d, value |-> f[d]]
  BY DEF Reported
<1>6. \A p : p \in Reported(f2, low2)
                <=> \E d \in DOMAIN f2 : d >= low2 /\ p = [clock |-> d, value |-> f2[d]]
  BY DEF Reported
<1> HIDE DEF f2, P, J
<1>7. ASSUME NEW p \in Reported(f2, low2) PROVE p \in J
  <2>1. PICK d \in DOMAIN f2 : d >= low2 /\ p = [clock |-> d, value |-> f2[d]]
    BY <1>6
  <2>2. CASE d = c
    BY <1>3, <1>4, <2>1, <2>2
  <2>3. CASE d # c
    <3>1. d \in DOMAIN f /\ d \in Int /\ d >= low /\ p = [clock |-> d, value |-> f[d]]
      BY <1>2, <1>3, <2>1, <2>3
    <3> QED BY <1>4, <1>5, <2>1, <2>3, <3>1
  <2> QED BY <2>2, <2>3
<1>8. ASSUME NEW p \in J PROVE p \in Reported(f2, low2)
  <2>1. p.clock >= low2 /\ (p = x \/ (p \in P /\ p.clock # c))
    BY <1>4
  <2>2. CASE p = x
    BY <1>3, <1>6, <2>1, <2>2
  <2>3. CASE p \in P /\ p.clock # c
    <3>1. PICK d \in DOMAIN f : d >= low /\ p = [clock |-> d, value |-> f[d]]
      BY <1>5, <2>3
    <3>2. d # c /\ d >= low2
      BY <2>1, <2>3, <3>1
    <3> QED BY <1>3, <1>6, <3>1, <3>2
  <2> QED BY <2>1, <2>2, <2>3
<1> QED BY <1>1, <1>7, <1>8 DEF f2, J, P

\* What was stored for a series is the newest of what was reported for it.
LEMMA StoredFacts ==
    ASSUME SeriesInv, CollectionTypeOK, NEW k
    PROVE  /\ IsHistory(Earlier(k))
           /\ IsSeries(Reported(Earlier(k), snapshot.at - Window))
           /\ Stored(k) = Newest(Reported(Earlier(k), snapshot.at - Window), MaxPoints)
           /\ IsSeries(Stored(k))
<1>0. snapshot.at - Window \in Int /\ MaxPoints \in Nat
  BY CollectionAssumption DEF SeriesInv
<1>1. CASE snapshot.readable /\ k \in DOMAIN since
  <2>1. IsHistory(Earlier(k)) /\ Earlier(k) = since[k] /\ Stored(k) = snapshot.series[k]
    BY <1>1 DEF SeriesInv, Earlier, Stored, Previous
  <2>2. Stored(k) = Newest(Reported(Earlier(k), snapshot.at - Window), MaxPoints)
    BY <1>1, <2>1 DEF SeriesInv, LiveHistory, Reported
  <2> QED BY <1>0, <2>1, <2>2, ReportedSeries, NewestFacts
<1>2. CASE ~(snapshot.readable /\ k \in DOMAIN since)
  <2>1. Earlier(k) = <<>> /\ Stored(k) = {} /\ DOMAIN Earlier(k) = {}
    BY <1>2 DEF SeriesInv, Earlier, Stored, Previous
  <2>2. IsHistory(Earlier(k))
    BY <2>1, FS_EmptySet DEF IsHistory
  <2>3. Reported(Earlier(k), snapshot.at - Window) = {}
    BY <2>1 DEF Reported
  <2>4. Newest({}, MaxPoints) = {} /\ IsSeries({})
    BY FS_EmptySet DEF Newest, IsSeries
  <2> QED BY <2>1, <2>2, <2>3, <2>4
<1> QED BY <1>1, <1>2

\* The series that are stored now.
LEMMA MergedFacts ==
    ASSUME SeriesInv, CollectionTypeOK, AnswersInv
    PROVE  /\ \A k \in DOMAIN MergedSeries : \E s \in Live : Key(s.item) = k
           /\ \A s \in Live : LET k == Key(s.item) IN
                /\ s \in Chosen /\ s.clock \in Int
                /\ k[2] \in LiveMetric
                /\ k \in DOMAIN MergedSeries <=> Merged(s, Stored(k)) # {}
                /\ k \in DOMAIN MergedSeries => MergedSeries[k] = Merged(s, Stored(k))
                /\ \A t \in Live : Key(t.item) = k => t = s
<1> DEFINE stored == {s \in Live : Merged(s, Stored(Key(s.item))) # {}}
           keys == {Key(s.item) : s \in stored}
           chosen(k) == CHOOSE s \in stored : Key(s.item) = k
<1>1. MergedSeries = [k \in keys |-> Merged(chosen(k), Stored(Key(chosen(k).item)))]
  BY DEF MergedSeries, Stored
<1>2. \A s \in Live : s \in Chosen
  BY DEF Live
<1>3. \A s, t \in Live : Key(t.item) = Key(s.item) => t = s
  BY <1>2, ChosenOnce
<1>4. \A s \in Live : s.clock \in Int /\ Key(s.item)[2] \in LiveMetric
  <2>1. \A s \in Live : s \in Sample
    BY <1>2, ChosenType
  <2> QED BY <2>1 DEF Live, Key, LiveMetric, Sample
<1>5. stored \subseteq Live /\ \A s \in Live : s \in stored <=> Merged(s, Stored(Key(s.item))) # {}
  OBVIOUS
<1>6. \A s \in stored : chosen(Key(s.item)) = s
  <2> HIDE DEF stored
  <2> QED BY <1>3, <1>5
<1> HIDE DEF stored, chosen
<1>7. \A k : k \in keys <=> \E s \in stored : Key(s.item) = k
  OBVIOUS
<1> HIDE DEF keys
<1>8. DOMAIN MergedSeries = keys
      /\ \A k \in keys : MergedSeries[k] = Merged(chosen(k), Stored(Key(chosen(k).item)))
  BY <1>1
<1>9. \A s \in Live : Key(s.item) \in keys <=> s \in stored
  BY <1>3, <1>5, <1>7
<1>10. \A s \in stored : MergedSeries[Key(s.item)] = Merged(s, Stored(Key(s.item)))
  BY <1>6, <1>7, <1>8
<1> QED BY <1>2, <1>3, <1>4, <1>5, <1>7, <1>8, <1>9, <1>10

\* Merging with what is stored gives the newest of all that has been reported.
LEMMA MergedHistory ==
    ASSUME SeriesInv, CollectionTypeOK, NEW k, NEW s, s.clock \in Int
    PROVE  LET f == [c \in DOMAIN Earlier(k) \cup {s.clock} |->
                        IF c = s.clock THEN Value(s) ELSE Earlier(k)[c]]
           IN  /\ IsHistory(f)
               /\ Merged(s, Stored(k)) = Newest(Reported(f, clock - Window), MaxPoints)
<1> DEFINE old == snapshot.at - Window
           low == clock - Window
           f == [c \in DOMAIN Earlier(k) \cup {s.clock} |->
                    IF c = s.clock THEN Value(s) ELSE Earlier(k)[c]]
           x == Point(s)
           A == Reported(Earlier(k), old)
<1>1. old \in Int /\ low \in Int /\ old <= low /\ MaxPoints \in Nat
  BY CollectionAssumption DEF SeriesInv, CollectionTypeOK
<1>2. x = [clock |-> s.clock, value |-> Value(s)] /\ x.clock = s.clock
  BY DEF Point
<1>3. IsHistory(Earlier(k)) /\ IsSeries(A) /\ Stored(k) = Newest(A, MaxPoints)
  BY StoredFacts
<1>4. Merged(s, Stored(k)) = Newest(Joined(Stored(k), x, low), MaxPoints)
  BY <1>2 DEF Merged, Joined
<1> HIDE DEF old, low, A, x
<1>5. Newest(Joined(Newest(A, MaxPoints), x, low), MaxPoints)
        = Newest(Joined(A, x, low), MaxPoints)
  BY <1>1, <1>2, <1>3, NewestJoined
<1>6. IsHistory(f) /\ Reported(f, low) = Joined(A, x, low)
  BY <1>1, <1>2, <1>3, ReportJoins DEF A
<1> HIDE DEF f
<1> QED BY <1>3, <1>4, <1>5, <1>6 DEF f, low

\* A refresh that stores its snapshot keeps the history.
LEMMA StoreKeepsSeries ==
    ASSUME SeriesInv, CollectionTypeOK, AnswersInv, StoreCollected
    PROVE  SeriesInv'
<1>1. /\ snapshot'.at = clock /\ snapshot'.series = MergedSeries /\ clock' = clock
      /\ since' = [k \in DOMAIN MergedSeries |->
                    LET s == CHOOSE t \in Live : Key(t.item) = k
                    IN  [c \in DOMAIN Earlier(k) \cup {s.clock} |->
                            IF c = s.clock THEN Value(s) ELSE Earlier(k)[c]]]
  BY DEF StoreCollected, zabbix, Earlier
<1>2. ASSUME NEW k \in DOMAIN MergedSeries
      PROVE  /\ IsHistory(since'[k]) /\ k[2] \in LiveMetric
             /\ MergedSeries[k] = Newest(Reported(since'[k], clock - Window), MaxPoints)
  <2> DEFINE s == CHOOSE t \in Live : Key(t.item) = k
             f == [c \in DOMAIN Earlier(k) \cup {s.clock} |->
                    IF c = s.clock THEN Value(s) ELSE Earlier(k)[c]]
  <2>1. s \in Live /\ Key(s.item) = k
    BY MergedFacts
  <2>2. since'[k] = f
    BY <1>1
  <2> HIDE DEF s
  <2>3. s.clock \in Int /\ k[2] \in LiveMetric /\ MergedSeries[k] = Merged(s, Stored(k))
    BY <2>1, MergedFacts
  <2>4. IsHistory(f) /\ Merged(s, Stored(k)) = Newest(Reported(f, clock - Window), MaxPoints)
    BY <2>3, MergedHistory
  <2> HIDE DEF f
  <2> QED BY <2>2, <2>3, <2>4
<1>3. DOMAIN since' = DOMAIN MergedSeries
  BY <1>1
<1>4. {"at", "series"} \subseteq DOMAIN snapshot'
  BY DEF StoreCollected
<1>5. LiveHistory'
  <2>1. \A k \in DOMAIN snapshot'.series :
            snapshot'.series[k] = Newest(Reported(since'[k], snapshot'.at - Window), MaxPoints)
    BY <1>1, <1>2
  <2> QED BY <2>1 DEF LiveHistory, Reported
<1>6. clock \in Int
  BY DEF CollectionTypeOK
<1> QED BY <1>1, <1>2, <1>3, <1>4, <1>5, <1>6 DEF SeriesInv

\* The invariant of the collection.
LEMMA SeriesInvariant == CollectionSpec => [](CollectionTypeOK /\ AnswersInv /\ SeriesInv)
<1>1. CollectionInit => SeriesInv
  BY DEF CollectionInit, SeriesInv, LiveHistory
<1>2. CollectionTypeOK /\ AnswersInv /\ SeriesInv /\ [CollectionNext]_collectionVars => SeriesInv'
  <2> SUFFICES ASSUME CollectionTypeOK, AnswersInv, SeriesInv, [CollectionNext]_collectionVars
               PROVE  SeriesInv'
    OBVIOUS
  <2>1. CASE StoreCollected
    BY <2>1, StoreKeepsSeries
  <2>2. CASE UNCHANGED <<snapshot, since>> /\ clock' \in {clock, clock + 1}
    BY <2>2 DEF SeriesInv, LiveHistory, CollectionTypeOK
  <2>3. CASE UNCHANGED collectionVars
    BY <2>2, <2>3 DEF collectionVars, zabbix
  <2>4. CASE ModelsChange
    <3>1. /\ snapshot'.at = snapshot.at /\ snapshot'.series = snapshot.series
          /\ DOMAIN snapshot' = DOMAIN snapshot /\ UNCHANGED <<since, clock>>
      BY <2>4 DEF ModelsChange, zabbix, SeriesInv
    <3> QED BY <3>1 DEF SeriesInv, LiveHistory
  <2> QED BY <2>1, <2>2, <2>3, <2>4
          DEF CollectionNext, HostChanges, ProblemChanges, Measure, TimePasses, Changes,
              StartCollection, ListHosts, ListProblems, ListTriggers, ListItems, Answered,
              NetworkFails, CoreFails, GatherEnds, StoreFails, zabbix
<1> QED BY <1>1, <1>2, AnswersInvariant, PTL DEF CollectionSpec

\* A live series is what the refreshes have reported.
THEOREM HistoryCorrect == CollectionSpec => []LiveHistory
<1>1. SeriesInv => LiveHistory
  BY DEF SeriesInv
<1> QED BY <1>1, SeriesInvariant, PTL

\* Nothing is stored for a live value only if that value and all stored points
\* are from before the window.
LEMMA NothingMerged ==
    ASSUME SeriesInv, CollectionTypeOK, AnswersInv, NEW s \in Live,
           Key(s.item) \notin DOMAIN MergedSeries
    PROVE  /\ s.clock < clock - Window
           /\ \A p \in Stored(Key(s.item)) : p.clock < clock - Window
<1> DEFINE k == Key(s.item)
           low == clock - Window
           J == Joined(Stored(k), Point(s), low)
<1>1. low \in Int /\ MaxPoints \in Nat \ {0}
  BY CollectionAssumption DEF CollectionTypeOK
<1>2. s.clock \in Int /\ Merged(s, Stored(k)) = {}
  BY MergedFacts
<1>3. IsSeries(Stored(k)) /\ IsSeries(J)
  BY <1>1, <1>2, StoredFacts, JoinedSeries DEF Point
<1>4. Newest(J, MaxPoints) = {}
  BY <1>2 DEF Merged, Joined, Point
<1>5. s.clock >= low => Point(s) \in J
  BY DEF Joined, Point
<1>6. \A p \in Stored(k) : p.clock # s.clock /\ p.clock >= low => p \in J
  BY DEF Joined, Point
<1>7. \A p \in Stored(k) : p.clock \in Int
  BY <1>3 DEF IsSeries
<1> HIDE DEF J, low, k
<1>8. J = {}
  BY <1>1, <1>3, <1>4, NewestFacts
<1>9. s.clock < low
  BY <1>1, <1>2, <1>5, <1>8
<1>10. \A p \in Stored(k) : p.clock < low
  BY <1>1, <1>2, <1>6, <1>7, <1>8, <1>9
<1> QED BY <1>9, <1>10 DEF low, k

\* A series that is not stored any more was left out for one of the reasons.
LEMMA StoreLosesForAReason ==
    ASSUME SeriesInv, CollectionTypeOK, AnswersInv, StoreCollected,
           NEW k \in DOMAIN snapshot.series \ DOMAIN snapshot'.series
    PROVE  \/ k[2] \in ResourceMetric /\ k[1] \notin snapshot'.top
           \/ k[2] \in NetworkMetric /\ "network" \in snapshot'.warnings
           \/ /\ k[2] \in NetworkMetric => ~got.lost
              /\ BestValues(k) # {} =>
                   /\ \A s \in BestValues(k) : s.clock < snapshot'.at - Window
                   /\ snapshot.readable =>
                        \A p \in snapshot.series[k] : p.clock < snapshot'.at - Window
<1>1. /\ snapshot'.at = clock /\ snapshot'.series = MergedSeries /\ snapshot'.top = TopHosts
      /\ got.gaps \subseteq snapshot'.warnings
  BY DEF StoreCollected, Warnings
<1>2. k[2] \in LiveMetric
  BY DEF SeriesInv
<1>3. snapshot.readable => Stored(k) = snapshot.series[k]
  BY DEF Stored, Previous
<1>4. ASSUME \A t \in Chosen : Key(t.item) = k => t \in Live, NEW s \in BestValues(k)
      PROVE  /\ s.clock < clock - Window
             /\ \A p \in Stored(k) : p.clock < clock - Window
  <2>1. s \in got.samples /\ Key(s.item) = k
    BY DEF BestValues
  <2>2. PICK t \in Chosen : /\ Key(t.item) = k
                            /\ ModeRank(t.item) <= ModeRank(s.item)
                            /\ ModeRank(t.item) = ModeRank(s.item) => t.clock >= s.clock
    BY <2>1, ChosenExists
  <2>3. t.clock < clock - Window /\ \A p \in Stored(k) : p.clock < clock - Window
    <3>1. t \in Live /\ Key(t.item) \notin DOMAIN MergedSeries
      BY <1>1, <1>4, <2>2
    <3>2. /\ t.clock < clock - Window
          /\ \A p \in Stored(Key(t.item)) : p.clock < clock - Window
      BY <3>1, NothingMerged
    <3> QED BY <2>2, <3>2
  <2>4. t \in got.samples
    BY <2>2 DEF Chosen
  <2>5. ModeRank(s.item) <= ModeRank(t.item)
    BY <2>2, <2>4 DEF BestValues
  <2>6. /\ s.clock \in Int /\ t.clock \in Int
        /\ ModeRank(s.item) \in Int /\ ModeRank(t.item) \in Int
    <3>1. s \in Sample /\ t \in Sample
      BY <2>1, <2>4 DEF CollectionTypeOK, Answers
    <3>2. s.item \in Item /\ t.item \in Item /\ s.clock \in Nat /\ t.clock \in Nat
      BY <3>1 DEF Sample
    <3>3. ModeRank(s.item) \in 1 .. 3 /\ ModeRank(t.item) \in 1 .. 3
      BY <3>2, ItemFacts
    <3> QED BY <3>2, <3>3
  <2>7. clock - Window \in Int
    BY CollectionAssumption DEF CollectionTypeOK
  <2>8. s.clock < clock - Window
    BY <2>2, <2>3, <2>5, <2>6, <2>7
  <2> QED BY <2>3, <2>8
<1>5. CASE k[2] \in NetworkMetric
  <2>1. \A t \in Chosen : Key(t.item) = k => t \in Live
    BY <1>5 DEF Live, Key
  <2>2. got.lost => "network" \in snapshot'.warnings
    BY <1>1 DEF AnswersInv
  <2> QED BY <1>1, <1>3, <1>4, <1>5, <2>1, <2>2
<1>6. CASE k[2] \in {"cpu", "memory"}
  <2>1. k[2] \in ResourceMetric /\ k[2] \notin NetworkMetric
    BY <1>6 DEF ResourceMetric, NetworkMetric
  <2>2. k[1] \in TopHosts => \A t \in Chosen : Key(t.item) = k => t \in Live
    BY <1>6 DEF Live, Key
  <2> QED BY <1>1, <1>3, <1>4, <2>1, <2>2
<1> QED BY <1>2, <1>5, <1>6 DEF LiveMetric

\* History is given up for a reason.
THEOREM LossCorrect == CollectionSpec => HistoryLostForAReason
<1> DEFINE Reason(k) ==
        \/ k[2] \in ResourceMetric /\ k[1] \notin snapshot'.top
        \/ k[2] \in NetworkMetric /\ "network" \in snapshot'.warnings
        \/ /\ k[2] \in NetworkMetric => ~got.lost
           /\ BestValues(k) # {} =>
                /\ \A s \in BestValues(k) : s.clock < snapshot'.at - Window
                /\ snapshot.readable =>
                     \A p \in snapshot.series[k] : p.clock < snapshot'.at - Window
<1>1. ASSUME CollectionTypeOK, AnswersInv, SeriesInv, [CollectionNext]_collectionVars
      PROVE  [\A k \in DOMAIN snapshot.series \ DOMAIN snapshot'.series : Reason(k)]_collectionVars
  <2>1. CASE StoreCollected
    BY <1>1, <2>1, StoreLosesForAReason
  <2>2. CASE snapshot'.series = snapshot.series
    BY <2>2
  <2>3. CASE ModelsChange
    BY <1>1, <2>2, <2>3 DEF ModelsChange, SeriesInv
  <2>4. CASE UNCHANGED snapshot
    BY <2>2, <2>4
  <2> HIDE DEF Reason
  <2> QED BY <1>1, <2>1, <2>3, <2>4
          DEF CollectionNext, HostChanges, ProblemChanges, Measure, TimePasses, Changes,
              StartCollection, ListHosts, ListProblems, ListTriggers, ListItems, Answered,
              NetworkFails, CoreFails, GatherEnds, StoreFails, collectionVars
<1> QED BY <1>1, SeriesInvariant, PTL DEF CollectionSpec, HistoryLostForAReason
=============================================================================
