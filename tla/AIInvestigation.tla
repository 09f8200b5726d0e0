--------------------------- MODULE AIInvestigation ---------------------------
(***************************************************************************)
(* One request to the AI service: a question that is investigated          *)
(* (AIService.investigate), or a summary of the whole dashboard or of one  *)
(* source.  The service reads the four sources one after the other, looks  *)
(* up details of some of them later, on the same database session, asks    *)
(* the language model and replaces what it says by what was read.  The     *)
(* sources and the links of the device change in between, and lookups fail.*)
(*                                                                         *)
(* The words of a question and of the model are represented by what the    *)
(* code finds in them.  The adverse counters of a source move together:    *)
(* they are one number, the records that match the question.               *)
(***************************************************************************)
EXTENDS Integers, SequencesExt

CONSTANTS
    Question,         \* the requests, see Asked
    MaxRows,          \* bound: records of a source that match
    Notes,            \* warnings of a source that have nothing to do with its health
    DetailLimit,      \* limit=5 (3 for Wazuh): records of an answer
    FactLimit,        \* lines of evidence, 12
    LimitationLimit,  \* limitations[:8]
    WarningLimit,     \* source warnings, 12
    MaxWorldChanges,  \* bound: changes of the sources
    MaxLookupFailures \* bound: lookups that fail by themselves

AISource == {"wazuh", "zabbix", "snipe_it", "freshservice"}
NoSource == "none"
Confidence == {"low", "medium", "high"}

\* What the code finds in a request.  kind: investigate, dashboard, or the
\* source to summarise.  named: sources named; score: domain terms of each
\* source; strong: sources with a strong term; phrase: an environment phrase;
\* devices: how many devices it identifies, 3 at most; records: asks for records
\* rather than counts; counts: mentions tickets or a ticket status; host: asks
\* about a specific host.
Asked == [kind : {"investigate", "dashboard"} \cup AISource,
          named : SUBSET AISource, score : [AISource -> Nat], strong : SUBSET AISource,
          phrase : BOOLEAN, devices : 0..3, records : BOOLEAN, counts : BOOLEAN,
          host : BOOLEAN]

ASSUME QuestionAssumption == Question \subseteq Asked
ASSUME LimitsAssumption ==
    /\ MaxRows \in Nat /\ Notes \in [AISource -> Nat] /\ DetailLimit \in Nat \ {0}
    /\ FactLimit \in Nat /\ WarningLimit \in Nat
    /\ LimitationLimit \in Nat /\ LimitationLimit >= 5
    /\ MaxWorldChanges \in Nat /\ MaxLookupFailures \in Nat

\* The attention metrics of a source, each a line of evidence.
Counters == [wazuh |-> 6, zabbix |-> 4, snipe_it |-> 5, freshservice |-> 6]

VARIABLES
    question,
    health, rows, links,  \* the sources, and the sources the device is linked to
    stage,                \* what the request does next
    todo,                 \* the lookups that are left
    device,               \* linked_sources of the device, as read
    broken,               \* the session's transaction is aborted
    summary,              \* what was read of each source
    counted,              \* the records counted, which are listed next
    details,              \* by source, the records looked up: matching and shown
    limitations,          \* those added by lookups
    output,               \* what the model says
    outcome,              \* how the request ended
    wasFine,              \* sources healthy at some instant of the request (history)
    failed,               \* lookups that failed (history)
    worldChanges, lookupFailures

world == <<health, rows, links>>
evidenceVars == <<todo, device, broken, summary, counted, details, limitations>>
investigationVars ==
    <<question, world, stage, evidenceVars, output, outcome, wasFine, failed,
      worldChanges, lookupFailures>>

NoOutput == [confidence |-> "low", about |-> NoSource, firm |-> FALSE]
Least(a, b) == IF a < b THEN a ELSE b

-----------------------------------------------------------------------------
(* The classifier *)

Only(S) == IF Cardinality(S) = 1 THEN CHOOSE s \in S : TRUE ELSE NoSource

\* _inferred_source: the one source with the most terms, among those with two
\* terms or a strong one.
Eligible == {s \in AISource : question.score[s] >= 2 \/ s \in question.strong}
Inferred ==
    Only({s \in Eligible : question.score[s] > 0
                           /\ \A t \in Eligible : question.score[t] <= question.score[s]})

AskedSource == IF Only(question.named) # NoSource THEN Only(question.named) ELSE Inferred

DomainHits == FoldFunction(LAMBDA a, b : a + b, 0, question.score)

\* is_monitoring_question
IsMonitoring ==
    question.devices > 0 \/ AskedSource # NoSource \/ question.phrase \/ DomainHits >= 2

\* classify_question
Scope ==
    IF question.devices > 0 THEN "device"
    ELSE IF AskedSource # NoSource THEN "source"
    ELSE "environment"

-----------------------------------------------------------------------------
(* Evidence *)

Fine(s) == summary[s].health = "healthy"

\* _SOURCE_ORDER: a line for each source there is one for, one source after the other.
InOrder(lines) ==
    LET of(s) == IF s \in DOMAIN lines THEN lines[s] ELSE <<>>
    IN  of("wazuh") \o of("zabbix") \o of("snipe_it") \o of("freshservice")

\* build_investigation_evidence: the sources an answer rests on.
Selected ==
    CASE Scope = "environment" -> {s \in AISource : ~Fine(s) \/ summary[s].count > 0}
      [] Scope = "source" -> {AskedSource}
      [] OTHER -> IF AskedSource = NoSource THEN device ELSE {AskedSource} \cap device

BaseLimitations ==
    <<"normalized_evidence_only">>
        \o (IF Scope = "device" /\ AskedSource \notin device \cup {NoSource}
            THEN <<"not_linked">> ELSE <<>>)
        \o (IF Scope = "device" THEN <<"environment_level_metrics">> ELSE <<>>)

AllLimitations ==
    LET all == BaseLimitations \o limitations IN
    SubSeq(all, 1, Least(LimitationLimit, Len(all)))

\* The order of the lookups a request makes besides the summaries.
LookupOrder ==
    <<"count", "list", "metrics", "hosts", "host_link", "host", "agent_link", "wazuh">>

\* Mutated form of HostWanted: the device may have no link to Zabbix.
HostWantedUnlinked == AskedSource \in {NoSource, "zabbix"}

\* The host of the device is looked up.
HostWanted == "zabbix" \in device /\ AskedSource \in {NoSource, "zabbix"}

\* The lookups a request makes besides the summaries.
Lookups ==
    CASE Scope = "source" /\ AskedSource \in {"freshservice", "snipe_it"} ->
            (IF question.records THEN {"count", "list"} ELSE {})
            \cup (IF AskedSource = "freshservice" /\ question.counts THEN {"metrics"} ELSE {})
      [] Scope = "source" /\ AskedSource = "zabbix" -> {"hosts"}
      [] Scope = "source" /\ AskedSource = "wazuh" -> IF question.records THEN {"wazuh"} ELSE {}
      [] Scope = "device" ->
            (IF HostWanted THEN {"host_link", "host"} ELSE {})
            \cup (IF question.records /\ "wazuh" \in device /\ AskedSource \in {NoSource, "wazuh"}
                  THEN {"agent_link", "wazuh"} ELSE {})
      [] OTHER -> {}

\* The lookup that is made next.
IsNext(l) ==
    /\ l \in todo
    /\ \E i \in DOMAIN LookupOrder :
        LookupOrder[i] = l /\ \A j \in 1..(i - 1) : LookupOrder[j] \notin todo

\* What a lookup is about, and the lookups given up when it fails.
About(l) ==
    CASE l \in {"host_link", "host", "hosts"} -> "zabbix"
      [] l \in {"agent_link", "wazuh"} -> "wazuh"
      [] OTHER -> AskedSource
Others(l) == {k \in todo : About(k) # About(l)}

\* The metrics of a source are left out when records of it were looked up; with
\* Zabbix, when a host was found.
LookedAt(s) == s \in DOMAIN details
ShowsMetrics(s) ==
    \/ ~LookedAt(s)
    \/ s = "zabbix" /\ Scope = "source" /\ details[s].matching = 0

Times(n, line) == [i \in 1..n |-> line]
Line(s, what) == <<[about |-> s, what |-> what]>>

\* The warnings of a source's summary; the first four are its health reasons.
WarningsOf(s) == IF Fine(s) THEN Notes[s] ELSE Notes[s] + 1

RecordLines(s) == Line(s, "matching") \o Times(details[s].shown, Line(s, "record")[1])

\* investigation_fact_lines, for one source ...
SourceLines(s) ==
    (IF ~Fine(s) \/ Scope = "source" THEN Line(s, "status") ELSE <<>>)
    \o (IF Fine(s) THEN <<>> ELSE Times(Least(4, WarningsOf(s)), Line(s, "reason")[1]))
    \o (IF LookedAt(s) /\ (s = "wazuh" => details[s].matching > 0) /\ s # "zabbix"
        THEN RecordLines(s) ELSE <<>>)
    \o (IF ShowsMetrics(s) /\ (summary[s].count > 0 \/ (Scope = "source" /\ Fine(s)))
        THEN Times(Counters[s], Line(s, "metric")[1]) ELSE <<>>)

\* ... and for all, hosts first.
Facts ==
    LET lines ==
        (IF Scope = "device" THEN Times(3, Line("device", "identity")[1]) ELSE <<>>)
        \o (IF LookedAt("zabbix") THEN RecordLines("zabbix") ELSE <<>>)
        \o InOrder([s \in Selected |-> SourceLines(s)])
    IN  SubSeq(lines, 1, Least(FactLimit, Len(lines)))

\* The sources whose warnings an investigation passes on: in an environment
\* investigation those of every source, also of those it omits.
WarnsAbout == IF Scope = "environment" THEN AISource ELSE Selected
SourceWarnings ==
    LET lines(s) == (IF Fine(s) THEN <<>> ELSE Line(s, "status"))
                        \o Times(WarningsOf(s), Line(s, "note")[1])
        all == InOrder([s \in WarnsAbout |-> lines(s)])
    IN  SubSeq(all, 1, Least(WarningLimit, Len(all)))

\* _application_recommendations: the health, and the records looked up, which may
\* be a device's host without problems, or, where there are none, the metrics.
Recommendations ==
    {s \in Selected :
        \/ ~Fine(s)
        \/ LookedAt(s) /\ (details[s].shown > 0 \/ (s = "zabbix" /\ Scope = "device"))
        \/ ~(LookedAt(s) /\ (s = "wazuh" \/ details[s].shown > 0)) /\ summary[s].count > 0}

-----------------------------------------------------------------------------
(* What becomes of the model's answer *)

\* Mutated form of Grounded: the health of the sources is not looked at.
GroundedBlindly ==
    IF Scope = "device" THEN "low"
    ELSE IF output.confidence = "high" THEN "medium" ELSE output.confidence

\* ground_investigation_analysis
Grounded ==
    IF Scope = "device" \/ \E s \in Selected : ~Fine(s) THEN "low"
    ELSE IF output.confidence = "high" THEN "medium" ELSE output.confidence

\* _evidence_controlled_explanation: the application's own words are used.
Controlled ==
    \/ LookedAt("wazuh")
    \/ \E s \in DOMAIN details : details[s].shown > 0
    \/ Scope = "source" /\ ~Fine(AskedSource)

\* Mutated form of IsSafe: the sources a text mentions are not looked at.
IsSafeAnywhere == ~output.firm

\* _safe_interpretive_text: no digits, causes or device names, no source that
\* was not selected.
IsSafe == ~output.firm /\ output.about \in Selected \cup {NoSource}

\* The source the explanation is about.
Explains == IF ~Controlled /\ IsSafe THEN output.about ELSE NoSource

Affected == {s \in AISource : ~Fine(s)}
Adverse(S) == S \cap {s \in AISource : ~Fine(s) \/ summary[s].count > 0}

\* Mutated form of Executive: one affected source does not matter.
ExecutiveLenient == IF Cardinality(Affected) >= 2 THEN "low" ELSE output.confidence

\* _build_response: the confidence of the executive summary.
Executive ==
    IF Cardinality(Affected) >= 2 THEN "low"
    ELSE IF Cardinality(Affected) = 1 /\ output.confidence = "high" THEN "medium"
    ELSE output.confidence

\* _build_source_response
Lowered(s, confidence) ==
    IF summary[s].health = "down" THEN "low"
    ELSE IF ~Fine(s) /\ confidence = "high" THEN "medium"
    ELSE confidence

\* _dashboard_source_analysis: a section of the dashboard summary.
Section(s) == Lowered(s, IF Adverse({s}) = {} THEN "high" ELSE "medium")

-----------------------------------------------------------------------------
(* The request *)

Ended(how) ==
    /\ stage' = "done"
    /\ outcome' = how
    /\ UNCHANGED <<question, world, evidenceVars, wasFine, failed, worldChanges, lookupFailures>>

\* A database lookup fails, by itself or because an earlier one aborted the
\* transaction.
QueryBreaks ==
    /\ broken' = TRUE
    /\ \/ broken /\ UNCHANGED lookupFailures
       \/ ~broken /\ lookupFailures < MaxLookupFailures /\ lookupFailures' = lookupFailures + 1

\* A source, or the Zabbix cache, raises an IntegrationError.
SourceRefuses ==
    /\ lookupFailures < MaxLookupFailures
    /\ lookupFailures' = lookupFailures + 1
    /\ UNCHANGED broken

\* A summary request finds no devices.  find_matches is not guarded: when it
\* fails, so does the request.
FindDevice ==
    /\ stage = "ask"
    /\ question.kind = "investigate" => IsMonitoring /\ question.devices <= 1
    /\ stage' = "wazuh"
    /\ device' = IF question.devices = 1 THEN links ELSE {}
    /\ UNCHANGED <<question, world, todo, broken, summary, counted, details, limitations, output,
                   outcome, wasFine, failed, worldChanges, lookupFailures>>
Refuse ==
    /\ stage = "ask"
    /\ question.kind = "investigate" /\ ~IsMonitoring
    /\ Ended("refused") /\ UNCHANGED output
Ambiguous ==
    /\ stage = "ask"
    /\ question.kind = "investigate" /\ question.devices > 1
    /\ Ended("ambiguous") /\ UNCHANGED output
FindDeviceFails ==
    /\ stage = "ask"
    /\ question.kind = "investigate"
    /\ lookupFailures < MaxLookupFailures
    /\ Ended("error") /\ UNCHANGED output

StageAfter(s) ==
    CASE s = "wazuh" -> "zabbix" [] s = "zabbix" -> "snipe_it"
      [] s = "snipe_it" -> "freshservice"
      [] OTHER -> IF question.kind = "investigate" THEN "lookups" ELSE "model"

Summarised(s, reading) ==
    /\ summary' = [t \in DOMAIN summary \cup {s} |-> IF t = s THEN reading ELSE summary[t]]
    /\ stage' = StageAfter(s)
    /\ todo' = IF StageAfter(s) = "lookups" THEN Lookups ELSE {}
    /\ UNCHANGED <<question, world, device, counted, details, limitations, output, outcome,
                   wasFine, failed, worldChanges>>

\* ExecutiveDashboardService.get_dashboard, one source.
ReadSummary(s) ==
    /\ stage = s
    /\ s = "wazuh" \/ ~broken
    /\ Summarised(s, [health |-> health[s], count |-> rows[s]])
    /\ UNCHANGED <<broken, lookupFailures>>
ReadSummaryFails(s) ==
    /\ stage = s
    /\ \/ s \in {"wazuh", "zabbix"} /\ SourceRefuses
       \/ s # "wazuh" /\ QueryBreaks
    /\ Summarised(s, [health |-> "down", count |-> 0])

\* A lookup of details succeeds; each has what it finds.
LookedUp(l) ==
    /\ stage = "lookups" /\ IsNext(l)
    /\ l # "wazuh" => ~broken
    /\ UNCHANGED <<question, world, stage, device, broken, output, outcome, wasFine, failed,
                   worldChanges, lookupFailures>>
NotAvailable(s) == "not_available_" \o s
Add(limitation) == limitations' = Append(limitations, limitation)
Detailed(s, matching, shown) ==
    details' = [t \in DOMAIN details \cup {s} |->
                    IF t = s THEN [matching |-> matching, shown |-> shown] ELSE details[t]]

\* Count and list are two queries: tickets_details_for_question and
\* asset_details_for_question.
CountRecords ==
    /\ LookedUp("count")
    /\ todo' = todo \ {"count"}
    /\ counted' = rows[AskedSource]
    /\ UNCHANGED <<summary, details, limitations>>
ListRecords ==
    /\ LookedUp("list")
    /\ todo' = todo \ {"list"}
    /\ Detailed(AskedSource, counted, Least(DetailLimit, rows[AskedSource]))
    /\ IF AskedSource = "snipe_it" THEN Add("bounded_records") ELSE UNCHANGED limitations
    /\ UNCHANGED <<summary, counted>>

\* metrics_for_question: counts that replace those of the summary, unless
\* tickets have been listed before.
CountMetrics ==
    /\ LookedUp("metrics")
    /\ todo' = todo \ {"metrics"}
    /\ IF LookedAt("freshservice")
       THEN Add("bounded_records") /\ UNCHANGED summary
       ELSE /\ Add("current_counts")
            /\ summary' = [summary EXCEPT !.freshservice.count = rows["freshservice"]]
    /\ UNCHANGED <<counted, details>>

\* What of a dashboard matches the question, and the first few of it.
Listed(l, s) ==
    /\ LookedUp(l)
    /\ todo' = todo \ {l}
    /\ Detailed(s, rows[s], Least(DetailLimit, rows[s]))
    /\ Add("bounded_records")
    /\ UNCHANGED <<summary, counted>>

\* The hosts of a Zabbix question.
ListHosts == Listed("hosts", "zabbix")

\* The agents, alerts and vulnerabilities of a Wazuh question, or of the device.
SelectWazuhDetails == Listed("wazuh", "wazuh")

\* get_source_record_id: the link may be gone by now.
FindLink(l) ==
    /\ LookedUp(l)
    /\ IF About(l) \in links
       THEN todo' = todo \ {l} /\ UNCHANGED limitations
       ELSE todo' = Others(l) /\ Add(NotAvailable(About(l)))
    /\ UNCHANGED <<summary, counted, details>>

\* The device's host may be missing from the Zabbix dashboard, or have no problem.
FindHost ==
    /\ LookedUp("host")
    /\ todo' = todo \ {"host"}
    /\ \/ /\ \E problems \in 0..1 : Detailed("zabbix", 1, problems)
          /\ UNCHANGED limitations
       \/ /\ Add(NotAvailable("zabbix"))
          /\ UNCHANGED details
    /\ UNCHANGED <<summary, counted>>

\* Mutated form of LookupFails: a failed lookup is passed over.
LookupFailsSilently(l) ==
    /\ stage = "lookups" /\ IsNext(l)
    /\ \/ l \in {"wazuh", "hosts", "host"} /\ SourceRefuses
       \/ l # "wazuh" /\ QueryBreaks
    /\ todo' = Others(l)
    /\ failed' = failed \cup {About(l)}
    /\ UNCHANGED <<question, world, stage, device, summary, counted, details, limitations,
                   output, outcome, wasFine, worldChanges>>

\* A lookup fails: the aggregates are used instead, also of tickets listed
\* before, and the answer says so.
LookupFails(l) ==
    /\ stage = "lookups" /\ IsNext(l)
    /\ \/ l \in {"wazuh", "hosts", "host"} /\ SourceRefuses
       \/ l # "wazuh" /\ QueryBreaks
    /\ todo' = Others(l)
    /\ failed' = failed \cup {About(l)}
    /\ Add(NotAvailable(About(l)))
    /\ details' = [s \in DOMAIN details \ {About(l)} |-> details[s]]
    /\ UNCHANGED <<question, world, stage, device, summary, counted, output, outcome, wasFine,
                   worldChanges>>

\* A Zabbix question about a specific host gets a warning at the end.
Prepared ==
    /\ stage = "lookups" /\ todo = {}
    /\ stage' = "model"
    /\ limitations' = IF Scope = "source" /\ AskedSource = "zabbix" /\ question.host
                      THEN Append(limitations, "no_specific_host") ELSE limitations
    /\ UNCHANGED <<question, world, todo, device, broken, summary, counted, details, output,
                   outcome, wasFine, failed, worldChanges, lookupFailures>>

\* Is there anything the model is asked about?
Summarises == CASE question.kind = "dashboard" -> AISource [] OTHER -> {question.kind}
NeedsModel ==
    IF question.kind = "investigate" THEN Scope # "device" \/ Selected # {}
    ELSE Adverse(Summarises) # {}

\* The answer is fixed: nothing is wrong, or nothing is linked to the device.
AnswerWithoutModel ==
    /\ stage = "model"
    /\ ~NeedsModel
    /\ output' = [NoOutput EXCEPT !.confidence =
                     IF question.kind = "investigate" THEN "low" ELSE "high"]
    /\ Ended("fixed")

\* A text with digits, causes or device names is firm, whatever it is about.
ModelAnswers ==
    /\ stage = "model"
    /\ NeedsModel
    /\ output' \in [confidence : Confidence, about : AISource \cup {NoSource}, firm : {FALSE}]
                    \cup [confidence : Confidence, about : {NoSource}, firm : {TRUE}]
    /\ Ended("model")

\* Any of the provider's errors, the timeout among them, ends the request.
ModelFails ==
    /\ stage = "model"
    /\ NeedsModel
    /\ Ended("error")
    /\ UNCHANGED output

-----------------------------------------------------------------------------
(* The world *)

FineNow == {s \in AISource : health[s] = "healthy"}

\* What changes after the last lookup does not matter.
WorldChanges ==
    /\ stage \notin {"model", "done"}
    /\ worldChanges < MaxWorldChanges
    /\ worldChanges' = worldChanges + 1
    /\ \/ /\ \E s \in AISource, h \in {"healthy", "stale", "down"} :
                h # health[s] /\ health' = [health EXCEPT ![s] = h]
          /\ UNCHANGED <<rows, links>>
       \/ /\ \E s \in AISource : rows' = [rows EXCEPT ![s] = MaxRows - rows[s]]
          /\ UNCHANGED <<health, links>>
       \/ /\ question.devices = 1
          /\ \E s \in AISource : links' = (links \ {s}) \cup ({s} \ links)
          /\ UNCHANGED <<health, rows>>
    /\ wasFine' = wasFine \cup FineNow'
    /\ UNCHANGED <<question, stage, evidenceVars, output, outcome, failed, lookupFailures>>

InvestigationInit ==
    /\ question \in Question
    /\ health \in [AISource -> {"healthy", "stale", "down"}]
    /\ rows \in [AISource -> {0, MaxRows}]
    /\ links \in IF question.devices = 1 THEN SUBSET AISource ELSE {{}}
    /\ stage = "ask"
    /\ todo = {}
    /\ device = {}
    /\ broken = FALSE
    /\ summary = <<>>
    /\ counted = 0
    /\ details = <<>>
    /\ limitations = <<>>
    /\ output = NoOutput
    /\ outcome = "none"
    /\ wasFine = FineNow
    /\ failed = {}
    /\ worldChanges = 0
    /\ lookupFailures = 0

RequestStep ==
    \/ FindDevice \/ Refuse \/ Ambiguous \/ FindDeviceFails
    \/ \E s \in AISource : ReadSummary(s) \/ ReadSummaryFails(s)
    \/ CountRecords \/ ListRecords \/ CountMetrics
    \/ ListHosts \/ SelectWazuhDetails
    \/ FindLink("host_link") \/ FindLink("agent_link") \/ FindHost
    \/ (\E l \in todo : LookupFails(l))
    \/ Prepared
    \/ AnswerWithoutModel \/ ModelAnswers \/ ModelFails

InvestigationNext == RequestStep \/ WorldChanges

InvestigationSpec == InvestigationInit /\ [][InvestigationNext]_investigationVars

-----------------------------------------------------------------------------
(* Properties *)

LookupNames == {"count", "list", "metrics", "hosts", "host_link", "host", "agent_link", "wazuh"}
Reading == [health : {"healthy", "stale", "down"}, count : Nat]
Limitation ==
    {"bounded_records", "current_counts", "no_specific_host"}
    \cup {NotAvailable(s) : s \in AISource}

\* Types.
InvestigationTypeOK ==
    /\ question \in Question
    /\ health \in [AISource -> {"healthy", "stale", "down"}]
    /\ rows \in [AISource -> 0..MaxRows] /\ links \in SUBSET AISource
    /\ stage \in {"ask", "lookups", "model", "done"} \cup AISource
    /\ todo \in SUBSET LookupNames
    /\ device \in SUBSET AISource /\ broken \in BOOLEAN
    /\ DOMAIN summary \subseteq AISource /\ \A s \in DOMAIN summary : summary[s] \in Reading
    /\ counted \in Nat
    /\ DOMAIN details \subseteq AISource
    /\ \A s \in DOMAIN details : details[s] \in [matching : Nat, shown : Nat]
    /\ limitations \in Seq(Limitation)
    /\ output \in [confidence : Confidence, about : AISource \cup {NoSource}, firm : BOOLEAN]
    /\ outcome \in {"none", "refused", "ambiguous", "error", "fixed", "model"}
    /\ wasFine \in SUBSET AISource /\ failed \in SUBSET AISource
    /\ worldChanges \in Nat /\ lookupFailures \in Nat

AnswersAre(kinds) == stage = "done" /\ outcome \in {"model", "fixed"} /\ question.kind \in kinds

\* No answer is more confident than the sources warrant, whatever the model
\* claims and whenever they changed: an investigation that is not of low
\* confidence rests on sources that were healthy at some instant of the
\* request, an executive summary of high confidence on four of them and one
\* of medium confidence on three, and a section or a summary of one source
\* that is of high confidence on that source.
ConfidenceWarranted ==
    /\ AnswersAre({"investigate"}) /\ Grounded # "low" => Selected \subseteq wasFine
    /\ AnswersAre({"dashboard"}) =>
        /\ Executive = "high" => AISource \subseteq wasFine
        /\ Executive = "medium" => Cardinality(AISource \ wasFine) <= 1
        /\ \A s \in AISource : Section(s) = "high" => s \in wasFine
    /\ \A s \in AISource :
        AnswersAre({s}) /\ Lowered(s, output.confidence) = "high" => s \in wasFine

\* The answer names the evidence that is missing, however many limitations,
\* facts and warnings are cut off: every lookup that failed, and every source
\* it rests on that was not healthy when it was read, unless the warnings of
\* others fill their list.
NamesMissingEvidence ==
    AnswersAre({"investigate"}) =>
        /\ \A s \in failed : NotAvailable(s) \in ToSet(AllLimitations)
        /\ \A s \in WarnsAbout :
            \/ Fine(s) \/ Len(SourceWarnings) = WarningLimit
            \/ \E line \in ToSet(Facts) \cup ToSet(SourceWarnings) : line.about = s

\* No fact of an answer is about a source that was not selected, whatever is
\* linked to the device by the time its details are looked up.
StaysInScope ==
    AnswersAre({"investigate"}) =>
        {line.about : line \in ToSet(Facts)} \subseteq Selected \cup {"device"}

\* What an answer recommends, and what it explains in words of the model, is
\* about a source that one of its facts is about too, unless the facts are cut
\* off.  The three are computed separately.  (What the model says of a device
\* may be about a linked source of which nothing is to be reported.)
Founded ==
    AnswersAre({"investigate"}) /\ Len(Facts) < FactLimit =>
        LET reported == {line.about : line \in ToSet(Facts)} IN
        /\ Recommendations \subseteq reported
        /\ outcome = "model" /\ Scope # "device" => Explains \in reported \cup {NoSource}

\* The executive summary and the four sections of one dashboard summary are
\* computed separately and agree: there is nothing for the model to summarise
\* exactly when no section reports anything, and the executive summary is of
\* high confidence only if no section is of low confidence.
SectionsAgree ==
    AnswersAre({"dashboard"}) =>
        /\ outcome = "fixed" <=> \A s \in AISource : Section(s) = "high"
        /\ Executive = "high" => \A s \in AISource : Section(s) # "low"

\* "The AI names missing evidence and lowers confidence": an investigation in
\* which a lookup failed is of low confidence.
MissingEvidenceLowersConfidence ==
    AnswersAre({"investigate"}) /\ outcome = "model" /\ failed # {} => Grounded = "low"
=============================================================================
