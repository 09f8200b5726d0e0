------------------------------- MODULE Worker -------------------------------
(***************************************************************************)
(* The background worker: four loops in one process (run_worker), one per *)
(* source, each an endless attempt - sleep cycle.  A loop catches the      *)
(* errors it names; any other one leaves asyncio.gather, the process ends, *)
(* and the container is started again (restart: unless-stopped).           *)
(*                                                                         *)
(* The loops share one event loop and the database calls are synchronous: *)
(* from the reply of the source to the end of the attempt, storing and     *)
(* correlating included, no other loop takes a step.                       *)
(***************************************************************************)
EXTENDS Integers

CONSTANTS
    Rejecting,  \* sources that may have a record that DeviceObservation refuses
    Breaking    \* sources whose CA bundle may not load, or whose run's row may
                \* be gone when it is to be closed

Source == {"freshservice", "snipe_it", "zabbix", "wazuh"}
Correlated == Source \ {"freshservice"}

ASSUME ErrorsAssumption == Rejecting \subseteq Correlated /\ Breaking \subseteq Source

\* value: a ValueError; other: an OSError or a RuntimeError.
Errors == {"none", "integration", "database", "capacity", "value", "other"}

VARIABLES
    configured,  \* sources with complete settings (read at the start)
    process,     \* "running", or "ended" by an error or from outside
    stage,       \* of each loop
    full         \* more links than MAX_CORRELATION_LINKS

vars == <<configured, process, stage, full>>

-----------------------------------------------------------------------------

\* The except clauses of the loop of s.
Catches(s) ==
    {"none", "integration", "database"}
        \cup (IF s \in Correlated THEN {"capacity"} ELSE {})
        \cup (IF s = "zabbix" THEN {"value"} ELSE {})

\* How an attempt of s can end: fetching and storing may fail; correlating
\* fails if the store is full, and on a refused record, at every attempt as
\* long as the record is there.
Ends(s) ==
    {"integration", "database"}
        \cup (IF s \in Correlated /\ full THEN {"capacity"} ELSE {"none"})
        \cup (IF s \in Rejecting THEN {"value"} ELSE {})
        \cup (IF s \in Breaking THEN {"other"} ELSE {})

\* The loop body is entered; the request to the source is under way.
Begin(s) ==
    /\ process = "running"
    /\ stage[s] = "due"
    /\ stage' = [stage EXCEPT ![s] = IF s \in configured THEN "calling" ELSE "sleeping"]
    /\ UNCHANGED <<configured, process, full>>

\* The sleep of the loop is over.
Wake(s) ==
    /\ process = "running"
    /\ stage[s] = "sleeping"
    /\ stage' = [stage EXCEPT ![s] = "due"]
    /\ UNCHANGED <<configured, process, full>>

AllGone == process' = "ended" /\ stage' = [t \in Source |-> "gone"]

\* Mutated form of End: after an error the loop goes on without a sleep.
EndNoSleep(s, e) ==
    /\ process = "running"
    /\ stage[s] = "calling"
    /\ e \in Ends(s)
    /\ IF e \in Catches(s)
       THEN /\ stage' = [stage EXCEPT ![s] = IF e = "none" THEN "sleeping" ELSE "due"]
            /\ UNCHANGED process
       ELSE AllGone
    /\ full' \in IF e = "none" /\ s \in Correlated THEN BOOLEAN ELSE {full}
    /\ UNCHANGED configured

\* The attempt ends with e, which the loop catches or not.
End(s, e) ==
    /\ process = "running"
    /\ stage[s] = "calling"
    /\ e \in Ends(s)
    /\ IF e \in Catches(s)
       THEN /\ stage' = [stage EXCEPT ![s] = "sleeping"]
            /\ UNCHANGED process
       ELSE AllGone
    /\ full' \in IF e = "none" /\ s \in Correlated THEN BOOLEAN ELSE {full}
    /\ UNCHANGED configured

Kill ==
    /\ process = "running"
    /\ AllGone
    /\ UNCHANGED <<configured, full>>

\* The container is started again, and every loop starts with an attempt.
Restart ==
    /\ process = "ended"
    /\ process' = "running"
    /\ stage' = [s \in Source |-> "due"]
    /\ UNCHANGED <<configured, full>>

-----------------------------------------------------------------------------

Init ==
    /\ configured \in SUBSET Source
    /\ process = "running"
    /\ stage = [s \in Source |-> "due"]
    /\ full \in BOOLEAN

Next ==
    \/ \E s \in Source : Begin(s) \/ Wake(s) \/ \E e \in Errors : End(s, e)
    \/ Kill
    \/ Restart

Spec == Init /\ [][Next]_vars

\* The event loop serves every task, requests have timeouts, sleeps end, and
\* Docker restarts the container.
FairSpec ==
    /\ Spec
    /\ \A s \in Source :
        /\ WF_vars(Begin(s))
        /\ WF_vars(Wake(s))
        /\ WF_vars(\E e \in Errors : End(s, e))
    /\ WF_vars(Restart)

-----------------------------------------------------------------------------
(* Properties *)

TypeOK ==
    /\ configured \in SUBSET Source
    /\ process \in {"running", "ended"}
    /\ stage \in [Source -> {"due", "calling", "sleeping", "gone"}]
    /\ full \in BOOLEAN

\* As long as the process stays up, every loop comes to the end of an attempt
\* again and again, however often the others fail, at every attempt and with
\* the store full for good included; also after any number of restarts.  A
\* process that is ended again and again promises nothing to any loop: the
\* attempt that ends it may always be the first to be over (run_worker).
EveryLoopGoesOn ==
    <>[](process = "running") => \A s \in Source : []<>(stage[s] = "sleeping")

\* "one source failure does not terminate the other loops": the end of an
\* attempt changes the stage of its own loop only.
FailureIsIsolated ==
    [][\A s \in Source : (\E e \in Errors : End(s, e)) =>
        \A t \in Source \ {s} : stage'[t] = stage[t]]_vars
=============================================================================
