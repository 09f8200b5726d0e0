----------------------------- MODULE MCExecutive -----------------------------
(***************************************************************************)
(* Model-checks ExecutiveDashboard and AIInvestigation in one run of TLC: a*)
(* behaviour is one of either module, and leaves the variables of the      *)
(* other at an initial state.  The two share no variable.                  *)
(***************************************************************************)
EXTENDS ExecutiveDashboard, MCInvestigation, TLC

Tickets == Permutations(Ticket)  \* no ticket is told from another

VARIABLE part  \* the module whose behaviour this is

\* Of the initial states, those in which at most one source has run before, and
\* at most one ticket, an open one, is stored.
OneHasRun ==
    /\ Cardinality({s \in Stored : runs[s] # NoRuns}) <= 1
    /\ Cardinality(DOMAIN tickets) <= 1
    /\ \A t \in DOMAIN tickets : tickets[t] = "open"

DashboardInit ==
    /\ part = "dashboard"
    /\ MCInvestigationInit /\ question = Dashboard /\ AllFine
    /\ Init /\ OneHasRun

MCInit ==
    \/ DashboardInit
    \/ /\ part = "investigation"
       /\ Init /\ configured = {} /\ \A s \in Stored : runs[s] = NoRuns
       /\ MCInvestigationInit

MCNext ==
    /\ UNCHANGED part
    /\ \/ part = "dashboard" /\ Next /\ UNCHANGED investigationVars
       \/ part = "investigation" /\ InvestigationNext /\ UNCHANGED vars

MCSpec == MCInit /\ [][MCNext]_<<vars, investigationVars, part>>
DashboardSpec == DashboardInit /\ [][MCNext]_<<vars, investigationVars, part>>
=============================================================================
