-------------------------- MODULE FreshserviceSync --------------------------
(***************************************************************************)
(* The incremental ticket synchronisation of the background worker:       *)
(* FreshserviceSyncService.sync, the paging loop of                       *)
(* FreshserviceClient.list_tickets, and the source that keeps changing    *)
(* while it is read.  One sync runs at a time (one worker loop); it is    *)
(* interrupted only where the code awaits, that is between two pages and  *)
(* between the last page and the transaction that stores it.              *)
(*                                                                         *)
(* A ticket's content is its version number.  The source stamps a change  *)
(* with its own clock, which may differ from the worker's by Skew.        *)
(***************************************************************************)
EXTENDS Integers, FiniteSets

CONSTANTS
    MaxTicket,   \* tickets are 1..MaxTicket, in order of creation
    MaxVersion,  \* bound: changes of one ticket at the source
    MaxTime,     \* bound: the worker's clock
    MaxFaults,   \* bound: failed listings, failed commits, worker kills
    MaxDeleted,  \* bound: tickets deleted at the source
    PageSize,    \* FRESHSERVICE_TICKET_PAGE_SIZE
    MaxPages,    \* FRESHSERVICE_MAX_TICKET_PAGES
    Overlap,     \* FRESHSERVICE_INCREMENTAL_OVERLAP
    Skew         \* largest difference of the two clocks

ASSUME BoundsAssumption ==
    /\ MaxTicket \in Nat /\ MaxVersion \in Nat /\ MaxTime \in Nat
    /\ MaxFaults \in Nat /\ MaxDeleted \in Nat
    /\ PageSize \in Nat \ {0} /\ MaxPages \in Nat \ {0}
    /\ Overlap \in Nat /\ Skew \in Nat

\* The overlap is what makes up for clocks that disagree.
ASSUME OverlapCoversSkew == Skew <= Overlap

Ticket == 1 .. MaxTicket
None == -1

VARIABLES
    now,      \* the worker's clock
    source,   \* source[t]: version and updated_at of t at Freshservice
    gone,     \* tickets deleted at Freshservice
    tickets,  \* tickets[t]: version of t in the tickets table, 0 if no row
    run,      \* the newest row of sync_runs
    success,  \* started_at of the newest row with status success, or None
    pc,       \* where the worker is: idle, listing or storing
    since,    \* updated_since of the current listing
    page,     \* number of the page to fetch next
    fetched,  \* version of each ticket in unique_tickets, 0 if not returned
    skipped,  \* history: tickets a deletion moved to a page already read
    faults    \* counts the faults, to bound them

sourceVars == <<source, gone, skipped>>
tableVars == <<tickets, run, success>>
vars == <<now, sourceVars, tableVars, pc, since, page, fetched, faults>>

Unseen == [t \in Ticket |-> 0]

-----------------------------------------------------------------------------
(* The source *)

Live(t) == source[t].version > 0 /\ t \notin gone

\* What a listing with updated_since = since ranges over, newest id first.
Matching == {t \in Ticket : Live(t) /\ source[t].updated_at >= since}
Rank(t, S) == Cardinality({u \in S : u > t})
Done == (page - 1) * PageSize
OnPage == {t \in Matching : Done <= Rank(t, Matching) /\ Rank(t, Matching) < Done + PageSize}
HasNext == Cardinality(Matching) > Done + PageSize

\* A ticket is created (ids are handed out in order) or changed.
SourceChange(t) ==
    /\ source[t].version < MaxVersion
    /\ t \notin gone
    /\ \A u \in Ticket : u < t => source[u].version > 0
    /\ \E stamp \in (now - Skew) .. (now + Skew) :
        /\ stamp >= source[t].updated_at
        /\ source' = [source EXCEPT ![t] =
                        [version |-> @.version + 1, updated_at |-> stamp]]
    /\ UNCHANGED <<now, gone, skipped, tableVars, pc, since, page, fetched, faults>>

\* A ticket is deleted: the tickets after it in the listing move up by one,
\* and the first one of the next page slips to a page already read.
SourceDelete(t) ==
    /\ Live(t)
    /\ Cardinality(gone) < MaxDeleted
    /\ gone' = gone \cup {t}
    /\ skipped' = IF pc = "listing"
                  THEN skipped \cup {u \in Matching \ {t} :
                                        /\ Rank(u, Matching) >= Done
                                        /\ Rank(u, Matching \ {t}) < Done}
                  ELSE skipped
    /\ UNCHANGED <<now, source, tableVars, pc, since, page, fetched, faults>>

Tick ==
    /\ now < MaxTime
    /\ now' = now + 1
    /\ UNCHANGED <<sourceVars, tableVars, pc, since, page, fetched, faults>>

-----------------------------------------------------------------------------
(* The worker *)

\* Mutated form of NextSince: without the overlap.
NextSinceNoOverlap == IF success = None THEN 0 ELSE success

\* updated_since of the next run: everything, or the start of the last
\* successful run less the overlap.
NextSince == IF success = None THEN 0 ELSE success - Overlap

StartRun ==
    /\ pc = "idle"
    /\ pc' = "listing"
    /\ since' = NextSince
    /\ run' = [status |-> "running", started_at |-> now]
    /\ page' = 1
    /\ fetched' = Unseen
    /\ UNCHANGED <<now, sourceVars, tickets, success, faults>>

\* One page arrives.  A later copy of a ticket replaces an earlier one.
ReceivePage ==
    fetched' = [t \in Ticket |-> IF t \in OnPage THEN source[t].version ELSE fetched[t]]

FetchPage ==
    /\ pc = "listing"
    /\ HasNext => page < MaxPages
    /\ ReceivePage
    /\ IF HasNext
       THEN page' = page + 1 /\ UNCHANGED pc
       ELSE pc' = "storing" /\ UNCHANGED page
    /\ UNCHANGED <<now, sourceVars, tableVars, since, faults>>

MarkFailed == run' = [run EXCEPT !.status = "failed"]

\* sync returns or raises: its local variables are gone, the loop sleeps.
EndRun ==
    /\ pc' = "idle"
    /\ since' = 0
    /\ page' = 1
    /\ fetched' = Unseen

\* The page limit is reached and the source still announces a next page.
TooManyPages ==
    /\ pc = "listing"
    /\ HasNext
    /\ page >= MaxPages
    /\ MarkFailed
    /\ EndRun
    /\ UNCHANGED <<now, sourceVars, tickets, success, faults>>

\* Mutated form of FetchFails: the loop does not survive the error.
FetchFailsLoopEnds ==
    /\ pc = "listing"
    /\ faults < MaxFaults
    /\ faults' = faults + 1
    /\ MarkFailed
    /\ pc' = "ended"
    /\ UNCHANGED <<now, sourceVars, tickets, success, since, page, fetched>>

\* Any IntegrationError of the client: the run is failed, nothing is kept.
FetchFails ==
    /\ pc = "listing"
    /\ faults < MaxFaults
    /\ faults' = faults + 1
    /\ MarkFailed
    /\ EndRun
    /\ UNCHANGED <<now, sourceVars, tickets, success>>

\* Mutated form of Known: the table becomes what the listing returned.
KnownListedOnly(t) == fetched[t]

\* Rows and run status are committed in one transaction.
Known(t) == IF fetched[t] # 0 THEN fetched[t] ELSE tickets[t]

Store ==
    /\ pc = "storing"
    /\ tickets' = [t \in Ticket |-> Known(t)]
    /\ run' = [run EXCEPT !.status = "success"]
    /\ success' = run.started_at
    /\ skipped' = {t \in skipped : fetched[t] = 0}
    /\ EndRun
    /\ UNCHANGED <<now, source, gone, faults>>

\* Mutated form of StoreFails: the rows are kept when the run is failed.
StoreFailsNoRollback ==
    /\ pc = "storing"
    /\ faults < MaxFaults
    /\ faults' = faults + 1
    /\ tickets' = [t \in Ticket |-> Known(t)]
    /\ MarkFailed
    /\ EndRun
    /\ UNCHANGED <<now, sourceVars, success>>

\* SQLAlchemyError: rollback, then the run is failed.
StoreFails ==
    /\ pc = "storing"
    /\ faults < MaxFaults
    /\ faults' = faults + 1
    /\ MarkFailed
    /\ EndRun
    /\ UNCHANGED <<now, sourceVars, tickets, success>>

\* The worker is killed and restarted, the task is cancelled, or recording
\* the failure fails itself: the row stays "running" for ever.
Abandon ==
    /\ pc # "idle"
    /\ faults < MaxFaults
    /\ faults' = faults + 1
    /\ EndRun
    /\ UNCHANGED <<now, sourceVars, tableVars>>

-----------------------------------------------------------------------------

Init ==
    /\ now = Skew
    /\ source = [t \in Ticket |-> [version |-> 0, updated_at |-> 0]]
    /\ gone = {}
    /\ tickets = Unseen
    /\ run = [status |-> "none", started_at |-> None]
    /\ success = None
    /\ pc = "idle"
    /\ since = 0
    /\ page = 1
    /\ fetched = Unseen
    /\ skipped = {}
    /\ faults = 0

Worker == StartRun \/ FetchPage \/ TooManyPages \/ Store

Next ==
    \/ \E t \in Ticket : SourceChange(t) \/ SourceDelete(t)
    \/ Tick
    \/ Worker
    \/ FetchFails
    \/ StoreFails
    \/ Abandon

Spec == Init /\ [][Next]_vars

\* The worker loop keeps running; nothing makes the source change or fail.
FairSpec == Spec /\ WF_vars(Worker)

-----------------------------------------------------------------------------
(* Properties *)

SyncRun == [status : {"none", "running", "failed", "success"}, started_at : Nat \cup {None}]

TypeOK ==
    /\ now \in Nat
    /\ source \in [Ticket -> [version : 0 .. MaxVersion, updated_at : Nat]]
    /\ gone \subseteq Ticket
    /\ tickets \in [Ticket -> 0 .. MaxVersion]
    /\ run \in SyncRun
    /\ success \in Nat \cup {None}
    /\ pc \in {"idle", "listing", "storing"}
    /\ since \in Int
    /\ page \in Nat \ {0}
    /\ fetched \in [Ticket -> 0 .. MaxVersion]
    /\ skipped \subseteq Ticket
    /\ faults \in Nat

\* A ticket whose local copy is out of date is still inside the window that
\* the next run asks for, whatever runs failed, were killed, or read pages
\* while tickets changed (sync.py, the overlap of 60 seconds).  The one
\* exception is a deletion at the source during a listing of several pages.
NoUpdateMissed ==
    \A t \in Ticket :
        Live(t) /\ tickets[t] # source[t].version
            => source[t].updated_at >= NextSince \/ t \in skipped

\* Strengthening of NoUpdateMissed to an inductive invariant: what a listing
\* under way has still to show, and what it may have shown already.
Listed(t) == fetched[t] # 0
InNextWindow(t) == source[t].updated_at >= run.started_at - Overlap
ToBeListed(t) == pc = "listing" /\ t \in Matching /\ Rank(t, Matching) >= Done

RunInv ==
    /\ success <= now
    /\ pc # "idle" =>
        /\ run.status = "running"
        /\ run.started_at \in Nat
        /\ success <= run.started_at /\ run.started_at <= now
        /\ since = NextSince

VersionInv ==
    \A t \in Ticket :
        /\ tickets[t] <= source[t].version
        /\ fetched[t] <= source[t].version
        /\ Listed(t) => tickets[t] <= fetched[t]

ListingInv ==
    pc # "idle" =>
        \A t \in Ticket : Live(t) =>
            /\ Listed(t) /\ fetched[t] # source[t].version => InNextWindow(t)
            /\ ~Listed(t) /\ tickets[t] # source[t].version
                => InNextWindow(t) \/ t \in skipped \/ ToBeListed(t)

WindowInv == TypeOK /\ RunInv /\ VersionInv /\ NoUpdateMissed /\ ListingInv

\* The tickets table changes only in the transaction that also makes the
\* run in progress a success; a failed, abandoned or rolled back run leaves
\* no row behind (sync.py, one commit for rows and run).
TicketsChangeWithSuccess ==
    [][tickets' # tickets \/ success' # success
        => run.status = "running" /\ run'.status = "success" /\ success' = run.started_at]_vars

\* The synchronisation implements the mirror: versions never go back, never
\* come from nowhere, and the watermark never goes back (refinement).
Mirror == INSTANCE TicketMirror WITH
    version <- [t \in Ticket |-> source[t].version],
    mirror <- tickets,
    watermark <- success
ImplementsMirror == Mirror!Spec

\* Once faults stop, every live ticket that no deletion hid is brought up to
\* date, however updates and runs interleave (worker.py, the loop), provided
\* a first listing of all tickets fits the page limit: beyond it the client
\* fails every run and nothing is ever stored (client.py, the page loop).
FitsPages == Cardinality({t \in Ticket : Live(t)}) <= PageSize * MaxPages

CaughtUp ==
    <>[]FitsPages =>
        []<>(\A t \in Ticket :
                tickets[t] = source[t].version \/ t \in gone \/ t \in skipped)
=============================================================================
