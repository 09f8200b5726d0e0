-------------------------- MODULE InventoryListing --------------------------
(***************************************************************************)
(* The two inventories that are listed page by page by offset while they   *)
(* change: the assets of Snipe-IT (SnipeItClient.list_assets, and          *)
(* SnipeItSyncService.sync which stores them) and the agents of Wazuh      *)
(* (WazuhClient.list_agents, whose answer goes to the correlation).  Both  *)
(* sources list by ascending id, so that what is new comes last.  Every    *)
(* page is one request with the retries of HttpRetries.                    *)
(*                                                                         *)
(* A behaviour follows one of the two clients; the worker runs each in a   *)
(* loop of its own and they share nothing.                                 *)
(***************************************************************************)
EXTENDS HttpRetries, FiniteSets

CONSTANTS
    MaxRecord,    \* records are 1..MaxRecord, in order of creation
    MaxVersion,   \* bound: versions of one record at the source
    MaxRemoved,   \* bound: removals at the source
    MaxRestored,  \* bound: removed assets that are restored
    MaxFaults,    \* bound: failed attempts, unusable pages, failed commits, kills
    PageSize,     \* SNIPE_IT_ASSET_PAGE_SIZE, WAZUH_AGENT_PAGE_SIZE
    MaxPages      \* SNIPE_IT_MAX_ASSET_PAGES, WAZUH_MAX_AGENT_PAGES

ASSUME ListingAssumption ==
    /\ MaxRecord \in Nat /\ MaxVersion \in Nat /\ MaxFaults \in Nat
    /\ MaxRemoved \in Nat /\ MaxRestored \in Nat
    /\ PageSize \in Nat \ {0} /\ MaxPages \in Nat \ {0}

Record == 1 .. MaxRecord

VARIABLES
    client,    \* whose listing this is: "snipe_it" or "wazuh"
    version,   \* version[r]: version of r at the source, 0 if not created yet
    live,      \* the records the source lists
    removed,   \* how many were removed and restored so far, to bound them
    restored,
    stored,    \* stored[r]: version of r in the assets table, 0 if no row
    run,       \* status of the newest row of sync_runs (Snipe-IT only)
    answer,    \* what list_agents returned last (Wazuh only)
    pc,        \* idle, authenticating, listing or received
    attempt,   \* number of the attempt of the present request, from 0
    offset,    \* offset of the page asked for
    pages,     \* pages received in this listing
    got,       \* got[r]: version of r among the rows received, 0 if none
    count,     \* rows received
    requests,  \* history: requests sent by this run
    begun,     \* history: version of each record listed when the run began
    moved,     \* history: records a removal moved to a page already read
    shrunk,    \* history: something was removed since the run began
    faults     \* counts the faults, to bound them

sourceVars == <<client, version, live, removed, restored>>
listingVars == <<pc, attempt, offset, pages, got, count, requests>>
historyVars == <<begun, moved, shrunk>>
inventoryVars == <<sourceVars, stored, run, answer, listingVars, historyVars, faults>>

Nothing == [r \in Record |-> 0]
Listed(f) == {r \in Record : f[r] # 0}
Place(r, S) == Cardinality({s \in S : s <= r})

-----------------------------------------------------------------------------
(* The source *)

Create(r) ==
    /\ version[r] = 0
    /\ \A s \in Record : s < r => version[s] > 0
    /\ version' = [version EXCEPT ![r] = 1]
    /\ live' = live \cup {r}
    /\ UNCHANGED <<client, removed, restored, stored, run, answer, listingVars, historyVars, faults>>

Update(r) ==
    /\ client = "snipe_it"
    /\ r \in live
    /\ version[r] < MaxVersion
    /\ version' = [version EXCEPT ![r] = @ + 1]
    /\ UNCHANGED <<client, live, removed, restored, stored, run, answer, listingVars, historyVars, faults>>

\* The records after it move up by one; one may slip to a page already read.
Remove(r) ==
    /\ r \in live
    /\ removed < MaxRemoved
    /\ removed' = removed + 1
    /\ live' = live \ {r}
    /\ moved' = moved \cup {s \in live' : Place(s, live) > offset /\ Place(s, live') <= offset}
    /\ shrunk' = TRUE
    /\ begun' = [begun EXCEPT ![r] = 0]
    /\ UNCHANGED <<client, version, restored, stored, run, answer, listingVars, faults>>

\* Snipe-IT keeps a deleted asset and can restore it, under its old id.
Restore(r) ==
    /\ client = "snipe_it"
    /\ version[r] > 0 /\ r \notin live
    /\ restored < MaxRestored
    /\ restored' = restored + 1
    /\ live' = live \cup {r}
    /\ UNCHANGED <<client, version, removed, stored, run, answer, listingVars, historyVars, faults>>

-----------------------------------------------------------------------------
(* One run *)

StartRun ==
    /\ pc = "idle"
    /\ pc' = IF client = "wazuh" THEN "authenticating" ELSE "listing"
    /\ run' = IF client = "snipe_it" THEN "running" ELSE run
    /\ attempt' = 0 /\ offset' = 0 /\ pages' = 0 /\ count' = 0 /\ requests' = 0
    /\ got' = Nothing
    /\ begun' = [r \in Record |-> IF r \in live THEN version[r] ELSE 0]
    /\ moved' = {}
    /\ shrunk' = FALSE
    /\ UNCHANGED <<sourceVars, stored, answer, faults>>

\* The method returns or raises: its local variables are gone.
EndRun ==
    /\ pc' = "idle"
    /\ attempt' = 0 /\ offset' = 0 /\ pages' = 0 /\ count' = 0 /\ requests' = 0
    /\ got' = Nothing
    /\ UNCHANGED historyVars

\* sync marks the run failed and raises; list_agents just raises.
MarkFailed == run' = IF client = "snipe_it" THEN "failed" ELSE run

Fail == MarkFailed /\ EndRun /\ UNCHANGED <<sourceVars, stored, answer>>

Fault == faults < MaxFaults /\ faults' = faults + 1

\* Only the token is asked for by a POST without retry_safe.
RetrySafe == pc = "listing"

Token ==
    /\ pc = "authenticating"
    /\ pc' = "listing"
    /\ attempt' = 0
    /\ requests' = requests + 1
    /\ UNCHANGED <<sourceVars, stored, run, answer, offset, pages, got, count, historyVars, faults>>

\* An attempt ends without a usable status: once more, or the run fails.
AttemptFails(outcome) ==
    /\ pc \in {"authenticating", "listing"}
    /\ Fault
    /\ IF TriesAgain(RetrySafe, attempt, outcome)
       THEN /\ attempt' = attempt + 1
            /\ requests' = requests + 1
            /\ UNCHANGED <<sourceVars, stored, run, answer, pc, offset, pages, got, count, historyVars>>
       ELSE Fail

Page == {r \in live : offset < Place(r, live) /\ Place(r, live) <= offset + PageSize}
Total == Cardinality(live)

\* Mutated form of Refused: a second copy of an asset is not noticed.
RefusedTooManyOnly == client = "snipe_it" /\ Total > PageSize * MaxPages

\* What list_assets checks of a page, and list_agents does not.
Refused ==
    /\ client = "snipe_it"
    /\ \/ Total > PageSize * MaxPages
       \/ \E r \in Page : got[r] # 0

\* Mutated form of Ended: one page less than announced is enough.
EndedEarly(n) == IF client = "snipe_it" THEN n + PageSize >= Total ELSE n >= Total

\* Snipe-IT wants exactly the announced number, Wazuh at least that many.
Ended(n) == IF client = "snipe_it" THEN n = Total ELSE n >= Total
Overfull(n) == client = "snipe_it" /\ n > Total

\* agents[:total]: the rows beyond the number announced last are cut off.
Kept(f) ==
    IF client = "snipe_it" THEN f
    ELSE [r \in Record |-> IF Place(r, Listed(f)) <= Total THEN f[r] ELSE 0]

PageArrives ==
    LET n == count + Cardinality(Page)
        all == [r \in Record |-> IF r \in Page THEN version[r] ELSE got[r]]
    IN
    /\ pc = "listing"
    /\ UNCHANGED faults
    /\ \/ /\ \/ Refused
             \/ Overfull(n)
             \/ ~Ended(n) /\ (Page = {} \/ pages + 1 = MaxPages)
          /\ Fail
       \/ /\ ~Refused /\ Ended(n)
          /\ pc' = "received"
          /\ got' = Kept(all)
          /\ count' = IF n <= Total THEN n ELSE Total
          /\ requests' = requests + 1
          /\ pages' = pages + 1
          /\ UNCHANGED <<sourceVars, stored, run, answer, attempt, offset, historyVars>>
       \/ /\ ~Refused /\ ~Overfull(n) /\ ~Ended(n)
          /\ Page # {} /\ pages + 1 < MaxPages
          /\ offset' = offset + Cardinality(Page)
          /\ pages' = pages + 1
          /\ attempt' = 0
          /\ got' = all
          /\ count' = n
          /\ requests' = requests + 1
          /\ UNCHANGED <<sourceVars, stored, run, answer, pc, historyVars>>

\* The body is no JSON object, a count is missing or negative, the source
\* reports failed items, or one row does not normalise.
PageUnusable == pc \in {"authenticating", "listing"} /\ Fault /\ Fail

\* Mutated forms of Upserted: rows of assets that are not listed are dropped;
\* a row that exists is left as it is.
UpsertedOnly == got
UpsertedNew == [r \in Record |-> IF stored[r] = 0 THEN got[r] ELSE stored[r]]

\* Rows are inserted or overwritten, never deleted.
Upserted == [r \in Record |-> IF got[r] # 0 THEN got[r] ELSE stored[r]]

Store ==
    /\ pc = "received" /\ client = "snipe_it"
    /\ stored' = Upserted
    /\ run' = "success"
    /\ EndRun
    /\ UNCHANGED <<sourceVars, answer, faults>>

\* SQLAlchemyError: rollback, then the run is marked failed.
StoreFails == pc = "received" /\ client = "snipe_it" /\ Fault /\ Fail

\* list_agents returns; the worker or the dashboard goes on with the agents.
HandOver ==
    /\ pc = "received" /\ client = "wazuh"
    /\ answer' = Listed(got)
    /\ EndRun
    /\ UNCHANGED <<sourceVars, stored, run, faults>>

\* The worker is killed, or cannot record the failure: the row of the run
\* stays "running".
Abandon == pc # "idle" /\ Fault /\ EndRun /\ UNCHANGED <<sourceVars, stored, run, answer>>

-----------------------------------------------------------------------------

InventoryInit ==
    /\ client \in {"snipe_it", "wazuh"}
    /\ version = Nothing /\ live = {}
    /\ removed = 0 /\ restored = 0
    /\ stored = Nothing
    /\ run = "none"
    /\ answer = {}
    /\ pc = "idle"
    /\ attempt = 0 /\ offset = 0 /\ pages = 0 /\ count = 0 /\ requests = 0
    /\ got = Nothing /\ begun = Nothing
    /\ moved = {}
    /\ shrunk = FALSE
    /\ faults = 0

Progress == StartRun \/ Token \/ PageArrives \/ Store \/ HandOver

InventoryNext ==
    \/ \E r \in Record : Create(r) \/ Update(r) \/ Remove(r) \/ Restore(r)
    \/ Progress
    \/ \E outcome \in Failures : AttemptFails(outcome)
    \/ PageUnusable
    \/ StoreFails
    \/ Abandon

InventorySpec == InventoryInit /\ [][InventoryNext]_inventoryVars

\* The worker's loop goes on and every request has a timeout; nothing makes
\* the source change or an attempt fail.
FairInventorySpec == InventorySpec /\ WF_inventoryVars(Progress)

-----------------------------------------------------------------------------
(* Properties *)

\* Types.
InventoryTypeOK ==
    /\ client \in {"snipe_it", "wazuh"}
    /\ version \in [Record -> Nat] /\ stored \in [Record -> Nat]
    /\ got \in [Record -> Nat] /\ begun \in [Record -> Nat]
    /\ live \subseteq Record /\ answer \subseteq Record /\ moved \subseteq Record
    /\ run \in {"none", "running", "failed", "success"}
    /\ pc \in {"idle", "authenticating", "listing", "received"}
    /\ removed \in Nat /\ restored \in Nat /\ faults \in Nat
    /\ attempt \in Nat /\ requests \in Nat
    /\ offset \in Nat /\ pages \in Nat /\ count \in Nat
    /\ shrunk \in BOOLEAN

\* A listing that is accepted holds every record that was there all the
\* time, at the version of the run's beginning or a later one, however the
\* source changes between the pages.  The exceptions are what a removal moved
\* to a page already read and, for agents, a listing in which something was
\* removed: then agents[:total] may even cut off agents that were received.
ListingComplete ==
    pc = "received" /\ (client = "wazuh" => ~shrunk) =>
        \A r \in Record : begun[r] # 0 /\ r \notin moved => got[r] >= begun[r]

\* The number of rows a listing ends with is the number the source had when
\* it sent the last page, and no record is among them twice (client.py, the
\* comparison with total and seen_ids; agents[:total]).
CountIsTrue ==
    [][pc = "listing" /\ pc' = "received" =>
        count' = Cardinality(live) /\ Cardinality(Listed(got')) = count']_inventoryVars

\* A run sends at most three requests for every page allowed, and one for
\* the token, and has a pause for each: retries neither multiply nor survive
\* into the next page (request_with_retries).
RequestsBounded ==
    /\ attempt \in 0 .. Len(RETRY_DELAYS) /\ (pc = "authenticating" => attempt = 0)
    /\ requests <= 3 * pages + attempt + 1
    /\ pages <= MaxPages

\* The assets table is a mirror in the sense of TicketMirror: each row is
\* some version the source had, none goes back to an older one, whatever
\* runs fail, are killed or overlap with changes (refinement).  The
\* watermark plays no part for full listings.
Mirror == INSTANCE TicketMirror WITH
    Ticket <- Record, version <- version, mirror <- stored, watermark <- 0
ImplementsMirror == Mirror!Spec

\* Once source and faults are quiet, the table has every asset at its present
\* version again and again, and list_agents answers with exactly the agents
\* there are, provided they fit the page limit.
FitsPages == Total <= PageSize * MaxPages

InventoryCaughtUp ==
    <>[]FitsPages =>
        []<>(IF client = "snipe_it" THEN \A r \in live : stored[r] = version[r]
             ELSE answer = live)
=============================================================================
