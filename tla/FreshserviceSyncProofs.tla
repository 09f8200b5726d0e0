----------------------- MODULE FreshserviceSyncProofs -----------------------
(***************************************************************************)
(* For every number of tickets, page size, overlap and bound: the types,  *)
(* the window invariant of the incremental synchronisation, the           *)
(* atomicity of its transaction, and the refinement of the mirror.        *)
(***************************************************************************)
EXTENDS FreshserviceSync, FiniteSetTheorems, TLAPS

USE DEF Ticket, None

-----------------------------------------------------------------------------
(* Positions in a listing *)

\* Sets of tickets are finite.
LEMMA TicketsFinite == \A S \in SUBSET Ticket : IsFiniteSet(S) /\ Cardinality(S) \in Nat
<1>1. IsFiniteSet(Ticket)
  BY FS_Interval, BoundsAssumption
<1> QED BY <1>1, FS_Subset, FS_CardinalityType

\* A ticket never moves up in a listing that only gains tickets.
LEMMA RankGrows ==
    ASSUME NEW S \in SUBSET Ticket, NEW T \in SUBSET Ticket, S \subseteq T, NEW t
    PROVE  Rank(t, S) \in Nat /\ Rank(t, T) \in Nat /\ Rank(t, S) <= Rank(t, T)
<1> DEFINE A == {u \in S : u > t}
           B == {u \in T : u > t}
<1>1. A \in SUBSET Ticket /\ B \in SUBSET Ticket /\ A \in SUBSET B
  OBVIOUS
<1>2. IsFiniteSet(B) /\ Cardinality(A) \in Nat /\ Cardinality(B) \in Nat
  BY <1>1, TicketsFinite
<1>3. Cardinality(A) <= Cardinality(B)
  BY <1>1, <1>2, FS_Subset
<1> QED BY <1>2, <1>3 DEF Rank

\* A listed ticket's position is smaller than the length of the listing.
LEMMA RankBounded ==
    ASSUME NEW S \in SUBSET Ticket, NEW t \in S
    PROVE  Rank(t, S) \in Nat /\ Cardinality(S) \in Nat /\ Rank(t, S) < Cardinality(S)
<1> DEFINE A == {u \in S : u > t}
<1>0. t \in Int /\ ~(t > t)
  BY BoundsAssumption
<1>1. A \in SUBSET (S \ {t}) /\ A \in SUBSET Ticket
  BY <1>0
<1>2. IsFiniteSet(S) /\ Cardinality(S) \in Nat /\ Cardinality(A) \in Nat
  BY <1>1, TicketsFinite
<1>3. IsFiniteSet(S \ {t}) /\ Cardinality(S \ {t}) = Cardinality(S) - 1
  BY <1>2, FS_RemoveElement
<1>4. Cardinality(A) <= Cardinality(S \ {t})
  BY <1>1, <1>3, FS_Subset
<1> QED BY <1>2, <1>3, <1>4 DEF Rank

-----------------------------------------------------------------------------
(* Types *)

TypeInv == TypeOK /\ RunInv

\* The initial variables have their types.
LEMMA TypeInit == Init => TypeInv
BY BoundsAssumption DEF Init, TypeInv, TypeOK, RunInv, Unseen, SyncRun

\* A run that ends, well or badly, leaves well-typed local state behind.
LEMMA EndRunTyped ==
    ASSUME EndRun
    PROVE  /\ pc' = "idle" /\ since' \in Int /\ page' \in Nat \ {0}
           /\ fetched' \in [Ticket -> 0 .. MaxVersion]
BY BoundsAssumption DEF EndRun, Unseen

\* A run that is marked failed is a run.
LEMMA MarkFailedTyped ==
    ASSUME run \in SyncRun, MarkFailed
    PROVE  run' \in SyncRun
BY DEF SyncRun, MarkFailed

\* Every step keeps the types.
LEMMA TypeStep == TypeInv /\ [Next]_vars => TypeInv'
<1> SUFFICES ASSUME TypeInv, [Next]_vars PROVE TypeInv'
  OBVIOUS
<1> USE BoundsAssumption DEF TypeInv, TypeOK
<1>0. success \in Int /\ NextSince \in Int /\ now + 1 \in Nat /\ success <= now
  BY DEF NextSince, RunInv
<1>1. ASSUME NEW t \in Ticket, SourceChange(t) PROVE TypeInv'
  <2>1. PICK stamp \in (now - Skew) .. (now + Skew) :
            /\ stamp >= source[t].updated_at
            /\ source' = [source EXCEPT ![t] =
                            [version |-> @.version + 1, updated_at |-> stamp]]
    BY <1>1 DEF SourceChange
  <2>2. source[t].version + 1 \in 0 .. MaxVersion /\ stamp \in Nat
    <3>1. source[t].version \in 0 .. MaxVersion /\ source[t].updated_at \in Nat
      OBVIOUS
    <3> QED BY <1>1, <2>1, <3>1 DEF SourceChange
  <2>3. source' \in [Ticket -> [version : 0 .. MaxVersion, updated_at : Nat]]
    BY <2>1, <2>2
  <2> QED BY <1>1, <2>3 DEF SourceChange, tableVars, RunInv, NextSince
<1>2. ASSUME NEW t \in Ticket, SourceDelete(t) PROVE TypeInv'
  <2>1. skipped' \subseteq Ticket
    BY <1>2 DEF SourceDelete, Matching
  <2> QED BY <1>2, <2>1 DEF SourceDelete, tableVars, RunInv, NextSince
<1>3. CASE Tick
  <2>1. RunInv'
    BY <1>0, <1>3 DEF Tick, sourceVars, tableVars, RunInv, SyncRun, NextSince
  <2> QED BY <1>0, <1>3, <2>1 DEF Tick, sourceVars, tableVars
<1>4. CASE StartRun
  <2>1. run' \in SyncRun /\ fetched' \in [Ticket -> 0 .. MaxVersion]
    BY <1>4 DEF StartRun, Unseen, SyncRun
  <2>2. run'.status = "running" /\ run'.started_at = now
    BY <1>4 DEF StartRun
  <2>3. RunInv'
    BY <1>0, <1>4, <2>2 DEF StartRun, RunInv, NextSince
  <2>4. since' \in Int /\ page' \in Nat \ {0} /\ pc' \in {"idle", "listing", "storing"}
    BY <1>0, <1>4 DEF StartRun
  <2> QED BY <1>4, <2>1, <2>3, <2>4 DEF StartRun, sourceVars
<1>5. CASE FetchPage
  <2>1. fetched' \in [Ticket -> 0 .. MaxVersion]
    BY <1>5 DEF FetchPage, ReceivePage
  <2>2. page' \in Nat \ {0} /\ pc' \in {"listing", "storing"}
    BY <1>5 DEF FetchPage
  <2>3. RunInv'
    BY <1>5, <2>2 DEF FetchPage, sourceVars, tableVars, RunInv, NextSince
  <2> QED BY <1>5, <2>1, <2>2, <2>3 DEF FetchPage, sourceVars, tableVars
<1>6. CASE TooManyPages
  <2>1. EndRun /\ run' \in SyncRun /\ success' = success /\ now' = now /\ faults' \in Nat
    BY <1>6, MarkFailedTyped DEF TooManyPages
  <2>2. RunInv'
    BY <1>0, <2>1, EndRunTyped DEF RunInv
  <2> QED BY <1>6, <2>1, <2>2, EndRunTyped DEF TooManyPages, sourceVars
<1>7. CASE Store
  <2>1. tickets' \in [Ticket -> 0 .. MaxVersion]
    BY <1>7 DEF Store, Known
  <2>2. run' \in SyncRun
    BY <1>7 DEF Store, SyncRun
  <2>3. success' \in Nat /\ success' <= now'
    BY <1>7 DEF Store, RunInv
  <2> QED BY <1>7, <2>1, <2>2, <2>3, EndRunTyped DEF Store, RunInv
<1>8. CASE FetchFails
  <2>1. EndRun /\ run' \in SyncRun /\ success' = success /\ now' = now /\ faults' \in Nat
    BY <1>8, MarkFailedTyped DEF FetchFails
  <2>2. RunInv'
    BY <1>0, <2>1, EndRunTyped DEF RunInv
  <2> QED BY <1>8, <2>1, <2>2, EndRunTyped DEF FetchFails, sourceVars
<1>9. CASE StoreFails
  <2>1. EndRun /\ run' \in SyncRun /\ success' = success /\ now' = now /\ faults' \in Nat
    BY <1>9, MarkFailedTyped DEF StoreFails
  <2>2. RunInv'
    BY <1>0, <2>1, EndRunTyped DEF RunInv
  <2> QED BY <1>9, <2>1, <2>2, EndRunTyped DEF StoreFails, sourceVars
<1>10. CASE Abandon
  <2>1. EndRun /\ success' = success /\ now' = now /\ faults' \in Nat
    BY <1>10 DEF Abandon, tableVars
  <2>2. RunInv'
    BY <1>0, <2>1, EndRunTyped DEF RunInv
  <2> QED BY <1>10, <2>1, <2>2, EndRunTyped DEF Abandon, sourceVars, tableVars
<1>11. CASE UNCHANGED vars
  BY <1>11 DEF vars, sourceVars, tableVars, RunInv, NextSince
<1> QED BY <1>1, <1>2, <1>3, <1>4, <1>5, <1>6, <1>7, <1>8, <1>9, <1>10, <1>11
        DEF Next, Worker

\* Every variable keeps its type (sync.py and client.py, all operations).
THEOREM TypeCorrect == Spec => []TypeOK
<1>1. TypeInv => TypeOK
  BY DEF TypeInv
<1> QED BY <1>1, TypeInit, TypeStep, PTL DEF Spec

-----------------------------------------------------------------------------
(* The window *)

\* Tickets that match the window are tickets.
LEMMA MatchingTickets == Matching \in SUBSET Ticket /\ Matching' \in SUBSET Ticket
BY DEF Matching

\* The next window begins at an integer time, perhaps before the first.
LEMMA NextSinceTyped == TypeInv => NextSince \in Int
BY BoundsAssumption DEF TypeInv, TypeOK, NextSince

\* One page further.
LEMMA NextPage ==
    ASSUME TypeOK
    PROVE  Done \in Nat /\ (page' = page + 1 => Done' = Done + PageSize)
<1>1. page \in Nat \ {0} /\ PageSize \in Nat
  BY BoundsAssumption DEF TypeOK
<1>2. \A p \in Nat \ {0}, s \in Nat : (p - 1) * s \in Nat /\ ((p + 1) - 1) * s = (p - 1) * s + s
  OBVIOUS
<1> QED BY <1>1, <1>2 DEF Done

\* A change at the source lands in the window of the run in progress and of
\* the next run; every other ticket stays where it was, or moves down.
LEMMA WindowSourceChange ==
    ASSUME TypeInv, NoUpdateMissed, ListingInv, NEW c \in Ticket, SourceChange(c)
    PROVE  NoUpdateMissed' /\ ListingInv'
<1> USE DEF TypeInv
<1>1. PICK stamp \in (now - Skew) .. (now + Skew) :
          /\ stamp >= source[c].updated_at
          /\ source' = [source EXCEPT ![c] =
                          [version |-> @.version + 1, updated_at |-> stamp]]
  BY DEF SourceChange
<1>2. /\ source'[c].updated_at = stamp
      /\ \A t \in Ticket : t # c => source'[t] = source[t]
  BY <1>1 DEF TypeOK
<1>3. /\ UNCHANGED <<tickets, run, success, gone, skipped, pc, since, page, fetched, now>>
      /\ NextSince' = NextSince /\ Done' = Done
  BY DEF SourceChange, tableVars, NextSince, Done
<1>4. stamp \in Nat /\ stamp >= now - Skew /\ stamp >= source[c].updated_at
  BY <1>1, BoundsAssumption DEF TypeOK
<1>5. stamp >= NextSince
  BY <1>4, OverlapCoversSkew, BoundsAssumption DEF TypeOK, RunInv, NextSince
<1>6. pc # "idle" => stamp >= run.started_at - Overlap
  <2> SUFFICES ASSUME pc # "idle" PROVE stamp >= run.started_at - Overlap
    OBVIOUS
  <2>1. run.started_at \in Nat /\ now \in Nat /\ run.started_at <= now
    BY DEF TypeOK, RunInv
  <2>2. Skew \in Nat /\ Overlap \in Nat /\ Skew <= Overlap
    BY OverlapCoversSkew, BoundsAssumption
  <2> QED BY <1>4, <2>1, <2>2
<1>7. \A t \in Ticket : t # c => (Live(t)' <=> Live(t))
  BY <1>2, <1>3 DEF Live
<1>8. NoUpdateMissed'
  BY <1>2, <1>3, <1>5, <1>7 DEF NoUpdateMissed
<1>9. Matching \subseteq Matching'
  <2> SUFFICES ASSUME NEW t \in Matching PROVE t \in Matching'
    OBVIOUS
  <2>1. CASE t = c
    <3>1. source'[c].version > 0
      BY <1>1 DEF TypeOK
    <3>2. since \in Int /\ source[c].updated_at \in Nat
      BY DEF TypeOK
    <3> QED BY <1>2, <1>3, <1>4, <2>1, <3>1, <3>2 DEF Matching, Live
  <2>2. CASE t # c
    BY <1>2, <1>3, <1>7, <2>2 DEF Matching
  <2> QED BY <2>1, <2>2
<1>10. \A t \in Ticket : t # c /\ ToBeListed(t) => ToBeListed(t)'
  <2> SUFFICES ASSUME NEW t \in Ticket, t # c, ToBeListed(t) PROVE ToBeListed(t)'
    OBVIOUS
  <2>1. Rank(t, Matching) \in Nat /\ Rank(t, Matching') \in Nat /\ Rank(t, Matching) <= Rank(t, Matching')
    BY <1>9, MatchingTickets, RankGrows
  <2>2. Done \in Nat /\ Rank(t, Matching) >= Done
    BY NextPage DEF ToBeListed
  <2> QED BY <1>3, <1>9, <2>1, <2>2 DEF ToBeListed, Rank
<1>11. ListingInv'
  <2> SUFFICES ASSUME pc # "idle", NEW t \in Ticket, Live(t)'
               PROVE  /\ Listed(t)' /\ fetched'[t] # source'[t].version => InNextWindow(t)'
                      /\ ~Listed(t)' /\ tickets'[t] # source'[t].version
                          => InNextWindow(t)' \/ t \in skipped' \/ ToBeListed(t)'
    BY <1>3 DEF ListingInv
  <2>1. CASE t = c
    BY <1>2, <1>3, <1>6, <2>1 DEF InNextWindow
  <2>2. CASE t # c
    BY <1>2, <1>3, <1>7, <1>10, <2>2 DEF ListingInv, Listed, InNextWindow
  <2> QED BY <2>1, <2>2
<1> QED BY <1>8, <1>11

\* A deletion can only hide the tickets that "skipped" records.
LEMMA WindowSourceDelete ==
    ASSUME TypeInv, NoUpdateMissed, ListingInv, NEW d \in Ticket, SourceDelete(d)
    PROVE  NoUpdateMissed' /\ ListingInv'
<1>1. /\ UNCHANGED <<source, tickets, run, success, pc, since, page, fetched, now>>
      /\ NextSince' = NextSince /\ Done' = Done
  BY DEF SourceDelete, tableVars, NextSince, Done
<1>2. gone' = gone \cup {d} /\ skipped \subseteq skipped'
  BY DEF SourceDelete
<1>3. Matching' = Matching \ {d}
  BY <1>1, <1>2 DEF Matching, Live
<1>4. \A t \in Ticket : Live(t)' => Live(t) /\ t # d
  BY <1>1, <1>2 DEF Live
<1>5. NoUpdateMissed'
  BY <1>1, <1>2, <1>4 DEF NoUpdateMissed
<1>6. \A t \in Ticket : t # d /\ ToBeListed(t) => ToBeListed(t)' \/ t \in skipped'
  <2> SUFFICES ASSUME NEW t \in Ticket, t # d, ToBeListed(t)
               PROVE  ToBeListed(t)' \/ t \in skipped'
    OBVIOUS
  <2>1. pc = "listing" /\ t \in Matching \ {d} /\ Rank(t, Matching) >= Done
    BY DEF ToBeListed
  <2>2. CASE Rank(t, Matching \ {d}) < Done
    BY <2>1, <2>2 DEF SourceDelete
  <2>3. CASE ~(Rank(t, Matching \ {d}) < Done)
    <3>1. Rank(t, Matching \ {d}) \in Nat
      BY MatchingTickets, RankGrows
    <3>2. Done \in Nat
      BY NextPage DEF TypeInv
    <3> QED BY <1>1, <1>3, <2>1, <2>3, <3>1, <3>2 DEF ToBeListed, Rank
  <2> QED BY <2>2, <2>3
<1>7. ListingInv'
  <2> SUFFICES ASSUME pc # "idle", NEW t \in Ticket, Live(t)'
               PROVE  /\ Listed(t)' /\ fetched'[t] # source'[t].version => InNextWindow(t)'
                      /\ ~Listed(t)' /\ tickets'[t] # source'[t].version
                          => InNextWindow(t)' \/ t \in skipped' \/ ToBeListed(t)'
    BY <1>1 DEF ListingInv
  <2> QED BY <1>1, <1>2, <1>4, <1>6 DEF ListingInv, Listed, InNextWindow
<1> QED BY <1>5, <1>7

\* The page that arrives takes exactly the positions from Done on.
LEMMA WindowFetchPage ==
    ASSUME TypeInv, NoUpdateMissed, ListingInv, FetchPage
    PROVE  NoUpdateMissed' /\ ListingInv'
<1>1. /\ UNCHANGED <<source, gone, skipped, tickets, run, success, since, now>>
      /\ NextSince' = NextSince /\ Matching' = Matching
      /\ \A t \in Ticket : Live(t)' <=> Live(t)
  BY DEF FetchPage, sourceVars, tableVars, NextSince, Matching, Live
<1>2. pc = "listing" /\ Done \in Nat /\ PageSize \in Nat
  BY NextPage, BoundsAssumption DEF FetchPage, TypeInv
<1>3. \A t \in Ticket : fetched'[t] = IF t \in OnPage THEN source[t].version ELSE fetched[t]
  BY DEF FetchPage, ReceivePage
<1>4. NoUpdateMissed'
  BY <1>1 DEF NoUpdateMissed
<1>5. ASSUME NEW t \in Ticket, ToBeListed(t), t \notin OnPage
      PROVE  ToBeListed(t)'
  <2>1. t \in Matching /\ Rank(t, Matching) \in Nat /\ Rank(t, Matching) >= Done
    BY <1>5, MatchingTickets, RankGrows DEF ToBeListed
  <2>2. Rank(t, Matching) >= Done + PageSize
    BY <1>2, <1>5, <2>1 DEF OnPage
  <2>3. Cardinality(Matching) \in Nat /\ Cardinality(Matching) > Rank(t, Matching)
    BY <2>1, MatchingTickets, RankBounded
  <2>4. HasNext
    BY <1>2, <2>1, <2>2, <2>3 DEF HasNext
  <2>5. pc' = "listing" /\ page' = page + 1
    BY <1>2, <2>4 DEF FetchPage
  <2>6. Done' = Done + PageSize
    BY <2>5, NextPage DEF TypeInv
  <2> QED BY <1>1, <2>1, <2>2, <2>5, <2>6 DEF ToBeListed, Rank
<1>6. ASSUME NEW t \in Ticket, Live(t)
      PROVE  /\ Listed(t)' /\ fetched'[t] # source'[t].version => InNextWindow(t)'
             /\ ~Listed(t)' /\ tickets'[t] # source'[t].version
                 => InNextWindow(t)' \/ t \in skipped' \/ ToBeListed(t)'
  <2>1. InNextWindow(t)' <=> InNextWindow(t)
    BY <1>1 DEF InNextWindow
  <2>2. CASE t \in OnPage
    <3>1. fetched'[t] = source[t].version /\ source[t].version # 0
      BY <1>3, <1>6, <2>2 DEF Live, TypeInv, TypeOK
    <3> QED BY <1>1, <3>1 DEF Listed
  <2>3. CASE t \notin OnPage
    <3>1. fetched'[t] = fetched[t]
      BY <1>3, <2>3
    <3> QED BY <1>1, <1>2, <1>5, <1>6, <2>1, <2>3, <3>1 DEF ListingInv, Listed
  <2> QED BY <2>2, <2>3
<1> QED BY <1>1, <1>4, <1>6 DEF ListingInv

\* The transaction moves the window, and the tickets behind it are stored.
LEMMA WindowStore ==
    ASSUME TypeInv, NoUpdateMissed, ListingInv, Store
    PROVE  NoUpdateMissed' /\ ListingInv'
<1>1. /\ UNCHANGED <<source, gone>> /\ pc = "storing" /\ pc' = "idle"
      /\ \A t \in Ticket : tickets'[t] = Known(t)
      /\ \A t \in Ticket : Live(t)' <=> Live(t)
  BY DEF Store, EndRun, Live
<1>2. run.started_at \in Nat /\ NextSince' = run.started_at - Overlap
  BY <1>1 DEF TypeInv, RunInv, Store, NextSince
<1>3. ASSUME NEW t \in Ticket, Live(t), Known(t) # source[t].version
      PROVE  source[t].updated_at >= NextSince' \/ t \in skipped'
  <2>1. CASE Listed(t)
    <3>1. InNextWindow(t)
      BY <1>1, <1>3, <2>1 DEF ListingInv, Known, Listed
    <3> QED BY <1>2, <3>1 DEF InNextWindow
  <2>2. CASE ~Listed(t)
    <3>1. InNextWindow(t) \/ t \in skipped
      BY <1>1, <1>3, <2>2 DEF ListingInv, Known, Listed, ToBeListed
    <3>2. t \in skipped => t \in skipped'
      BY <2>2 DEF Store, Listed
    <3> QED BY <1>2, <3>1, <3>2 DEF InNextWindow
  <2> QED BY <2>1, <2>2
<1> QED BY <1>1, <1>3 DEF NoUpdateMissed, ListingInv

\* Starting a run: nothing is listed yet, and the window is the next one.
LEMMA WindowStartRun ==
    ASSUME TypeInv, NoUpdateMissed, ListingInv, StartRun
    PROVE  NoUpdateMissed' /\ ListingInv'
<1>1. /\ UNCHANGED <<source, gone, skipped, tickets, success>>
      /\ NextSince' = NextSince /\ since' = NextSince /\ pc' = "listing"
      /\ \A t \in Ticket : Live(t)' <=> Live(t)
  BY DEF StartRun, sourceVars, NextSince, Live
<1>2. NoUpdateMissed'
  BY <1>1 DEF NoUpdateMissed
<1>3. \A t \in Ticket : fetched'[t] = 0
  BY DEF StartRun, Unseen
<1>4. Done' = 0
  BY BoundsAssumption DEF StartRun, Done
<1>5. ASSUME NEW t \in Ticket, Live(t), source[t].updated_at >= NextSince
      PROVE  ToBeListed(t)'
  <2>1. t \in Matching'
    BY <1>1, <1>5 DEF Matching
  <2>2. Rank(t, Matching') \in Nat
    BY MatchingTickets, RankGrows
  <2> QED BY <1>1, <1>4, <2>1, <2>2 DEF ToBeListed, Rank
<1> QED BY <1>1, <1>2, <1>3, <1>5 DEF NoUpdateMissed, ListingInv, Listed

\* Whatever ends a run early leaves the window where it was.
LEMMA WindowAbort ==
    ASSUME NoUpdateMissed, ListingInv,
           TooManyPages \/ FetchFails \/ StoreFails \/ Abandon
    PROVE  NoUpdateMissed' /\ ListingInv'
<1>1. UNCHANGED <<source, gone, skipped, tickets, success>> /\ pc' = "idle"
  BY DEF TooManyPages, FetchFails, StoreFails, Abandon, EndRun, sourceVars, tableVars
<1> QED BY <1>1 DEF NoUpdateMissed, ListingInv, NextSince, Live

\* The clock alone changes nothing that the window depends on.
LEMMA WindowUnchanged ==
    ASSUME NoUpdateMissed, ListingInv, Tick \/ UNCHANGED vars
    PROVE  NoUpdateMissed' /\ ListingInv'
<1>1. UNCHANGED <<source, gone, skipped, tickets, run, success, pc, since, page, fetched>>
  BY DEF Tick, vars, sourceVars, tableVars
<1>2. NoUpdateMissed'
  BY <1>1 DEF NoUpdateMissed, NextSince, Live
<1>3. /\ Matching' = Matching /\ Done' = Done
      /\ \A t \in Ticket : (Live(t)' <=> Live(t)) /\ (Listed(t)' <=> Listed(t))
                           /\ (InNextWindow(t)' <=> InNextWindow(t))
  BY <1>1 DEF Matching, Done, Live, Listed, InNextWindow
<1>4. \A t \in Ticket : ToBeListed(t)' <=> ToBeListed(t)
  BY <1>1, <1>3 DEF ToBeListed, Rank
<1> QED BY <1>1, <1>2, <1>3, <1>4 DEF ListingInv

\* Every step keeps the window's invariant.
LEMMA WindowStep ==
    TypeInv /\ NoUpdateMissed /\ ListingInv /\ [Next]_vars => NoUpdateMissed' /\ ListingInv'
<1> SUFFICES ASSUME TypeInv, NoUpdateMissed, ListingInv, [Next]_vars
             PROVE  NoUpdateMissed' /\ ListingInv'
  OBVIOUS
<1>1. ASSUME NEW t \in Ticket, SourceChange(t) \/ SourceDelete(t)
      PROVE  NoUpdateMissed' /\ ListingInv'
  BY <1>1, WindowSourceChange, WindowSourceDelete
<1>2. CASE Tick \/ UNCHANGED vars
  BY <1>2, WindowUnchanged
<1>3. CASE StartRun
  BY <1>3, WindowStartRun
<1>4. CASE FetchPage
  BY <1>4, WindowFetchPage
<1>5. CASE Store
  BY <1>5, WindowStore
<1>6. CASE TooManyPages \/ FetchFails \/ StoreFails \/ Abandon
  BY <1>6, WindowAbort
<1> QED BY <1>1, <1>2, <1>3, <1>4, <1>5, <1>6 DEF Next, Worker

\* No update is ever lost behind the watermark, unless a deletion at the
\* source shifts the listing while it is read (sync.py, the overlap).
THEOREM WindowCorrect == Spec => []NoUpdateMissed
<1>1. Init => NoUpdateMissed /\ ListingInv
  BY DEF Init, NoUpdateMissed, ListingInv, Live
<1> QED BY <1>1, TypeInit, TypeStep, WindowStep, PTL DEF Spec

-----------------------------------------------------------------------------
(* Atomicity and refinement *)

\* Rows and watermark change only in the transaction that makes the run in
\* progress a success (sync.py, the single commit).
THEOREM AtomicCorrect == Spec => TicketsChangeWithSuccess
<1>1. TypeInv /\ [Next]_vars =>
        [tickets' # tickets \/ success' # success
            => run.status = "running" /\ run'.status = "success" /\ success' = run.started_at]_vars
  <2> SUFFICES ASSUME TypeInv, Next, tickets' # tickets \/ success' # success
               PROVE  run.status = "running" /\ run'.status = "success" /\ success' = run.started_at
    OBVIOUS
  <2>1. Store
    BY DEF Next, Worker, SourceChange, SourceDelete, Tick, StartRun, FetchPage, TooManyPages,
           FetchFails, StoreFails, Abandon, tableVars
  <2> QED BY <2>1 DEF Store, TypeInv, TypeOK, SyncRun, RunInv
<1> QED BY <1>1, TypeInit, TypeStep, PTL DEF Spec, TicketsChangeWithSuccess

\* Every step keeps VersionInv: no version is stored that never was.
LEMMA VersionStep == TypeInv /\ VersionInv /\ [Next]_vars => VersionInv'
<1> SUFFICES ASSUME TypeInv, VersionInv, [Next]_vars PROVE VersionInv'
  OBVIOUS
<1> USE DEF TypeInv
<1>1. ASSUME NEW c \in Ticket, SourceChange(c) PROVE VersionInv'
  <2>1. UNCHANGED <<tickets, fetched>>
    BY <1>1 DEF SourceChange, tableVars
  <2>2. ASSUME NEW t \in Ticket PROVE source'[t].version >= source[t].version
                                      /\ source'[t].version \in Nat /\ source[t].version \in Nat
    <3>1. source[t].version \in Nat
      BY DEF TypeOK
    <3> QED BY <1>1, <3>1 DEF SourceChange, TypeOK
  <2>3. \A t \in Ticket : tickets[t] \in Nat /\ fetched[t] \in Nat
    BY DEF TypeOK
  <2> QED BY <2>1, <2>2, <2>3 DEF VersionInv, Listed
<1>2. ASSUME NEW d \in Ticket, SourceDelete(d) PROVE VersionInv'
  BY <1>2 DEF SourceDelete, tableVars, VersionInv, Listed
<1>3. CASE Tick \/ UNCHANGED vars
  BY <1>3 DEF Tick, vars, sourceVars, tableVars, VersionInv, Listed
<1>4. CASE StartRun
  <2>1. UNCHANGED <<tickets, source>> /\ \A t \in Ticket : fetched'[t] = 0
    BY <1>4 DEF StartRun, sourceVars, Unseen
  <2>2. \A t \in Ticket : 0 <= source[t].version
    BY BoundsAssumption DEF TypeOK
  <2> QED BY <2>1, <2>2 DEF VersionInv, Listed
<1>5. CASE FetchPage
  <2>1. /\ UNCHANGED <<tickets, source>>
        /\ \A t \in Ticket : fetched'[t] = IF t \in OnPage THEN source[t].version ELSE fetched[t]
    BY <1>5 DEF FetchPage, ReceivePage, sourceVars, tableVars
  <2>2. \A t \in Ticket : source[t].version \in Nat
    BY DEF TypeOK
  <2> QED BY <2>1, <2>2 DEF VersionInv, Listed
<1>6. CASE Store
  <2>1. UNCHANGED source /\ \A t \in Ticket : tickets'[t] = Known(t) /\ fetched'[t] = 0
    BY <1>6 DEF Store, EndRun, Unseen
  <2>2. \A t \in Ticket : source[t].version \in Nat
    BY DEF TypeOK
  <2> QED BY <2>1, <2>2 DEF VersionInv, Known, Listed
<1>7. CASE TooManyPages \/ FetchFails \/ StoreFails \/ Abandon
  <2>1. UNCHANGED <<tickets, source>> /\ \A t \in Ticket : fetched'[t] = 0
    BY <1>7 DEF TooManyPages, FetchFails, StoreFails, Abandon, EndRun, Unseen, sourceVars, tableVars
  <2>2. \A t \in Ticket : source[t].version \in Nat
    BY DEF TypeOK
  <2> QED BY <2>1, <2>2 DEF VersionInv, Listed
<1> QED BY <1>1, <1>2, <1>3, <1>4, <1>5, <1>6, <1>7 DEF Next, Worker

\* Every step is a step of the abstract mirror, or none.
LEMMA MirrorStep ==
    ASSUME TypeInv, TypeInv', VersionInv, VersionInv', [Next]_vars
    PROVE  [Mirror!Next]_(Mirror!mirrorVars)
<1> DEFINE version == [t \in Ticket |-> source[t].version]
<1>1. ASSUME NEW c \in Ticket, SourceChange(c) PROVE Mirror!Next
  <2>1. UNCHANGED <<tickets, success>> /\ version' = [version EXCEPT ![c] = version'[c]]
    BY <1>1 DEF SourceChange, tableVars, TypeInv, TypeOK
  <2>2. version'[c] > version[c]
    <3>1. source[c].version \in Nat
      BY DEF TypeInv, TypeOK
    <3> QED BY <1>1, <3>1 DEF SourceChange, TypeInv, TypeOK
  <2> QED BY <2>1, <2>2 DEF Mirror!Next, Mirror!SourceChanges
<1>2. CASE Store
  <2>1. success' \in Int /\ success' >= success
    BY <1>2 DEF Store, TypeInv, TypeOK, RunInv
  <2>2. DOMAIN tickets' = Ticket /\ version' = version
    BY <1>2 DEF Store
  <2>3. \A t \in Ticket : tickets[t] <= tickets'[t] /\ tickets'[t] <= version[t]
    <3>1. \A t \in Ticket : tickets'[t] = Known(t) /\ tickets[t] \in Nat
      BY <1>2 DEF Store, TypeInv, TypeOK
    <3> QED BY <3>1 DEF Known, VersionInv, Listed
  <2> QED BY <2>1, <2>2, <2>3 DEF Mirror!Next, Mirror!Publish
<1>3. ASSUME ~Store, \A t \in Ticket : ~SourceChange(t) PROVE UNCHANGED Mirror!mirrorVars
  <2>1. UNCHANGED <<source, tickets, success>>
    BY <1>3 DEF Next, Worker, SourceDelete, Tick, StartRun, FetchPage, TooManyPages,
                FetchFails, StoreFails, Abandon, vars, sourceVars, tableVars
  <2> QED BY <2>1 DEF Mirror!mirrorVars
<1> QED BY <1>1, <1>2, <1>3

\* The synchronisation implements the mirror that its readers rely on.
THEOREM MirrorCorrect == Spec => ImplementsMirror
<1>1. Init => Mirror!Init /\ VersionInv
  BY BoundsAssumption DEF Init, Mirror!Init, VersionInv, Unseen, Listed
<1>2. TypeInv /\ TypeInv' /\ VersionInv /\ VersionInv' /\ [Next]_vars
        => [Mirror!Next]_(Mirror!mirrorVars)
  BY MirrorStep
<1> QED BY <1>1, <1>2, TypeInit, TypeStep, VersionStep, PTL
        DEF Spec, ImplementsMirror, Mirror!Spec
=============================================================================
