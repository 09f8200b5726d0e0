---------------------------- MODULE WorkerProofs ----------------------------
(***************************************************************************)
(* The worker and the listings its attempts make.  Of the worker: its      *)
(* types.  Of a listing by offset, for every number of records, page size  *)
(* and bound: its types, its number of requests, that what it counts is    *)
(* what there is, that it is complete, and the refinement of the mirror.   *)
(***************************************************************************)
EXTENDS Worker, InventoryListing, FiniteSetTheorems, TLAPS

-----------------------------------------------------------------------------
(* The worker *)

\* The variables keep their types.
THEOREM TypeCorrect == Spec => []TypeOK
<1>1. Init => TypeOK
  <2> SUFFICES ASSUME Init PROVE TypeOK
    OBVIOUS
  <2>1. stage \in [Source -> {"due", "calling", "sleeping", "gone"}]
    BY DEF Init
  <2> QED BY <2>1 DEF Init, TypeOK
<1>2. TypeOK /\ [Next]_vars => TypeOK'
  <2> SUFFICES ASSUME TypeOK, [Next]_vars PROVE TypeOK'
    OBVIOUS
  <2>1. ASSUME NEW s \in Source, Begin(s) PROVE TypeOK'
    BY <2>1 DEF Begin, TypeOK
  <2>2. ASSUME NEW s \in Source, Wake(s) PROVE TypeOK'
    BY <2>2 DEF Wake, TypeOK
  <2>3. ASSUME NEW s \in Source, NEW e \in Errors, End(s, e) PROVE TypeOK'
    BY <2>3 DEF End, AllGone, TypeOK
  <2>4. CASE Kill
    BY <2>4 DEF Kill, AllGone, TypeOK
  <2>5. CASE Restart
    BY <2>5 DEF Restart, TypeOK
  <2>6. CASE UNCHANGED vars
    BY <2>6 DEF vars, TypeOK
  <2> QED BY <2>1, <2>2, <2>3, <2>4, <2>5, <2>6 DEF Next
<1> QED BY <1>1, <1>2, PTL DEF Spec

-----------------------------------------------------------------------------
(* Places in a listing *)

USE DEF Record

\* Sets of records are finite.
LEMMA RecordsFinite == \A S \in SUBSET Record : IsFiniteSet(S) /\ Cardinality(S) \in Nat
<1>1. IsFiniteSet(Record)
  BY FS_Interval, ListingAssumption
<1> QED BY <1>1, FS_Subset, FS_CardinalityType

\* A subset of a set of records is no larger, and as large only if it is the same.
LEMMA SmallerSet ==
    ASSUME NEW T \in SUBSET Record, NEW S \in SUBSET T
    PROVE  /\ Cardinality(S) <= Cardinality(T)
           /\ Cardinality(S) = Cardinality(T) => S = T
BY RecordsFinite, FS_Subset

\* A place is a number, and one of 1 .. Cardinality(S) for a member.
LEMMA PlaceType ==
    ASSUME NEW S \in SUBSET Record, NEW r \in Record
    PROVE  /\ Place(r, S) \in Nat
           /\ Place(r, S) <= Cardinality(S)
           /\ r \in S => Place(r, S) >= 1
<1> DEFINE A == {s \in S : s <= r}
<1>1. A \in SUBSET S /\ A \in SUBSET Record
  OBVIOUS
<1>2. Cardinality(A) \in Nat /\ Cardinality(A) <= Cardinality(S)
  BY <1>1, RecordsFinite, SmallerSet
<1>3. ASSUME r \in S PROVE Cardinality(A) # 0
  <2>1. r \in A
    BY <1>3, ListingAssumption
  <2> QED BY <2>1, <1>1, RecordsFinite, FS_EmptySet
<1> QED BY <1>2, <1>3 DEF Place

\* Places only grow with the listing.
LEMMA PlaceGrows ==
    ASSUME NEW T \in SUBSET Record, NEW S \in SUBSET T, NEW r \in Record
    PROVE  Place(r, S) <= Place(r, T)
<1> DEFINE A == {s \in S : s <= r}
           B == {s \in T : s <= r}
<1>1. B \in SUBSET Record /\ A \in SUBSET B
  OBVIOUS
<1>2. Cardinality(A) <= Cardinality(B)
  BY <1>1, SmallerSet
<1> QED BY <1>2 DEF Place

\* A record that is listed has a later place than those before it.
LEMMA PlaceOrder ==
    ASSUME NEW S \in SUBSET Record, NEW r \in Record, NEW s \in S
    PROVE  /\ r < s => Place(r, S) < Place(s, S)
           /\ s <= r => Place(s, S) <= Place(r, S)
<1> DEFINE A == {q \in S : q <= r}
           B == {q \in S : q <= s}
<1>0. r \in Int /\ s \in Int /\ \A q \in S : q \in Int
  BY ListingAssumption
<1>1. A \in SUBSET Record /\ B \in SUBSET Record
  OBVIOUS
<1>2. ASSUME r < s PROVE Cardinality(A) < Cardinality(B)
  <2>1. A \in SUBSET B
    <3>1. ASSUME NEW q \in A PROVE q \in B
      <4>1. q \in S /\ q \in Int /\ q <= r
        BY <1>0
      <4> QED BY <1>0, <1>2, <4>1
    <3> QED BY <3>1
  <2>2. s \in B /\ s \notin A
    BY <1>0, <1>2
  <2>3. Cardinality(A) <= Cardinality(B) /\ Cardinality(A) # Cardinality(B)
    BY <1>1, <2>1, <2>2, SmallerSet
  <2> QED BY <1>1, <2>3, RecordsFinite
<1>3. ASSUME s <= r PROVE Cardinality(B) <= Cardinality(A)
  <2>1. ASSUME NEW q \in B PROVE q \in A
    <3>1. q \in S /\ q \in Int /\ q <= s
      BY <1>0
    <3> QED BY <1>0, <1>3, <3>1
  <2> QED BY <1>1, <2>1, SmallerSet
<1> QED BY <1>2, <1>3 DEF Place

\* The records after the first a and up to the first b are b - a of them.
LEMMA SliceSize ==
    ASSUME NEW S \in SUBSET Record, NEW a \in Nat, NEW b \in Nat,
           a <= b, b <= Cardinality(S)
    PROVE  Cardinality({r \in S : a < Place(r, S) /\ Place(r, S) <= b}) = b - a
<1> DEFINE N == 1 .. Cardinality(S)
           f == [r \in S |-> Place(r, S)]
           X == {r \in S : a < Place(r, S) /\ Place(r, S) <= b}
           g == [r \in X |-> Place(r, S)]
<1>0. IsFiniteSet(S) /\ Cardinality(S) \in Nat
  BY RecordsFinite
<1>1. \A r \in S : r \in Int /\ Place(r, S) \in N
  BY <1>0, PlaceType, ListingAssumption
<1>2. \A r, s \in S : Place(r, S) = Place(s, S) => r = s
  <2> SUFFICES ASSUME NEW r \in S, NEW s \in S, r # s PROVE Place(r, S) # Place(s, S)
    OBVIOUS
  <2>1. Place(r, S) \in Int /\ Place(s, S) \in Int /\ (r < s \/ s < r)
    BY <1>1
  <2> QED BY <2>1, PlaceOrder
<1>3. f \in Injection(S, N)
  BY <1>1, <1>2 DEF Injection, IsInjective
<1>4. IsFiniteSet(N) /\ Cardinality(N) = Cardinality(S)
  BY <1>0, FS_Interval
<1>5. f \in Surjection(S, N)
  BY <1>3, <1>4, FS_Injection
<1>6. g \in Bijection(X, a + 1 .. b)
  <2>1. ASSUME NEW r \in X PROVE Place(r, S) \in a + 1 .. b
    <3>1. Place(r, S) \in Nat /\ a < Place(r, S) /\ Place(r, S) <= b
      BY <1>1
    <3> QED BY <3>1
  <2>2. IsInjective(g)
    BY <1>2 DEF IsInjective
  <2>3. ASSUME NEW n \in a + 1 .. b PROVE \E r \in X : g[r] = n
    <3>1. n \in N
      BY <1>0
    <3>2. PICK r \in S : f[r] = n
      BY <1>5, <3>1 DEF Surjection
    <3> QED BY <3>2
  <2>4. g \in [X -> a + 1 .. b]
    BY <2>1
  <2> QED BY <2>2, <2>3, <2>4 DEF Bijection, Injection, Surjection
<1>7. IsFiniteSet(X)
  BY RecordsFinite
<1>8. Cardinality(a + 1 .. b) = Cardinality(X)
  BY <1>6, <1>7, FS_Bijection DEF ExistsBijection
<1>9. Cardinality(a + 1 .. b) = b - a
  <2>1. a + 1 \in Int /\ b \in Int
    OBVIOUS
  <2>2. Cardinality(a + 1 .. b) = IF a + 1 > b THEN 0 ELSE b - (a + 1) + 1
    BY <2>1, FS_Interval
  <2> QED BY <2>2
<1> QED BY <1>8, <1>9

\* Records are numbers.
LEMMA RecordsOrdered == \A r \in Record : r \in Int
BY ListingAssumption

HIDE DEF Record

-----------------------------------------------------------------------------
(* Types *)

\* The listing that has ended leaves well-typed local variables behind.
LEMMA EndRunTyped ==
    ASSUME EndRun
    PROVE  /\ pc' = "idle" /\ attempt' = 0 /\ offset' = 0 /\ pages' = 0 /\ count' = 0
           /\ requests' = 0 /\ got' \in [Record -> Nat]
           /\ UNCHANGED <<begun, moved, shrunk>>
BY DEF EndRun, Nothing, historyVars

\* A failed run is a run.
LEMMA FailTyped ==
    ASSUME InventoryTypeOK, Fail
    PROVE  /\ run' \in {"none", "running", "failed", "success"}
           /\ EndRun
           /\ UNCHANGED <<client, version, live, removed, restored, stored, answer>>
BY DEF Fail, MarkFailed, sourceVars, InventoryTypeOK

\* A page is a set of listed records, of at most PageSize, and the number of
\* what is listed is a number.
LEMMA PageType ==
    ASSUME InventoryTypeOK
    PROVE  /\ Page \in SUBSET live /\ Page \in SUBSET Record
           /\ Cardinality(Page) \in Nat
           /\ Total \in Nat
<1>1. live \in SUBSET Record /\ Page \in SUBSET live
  BY DEF InventoryTypeOK, Page
<1> QED BY <1>1, RecordsFinite DEF Total

\* Every step keeps the types.
LEMMA InventoryTypeStep == InventoryTypeOK /\ [InventoryNext]_inventoryVars => InventoryTypeOK'
<1> SUFFICES ASSUME InventoryTypeOK, [InventoryNext]_inventoryVars PROVE InventoryTypeOK'
  OBVIOUS
<1> USE DEF InventoryTypeOK, sourceVars, listingVars, historyVars
<1>1. ASSUME NEW r \in Record, Create(r) PROVE InventoryTypeOK'
  BY <1>1 DEF Create
<1>2. ASSUME NEW r \in Record, Update(r) PROVE InventoryTypeOK'
  BY <1>2 DEF Update
<1>3. ASSUME NEW r \in Record, Remove(r) PROVE InventoryTypeOK'
  <2>1. moved' \subseteq Record
    BY <1>3 DEF Remove
  <2> QED BY <1>3, <2>1 DEF Remove
<1>4. ASSUME NEW r \in Record, Restore(r) PROVE InventoryTypeOK'
  BY <1>4 DEF Restore
<1>5. CASE StartRun
  BY <1>5 DEF StartRun, Nothing
<1>6. CASE Token
  BY <1>6 DEF Token
<1>7. CASE PageArrives
  <2> DEFINE n == count + Cardinality(Page)
             all == [r \in Record |-> IF r \in Page THEN version[r] ELSE got[r]]
  <2>1. n \in Nat /\ Cardinality(Page) \in Nat /\ Total \in Nat
    BY PageType
  <2>2. all \in [Record -> Nat] /\ Kept(all) \in [Record -> Nat]
    BY DEF Kept
  <2>3. CASE Fail /\ UNCHANGED faults
    BY <2>3, FailTyped, EndRunTyped
  <2>4. CASE ~Fail
    <3>1. /\ got' \in {all, Kept(all)}
          /\ count' \in {n, Total}
          /\ offset' \in {offset, offset + Cardinality(Page)}
          /\ pages' = pages + 1 /\ requests' = requests + 1
          /\ attempt' \in {attempt, 0}
          /\ pc' \in {"listing", "received"}
          /\ UNCHANGED <<sourceVars, stored, run, answer, historyVars, faults>>
      BY <1>7, <2>4 DEF PageArrives
    <3> QED BY <2>1, <2>2, <3>1
  <2> QED BY <1>7, <2>3, <2>4 DEF PageArrives
<1>8. CASE Store
  <2>1. stored' \in [Record -> Nat]
    BY <1>8 DEF Store, Upserted
  <2> QED BY <1>8, <2>1, EndRunTyped DEF Store
<1>9. CASE HandOver
  <2>1. answer' \subseteq Record
    BY <1>9 DEF HandOver, Listed
  <2> QED BY <1>9, <2>1, EndRunTyped DEF HandOver
<1>10. ASSUME NEW outcome \in Failures, AttemptFails(outcome) PROVE InventoryTypeOK'
  <2>1. CASE Fail
    BY <1>10, <2>1, FailTyped, EndRunTyped DEF AttemptFails, Fault
  <2>2. CASE ~Fail
    BY <1>10, <2>2 DEF AttemptFails, Fault
  <2> QED BY <2>1, <2>2
<1>11. CASE PageUnusable \/ StoreFails
  BY <1>11, FailTyped, EndRunTyped DEF PageUnusable, StoreFails, Fault
<1>12. CASE Abandon
  BY <1>12, EndRunTyped DEF Abandon, Fault
<1>13. CASE UNCHANGED inventoryVars
  BY <1>13 DEF inventoryVars
<1> QED BY <1>1, <1>2, <1>3, <1>4, <1>5, <1>6, <1>7, <1>8, <1>9, <1>10, <1>11, <1>12, <1>13
        DEF InventoryNext, Progress

\* The variables keep their types.
THEOREM InventoryTypeCorrect == InventorySpec => []InventoryTypeOK
<1>1. InventoryInit => InventoryTypeOK
  <2> SUFFICES ASSUME InventoryInit PROVE InventoryTypeOK
    OBVIOUS
  <2>1. Nothing \in [Record -> Nat]
    BY DEF Nothing
  <2>2. client \in {"snipe_it", "wazuh"}
    BY DEF InventoryInit
  <2> QED BY <2>1, <2>2 DEF InventoryInit, InventoryTypeOK
<1> QED BY <1>1, InventoryTypeStep, PTL DEF InventorySpec

-----------------------------------------------------------------------------
(* The number of requests *)

\* What RequestsBounded needs: as long as a request may follow, there is a page
\* left to ask for, and the token is the first request of all.
RequestInv ==
    /\ RequestsBounded
    /\ pc \in {"authenticating", "listing"} => pages < MaxPages
    /\ pc = "authenticating" => requests = 0

\* A run that has ended has sent nothing yet.
LEMMA EndRunUnsent == ASSUME EndRun PROVE RequestInv'
<1>1. 0 \in 0 .. Len(RETRY_DELAYS) /\ MaxPages \in Nat
  BY ListingAssumption DEF RETRY_DELAYS
<1> QED BY <1>1 DEF EndRun, RequestInv, RequestsBounded

\* Every step keeps the number of requests bounded.
LEMMA RequestStep ==
    InventoryTypeOK /\ RequestInv /\ [InventoryNext]_inventoryVars => RequestInv'
<1> SUFFICES ASSUME InventoryTypeOK, RequestInv, [InventoryNext]_inventoryVars
             PROVE  RequestInv'
  OBVIOUS
<1> USE DEF InventoryTypeOK, RequestInv, RequestsBounded
<1>0. /\ Len(RETRY_DELAYS) = 2 /\ 0 .. Len(RETRY_DELAYS) = 0 .. 2
      /\ MaxPages \in Nat \ {0}
  BY ListingAssumption DEF RETRY_DELAYS
<1>1. CASE UNCHANGED <<pc, attempt, pages, requests>>
  BY <1>1
<1>2. CASE StartRun
  BY <1>0, <1>2 DEF StartRun
<1>3. CASE Token
  BY <1>0, <1>3 DEF Token
<1>4. CASE PageArrives
  <2>1. CASE Fail
    BY <2>1, EndRunUnsent DEF Fail
  <2>2. CASE ~Fail
    <3>1. /\ pages' = pages + 1 /\ requests' = requests + 1
          /\ pc = "listing"
          /\ \/ pc' = "received" /\ attempt' = attempt
             \/ pc' = "listing" /\ attempt' = 0 /\ pages + 1 < MaxPages
      BY <1>4, <2>2 DEF PageArrives
    <3>2. attempt \in {0, 1, 2} /\ pages < MaxPages /\ pages' <= MaxPages
      BY <1>0, <3>1
    <3>3. requests' <= 3 * pages' + attempt' + 1
      BY <3>1, <3>2
    <3> QED BY <1>0, <3>1, <3>2, <3>3
  <2> QED BY <2>1, <2>2
<1>5. ASSUME NEW outcome \in Failures, AttemptFails(outcome) PROVE RequestInv'
  <2>1. CASE Fail
    BY <2>1, EndRunUnsent DEF Fail
  <2>2. CASE ~Fail
    <3>1. /\ attempt' = attempt + 1 /\ requests' = requests + 1
          /\ UNCHANGED <<pc, pages>>
          /\ attempt + 1 < MaxAttempts(RetrySafe)
      BY <1>5, <2>2 DEF AttemptFails, TriesAgain
    <3>2. attempt + 1 <= 2 /\ (pc # "listing" => attempt + 1 < 1)
      BY <3>1 DEF MaxAttempts, RetrySafe
    <3>3. pc = "listing"
      BY <1>5, <3>2 DEF AttemptFails
    <3> QED BY <1>0, <3>1, <3>2, <3>3
  <2> QED BY <2>1, <2>2
<1>6. CASE Store \/ HandOver \/ PageUnusable \/ StoreFails \/ Abandon
  BY <1>6, EndRunUnsent DEF Store, HandOver, PageUnusable, StoreFails, Abandon, Fail
<1> QED BY <1>1, <1>2, <1>3, <1>4, <1>5, <1>6
        DEF InventoryNext, Progress, Create, Update, Remove, Restore, inventoryVars, listingVars

\* A run never sends more requests than its pages and their retries account for.
THEOREM RequestsCorrect == InventorySpec => []RequestsBounded
<1>1. InventoryInit => RequestInv
  <2>1. 0 \in 0 .. Len(RETRY_DELAYS) /\ MaxPages \in Nat
    BY ListingAssumption DEF RETRY_DELAYS
  <2> QED BY <2>1 DEF InventoryInit, RequestInv, RequestsBounded
<1>2. RequestInv => RequestsBounded
  BY DEF RequestInv
<1> QED BY <1>1, <1>2, InventoryTypeCorrect, RequestStep, PTL DEF InventorySpec

-----------------------------------------------------------------------------
(* Versions, and the mirror *)

\* Records are created in order; what is stored and what has been received are
\* versions the source had, and a row received is not older than the stored one.
VersionInv ==
    /\ \A r \in Record :
        /\ r \in live => version[r] > 0
        /\ stored[r] <= version[r] /\ got[r] <= version[r] /\ begun[r] <= version[r]
        /\ got[r] # 0 => stored[r] <= got[r]
        /\ begun[r] # 0 => r \in live
    /\ \A r, s \in Record : s < r /\ version[r] > 0 => version[s] > 0

\* After the end of a run nothing has been received.
LEMMA EndRunVersions ==
    ASSUME InventoryTypeOK, VersionInv, EndRun,
           UNCHANGED <<version, live, stored>>
    PROVE  VersionInv'
BY DEF InventoryTypeOK, VersionInv, EndRun, historyVars, Nothing

\* Every step keeps the versions in order.
LEMMA VersionStep ==
    InventoryTypeOK /\ VersionInv /\ [InventoryNext]_inventoryVars => VersionInv'
<1> SUFFICES ASSUME InventoryTypeOK, VersionInv, [InventoryNext]_inventoryVars
             PROVE  VersionInv'
  OBVIOUS
<1> USE DEF InventoryTypeOK, VersionInv, sourceVars, listingVars, historyVars
<1>1. ASSUME NEW r \in Record, Create(r) PROVE VersionInv'
  <2>1. \A q \in Record : version'[q] = IF q = r THEN 1 ELSE version[q]
    BY <1>1 DEF Create
  <2>2. \A q \in Record : version[q] <= version'[q] /\ (q \in live' => version'[q] > 0)
    BY <1>1, <2>1 DEF Create
  <2>3. \A q, s \in Record : s < q /\ version'[q] > 0 => version'[s] > 0
    BY <1>1, <2>1 DEF Create
  <2> QED BY <1>1, <2>2, <2>3 DEF Create
<1>2. ASSUME NEW r \in Record, Update(r) PROVE VersionInv'
  <2>1. \A q \in Record : version'[q] = IF q = r THEN version[q] + 1 ELSE version[q]
    BY <1>2 DEF Update
  <2>2. \A q \in Record : version[q] <= version'[q] /\ (version'[q] > 0 => version[q] > 0)
    BY <1>2, <2>1 DEF Update
  <2> QED BY <1>2, <2>2 DEF Update
<1>3. ASSUME NEW r \in Record, Remove(r) PROVE VersionInv'
  BY <1>3 DEF Remove
<1>4. ASSUME NEW r \in Record, Restore(r) PROVE VersionInv'
  BY <1>4 DEF Restore
<1>5. CASE StartRun
  BY <1>5 DEF StartRun, Nothing
<1>6. CASE Token
  BY <1>6 DEF Token
<1>7. CASE PageArrives
  <2> DEFINE all == [r \in Record |-> IF r \in Page THEN version[r] ELSE got[r]]
  <2>1. CASE Fail
    BY <2>1, EndRunVersions DEF Fail
  <2>2. CASE ~Fail
    <3>1. /\ got' \in {all, Kept(all)}
          /\ UNCHANGED <<version, live, stored, begun>>
      BY <1>7, <2>2 DEF PageArrives
    <3>2. \A q \in Record : got'[q] \in {0, got[q], version[q]}
      BY <3>1 DEF Kept
    <3> QED BY <3>1, <3>2
  <2> QED BY <2>1, <2>2
<1>8. CASE Store
  <2>1. \A q \in Record : stored'[q] = IF got[q] # 0 THEN got[q] ELSE stored[q]
    BY <1>8 DEF Store, Upserted
  <2>2. /\ \A q \in Record : got'[q] = 0
        /\ UNCHANGED <<version, live, begun>>
    BY <1>8 DEF Store, EndRun, Nothing
  <2> QED BY <2>1, <2>2
<1>9. CASE HandOver
  BY <1>9, EndRunVersions DEF HandOver
<1>10. ASSUME NEW outcome \in Failures, AttemptFails(outcome) PROVE VersionInv'
  <2>1. CASE Fail
    BY <2>1, EndRunVersions DEF Fail
  <2>2. CASE ~Fail
    BY <1>10, <2>2 DEF AttemptFails
  <2> QED BY <2>1, <2>2
<1>11. CASE PageUnusable \/ StoreFails \/ Abandon
  BY <1>11, EndRunVersions DEF PageUnusable, StoreFails, Abandon, Fail
<1>12. CASE UNCHANGED inventoryVars
  BY <1>12 DEF inventoryVars
<1> QED BY <1>1, <1>2, <1>3, <1>4, <1>5, <1>6, <1>7, <1>8, <1>9, <1>10, <1>11, <1>12
        DEF InventoryNext, Progress

\* A step is a change of one record at the source, a publication of newer
\* versions, or none of the mirror's business.
LEMMA MirrorStep ==
    InventoryTypeOK /\ VersionInv /\ [InventoryNext]_inventoryVars
        => [Mirror!Next]_(Mirror!mirrorVars)
<1> SUFFICES ASSUME InventoryTypeOK, VersionInv, [InventoryNext]_inventoryVars
             PROVE  Mirror!Next \/ UNCHANGED <<version, stored>>
  BY DEF Mirror!mirrorVars
<1> USE DEF InventoryTypeOK
<1>1. ASSUME NEW r \in Record, Create(r) \/ Update(r) PROVE Mirror!Next
  <2>1. /\ version' = [version EXCEPT ![r] = version'[r]]
        /\ version'[r] > version[r]
        /\ UNCHANGED stored
    BY <1>1 DEF Create, Update
  <2> QED BY <2>1 DEF Mirror!Next, Mirror!SourceChanges
<1>2. CASE Store
  <2>1. DOMAIN stored' = Record
    BY <1>2 DEF Store, Upserted
  <2>2. \A q \in Record : stored[q] <= stored'[q] /\ stored'[q] <= version[q]
    BY <1>2 DEF Store, Upserted, VersionInv
  <2> QED BY <1>2, <2>1, <2>2 DEF Store, sourceVars, Mirror!Next, Mirror!Publish
<1>3. CASE UNCHANGED <<version, stored>>
  BY <1>3
<1> QED BY <1>1, <1>2, <1>3
        DEF InventoryNext, Progress, Remove, Restore, StartRun, Token, PageArrives, HandOver,
            AttemptFails, PageUnusable, StoreFails, Abandon, Fail, inventoryVars, sourceVars

\* At first there are no versions.
LEMMA VersionInit == InventoryInit => VersionInv
BY DEF InventoryInit, VersionInv, Nothing

\* The assets table implements the abstract mirror, for all listings that fail,
\* are killed, or meet changes of the source.
THEOREM InventoryMirrorCorrect == InventorySpec => ImplementsMirror
<1>1. InventoryInit => Mirror!Init
  BY DEF InventoryInit, Mirror!Init, Nothing
<1> QED BY <1>1, InventoryTypeCorrect, VersionInit, VersionStep, MirrorStep, PTL
        DEF InventorySpec, ImplementsMirror, Mirror!Spec

-----------------------------------------------------------------------------
(* Pages *)

\* How many records a page has.
LEMMA PageLength ==
    ASSUME InventoryTypeOK
    PROVE  \/ offset >= Total /\ Page = {} /\ Cardinality(Page) = 0
           \/ offset + PageSize <= Total /\ Cardinality(Page) = PageSize
           \/ /\ offset < Total /\ Total < offset + PageSize
              /\ Cardinality(Page) = Total - offset
<1>0. /\ live \in SUBSET Record /\ Total \in Nat /\ offset \in Nat
      /\ PageSize \in Nat \ {0}
  BY ListingAssumption, PageType DEF InventoryTypeOK
<1>1. \A r \in live : r \in Record /\ Place(r, live) \in Nat /\ Place(r, live) <= Total
  BY <1>0, PlaceType DEF Total
<1>2. CASE offset >= Total
  <2>1. ASSUME NEW r \in Page PROVE FALSE
    <3>1. r \in live /\ offset < Place(r, live)
      BY <2>1 DEF Page
    <3> QED BY <1>0, <1>1, <1>2, <3>1
  <2>2. Page = {}
    BY <2>1
  <2> QED BY <1>2, <2>2, FS_EmptySet
<1>3. CASE offset + PageSize <= Total
  <2>1. /\ offset + PageSize \in Nat /\ offset <= offset + PageSize
        /\ (offset + PageSize) - offset = PageSize
    BY <1>0
  <2>2. Cardinality(Page) = (offset + PageSize) - offset
    BY <1>0, <1>3, <2>1, SliceSize DEF Page, Total
  <2> QED BY <1>3, <2>1, <2>2
<1>4. CASE offset < Total /\ Total < offset + PageSize
  <2>1. Page = {r \in live : offset < Place(r, live) /\ Place(r, live) <= Total}
    BY <1>0, <1>1, <1>4 DEF Page
  <2>2. offset <= Total /\ Total <= Cardinality(live)
    BY <1>0, <1>4 DEF Total
  <2>3. Cardinality(Page) = Total - offset
    BY <1>0, <2>1, <2>2, SliceSize
  <2> QED BY <1>4, <2>3
<1> QED BY <1>0, <1>2, <1>3, <1>4

\* What is listed after a page comes after all its records, and what is on it or
\* after it was not before it.
LEMMA PageOrder ==
    ASSUME InventoryTypeOK,
           NEW s \in live, Place(s, live) > offset + Cardinality(Page)
    PROVE  /\ Place(s, live) > offset
           /\ s \notin Page
           /\ \A r \in Page : r < s
<1>0. /\ live \in SUBSET Record /\ Total \in Nat /\ offset \in Nat /\ Cardinality(Page) \in Nat
      /\ PageSize \in Nat \ {0} /\ Page \in SUBSET live
  BY ListingAssumption, PageType DEF InventoryTypeOK
<1>1. s \in Record /\ Place(s, live) \in Nat /\ Place(s, live) <= Total
  BY <1>0, PlaceType DEF Total
<1>2. Cardinality(Page) = PageSize
  BY <1>0, <1>1, PageLength
<1>3. Place(s, live) > offset /\ s \notin Page
  BY <1>0, <1>1, <1>2 DEF Page
<1>4. ASSUME NEW r \in Page PROVE r < s
  <2>1. r \in live /\ r \in Record /\ Place(r, live) \in Nat /\ Place(r, live) <= offset + PageSize
    BY <1>0, PlaceType DEF Page
  <2>2. ~(Place(s, live) <= Place(r, live))
    BY <1>0, <1>1, <1>2, <2>1
  <2>3. ~(s <= r)
    BY <1>0, <2>1, <2>2, PlaceOrder
  <2> QED BY <1>1, <2>1, <2>3, RecordsOrdered
<1> QED BY <1>3, <1>4

\* What has been received after a page that the client did not refuse: the rows
\* are counted once each.
LEMMA PageReceived ==
    ASSUME InventoryTypeOK, VersionInv,
           NEW all, all = [r \in Record |-> IF r \in Page THEN version[r] ELSE got[r]],
           Listed(got) \cap Page = {}
    PROVE  /\ Listed(all) = Listed(got) \cup Page
           /\ Listed(all) \in SUBSET Record
           /\ Cardinality(Listed(all)) = Cardinality(Listed(got)) + Cardinality(Page)
<1>1. \A r \in Page : r \in Record /\ version[r] > 0
  BY PageType DEF VersionInv
<1>2. Listed(all) = Listed(got) \cup Page
  BY <1>1 DEF Listed, InventoryTypeOK
<1>3. Listed(got) \in SUBSET Record /\ Page \in SUBSET Record
  BY PageType DEF Listed
<1>4. /\ IsFiniteSet(Listed(got)) /\ IsFiniteSet(Page)
      /\ Cardinality(Listed(got)) \in Nat /\ Cardinality(Page) \in Nat
  BY <1>3, RecordsFinite
<1>5. Cardinality(Listed(got) \cup Page)
        = Cardinality(Listed(got)) + Cardinality(Page) - Cardinality(Listed(got) \cap Page)
  BY <1>4, FS_Union
<1>6. Cardinality(Listed(got) \cap Page) = 0
  BY FS_EmptySet
<1>7. Cardinality(Listed(got) \cup Page) = Cardinality(Listed(got)) + Cardinality(Page)
  BY <1>4, <1>5, <1>6
<1>8. Listed(got) \cup Page \in SUBSET Record
  BY <1>3
<1> QED BY <1>2, <1>7, <1>8

-----------------------------------------------------------------------------
(* What is counted *)

\* While a listing is under way, the offset is the number of rows received, none
\* of which is there twice.  Agents come in order of their ids, so that no
\* change of the source brings one back that has been received.
CountInv ==
    pc \in {"authenticating", "listing"} =>
        /\ count = offset /\ count = Cardinality(Listed(got))
        /\ client = "wazuh" =>
            \A r \in Listed(got), s \in live : Place(s, live) > offset => r < s

\* Nothing has no rows.
LEMMA NothingListed == Listed(Nothing) = {} /\ Cardinality(Listed(Nothing)) = 0
<1>1. Listed(Nothing) = {}
  BY DEF Listed, Nothing
<1> QED BY <1>1, FS_EmptySet

\* The client has not received what is on the next page, or refuses it.
LEMMA PageIsNew ==
    ASSUME InventoryTypeOK, CountInv, pc = "listing", ~Refused
    PROVE  Listed(got) \cap Page = {}
<1> SUFFICES ASSUME NEW r \in Page, r \in Listed(got) PROVE FALSE
  OBVIOUS
<1>1. got[r] # 0 /\ r \in Record /\ r \in live /\ Place(r, live) > offset
  BY DEF Listed, Page
<1>2. CASE client = "snipe_it"
  BY <1>1, <1>2 DEF Refused
<1>3. CASE client = "wazuh"
  <2>1. r < r
    BY <1>1, <1>3 DEF CountInv
  <2> QED BY <1>1, <2>1, RecordsOrdered
<1> QED BY <1>2, <1>3 DEF InventoryTypeOK

\* A page that is not the last one adds its rows.
LEMMA CountOfPage ==
    ASSUME InventoryTypeOK, VersionInv, CountInv, PageArrives, pc' = "listing"
    PROVE  CountInv'
<1> DEFINE n == count + Cardinality(Page)
           all == [r \in Record |-> IF r \in Page THEN version[r] ELSE got[r]]
<1>1. /\ pc = "listing" /\ ~Refused
      /\ got' = all /\ count' = n /\ offset' = offset + Cardinality(Page)
      /\ UNCHANGED <<client, live>>
  BY DEF PageArrives, Fail, EndRun, sourceVars
<1>2. Listed(got) \cap Page = {}
  BY <1>1, PageIsNew
<1>3. /\ Listed(all) = Listed(got) \cup Page
      /\ Cardinality(Listed(all)) = Cardinality(Listed(got)) + Cardinality(Page)
  BY <1>2, PageReceived
<1>4. count' = offset' /\ count' = Cardinality(Listed(got'))
  BY <1>1, <1>3 DEF CountInv
<1>5. ASSUME client = "wazuh", NEW r \in Listed(all), NEW s \in live,
             Place(s, live) > offset + Cardinality(Page)
      PROVE  r < s
  <2>1. Place(s, live) > offset /\ \A q \in Page : q < s
    BY <1>5, PageOrder
  <2> QED BY <1>1, <1>3, <1>5, <2>1 DEF CountInv
<1> QED BY <1>1, <1>4, <1>5 DEF CountInv, Place

\* The last page completes the number the source announces, and the rows kept
\* are as many.
LEMMA CountOfLastPage ==
    ASSUME InventoryTypeOK, VersionInv, CountInv, PageArrives, pc' = "received"
    PROVE  count' = Cardinality(live) /\ Cardinality(Listed(got')) = count'
<1> DEFINE n == count + Cardinality(Page)
           all == [r \in Record |-> IF r \in Page THEN version[r] ELSE got[r]]
<1>1. /\ pc = "listing" /\ ~Refused /\ Ended(n)
      /\ got' = Kept(all) /\ count' = IF n <= Total THEN n ELSE Total
  BY DEF PageArrives, Fail, EndRun
<1>2. Listed(got) \cap Page = {}
  BY <1>1, PageIsNew
<1>3. /\ Listed(all) \in SUBSET Record
      /\ Cardinality(Listed(all)) = n
  BY <1>1, <1>2, PageReceived DEF CountInv
<1>4. n \in Nat /\ Total \in Nat
  BY PageType DEF InventoryTypeOK
<1>5. n >= Total /\ count' = Total
  BY <1>1, <1>4 DEF Ended
<1>6. Cardinality(Listed(Kept(all))) = Total
  <2>1. CASE client = "snipe_it"
    BY <1>1, <1>3, <2>1 DEF Kept, Ended
  <2>2. CASE client # "snipe_it"
    <3>1. \A r \in Listed(all) : Place(r, Listed(all)) \in Nat /\ 0 < Place(r, Listed(all))
      BY <1>3, PlaceType
    <3>2. Listed(Kept(all))
            = {r \in Listed(all) : 0 < Place(r, Listed(all)) /\ Place(r, Listed(all)) <= Total}
      BY <2>2, <3>1 DEF Kept, Listed
    <3>3. Cardinality(Listed(Kept(all))) = Total - 0
      BY <1>3, <1>4, <1>5, <3>2, SliceSize
    <3> QED BY <1>4, <3>3
  <2> QED BY <2>1, <2>2
<1> QED BY <1>1, <1>5, <1>6 DEF Total

\* A new record comes last, and moves no other.
LEMMA CreatedLast ==
    ASSUME InventoryTypeOK, VersionInv, NEW q \in Record, Create(q)
    PROVE  /\ live \subseteq live' /\ live' \subseteq Record
           /\ \A r \in Record : version[r] > 0 => r < q
           /\ \A s \in live : Place(s, live') = Place(s, live)
<1>1. /\ version[q] = 0 /\ live' = live \cup {q}
      /\ live \subseteq Record
  BY DEF Create, InventoryTypeOK
<1>2. ASSUME NEW r \in Record, version[r] > 0 PROVE r < q
  <2>1. r # q /\ ~(q < r)
    BY <1>1, <1>2 DEF VersionInv
  <2> QED BY <2>1, RecordsOrdered
<1>3. ASSUME NEW s \in live PROVE Place(s, live') = Place(s, live)
  <2>1. s \in Record /\ s < q
    BY <1>1, <1>2 DEF VersionInv
  <2>2. ~(q <= s)
    BY <2>1, RecordsOrdered
  <2>3. {t \in live' : t <= s} = {t \in live : t <= s}
    BY <1>1, <2>2
  <2> QED BY <2>3 DEF Place
<1> QED BY <1>1, <1>2, <1>3

\* Every step keeps the count.
LEMMA CountStep ==
    InventoryTypeOK /\ VersionInv /\ CountInv /\ [InventoryNext]_inventoryVars => CountInv'
<1> SUFFICES ASSUME InventoryTypeOK, VersionInv, CountInv, [InventoryNext]_inventoryVars
             PROVE  CountInv'
  OBVIOUS
<1> SUFFICES ASSUME pc' \in {"authenticating", "listing"} PROVE CountInv'
  BY DEF CountInv
<1> USE DEF sourceVars, listingVars, historyVars
<1>1. ASSUME NEW q \in Record, Create(q) PROVE CountInv'
  <2>1. pc' = pc /\ offset' = offset /\ count' = count /\ got' = got /\ client' = client
    BY <1>1 DEF Create
  <2>2. ASSUME client = "wazuh", NEW r \in Listed(got), NEW s \in live', Place(s, live') > offset
        PROVE  r < s
    <3>1. r \in Record /\ version[r] > 0
      BY DEF Listed, VersionInv, InventoryTypeOK
    <3>2. CASE s = q
      BY <1>1, <3>1, <3>2, CreatedLast
    <3>3. CASE s # q
      <4>1. s \in live
        BY <1>1, <3>3 DEF Create
      <4> QED BY <1>1, <2>1, <2>2, <4>1, CreatedLast DEF CountInv
    <3> QED BY <3>2, <3>3
  <2> QED BY <2>1, <2>2 DEF CountInv, Listed, Place
<1>2. ASSUME NEW q \in Record, Update(q) PROVE CountInv'
  BY <1>2 DEF Update, CountInv, Listed, Place
<1>3. ASSUME NEW q \in Record, Remove(q) PROVE CountInv'
  <2>1. /\ pc' = pc /\ offset' = offset /\ count' = count /\ got' = got /\ client' = client
        /\ live' \in SUBSET live /\ live \in SUBSET Record
    BY <1>3 DEF Remove, InventoryTypeOK
  <2>2. ASSUME client = "wazuh", NEW r \in Listed(got), NEW s \in live', Place(s, live') > offset
        PROVE  r < s
    <3>1. s \in live /\ s \in Record /\ Place(s, live') <= Place(s, live)
      BY <2>1, PlaceGrows
    <3>2. Place(s, live) \in Nat /\ Place(s, live') \in Nat /\ offset \in Nat
      BY <2>1, <3>1, PlaceType DEF InventoryTypeOK
    <3>3. Place(s, live) > offset
      BY <2>2, <3>1, <3>2
    <3> QED BY <2>1, <2>2, <3>1, <3>3 DEF CountInv
  <2> QED BY <2>1, <2>2 DEF CountInv, Listed, Place
<1>4. ASSUME NEW q \in Record, Restore(q) PROVE CountInv'
  <2>1. client' = "snipe_it"
    BY <1>4 DEF Restore
  <2> QED BY <1>4, <2>1 DEF Restore, CountInv, Listed
<1>5. CASE StartRun
  <2>1. got' = Nothing /\ count' = 0 /\ offset' = 0
    BY <1>5 DEF StartRun
  <2> QED BY <2>1, NothingListed DEF CountInv
<1>6. CASE Token
  BY <1>6 DEF Token, CountInv, Listed, Place
<1>7. CASE PageArrives
  <2>1. pc' = "listing"
    BY <1>7 DEF PageArrives, Fail, EndRun
  <2> QED BY <1>7, <2>1, CountOfPage
<1>8. ASSUME NEW outcome \in Failures, AttemptFails(outcome) PROVE CountInv'
  <2>1. ~Fail
    BY DEF Fail, EndRun
  <2> QED BY <1>8, <2>1 DEF AttemptFails, CountInv, Listed, Place
<1>9. CASE Store \/ HandOver \/ PageUnusable \/ StoreFails \/ Abandon
  BY <1>9 DEF Store, HandOver, PageUnusable, StoreFails, Abandon, Fail, EndRun
<1>10. CASE UNCHANGED inventoryVars
  BY <1>10 DEF inventoryVars, CountInv, Listed, Place
<1> QED BY <1>1, <1>2, <1>3, <1>4, <1>5, <1>6, <1>7, <1>8, <1>9, <1>10
        DEF InventoryNext, Progress

\* At first no listing is under way.
LEMMA CountInit == InventoryInit => CountInv
BY DEF InventoryInit, CountInv

\* A listing ends with as many rows as the source had when it sent the last
\* page, and no record is among them twice.
THEOREM CountCorrect == InventorySpec => CountIsTrue
<1> DEFINE Counts == pc = "listing" /\ pc' = "received" =>
                count' = Cardinality(live) /\ Cardinality(Listed(got')) = count'
<1>1. InventoryTypeOK /\ VersionInv /\ CountInv /\ [InventoryNext]_inventoryVars
        => [Counts]_inventoryVars
  <2> SUFFICES ASSUME InventoryTypeOK, VersionInv, CountInv, InventoryNext,
                      pc = "listing", pc' = "received"
               PROVE  count' = Cardinality(live) /\ Cardinality(Listed(got')) = count'
    OBVIOUS
  <2>1. PageArrives
    BY DEF InventoryNext, Progress, Create, Update, Remove, Restore, StartRun, Token, Store,
           HandOver, AttemptFails, PageUnusable, StoreFails, Abandon, Fail, EndRun, listingVars
  <2> QED BY <2>1, CountOfLastPage
<1> QED BY <1>1, InventoryTypeCorrect, VersionInit, VersionStep, InventoryTypeStep, CountInit,
           CountStep, PTL DEF InventorySpec, CountIsTrue

-----------------------------------------------------------------------------
(* Completeness *)

\* While a listing is under way, what was there when it began is still to come,
\* or has been received at least at that version, or was moved by a removal.  As
\* long as nothing has been removed, no agent received is gone.
CompleteInv ==
    /\ pc \in {"authenticating", "listing"} =>
        /\ \A r \in Record :
            begun[r] # 0 /\ r \notin moved => Place(r, live) > offset \/ got[r] >= begun[r]
        /\ client = "wazuh" /\ ~shrunk => Listed(got) \subseteq live
    /\ ListingComplete

\* What was at the places read so far, and on the page, has been received.
LEMMA PageCovers ==
    ASSUME InventoryTypeOK, VersionInv, CompleteInv, pc = "listing",
           NEW r \in Record, begun[r] # 0, r \notin moved,
           ~(Place(r, live) > offset + Cardinality(Page))
    PROVE  r \in Page \/ got[r] >= begun[r]
<1>1. /\ r \in live /\ live \in SUBSET Record
      /\ offset \in Nat /\ Total \in Nat /\ PageSize \in Nat \ {0}
  BY PageType, ListingAssumption DEF VersionInv, InventoryTypeOK
<1>2. Place(r, live) \in Nat /\ Place(r, live) <= Total
  BY <1>1, PlaceType DEF Total
<1>3. Place(r, live) > offset => Place(r, live) <= offset + PageSize
  BY <1>1, <1>2, PageLength
<1>4. Place(r, live) > offset \/ got[r] >= begun[r]
  BY DEF CompleteInv
<1> QED BY <1>1, <1>3, <1>4 DEF Page

\* A page that is not the last one leaves the rest to come.
LEMMA CompleteAfterPage ==
    ASSUME InventoryTypeOK, VersionInv, CompleteInv, PageArrives, pc' = "listing"
    PROVE  CompleteInv'
<1> DEFINE all == [r \in Record |-> IF r \in Page THEN version[r] ELSE got[r]]
<1>1. /\ pc = "listing"
      /\ got' = all /\ offset' = offset + Cardinality(Page)
      /\ UNCHANGED <<client, live, begun, moved, shrunk>>
  BY DEF PageArrives, Fail, EndRun, sourceVars, historyVars
<1>2. ASSUME NEW r \in Record, begun[r] # 0, r \notin moved
      PROVE  Place(r, live) > offset + Cardinality(Page) \/ all[r] >= begun[r]
  <2> SUFFICES ASSUME ~(Place(r, live) > offset + Cardinality(Page)) PROVE all[r] >= begun[r]
    OBVIOUS
  <2>1. r \in Page \/ got[r] >= begun[r]
    BY <1>1, <1>2, PageCovers
  <2>2. begun[r] <= version[r] /\ begun[r] \in Nat /\ version[r] \in Nat
    BY DEF VersionInv, InventoryTypeOK
  <2> QED BY <2>1, <2>2
<1>3. client = "wazuh" /\ ~shrunk => Listed(all) \subseteq live
  BY <1>1 DEF CompleteInv, Listed, Page
<1> QED BY <1>1, <1>2, <1>3 DEF CompleteInv, ListingComplete, Place

\* The last page completes the listing.
LEMMA CompleteAfterLastPage ==
    ASSUME InventoryTypeOK, VersionInv, CountInv, CompleteInv, PageArrives, pc' = "received"
    PROVE  CompleteInv'
<1> DEFINE n == count + Cardinality(Page)
           all == [r \in Record |-> IF r \in Page THEN version[r] ELSE got[r]]
<1>1. /\ pc = "listing" /\ ~Refused /\ Ended(n)
      /\ got' = Kept(all)
      /\ UNCHANGED <<client, live, begun, moved, shrunk>>
  BY DEF PageArrives, Fail, EndRun, sourceVars, historyVars
<1>2. /\ n \in Nat /\ Total \in Nat /\ offset = count
      /\ live \in SUBSET Record /\ Listed(all) \in SUBSET Record
      /\ Cardinality(Page) \in Nat
  BY <1>1, PageType DEF InventoryTypeOK, CountInv, Listed
<1>3. n >= Total
  BY <1>1, <1>2 DEF Ended
<1> SUFFICES ASSUME client = "wazuh" => ~shrunk,
                    NEW r \in Record, begun[r] # 0, r \notin moved
             PROVE  Kept(all)[r] >= begun[r]
  BY <1>1 DEF CompleteInv, ListingComplete
<1>4. all[r] >= begun[r] /\ all[r] # 0
  <2>1. r \in live
    BY DEF VersionInv
  <2>2. Place(r, live) \in Nat /\ Place(r, live) <= Total
    BY <1>2, PlaceType DEF Total
  <2>3. ~(Place(r, live) > offset + Cardinality(Page))
    BY <1>2, <1>3, <2>2
  <2>4. r \in Page \/ got[r] >= begun[r]
    BY <1>1, <2>3, PageCovers
  <2>5. begun[r] <= version[r] /\ begun[r] \in Nat /\ version[r] \in Nat /\ got[r] \in Nat
    BY DEF VersionInv, InventoryTypeOK
  <2> QED BY <2>4, <2>5
<1>5. CASE client = "snipe_it"
  BY <1>4, <1>5 DEF Kept
<1>6. CASE client = "wazuh"
  <2>1. Listed(all) \in SUBSET live
    BY <1>1, <1>6 DEF CompleteInv, Listed, Page
  <2>2. Place(r, Listed(all)) <= Total
    <3>1. Place(r, Listed(all)) \in Nat /\ Place(r, Listed(all)) <= Cardinality(Listed(all))
      BY <1>2, PlaceType
    <3>2. Cardinality(Listed(all)) \in Nat /\ Cardinality(Listed(all)) <= Total
      BY <1>2, <2>1, SmallerSet, RecordsFinite DEF Total
    <3> QED BY <1>2, <3>1, <3>2
  <2> QED BY <1>4, <2>2 DEF Kept
<1> QED BY <1>5, <1>6 DEF InventoryTypeOK

\* Every step keeps what is to come or received.
LEMMA CompleteStep ==
    InventoryTypeOK /\ VersionInv /\ CountInv /\ CompleteInv /\ [InventoryNext]_inventoryVars
        => CompleteInv'
<1> SUFFICES ASSUME InventoryTypeOK, VersionInv, CountInv, CompleteInv,
                    [InventoryNext]_inventoryVars
             PROVE  CompleteInv'
  OBVIOUS
<1> USE DEF sourceVars, listingVars, historyVars
<1>0. \A r \in Record : begun[r] # 0 => r \in live
  BY DEF VersionInv
<1>1. ASSUME NEW q \in Record, Create(q) PROVE CompleteInv'
  <2>1. \A r \in live : Place(r, live') = Place(r, live)
    BY <1>1, CreatedLast
  <2>2. live \subseteq live' /\ UNCHANGED <<client, listingVars, historyVars>>
    BY <1>1 DEF Create
  <2> QED BY <1>0, <2>1, <2>2 DEF CompleteInv, ListingComplete, Listed
<1>2. ASSUME NEW q \in Record, Update(q) PROVE CompleteInv'
  BY <1>2 DEF Update, CompleteInv, ListingComplete, Listed, Place
<1>3. ASSUME NEW q \in Record, Remove(q) PROVE CompleteInv'
  <2>1. /\ UNCHANGED <<client, listingVars>>
        /\ shrunk' /\ live' = live \ {q}
        /\ moved' = moved \cup {s \in live' : Place(s, live) > offset /\ Place(s, live') <= offset}
    BY <1>3 DEF Remove
  <2>2. ASSUME NEW r \in Record, begun'[r] # 0, r \notin moved'
        PROVE  begun'[r] = begun[r] /\ r \notin moved /\ r \in live'
    <3>1. begun' = [begun EXCEPT ![q] = 0] /\ begun \in [Record -> Nat]
      BY <1>3 DEF Remove, InventoryTypeOK
    <3>2. r # q /\ begun'[r] = begun[r]
      BY <2>2, <3>1
    <3> QED BY <1>0, <2>1, <2>2, <3>2
  <2>3. ASSUME NEW r \in Record, begun'[r] # 0, r \notin moved',
               Place(r, live) > offset
        PROVE  Place(r, live') > offset
    <3>1. ~(Place(r, live') <= offset)
      BY <2>1, <2>2, <2>3
    <3>2. Place(r, live') \in Nat /\ offset \in Nat
      <4>1. live' \in SUBSET Record
        BY <2>1 DEF InventoryTypeOK
      <4> QED BY <4>1, PlaceType DEF InventoryTypeOK
    <3> QED BY <3>1, <3>2
  <2> QED BY <2>1, <2>2, <2>3 DEF CompleteInv, ListingComplete, Place
<1>4. ASSUME NEW q \in Record, Restore(q) PROVE CompleteInv'
  <2>1. /\ UNCHANGED <<client, listingVars, historyVars>>
        /\ client = "snipe_it" /\ live' = live \cup {q}
    BY <1>4 DEF Restore
  <2>2. live' \in SUBSET Record /\ live \in SUBSET live'
    BY <2>1 DEF InventoryTypeOK
  <2>3. ASSUME NEW r \in Record, Place(r, live) > offset PROVE Place(r, live') > offset
    <3>1. Place(r, live) <= Place(r, live')
      BY <2>2, PlaceGrows
    <3>2. Place(r, live) \in Nat /\ Place(r, live') \in Nat /\ offset \in Nat
      BY <2>2, PlaceType DEF InventoryTypeOK
    <3> QED BY <2>3, <3>1, <3>2
  <2> QED BY <2>1, <2>3 DEF CompleteInv, ListingComplete, Place
<1>5. CASE StartRun
  <2>1. /\ pc' # "received" /\ offset' = 0 /\ got' = Nothing /\ live' = live
        /\ \A r \in Record : begun'[r] # 0 => r \in live
    BY <1>5 DEF StartRun
  <2>2. ASSUME NEW r \in Record, begun'[r] # 0 PROVE Place(r, live') > 0
    <3>1. r \in live /\ live' = live /\ live \in SUBSET Record
      BY <2>1, <2>2 DEF InventoryTypeOK
    <3>2. Place(r, live) \in Nat /\ Place(r, live) >= 1
      BY <3>1, PlaceType
    <3> QED BY <3>1, <3>2
  <2> QED BY <2>1, <2>2, NothingListed DEF CompleteInv, ListingComplete, Place
<1>6. CASE Token
  BY <1>6 DEF Token, CompleteInv, ListingComplete, Listed, Place
<1>7. CASE PageArrives /\ pc' \in {"listing", "received"}
  BY <1>7, CompleteAfterPage, CompleteAfterLastPage
<1>8. ASSUME NEW outcome \in Failures, AttemptFails(outcome), ~Fail PROVE CompleteInv'
  BY <1>8 DEF AttemptFails, CompleteInv, ListingComplete, Listed, Place
<1>9. CASE pc' = "idle"
  BY <1>9 DEF CompleteInv, ListingComplete
<1>10. CASE UNCHANGED inventoryVars
  BY <1>10 DEF inventoryVars, CompleteInv, ListingComplete, Listed, Place
<1> QED BY <1>1, <1>2, <1>3, <1>4, <1>5, <1>6, <1>7, <1>8, <1>9, <1>10
        DEF InventoryNext, Progress, PageArrives, AttemptFails, PageUnusable, StoreFails, Abandon,
            Store, HandOver, Fail, EndRun

\* An accepted listing holds every record that was there all the time, but for
\* those a removal moved to a page already read.
THEOREM ListingCorrect == InventorySpec => []ListingComplete
<1>1. InventoryInit => CompleteInv
  BY DEF InventoryInit, CompleteInv, ListingComplete, Listed, Nothing
<1>2. CompleteInv => ListingComplete
  BY DEF CompleteInv
<1> QED BY <1>1, <1>2, InventoryTypeCorrect, VersionInit, VersionStep, CountInit, CountStep,
           CompleteStep, PTL DEF InventorySpec
=============================================================================
