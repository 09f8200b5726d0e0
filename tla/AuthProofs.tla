----------------------------- MODULE AuthProofs -----------------------------
(***************************************************************************)
(* Proofs about login, sessions and users: the types, that the end of a   *)
(* session is final, that a session in use does not run out early, by how *)
(* much parallel logins can exceed the limit, and that creations of a user *)
(* leave one row and a log that agrees with every answer.                  *)
(***************************************************************************)
EXTENDS AuthSessions, UserAdmin, TLAPS, FiniteSetTheorems

\* The variables keep their types.
THEOREM TypeCorrect == Spec => []TypeOK
<1> USE SettingsAssumption
<1>1. Init => TypeOK
  <2> SUFFICES ASSUME Init PROVE TypeOK
    OBVIOUS
  <2>1. failures \in Seq(Nat)
    BY DEF Init
  <2>2. session \in SessionRow
    BY DEF Init, NoSession, SessionRow
  <2> QED BY <2>1, <2>2 DEF Init, TypeOK, NoRequest
<1>2. TypeOK /\ [Next]_vars => TypeOK'
  <2> SUFFICES ASSUME TypeOK, [Next]_vars PROVE TypeOK'
    OBVIOUS
  <2> USE DEF TypeOK, SessionRow, history
  <2>1. ASSUME NEW r \in Req, StartLogin(r) PROVE TypeOK'
    BY <2>1 DEF StartLogin, NoRequest
  <2>2. ASSUME NEW r \in Req, LoginFails(r) PROVE TypeOK'
    BY <2>2 DEF LoginFails, Done, NoRequest
  <2>3. ASSUME NEW r \in Req, LoginSucceeds(r) PROVE TypeOK'
    BY <2>3 DEF LoginSucceeds, Done, NoRequest
  <2>4. ASSUME NEW r \in Req, Arrive(r) PROVE TypeOK'
    BY <2>4 DEF Arrive, NoRequest
  <2>5. ASSUME NEW r \in Req, ReadSession(r) PROVE TypeOK'
    <3>1. CASE Valid(session, reqs[r].at)
      <4>1. PICK p \in {"refreshing", "checking"} : reqs' = [reqs EXCEPT ![r].pc = p]
        BY <2>5, <3>1 DEF ReadSession
      <4> QED BY <2>5, <4>1 DEF ReadSession
    <3>2. CASE ~Valid(session, reqs[r].at)
      <4>1. reqs' = [reqs EXCEPT ![r] = NoRequest]
        BY <2>5, <3>2 DEF ReadSession, Done
      <4> QED BY <2>5, <4>1 DEF ReadSession, NoRequest
    <3> QED BY <3>1, <3>2
  <2>6. ASSUME NEW r \in Req, CommitRefresh(r) PROVE TypeOK'
    <3>1. session' \in SessionRow
      <4>1. reqs[r].at \in Nat /\ reqs[r].at + Idle \in Nat
        OBVIOUS
      <4> HIDE DEF TypeOK
      <4>2. session' = [session EXCEPT !.seen = reqs[r].at, !.idle = reqs[r].at + Idle]
        BY <2>6 DEF CommitRefresh, Refreshed
      <4> QED BY <4>1, <4>2 DEF TypeOK
    <3> QED BY <2>6, <3>1 DEF CommitRefresh
  <2>7. ASSUME NEW r \in Req, LetIn(r) PROVE TypeOK'
    BY <2>7 DEF LetIn, Later
  <2>8. ASSUME NEW r \in Req, TurnAway(r) PROVE TypeOK'
    BY <2>8 DEF TurnAway, Done, NoRequest, Revoke
  <2>9. ASSUME NEW r \in Req, Answer(r) PROVE TypeOK'
    BY <2>9 DEF Answer, Done, NoRequest
  <2>10. ASSUME NEW r \in Req, Logout(r) PROVE TypeOK'
    BY <2>10 DEF Logout, Done, NoRequest, Revoke
  <2>11. CASE Tick
    BY <2>11 DEF Tick
  <2>12. CASE Switch
    BY <2>12 DEF Switch
  <2>13. CASE UNCHANGED vars
    BY <2>13 DEF vars
  <2> QED BY <2>1, <2>2, <2>3, <2>4, <2>5, <2>6, <2>7, <2>8, <2>9, <2>10,
             <2>11, <2>12, <2>13 DEF Next, RefuseLogin
<1> QED BY <1>1, <1>2, PTL DEF Spec

-----------------------------------------------------------------------------
(* The end of a session is final *)

\* A reported end is in the row, and a request that came after it has not got
\* past the reading of the row.
EndInv ==
    /\ ended => session.revoked
    /\ \A r \in Req : reqs[r].late => ended /\ At(r, "arrived")

\* After a reported end of the session no later request gets in with it.
THEOREM EndCorrect == Spec => []LogoutIsFinal
<1>1. Init => EndInv
  BY DEF Init, EndInv, NoRequest
<1>2. TypeOK /\ EndInv /\ [Next]_vars => EndInv'
  <2> SUFFICES ASSUME TypeOK, EndInv, [Next]_vars PROVE EndInv'
    OBVIOUS
  <2> USE DEF TypeOK, SessionRow, EndInv, At, history
  <2>1. ASSUME NEW r \in Req, StartLogin(r) PROVE EndInv'
    BY <2>1 DEF StartLogin, NoRequest
  <2>2. ASSUME NEW r \in Req, LoginFails(r) PROVE EndInv'
    BY <2>2 DEF LoginFails, Done, NoRequest
  <2>3. ASSUME NEW r \in Req, LoginSucceeds(r) PROVE EndInv'
    <3>1. ~session.revoked
      BY <2>3 DEF LoginSucceeds, Exists, NoSession
    <3> QED BY <2>3, <3>1 DEF LoginSucceeds, Done, NoRequest
  <2>4. ASSUME NEW r \in Req, Arrive(r) PROVE EndInv'
    BY <2>4 DEF Arrive, NoRequest
  <2>5. ASSUME NEW r \in Req, ReadSession(r) PROVE EndInv'
    <3>1. CASE Valid(session, reqs[r].at)
      <4>1. ~reqs[r].late
        BY <3>1 DEF Valid
      <4> QED BY <2>5, <3>1, <4>1 DEF ReadSession
    <3>2. CASE ~Valid(session, reqs[r].at)
      BY <2>5, <3>2 DEF ReadSession, Done, NoRequest
    <3> QED BY <3>1, <3>2
  <2>6. ASSUME NEW r \in Req, CommitRefresh(r) PROVE EndInv'
    BY <2>6 DEF CommitRefresh, Refreshed
  <2>7. ASSUME NEW r \in Req, LetIn(r) PROVE EndInv'
    BY <2>7 DEF LetIn
  <2>8. ASSUME NEW r \in Req, TurnAway(r) PROVE EndInv'
    BY <2>8 DEF TurnAway, Done, NoRequest, Revoke
  <2>9. ASSUME NEW r \in Req, Answer(r) PROVE EndInv'
    BY <2>9 DEF Answer, Done, NoRequest
  <2>10. ASSUME NEW r \in Req, Logout(r) PROVE EndInv'
    BY <2>10 DEF Logout, Done, NoRequest, Revoke
  <2>11. CASE Tick \/ Switch \/ UNCHANGED vars
    BY <2>11 DEF Tick, Switch, vars
  <2> QED BY <2>1, <2>2, <2>3, <2>4, <2>5, <2>6, <2>7, <2>8, <2>9, <2>10,
             <2>11 DEF Next, RefuseLogin, vars
<1>3. EndInv => LogoutIsFinal
  BY DEF EndInv, LogoutIsFinal, At
<1> QED BY <1>1, <1>2, <1>3, TypeCorrect, PTL DEF Spec

-----------------------------------------------------------------------------
(* A session in use does not run out early *)

Fresh == session.idle = session.seen + Idle

\* The idle limit follows the time of the last request seen, which is behind
\* that of any request let in, or about to be, by at most Lost: a request
\* that commits read the clock at most Latency ago.
UseInv ==
    /\ Exists => Fresh
    /\ used <= now
    /\ session.seen + Lost >= used
    /\ \A r \in Req :
        /\ ~At(r, "idle") => reqs[r].at <= now /\ now <= reqs[r].at + Latency
        /\ reqs[r].pc \in {"arrived", "refreshing", "checking", "inside"} => Fresh
        /\ At(r, "checking") => session.seen + Lost >= reqs[r].at

\* A session stays valid for the idle time after its last use, less Lost.
THEOREM UseCorrect == Spec => []StaysSignedIn
<1> USE SettingsAssumption
<1> USE DEF Lost
<1>1. Init => UseInv
  BY DEF Init, UseInv, NoRequest, NoSession, At, Exists
<1>2. TypeOK /\ UseInv /\ [Next]_vars => UseInv'
  <2> SUFFICES ASSUME TypeOK, UseInv, [Next]_vars PROVE UseInv'
    OBVIOUS
  <2> USE DEF TypeOK, SessionRow, UseInv, At, Fresh, history
  <2>1. ASSUME NEW r \in Req, StartLogin(r) PROVE UseInv'
    BY <2>1 DEF StartLogin, NoRequest, Exists
  <2>2. ASSUME NEW r \in Req, LoginFails(r) PROVE UseInv'
    BY <2>2 DEF LoginFails, Done, NoRequest, Exists
  <2>3. ASSUME NEW r \in Req, LoginSucceeds(r) PROVE UseInv'
    BY <2>3 DEF LoginSucceeds, Done, NoRequest
  <2>4. ASSUME NEW r \in Req, Arrive(r) PROVE UseInv'
    BY <2>4 DEF Arrive, NoRequest, Exists
  <2>5. ASSUME NEW r \in Req, ReadSession(r) PROVE UseInv'
    <3>1. CASE Valid(session, reqs[r].at) /\ RefreshDue(session, reqs[r].at)
      BY <2>5, <3>1 DEF ReadSession, Exists
    <3>2. CASE Valid(session, reqs[r].at) /\ ~RefreshDue(session, reqs[r].at)
      <4>1. session.seen + Lost >= reqs[r].at
        BY <3>2 DEF RefreshDue
      <4> QED BY <2>5, <3>2, <4>1 DEF ReadSession, Exists
    <3>3. CASE ~Valid(session, reqs[r].at)
      <4>1. reqs' = [reqs EXCEPT ![r] = NoRequest]
        BY <2>5, <3>3 DEF ReadSession, Done
      <4> QED BY <2>5, <4>1 DEF ReadSession, NoRequest, Exists
    <3> QED BY <3>1, <3>2, <3>3
  <2>6. ASSUME NEW r \in Req, CommitRefresh(r) PROVE UseInv'
    <3>1. /\ session'.seen = reqs[r].at
          /\ session'.idle = reqs[r].at + Idle
      BY <2>6 DEF CommitRefresh, Refreshed
    <3>2. \A q \in Req : reqs'[q].at = reqs[q].at
      BY <2>6 DEF CommitRefresh
    <3>3. now <= reqs[r].at + Latency /\ reqs[r].at <= now
      BY <2>6 DEF CommitRefresh
    <3>4. \A q \in Req : reqs'[q].pc = IF q = r THEN "checking" ELSE reqs[q].pc
      BY <2>6 DEF CommitRefresh
    <3>5. used' = used /\ now' = now /\ At(r, "refreshing")
      BY <2>6 DEF CommitRefresh
    <3>6. Lost \in Nat /\ Lost >= Latency /\ reqs[r].at \in Nat
      OBVIOUS
    <3>7. /\ Exists' => Fresh'
          /\ used' <= now'
          /\ session'.seen + Lost >= used'
      BY <3>1, <3>3, <3>5, <3>6
    <3>8. ASSUME NEW q \in Req
          PROVE  /\ reqs'[q].pc # "idle" => reqs'[q].at <= now' /\ now' <= reqs'[q].at + Latency
                 /\ Fresh'
                 /\ reqs'[q].pc = "checking" => session'.seen + Lost >= reqs'[q].at
      <4>1. reqs[q].pc # "idle" => reqs[q].at <= now /\ now <= reqs[q].at + Latency
        OBVIOUS
      <4>2. reqs[q].at \in Nat /\ reqs'[q].at = reqs[q].at
        BY <3>2
      <4>3. reqs'[q].pc # "idle" => reqs[q].pc # "idle"
        BY <3>4, <3>5
      <4> QED BY <4>1, <4>2, <4>3, <3>1, <3>3, <3>5, <3>6
    <3> QED BY <3>7, <3>8
  <2>7. ASSUME NEW r \in Req, LetIn(r) PROVE UseInv'
    BY <2>7 DEF LetIn, Later, Exists
  <2>8. ASSUME NEW r \in Req, TurnAway(r) PROVE UseInv'
    BY <2>8 DEF TurnAway, Done, NoRequest, Revoke
  <2>9. ASSUME NEW r \in Req, Answer(r) PROVE UseInv'
    BY <2>9 DEF Answer, Done, NoRequest, Exists
  <2>10. ASSUME NEW r \in Req, Logout(r) PROVE UseInv'
    BY <2>10 DEF Logout, Done, NoRequest, Revoke
  <2>11. CASE Tick
    BY <2>11 DEF Tick, Exists
  <2>12. CASE Switch \/ UNCHANGED vars
    BY <2>12 DEF Switch, vars, Exists
  <2> QED BY <2>1, <2>2, <2>3, <2>4, <2>5, <2>6, <2>7, <2>8, <2>9, <2>10,
             <2>11, <2>12 DEF Next, RefuseLogin, vars
<1>3. TypeOK /\ UseInv => StaysSignedIn
  BY DEF TypeOK, SessionRow, UseInv, Fresh, StaysSignedIn
<1> QED BY <1>1, <1>2, <1>3, TypeCorrect, PTL DEF Spec

-----------------------------------------------------------------------------
(* The login limit *)

Verifying == {r \in Req : At(r, "verifying")}

\* An admitted attempt counts from the moment it passes the check.
LimitInv == Cardinality(InWindow(now)) + Cardinality(Verifying) < MaxFailures + Cardinality(Req)

\* The sets that are counted are finite.
LEMMA CountsAreNat ==
    ASSUME TypeOK
    PROVE  /\ IsFiniteSet(InWindow(now)) /\ Cardinality(InWindow(now)) \in Nat
           /\ IsFiniteSet(Verifying) /\ Cardinality(Verifying) \in Nat
           /\ Cardinality(Verifying) <= Cardinality(Req) /\ Cardinality(Req) \in Nat
<1>1. IsFiniteSet(DOMAIN failures)
  <2>1. DOMAIN failures = 1 .. Len(failures) /\ Len(failures) \in Nat
    BY DEF TypeOK
  <2> QED BY <2>1, FS_Interval
<1>2. IsFiniteSet(InWindow(now))
  BY <1>1, FS_Subset DEF InWindow
<1>3. IsFiniteSet(Verifying) /\ Cardinality(Verifying) <= Cardinality(Req)
  <2>1. Verifying \in SUBSET Req
    BY DEF Verifying
  <2> QED BY <2>1, FS_Subset, ThreadsAssumption
<1> QED BY <1>2, <1>3, FS_CardinalityType, ThreadsAssumption

\* A step that admits nobody and records nothing keeps the invariant.
LEMMA QuietStep ==
    ASSUME TypeOK, TypeOK', LimitInv,
           InWindow(now)' \subseteq InWindow(now), Verifying' \subseteq Verifying
    PROVE  LimitInv'
<1>1. /\ Cardinality(InWindow(now)') <= Cardinality(InWindow(now))
      /\ Cardinality(Verifying') <= Cardinality(Verifying)
  BY CountsAreNat, FS_Subset
<1>2. /\ Cardinality(InWindow(now)') \in Nat /\ Cardinality(Verifying') \in Nat
  <2>1. IsFiniteSet(InWindow(now)') /\ IsFiniteSet(Verifying')
    BY CountsAreNat, FS_Subset
  <2> QED BY <2>1, FS_CardinalityType
<1> QED BY <1>1, <1>2, CountsAreNat, SettingsAssumption DEF LimitInv

\* However many logins run in parallel, the failures in the window stay below
\* the limit plus the number of threads (auth/service.py,
\* is_login_rate_limited; auth/router.py, login).
THEOREM LimitCorrect == Spec => []FailuresBounded
<1>1. Init => LimitInv
  <2> SUFFICES ASSUME Init PROVE LimitInv
    OBVIOUS
  <2>1. InWindow(now) = {} /\ Verifying = {}
    BY DEF Init, InWindow, Verifying, At, NoRequest
  <2>2. Cardinality(Req) \in Nat
    BY FS_CardinalityType, ThreadsAssumption
  <2> QED BY <2>1, <2>2, FS_EmptySet, SettingsAssumption DEF LimitInv
<1>2. TypeOK /\ TypeOK' /\ LimitInv /\ [Next]_vars => LimitInv'
  <2> SUFFICES ASSUME TypeOK, TypeOK', LimitInv, [Next]_vars PROVE LimitInv'
    OBVIOUS
  <2>1. reqs \in [Req -> [pc : {"idle", "verifying", "arrived", "refreshing", "checking", "inside"},
                          at : Nat, active : BOOLEAN, late : BOOLEAN]]
    BY DEF TypeOK
  <2>2. ASSUME UNCHANGED <<now, failures>> PROVE InWindow(now)' = InWindow(now)
    BY <2>2 DEF InWindow
  <2>3. ASSUME UNCHANGED reqs PROVE Verifying' = Verifying
    BY <2>3 DEF Verifying, At
  <2>4. ASSUME NEW r \in Req, StartLogin(r) PROVE LimitInv'
    <3>1. Cardinality(InWindow(now)') < MaxFailures
      <4>1. Cardinality(InWindow(now)) < MaxFailures
        BY <2>4, CountsAreNat, SettingsAssumption DEF StartLogin, Limited
      <4> QED BY <2>2, <2>4, <4>1 DEF StartLogin
    <3>2. /\ Cardinality(InWindow(now)') \in Nat /\ Cardinality(Verifying') \in Nat
          /\ Cardinality(Verifying') <= Cardinality(Req) /\ Cardinality(Req) \in Nat
      <4>1. IsFiniteSet(InWindow(now)')
        BY <2>2, <2>4, CountsAreNat DEF StartLogin
      <4>2. Verifying' \in SUBSET Req
        BY DEF Verifying
      <4> QED BY <4>1, <4>2, FS_Subset, FS_CardinalityType, ThreadsAssumption
    <3> QED BY <3>1, <3>2, SettingsAssumption DEF LimitInv
  <2>5. ASSUME NEW r \in Req, LoginFails(r) PROVE LimitInv'
    <3>1. Verifying' = Verifying \ {r} /\ r \in Verifying
      BY <2>1, <2>5 DEF LoginFails, Done, NoRequest, Verifying, At
    <3>2. InWindow(now)' \subseteq InWindow(now) \cup {Len(failures) + 1}
      <4>1. failures \in Seq(Nat) /\ failures' = Append(failures, now) /\ now' = now
        BY <2>5 DEF LoginFails, TypeOK
      <4>2. \A i \in DOMAIN failures' : i # Len(failures) + 1
                => i \in DOMAIN failures /\ failures'[i] = failures[i]
        BY <4>1
      <4> QED BY <4>1, <4>2 DEF InWindow
    <3>3. Cardinality(Verifying') = Cardinality(Verifying) - 1
      BY <3>1, CountsAreNat, FS_RemoveElement
    <3>4. Cardinality(InWindow(now)') <= Cardinality(InWindow(now)) + 1 /\ Cardinality(InWindow(now)') \in Nat
      <4>1. /\ IsFiniteSet(InWindow(now) \cup {Len(failures) + 1})
            /\ Cardinality(InWindow(now) \cup {Len(failures) + 1}) <= Cardinality(InWindow(now)) + 1
            /\ Cardinality(InWindow(now) \cup {Len(failures) + 1}) \in Nat
        <5>1. /\ IsFiniteSet(InWindow(now)) /\ Cardinality(InWindow(now)) \in Nat
          BY CountsAreNat
        <5> DEFINE S == InWindow(now)
                   x == Len(failures) + 1
        <5> HIDE DEF S, x
        <5>2. IsFiniteSet(S) /\ Cardinality(S) \in Nat
          BY <5>1 DEF S
        <5>3. IsFiniteSet(S \cup {x})
              /\ Cardinality(S \cup {x}) = IF x \in S THEN Cardinality(S) ELSE Cardinality(S) + 1
          BY <5>2, FS_AddElement
        <5>4. /\ IsFiniteSet(S \cup {x}) /\ Cardinality(S \cup {x}) <= Cardinality(S) + 1
              /\ Cardinality(S \cup {x}) \in Nat
          BY <5>2, <5>3
        <5> QED BY <5>4 DEF S, x
      <4>2. IsFiniteSet(InWindow(now)') /\ Cardinality(InWindow(now)')
                <= Cardinality(InWindow(now) \cup {Len(failures) + 1})
        BY <3>2, <4>1, FS_Subset
      <4>3. Cardinality(InWindow(now)') \in Nat
        BY <4>2, FS_CardinalityType
      <4> QED BY <4>1, <4>2, <4>3, CountsAreNat
    <3> QED BY <3>3, <3>4, CountsAreNat, SettingsAssumption DEF LimitInv
  \* The other steps of a request admit nobody.
  <2>6. ASSUME NEW r \in Req,
               LoginSucceeds(r) \/ Arrive(r) \/ ReadSession(r) \/ CommitRefresh(r)
                   \/ LetIn(r) \/ TurnAway(r) \/ Answer(r) \/ Logout(r)
        PROVE  LimitInv'
    <3>1. UNCHANGED <<now, failures>>
      BY <2>6 DEF LoginSucceeds, Arrive, ReadSession, CommitRefresh, LetIn, TurnAway, Answer, Logout
    <3>2. /\ \A q \in Req \ {r} : reqs'[q] = reqs[q]
          /\ reqs'[r].pc # "verifying"
      <4>1. CASE LoginSucceeds(r) \/ TurnAway(r) \/ Answer(r) \/ Logout(r)
        BY <2>1, <4>1 DEF LoginSucceeds, TurnAway, Answer, Logout, Done, NoRequest
      <4>2. CASE Arrive(r)
        BY <2>1, <4>2 DEF Arrive, NoRequest
      <4>3. CASE ReadSession(r)
        BY <2>1, <4>3 DEF ReadSession, Done, NoRequest
      <4>4. CASE CommitRefresh(r) \/ LetIn(r)
        BY <2>1, <4>4 DEF CommitRefresh, LetIn
      <4> QED BY <2>6, <4>1, <4>2, <4>3, <4>4
    <3>3. Verifying' \subseteq Verifying
      BY <3>2 DEF Verifying, At
    <3> QED BY <2>2, <3>1, <3>3, QuietStep
  <2>7. CASE Tick
    <3>1. InWindow(now)' \subseteq InWindow(now)
      <4>1. now' = now + 1 /\ UNCHANGED failures
        BY <2>7 DEF Tick
      <4>2. \A i \in DOMAIN failures : failures[i] \in Nat
        BY DEF TypeOK
      <4> QED BY <4>1, <4>2, SettingsAssumption DEF InWindow, TypeOK
    <3> QED BY <2>3, <2>7, <3>1, QuietStep DEF Tick
  <2>8. CASE Switch \/ UNCHANGED vars
    <3>1. UNCHANGED <<now, failures, reqs>>
      BY <2>8 DEF Switch, vars
    <3> QED BY <2>2, <2>3, <3>1, QuietStep
  <2> QED BY <2>4, <2>5, <2>6, <2>7, <2>8 DEF Next, RefuseLogin
<1>3. TypeOK /\ LimitInv => FailuresBounded
  BY CountsAreNat, SettingsAssumption DEF LimitInv, FailuresBounded
<1> QED BY <1>1, <1>2, <1>3, TypeCorrect, PTL DEF Spec

-----------------------------------------------------------------------------
(* The creation of users *)

\* Somebody who leaves was at no name in particular.
LEMMA NoCreationType == NoCreation.step = "none" /\ NoCreation.name \in Name
BY NamesAssumption DEF NoCreation

\* Counting an event changes one number, by one.
LEMMA CountedOnce ==
    ASSUME NEW f \in [Name -> [Verdicts -> Nat]], NEW n \in Name, NEW outcome \in Verdicts
    PROVE  /\ Counted(f, n, outcome) \in [Name -> [Verdicts -> Nat]]
           /\ \A m \in Name, o \in Verdicts :
                Counted(f, n, outcome)[m][o]
                    = IF m = n /\ o = outcome THEN f[m][o] + 1 ELSE f[m][o]
BY DEF Counted

\* The same, for either outcome.
LEMMA CreatedCounted ==
    ASSUME NEW f \in [Name -> [Verdicts -> Nat]], NEW n \in Name
    PROVE  \A m \in Name : /\ Counted(f, n, "created")[m].created
                                = IF m = n THEN f[m].created + 1 ELSE f[m].created
                           /\ Counted(f, n, "created")[m].duplicate = f[m].duplicate
BY DEF Counted, Verdicts

\* A duplicate is counted for its name only.
LEMMA DuplicateCounted ==
    ASSUME NEW f \in [Name -> [Verdicts -> Nat]], NEW n \in Name
    PROVE  \A m \in Name : /\ Counted(f, n, "duplicate")[m].created = f[m].created
                           /\ Counted(f, n, "duplicate")[m].duplicate
                                = IF m = n THEN f[m].duplicate + 1 ELSE f[m].duplicate
BY DEF Counted, Verdicts

\* A creator that moves or leaves is at another step, for the same name or none.
LEMMA MovesType ==
    ASSUME UserAdminTypeOK, NEW c \in Creator, NEW step, Moves(c, step)
    PROVE  /\ DOMAIN creations' = Creator
           /\ creations'[c].step = step /\ creations'[c].name = creations[c].name
           /\ \A d \in Creator \ {c} : creations'[d] = creations[d]
BY DEF Moves, UserAdminTypeOK

\* A creator that has left has no step, and the others stay where they are.
LEMMA LeavesType ==
    ASSUME UserAdminTypeOK, NEW c \in Creator, Leaves(c)
    PROVE  /\ creations'[c].step = "none"
           /\ \A d \in Creator \ {c} : creations'[d] = creations[d]
BY NoCreationType DEF Leaves, UserAdminTypeOK

Steps == {"none", "looking", "hashed", "inserted", "created", "duplicate", "recorded"}

\* Every step keeps the types.
LEMMA UserAdminTypeStep == UserAdminTypeOK /\ [UserAdminNext]_userAdminVars => UserAdminTypeOK'
<1> SUFFICES ASSUME UserAdminTypeOK, [UserAdminNext]_userAdminVars PROVE UserAdminTypeOK'
  OBVIOUS
<1> USE DEF UserAdminTypeOK, databaseVars, Doing
<1>0. NoCreation \in [step : {"none"}, name : Name]
  BY NamesAssumption DEF NoCreation
<1>1. ASSUME NEW c \in Creator, NEW spelling \in Spelling, Ask(c, spelling) PROVE UserAdminTypeOK'
  <2>1. Stored[spelling] \in SUBSET Name
    BY NamesAssumption
  <2> QED BY <1>1, <2>1 DEF Ask
<1>2. ASSUME NEW c \in Creator, Look(c) PROVE UserAdminTypeOK'
  <2>1. told' \in [Name -> [Verdicts -> Nat]]
    BY <1>2, CountedOnce DEF Look, Tells, Verdicts
  <2>2. creations' \in [Creator -> [step : Steps, name : Name]]
    <3>1. CASE \E step \in {"hashed", "duplicate"} : Moves(c, step)
      BY <3>1 DEF Moves, Steps
    <3>2. CASE Leaves(c)
      BY <1>0, <3>2 DEF Leaves, Steps
    <3> QED BY <1>2, <3>1, <3>2 DEF Look, Tells
  <2> QED BY <1>2, <2>1, <2>2 DEF Look, Steps, Tells
<1>3. ASSUME NEW c \in Creator, Insert(c) \/ InsertRefused(c) PROVE UserAdminTypeOK'
  <2>1. CASE Insert(c)
    <3>1. creations' \in [Creator -> [step : Steps, name : Name]]
      BY <2>1 DEF Insert, Moves, Steps
    <3> QED BY <2>1, <3>1 DEF Insert, Steps
  <2>2. CASE InsertRefused(c)
    <3>1. CASE c \in Endpoint
      <4>1. creations' \in [Creator -> [step : Steps, name : Name]]
        BY <2>2, <3>1 DEF InsertRefused, Moves, Steps
      <4> QED BY <2>2, <4>1 DEF InsertRefused, Steps
    <3>2. CASE c \notin Endpoint
      <4>1. creations' \in [Creator -> [step : Steps, name : Name]]
        BY <1>0, <2>2, <3>2 DEF InsertRefused, Leaves, Steps
      <4> QED BY <2>2, <4>1 DEF InsertRefused, Steps
    <3> QED BY <3>1, <3>2
  <2> QED BY <1>3, <2>1, <2>2
<1>4. ASSUME NEW c \in Creator, Commit(c) PROVE UserAdminTypeOK'
  <2>1. audit' \in [Name -> [Verdicts -> Nat]]
    BY <1>4, CountedOnce DEF Commit, Verdicts
  <2> QED BY <1>4, <2>1 DEF Commit, Moves
<1>5. ASSUME NEW c \in Creator, RecordDuplicate(c) PROVE UserAdminTypeOK'
  <2>1. audit' \in [Name -> [Verdicts -> Nat]]
    BY <1>5, CountedOnce DEF RecordDuplicate, Verdicts
  <2> QED BY <1>5, <2>1 DEF RecordDuplicate, Moves
<1>6. ASSUME NEW c \in Creator, Reply(c) PROVE UserAdminTypeOK'
  <2>1. told' \in [Name -> [Verdicts -> Nat]]
    BY <1>6, CountedOnce DEF Reply, Tells, Verdicts
  <2> QED BY <1>0, <1>6, <2>1 DEF Reply, Tells, Leaves
<1>7. ASSUME NEW c \in Creator, CreationFails(c) PROVE UserAdminTypeOK'
  BY <1>0, <1>7 DEF CreationFails, Leaves
<1>8. CASE UNCHANGED userAdminVars
  BY <1>8 DEF userAdminVars
<1> QED BY <1>1, <1>2, <1>3, <1>4, <1>5, <1>6, <1>7, <1>8 DEF UserAdminNext

\* The variables keep their types.
THEOREM UserAdminTypeCorrect == UserAdminSpec => []UserAdminTypeOK
<1>1. UserAdminInit => UserAdminTypeOK
  <2> SUFFICES ASSUME UserAdminInit PROVE UserAdminTypeOK
    OBVIOUS
  <2>1. Nobody \in [Verdicts -> Nat]
    BY DEF Nobody, Verdicts
  <2>2. NoCreation \in [step : {"none"}, name : Name]
    BY NamesAssumption DEF NoCreation
  <2> QED BY <2>1, <2>2 DEF UserAdminInit, UserAdminTypeOK
<1> QED BY <1>1, UserAdminTypeStep, PTL DEF UserAdminSpec

\* The row of a name and its event belong together, and what is told or about
\* to be told is in the log.
Recorded(n) == {c \in Creator : Doing(c, "recorded") /\ creations[c].name = n}

AuditInv ==
    \A n \in Name :
        /\ rows[n] <= 1 /\ audit[n].created = rows[n]
        /\ told[n].created <= rows[n]
        /\ told[n].duplicate + Cardinality(Recorded(n)) <= audit[n].duplicate
        /\ audit[n].duplicate > 0 => rows[n] = 1

\* At most one creation of a name has inserted the row and not ended; it has not
\* told so yet.  A duplicate has a row to be a duplicate of.
Holds(c) == Doing(c, "inserted") \/ Doing(c, "created")

CreatorInv ==
    /\ \A c \in Creator :
        /\ Doing(c, "inserted") => rows[creations[c].name] = 0
        /\ Doing(c, "created") =>
            rows[creations[c].name] = 1 /\ (c \in Endpoint => told[creations[c].name].created = 0)
        /\ Doing(c, "duplicate") \/ Doing(c, "recorded") => rows[creations[c].name] = 1
    /\ \A c, d \in Creator :
        Holds(c) /\ Holds(d) /\ creations[c].name = creations[d].name => c = d

\* Whoever is at another step counts only if it is "recorded".
LEMMA RecordedFinite == \A n : IsFiniteSet(Recorded(n)) /\ Cardinality(Recorded(n)) \in Nat
<1>1. IsFiniteSet(Creator)
  BY CreatorsAssumption DEF Creator
<1>2. \A n : Recorded(n) \in SUBSET Creator
  BY DEF Recorded
<1> QED BY <1>1, <1>2, FS_Subset, FS_CardinalityType

\* A creator that was not "recorded" and is not afterwards does not count.
LEMMA RecordedSame ==
    ASSUME NEW c \in Creator,
           \A d \in Creator \ {c} : creations'[d] = creations[d],
           ~Doing(c, "recorded"), ~Doing(c, "recorded")'
    PROVE  \A n : Recorded(n)' = Recorded(n)
BY DEF Recorded, Doing

\* One that stops being "recorded" counts no more for its name.
LEMMA RecordedLess ==
    ASSUME NEW c \in Creator,
           \A d \in Creator \ {c} : creations'[d] = creations[d],
           ~Doing(c, "recorded")'
    PROVE  \A n : /\ Recorded(n)' = Recorded(n) \ {c}
                  /\ Cardinality(Recorded(n)')
                        = IF c \in Recorded(n) THEN Cardinality(Recorded(n)) - 1
                                               ELSE Cardinality(Recorded(n))
<1>1. \A n : Recorded(n)' = Recorded(n) \ {c}
  BY DEF Recorded, Doing
<1> QED BY <1>1, RecordedFinite, FS_RemoveElement

\* One that becomes "recorded" counts for its name.
LEMMA RecordedMore ==
    ASSUME NEW c \in Creator,
           \A d \in Creator \ {c} : creations'[d] = creations[d],
           ~Doing(c, "recorded"), Doing(c, "recorded")'
    PROVE  \A n : Cardinality(Recorded(n)')
                    = IF n = creations'[c].name THEN Cardinality(Recorded(n)) + 1
                                                ELSE Cardinality(Recorded(n))
<1>1. \A n : Recorded(n)' = IF n = creations'[c].name THEN Recorded(n) \cup {c} ELSE Recorded(n)
  BY DEF Recorded, Doing
<1>2. \A n : c \notin Recorded(n)
  BY DEF Recorded
<1> QED BY <1>1, <1>2, RecordedFinite, FS_AddElement

-----------------------------------------------------------------------------

\* Every step keeps the creators apart and true.
LEMMA CreatorStep ==
    UserAdminTypeOK /\ AuditInv /\ CreatorInv /\ [UserAdminNext]_userAdminVars => CreatorInv'
<1> SUFFICES ASSUME UserAdminTypeOK, AuditInv, CreatorInv, [UserAdminNext]_userAdminVars
             PROVE  CreatorInv'
  OBVIOUS
<1> USE DEF CreatorInv, Holds, Doing, databaseVars
<1>0. /\ \A c \in Creator : creations[c].name \in Name
      /\ \A n \in Name : rows[n] \in {0, 1}
  <2>1. \A n \in Name : rows[n] \in Nat /\ rows[n] <= 1
    BY DEF AuditInv, UserAdminTypeOK
  <2>2. \A n \in Name : rows[n] \in {0, 1}
    BY <2>1
  <2> QED BY <2>2 DEF UserAdminTypeOK
<1>1. ASSUME NEW c \in Creator, NEW spelling \in Spelling, Ask(c, spelling) PROVE CreatorInv'
  <2>1. /\ creations'[c].step = "looking" /\ UNCHANGED <<rows, told>>
        /\ \A d \in Creator \ {c} : creations'[d] = creations[d]
    BY <1>1 DEF Ask, UserAdminTypeOK
  <2> QED BY <2>1
<1>2. ASSUME NEW c \in Creator, Look(c) PROVE CreatorInv'
  <2>1. /\ \A d \in Creator \ {c} : creations'[d] = creations[d]
        /\ UNCHANGED <<rows, told>>
        /\ \/ creations'[c].step \in {"hashed", "none"}
           \/ /\ creations'[c].step = "duplicate" /\ creations'[c].name = creations[c].name
              /\ rows[creations[c].name] # 0
    BY <1>2, MovesType, LeavesType DEF Look, Tells, Creator
  <2>2. rows[creations[c].name] # 0 => rows[creations[c].name] = 1
    BY <1>0
  <2> QED BY <2>1, <2>2
<1>3. ASSUME NEW c \in Creator, Insert(c) PROVE CreatorInv'
  <2>1. /\ creations'[c].step = "inserted" /\ creations'[c].name = creations[c].name
        /\ \A d \in Creator \ {c} : creations'[d] = creations[d]
        /\ UNCHANGED <<rows, told>>
        /\ rows[creations[c].name] = 0
    BY <1>3, MovesType DEF Insert
  <2>2. \A d \in Creator : Holds(d) => creations[d].name # creations[c].name
    BY <1>3, <2>1 DEF Insert, Waits
  <2> QED BY <2>1, <2>2
<1>4. ASSUME NEW c \in Creator, InsertRefused(c) PROVE CreatorInv'
  <2>1. /\ creations'[c].step \in {"duplicate", "none"}
        /\ creations'[c].step = "duplicate" => creations'[c].name = creations[c].name
        /\ \A d \in Creator \ {c} : creations'[d] = creations[d]
        /\ UNCHANGED <<rows, told>>
    BY <1>4, MovesType, LeavesType DEF InsertRefused
  <2>2. rows[creations[c].name] = 1
    BY <1>0, <1>4 DEF InsertRefused
  <2> QED BY <2>1, <2>2
<1>5. ASSUME NEW c \in Creator, Commit(c) PROVE CreatorInv'
  <2> DEFINE n == creations[c].name
  <2>1. /\ creations'[c].step = "created" /\ creations'[c].name = n
        /\ \A d \in Creator \ {c} : creations'[d] = creations[d]
        /\ UNCHANGED told /\ creations[c].step = "inserted" /\ n \in Name
    BY <1>0, <1>5, MovesType DEF Commit
  <2>2. \A m \in Name : rows'[m] = IF m = n THEN 1 ELSE rows[m]
    BY <1>5, <2>1 DEF Commit, UserAdminTypeOK
  <2>3. told[n].created = 0
    BY <2>1 DEF AuditInv, UserAdminTypeOK, Verdicts
  <2>4. \A d \in Creator \ {c} : Doing(d, "inserted") => creations[d].name # n
    BY <2>1
  <2> QED BY <1>0, <2>1, <2>2, <2>3, <2>4
<1>6. ASSUME NEW c \in Creator, RecordDuplicate(c) PROVE CreatorInv'
  <2>1. /\ creations'[c].step = "recorded" /\ creations'[c].name = creations[c].name
        /\ \A d \in Creator \ {c} : creations'[d] = creations[d]
        /\ UNCHANGED <<rows, told>> /\ creations[c].step = "duplicate"
    BY <1>6, MovesType DEF RecordDuplicate
  <2> QED BY <2>1
<1>7. ASSUME NEW c \in Creator, Reply(c) PROVE CreatorInv'
  <2>1. /\ creations'[c].step = "none"
        /\ \A d \in Creator \ {c} : creations'[d] = creations[d]
        /\ UNCHANGED rows
    BY <1>7, LeavesType DEF Reply, Tells
  <2>2. ASSUME NEW d \in Creator \ {c}, Doing(d, "created")
        PROVE  told'[creations[d].name].created = told[creations[d].name].created
    <3>1. CASE Doing(c, "created")
      <4>1. creations[d].name # creations[c].name
        BY <2>2, <3>1
      <4> QED BY <1>0, <1>7, <3>1, <4>1, CountedOnce
              DEF Reply, Tells, Verdicts, UserAdminTypeOK
    <3>2. CASE Doing(c, "recorded")
      BY <1>0, <1>7, <3>2, CountedOnce DEF Reply, Tells, Verdicts, UserAdminTypeOK
    <3> QED BY <1>7, <3>1, <3>2 DEF Reply
  <2> QED BY <2>1, <2>2
<1>8. ASSUME NEW c \in Creator, CreationFails(c) PROVE CreatorInv'
  <2>1. /\ creations'[c].step = "none"
        /\ \A d \in Creator \ {c} : creations'[d] = creations[d]
        /\ UNCHANGED <<rows, told>>
    BY <1>8, LeavesType DEF CreationFails
  <2> QED BY <2>1
<1>9. CASE UNCHANGED userAdminVars
  BY <1>9 DEF userAdminVars
<1> QED BY <1>1, <1>2, <1>3, <1>4, <1>5, <1>6, <1>7, <1>8, <1>9 DEF UserAdminNext

\* Every step keeps the log true.
LEMMA AuditStep ==
    UserAdminTypeOK /\ AuditInv /\ CreatorInv /\ [UserAdminNext]_userAdminVars => AuditInv'
<1> SUFFICES ASSUME UserAdminTypeOK, AuditInv, CreatorInv, [UserAdminNext]_userAdminVars
             PROVE  AuditInv'
  OBVIOUS
<1> USE DEF AuditInv, databaseVars
<1>0. /\ \A c \in Creator : creations[c].name \in Name
      /\ \A n : Cardinality(Recorded(n)) \in Nat
      /\ \A n \in Name : /\ rows[n] \in Nat
                         /\ audit[n].created \in Nat /\ audit[n].duplicate \in Nat
                         /\ told[n].created \in Nat /\ told[n].duplicate \in Nat
  BY RecordedFinite DEF UserAdminTypeOK, Verdicts
<1>1. ASSUME UNCHANGED <<rows, audit, told>>,
             \A n : Cardinality(Recorded(n)') <= Cardinality(Recorded(n)),
             \A n : Cardinality(Recorded(n)') \in Nat
      PROVE  AuditInv'
  BY <1>0, <1>1
<1>2. ASSUME NEW c \in Creator, UNCHANGED <<rows, audit, told>>,
             \A d \in Creator \ {c} : creations'[d] = creations[d],
             creations'[c].step # "recorded"
      PROVE  AuditInv'
  <2>1. \A n : Cardinality(Recorded(n)') \in {Cardinality(Recorded(n)), Cardinality(Recorded(n)) - 1}
    BY <1>2, RecordedLess DEF Doing
  <2>2. \A n : Cardinality(Recorded(n)') <= Cardinality(Recorded(n))
    BY <1>0, <2>1
  <2>3. \A n : Cardinality(Recorded(n)') \in Nat
    <3>1. IsFiniteSet(Creator)
      BY CreatorsAssumption DEF Creator
    <3>2. \A n : Recorded(n)' \in SUBSET Creator
      BY DEF Recorded
    <3> QED BY <3>1, <3>2, FS_Subset, FS_CardinalityType
  <2> QED BY <1>1, <1>2, <2>2, <2>3
<1>3. ASSUME NEW c \in Creator, NEW spelling \in Spelling, Ask(c, spelling) PROVE AuditInv'
  <2>1. /\ creations'[c].step = "looking"
        /\ \A d \in Creator \ {c} : creations'[d] = creations[d]
    BY <1>3 DEF Ask, UserAdminTypeOK
  <2> QED BY <1>2, <1>3, <2>1 DEF Ask
<1>4. ASSUME NEW c \in Creator, Look(c) \/ Insert(c) \/ InsertRefused(c) \/ CreationFails(c)
      PROVE  AuditInv'
  <2>1. /\ creations'[c].step # "recorded"
        /\ \A d \in Creator \ {c} : creations'[d] = creations[d]
        /\ UNCHANGED <<rows, audit, told>>
    BY <1>4, MovesType, LeavesType
       DEF Look, Tells, Insert, InsertRefused, CreationFails, Creator
  <2> QED BY <1>2, <2>1
<1>5. ASSUME NEW c \in Creator, Commit(c) PROVE AuditInv'
  <2> DEFINE n == creations[c].name
  <2>1. /\ n \in Name /\ rows[n] = 0 /\ UNCHANGED told
    BY <1>0, <1>5 DEF Commit, CreatorInv
  <2>2. \A m : Recorded(m)' = Recorded(m)
    BY <1>5, MovesType, RecordedSame DEF Commit, Doing
  <2>3. \A m \in Name : rows'[m] = IF m = n THEN 1 ELSE rows[m]
    BY <1>5, <2>1 DEF Commit, UserAdminTypeOK
  <2>4. \A m \in Name : /\ audit'[m].created = IF m = n THEN audit[m].created + 1
                                                       ELSE audit[m].created
                        /\ audit'[m].duplicate = audit[m].duplicate
    BY <1>5, <2>1, CreatedCounted DEF Commit, UserAdminTypeOK
  <2> QED BY <1>0, <2>1, <2>2, <2>3, <2>4
<1>6. ASSUME NEW c \in Creator, RecordDuplicate(c) PROVE AuditInv'
  <2> DEFINE n == creations[c].name
  <2>1. n \in Name /\ rows[n] = 1 /\ UNCHANGED <<rows, told>>
    BY <1>0, <1>6 DEF RecordDuplicate, CreatorInv
  <2>2. \A m : Cardinality(Recorded(m)') = IF m = n THEN Cardinality(Recorded(m)) + 1
                                                   ELSE Cardinality(Recorded(m))
    BY <1>6, MovesType, RecordedMore DEF RecordDuplicate, Doing
  <2>3. \A m \in Name : /\ audit'[m].created = audit[m].created
                        /\ audit'[m].duplicate = IF m = n THEN audit[m].duplicate + 1
                                                         ELSE audit[m].duplicate
    BY <1>6, <2>1, DuplicateCounted DEF RecordDuplicate, UserAdminTypeOK
  <2> QED BY <1>0, <2>1, <2>2, <2>3
<1>7. ASSUME NEW c \in Creator, Reply(c) PROVE AuditInv'
  <2> DEFINE n == creations[c].name
  <2>1. /\ n \in Name /\ creations'[c].step = "none"
        /\ \A d \in Creator \ {c} : creations'[d] = creations[d]
        /\ UNCHANGED <<rows, audit>>
    BY <1>0, <1>7, LeavesType DEF Reply, Tells
  <2>2. CASE UNCHANGED told
    BY <1>2, <2>1, <2>2
  <2>3. CASE Doing(c, "created") /\ c \in Endpoint
    <3>1. told[n].created = 0 /\ rows[n] = 1
      BY <2>3 DEF CreatorInv
    <3>2. \A m \in Name : /\ told'[m].created = IF m = n THEN told[m].created + 1
                                                        ELSE told[m].created
                          /\ told'[m].duplicate = told[m].duplicate
      <4>1. told' = Counted(told, n, "created")
        BY <1>7, <2>3 DEF Reply, Tells, Doing
      <4> QED BY <2>1, <4>1, CreatedCounted DEF UserAdminTypeOK
    <3>3. \A m : Recorded(m)' = Recorded(m)
      BY <2>1, <2>3, RecordedSame DEF Doing
    <3> QED BY <1>0, <2>1, <3>1, <3>2, <3>3
  <2>4. CASE Doing(c, "recorded") /\ c \in Endpoint
    <3>1. \A m \in Name : /\ told'[m].created = told[m].created
                          /\ told'[m].duplicate = IF m = n THEN told[m].duplicate + 1
                                                          ELSE told[m].duplicate
      <4>1. told' = Counted(told, n, "duplicate")
        BY <1>7, <2>4 DEF Reply, Tells, Doing
      <4> QED BY <2>1, <4>1, DuplicateCounted DEF UserAdminTypeOK
    <3>2. \A m \in Name : Cardinality(Recorded(m)') = IF m = n THEN Cardinality(Recorded(m)) - 1
                                                             ELSE Cardinality(Recorded(m))
      <4>1. \A m \in Name : c \in Recorded(m) <=> m = n
        BY <2>4 DEF Recorded
      <4>2. ~Doing(c, "recorded")'
        BY <2>1 DEF Doing
      <4> QED BY <2>1, <4>1, <4>2, RecordedLess
    <3> QED BY <1>0, <2>1, <3>1, <3>2
  <2> QED BY <1>7, <2>2, <2>3, <2>4 DEF Reply, Tells
<1>8. CASE UNCHANGED userAdminVars
  BY <1>8 DEF userAdminVars, Recorded, Doing
<1> QED BY <1>3, <1>4, <1>5, <1>6, <1>7, <1>8 DEF UserAdminNext

\* One row and one event for a name, whoever creates it at the same time, and
\* nobody is told what the log does not show.
THEOREM CreationsCorrect == UserAdminSpec => []CreationsAudited
<1>1. UserAdminInit => AuditInv /\ CreatorInv
  <2> SUFFICES ASSUME UserAdminInit PROVE AuditInv /\ CreatorInv
    OBVIOUS
  <2>1. \A c \in Creator : creations[c].step = "none"
    BY NoCreationType DEF UserAdminInit
  <2>2. \A n : Recorded(n) = {}
    BY <2>1 DEF Recorded, Doing
  <2>3. \A n : Cardinality(Recorded(n)) = 0
    BY <2>2, FS_EmptySet
  <2>4. AuditInv
    BY <2>3 DEF UserAdminInit, AuditInv, Nobody
  <2>5. CreatorInv
    BY <2>1 DEF CreatorInv, Holds, Doing
  <2> QED BY <2>4, <2>5
<1>2. UserAdminTypeOK /\ AuditInv => CreationsAudited
  <2> SUFFICES ASSUME UserAdminTypeOK, AuditInv, NEW n \in Name
               PROVE  /\ rows[n] <= 1 /\ audit[n].created = rows[n]
                      /\ told[n].created <= audit[n].created
                      /\ told[n].duplicate <= audit[n].duplicate
                      /\ audit[n].duplicate > 0 => rows[n] = 1
    BY DEF CreationsAudited, Verdicts
  <2>1. /\ Cardinality(Recorded(n)) \in Nat
        /\ audit[n].duplicate \in Nat /\ told[n].duplicate \in Nat
    BY RecordedFinite DEF UserAdminTypeOK, Verdicts
  <2> QED BY <2>1 DEF AuditInv
<1> QED BY <1>1, <1>2, UserAdminTypeCorrect, CreatorStep, AuditStep, PTL DEF UserAdminSpec
=============================================================================
