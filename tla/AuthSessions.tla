---------------------------- MODULE AuthSessions ----------------------------
(***************************************************************************)
(* Login and sessions of one user: the login and logout endpoints,         *)
(* get_auth_context, validate_session_token and the login limit.  Every    *)
(* request runs on a thread of its own with its own database session, so   *)
(* that requests interleave between their queries and commits.             *)
(*                                                                         *)
(* One session row is followed from its login on (further logins of the    *)
(* user make rows of their own and share nothing with it).                 *)
(***************************************************************************)
EXTENDS Integers, Sequences, FiniteSets

CONSTANTS
    Req,          \* request threads
    Idle,         \* session_idle_minutes
    Absolute,     \* session_absolute_hours
    RefreshAfter, \* session_refresh_seconds
    Latency,      \* longest time from a request's clock reading to its commit
    Window,       \* login_window_seconds
    MaxFailures,  \* login_max_failures
    MaxTime,      \* bound: the clock
    MaxSwitches   \* bound: changes of is_active

ASSUME SettingsAssumption ==
    /\ Idle \in Nat \ {0} /\ Absolute \in Nat \ {0} /\ Latency \in Nat
    /\ RefreshAfter \in Nat /\ Window \in Nat /\ MaxFailures \in Nat \ {0}
    /\ MaxTime \in Nat /\ MaxSwitches \in Nat
ASSUME ThreadsAssumption == IsFiniteSet(Req)

VARIABLES
    now,
    active,    \* users.is_active, switched in the database
    switches,
    session,   \* the row of auth_sessions
    failures,  \* created_at of the failed login_attempts, in order
    reqs,      \* the requests under way
    ended,     \* a request has reported the end of the session (history)
    used       \* clock of the latest request that was let in (history)

history == <<ended, used>>
vars == <<now, active, switches, session, failures, reqs, history>>

NoSession == [seen |-> 0, idle |-> 0, absolute |-> 0, revoked |-> FALSE]
NoRequest == [pc |-> "idle", at |-> 0, active |-> FALSE, late |-> FALSE]
Exists == session # NoSession

Done(r) == reqs' = [reqs EXCEPT ![r] = NoRequest]
At(r, pc) == reqs[r].pc = pc

-----------------------------------------------------------------------------
(* POST /api/auth/login *)

InWindow(t) == {i \in DOMAIN failures : failures[i] >= t - Window}
Limited == Cardinality(InWindow(now)) >= MaxFailures

\* Mutated form of RefuseLogin: the refused attempt is recorded as a failure.
RefuseLoginRecorded(r) ==
    /\ At(r, "idle")
    /\ Limited
    /\ failures' = Append(failures, now)
    /\ UNCHANGED <<now, active, switches, session, reqs, history>>

\* 429: only the audit log changes.
RefuseLogin(r) ==
    /\ At(r, "idle")
    /\ Limited
    /\ UNCHANGED vars

\* The limit is checked and the user is read; the password is verified next.
StartLogin(r) ==
    /\ At(r, "idle")
    /\ ~Limited
    /\ reqs' = [reqs EXCEPT ![r] = [NoRequest EXCEPT
                    !.pc = "verifying", !.at = now, !.active = active]]
    /\ UNCHANGED <<now, active, switches, session, failures, history>>

\* A wrong password, an unknown user or an inactive one.
LoginFails(r) ==
    /\ At(r, "verifying")
    /\ failures' = Append(failures, now)
    /\ Done(r)
    /\ UNCHANGED <<now, active, switches, session, history>>

\* create_session, with the user's state as read before the verification.
LoginSucceeds(r) ==
    /\ At(r, "verifying")
    /\ reqs[r].active
    /\ ~Exists
    /\ session' = [seen |-> now, idle |-> now + Idle, absolute |-> now + Absolute,
                   revoked |-> FALSE]
    /\ used' = now
    /\ Done(r)
    /\ UNCHANGED <<now, active, switches, failures, ended>>

-----------------------------------------------------------------------------
(* A request with the session's cookie: get_auth_context *)

\* validate_session_token takes the time ...
Arrive(r) ==
    /\ At(r, "idle")
    /\ Exists
    /\ reqs' = [reqs EXCEPT ![r] = [NoRequest EXCEPT
                    !.pc = "arrived", !.at = now, !.late = ended]]
    /\ UNCHANGED <<now, active, switches, session, failures, history>>

Valid(row, t) == ~row.revoked /\ t < row.absolute /\ t < row.idle
RefreshDue(row, t) == row.seen + RefreshAfter <= t

\* ... and reads the row.
ReadSession(r) ==
    /\ At(r, "arrived")
    /\ IF Valid(session, reqs[r].at)
       THEN reqs' = [reqs EXCEPT ![r].pc =
                        IF RefreshDue(session, reqs[r].at) THEN "refreshing" ELSE "checking"]
       ELSE Done(r)
    /\ UNCHANGED <<now, active, switches, session, failures, history>>

\* Mutated forms of Refreshed: the row is written back as it was read; the
\* new idle limit counts from the previous request.
RefreshedAsRead(row, t) == [row EXCEPT !.seen = t, !.idle = t + Idle, !.revoked = FALSE]
RefreshedFromSeen(row, t) == [row EXCEPT !.seen = t, !.idle = row.seen + Idle]

\* Only the two columns that were assigned are written.
Refreshed(row, t) == [row EXCEPT !.seen = t, !.idle = t + Idle]

CommitRefresh(r) ==
    /\ At(r, "refreshing")
    /\ session' = Refreshed(session, reqs[r].at)
    /\ reqs' = [reqs EXCEPT ![r].pc = "checking"]
    /\ UNCHANGED <<now, active, switches, failures, history>>

Later(t) == IF t > used THEN t ELSE used

\* The user is active, and the endpoint is entered.
LetIn(r) ==
    /\ At(r, "checking")
    /\ active
    /\ used' = Later(reqs[r].at)
    /\ reqs' = [reqs EXCEPT ![r].pc = "inside"]
    /\ UNCHANGED <<now, active, switches, session, failures, ended>>

Revoke == session' = [session EXCEPT !.revoked = TRUE]

\* The user is not active: the session is revoked, 401.
TurnAway(r) ==
    /\ At(r, "checking")
    /\ ~active
    /\ Revoke
    /\ ended' = TRUE
    /\ Done(r)
    /\ UNCHANGED <<now, active, switches, failures, used>>

\* An endpoint that leaves the session alone, such as GET /api/auth/me.
Answer(r) ==
    /\ At(r, "inside")
    /\ Done(r)
    /\ UNCHANGED <<now, active, switches, session, failures, history>>

\* POST /api/auth/logout
Logout(r) ==
    /\ At(r, "inside")
    /\ Revoke
    /\ ended' = TRUE
    /\ Done(r)
    /\ UNCHANGED <<now, active, switches, failures, used>>

-----------------------------------------------------------------------------

Tick ==
    /\ now < MaxTime
    /\ \A r \in Req : ~At(r, "idle") => now < reqs[r].at + Latency
    /\ now' = now + 1
    /\ UNCHANGED <<active, switches, session, failures, reqs, history>>

\* An operator changes is_active in the database.
Switch ==
    /\ switches < MaxSwitches
    /\ switches' = switches + 1
    /\ active' = ~active
    /\ UNCHANGED <<now, session, failures, reqs, history>>

Init ==
    /\ now = 0
    /\ active = TRUE
    /\ switches = 0
    /\ session = NoSession
    /\ failures = <<>>
    /\ reqs = [r \in Req |-> NoRequest]
    /\ ended = FALSE
    /\ used = 0

Next ==
    \/ \E r \in Req :
        \/ RefuseLogin(r) \/ StartLogin(r) \/ LoginFails(r) \/ LoginSucceeds(r)
        \/ Arrive(r) \/ ReadSession(r) \/ CommitRefresh(r)
        \/ LetIn(r) \/ TurnAway(r) \/ Answer(r) \/ Logout(r)
    \/ Tick
    \/ Switch

Spec == Init /\ [][Next]_vars

-----------------------------------------------------------------------------
(* Properties *)

SessionRow == [seen : Nat, idle : Nat, absolute : Nat, revoked : BOOLEAN]

TypeOK ==
    /\ now \in Nat
    /\ active \in BOOLEAN
    /\ switches \in Nat
    /\ session \in SessionRow
    /\ failures \in Seq(Nat)
    /\ reqs \in [Req -> [pc : {"idle", "verifying", "arrived", "refreshing", "checking", "inside"},
                         at : Nat, active : BOOLEAN, late : BOOLEAN]]
    /\ ended \in BOOLEAN
    /\ used \in Nat

\* Once a request has reported the end of the session - a logout, or a 401
\* for an inactive user - no request that comes later gets in with it, also
\* when another one refreshes the row at that moment or the user is active
\* again (validate_session_token, revoke_session).
LogoutIsFinal == \A r \in Req : reqs[r].late => ~At(r, "inside")

\* A session in use does not run out early: after a request at time t it stays
\* valid for the idle time, less the refresh interval or the time a slower
\* request takes to write an older timestamp over a newer one
\* (validate_session_token).
Lost == IF RefreshAfter > Latency THEN RefreshAfter ELSE Latency
StaysSignedIn == Exists => session.idle + Lost >= used + Idle

\* The limit is checked before the password and the failure is recorded after
\* it, so parallel logins can exceed it, but only by one failure per further
\* thread; refused logins do not count (is_login_rate_limited).
FailuresBounded == Cardinality(InWindow(now)) < MaxFailures + Cardinality(Req)
=============================================================================
