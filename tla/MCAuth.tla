------------------------------- MODULE MCAuth -------------------------------
(***************************************************************************)
(* Model-checks AuthSessions and UserAdmin in one run of TLC: a behaviour  *)
(* is one of either module, and leaves the variables of the other at their *)
(* initial state.  The two share no variable.                              *)
(***************************************************************************)
EXTENDS AuthSessions, UserAdmin

VARIABLE part  \* the module whose behaviour this is

\* One name in two spellings, a blank one and another name.
MCSpelling == {"Ann", "ann", " ", "bob"}
MCStored ==
    [s \in MCSpelling |->
        IF s = " " THEN {} ELSE IF s = "Ann" THEN {"ann"} ELSE {s}]

MCInit == Init /\ UserAdminInit /\ part \in {"sessions", "users"}

MCNext ==
    /\ UNCHANGED part
    /\ \/ part = "sessions" /\ Next /\ UNCHANGED userAdminVars
       \/ part = "users" /\ UserAdminNext /\ UNCHANGED vars

MCSpec == MCInit /\ [][MCNext]_<<vars, userAdminVars, part>>
=============================================================================
