----------------------------- MODULE UserAdmin -----------------------------
(***************************************************************************)
(* Creating users: POST /api/admin/users and the create-admin command.     *)
(* Both look whether the name is taken, insert the row and commit it       *)
(* together with an event of the audit log; the unique index on            *)
(* users.username decides between two that looked at the same time.  The   *)
(* endpoint turns its verdict into an answer, the command does not.        *)
(***************************************************************************)
EXTENDS Integers, FiniteSets

CONSTANTS
    Endpoint,     \* threads that serve the endpoint
    Command,      \* runs of the command
    Spelling,     \* usernames as they are typed
    Name,         \* usernames as they are stored
    Stored,       \* normalize_username: what is stored of a spelling, if anything
    MaxCreations, \* bound: creations begun
    MaxCreationFaults \* bound: failures of the database, ends of a process

ASSUME CreatorsAssumption == IsFiniteSet(Endpoint \cup Command) /\ Endpoint \cap Command = {}
ASSUME NamesAssumption == Name # {} /\ Stored \in [Spelling -> SUBSET Name]
ASSUME CreationBoundsAssumption == MaxCreations \in Nat /\ MaxCreationFaults \in Nat

Creator == Endpoint \cup Command

VARIABLES
    rows,       \* rows of users, by name
    audit,      \* events of the audit log, by name and outcome
    creations,  \* what each creator is at
    begun,      \* counts the creations, to bound them
    crashed,    \* counts the failures, to bound them
    told        \* answers of the endpoint, by name and outcome (history)

databaseVars == <<rows, audit>>
userAdminVars == <<databaseVars, creations, begun, crashed, told>>

NoCreation == [step |-> "none", name |-> CHOOSE n \in Name : TRUE]
Nobody == [created |-> 0, duplicate |-> 0]

Doing(c, step) == creations[c].step = step
Moves(c, step) == creations' = [creations EXCEPT ![c].step = step]
Leaves(c) == creations' = [creations EXCEPT ![c] = NoCreation]
Counted(f, n, outcome) == [f EXCEPT ![n][outcome] = @ + 1]

\* The endpoint answers 201 or 409; the command prints and returns 0 or 1.
Tells(c, outcome) ==
    /\ Leaves(c)
    /\ told' = IF c \in Endpoint THEN Counted(told, creations[c].name, outcome) ELSE told

-----------------------------------------------------------------------------

\* An administrator is signed in, or an operator has typed a password twice.  An
\* empty name and a short password end here with 422 or 2; anyone else gets 403.
Ask(c, spelling) ==
    /\ Doing(c, "none")
    /\ begun < MaxCreations
    /\ c \in Endpoint => \E n \in Name : rows[n] > 0
    /\ \E n \in Stored[spelling] :
        creations' = [creations EXCEPT ![c] = [step |-> "looking", name |-> n]]
    /\ begun' = begun + 1
    /\ UNCHANGED <<databaseVars, crashed, told>>

\* The name is looked up, and the password is hashed.
Look(c) ==
    /\ Doing(c, "looking")
    /\ IF rows[creations[c].name] = 0
       THEN Moves(c, "hashed") /\ UNCHANGED told
       ELSE IF c \in Endpoint
       THEN Moves(c, "duplicate") /\ UNCHANGED told
       ELSE Tells(c, "duplicate")
    /\ UNCHANGED <<databaseVars, begun, crashed>>

\* The index makes an INSERT wait for another of the same name that is not
\* committed yet ...
Waits(c) == \E d \in Creator : Doing(d, "inserted") /\ creations[d].name = creations[c].name

Insert(c) ==
    /\ Doing(c, "hashed")
    /\ ~Waits(c)
    /\ rows[creations[c].name] = 0
    /\ Moves(c, "inserted")
    /\ UNCHANGED <<databaseVars, begun, crashed, told>>

\* ... and refuses it when that one is: the endpoint rolls back; the command
\* ends with the exception, and says nothing.
InsertRefused(c) ==
    /\ Doing(c, "hashed")
    /\ ~Waits(c)
    /\ rows[creations[c].name] > 0
    /\ IF c \in Endpoint THEN Moves(c, "duplicate") ELSE Leaves(c)
    /\ UNCHANGED <<databaseVars, begun, crashed, told>>

\* The row and its event are in one transaction.
Commit(c) ==
    /\ Doing(c, "inserted")
    /\ rows' = [rows EXCEPT ![creations[c].name] = @ + 1]
    /\ audit' = Counted(audit, creations[c].name, "created")
    /\ Moves(c, "created")
    /\ UNCHANGED <<begun, crashed, told>>

\* Mutated form of RecordDuplicate: the event is added and not committed.
RecordDuplicateUncommitted(c) ==
    /\ Doing(c, "duplicate")
    /\ Moves(c, "recorded")
    /\ UNCHANGED <<databaseVars, begun, crashed, told>>

\* _record_duplicate, in a transaction of its own
RecordDuplicate(c) ==
    /\ Doing(c, "duplicate")
    /\ audit' = Counted(audit, creations[c].name, "duplicate")
    /\ Moves(c, "recorded")
    /\ UNCHANGED <<rows, begun, crashed, told>>

Reply(c) ==
    /\ \/ Doing(c, "created") /\ Tells(c, "created")
       \/ Doing(c, "recorded") /\ Tells(c, "duplicate")
    /\ UNCHANGED <<databaseVars, begun, crashed>>

\* The database fails or the process ends at any point: what is not committed
\* is rolled back, and nobody is told.
CreationFails(c) ==
    /\ ~Doing(c, "none")
    /\ crashed < MaxCreationFaults
    /\ crashed' = crashed + 1
    /\ Leaves(c)
    /\ UNCHANGED <<databaseVars, begun, told>>

-----------------------------------------------------------------------------

UserAdminInit ==
    /\ rows = [n \in Name |-> 0]
    /\ audit = [n \in Name |-> Nobody]
    /\ creations = [c \in Creator |-> NoCreation]
    /\ begun = 0
    /\ crashed = 0
    /\ told = [n \in Name |-> Nobody]

UserAdminNext ==
    \E c \in Creator :
        \/ \E spelling \in Spelling : Ask(c, spelling)
        \/ Look(c) \/ Insert(c) \/ InsertRefused(c) \/ Commit(c)
        \/ RecordDuplicate(c) \/ Reply(c) \/ CreationFails(c)

UserAdminSpec == UserAdminInit /\ [][UserAdminNext]_userAdminVars

-----------------------------------------------------------------------------
(* Properties *)

Verdicts == {"created", "duplicate"}

UserAdminTypeOK ==
    /\ rows \in [Name -> Nat]
    /\ audit \in [Name -> [Verdicts -> Nat]] /\ told \in [Name -> [Verdicts -> Nat]]
    /\ creations \in [Creator ->
            [step : {"none", "looking", "hashed", "inserted", "created", "duplicate", "recorded"},
             name : Name]]
    /\ begun \in Nat /\ crashed \in Nat

\* Whoever creates a name at the same time, however it is spelled, and wherever
\* one of them fails: the name has one row at most and the audit log one event
\* for that row, the log shows every creation the endpoint has answered with 201
\* or 409, and it shows a duplicate only where there is a user (create_user,
\* _record_duplicate, _create_admin).
CreationsAudited ==
    \A n \in Name :
        /\ rows[n] <= 1
        /\ audit[n].created = rows[n]
        /\ \A outcome \in Verdicts : told[n][outcome] <= audit[n][outcome]
        /\ audit[n].duplicate > 0 => rows[n] = 1
=============================================================================
