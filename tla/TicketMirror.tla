---------------------------- MODULE TicketMirror ----------------------------
(***************************************************************************)
(* What a table that mirrors a source, tickets or assets, promises its     *)
(* readers: every local row is some version the source really had, it      *)
(* never goes back to an older one, and the watermark of the last          *)
(* successful synchronisation only moves forward, together with the data   *)
(* that it stands for.                                                     *)
(***************************************************************************)
EXTENDS Integers

CONSTANT Ticket

VARIABLES
    version,    \* version[t]: the source's current version of t, 0 if none
    mirror,     \* mirror[t]: the version of t in PostgreSQL, 0 if none
    watermark   \* start time of the last successful synchronisation

mirrorVars == <<version, mirror, watermark>>

Init ==
    /\ version = [t \in Ticket |-> 0]
    /\ mirror = [t \in Ticket |-> 0]
    /\ watermark \in Int

\* The source creates or updates one ticket; the mirror does not notice.
SourceChanges(t) ==
    /\ version' = [version EXCEPT ![t] = version'[t]]
    /\ version'[t] > version[t]
    /\ UNCHANGED <<mirror, watermark>>

\* One transaction publishes any number of newer versions and a watermark.
Publish ==
    /\ watermark' \in Int
    /\ watermark' >= watermark
    /\ DOMAIN mirror' = Ticket
    /\ \A t \in Ticket : mirror[t] <= mirror'[t] /\ mirror'[t] <= version[t]
    /\ UNCHANGED version

Next == Publish \/ \E t \in Ticket : SourceChanges(t)

Spec == Init /\ [][Next]_mirrorVars
=============================================================================
