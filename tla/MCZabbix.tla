------------------------------ MODULE MCZabbix ------------------------------
(***************************************************************************)
(* Model-checks ZabbixCache and ZabbixCollection in one run of TLC: a      *)
(* behaviour is one of either module, and leaves the variables of the      *)
(* other at an initial state.  The two share no variable.                  *)
(***************************************************************************)
EXTENDS ZabbixCache, ZabbixCollection

VARIABLE part  \* the module whose behaviour this is

\* Host 1 has two items for its CPU, of which the idle time is preferred.
MCItemOf ==
    <<[host |-> 1, metric |-> "cpu", mode |-> "idle"],
      [host |-> 1, metric |-> "cpu", mode |-> "used"],
      [host |-> 1, metric |-> "latency", mode |-> "exact"]>>

MCInit ==
    /\ Init
    /\ CollectionInit
    /\ \/ part = "cache"
       \/ part = "collection" /\ configured /\ runs = <<>>

MCNext ==
    /\ UNCHANGED part
    /\ \/ part = "cache" /\ Next /\ UNCHANGED collectionVars
       \/ part = "collection" /\ CollectionNext /\ UNCHANGED vars

MCSpec == MCInit /\ [][MCNext]_<<vars, collectionVars, part>>
=============================================================================
