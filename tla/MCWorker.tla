------------------------------ MODULE MCWorker ------------------------------
(***************************************************************************)
(* Model-checks Worker and InventoryListing in one run of TLC: a behaviour *)
(* is one of either module, and leaves the variables of the other at an    *)
(* initial state.  The two share no variable.                              *)
(***************************************************************************)
EXTENDS Worker, InventoryListing

VARIABLE part  \* the module whose behaviour this is

mcVars == <<vars, inventoryVars, part>>

MCInit ==
    /\ Init
    /\ InventoryInit
    /\ \/ part = "worker" /\ client = "wazuh"
       \/ part = "listing" /\ configured = Source

InWorker(A) == part = "worker" /\ A /\ UNCHANGED <<inventoryVars, part>>
InListing(A) == part = "listing" /\ A /\ UNCHANGED <<vars, part>>

MCNext == InWorker(Next) \/ InListing(InventoryNext)

\* The fairness of FairSpec and of FairInventorySpec.
MCSpec ==
    /\ MCInit /\ [][MCNext]_mcVars
    /\ \A s \in Source :
        /\ WF_mcVars(InWorker(Begin(s)))
        /\ WF_mcVars(InWorker(Wake(s)))
        /\ WF_mcVars(InWorker(\E e \in Errors : End(s, e)))
    /\ WF_mcVars(InWorker(Restart))
    /\ WF_mcVars(InListing(Progress))

\* The liveness of each module, in its own behaviours.
LoopsGoOn == part = "worker" => EveryLoopGoesOn
ListingsCatchUp == part = "listing" => InventoryCaughtUp
=============================================================================
