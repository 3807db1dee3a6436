-------------------------- MODULE MCPlannedRelocation --------------------------
(* TLC instance of PlannedRelocation.  focus is chosen once: "orders" has two *)
(* calls and no relocation, "plans" relocations and one call.                 *)
EXTENDS PlannedRelocation, MCOrderWorkflow, FiniteSets

VARIABLE focus

MCInit == RelocationInit /\ focus \in {"orders", "plans"}

MCNext ==
  /\ RelocationNext /\ UNCHANGED focus
  /\ \/ focus = "orders" /\ requests' = requests
     \/ /\ focus = "plans"
        /\ \A o \in Orders : doc.models[o] # None => doc'.models[o] # None
        /\ Cardinality({c \in Calls : calls'[c].pc # "new"}) <= 1
        /\ \A c \in Calls : calls'[c].pc # "new" =>
             calls'[c].op \in {"start", "prepare"} /\ calls'[c].cart = "success"
                                                 /\ calls'[c].method = "pmOk"

MCSpec == MCInit /\ [][MCNext]_<<vars, relocationVars, due, focus>> /\ RelocationFairness
=============================================================================
