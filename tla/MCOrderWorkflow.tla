--------------------------- MODULE MCOrderWorkflow ---------------------------
(* TLC instances of OrderWorkflow. *)
EXTENDS OrderWorkflow, TLC

MCSkus == {"ok", "rare"}
MCCarts == {"success", "inventoryFail"}
\* The seeded carts hold one line each; the seeded stock is cut from 100 to 1
\* so that the second order finds it empty.
MCLines == [c \in MCCarts |->
  IF c = "success" THEN [ok |-> 1, rare |-> 0] ELSE [ok |-> 0, rare |-> 1]]
MCStock == [ok |-> 1, rare |-> 0]
MCMethods == {"pmOk", "pmDecline"}
MCAuthorizes == [m \in MCMethods |-> m = "pmOk"]

\* Keys and calls are interchangeable.
MCSymmetry == Permutations(Keys) \cup Permutations(Calls)
=============================================================================
