----------------------------- MODULE AtomicStore -----------------------------
(***************************************************************************)
(* What redis_state_store_t::update promises its callers                   *)
(* (samples/ShoppingMall/Server/Common/store.hpp, "무손실 저장소": updates *)
(* are serialised and none is lost): each update is one indivisible        *)
(* read-modify-write of the shared document, unless an update outlives the *)
(* lease of its lock.  Then that one, and those under way beside it, are   *)
(* exposed: they may write over what was saved since they loaded.  Updates *)
(* that begin when it is over are safe again.  The document is represented *)
(* by the sequence of updates it has absorbed.                             *)
(***************************************************************************)
EXTENDS Sequences

CONSTANT Updates   \* every update any process may perform

VARIABLES
  applied,   \* the updates the saved document reflects, in order
  open,      \* the updates that took the lock and are not saved yet
  late,      \* those of them that outlived their lease
  exposed    \* those of them that were under way while one was late

atomicVars == <<applied, open, late, exposed>>

Init == applied = <<>> /\ open = {} /\ late = {} /\ exposed = {}

Begin(u) ==
  /\ open' = open \cup {u}
  /\ exposed' = IF late = {} THEN exposed ELSE exposed \cup {u}
  /\ UNCHANGED <<applied, late>>

Lapse(u) ==
  /\ u \in open
  /\ late' = late \cup {u}
  /\ exposed' = exposed \cup open
  /\ UNCHANGED <<applied, open>>

Leave(u) ==
  /\ u \in open
  /\ open' = open \ {u} /\ late' = late \ {u} /\ exposed' = exposed \ {u}

\* The update is saved, on top of everything saved before it or, when it is
\* exposed, on top of what it loaded.
Update(u) ==
  /\ Leave(u)
  /\ IF u \in exposed
     THEN applied' # <<>> /\ applied'[Len(applied')] = u
     ELSE applied' = Append(applied, u)

\* The update throws, or its process ends.
Drop(u) == Leave(u) /\ UNCHANGED applied

Next == \E u \in Updates : Begin(u) \/ Lapse(u) \/ Update(u) \/ Drop(u)

Spec == Init /\ [][Next]_atomicVars

\* What is left to say when no update is ever late: none is lost.
Lossless == [][\E u \in Updates : applied' = Append(applied, u)]_applied
=============================================================================
