----------------------------- MODULE LeasedStore -----------------------------
(***************************************************************************)
(* redis_state_store_t (samples/ShoppingMall/Server/Common/store.hpp): a   *)
(* JSON document under one Redis key, updated by many processes.  update() *)
(* takes a lock key with SET NX PX 30000, GETs the document, runs the      *)
(* caller's function on the copy, SETs the whole document back and, in the *)
(* lock's destructor, deletes the lock key if it still holds its token.    *)
(* The document is abstracted to the sequence of updates it reflects.      *)
(*                                                                         *)
(* Nothing ties the SET of the document to the lease: a live holder may be *)
(* slower than its 30 s lease and save all the same.                       *)
(*                                                                         *)
(* Bound: a process performs Rounds updates.                               *)
(***************************************************************************)
EXTENDS Integers, Sequences

CONSTANTS
  Writers,
  Rounds,
  NoToken

ASSUME LeaseAssumption ==
  /\ Rounds \in Nat
  /\ NoToken \notin Writers \X (1..Rounds)

\* A lock token is fresh for each acquisition; it also names the update.
Tokens == Writers \X (1..Rounds)

VARIABLES
  saved,    \* the document under the state key
  lease,    \* the value of the lock key
  pc,       \* per process: where its current update is
  round,    \* per process: number of the current update
  copy,     \* per process: the document it loaded
  exposed   \* history: updates under way that had a late one beside them

storeVars == <<saved, lease, pc, round, copy, exposed>>

Token(p) == <<p, round[p]>>

\* Processes between their lock and their SET, and those of them whose lease
\* ran out meanwhile.
Holders == {p \in Writers : pc[p] \in {"locked", "loaded"}}
Late == {p \in Holders : lease # Token(p)}

Open == {Token(p) : p \in Holders}

StoreInit ==
  /\ saved = <<>>
  /\ lease = NoToken
  /\ pc = [p \in Writers |-> "idle"]
  /\ round = [p \in Writers |-> 0]
  /\ copy = [p \in Writers |-> <<>>]
  /\ exposed = {}

BeginUpdate(p) ==
  /\ pc[p] = "idle"
  /\ round[p] < Rounds
  /\ pc' = [pc EXCEPT ![p] = "locking"]
  /\ round' = [round EXCEPT ![p] = @ + 1]
  /\ UNCHANGED <<saved, lease, copy, exposed>>

\* Mutant: SET without NX.
MutAcquire(p) ==
  /\ pc[p] = "locking"
  /\ lease' = Token(p)
  /\ pc' = [pc EXCEPT ![p] = "locked"]
  /\ exposed' = IF Late = {} THEN exposed ELSE exposed \cup {Token(p)}
  /\ UNCHANGED <<saved, round, copy>>

Acquire(p) ==
  /\ pc[p] = "locking"
  /\ lease = NoToken
  /\ lease' = Token(p)
  /\ pc' = [pc EXCEPT ![p] = "locked"]
  /\ exposed' = IF Late = {} THEN exposed ELSE exposed \cup {Token(p)}
  /\ UNCHANGED <<saved, round, copy>>

\* Ten seconds of failed attempts: the constructor throws.
AcquireTimeout(p) ==
  /\ pc[p] = "locking"
  /\ lease # NoToken
  /\ pc' = [pc EXCEPT ![p] = "idle"]
  /\ UNCHANGED <<saved, lease, round, copy, exposed>>

Load(p) ==
  /\ pc[p] = "locked"
  /\ copy' = [copy EXCEPT ![p] = saved]
  /\ pc' = [pc EXCEPT ![p] = "loaded"]
  /\ UNCHANGED <<saved, lease, round, exposed>>

\* The caller's function has run on the copy; the whole document is replaced.
Save(p) ==
  /\ pc[p] = "loaded"
  /\ saved' = Append(copy[p], Token(p))
  /\ pc' = [pc EXCEPT ![p] = "unlocking"]
  /\ exposed' = exposed \ {Token(p)}
  /\ UNCHANGED <<lease, round, copy>>

\* The function, the GET or the SET throws: unlock without a save.
UpdateThrows(p) ==
  /\ pc[p] \in {"locked", "loaded"}
  /\ pc' = [pc EXCEPT ![p] = "unlocking"]
  /\ exposed' = exposed \ {Token(p)}
  /\ UNCHANGED <<saved, lease, round, copy>>

\* The destructor's compare-and-delete; an error is swallowed and the key
\* stays until its lease runs out.
Unlock(p) ==
  /\ pc[p] = "unlocking"
  /\ lease' \in {lease, IF lease = Token(p) THEN NoToken ELSE lease}
  /\ pc' = [pc EXCEPT ![p] = "idle"]
  /\ UNCHANGED <<saved, round, copy, exposed>>

WriterCrash(p) ==
  /\ pc[p] \notin {"idle", "dead"}
  /\ pc' = [pc EXCEPT ![p] = "dead"]
  /\ exposed' = exposed \ {Token(p)}
  /\ UNCHANGED <<saved, lease, round, copy>>

\* PX 30000: Redis drops the key, of a process that crashed or failed to
\* unlock, or of one that is too slow.
Expire ==
  /\ lease # NoToken
  /\ lease' = NoToken
  /\ exposed' = IF lease \in Open THEN exposed \cup Open ELSE exposed
  /\ UNCHANGED <<saved, pc, round, copy>>

WriterStep(p) ==
  \/ BeginUpdate(p) \/ Acquire(p) \/ AcquireTimeout(p) \/ Load(p) \/ Save(p)
  \/ UpdateThrows(p) \/ Unlock(p) \/ WriterCrash(p)

StoreNext == Expire \/ \E p \in Writers : WriterStep(p)

StoreSpec == StoreInit /\ [][StoreNext]_storeVars

-----------------------------------------------------------------------------
\* The shape of the variables.
StoreTypeOK ==
  /\ saved \in Seq(Tokens)
  /\ lease \in Tokens \cup {NoToken}
  /\ pc \in [Writers -> {"idle", "locking", "locked", "loaded", "unlocking",
                           "dead"}]
  /\ round \in [Writers -> 0..Rounds]
  /\ copy \in [Writers -> Seq(Tokens)]
  /\ exposed \subseteq Tokens

\* A holder beside which nobody was late still has the lease, and what it
\* loaded is still the saved document; while one is late all are exposed.
HolderCurrent ==
  /\ exposed \subseteq Open
  /\ Late # {} => Open \subseteq exposed
  /\ \A p \in Holders :
       Token(p) \notin exposed /\ pc[p] = "loaded" => copy[p] = saved

\* The store implements AtomicStore: a SET of the document loses what others
\* saved only if its process, or one beside it, outlived its lease; whatever
\* crashes, exceptions and failed unlocks do, and however many leases ran out
\* before ("Redis state key와 lock key를 사용해 모든 server process가 같은
\* state를 읽고 쓴다", the porting inventory, on the lossless order store).
Atomic == INSTANCE AtomicStore WITH
  Updates <- Tokens, applied <- saved, open <- Open,
  late <- {Token(p) : p \in Late}
SerializedUpdates == Atomic!Spec
=============================================================================
