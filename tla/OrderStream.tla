----------------------------- MODULE OrderStream -----------------------------
(***************************************************************************)
(* The pure part of the ShoppingMall order workflow                        *)
(* (samples/ShoppingMall/Server/Common/workflow_logic.hpp): the append-    *)
(* only event stream of one order, the fold that gives its aggregate, the  *)
(* projection served to readers, and the shared commerce document every    *)
(* process of the sample updates, on which advance_once performs one step. *)
(*                                                                         *)
(* Abstractions: an order id is its sequence number (the formatting        *)
(* "order-%04d" is injective on 1..MaxSequence); a reservation id and a    *)
(* payment id are functions of the order id, so both tables are indexed by *)
(* order; a failure reason is the name of the step that failed; addresses, *)
(* currencies, amounts and timestamps are left out.                        *)
(***************************************************************************)
EXTENDS Integers, Sequences

CONSTANTS
  Keys,          \* idempotency keys chosen by clients
  NoKey,         \* the key of a command that carries none
  Carts,         \* carts present in the seeded document
  Skus,          \* stock keeping units
  Lines,         \* Lines[c][s]: quantity of s in cart c
  Stock,         \* Stock[s]: the seeded available quantity
  Methods,       \* payment method ids a client may name
  Authorizes,    \* Authorizes[m]: the method exists and should authorize
  MaxSequence,   \* order numbers the id format accepts (9999 in the code)
  None           \* an absent JSON member

\* The saved outcome of a reservation or a payment.
Results == {"accepted", "refused"}

ASSUME StreamAssumption ==
  /\ MaxSequence \in Nat
  /\ Lines \in [Carts -> [Skus -> Nat]]
  /\ Stock \in [Skus -> Nat]
  /\ Authorizes \in [Methods -> BOOLEAN]
  /\ NoKey \notin Keys
  /\ None \notin Keys /\ None \notin Carts /\ None \notin Methods
  /\ None \notin Results

Orders == 1..MaxSequence

EventTypes == { "OrderStarted", "InventoryReserved",
                "InventoryReservationFailed", "PaymentAuthorized",
                "PaymentFailed", "InventoryReleased", "OrderConfirmed",
                "OrderFailed" }

\* SourceCommandId: "start:<key>", "continue:<order>", "continue:planned-relocation",
\* or the empty id of the owner's own scheduled continuation.
Commands == [kind : {"start", "continue", "relocation", "none"}, key : Keys \cup {NoKey}]
StartCommand(k) == [kind |-> "start",    key |-> k]
ContinueCommand == [kind |-> "continue", key |-> NoKey]
RelocationCommand == [kind |-> "relocation", key |-> NoKey]
NoCommand       == [kind |-> "none",     key |-> NoKey]

\* A stored event; only OrderStarted carries the request data.
Events == [type : EventTypes, cmd : Commands,
           cart : Carts \cup {None}, method : Methods \cup {None}]

-----------------------------------------------------------------------------
(* The fold.  Every event type overwrites the status, so the status of the *)
(* aggregate is a function of the last event; the reservation, payment and *)
(* reason fields are set by one event type each and never cleared.         *)

\* Mutant: the fold already shows a compensation as its projected status.
MutStatusAfter ==
  [t \in EventTypes |->
     IF t = "OrderStarted" THEN "Created"
     ELSE IF t = "PaymentFailed" THEN "InventoryReserved"
     ELSE IF t = "OrderConfirmed" THEN "Confirmed"
     ELSE IF t = "OrderFailed" THEN "Failed"
     ELSE t]

StatusAfter ==
  [t \in EventTypes |->
     IF t = "OrderStarted" THEN "Created"
     ELSE IF t = "OrderConfirmed" THEN "Confirmed"
     ELSE IF t = "OrderFailed" THEN "Failed"
     ELSE t]

Last(s) == s[Len(s)]

Status(s) == IF s = <<>> THEN "" ELSE StatusAfter[Last(s).type]

Terminal(status) == status \in {"Confirmed", "Failed"}

Occurs(s, t) == \E i \in 1..Len(s) : s[i].type = t

Reason(s) == IF Occurs(s, "InventoryReservationFailed") THEN "inventory"
             ELSE IF Occurs(s, "PaymentFailed") THEN "payment"
             ELSE ""

Statuses == (EventTypes \ {"OrderStarted", "OrderConfirmed", "OrderFailed"})
              \cup {"", "Created", "Confirmed", "Failed"}

\* What readers see of an order.
Models == [status : Statuses, reserved : BOOLEAN, paid : BOOLEAN,
           reason : {"", "inventory", "payment"}]

\* A compensation in progress still reads as the step it compensates.
Projection(s) ==
  [status   |-> IF Status(s) = "InventoryReservationFailed" THEN "Created"
                ELSE IF Status(s) \in {"PaymentFailed", "InventoryReleased"}
                  THEN "InventoryReserved"
                ELSE Status(s),
   reserved |-> Occurs(s, "InventoryReserved"),
   paid     |-> Occurs(s, "PaymentAuthorized"),
   reason   |-> Reason(s)]

-----------------------------------------------------------------------------
(* The commerce document and the effects of one workflow step on it.       *)

EmptyDoc ==
  [next         |-> 0,
   idem         |-> [k \in Keys |-> None],
   events       |-> [o \in Orders |-> <<>>],
   models       |-> [o \in Orders |-> None],
   reservations |-> [o \in Orders |-> None],
   released     |-> {},
   payments     |-> [o \in Orders |-> None],
   inventory    |-> Stock,
   stopAt       |-> {}]

\* Mutant: a read model, once written, is never refreshed.
MutSaveProjection(d, o) ==
  [d EXCEPT !.models[o] = IF @ = None THEN Projection(d.events[o]) ELSE @]

SaveProjection(d, o) == [d EXCEPT !.models[o] = Projection(d.events[o])]

AppendEvent(d, o, e) == [d EXCEPT !.events[o] = Append(@, e)]

\* OrderStarted, the only event with the request's data, and the others.
StartEvent(cmd, cart, method) ==
  [type |-> "OrderStarted", cmd |-> cmd, cart |-> cart, method |-> method]

Event(type, cmd) ==
  [type |-> type, cmd |-> cmd, cart |-> None, method |-> None]

Record(d, o, type, cmd) == AppendEvent(d, o, Event(type, cmd))

\* Every line available, checked before any line is taken.
Available(d, c) == \A s \in Skus : d.inventory[s] >= Lines[c][s]

\* A saved reservation answers a repeated call with its first result.
Reserve(d, o, c) ==
  IF d.reservations[o] # None THEN d
  ELSE [d EXCEPT
          !.reservations[o] = IF Available(d, c) THEN "accepted" ELSE "refused",
          !.inventory = IF Available(d, c)
                          THEN [s \in Skus |-> @[s] - Lines[c][s]]
                          ELSE @]

\* Mutant: the release is not remembered.
MutRelease(d, o, c) ==
  IF d.reservations[o] = None \/ o \in d.released THEN d
  ELSE [d EXCEPT !.inventory = [s \in Skus |-> @[s] + Lines[c][s]]]

\* Releases the saved lines once, whatever the reservation's result was.
Release(d, o, c) ==
  IF d.reservations[o] = None \/ o \in d.released THEN d
  ELSE [d EXCEPT
          !.released  = @ \cup {o},
          !.inventory = [s \in Skus |-> @[s] + Lines[c][s]]]

Authorize(d, o, m) ==
  IF d.payments[o] # None THEN d
  ELSE [d EXCEPT !.payments[o] = IF Authorizes[m] THEN "accepted"
                                    ELSE "refused"]

\* advance_once on an order that exists: the folded status picks the step.
NextStep(d, o, cmd) ==
  LET s      == d.events[o]
      status == Status(s)
      cart   == s[1].cart
      method == s[1].method
      r      == Reserve(d, o, cart)
      p      == Authorize(d, o, method)
  IN  IF status = "Created" THEN
        Record(r, o, IF r.reservations[o] = "accepted"
                     THEN "InventoryReserved"
                     ELSE "InventoryReservationFailed", cmd)
      ELSE IF status = "InventoryReserved" THEN
        Record(p, o, IF p.payments[o] = "accepted"
                     THEN "PaymentAuthorized" ELSE "PaymentFailed", cmd)
      ELSE IF status = "PaymentAuthorized" THEN
        Record(d, o, "OrderConfirmed", cmd)
      ELSE IF status = "PaymentFailed" THEN
        Record(Release(d, o, cart), o, "InventoryReleased", cmd)
      ELSE Record(d, o, "OrderFailed", cmd)

AlreadyApplied(d, o, cmd) ==
  /\ cmd # NoCommand
  /\ \E i \in 1..Len(d.events[o]) : d.events[o][i].cmd = cmd

\* Mutant: the hook is compared with the status after the payment.
MutStopHookReached(d, o) ==
  o \in d.stopAt /\ Status(d.events[o]) = "PaymentAuthorized"

\* The self-check hook holds the loop at InventoryReserved, the only status
\* prepare_inventory_reserved ever asks for.
StopHookReached(d, o) ==
  o \in d.stopAt /\ Status(d.events[o]) = "InventoryReserved"
=============================================================================
