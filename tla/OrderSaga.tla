------------------------------ MODULE OrderSaga ------------------------------
(***************************************************************************)
(* What the order workflow of ShoppingMall promises, without its document, *)
(* owners, drafts, timers and retries (samples/ShoppingMall/Server/Common/ *)
(* workflow_logic.hpp): a key places one order; an order goes one of three *)
(* courses, chosen by the stock when it is reserved and by the payment     *)
(* method; its lines leave the stock with the reservation and come back    *)
(* with the release; an order that is held is not charged.  One update may *)
(* carry an order several events further, and never more than one order.   *)
(***************************************************************************)
EXTENDS Integers, Sequences

CONSTANTS Orders, Keys, Carts, Skus, Lines, Stock, Methods, Authorizes, None

VARIABLES
  history,  \* per order: the types of its events
  request,  \* per order: its key, cart and payment method
  stock,    \* what is available of each stock keeping unit
  held      \* the orders a hook stops at their reservation

sagaVars == <<history, request, stock, held>>

Sold    == <<"OrderStarted", "InventoryReserved", "PaymentAuthorized", "OrderConfirmed">>
Refused == <<"OrderStarted", "InventoryReserved", "PaymentFailed", "InventoryReleased",
             "OrderFailed">>
NoStock == <<"OrderStarted", "InventoryReservationFailed", "OrderFailed">>

Init ==
  /\ history = [o \in Orders |-> <<>>]
  /\ request = [o \in Orders |-> None]
  /\ stock = Stock
  /\ held = {}

Place(o, k, cart, method) ==
  /\ history[o] = <<>>
  /\ \A q \in Orders : history[q] # <<>> => request[q].key # k
  /\ history' = [history EXCEPT ![o] = <<"OrderStarted">>]
  /\ request' = [request EXCEPT ![o] = [key |-> k, cart |-> cart, method |-> method]]
  /\ UNCHANGED <<stock, held>>

\* The orders that course c is open to.
Goes(o, c) ==
  /\ Len(history[o]) <= Len(c) /\ \A i \in 1..Len(history[o]) : history[o][i] = c[i]
  /\ Len(history[o]) = 1 =>
       (c # NoStock <=> \A s \in Skus : stock[s] >= Lines[request[o].cart][s])
  /\ c # NoStock => (c = Sold <=> Authorizes[request[o].method])

\* The lines order o has of s after n events of course c.
Has(o, c, n, s) ==
  IF c # NoStock /\ n >= 2 /\ ~(c = Refused /\ n >= 4) THEN Lines[request[o].cart][s] ELSE 0

Advance(o) ==
  LET i == Len(history[o]) IN
  \E c \in {Sold, Refused, NoStock} : \E j \in i + 1 .. Len(c) :
    /\ i > 0 /\ Goes(o, c)
    /\ o \in held /\ i <= 2 /\ c # NoStock => j <= 2
    /\ history' = [history EXCEPT ![o] = SubSeq(c, 1, j)]
    /\ stock' = [s \in Skus |-> stock[s] + Has(o, c, i, s) - Has(o, c, j, s)]
    /\ UNCHANGED <<request, held>>

\* The self-check hook.
Hold(o) == held' = held \cup {o} /\ UNCHANGED <<history, request, stock>>
LetGo(o) == held' = held \ {o} /\ UNCHANGED <<history, request, stock>>

Next == \E o \in Orders :
  \/ \E k \in Keys, cart \in Carts, m \in Methods : Place(o, k, cart, m)
  \/ Advance(o) \/ Hold(o) \/ LetGo(o)

Spec == Init /\ [][Next]_sagaVars
=============================================================================
