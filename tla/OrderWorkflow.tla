---------------------------- MODULE OrderWorkflow ----------------------------
(***************************************************************************)
(* The ShoppingMall sample: CommerceApi processes accept client calls over *)
(* HTTP (samples/ShoppingMall/Server/CommerceApi/main.cpp) and route them  *)
(* to the Instance Spot that owns the order (Server/OrderWorkflow/         *)
(* main.cpp), which advances an event-sourced saga kept in one Redis       *)
(* document (Server/Common/workflow_logic.hpp, store.hpp).                 *)
(*                                                                         *)
(* Every redis_state_store_t::update is a read-modify-write of the whole   *)
(* document under one lock.  The short updates of the API are one atomic   *)
(* step taken while the lock is free; the workflow loop is taken apart:    *)
(* lock and load (the draft), one step per advance_once, save and unlock,  *)
(* and what the handler does afterwards (timer, close, reply), so that a   *)
(* crash can fall between any two of them.  That the lease excludes other  *)
(* writers while it lasts, and what happens when it runs out, is the       *)
(* subject of module LeasedStore.                                          *)
(*                                                                         *)
(* Bounds: every element of Calls is one HTTP request and is used once.    *)
(***************************************************************************)
EXTENDS OrderStream, Functions

CONSTANTS
  Calls,   \* HTTP requests handled by the API processes
  Free     \* the lock value when nobody holds it

ASSUME WorkflowAssumption ==
  /\ Free \notin Orders
  /\ None \notin Calls
  /\ None \notin [order : Orders, started : BOOLEAN]

VARIABLES
  doc,     \* the commerce document saved in Redis
  lock,    \* the order whose spot holds the document lock, or Free
  draft,   \* the document the lock holder loaded and is changing
  spot,    \* per order: the Instance Spot and its timer
  calls,   \* per HTTP request: progress of its API handler
  msgs     \* requests routed to a spot and not yet taken by it

vars == <<doc, lock, draft, spot, calls, msgs>>

NoDraft == [doc |-> EmptyDoc, left |-> 0]
NoJob   == [op |-> "none", order |-> 0, cmd |-> NoCommand, call |-> None,
            cart |-> None, method |-> None]
Closed  == [phase |-> "closed", timer |-> FALSE, job |-> NoJob]
NewCall == [pc |-> "new", op |-> "none", order |-> 0, cmd |-> NoCommand,
            cart |-> None, method |-> None, reply |-> None]

Init ==
  /\ doc = EmptyDoc
  /\ lock = Free
  /\ draft = NoDraft
  /\ spot = [o \in Orders |-> Closed]
  /\ calls = [c \in Calls |-> NewCall]
  /\ msgs = {}

-----------------------------------------------------------------------------
(* CommerceApi *)

\* Mutant: the order sequence is not advanced.
MutPlan(c, op, k, cart, method, d) ==
  LET known == d.idem[k] # None
      order == IF known THEN d.idem[k].order ELSE d.next + 1
      again == known /\ d.idem[k].started
  IN  IF order \notin Orders \/ cart \notin Carts
      THEN /\ calls' = [calls EXCEPT ![c] = [NewCall EXCEPT !.pc = "failed"]]
           /\ doc' = d
      ELSE /\ doc' = [d EXCEPT !.idem[k] = [order |-> order, started |-> TRUE]]
           /\ calls' = [calls EXCEPT ![c] =
                [pc |-> IF again THEN "poll" ELSE "send", op |-> op,
                 order |-> order, cmd |-> StartCommand(k),
                 cart |-> cart, method |-> method, reply |-> None]]

\* start_order's first update: find or allocate the order of the key, check
\* the cart, mark the mapping started.  An unknown cart or an order number
\* the id format cannot hold throws before the save.
Plan(c, op, k, cart, method, d) ==
  LET known == d.idem[k] # None
      order == IF known THEN d.idem[k].order ELSE d.next + 1
      fits  == order \in Orders
      again == known /\ d.idem[k].started
  IN  IF ~fits \/ cart \notin Carts
      THEN /\ calls' = [calls EXCEPT ![c] = [NewCall EXCEPT !.pc = "failed"]]
           /\ doc' = d
      ELSE /\ doc' = [d EXCEPT !.next = IF known THEN @ ELSE order,
                               !.idem[k] = [order |-> order, started |-> TRUE]]
           /\ calls' = [calls EXCEPT ![c] =
                [pc |-> IF again THEN "poll" ELSE "send", op |-> op,
                 order |-> order, cmd |-> StartCommand(k),
                 cart |-> cart, method |-> method, reply |-> None]]

StartOrder(c, k, cart, method) ==
  /\ calls[c].pc = "new"
  /\ lock = Free
  /\ Plan(c, "start", k, cart, method, doc)
  /\ UNCHANGED <<lock, draft, spot, msgs>>

\* create_pending: map the key to a fresh, not started order.
CreatePending(c, k) ==
  /\ calls[c].pc = "new"
  /\ lock = Free
  /\ IF doc.next + 1 \in Orders
     THEN /\ doc' = [doc EXCEPT !.next = @ + 1,
                       !.idem[k] = [order |-> doc.next + 1, started |-> FALSE]]
          /\ calls' = [calls EXCEPT ![c].pc = "done", ![c].op = "pending",
                                    ![c].order = doc.next + 1]
     ELSE /\ calls' = [calls EXCEPT ![c].pc = "failed"]
          /\ UNCHANGED doc
  /\ UNCHANGED <<lock, draft, spot, msgs>>

\* prepare_inventory_reserved: its first update allocates the mapping and
\* sets the stop hook; start_order then runs as a second update.
Prepare(c, k, cart, method) ==
  /\ calls[c].pc = "new"
  /\ lock = Free
  /\ LET known == doc.idem[k] # None
         order == IF known THEN doc.idem[k].order ELSE doc.next + 1
     IN  IF order \in Orders
         THEN /\ doc' = [doc EXCEPT
                   !.next = IF known THEN @ ELSE order,
                   !.idem[k] = IF known THEN @
                               ELSE [order |-> order, started |-> FALSE],
                   !.stopAt = @ \cup {order}]
              /\ calls' = [calls EXCEPT ![c] =
                   [pc |-> "plan", op |-> "prepare", order |-> order,
                    cmd |-> StartCommand(k), cart |-> cart, method |-> method,
                    reply |-> None]]
         ELSE /\ calls' = [calls EXCEPT ![c].pc = "failed"]
              /\ UNCHANGED doc
  /\ UNCHANGED <<lock, draft, spot, msgs>>

PlanPrepared(c) ==
  /\ calls[c].pc = "plan"
  /\ lock = Free
  /\ Plan(c, "prepare", calls[c].cmd.key, calls[c].cart, calls[c].method, doc)
  /\ UNCHANGED <<lock, draft, spot, msgs>>

\* The reply of start_order ends the call, or starts the wait of
\* prepare_inventory_reserved for the status it asked for.
Answer(c, model) ==
  [calls EXCEPT ![c].reply = model,
                ![c].pc = IF @ = "wait" \/ @ = "poll"
                          THEN IF calls[c].op = "prepare" THEN "watch"
                               ELSE "done"
                          ELSE @]

\* A mapping already started answers from the read model, once it exists ...
PollFound(c) ==
  /\ calls[c].pc = "poll"
  /\ lock = Free
  /\ doc.models[calls[c].order] # None
  /\ calls' = Answer(c, doc.models[calls[c].order])
  /\ UNCHANGED <<doc, lock, draft, spot, msgs>>

\* ... or asks the owner again after twenty empty reads.
PollExhausted(c) ==
  /\ calls[c].pc = "poll"
  /\ lock = Free
  /\ doc.models[calls[c].order] = None
  /\ calls' = [calls EXCEPT ![c].pc = "send"]
  /\ UNCHANGED <<doc, lock, draft, spot, msgs>>

Request(c, op, o, cmd, cart, method) ==
  msgs' = msgs \cup {[op |-> op, order |-> o, cmd |-> cmd, call |-> c,
                      cart |-> cart, method |-> method]}

SendStart(c) ==
  /\ calls[c].pc = "send"
  /\ Request(c, "start", calls[c].order, calls[c].cmd, calls[c].cart,
             calls[c].method)
  /\ calls' = [calls EXCEPT ![c].pc = "wait"]
  /\ UNCHANGED <<doc, lock, draft, spot>>

\* continue_order and rebuild_projection_req only forward to the owner.
Forward(c, op, o) ==
  /\ calls[c].pc = "new"
  /\ Request(c, op, o, IF op = "continue" THEN ContinueCommand ELSE NoCommand,
             None, None)
  /\ calls' = [calls EXCEPT ![c].pc = "wait", ![c].op = op, ![c].order = o]
  /\ UNCHANGED <<doc, lock, draft, spot>>

\* prepare_inventory_reserved sees the status and clears the hook.
WatchReached(c) ==
  /\ calls[c].pc = "watch"
  /\ lock = Free
  /\ doc.models[calls[c].order] # None
  /\ doc.models[calls[c].order].status = "InventoryReserved"
  /\ doc' = [doc EXCEPT !.stopAt = @ \ {calls[c].order}]
  /\ calls' = [calls EXCEPT ![c].pc = "done"]
  /\ UNCHANGED <<lock, draft, spot, msgs>>

\* The 5 s route timeout, the exhausted watch, or the end of the API process.
Abandon(c) ==
  /\ calls[c].pc \in {"plan", "poll", "send", "wait", "watch"}
  /\ calls' = [calls EXCEPT ![c].pc = "failed"]
  /\ UNCHANGED <<doc, lock, draft, spot, msgs>>

DeleteProjection(o) ==
  /\ lock = Free
  /\ doc.models[o] # None
  /\ doc' = [doc EXCEPT !.models[o] = None]
  /\ UNCHANGED <<lock, draft, spot, calls, msgs>>

-----------------------------------------------------------------------------
(* The order's Instance Spot: one handler at a time. *)

\* A routed request activates the spot if needed and becomes its job.
TakeRequest(m) ==
  /\ m \in msgs
  /\ spot[m.order].phase \in {"closed", "idle"}
  /\ msgs' = msgs \ {m}
  /\ spot' = [spot EXCEPT ![m.order].phase = "locking", ![m.order].job = m]
  /\ UNCHANGED <<doc, lock, draft, calls>>

\* run_scheduled_continue: the timer is cancelled before the work is done.
TakeTimer(o) ==
  /\ spot[o].phase = "idle"
  /\ spot[o].timer
  /\ spot' = [spot EXCEPT ![o].phase = "locking", ![o].timer = FALSE,
                ![o].job = [NoJob EXCEPT !.op = "continue", !.order = o]]
  /\ UNCHANGED <<doc, lock, draft, calls, msgs>>

\* SET NX succeeds; a start takes one step, a continuation up to sixteen, and
\* a rebuild or a command already in the stream none.
AcquireLock(o) ==
  /\ spot[o].phase = "locking"
  /\ lock = Free
  /\ lock' = o
  /\ draft' = [doc |-> doc,
               left |-> IF \/ spot[o].job.op = "rebuild"
                           \/ AlreadyApplied(doc, o, spot[o].job.cmd)
                        THEN 0
                        ELSE IF spot[o].job.op = "start" THEN 1 ELSE 16]
  /\ spot' = [spot EXCEPT ![o].phase = "running"]
  /\ UNCHANGED <<doc, calls, msgs>>

\* Ten seconds without the lock: update throws and the job is lost.
LockTimeout(o) ==
  /\ spot[o].phase = "locking"
  /\ lock # Free
  /\ spot' = [spot EXCEPT ![o].phase = "idle", ![o].job = NoJob]
  /\ UNCHANGED <<doc, lock, draft, calls, msgs>>

CanAdvance(o) ==
  /\ draft.left > 0
  /\ IF draft.doc.events[o] = <<>>
     THEN spot[o].job.op = "start"
     ELSE /\ ~Terminal(Status(draft.doc.events[o]))
          /\ ~StopHookReached(draft.doc, o)

Advance(o) ==
  /\ spot[o].phase = "running"
  /\ CanAdvance(o)
  /\ LET j == spot[o].job
         d == IF draft.doc.events[o] = <<>>
                THEN AppendEvent(draft.doc, o,
                                 StartEvent(j.cmd, j.cart, j.method))
                ELSE NextStep(draft.doc, o, j.cmd)
     IN  draft' = [doc |-> SaveProjection(d, o), left |-> draft.left - 1]
  /\ UNCHANGED <<doc, lock, spot, calls, msgs>>

\* The loop has broken out or used up its steps: save and unlock.
Commit(o) ==
  /\ spot[o].phase = "running"
  /\ ~CanAdvance(o)
  /\ ~(spot[o].job.op = "rebuild" /\ draft.doc.events[o] = <<>>)
  /\ doc' = SaveProjection(draft.doc, o)
  /\ lock' = Free
  /\ draft' = NoDraft
  /\ spot' = [spot EXCEPT ![o].phase = "after"]
  /\ UNCHANGED <<calls, msgs>>

\* rebuild_projection throws on an empty stream: nothing is saved.
RebuildRefused(o) ==
  /\ spot[o].phase = "running"
  /\ spot[o].job.op = "rebuild" /\ draft.doc.events[o] = <<>>
  /\ lock' = Free
  /\ draft' = NoDraft
  /\ spot' = [spot EXCEPT ![o].phase = "idle", ![o].job = NoJob]
  /\ calls' = [calls EXCEPT ![spot[o].job.call].pc =
                 IF @ = "wait" THEN "failed" ELSE @]
  /\ UNCHANGED <<doc, msgs>>

\* Mutant: a start does not schedule the continuation.
MutFinish(o) ==
  /\ spot[o].phase = "after"
  /\ LET ended == Terminal(Status(doc.events[o]))
         j     == spot[o].job
     IN  /\ spot' = [spot EXCEPT ![o] =
              IF ended THEN Closed
              ELSE [phase |-> "idle", job |-> NoJob, timer |-> spot[o].timer]]
         /\ calls' = IF j.call = None THEN calls
                     ELSE Answer(j.call, Projection(doc.events[o]))
  /\ UNCHANGED <<doc, lock, draft, msgs>>

\* After the update, with the state it returned: a start schedules the
\* background continuation, a terminal state closes the spot (and cancels
\* its timer), and the caller gets its reply.
Finish(o) ==
  /\ spot[o].phase = "after"
  /\ LET ended == Terminal(Status(doc.events[o]))
         j     == spot[o].job
     IN  /\ spot' = [spot EXCEPT ![o] =
              IF ended THEN Closed
              ELSE [phase |-> "idle", job |-> NoJob,
                    timer |-> spot[o].timer \/ j.op = "start"]]
         /\ calls' = IF j.call = None THEN calls
                     ELSE Answer(j.call, Projection(doc.events[o]))
  /\ UNCHANGED <<doc, lock, draft, msgs>>

\* The process of the spot ends anywhere: the draft is lost, its lease runs
\* out, and the spot's timer goes with it.
Crash(o) ==
  /\ spot[o].phase # "closed"
  /\ spot' = [spot EXCEPT ![o] = Closed]
  /\ lock' = IF lock = o THEN Free ELSE lock
  /\ draft' = IF lock = o THEN NoDraft ELSE draft
  /\ UNCHANGED <<doc, calls, msgs>>

-----------------------------------------------------------------------------
ApiStep(c) ==
  \/ PlanPrepared(c)
  \/ PollFound(c)
  \/ PollExhausted(c)
  \/ SendStart(c)
  \/ WatchReached(c)

\* CreatePending runs on keys the runner has not used before.
ClientStep(c) ==
  \/ \E k \in Keys, cart \in Carts \cup {None}, m \in Methods :
       StartOrder(c, k, cart, m) \/ Prepare(c, k, cart, m)
  \/ \E k \in Keys : doc.idem[k] = None /\ CreatePending(c, k)
  \/ \E op \in {"continue", "rebuild"}, o \in Orders : Forward(c, op, o)

SpotStep(o) ==
  \/ TakeTimer(o)
  \/ AcquireLock(o)
  \/ Advance(o)
  \/ Commit(o)
  \/ RebuildRefused(o)
  \/ Finish(o)

Failure ==
  \/ \E c \in Calls : Abandon(c)
  \/ \E o \in Orders : LockTimeout(o) \/ Crash(o)

Normal ==
  \/ \E c \in Calls : ClientStep(c) \/ ApiStep(c)
  \/ \E m \in msgs : TakeRequest(m)
  \/ \E o \in Orders : SpotStep(o) \/ DeleteProjection(o)

Next == Normal \/ Failure

Spec == Init /\ [][Next]_vars

\* The runtime keeps polling timers, queues and handlers; clients promise
\* nothing.  Without failures.
Fairness ==
  /\ \A c \in Calls : WF_vars(ApiStep(c))
  /\ \A o \in Orders : WF_vars(SpotStep(o))
  /\ WF_vars(\E m \in msgs : TakeRequest(m))

ReliableSpec == Init /\ [][Normal]_vars /\ Fairness

-----------------------------------------------------------------------------
(* Types *)

Docs ==
  [next         : 0..MaxSequence,
   idem         : [Keys -> {None} \cup [order : Orders, started : BOOLEAN]],
   events       : [Orders -> Seq(Events)],
   models       : [Orders -> {None} \cup Models],
   reservations : [Orders -> {None} \cup Results],
   released     : SUBSET Orders,
   payments     : [Orders -> {None} \cup Results],
   inventory    : [Skus -> Int],
   stopAt       : SUBSET Orders]

Jobs ==
  [op : {"none", "start", "continue", "rebuild"}, order : Orders \cup {0},
   cmd : Commands, call : Calls \cup {None}, cart : Carts \cup {None},
   method : Methods \cup {None}]

\* The shape of every variable: the saved document and the draft are
\* commerce documents, spots and calls are in one of their phases.
TypeOK ==
  /\ doc \in Docs
  /\ lock \in Orders \cup {Free}
  /\ draft \in [doc : Docs, left : 0..16]
  /\ spot \in [Orders -> [phase : {"closed", "idle", "locking", "running",
                                   "after"},
                          timer : BOOLEAN, job : Jobs]]
  /\ calls \in [Calls ->
       [pc : {"new", "plan", "poll", "send", "wait", "watch", "done", "failed"},
        op : {"none", "start", "prepare", "pending", "continue", "rebuild"},
        order : Orders \cup {0}, cmd : Commands, cart : Carts \cup {None},
        method : Methods \cup {None},
        reply : {None} \cup Models]]
  /\ msgs \subseteq Jobs

-----------------------------------------------------------------------------
(* Safety *)

\* Which event may follow which.
Follows ==
  { <<"OrderStarted", "InventoryReserved">>,
    <<"OrderStarted", "InventoryReservationFailed">>,
    <<"InventoryReserved", "PaymentAuthorized">>,
    <<"InventoryReserved", "PaymentFailed">>,
    <<"PaymentAuthorized", "OrderConfirmed">>,
    <<"PaymentFailed", "InventoryReleased">>,
    <<"InventoryReleased", "OrderFailed">>,
    <<"InventoryReservationFailed", "OrderFailed">> }

LegalStream(s) ==
  /\ s # <<>> => s[1].type = "OrderStarted"
  /\ \A i \in 1..Len(s) - 1 : <<s[i].type, s[i + 1].type>> \in Follows

\* The external effects an order must have had in its folded status, exactly:
\* its reservation, its payment, and whether its stock was given back.
Effects(status, reserved, paid, returned) ==
  /\ status \in {"", "Created"} =>
       reserved = None /\ paid = None /\ ~returned
  /\ status = "InventoryReserved" =>
       reserved = "accepted" /\ paid = None /\ ~returned
  /\ status = "InventoryReservationFailed" =>
       reserved = "refused" /\ paid = None /\ ~returned
  /\ status \in {"PaymentAuthorized", "Confirmed"} =>
       reserved = "accepted" /\ paid = "accepted" /\ ~returned
  /\ status = "PaymentFailed" =>
       reserved = "accepted" /\ paid = "refused" /\ ~returned
  /\ status = "InventoryReleased" =>
       reserved = "accepted" /\ paid = "refused" /\ returned
  /\ status = "Failed" =>
       \/ reserved = "refused" /\ paid = None /\ ~returned
       \/ reserved = "accepted" /\ paid = "refused" /\ returned

EffectsMatchAt(d, o) ==
  Effects(Status(d.events[o]), d.reservations[o], d.payments[o],
          o \in d.released)

StreamsLegalIn(d) == \A o \in Orders : LegalStream(d.events[o])

EffectsMatchIn(d) == \A o \in Orders : EffectsMatchAt(d, o)

ReadModelFreshIn(d) ==
  \A o \in Orders :
    d.models[o] # None => d.models[o] = Projection(d.events[o])

\* Every saved stream is a prefix of one of the saga's three runs (success,
\* no stock, payment refused and compensated), whatever interleaving of
\* starts, timers, continuations, crashes and lost replies produced it.
StreamsLegal == StreamsLegalIn(doc)

\* The saved reservation, payment and release of an order are exactly the
\* effects its stream records: no order is paid without its stock, none that
\* failed keeps stock, and no effect is ever ahead of or behind the stream.
EffectsMatchStream == EffectsMatchIn(doc)

\* A stored read model is the projection of the order's stream: readers see
\* a state the stream is in, after any crash, deletion or rebuild.
ReadModelFresh == ReadModelFreshIn(doc)

\* An order is started only for the idempotency key that maps to it, so two
\* keys never share an order and one key never starts two.
OneOrderPerKey ==
  /\ \A j, k \in Keys :
       j # k /\ doc.idem[j] # None /\ doc.idem[k] # None
         => doc.idem[j].order # doc.idem[k].order
  /\ \A o \in Orders :
       doc.events[o] # <<>> =>
         LET k == doc.events[o][1].cmd.key
         IN  k \in Keys /\ doc.idem[k] = [order |-> o, started |-> TRUE]

\* Only the first event of a stream carries a start command: however often a
\* start is repeated, the owner runs it up to Created and no further.
StartOnlyStarts ==
  \A o \in Orders : \A i \in 2..Len(doc.events[o]) :
    doc.events[o][i].cmd.kind # "start"

\* The orders that hold stock, and what every started order takes.
Holding(d) == {o \in Orders : d.reservations[o] = "accepted" /\ o \notin d.released}

Takes(d, s) ==
  [o \in Orders |-> IF d.events[o] = <<>> THEN 0 ELSE Lines[d.events[o][1].cart][s]]

StockConservedIn(d) ==
  \A s \in Skus :
    /\ d.inventory[s] >= 0
    /\ d.inventory[s] + SumFunctionOnSet(Takes(d, s), Holding(d)) = Stock[s]

\* Stock is conserved: what is available plus what accepted and unreleased
\* reservations hold is the seeded quantity, and availability never falls
\* below zero, however many orders race for the last unit.
StockConserved == StockConservedIn(doc)

\* Of all requests with one key, repeated, raced or lost, there is one order,
\* started once, and it takes its stock once and gives it back at most once.
OneSalePerKey == OneOrderPerKey /\ StartOnlyStarts /\ StockConserved

\* A reply to start_order names an order that has been started (the API's
\* comment: a new order's response is Created).
StartReplyIsStarted ==
  \A c \in Calls :
    calls[c].op = "start" /\ calls[c].pc = "done"
      => calls[c].reply.status # ""

-----------------------------------------------------------------------------
(* Action properties *)

\* The event stream is append-only: no step rewrites or drops a saved event.
\* And while the stop hook of an order stays set, the order is not charged by
\* any owner, timer or recovery call, however far it was when it was set.
SavedPrefix(o) ==
  /\ Len(doc'.events[o]) >= Len(doc.events[o])
  /\ \A i \in 1..Len(doc.events[o]) : doc'.events[o][i] = doc.events[o][i]

SavedStays ==
  [][/\ \A o \in Orders : SavedPrefix(o)
     /\ \A o \in doc.stopAt \cap doc'.stopAt :
          doc'.payments[o] = doc.payments[o]]_doc

\* The workflow implements OrderSaga: whatever owners, timers, retries, crashes
\* and lost replies do, each save carries one order forward on its course, on
\* stock that is there, for a key that has no other order, and past no hook.
Types(stream) == [i \in 1..Len(stream) |-> stream[i].type]

Requested(stream) ==
  IF stream = <<>> THEN None
  ELSE [key |-> stream[1].cmd.key, cart |-> stream[1].cart, method |-> stream[1].method]

Saga == INSTANCE OrderSaga WITH
  history <- [o \in Orders |-> Types(doc.events[o])],
  request <- [o \in Orders |-> Requested(doc.events[o])],
  stock <- doc.inventory, held <- doc.stopAt
SagaSpec == Saga!Spec

-----------------------------------------------------------------------------
(* Liveness, under ReliableSpec *)

\* A started order that no stop hook ever holds reaches Confirmed or Failed
\* in the background, with no further client call.
OrdersEnd ==
  \A o \in Orders :
    [](o \notin doc.stopAt)
      => (doc.events[o] # <<>> ~> Terminal(Status(doc.events[o])))
=============================================================================
