--------------------------- MODULE DeliveryDispatch ---------------------------
(***************************************************************************)
(* The DeliveryDispatch sample: Server/Dispatch/main.cpp (HTTP edge,       *)
(* channel handlers, offer table, sweeper thread and its coroutines),      *)
(* Server/CourierActorNode/main.cpp (courier actors) and Server/Tracking   *)
(* (status log).                                                           *)
(*                                                                         *)
(* A coroutine of the worker publishes statuses one after another, each a  *)
(* request answered by Tracking, and then records an offer or closes the   *)
(* record; the status being published is its position.  Everything the     *)
(* sweeper does under one lock is one step; coroutines run between them.   *)
(*                                                                         *)
(* Couriers are numbered in the order of the selection policy.  Clock      *)
(* time is abstracted to "the deadline of this offer has passed".          *)
(* Bound: every element of Requests is posted once.                        *)
(***************************************************************************)
EXTENDS Integers, Sequences

CONSTANTS
  Requests,   \* POST /deliveries calls
  Delivery,   \* the delivery id each of them carries
  Last,       \* number of candidate couriers (two in the code)
  None

ASSUME DispatchAssumption == Last \in Nat \ {0}

Deliveries == {Delivery[r] : r \in Requests}
Couriers == 1..Last

VARIABLES
  posted,    \* requests the HTTP edge has answered
  channel,   \* one-way messages on the way to the dispatch channel
  pending,   \* dispatch_state_t: admitted, waiting for the sweeper
  batch,     \* what the current sweep took
  sweeping,
  offers,    \* dispatch_state_t: the offer table
  tasks,     \* coroutines of the worker
  evidence,  \* per delivery: Tracking's status log
  customer,  \* the customer actor exists
  bound,     \* couriers whose actor exists
  outbox,    \* OfferDeliveryMsg on the way to a courier actor
  offered,   \* per courier actor: attempt it last saw of a delivery, 0 if none
  shown,     \* offers the courier's client was notified of
  answers,   \* history: what couriers answered to which offer
  lost       \* history: requests whose message or status publication failed

dispatch == <<pending, batch, sweeping, offers, tasks>>
couriers == <<bound, offered, shown, answers>>
vars == <<posted, channel, dispatch, evidence, customer, outbox, couriers, lost>>

Nothing == [assigns |-> {}, results |-> {}]

Init ==
  /\ posted = {}
  /\ channel = Nothing
  /\ pending = Nothing
  /\ batch = Nothing
  /\ sweeping = FALSE
  /\ offers = [d \in Deliveries |-> None]
  /\ tasks = {}
  /\ evidence = [d \in Deliveries |-> <<>>]
  /\ customer \in BOOLEAN
  /\ bound \in SUBSET Couriers
  /\ outbox = {}
  /\ offered = [c \in Couriers |-> [d \in Deliveries |-> 0]]
  /\ shown = {}
  /\ answers = {}
  /\ lost = {}

-----------------------------------------------------------------------------
(* HTTP edge and channel handlers *)

\* create_delivery_http_handler_t: a one-way send, and the reply.
Create(r) ==
  /\ r \notin posted
  /\ posted' = posted \cup {r}
  /\ channel' = [channel EXCEPT !.assigns = @ \cup {r}]
  /\ UNCHANGED <<dispatch, evidence, customer, outbox, couriers, lost>>

AdmitAssign(r) ==
  /\ r \in channel.assigns
  /\ channel' = [channel EXCEPT !.assigns = @ \ {r}]
  /\ pending' = [pending EXCEPT !.assigns = @ \cup {r}]
  /\ UNCHANGED <<posted, batch, sweeping, offers, tasks, evidence, customer,
                 outbox, couriers, lost>>

AdmitResult(m) ==
  /\ m \in channel.results
  /\ channel' = [channel EXCEPT !.results = @ \ {m}]
  /\ pending' = [pending EXCEPT !.results = @ \cup {m}]
  /\ UNCHANGED <<posted, batch, sweeping, offers, tasks, evidence, customer,
                 outbox, couriers, lost>>

-----------------------------------------------------------------------------
(* The sweeper thread *)

Task(r, c, s) ==
  [req |-> r, cand |-> c, status |-> s, pc |-> "publish", attempt |-> 0]

TakePending ==
  /\ ~sweeping
  /\ sweeping' = TRUE
  /\ batch' = pending
  /\ pending' = Nothing
  /\ UNCHANGED <<posted, channel, offers, tasks, evidence, customer, outbox,
                 couriers, lost>>

StartAssignment(r) ==
  /\ r \in batch.assigns
  /\ batch' = [batch EXCEPT !.assigns = @ \ {r}]
  /\ tasks' = tasks \cup {Task(r, 1, "Assigned")}
  /\ UNCHANGED <<posted, channel, pending, sweeping, offers, evidence,
                 customer, outbox, couriers, lost>>

Live(d) == offers[d] # None /\ ~offers[d].settled

Current(m) == Live(m.delivery) /\ offers[m.delivery].attempt = m.attempt

\* Mutant: the courier that let the offer pass is asked again.
MutReassign(o) ==
  IF o.cand = Last THEN Task(o.req, Last, "Failed")
                   ELSE Task(o.req, o.cand, "Reassigned")

Reassign(o) ==
  IF o.cand = Last THEN Task(o.req, Last, "Failed")
                   ELSE Task(o.req, o.cand + 1, "Reassigned")

\* Mutant: a decision does not settle the offer it takes.
MutSettle(d) == offers

Settle(d) == [offers EXCEPT ![d].settled = TRUE]

\* A decision for anything but the live offer is dropped.
SettleDecision(m) ==
  /\ batch.assigns = {}
  /\ m \in batch.results
  /\ batch' = [batch EXCEPT !.results = @ \ {m}]
  /\ IF Current(m)
     THEN LET o == offers[m.delivery]
          IN  /\ offers' = Settle(m.delivery)
              /\ tasks' = tasks \cup {IF m.accepted
                                      THEN Task(o.req, o.cand, "Accepted")
                                      ELSE Reassign(o)}
     ELSE UNCHANGED <<offers, tasks>>
  /\ UNCHANGED <<posted, channel, pending, sweeping, evidence, customer,
                 outbox, couriers, lost>>

Expired == {d \in Deliveries : Live(d) /\ offers[d].due}

\* Mutant: the sweep of the offer table is left out.
MutExpireOffers ==
  /\ sweeping /\ batch = Nothing
  /\ sweeping' = FALSE
  /\ UNCHANGED <<offers, tasks, posted, channel, pending, batch, evidence,
                 customer, outbox, couriers, lost>>

ExpireOffers ==
  /\ sweeping /\ batch = Nothing
  /\ sweeping' = FALSE
  /\ offers' = [d \in Deliveries |->
       IF d \in Expired THEN [offers[d] EXCEPT !.settled = TRUE]
                        ELSE offers[d]]
  /\ tasks' = tasks \cup {Reassign(offers[d]) : d \in Expired}
  /\ UNCHANGED <<posted, channel, pending, batch, evidence, customer, outbox,
                 couriers, lost>>

\* Three seconds have passed since the offer was recorded.
DeadlinePasses(d) ==
  /\ Live(d) /\ ~offers[d].due
  /\ offers' = [offers EXCEPT ![d].due = TRUE]
  /\ UNCHANGED <<posted, channel, pending, batch, sweeping, tasks, evidence,
                 customer, outbox, couriers, lost>>

-----------------------------------------------------------------------------
(* Coroutines of the worker: start, settle and reassign *)

\* Tracking logs the status, then looks for the customer actor; without one
\* the request fails, and the coroutine ends.
Track(t) ==
  /\ t \in tasks /\ t.pc = "publish"
  /\ evidence' = [evidence EXCEPT ![Delivery[t.req]] =
       Append(@, [status |-> t.status, courier |-> t.cand, req |-> t.req])]
  /\ IF customer
     THEN tasks' = (tasks \ {t}) \cup {[t EXCEPT !.pc = "reply"]} /\ lost' = lost
     ELSE tasks' = tasks \ {t} /\ lost' = lost \cup {t.req}
  /\ UNCHANGED <<posted, channel, pending, batch, sweeping, offers, customer,
                 outbox, couriers>>

\* What follows a published status: another one, an offer, or the close.
Following(t) ==
  IF t.status = "Accepted" THEN IF t.cand = 1 THEN "PickedUp" ELSE "Delivered"
  ELSE IF t.status = "PickedUp" THEN "Delivered"
  ELSE IF t.status \in {"Assigned", "Reassigned"} THEN "offer"
  ELSE "close"

PublishNext(t) ==
  /\ t \in tasks /\ t.pc = "reply"
  /\ Following(t) \in {"PickedUp", "Delivered"}
  /\ tasks' = (tasks \ {t}) \cup {Task(t.req, t.cand, Following(t))}
  /\ UNCHANGED <<posted, channel, pending, batch, sweeping, offers, evidence,
                 customer, outbox, couriers, lost>>

\* dispatch_state_t::offer reuses the record of the delivery id, if any.
RecordOffer(t) ==
  /\ t \in tasks /\ t.pc = "reply"
  /\ Following(t) = "offer"
  /\ LET d == Delivery[t.req]
         n == IF offers[d] = None THEN 1 ELSE offers[d].attempt + 1
     IN  /\ offers' = [offers EXCEPT ![d] =
              [req |-> t.req, cand |-> t.cand, attempt |-> n,
               settled |-> FALSE, due |-> FALSE]]
         /\ tasks' = (tasks \ {t})
                       \cup {[t EXCEPT !.pc = "send", !.attempt = n]}
  /\ UNCHANGED <<posted, channel, pending, batch, sweeping, evidence, customer,
                 outbox, couriers, lost>>

Close(t) ==
  /\ t \in tasks /\ t.pc = "reply"
  /\ Following(t) = "close"
  /\ offers' = [offers EXCEPT ![Delivery[t.req]] = None]
  /\ tasks' = tasks \ {t}
  /\ UNCHANGED <<posted, channel, pending, batch, sweeping, evidence, customer,
                 outbox, couriers, lost>>

\* courier_offer_port_t: a courier whose actor does not exist makes the
\* lookup throw, and the recorded offer just runs into its deadline.
SendOffer(t) ==
  /\ t \in tasks /\ t.pc = "send"
  /\ tasks' = tasks \ {t}
  /\ outbox' = IF t.cand \in bound
               THEN outbox \cup {[courier |-> t.cand, req |-> t.req,
                                  attempt |-> t.attempt]}
               ELSE outbox
  /\ UNCHANGED <<posted, channel, pending, batch, sweeping, offers, evidence,
                 customer, couriers, lost>>

-----------------------------------------------------------------------------
(* Couriers and the customer *)

BindCourier(c) ==
  /\ c \notin bound
  /\ bound' = bound \cup {c}
  /\ UNCHANGED <<posted, channel, dispatch, evidence, customer, outbox,
                 offered, shown, answers, lost>>

SubscribeCustomer ==
  /\ ~customer
  /\ customer' = TRUE
  /\ UNCHANGED <<posted, channel, dispatch, evidence, outbox, couriers, lost>>

\* offer_delivery: remember the attempt, push the notification, which does
\* not carry the attempt.
OfferArrives(m) ==
  /\ m \in outbox
  /\ outbox' = outbox \ {m}
  /\ offered' = [offered EXCEPT ![m.courier][Delivery[m.req]] = m.attempt]
  /\ shown' = shown \cup {[courier |-> m.courier, req |-> m.req]}
  /\ UNCHANGED <<posted, channel, dispatch, evidence, customer, bound, answers,
                 lost>>

\* The client of a courier answers a notification it has seen, whenever and
\* as often as it likes; courier_decision sends the attempt the actor holds.
Decide(n, accepted) ==
  /\ n \in shown
  /\ answers' = answers \cup {[courier |-> n.courier, req |-> n.req,
                               accepted |-> accepted]}
  /\ LET d == Delivery[n.req]
         a == offered[n.courier][d]
     IN  /\ a # 0
         /\ offered' = [offered EXCEPT ![n.courier][d] = 0]
         /\ channel' = [channel EXCEPT !.results = @ \cup
              {[delivery |-> d, courier |-> n.courier, attempt |-> a,
                accepted |-> accepted]}]
  /\ UNCHANGED <<posted, dispatch, evidence, customer, outbox, bound, shown,
                 lost>>

-----------------------------------------------------------------------------
(* Failures *)

\* The status request times out, before or after Tracking took it: the
\* exception ends the coroutine and is only logged.
PublishFails(t) ==
  /\ t \in tasks /\ t.pc \in {"publish", "reply"}
  /\ tasks' = tasks \ {t}
  /\ lost' = lost \cup {t.req}
  /\ UNCHANGED <<posted, channel, pending, batch, sweeping, offers, evidence,
                 customer, outbox, couriers>>

OfferFails(t) ==
  /\ t \in tasks /\ t.pc = "send"
  /\ tasks' = tasks \ {t}
  /\ UNCHANGED <<posted, channel, pending, batch, sweeping, offers, evidence,
                 customer, outbox, couriers, lost>>

\* One-way messages are lost without anybody noticing.
LoseAssign(r) ==
  /\ r \in channel.assigns
  /\ channel' = [channel EXCEPT !.assigns = @ \ {r}]
  /\ lost' = lost \cup {r}
  /\ UNCHANGED <<posted, dispatch, evidence, customer, outbox, couriers>>

LoseResult(m) ==
  /\ m \in channel.results
  /\ channel' = [channel EXCEPT !.results = @ \ {m}]
  /\ UNCHANGED <<posted, dispatch, evidence, customer, outbox, couriers, lost>>

LoseOffer(m) ==
  /\ m \in outbox
  /\ outbox' = outbox \ {m}
  /\ UNCHANGED <<posted, channel, dispatch, evidence, customer, couriers, lost>>

-----------------------------------------------------------------------------
Channel == (\E r \in Requests : AdmitAssign(r))
             \/ (\E m \in channel.results : AdmitResult(m))

Sweep ==
  \/ TakePending
  \/ \E r \in Requests : StartAssignment(r)
  \/ \E m \in batch.results : SettleDecision(m)
  \/ ExpireOffers

Coroutine(t) ==
  Track(t) \/ PublishNext(t) \/ RecordOffer(t) \/ Close(t) \/ SendOffer(t)

Clients ==
  \/ \E r \in Requests : Create(r)
  \/ \E c \in Couriers : BindCourier(c)
  \/ SubscribeCustomer
  \/ \E n \in shown, accepted \in BOOLEAN : Decide(n, accepted)

\* One-way messages and offers may fail; status requests do not.
LossOfMessages ==
  \/ \E t \in tasks : OfferFails(t)
  \/ \E m \in channel.results : LoseResult(m)
  \/ \E m \in outbox : LoseOffer(m)

LossOfStatus ==
  \/ \E t \in tasks : PublishFails(t)
  \/ \E r \in Requests : LoseAssign(r)

Normal ==
  \/ Clients \/ Channel \/ Sweep
  \/ \E t \in tasks : Coroutine(t)
  \/ \E m \in outbox : OfferArrives(m)
  \/ \E d \in Deliveries : DeadlinePasses(d)

Next == Normal \/ LossOfMessages \/ LossOfStatus

Spec == Init /\ [][Next]_vars

\* The channel, the 100 ms sweeper loop, the coroutines and the clock keep
\* going; clients and couriers promise nothing.
Fairness ==
  /\ \A r \in Requests :
       /\ WF_vars(AdmitAssign(r))
       /\ WF_vars(\E t \in tasks : t.req = r /\ Coroutine(t))
  /\ WF_vars(Sweep)
  /\ \A d \in Deliveries : WF_vars(DeadlinePasses(d))

FairSpec == Spec /\ Fairness

-----------------------------------------------------------------------------
(* Types *)

Statuses == {"Assigned", "Accepted", "PickedUp", "Delivered", "Reassigned",
             "Failed"}
Results == [delivery : Deliveries, courier : Couriers, attempt : Nat,
            accepted : BOOLEAN]
Inbox == [assigns : SUBSET Requests, results : SUBSET Results]
Offers == [req : Requests, cand : Couriers, attempt : Nat, settled : BOOLEAN,
           due : BOOLEAN]

ASSUME NoneAssumption == None \notin Offers

\* The shape of every variable.
TypeOK ==
  /\ posted \in SUBSET Requests
  /\ channel \in Inbox /\ pending \in Inbox /\ batch \in Inbox
  /\ sweeping \in BOOLEAN
  /\ offers \in [Deliveries -> {None} \cup Offers]
  /\ tasks \in SUBSET [req : Requests, cand : Couriers, status : Statuses,
                       pc : {"publish", "reply", "send"}, attempt : Nat]
  /\ evidence \in [Deliveries -> Seq([status : Statuses, courier : Couriers,
                                      req : Requests])]
  /\ customer \in BOOLEAN
  /\ bound \in SUBSET Couriers
  /\ outbox \in SUBSET [courier : Couriers, req : Requests, attempt : Nat]
  /\ offered \in [Couriers -> [Deliveries -> Nat]]
  /\ shown \in SUBSET [courier : Couriers, req : Requests]
  /\ answers \in SUBSET [courier : Couriers, req : Requests,
                         accepted : BOOLEAN]
  /\ lost \in SUBSET Requests

-----------------------------------------------------------------------------
(* Safety, when no delivery id is posted twice *)

\* <<status, courier>> pairs that may follow each other in a delivery's log.
LegalStep(a, b) ==
  \/ /\ a.status \in {"Assigned", "Reassigned"} /\ b.status = "Accepted"
     /\ b.courier = a.courier
  \/ /\ a.status \in {"Assigned", "Reassigned"} /\ b.status = "Reassigned"
     /\ b.courier = a.courier + 1
  \/ /\ a.status \in {"Assigned", "Reassigned"} /\ b.status = "Failed"
     /\ a.courier = Last /\ b.courier = Last
  \/ /\ a.status = "Accepted" /\ b.courier = a.courier
     /\ b.status = IF a.courier = 1 THEN "PickedUp" ELSE "Delivered"
  \/ /\ a.status = "PickedUp" /\ b.status = "Delivered"
     /\ b.courier = a.courier

\* The greedy scan of evidence_store_t::has_sequence.
HasSequence(log, expected) ==
  LET cursor[i \in 0..Len(log)] ==
        IF i = 0 THEN 0
        ELSE IF /\ cursor[i - 1] < Len(expected)
                /\ log[i].status = expected[cursor[i - 1] + 1]
             THEN cursor[i - 1] + 1
             ELSE cursor[i - 1]
  IN  cursor[Len(log)] = Len(expected)

\* The server's self-check tells the two ways of delivering apart: an ended
\* log passes the test of a first-courier delivery or that of a reassigned
\* one, never both, and a failed log passes neither.
SelfCheck(log) ==
  LET direct == HasSequence(log,
                  <<"Assigned", "Accepted", "PickedUp", "Delivered">>)
      passed == HasSequence(log,
                  <<"Assigned", "Reassigned", "Accepted", "Delivered">>)
  IN  IF log[Len(log)].status = "Failed" THEN ~direct /\ ~passed
                                         ELSE direct # passed

Ended(d) ==
  /\ evidence[d] # <<>>
  /\ evidence[d][Len(evidence[d])].status \in {"Delivered", "Failed"}

\* A course: assigned to the first courier, and legal steps from there.
Course(log) ==
  /\ log # <<>> => log[1].status = "Assigned" /\ log[1].courier = 1
  /\ \A i \in 1..Len(log) - 1 : LegalStep(log[i], log[i + 1])

\* The log of a delivery is a legal course: assigned to the first courier,
\* passed on in order, delivered by the one courier that accepted, or failed
\* after the last; no late decision or expiry ever adds a second course, and
\* the server's self-check reads it right.
CourseLegal ==
  \A d \in Deliveries :
    Course(evidence[d]) /\ (Ended(d) => SelfCheck(evidence[d]))

\* A courier is recorded as accepting a delivery only if it answered yes to
\* the offer made for that very request: late and stale decisions count for
\* nothing ("늦게 도착한 결정(attempt 불일치)이나 이미 처리된 제안은
\* 무시한다", Dispatch/main.cpp:89).
Consent ==
  \A d \in Deliveries : \A i \in 1..Len(evidence[d]) :
    evidence[d][i].status = "Accepted" =>
      [courier |-> evidence[d][i].courier, req |-> evidence[d][i].req,
       accepted |-> TRUE] \in answers

\* Who drives request r on: a message, a coroutine before its offer, or a
\* live offer.
Drivers(r) ==
  {<<"assign", i>> : i \in {j \in 1..3 :
      r \in <<channel, pending, batch>>[j].assigns}}
  \cup {<<"task", t>> : t \in {u \in tasks : u.req = r /\ u.pc # "send"}}
  \cup {<<"offer", d>> : d \in {e \in Deliveries : Live(e)
                                                 /\ offers[e].req = r}}

\* Exactly one message, coroutine or live offer, until the delivery ends or a status
\* request or its message is lost.
OneDriver ==
  \A r \in posted :
    /\ \A x, y \in Drivers(r) : x = y
    /\ Drivers(r) = {} => Ended(Delivery[r]) \/ r \in lost

\* A posted delivery is driven by one at a time and never forgotten, and only the answer
\* to the very request its courier was offered makes it accepted.
DrivenOnce == OneDriver /\ Consent

-----------------------------------------------------------------------------
(* Liveness *)

\* Every created delivery ends, unless a status request or its first message
\* is lost: whether or not any courier is bound, receives its offer, or answers.
DeliveriesEnd ==
  \A r \in Requests : r \in posted ~> Ended(Delivery[r]) \/ r \in lost

\* "Failures are swallowed here: the sweeper comes again in the next period"
\* (Dispatch/main.cpp:462): an offer taken from the table is followed up.
SettledIsFollowedUp ==
  \A d \in Deliveries :
    offers[d] # None /\ ~Live(d) ~> offers[d] = None \/ Live(d)
=============================================================================
