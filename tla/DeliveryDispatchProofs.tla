------------------------ MODULE DeliveryDispatchProofs ------------------------
(***************************************************************************)
(* Proof that a posted delivery is driven by one message, coroutine or     *)
(* offer at a time, that only the courier that was offered it makes it     *)
(* accepted, and that its log is a legal course which the server's         *)
(* self-check reads right, for any requests, any number of couriers and    *)
(* every loss, if no delivery id is posted twice; and that the customer's  *)
(* sessions, which the gateway serves, are told of every status.           *)
(*                                                                         *)
(* The invariant speaks of one request at a time (Sound), since a step is  *)
(* about one request, except that a sweep expires offers of several.       *)
(* has_sequence is a recursive function; what it finds is followed while   *)
(* the log grows (ReadAs), one entry a step.                               *)
(***************************************************************************)
EXTENDS CustomerGateway, SequenceTheorems, TLAPS

\* No delivery id is posted twice.
Distinct == \A q, r \in Requests : Delivery[q] = Delivery[r] => q = r

Results3 == channel.results \cup pending.results \cup batch.results

Waiting(r) == r \in channel.assigns \/ r \in pending.assigns \/ r \in batch.assigns
Works(t, r) == t \in tasks /\ t.req = r /\ t.pc # "send"
Working(r) == \E t \in tasks : Works(t, r)
Driven(r) == Waiting(r) \/ Working(r) \/ Live(Delivery[r])

Offer(r) == offers[Delivery[r]]
Log(r) == evidence[Delivery[r]]
Top(r) == Log(r)[Len(Log(r))]
Yes(r, c) == [courier |-> c, req |-> r, accepted |-> TRUE] \in answers

OnePlace(r) ==
  /\ r \in channel.assigns => r \notin pending.assigns \cup batch.assigns
  /\ r \in pending.assigns => r \notin batch.assigns

\* One message, coroutine or live offer drives it at most.
Alone(r) ==
  /\ OnePlace(r)
  /\ Waiting(r) => ~Working(r) /\ ~Live(Delivery[r])
  /\ Working(r) => ~Live(Delivery[r])
  /\ \A t, u \in tasks : Works(t, r) /\ Works(u, r) => t = u

\* An offer of it is on its way to a courier or back.
Traced(r) ==
  \/ \E t \in tasks : t.req = r /\ t.pc = "send"
  \/ \E m \in outbox : m.req = r
  \/ \E c \in Couriers : offered[c][Delivery[r]] # 0
  \/ \E m \in Results3 : m.delivery = Delivery[r]

\* Attempt a was, or is, made with courier c.
Made(r, c, a) == a <= Offer(r).attempt /\ (a = Offer(r).attempt => c = Offer(r).cand)

\* What is on its way is of the offer in the table or of an older one.
Remembered(r) ==
  IF Offer(r) = None THEN Traced(r) => ~Driven(r)
  ELSE /\ \A t \in tasks : t.req = r /\ t.pc = "send" => Made(r, t.cand, t.attempt)
       /\ \A m \in outbox : m.req = r => Made(r, m.courier, m.attempt)
       /\ \A c \in Couriers : LET a == offered[c][Delivery[r]] IN a # 0 => Made(r, c, a)
       /\ \A m \in Results3 : m.delivery = Delivery[r] =>
            /\ m.attempt <= Offer(r).attempt
            /\ (m.attempt = Offer(r).attempt /\ m.accepted => Yes(r, Offer(r).cand))

\* The log is a course that the driver is to go on with.
OnCourse(r) ==
  /\ Waiting(r) => Log(r) = <<>>
  /\ \A t \in tasks : t.req = r =>
       /\ t.status = "Accepted" => Yes(r, t.cand)
       /\ t.pc = "publish" =>
            IF Log(r) = <<>> THEN t.status = "Assigned" /\ t.cand = 1
            ELSE LegalStep(Top(r), [status |-> t.status, courier |-> t.cand, req |-> r])
       /\ t.pc = "reply" =>
            Log(r) # <<>> /\ Top(r) = [status |-> t.status, courier |-> t.cand, req |-> r]
  /\ Live(Delivery[r]) =>
       /\ Log(r) # <<>>
       /\ Top(r).status \in {"Assigned", "Reassigned"} /\ Top(r).courier = Offer(r).cand
  /\ Course(Log(r))
  /\ \A i \in 1 .. Len(Log(r)) :
       Log(r)[i].req = r /\ (Log(r)[i].status = "Accepted" => Yes(r, Log(r)[i].courier))

\* One that is not driven is not posted, or has ended or lost a message.
Settled(r) ==
  IF r \in posted THEN Driven(r) \/ Ended(Delivery[r]) \/ r \in lost
  ELSE ~Driven(r) /\ ~Traced(r) /\ Offer(r) = None /\ Log(r) = <<>>

Sound(r) ==
  /\ Offer(r) # None => Offer(r).req = r
  /\ Alone(r) /\ Remembered(r) /\ OnCourse(r) /\ Settled(r)

Inv == TypeOK /\ (sweeping \/ batch = Nothing) /\ \A r \in Requests : Sound(r)

Tasks == [req : Requests, cand : Couriers, status : Statuses,
          pc : {"publish", "reply", "send"}, attempt : Nat]
Entries == [status : Statuses, courier : Couriers, req : Requests]

-----------------------------------------------------------------------------
LEMMA TypeInit == Init => TypeOK
<1> SUFFICES ASSUME Init PROVE TypeOK
  OBVIOUS
<1>1. Nothing \in Inbox
  BY DEF Nothing, Inbox
<1>2. evidence \in [Deliveries -> Seq(Entries)]
  BY EmptySeq DEF Init
<1>3. offers \in [Deliveries -> {None} \cup Offers]
  BY DEF Init
<1>4. offered \in [Couriers -> [Deliveries -> Nat]]
  BY DEF Init
<1>5. customer \in BOOLEAN /\ sweeping \in BOOLEAN
  BY Zenon DEF Init
<1> QED
  BY <1>1, <1>2, <1>3, <1>4, <1>5 DEF Init, TypeOK, Entries

\* An inbox with another set of assignments or decisions.
LEMMA InboxUpdate ==
  ASSUME NEW x \in Inbox, NEW A \in SUBSET Requests, NEW R \in SUBSET Results
  PROVE  /\ [x EXCEPT !.assigns = A] \in Inbox
         /\ [x EXCEPT !.results = R] \in Inbox
         /\ x.assigns \subseteq Requests /\ x.results \subseteq Results
BY DEF Inbox

LEMMA ReassignType ==
  ASSUME NEW o \in Offers
  PROVE  Reassign(o) \in Tasks
BY DispatchAssumption DEF Reassign, Offers, Tasks, Task, Couriers, Statuses

LEMMA TypeNext == ASSUME TypeOK, [Next]_vars PROVE TypeOK'
<1> USE DEF TypeOK
<1>0. /\ \A d \in Deliveries : Live(d) => offers[d] \in Offers
      /\ \A r \in Requests : Delivery[r] \in Deliveries
      /\ tasks \in SUBSET Tasks
      /\ 1 \in Couriers
  BY DispatchAssumption DEF Live, Deliveries, Tasks, Couriers
<1>1. ASSUME NEW r \in Requests, Create(r) \/ AdmitAssign(r) \/ LoseAssign(r)
      PROVE  TypeOK'
  <2>1. CASE Create(r)
    <3>1. channel' \in Inbox
      BY <2>1, InboxUpdate DEF Create
    <3> QED
      BY <2>1, <3>1 DEF Create, dispatch, couriers
  <2>2. CASE AdmitAssign(r)
    <3>1. channel' \in Inbox /\ pending' \in Inbox
      BY <2>2, InboxUpdate DEF AdmitAssign
    <3> QED
      BY <2>2, <3>1 DEF AdmitAssign, couriers
  <2>3. CASE LoseAssign(r)
    <3>1. channel' \in Inbox
      BY <2>3, InboxUpdate DEF LoseAssign
    <3> QED
      BY <2>3, <3>1 DEF LoseAssign, dispatch, couriers
  <2> QED
    BY <1>1, <2>1, <2>2, <2>3
<1>2. ASSUME NEW m \in channel.results, AdmitResult(m) \/ LoseResult(m)
      PROVE  TypeOK'
  <2>1. CASE AdmitResult(m)
    <3>1. channel' \in Inbox /\ pending' \in Inbox
      BY <2>1, InboxUpdate DEF AdmitResult
    <3> QED
      BY <2>1, <3>1 DEF AdmitResult, couriers
  <2>2. CASE LoseResult(m)
    <3>1. channel' \in Inbox
      BY <2>2, InboxUpdate DEF LoseResult
    <3> QED
      BY <2>2, <3>1 DEF LoseResult, dispatch, couriers
  <2> QED
    BY <1>2, <2>1, <2>2
<1>3. CASE TakePending
  BY <1>3 DEF TakePending, Nothing, couriers, Inbox
<1>4. ASSUME NEW r \in Requests, StartAssignment(r)
      PROVE  TypeOK'
  <2>1. batch' \in Inbox
    BY <1>4, InboxUpdate DEF StartAssignment
  <2>2. tasks' \subseteq Tasks
    BY <1>0, <1>4 DEF StartAssignment, Task, Tasks, Statuses
  <2> QED
    BY <1>4, <2>1, <2>2 DEF StartAssignment, couriers, Tasks
<1>5. ASSUME NEW m \in batch.results, SettleDecision(m)
      PROVE  TypeOK'
  <2>0. batch' \in Inbox
    BY <1>5, InboxUpdate DEF SettleDecision
  <2>1. CASE Current(m)
    <3>1. /\ m.delivery \in Deliveries /\ offers[m.delivery] \in Offers
      BY <1>0, <2>1 DEF Current, Inbox, Results
    <3>2. tasks' \subseteq Tasks
      <4>1. Reassign(offers[m.delivery]) \in Tasks
        BY <3>1, ReassignType
      <4>2. Task(offers[m.delivery].req, offers[m.delivery].cand, "Accepted") \in Tasks
        BY <3>1 DEF Task, Tasks, Statuses, Offers
      <4> QED
        BY <1>0, <1>5, <2>1, <4>1, <4>2 DEF SettleDecision
    <3>3. offers' \in [Deliveries -> {None} \cup Offers]
      <4>1. [offers[m.delivery] EXCEPT !.settled = TRUE] \in Offers
        BY <3>1 DEF Offers
      <4> QED
        BY <1>5, <2>1, <3>1, <4>1 DEF SettleDecision, Settle
    <3> QED
      BY <1>5, <2>0, <3>2, <3>3 DEF SettleDecision, couriers, Tasks
  <2>2. CASE ~Current(m)
    BY <1>5, <2>0, <2>2 DEF SettleDecision, couriers
  <2> QED
    BY <2>1, <2>2
<1>6. CASE ExpireOffers
  <2>1. offers' \in [Deliveries -> {None} \cup Offers]
    BY <1>0, <1>6 DEF ExpireOffers, Expired, Offers
  <2>2. tasks' \subseteq Tasks
    BY <1>0, <1>6, ReassignType DEF ExpireOffers, Expired
  <2> QED
    BY <1>6, <2>1, <2>2 DEF ExpireOffers, couriers, Tasks
<1>7. ASSUME NEW d \in Deliveries, DeadlinePasses(d)
      PROVE  TypeOK'
  <2>1. offers' \in [Deliveries -> {None} \cup Offers]
    BY <1>0, <1>7 DEF DeadlinePasses, Offers
  <2> QED
    BY <1>7, <2>1 DEF DeadlinePasses, couriers
<1>8. ASSUME NEW t \in tasks, Coroutine(t)
      PROVE  TypeOK'
  <2>0. t \in Tasks /\ t.req \in Requests /\ Delivery[t.req] \in Deliveries
    BY <1>0 DEF Tasks
  <2>1. CASE Track(t)
    <3>1. [status |-> t.status, courier |-> t.cand, req |-> t.req] \in Entries
      BY <2>0 DEF Tasks, Entries
    <3>2. evidence' \in [Deliveries -> Seq(Entries)]
      BY <2>0, <2>1, <3>1, AppendProperties DEF Track, Entries
    <3>3. tasks' \subseteq Tasks /\ lost' \subseteq Requests
      <4>1. [t EXCEPT !.pc = "reply"] \in Tasks
        BY <2>0 DEF Tasks
      <4> QED
        BY <1>0, <2>0, <2>1, <4>1 DEF Track
    <3> QED
      BY <2>1, <3>2, <3>3 DEF Track, couriers, Entries, Tasks
  <2>2. CASE PublishNext(t)
    <3>1. tasks' \subseteq Tasks
      BY <1>0, <2>0, <2>2 DEF PublishNext, Task, Tasks, Statuses
    <3> QED
      BY <2>2, <3>1 DEF PublishNext, couriers, Tasks
  <2>3. CASE RecordOffer(t)
    <3> DEFINE n == IF offers[Delivery[t.req]] = None THEN 1 ELSE offers[Delivery[t.req]].attempt + 1
    <3>1. n \in Nat
      BY <2>0 DEF Offers
    <3>2. tasks' \subseteq Tasks
      BY <1>0, <2>0, <2>3, <3>1 DEF RecordOffer, Tasks
    <3>3. offers' \in [Deliveries -> {None} \cup Offers]
      BY <2>0, <2>3, <3>1 DEF RecordOffer, Tasks, Offers
    <3> QED
      BY <2>3, <3>2, <3>3 DEF RecordOffer, couriers, Tasks
  <2>4. CASE Close(t)
    BY <2>0, <2>4 DEF Close, couriers
  <2>5. CASE SendOffer(t)
    <3>1. outbox' \subseteq [courier : Couriers, req : Requests, attempt : Nat]
      BY <2>0, <2>5 DEF SendOffer, Tasks
    <3> QED
      BY <2>5, <3>1 DEF SendOffer, couriers
  <2> QED
    BY <1>8, <2>1, <2>2, <2>3, <2>4, <2>5 DEF Coroutine
<1>9. CASE Clients
  <2>1. ASSUME NEW n \in shown, NEW accepted \in BOOLEAN, Decide(n, accepted)
        PROVE  TypeOK'
    <3>1. /\ n.req \in Requests /\ n.courier \in Couriers
          /\ offered[n.courier][Delivery[n.req]] \in Nat
      BY <1>0
    <3>2. [delivery |-> Delivery[n.req], courier |-> n.courier,
           attempt |-> offered[n.courier][Delivery[n.req]], accepted |-> accepted] \in Results
      BY <1>0, <3>1 DEF Results
    <3>3. channel' \in Inbox
      BY <2>1, <3>2, InboxUpdate DEF Decide
    <3>4. offered' \in [Couriers -> [Deliveries -> Nat]]
      BY <1>0, <2>1, <3>1 DEF Decide
    <3>5. answers' \subseteq [courier : Couriers, req : Requests, accepted : BOOLEAN]
      BY <2>1, <3>1 DEF Decide
    <3> QED
      BY <2>1, <3>3, <3>4, <3>5 DEF Decide, dispatch
  <2> QED
    BY <1>1, <1>9, <2>1 DEF Clients, BindCourier, SubscribeCustomer, dispatch, couriers
<1>10. ASSUME NEW m \in outbox, OfferArrives(m)
       PROVE  TypeOK'
  <2>1. m.courier \in Couriers /\ m.req \in Requests /\ m.attempt \in Nat
    OBVIOUS
  <2>2. offered' \in [Couriers -> [Deliveries -> Nat]]
    BY <1>0, <1>10, <2>1 DEF OfferArrives
  <2>3. shown' \subseteq [courier : Couriers, req : Requests]
    BY <1>10, <2>1 DEF OfferArrives
  <2> QED
    BY <1>10, <2>2, <2>3 DEF OfferArrives, dispatch
<1>11. CASE LossOfMessages
  BY <1>2, <1>11 DEF LossOfMessages, OfferFails, LoseOffer, couriers, dispatch
<1>12. CASE LossOfStatus
  BY <1>1, <1>12 DEF LossOfStatus, PublishFails, couriers
<1>13. CASE UNCHANGED vars
  BY <1>13 DEF vars, dispatch, couriers
<1> QED
  BY <1>1, <1>2, <1>3, <1>4, <1>5, <1>6, <1>7, <1>8, <1>9, <1>10, <1>11, <1>12, <1>13
     DEF Next, Normal, Channel, Sweep

-----------------------------------------------------------------------------
(* A step that leaves a request's driver alone *)

SameOffer(r) ==
  /\ Offer(r)' = None <=> Offer(r) = None
  /\ Offer(r) # None =>
       /\ Offer(r)'.req = Offer(r).req /\ Offer(r)'.cand = Offer(r).cand
       /\ Offer(r)'.attempt = Offer(r).attempt /\ (Offer(r)'.settled <=> Offer(r).settled)

Same(r) ==
  /\ r \in posted' <=> r \in posted
  /\ r \in lost => r \in lost'
  /\ (Waiting(r)' <=> Waiting(r)) /\ OnePlace(r)'
  /\ \A t \in tasks' : t.req = r => t \in tasks
  /\ \A t \in tasks : t.req = r /\ t.pc # "send" => t \in tasks'
  /\ SameOffer(r) /\ Log(r)' = Log(r) /\ answers \subseteq answers'

\* What is on its way becomes no more.
FewerTraces(r) ==
  /\ \A m \in outbox' : m.req = r => m \in outbox
  /\ \A c \in Couriers : offered'[c][Delivery[r]] \in {0, offered[c][Delivery[r]]}
  /\ \A m \in Results3' : m.delivery = Delivery[r] => m \in Results3

LEMMA SameDriver ==
  ASSUME NEW r \in Requests, Same(r)
  PROVE  /\ Working(r)' <=> Working(r)
         /\ Live(Delivery[r])' <=> Live(Delivery[r])
         /\ Driven(r)' <=> Driven(r)
<1>1. Working(r)' <=> Working(r)
  BY DEF Same, Working, Works
<1>2. Live(Delivery[r])' <=> Live(Delivery[r])
  BY DEF Same, SameOffer, Offer, Live
<1> QED
  BY <1>1, <1>2 DEF Same, Driven

LEMMA SameSound ==
  ASSUME NEW r \in Requests, Sound(r), Same(r), Remembered(r)', Traced(r)' => Traced(r)
  PROVE  Sound(r)'
<1>1. (Offer(r) # None => Offer(r).req = r)'
  BY DEF Sound, Same, SameOffer
<1>2. Alone(r)'
  BY SameDriver DEF Sound, Same, Alone, Works
<1>3. OnCourse(r)'
  <2>1. \A c : Yes(r, c) => Yes(r, c)'
    BY DEF Same, Yes
  <2>2. Top(r)' = Top(r)
    BY DEF Same, Top
  <2>3. Live(Delivery[r])' => Offer(r)'.cand = Offer(r).cand
    BY DEF Same, SameOffer, Offer, Live
  <2> QED
    BY SameDriver, <2>1, <2>2, <2>3 DEF Sound, Same, OnCourse
<1>4. Ended(Delivery[r])' <=> Ended(Delivery[r])
  BY DEF Same, Log, Ended
<1>5. Settled(r)'
  BY SameDriver, <1>4 DEF Sound, Settled, Same, SameOffer
<1> QED
  BY <1>1, <1>2, <1>3, <1>5 DEF Sound

LEMMA FewerRemembered ==
  ASSUME NEW r \in Requests, Sound(r), Same(r), FewerTraces(r)
  PROVE  Remembered(r)' /\ (Traced(r)' => Traced(r))
<1>1. Traced(r)' => Traced(r)
  BY DEF Same, FewerTraces, Traced
<1>2. CASE Offer(r) = None
  BY SameDriver, <1>1, <1>2 DEF Sound, Remembered, Same, SameOffer
<1>3. CASE Offer(r) # None
  <2>1. \A c, a : Made(r, c, a) => Made(r, c, a)'
    BY <1>3 DEF Same, SameOffer, Made
  <2>2. /\ Offer(r)' # None /\ Offer(r)'.attempt = Offer(r).attempt
        /\ Yes(r, Offer(r).cand) => Yes(r, Offer(r).cand)'
    BY <1>3 DEF Same, SameOffer, Yes
  <2>3. Remembered(r)
    BY DEF Sound
  <2>4. ASSUME NEW t \in tasks', t.req = r, t.pc = "send" PROVE Made(r, t.cand, t.attempt)'
    BY <1>3, <2>1, <2>3, <2>4 DEF Remembered, Same
  <2>5. ASSUME NEW m \in outbox', m.req = r PROVE Made(r, m.courier, m.attempt)'
    BY <1>3, <2>1, <2>3, <2>5 DEF Remembered, FewerTraces
  <2>6. ASSUME NEW c \in Couriers, offered'[c][Delivery[r]] # 0
        PROVE  Made(r, c, offered[c][Delivery[r]])'
    BY <1>3, <2>1, <2>3, <2>6 DEF Remembered, FewerTraces
  <2>7. ASSUME NEW m \in Results3', m.delivery = Delivery[r]
        PROVE  /\ m.attempt <= Offer(r)'.attempt
               /\ (m.attempt = Offer(r)'.attempt /\ m.accepted => Yes(r, Offer(r).cand)')
    BY <1>3, <2>2, <2>3, <2>7 DEF Remembered, FewerTraces
  <2> QED
    BY <1>1, <2>2, <2>4, <2>5, <2>6, <2>7 DEF Remembered
<1> QED
  BY <1>1, <1>2, <1>3

LEMMA Untouched ==
  ASSUME NEW r \in Requests, Sound(r), Same(r), FewerTraces(r)
  PROVE  Sound(r)'
BY SameSound, FewerRemembered

-----------------------------------------------------------------------------
(* Steps that leave every driver alone *)

LEMMA QuietSteps ==
  ASSUME Inv,
         \/ \E r \in Requests : AdmitAssign(r)
         \/ \E m \in channel.results : AdmitResult(m) \/ LoseResult(m)
         \/ TakePending
         \/ \E d \in Deliveries : DeadlinePasses(d)
         \/ \E c \in Couriers : BindCourier(c)
         \/ SubscribeCustomer
         \/ \E t \in tasks : OfferFails(t)
         \/ \E m \in outbox : LoseOffer(m)
         \/ UNCHANGED vars,
         NEW q \in Requests
  PROVE  Sound(q)'
<1> SUFFICES Same(q) /\ FewerTraces(q)
  BY Untouched DEF Inv
<1>0. TypeOK /\ Alone(q)
  BY DEF Inv, Sound
<1>1. ASSUME NEW r \in Requests, AdmitAssign(r)
      PROVE  Same(q) /\ FewerTraces(q)
  BY <1>0, <1>1 DEF AdmitAssign, Same, SameOffer, FewerTraces, Waiting, OnePlace, Alone, Offer, Log,
                    Results3, couriers, TypeOK, Inbox
<1>2. ASSUME NEW m \in channel.results, AdmitResult(m) \/ LoseResult(m)
      PROVE  Same(q) /\ FewerTraces(q)
  <2>1. /\ channel'.assigns = channel.assigns /\ pending'.assigns = pending.assigns
        /\ UNCHANGED <<posted, batch, offers, tasks, evidence, outbox, offered, answers, lost>>
        /\ Results3' \subseteq Results3
    <3>1. CASE AdmitResult(m)
      BY <1>0, <3>1 DEF AdmitResult, Results3, couriers, TypeOK, Inbox
    <3>2. CASE LoseResult(m)
      BY <1>0, <3>2 DEF LoseResult, Results3, couriers, dispatch, TypeOK, Inbox
    <3> QED
      BY <1>2, <3>1, <3>2
  <2> QED
    BY <1>0, <2>1 DEF Same, SameOffer, FewerTraces, Waiting, OnePlace, Alone, Offer, Log
<1>3. CASE TakePending
  <2>1. batch = Nothing
    BY <1>3 DEF Inv, TakePending
  <2> QED
    BY <1>0, <1>3, <2>1 DEF TakePending, Nothing, Same, SameOffer, FewerTraces, Waiting, OnePlace, Alone,
                            Offer, Log, Results3, couriers, TypeOK, Inbox
<1>4. ASSUME NEW d \in Deliveries, DeadlinePasses(d)
      PROVE  Same(q) /\ FewerTraces(q)
  <2>1. SameOffer(q)
    <3>1. Delivery[q] \in Deliveries /\ offers[d] \in Offers /\ offers[d] # None
      BY <1>0, <1>4 DEF DeadlinePasses, Live, TypeOK, Deliveries
    <3>2. /\ [offers[d] EXCEPT !.due = TRUE] \in Offers
          /\ [offers[d] EXCEPT !.due = TRUE].req = offers[d].req
          /\ [offers[d] EXCEPT !.due = TRUE].cand = offers[d].cand
          /\ [offers[d] EXCEPT !.due = TRUE].attempt = offers[d].attempt
          /\ [offers[d] EXCEPT !.due = TRUE].settled = offers[d].settled
      BY <3>1 DEF Offers
    <3>3. offers' = [offers EXCEPT ![d] = [offers[d] EXCEPT !.due = TRUE]]
      BY <1>4 DEF DeadlinePasses
    <3>4. CASE Delivery[q] = d
      BY <1>0, <3>1, <3>2, <3>3, <3>4, NoneAssumption DEF SameOffer, Offer, TypeOK
    <3>5. CASE Delivery[q] # d
      BY <1>0, <3>1, <3>3, <3>5 DEF SameOffer, Offer, TypeOK
    <3> QED
      BY <3>4, <3>5
  <2> QED
    BY <1>0, <1>4, <2>1 DEF DeadlinePasses, Same, FewerTraces, Waiting, OnePlace, Alone, Log, Results3,
                            couriers
<1>5. CASE UNCHANGED <<posted, channel, dispatch, evidence, outbox, offered, answers, lost>>
  BY <1>0, <1>5 DEF dispatch, Same, SameOffer, FewerTraces, Waiting, OnePlace, Alone, Offer, Log, Results3
<1>6. ASSUME NEW t \in tasks, OfferFails(t)
      PROVE  Same(q) /\ FewerTraces(q)
  BY <1>0, <1>6 DEF OfferFails, Same, SameOffer, FewerTraces, Waiting, OnePlace, Alone, Offer, Log,
                    Results3, couriers
<1>7. ASSUME NEW m \in outbox, LoseOffer(m)
      PROVE  Same(q) /\ FewerTraces(q)
  BY <1>0, <1>7 DEF LoseOffer, Same, SameOffer, FewerTraces, Waiting, OnePlace, Alone, Offer, Log,
                    Results3, couriers, dispatch
<1> QED
  BY <1>1, <1>2, <1>3, <1>4, <1>5, <1>6, <1>7
     DEF BindCourier, SubscribeCustomer, vars, dispatch, couriers

\* The offer goes to the courier's actor.
LEMMA SendOfferStep ==
  ASSUME Inv, NEW t \in tasks, SendOffer(t), NEW q \in Requests
  PROVE  Sound(q)'
<1>0. TypeOK /\ Sound(q)
  BY DEF Inv
<1>1. Same(q)
  BY <1>0 DEF SendOffer, Sound, Same, SameOffer, Waiting, OnePlace, Alone, Offer, Log, couriers
<1>2. CASE t.req # q
  BY <1>0, <1>1, <1>2, Untouched DEF SendOffer, FewerTraces, Results3, couriers
<1>3. CASE t.req = q
  <2>1. Traced(q)' => Traced(q)
    BY <1>3 DEF SendOffer, Traced, Results3, couriers
  <2>2. Remembered(q)'
    <3>1. CASE Offer(q) = None
      BY <1>0, <1>1, <2>1, <3>1, SameDriver DEF Sound, Remembered, Same, SameOffer
    <3>2. CASE Offer(q) # None
      <4>1. Made(q, t.cand, t.attempt)
        BY <1>0, <1>3, <3>2 DEF SendOffer, Sound, Remembered
      <4>2. Offer(q)' = Offer(q) /\ offered' = offered /\ Results3' = Results3 /\ answers' = answers
        BY DEF SendOffer, Offer, Results3, couriers
      <4>3. \A m \in outbox' : m \in outbox \/ (m.courier = t.cand /\ m.attempt = t.attempt)
        <5> DEFINE sent == [courier |-> t.cand, req |-> t.req, attempt |-> t.attempt]
        <5>1. sent.courier = t.cand /\ sent.attempt = t.attempt
          OBVIOUS
        <5>2. outbox' \subseteq outbox \cup {sent}
          BY DEF SendOffer
        <5> QED
          BY <5>1, <5>2
      <4> QED
        BY <1>0, <1>3, <3>2, <4>1, <4>2, <4>3 DEF SendOffer, Sound, Remembered, Made, Yes
    <3> QED
      BY <3>1, <3>2
  <2> QED
    BY <1>0, <1>1, <2>1, <2>2, SameSound
<1> QED
  BY <1>2, <1>3

\* The courier's actor remembers its attempt.
LEMMA OfferArrivesStep ==
  ASSUME Inv, Distinct, NEW n \in outbox, OfferArrives(n), NEW q \in Requests
  PROVE  Sound(q)'
<1>0. /\ TypeOK /\ Sound(q) /\ n.req \in Requests /\ n.courier \in Couriers
      /\ Delivery[q] \in Deliveries /\ Delivery[n.req] \in Deliveries
  BY DEF Inv, TypeOK, Deliveries
<1>1. Same(q)
  BY <1>0 DEF OfferArrives, Sound, Same, SameOffer, Waiting, OnePlace, Alone, Offer, Log, dispatch
<1>a. \A c \in Couriers :
        \/ offered'[c][Delivery[q]] = offered[c][Delivery[q]]
        \/ n.req = q /\ n.courier = c /\ offered'[c][Delivery[q]] = n.attempt
  BY <1>0 DEF OfferArrives, Distinct, TypeOK
<1>2. CASE n.req # q
  BY <1>0, <1>1, <1>a, <1>2, Untouched DEF OfferArrives, FewerTraces, Results3, dispatch
<1>3. CASE n.req = q
  <2>1. Traced(q)' => Traced(q)
    BY <1>3, <1>a DEF OfferArrives, Traced, Results3, dispatch
  <2>2. Remembered(q)'
    <3>1. CASE Offer(q) = None
      BY <1>0, <1>1, <2>1, <3>1, SameDriver DEF Sound, Remembered, Same, SameOffer
    <3>2. CASE Offer(q) # None
      <4>1. Made(q, n.courier, n.attempt)
        BY <1>0, <1>3, <3>2 DEF Sound, Remembered
      <4>2. /\ Offer(q)' = Offer(q) /\ Results3' = Results3 /\ answers' = answers /\ tasks' = tasks
            /\ outbox' \subseteq outbox
        BY DEF OfferArrives, Offer, Results3, dispatch
      <4> QED
        BY <1>0, <1>a, <3>2, <4>1, <4>2 DEF Sound, Remembered, Made, Yes
    <3> QED
      BY <3>1, <3>2
  <2> QED
    BY <1>0, <1>1, <2>1, <2>2, SameSound
<1> QED
  BY <1>2, <1>3

\* The courier's answer is for the attempt that its actor remembers.
LEMMA DecideStep ==
  ASSUME Inv, Distinct, NEW n \in shown, NEW accepted \in BOOLEAN, Decide(n, accepted),
         NEW q \in Requests
  PROVE  Sound(q)'
<1> DEFINE a == offered[n.courier][Delivery[n.req]]
           m == [delivery |-> Delivery[n.req], courier |-> n.courier, attempt |-> a,
                 accepted |-> accepted]
<1>0. /\ TypeOK /\ Sound(q) /\ n.req \in Requests /\ n.courier \in Couriers
      /\ Delivery[q] \in Deliveries /\ Delivery[n.req] \in Deliveries
  BY DEF Inv, TypeOK, Deliveries
<1>1. Same(q)
  BY <1>0 DEF Decide, Sound, Same, SameOffer, Waiting, OnePlace, Alone, Offer, Log, dispatch, TypeOK, Inbox
<1>2. \A c \in Couriers : offered'[c][Delivery[q]] \in {0, offered[c][Delivery[q]]}
  BY <1>0 DEF Decide, TypeOK
<1>3. Results3' = Results3 \cup {m} /\ a # 0 /\ outbox' = outbox /\ tasks' = tasks
  BY <1>0 DEF Decide, Results3, dispatch, TypeOK, Inbox
<1>4. CASE n.req # q
  BY <1>0, <1>1, <1>2, <1>3, <1>4, Untouched DEF FewerTraces, Distinct
<1>5. CASE n.req = q
  <2>1. Traced(q)' => Traced(q)
    BY <1>0, <1>2, <1>3, <1>5 DEF Traced
  <2>2. Remembered(q)'
    <3>1. CASE Offer(q) = None
      BY <1>0, <1>1, <2>1, <3>1, SameDriver DEF Sound, Remembered, Same, SameOffer
    <3>2. CASE Offer(q) # None
      <4>1. Made(q, n.courier, a)
        BY <1>0, <1>3, <1>5, <3>2 DEF Sound, Remembered
      <4>2. /\ Offer(q)' = Offer(q) /\ answers \subseteq answers'
            /\ accepted => Yes(q, n.courier)'
        BY <1>5 DEF Decide, Offer, dispatch, Yes
      <4>3. /\ m.attempt <= Offer(q).attempt
            /\ (m.attempt = Offer(q).attempt /\ m.accepted => Yes(q, Offer(q).cand)')
        BY <4>1, <4>2 DEF Made
      <4>4. ASSUME NEW k \in Results3', k.delivery = Delivery[q]
            PROVE  /\ k.attempt <= Offer(q).attempt
                   /\ (k.attempt = Offer(q).attempt /\ k.accepted => Yes(q, Offer(q).cand)')
        BY <1>0, <1>3, <3>2, <4>2, <4>3, <4>4 DEF Sound, Remembered, Yes
      <4> HIDE DEF m, a
      <4> QED
        BY <1>0, <1>2, <1>3, <3>2, <4>2, <4>4 DEF Sound, Remembered, Made
    <3> QED
      BY <3>1, <3>2
  <2> QED
    BY <1>0, <1>1, <2>1, <2>2, SameSound
<1> QED
  BY <1>4, <1>5

-----------------------------------------------------------------------------
(* Steps that move a request's driver *)

\* What such a step does to the other requests.
Elsewhere(r) == \A q \in Requests \ {r} : Same(q) /\ FewerTraces(q)

LEMMA OneMoves ==
  ASSUME Inv, NEW r \in Requests, Elsewhere(r), Sound(r)', NEW q \in Requests
  PROVE  Sound(q)'
BY Untouched DEF Inv, Elsewhere

LEMMA CreateStep ==
  ASSUME Inv, NEW r \in Requests, Create(r), NEW q \in Requests
  PROVE  Sound(q)'
<1>0. TypeOK /\ Sound(r) /\ \A p \in Requests : Alone(p)
  BY DEF Inv, Sound
<1>1. /\ posted' = posted \cup {r} /\ channel'.assigns = channel.assigns \cup {r}
      /\ r \notin posted /\ Results3' = Results3
      /\ UNCHANGED <<pending, batch, offers, tasks, evidence, outbox, offered, answers, lost>>
  BY <1>0 DEF Create, dispatch, couriers, Results3, TypeOK, Inbox
<1>2. Elsewhere(r)
  BY <1>0, <1>1 DEF Elsewhere, Same, SameOffer, FewerTraces, Waiting, OnePlace, Alone, Offer, Log
<1>3. ~Driven(r) /\ ~Traced(r) /\ Offer(r) = None /\ Log(r) = <<>>
  BY <1>0, <1>1 DEF Sound, Settled
<1>4. \A t \in tasks : t.req # r
  BY <1>3 DEF Driven, Working, Works, Traced
<1>5. Alone(r)'
  BY <1>1, <1>3, <1>4 DEF Alone, OnePlace, Waiting, Driven, Working, Works, Live
<1>6. Remembered(r)'
  BY <1>1, <1>3 DEF Remembered, Traced, Offer
<1>7. OnCourse(r)' /\ Settled(r)'
  BY <1>0, <1>1, <1>3, <1>4 DEF Sound, OnCourse, Settled, Driven, Waiting, Live, Log, Offer, Top, Yes
<1> QED
  BY <1>1, <1>2, <1>3, <1>5, <1>6, <1>7, OneMoves DEF Sound, Offer

LEMMA LoseAssignStep ==
  ASSUME Inv, NEW r \in Requests, LoseAssign(r), NEW q \in Requests
  PROVE  Sound(q)'
<1>0. TypeOK /\ Sound(r) /\ \A p \in Requests : Alone(p)
  BY DEF Inv, Sound
<1>1. /\ channel'.assigns = channel.assigns \ {r} /\ r \in channel.assigns
      /\ Results3' = Results3 /\ lost' = lost \cup {r}
      /\ UNCHANGED <<posted, pending, batch, offers, tasks, evidence, outbox, offered, answers>>
  BY <1>0 DEF LoseAssign, dispatch, couriers, Results3, TypeOK, Inbox
<1>2. Elsewhere(r)
  BY <1>0, <1>1 DEF Elsewhere, Same, SameOffer, FewerTraces, Waiting, OnePlace, Alone, Offer, Log
<1>3. Driven(r) /\ r \in posted
  BY <1>0, <1>1 DEF Driven, Waiting, Sound, Settled
<1>4. /\ ~Waiting(r)' /\ ~Working(r) /\ ~Live(Delivery[r]) /\ OnePlace(r)'
      /\ (Working(r)' <=> Working(r)) /\ (Live(Delivery[r])' <=> Live(Delivery[r]))
  BY <1>0, <1>1 DEF Sound, Alone, OnePlace, Waiting, Working, Works, Live
<1>5. Alone(r)' /\ ~Driven(r)'
  BY <1>0, <1>1, <1>4 DEF Alone, Driven, Works
<1>6. Remembered(r)'
  BY <1>0, <1>1, <1>5 DEF Sound, Remembered, Traced, Offer, Made, Yes
<1>7. OnCourse(r)' /\ Settled(r)'
  BY <1>0, <1>1, <1>3, <1>4 DEF Sound, OnCourse, Settled, Log, Offer, Top, Yes
<1> QED
  BY <1>0, <1>1, <1>2, <1>5, <1>6, <1>7, OneMoves DEF Sound, Offer

LEMMA StartAssignmentStep ==
  ASSUME Inv, NEW r \in Requests, StartAssignment(r), NEW q \in Requests
  PROVE  Sound(q)'
<1> DEFINE u == Task(r, 1, "Assigned")
<1>0. TypeOK /\ Sound(r) /\ \A p \in Requests : Alone(p)
  BY DEF Inv, Sound
<1>1. /\ batch'.assigns = batch.assigns \ {r} /\ r \in batch.assigns
      /\ Results3' = Results3 /\ tasks' = tasks \cup {u}
      /\ UNCHANGED <<posted, channel, pending, offers, evidence, outbox, offered, answers, lost>>
  BY <1>0 DEF StartAssignment, couriers, Results3, TypeOK, Inbox
<1>2. u.req = r /\ u.cand = 1 /\ u.status = "Assigned" /\ u.pc = "publish"
  BY DEF Task
<1> HIDE DEF u
<1>3. Elsewhere(r)
  BY <1>0, <1>1, <1>2 DEF Elsewhere, Same, SameOffer, FewerTraces, Waiting, OnePlace, Alone, Offer, Log
<1>4. Driven(r) /\ Waiting(r) /\ ~Working(r) /\ ~Live(Delivery[r]) /\ Log(r) = <<>>
  BY <1>0, <1>1 DEF Driven, Waiting, Sound, Alone, OnCourse
<1>5. ~Waiting(r)' /\ ~Live(Delivery[r])' /\ Works(u, r)'
  BY <1>0, <1>1, <1>2, <1>4 DEF Waiting, Alone, OnePlace, Live, Works
<1>6. \A t \in tasks' : Works(t, r)' => t = u
  BY <1>1, <1>4 DEF Works, Working
<1>7. Alone(r)' /\ Driven(r)'
  BY <1>0, <1>1, <1>5, <1>6 DEF Alone, Driven, OnePlace, Working, Waiting
<1>8. Traced(r)' <=> Traced(r)
  BY <1>1, <1>2 DEF Traced
<1>9. Remembered(r)'
  <2>1. Offer(r)' = Offer(r)
    BY <1>1 DEF Offer
  <2>2. CASE Offer(r) = None
    BY <1>0, <1>4, <1>8, <2>1, <2>2 DEF Sound, Remembered
  <2>3. CASE Offer(r) # None
    BY <1>0, <1>1, <1>2, <2>1, <2>3 DEF Sound, Remembered, Made, Yes
  <2> QED
    BY <2>2, <2>3
<1>10. OnCourse(r)' /\ Settled(r)'
  BY <1>0, <1>1, <1>2, <1>4, <1>5, <1>7, <1>8
     DEF Sound, OnCourse, Settled, Log, Offer, Top, Yes
<1> QED
  BY <1>0, <1>1, <1>3, <1>7, <1>9, <1>10, OneMoves DEF Sound, Offer

-----------------------------------------------------------------------------
(* An offer is taken from the table *)

\* The driver of r becomes coroutine u instead of its live offer.
LEMMA PassesSound ==
  ASSUME NEW r \in Requests, NEW u, Sound(r),
         /\ Live(Delivery[r]) /\ u.req = r /\ u.pc = "publish"
         /\ \A t \in tasks' : t.req = r => t = u \/ t \in tasks
         /\ \A t \in tasks : t.req = r => t \in tasks'
         /\ u \in tasks',
         u.status = "Accepted" => Yes(r, u.cand),
         LegalStep(Top(r), [status |-> u.status, courier |-> u.cand, req |-> r]),
         /\ Offer(r)' # None /\ Offer(r)'.req = Offer(r).req /\ Offer(r)'.cand = Offer(r).cand
         /\ Offer(r)'.attempt = Offer(r).attempt /\ Offer(r)'.settled,
         /\ r \in posted' <=> r \in posted
         /\ (Waiting(r)' <=> Waiting(r)) /\ OnePlace(r)'
         /\ Log(r)' = Log(r) /\ answers' = answers,
         FewerTraces(r)
  PROVE  Sound(r)'
<1>1. /\ Driven(r) /\ ~Waiting(r) /\ ~Working(r) /\ Offer(r) # None /\ Log(r) # <<>>
      /\ r \in posted
  BY DEF Sound, Alone, Driven, Live, Offer, OnCourse, Settled
<1>2. Works(u, r)' /\ ~Live(Delivery[r])' /\ ~Waiting(r)'
  BY <1>1 DEF Works, Live, Offer
<1>3. ASSUME NEW t \in tasks', Works(t, r)' PROVE t = u
  BY <1>1, <1>3 DEF Works, Working
<1>4. Alone(r)' /\ Driven(r)'
  BY <1>2, <1>3 DEF Alone, Driven, Working, Works
<1>5. Remembered(r)'
  <2>1. \A c, a : Made(r, c, a)' <=> Made(r, c, a)
    BY DEF Made
  <2>2. \A c : Yes(r, c)' <=> Yes(r, c)
    BY DEF Yes
  <2>3. Remembered(r)
    BY DEF Sound
  <2>4. ASSUME NEW t \in tasks', t.req = r, t.pc = "send" PROVE Made(r, t.cand, t.attempt)'
    BY <1>1, <2>1, <2>3, <2>4 DEF Remembered
  <2>5. ASSUME NEW m \in outbox', m.req = r PROVE Made(r, m.courier, m.attempt)'
    BY <1>1, <2>1, <2>3, <2>5 DEF Remembered, FewerTraces
  <2>6. ASSUME NEW c \in Couriers, offered'[c][Delivery[r]] # 0
        PROVE  Made(r, c, offered[c][Delivery[r]])'
    BY <1>1, <2>1, <2>3, <2>6 DEF Remembered, FewerTraces
  <2>7. ASSUME NEW m \in Results3', m.delivery = Delivery[r]
        PROVE  /\ m.attempt <= Offer(r)'.attempt
               /\ (m.attempt = Offer(r)'.attempt /\ m.accepted => Yes(r, Offer(r).cand)')
    BY <1>1, <2>2, <2>3, <2>7 DEF Remembered, FewerTraces
  <2> QED
    BY <2>4, <2>5, <2>6, <2>7 DEF Remembered
<1>6. OnCourse(r)'
  <2>1. Top(r)' = Top(r)
    BY DEF Top
  <2>2. \A c : Yes(r, c)' <=> Yes(r, c)
    BY DEF Yes
  <2>3. OnCourse(r)
    BY DEF Sound
  <2>4. ASSUME NEW t \in tasks', t.req = r
        PROVE  /\ t.status = "Accepted" => Yes(r, t.cand)'
               /\ t.pc = "publish" =>
                    LegalStep(Top(r)', [status |-> t.status, courier |-> t.cand, req |-> r])
               /\ t.pc # "reply"
    BY <1>1, <1>3, <2>1, <2>2, <2>3, <2>4 DEF OnCourse, Works
  <2> QED
    BY <1>1, <1>2, <2>1, <2>2, <2>3, <2>4 DEF OnCourse
<1>7. Settled(r)'
  BY <1>1, <1>4 DEF Settled
<1>8. (Offer(r) # None => Offer(r).req = r)'
  BY <1>1 DEF Sound
<1> QED
  BY <1>4, <1>5, <1>6, <1>7, <1>8 DEF Sound

\* Passing an offer on, or giving up after the last courier, is a legal step.
LEMMA ReassignLegal ==
  ASSUME NEW r \in Requests, Sound(r), TypeOK, Live(Delivery[r])
  PROVE  LET u == Reassign(Offer(r))
         IN  /\ u \in Tasks /\ u.req = r /\ u.pc = "publish" /\ u.status # "Accepted"
             /\ LegalStep(Top(r), [status |-> u.status, courier |-> u.cand, req |-> r])
<1>1. /\ Offer(r) \in Offers /\ Offer(r).req = r /\ Offer(r).cand \in Couriers
      /\ Top(r).status \in {"Assigned", "Reassigned"} /\ Top(r).courier = Offer(r).cand
  BY DEF Offer, Live, TypeOK, Offers, Deliveries, Sound, OnCourse
<1>2. Reassign(Offer(r)) \in Tasks
  BY <1>1, ReassignType
<1> QED
  BY <1>1, <1>2 DEF Reassign, Task, LegalStep

\* The table with a delivery's offer settled.
LEMMA SettledOffer ==
  ASSUME NEW o \in Offers
  PROVE  LET p == [o EXCEPT !.settled = TRUE]
         IN  /\ p \in Offers /\ p # None /\ p.settled
             /\ p.req = o.req /\ p.cand = o.cand /\ p.attempt = o.attempt
BY NoneAssumption DEF Offers

LEMMA SettleDecisionStep ==
  ASSUME Inv, Distinct, NEW m \in batch.results, SettleDecision(m), NEW q \in Requests
  PROVE  Sound(q)'
<1>0. /\ TypeOK /\ Sound(q) /\ Alone(q) /\ Delivery[q] \in Deliveries
      /\ \A p \in Requests : Alone(p)
  BY DEF Inv, Sound, Deliveries
<1>1. /\ batch'.assigns = batch.assigns /\ Results3' \subseteq Results3 /\ m \in Results3
      /\ UNCHANGED <<posted, channel, pending, evidence, outbox, offered, answers, lost>>
  BY <1>0 DEF SettleDecision, couriers, Results3, TypeOK, Inbox
<1>2. FewerTraces(q)
  BY <1>1 DEF FewerTraces
<1>3. /\ (Waiting(q)' <=> Waiting(q)) /\ OnePlace(q)' /\ Log(q)' = Log(q)
  BY <1>0, <1>1 DEF Waiting, OnePlace, Alone, Log
<1>4. CASE ~Current(m)
  <2>1. Same(q)
    BY <1>1, <1>3, <1>4 DEF SettleDecision, Same, SameOffer, Offer
  <2> QED
    BY <1>0, <1>2, <2>1, Untouched
<1>5. CASE Current(m)
  <2> DEFINE o == offers[m.delivery]
             u == IF m.accepted THEN Task(o.req, o.cand, "Accepted") ELSE Reassign(o)
  <2>1. /\ Live(m.delivery) /\ m.delivery \in Deliveries /\ o \in Offers /\ o.attempt = m.attempt
        /\ offers' = [offers EXCEPT ![m.delivery] = [o EXCEPT !.settled = TRUE]]
        /\ tasks' = tasks \cup {u}
    BY <1>0, <1>5 DEF SettleDecision, Settle, Current, Live, TypeOK, Inbox, Results
  <2>2. u.req = o.req
    BY DEF Task, Reassign
  <2>3. CASE Delivery[q] # m.delivery
    <3>1. o.req # q
      <4>1. PICK p \in Requests : m.delivery = Delivery[p]
        BY <2>1 DEF Deliveries
      <4> QED
        BY <2>1, <2>3, <4>1 DEF Inv, Sound, Offer, Live
    <3>2. Offer(q)' = Offer(q)
      BY <1>0, <2>1, <2>3 DEF Offer, TypeOK
    <3>3. Same(q)
      <4> HIDE DEF u, o
      <4> QED
        BY <1>1, <1>3, <2>1, <2>2, <3>1, <3>2 DEF Same, SameOffer
    <3> QED
      BY <1>0, <1>2, <3>3, Untouched
  <2>4. CASE Delivery[q] = m.delivery
    <3>1. Live(Delivery[q]) /\ Offer(q) = o /\ o.req = q /\ Offer(q)' = [o EXCEPT !.settled = TRUE]
      BY <1>0, <2>1, <2>4 DEF Live, Offer, Sound, TypeOK
    <3>2. /\ Offer(q)' # None /\ Offer(q)'.req = Offer(q).req /\ Offer(q)'.cand = Offer(q).cand
          /\ Offer(q)'.attempt = Offer(q).attempt /\ Offer(q)'.settled
      BY <2>1, <3>1, SettledOffer
    <3>3. /\ u.req = q /\ u.pc = "publish" /\ (u.status = "Accepted" => Yes(q, u.cand))
          /\ LegalStep(Top(q), [status |-> u.status, courier |-> u.cand, req |-> q])
      <4>1. CASE m.accepted
        <5>1. /\ u.req = q /\ u.pc = "publish" /\ u.status = "Accepted" /\ u.cand = o.cand
          BY <3>1, <4>1 DEF Task
        <5>2. Yes(q, o.cand)
          BY <1>0, <1>1, <2>1, <2>4, <3>1, <4>1 DEF Sound, Remembered, Live
        <5>3. Top(q).status \in {"Assigned", "Reassigned"} /\ Top(q).courier = o.cand
          BY <1>0, <3>1 DEF Sound, OnCourse
        <5> QED
          BY <5>1, <5>2, <5>3 DEF LegalStep
      <4>2. CASE ~m.accepted
        BY <1>0, <3>1, <4>2, ReassignLegal
      <4> QED
        BY <4>1, <4>2
    <3> HIDE DEF u
    <3> QED
      BY <1>0, <1>1, <1>2, <1>3, <2>1, <3>1, <3>2, <3>3, PassesSound
  <2> QED
    BY <2>3, <2>4
<1> QED
  BY <1>4, <1>5

LEMMA ExpireOffersStep ==
  ASSUME Inv, Distinct, ExpireOffers, NEW q \in Requests
  PROVE  Sound(q)'
<1> DEFINE u == Reassign(Offer(q))
<1>0. /\ TypeOK /\ Sound(q) /\ Alone(q) /\ Delivery[q] \in Deliveries
  BY DEF Inv, Sound, Deliveries
<1>1. /\ Results3' = Results3
      /\ UNCHANGED <<posted, channel, pending, batch, evidence, outbox, offered, answers, lost>>
      /\ tasks' = tasks \cup {Reassign(offers[d]) : d \in Expired}
      /\ Offer(q)' = IF Delivery[q] \in Expired THEN [Offer(q) EXCEPT !.settled = TRUE] ELSE Offer(q)
  BY <1>0 DEF ExpireOffers, couriers, Results3, Offer, TypeOK
<1>2. FewerTraces(q)
  BY <1>1 DEF FewerTraces
<1>3. /\ (Waiting(q)' <=> Waiting(q)) /\ OnePlace(q)' /\ Log(q)' = Log(q)
  BY <1>0, <1>1 DEF Waiting, OnePlace, Alone, Log
<1>4. ASSUME NEW d \in Expired, Reassign(offers[d]).req = q PROVE d = Delivery[q]
  <2>1. PICK p \in Requests : d = Delivery[p]
    BY DEF Expired, Deliveries
  <2>2. Reassign(offers[d]).req = offers[d].req
    BY DEF Reassign, Task
  <2>3. offers[d].req = p
    BY <2>1 DEF Inv, Sound, Offer, Expired, Live
  <2> QED
    BY <1>4, <2>1, <2>2, <2>3
<1>5. CASE Delivery[q] \notin Expired
  <2>1. Same(q)
    BY <1>1, <1>3, <1>4, <1>5 DEF Same, SameOffer
  <2> QED
    BY <1>0, <1>2, <2>1, Untouched
<1>6. CASE Delivery[q] \in Expired
  <2>1. Live(Delivery[q]) /\ Offer(q) \in Offers /\ Offer(q)' = [Offer(q) EXCEPT !.settled = TRUE]
    BY <1>0, <1>1, <1>6 DEF Expired, Live, Offer, TypeOK
  <2>2. /\ Offer(q)' # None /\ Offer(q)'.req = Offer(q).req /\ Offer(q)'.cand = Offer(q).cand
        /\ Offer(q)'.attempt = Offer(q).attempt /\ Offer(q)'.settled
    BY <2>1, SettledOffer
  <2>3. /\ u.req = q /\ u.pc = "publish" /\ u.status # "Accepted"
        /\ LegalStep(Top(q), [status |-> u.status, courier |-> u.cand, req |-> q])
    BY <1>0, <2>1, ReassignLegal
  <2>4. /\ u \in tasks' /\ tasks \subseteq tasks'
        /\ \A t \in tasks' : t.req = q => t = u \/ t \in tasks
    BY <1>1, <1>4, <1>6 DEF Offer
  <2> HIDE DEF u
  <2> QED
    BY <1>0, <1>1, <1>2, <1>3, <2>1, <2>2, <2>3, <2>4, PassesSound
<1> QED
  BY <1>5, <1>6

-----------------------------------------------------------------------------
(* The coroutines *)

\* A coroutine before its offer is its request's one driver.
LEMMA OneCoroutine ==
  ASSUME Inv, NEW t \in tasks, t.pc # "send"
  PROVE  /\ t \in Tasks /\ t.req \in Requests /\ Delivery[t.req] \in Deliveries
         /\ Driven(t.req) /\ t.req \in posted
         /\ ~Waiting(t.req) /\ ~Live(Delivery[t.req]) /\ OnePlace(t.req)
         /\ \A v \in tasks : Works(v, t.req) => v = t
<1>1. t \in Tasks /\ t.req \in Requests /\ Delivery[t.req] \in Deliveries
  BY DEF Inv, TypeOK, Tasks, Deliveries
<1>2. Sound(t.req) /\ Works(t, t.req) /\ Working(t.req)
  BY <1>1 DEF Inv, Works, Working
<1> QED
  BY <1>1, <1>2 DEF Sound, Alone, Settled, Driven

\* The other requests, when a coroutine ends or gives way to another of its
\* request.
LEMMA CoroutineElsewhere ==
  ASSUME Inv, Distinct, NEW t \in tasks,
         tasks \ {t} \subseteq tasks' /\ \A u \in tasks' : u \in tasks \/ u.req = t.req,
         \A d \in Deliveries \ {Delivery[t.req]} : offers'[d] = offers[d] /\ evidence'[d] = evidence[d],
         lost \subseteq lost',
         UNCHANGED <<posted, channel, pending, batch, outbox, offered, answers>>
  PROVE  Elsewhere(t.req)
<1> SUFFICES ASSUME NEW q \in Requests \ {t.req}
             PROVE  Same(q) /\ FewerTraces(q)
  BY DEF Elsewhere
<1>1. /\ t.req \in Requests /\ Delivery[q] \in Deliveries \ {Delivery[t.req]} /\ Alone(q)
  BY DEF Inv, Sound, TypeOK, Deliveries, Distinct
<1>2. Offer(q)' = Offer(q) /\ Log(q)' = Log(q)
  BY <1>1 DEF Offer, Log
<1> QED
  BY <1>1, <1>2 DEF Same, SameOffer, FewerTraces, Waiting, OnePlace, Alone, Results3

LEMMA PublishFailsStep ==
  ASSUME Inv, Distinct, NEW t \in tasks, PublishFails(t), NEW q \in Requests
  PROVE  Sound(q)'
<1> DEFINE r == t.req
<1>1. /\ t.pc # "send" /\ tasks' = tasks \ {t} /\ lost' = lost \cup {r}
      /\ UNCHANGED <<posted, channel, pending, batch, offers, evidence, outbox, offered, answers>>
  BY DEF PublishFails, couriers
<1>2. /\ r \in Requests /\ r \in posted /\ ~Waiting(r) /\ ~Live(Delivery[r]) /\ OnePlace(r)
      /\ \A v \in tasks : Works(v, r) => v = t
  BY <1>1, OneCoroutine
<1> HIDE DEF r
<1>3. Sound(r)
  BY <1>2 DEF Inv
<1>4. /\ ~Waiting(r)' /\ ~Live(Delivery[r])' /\ ~Working(r)' /\ OnePlace(r)'
  BY <1>1, <1>2 DEF Waiting, Live, Working, Works, OnePlace
<1>5. Alone(r)' /\ ~Driven(r)'
  BY <1>4 DEF Alone, Driven, Working
<1>6. Remembered(r)'
  BY <1>1, <1>3, <1>5 DEF Sound, Remembered, Traced, Offer, Made, Yes, Results3
<1>7. OnCourse(r)' /\ Settled(r)'
  BY <1>1, <1>2, <1>3, <1>4 DEF Sound, OnCourse, Settled, Log, Offer, Top, Yes
<1>8. Sound(r)'
  BY <1>1, <1>3, <1>5, <1>6, <1>7 DEF Sound, Offer
<1>9. Elsewhere(r)
  BY <1>1, CoroutineElsewhere DEF r
<1> QED
  BY <1>2, <1>8, <1>9, OneMoves

\* A course goes on with a legal step.
LEMMA CourseAppend ==
  ASSUME NEW log \in Seq(Entries), NEW e \in Entries, Course(log),
         IF log = <<>> THEN e.status = "Assigned" /\ e.courier = 1 ELSE LegalStep(log[Len(log)], e)
  PROVE  Course(Append(log, e))
<1>1. /\ Len(Append(log, e)) = Len(log) + 1 /\ Len(log) \in Nat /\ Append(log, e) # <<>>
      /\ \A i \in 1 .. Len(log) : Append(log, e)[i] = log[i]
      /\ Append(log, e)[Len(log) + 1] = e
  BY AppendProperties
<1>2. CASE log = <<>>
  <2>1. Len(log) = 0
    BY <1>2
  <2> QED
    BY <1>1, <1>2, <2>1 DEF Course
<1>3. CASE log # <<>>
  <2>1. Len(log) >= 1
    BY <1>1, <1>3, EmptySeq
  <2>2. ASSUME NEW i \in 1 .. Len(Append(log, e)) - 1
        PROVE  LegalStep(Append(log, e)[i], Append(log, e)[i + 1])
    <3>1. CASE i = Len(log)
      BY <1>1, <1>3, <2>1, <3>1
    <3>2. CASE i # Len(log)
      <4>1. i \in 1 .. Len(log) - 1 /\ i \in 1 .. Len(log) /\ i + 1 \in 1 .. Len(log)
        BY <1>1, <2>1, <3>2
      <4> QED
        BY <1>1, <4>1 DEF Course
    <3> QED
      BY <3>1, <3>2
  <2> QED
    BY <1>1, <1>3, <2>1, <2>2 DEF Course
<1> QED
  BY <1>2, <1>3

LEMMA TrackStep ==
  ASSUME Inv, Distinct, NEW t \in tasks, Track(t), NEW q \in Requests
  PROVE  Sound(q)'
<1> DEFINE r == t.req
           e == [status |-> t.status, courier |-> t.cand, req |-> r]
           u == [t EXCEPT !.pc = "reply"]
<1>1. /\ t.pc = "publish" /\ lost \subseteq lost'
      /\ \/ tasks' = (tasks \ {t}) \cup {u}
         \/ tasks' = tasks \ {t} /\ r \in lost'
      /\ UNCHANGED <<posted, channel, pending, batch, offers, outbox, offered, answers>>
      /\ evidence' = [evidence EXCEPT ![Delivery[r]] = Append(@, e)]
  BY DEF Track, couriers
<1>2. /\ t \in Tasks /\ r \in Requests /\ r \in posted /\ Delivery[r] \in Deliveries
      /\ ~Waiting(r) /\ ~Live(Delivery[r]) /\ OnePlace(r) /\ Driven(r)
      /\ \A v \in tasks : Works(v, r) => v = t
  BY <1>1, OneCoroutine
<1>3. /\ u \in Tasks /\ u.req = r /\ u.cand = t.cand /\ u.status = t.status /\ u.pc = "reply"
      /\ e \in Entries /\ e.status = t.status /\ e.courier = t.cand /\ e.req = r
  BY <1>2 DEF Tasks, Entries
<1>4. Elsewhere(r)
  <2>1. \A d \in Deliveries \ {Delivery[r]} : offers'[d] = offers[d] /\ evidence'[d] = evidence[d]
    BY <1>1, <1>2 DEF Inv, TypeOK
  <2>2. tasks \ {t} \subseteq tasks' /\ \A v \in tasks' : v \in tasks \/ v.req = t.req
    BY <1>1, <1>3
  <2> HIDE DEF u
  <2> QED
    BY <1>1, <2>1, <2>2, CoroutineElsewhere
<1>5. /\ Log(r) \in Seq(Entries) /\ Log(r)' = Append(Log(r), e) /\ TypeOK
  BY <1>1, <1>2 DEF Log, Inv, TypeOK, Entries
<1>6. Sound(r) /\ e = [status |-> t.status, courier |-> t.cand, req |-> r]
  BY <1>2 DEF Inv
<1>7. t.req = r
  OBVIOUS
<1> HIDE DEF r, u, e
<1>8. /\ Len(Log(r)') = Len(Log(r)) + 1 /\ Len(Log(r)) \in Nat /\ Log(r)' # <<>>
      /\ \A i \in 1 .. Len(Log(r)) : Log(r)'[i] = Log(r)[i]
      /\ Log(r)'[Len(Log(r)) + 1] = e
  BY <1>3, <1>5, AppendProperties
<1>9. ~Waiting(r)' /\ ~Live(Delivery[r])' /\ OnePlace(r)'
  BY <1>1, <1>2 DEF Waiting, Live, OnePlace
<1>10. \A v \in tasks' : v.req = r => v = u \/ (v \in tasks /\ v.pc = "send")
  BY <1>1, <1>2 DEF Works
<1>11. Alone(r)' /\ (Driven(r)' \/ r \in lost')
  <2>1. \A v \in tasks' : Works(v, r)' => v = u
    BY <1>10 DEF Works
  <2>2. Working(r)' \/ r \in lost'
    BY <1>1, <1>3 DEF Working, Works
  <2> QED
    BY <1>9, <2>1, <2>2 DEF Alone, Driven
<1>12. Offer(r)' = Offer(r) /\ (Traced(r)' => Traced(r))
  BY <1>1, <1>3, <1>10 DEF Offer, Traced, Results3
<1>13. Remembered(r)'
  <2>1. Results3' = Results3 /\ \A c : Yes(r, c)' <=> Yes(r, c)
    BY <1>1 DEF Results3, Yes
  <2>2. CASE Offer(r) = None
    BY <1>2, <1>6, <1>12, <2>2 DEF Sound, Remembered
  <2>3. CASE Offer(r) # None
    BY <1>1, <1>3, <1>6, <1>10, <1>12, <2>1, <2>3 DEF Sound, Remembered, Made
  <2> QED
    BY <2>2, <2>3
<1>14. OnCourse(r)'
  <2>1. \A c : Yes(r, c)' <=> Yes(r, c)
    BY <1>1 DEF Yes
  <2>2. Course(Log(r)')
    BY <1>1, <1>3, <1>5, <1>6, <1>7, CourseAppend DEF Sound, OnCourse, Top
  <2>3. Top(r)' = e
    BY <1>8 DEF Top
  <2>4. ASSUME NEW i \in 1 .. Len(Log(r)')
        PROVE  Log(r)'[i].req = r /\ (Log(r)'[i].status = "Accepted" => Yes(r, Log(r)[i].courier)')
    <3>1. CASE i = Len(Log(r)) + 1
      BY <1>3, <1>6, <1>7, <1>8, <2>1, <3>1 DEF Sound, OnCourse
    <3>2. CASE i # Len(Log(r)) + 1
      <4>1. i \in 1 .. Len(Log(r))
        BY <1>8, <3>2
      <4> QED
        BY <1>6, <1>8, <2>1, <4>1 DEF Sound, OnCourse
    <3> QED
      BY <3>1, <3>2
  <2>5. ASSUME NEW v \in tasks', v.req = r
        PROVE  /\ v.status = "Accepted" => Yes(r, v.cand)'
               /\ v.pc # "publish"
               /\ v.pc = "reply" => e = [status |-> v.status, courier |-> v.cand, req |-> r]
    BY <1>3, <1>6, <1>7, <1>10, <2>1, <2>5 DEF Sound, OnCourse
  <2> QED
    BY <1>8, <1>9, <2>2, <2>3, <2>4, <2>5 DEF OnCourse
<1>15. Settled(r)'
  BY <1>1, <1>2, <1>11 DEF Settled
<1>16. Sound(r)'
  BY <1>6, <1>11, <1>12, <1>13, <1>14, <1>15 DEF Sound
<1> QED
  BY <1>2, <1>4, <1>16, OneMoves

\* What a coroutine whose status was answered hands on.
LEMMA Answered ==
  ASSUME Inv, NEW t \in tasks, t.pc = "reply"
  PROVE  /\ Sound(t.req) /\ TypeOK /\ Log(t.req) # <<>>
         /\ Top(t.req) = [status |-> t.status, courier |-> t.cand, req |-> t.req]
         /\ Top(t.req).status = t.status /\ Top(t.req).courier = t.cand
         /\ t.status = "Accepted" => Yes(t.req, t.cand)
<1>1. t.req \in Requests
  BY OneCoroutine
<1> QED
  BY <1>1 DEF Inv, Sound, OnCourse

LEMMA PublishNextStep ==
  ASSUME Inv, Distinct, NEW t \in tasks, PublishNext(t), NEW q \in Requests
  PROVE  Sound(q)'
<1> DEFINE r == t.req
           u == Task(t.req, t.cand, Following(t))
<1>1. /\ t.pc = "reply" /\ tasks' = (tasks \ {t}) \cup {u}
      /\ UNCHANGED <<posted, channel, pending, batch, offers, evidence, outbox, offered, answers, lost>>
  BY DEF PublishNext, couriers
<1>2. /\ r \in Requests /\ r \in posted /\ ~Waiting(r) /\ ~Live(Delivery[r]) /\ OnePlace(r) /\ Driven(r)
      /\ \A v \in tasks : Works(v, r) => v = t
  BY <1>1, OneCoroutine
<1>3. /\ u.req = r /\ u.cand = t.cand /\ u.pc = "publish" /\ u.status = Following(t)
      /\ u.status # "Accepted"
  BY DEF Task, PublishNext
<1>4. /\ Sound(r) /\ TypeOK /\ Log(r) # <<>> /\ Top(r).status = t.status /\ Top(r).courier = t.cand
  BY <1>1, Answered
<1>5. LegalStep(Top(r), [status |-> u.status, courier |-> u.cand, req |-> r])
  BY <1>3, <1>4 DEF LegalStep, Following, PublishNext
<1>6. t.req = r
  OBVIOUS
<1> HIDE DEF r, u
<1>7. Elsewhere(r)
  BY <1>1, <1>3, <1>6, CoroutineElsewhere
<1>8. \A v \in tasks' : v.req = r => v = u \/ (v \in tasks /\ v.pc = "send")
  BY <1>1, <1>2 DEF Works
<1>9. Alone(r)' /\ Driven(r)' /\ ~Waiting(r)' /\ ~Live(Delivery[r])'
  BY <1>1, <1>2, <1>3, <1>8 DEF Waiting, Live, OnePlace, Alone, Driven, Working, Works
<1>10. Offer(r)' = Offer(r) /\ Log(r)' = Log(r) /\ Top(r)' = Top(r) /\ \A c : Yes(r, c)' <=> Yes(r, c)
  BY <1>1 DEF Offer, Log, Top, Yes
<1>11. Remembered(r)'
  <2>1. Results3' = Results3 /\ (Traced(r)' => Traced(r))
    BY <1>1, <1>3, <1>8 DEF Results3, Traced
  <2>2. CASE Offer(r) = None
    BY <1>2, <1>4, <1>10, <2>1, <2>2 DEF Sound, Remembered
  <2>3. CASE Offer(r) # None
    BY <1>1, <1>3, <1>4, <1>8, <1>10, <2>1, <2>3 DEF Sound, Remembered, Made
  <2> QED
    BY <2>2, <2>3
<1>12. OnCourse(r)'
  BY <1>3, <1>4, <1>5, <1>8, <1>9, <1>10 DEF Sound, OnCourse
<1>13. Settled(r)'
  BY <1>1, <1>2, <1>9 DEF Settled
<1>14. Sound(r)'
  BY <1>4, <1>9, <1>10, <1>11, <1>12, <1>13 DEF Sound
<1> QED
  BY <1>2, <1>7, <1>14, OneMoves

LEMMA RecordOfferStep ==
  ASSUME Inv, Distinct, NEW t \in tasks, RecordOffer(t), NEW q \in Requests
  PROVE  Sound(q)'
<1> DEFINE r == t.req
           n == IF Offer(r) = None THEN 1 ELSE Offer(r).attempt + 1
           o == [req |-> r, cand |-> t.cand, attempt |-> n, settled |-> FALSE, due |-> FALSE]
           u == [t EXCEPT !.pc = "send", !.attempt = n]
<1>1. /\ t.pc = "reply" /\ tasks' = (tasks \ {t}) \cup {u}
      /\ offers' = [offers EXCEPT ![Delivery[r]] = o]
      /\ UNCHANGED <<posted, channel, pending, batch, evidence, outbox, offered, answers, lost>>
  BY DEF RecordOffer, couriers, Offer
<1>2. /\ t \in Tasks /\ r \in Requests /\ r \in posted /\ Delivery[r] \in Deliveries
      /\ ~Waiting(r) /\ OnePlace(r) /\ Driven(r)
      /\ \A v \in tasks : Works(v, r) => v = t
  BY <1>1, OneCoroutine
<1>3. /\ Sound(r) /\ TypeOK /\ Log(r) # <<>> /\ Top(r).status = t.status /\ Top(r).courier = t.cand
  BY <1>1, Answered
<1>4. n \in Nat /\ (Offer(r) # None => Offer(r).attempt \in Nat /\ Offer(r).attempt < n)
  BY <1>2, <1>3 DEF TypeOK, Offer, Offers
<1>5. /\ o \in Offers /\ o # None /\ o.req = r /\ o.cand = t.cand /\ o.attempt = n /\ ~o.settled
      /\ u.req = r /\ u.cand = t.cand /\ u.attempt = n /\ u.pc = "send" /\ u.status = t.status
  <2> HIDE DEF n
  <2>1. o \in Offers /\ o.req = r /\ o.cand = t.cand /\ o.attempt = n /\ ~o.settled
    BY <1>2, <1>4 DEF Tasks, Offers
  <2>2. u.req = r /\ u.cand = t.cand /\ u.attempt = n /\ u.pc = "send" /\ u.status = t.status
    BY <1>2, <1>4 DEF Tasks
  <2> QED
    BY <2>1, <2>2, NoneAssumption
<1>6. t.status \in {"Assigned", "Reassigned"}
  BY <1>2 DEF RecordOffer, Following, Tasks, Statuses
<1>7. t.req = r
  OBVIOUS
<1> HIDE DEF r, n, o, u
<1>8. Elsewhere(r)
  BY <1>1, <1>2, <1>3, <1>5, <1>7, CoroutineElsewhere DEF TypeOK
<1>9. \A v \in tasks' : v.req = r => v = u \/ (v \in tasks /\ v.pc = "send")
  BY <1>1, <1>2 DEF Works
<1>10. Offer(r)' = o /\ Live(Delivery[r])'
  BY <1>1, <1>2, <1>3, <1>5 DEF Offer, Live, TypeOK
<1>11. Alone(r)' /\ Driven(r)' /\ ~Waiting(r)'
  BY <1>1, <1>2, <1>5, <1>9, <1>10 DEF Waiting, OnePlace, Alone, Driven, Working, Works
<1>12. Log(r)' = Log(r) /\ Top(r)' = Top(r) /\ Results3' = Results3 /\ \A c : Yes(r, c)' <=> Yes(r, c)
  BY <1>1 DEF Log, Top, Yes, Results3
<1>13. Remembered(r)'
  <2>1. CASE Offer(r) = None
    <3>1. ~Traced(r)
      BY <1>2, <1>3, <2>1 DEF Sound, Remembered
    <3>2. \A v \in tasks' : v.req = r => v = u
      BY <1>9, <3>1 DEF Traced
    <3> QED
      BY <1>1, <1>4, <1>5, <1>10, <1>12, <3>1, <3>2 DEF Remembered, Traced, Made
  <2>2. CASE Offer(r) # None
    <3>1. \A c, a : a \in Nat /\ Made(r, c, a) => Made(r, c, a)'
      BY <1>4, <1>5, <1>10, <2>2 DEF Made
    <3>2. Remembered(r)
      BY <1>3 DEF Sound
    <3>3. ASSUME NEW v \in tasks', v.req = r, v.pc = "send" PROVE Made(r, v.cand, v.attempt)'
      <4>1. CASE v = u
        BY <1>4, <1>5, <1>10, <4>1 DEF Made
      <4>2. CASE v # u
        BY <1>3, <1>9, <2>2, <3>1, <3>2, <3>3, <4>2 DEF Remembered, TypeOK
      <4> QED
        BY <4>1, <4>2
    <3>4. ASSUME NEW m \in outbox', m.req = r PROVE Made(r, m.courier, m.attempt)'
      BY <1>1, <1>3, <2>2, <3>1, <3>2, <3>4 DEF Remembered, TypeOK
    <3>5. ASSUME NEW c \in Couriers, offered'[c][Delivery[r]] # 0
          PROVE  Made(r, c, offered[c][Delivery[r]])'
      BY <1>1, <1>2, <1>3, <2>2, <3>1, <3>2, <3>5 DEF Remembered, TypeOK
    <3>6. ASSUME NEW m \in Results3', m.delivery = Delivery[r]
          PROVE  m.attempt <= Offer(r)'.attempt /\ m.attempt # Offer(r)'.attempt
      <4>1. m.attempt \in Nat /\ m.attempt <= Offer(r).attempt
        BY <1>3, <1>12, <2>2, <3>2, <3>6 DEF Remembered, TypeOK, Results3, Inbox, Results
      <4> QED
        BY <1>4, <1>5, <1>10, <2>2, <4>1
    <3> QED
      BY <1>5, <1>10, <3>3, <3>4, <3>5, <3>6 DEF Remembered
  <2> QED
    BY <2>1, <2>2
<1>14. OnCourse(r)'
  BY <1>3, <1>5, <1>6, <1>9, <1>10, <1>11, <1>12 DEF Sound, OnCourse
<1>15. Settled(r)'
  BY <1>1, <1>2, <1>11 DEF Settled
<1>16. Sound(r)'
  BY <1>5, <1>10, <1>11, <1>13, <1>14, <1>15 DEF Sound
<1> QED
  BY <1>2, <1>8, <1>16, OneMoves

LEMMA CloseStep ==
  ASSUME Inv, Distinct, NEW t \in tasks, Close(t), NEW q \in Requests
  PROVE  Sound(q)'
<1> DEFINE r == t.req
<1>1. /\ t.pc = "reply" /\ tasks' = tasks \ {t}
      /\ offers' = [offers EXCEPT ![Delivery[r]] = None]
      /\ UNCHANGED <<posted, channel, pending, batch, evidence, outbox, offered, answers, lost>>
  BY DEF Close, couriers
<1>2. /\ t \in Tasks /\ r \in Requests /\ r \in posted /\ Delivery[r] \in Deliveries
      /\ ~Waiting(r) /\ OnePlace(r)
      /\ \A v \in tasks : Works(v, r) => v = t
  BY <1>1, OneCoroutine
<1>3. /\ Sound(r) /\ TypeOK /\ Log(r) # <<>> /\ Top(r).status = t.status
  BY <1>1, Answered
<1>4. t.status \in {"Delivered", "Failed"}
  BY <1>2 DEF Close, Following, Tasks, Statuses
<1>5. t.req = r
  OBVIOUS
<1> HIDE DEF r
<1>6. Elsewhere(r)
  BY <1>1, <1>2, <1>3, <1>5, CoroutineElsewhere DEF TypeOK
<1>7. Offer(r)' = None /\ ~Live(Delivery[r])'
  BY <1>1, <1>2, <1>3 DEF Offer, Live, TypeOK
<1>8. Alone(r)' /\ ~Driven(r)'
  BY <1>1, <1>2, <1>7 DEF Waiting, OnePlace, Alone, Driven, Working, Works
<1>9. Remembered(r)'
  BY <1>7, <1>8 DEF Remembered
<1>10. OnCourse(r)'
  <2>1. Log(r)' = Log(r) /\ Top(r)' = Top(r) /\ \A c : Yes(r, c)' <=> Yes(r, c)
    BY <1>1 DEF Log, Top, Yes
  <2> QED
    BY <1>1, <1>3, <1>7, <1>8, <2>1 DEF Sound, OnCourse, Driven
<1>11. Settled(r)'
  BY <1>1, <1>2, <1>3, <1>4 DEF Settled, Ended, Log, Top
<1>12. Sound(r)'
  BY <1>7, <1>8, <1>9, <1>10, <1>11 DEF Sound
<1> QED
  BY <1>2, <1>6, <1>12, OneMoves

-----------------------------------------------------------------------------
LEMMA InitInv == Init => Inv
<1> SUFFICES ASSUME Init PROVE Inv
  OBVIOUS
<1>1. TypeOK /\ batch = Nothing
  BY TypeInit DEF Init
<1>2. ASSUME NEW r \in Requests PROVE Sound(r)
  <2>1. /\ ~Waiting(r) /\ ~Working(r) /\ OnePlace(r) /\ tasks = {} /\ outbox = {} /\ Results3 = {}
        /\ r \notin posted
    BY DEF Init, Nothing, Waiting, Working, Works, OnePlace, Results3
  <2>2. Delivery[r] \in Deliveries
    BY DEF Deliveries
  <2>3. /\ Offer(r) = None /\ Log(r) = <<>> /\ \A c \in Couriers : offered[c][Delivery[r]] = 0
    BY <2>2 DEF Init, Offer, Log
  <2>4. ~Live(Delivery[r]) /\ ~Driven(r) /\ ~Traced(r)
    BY <2>1, <2>3 DEF Live, Driven, Traced, Offer
  <2>5. Alone(r) /\ Remembered(r) /\ Settled(r)
    BY <2>1, <2>3, <2>4 DEF Alone, Remembered, Settled
  <2>6. Course(<<>>)
    BY DEF Course
  <2>7. OnCourse(r)
    BY <2>1, <2>3, <2>4, <2>6 DEF OnCourse
  <2> QED
    BY <2>3, <2>5, <2>7 DEF Sound
<1> QED
  BY <1>1, <1>2 DEF Inv

\* Only a sweep has a batch.
LEMMA SweepStep ==
  ASSUME Inv, [Next]_vars
  PROVE  (sweeping \/ batch = Nothing)'
<1>1. CASE TakePending
  BY <1>1 DEF TakePending
<1>2. ASSUME NEW r \in Requests, StartAssignment(r)
      PROVE  sweeping'
  BY <1>2 DEF Inv, StartAssignment, Nothing
<1>3. ASSUME NEW m \in batch.results, SettleDecision(m)
      PROVE  sweeping'
  BY <1>3 DEF Inv, SettleDecision, Nothing
<1>4. CASE ExpireOffers
  BY <1>4 DEF ExpireOffers
<1>5. CASE UNCHANGED <<sweeping, batch>>
  BY <1>5 DEF Inv
<1>6. CASE Clients \/ Channel
  BY <1>5, <1>6 DEF Clients, Channel, Create, BindCourier, SubscribeCustomer, Decide, AdmitAssign,
                    AdmitResult, dispatch, couriers
<1>7. ASSUME NEW t \in tasks, Coroutine(t)
      PROVE  UNCHANGED <<sweeping, batch>>
  BY <1>7 DEF Coroutine, Track, PublishNext, RecordOffer, Close, SendOffer
<1>8. CASE LossOfMessages \/ LossOfStatus
  BY <1>5, <1>8 DEF LossOfMessages, LossOfStatus, OfferFails, LoseResult, LoseOffer, PublishFails,
                    LoseAssign, dispatch
<1>9. ASSUME NEW m \in outbox, OfferArrives(m)
      PROVE  UNCHANGED <<sweeping, batch>>
  BY <1>9 DEF OfferArrives, dispatch
<1>10. ASSUME NEW d \in Deliveries, DeadlinePasses(d)
       PROVE  UNCHANGED <<sweeping, batch>>
  BY <1>10 DEF DeadlinePasses
<1>11. CASE UNCHANGED vars
  BY <1>5, <1>11 DEF vars, dispatch
<1> QED
  BY <1>1, <1>2, <1>3, <1>4, <1>5, <1>6, <1>7, <1>8, <1>9, <1>10, <1>11 DEF Next, Normal, Sweep

LEMMA NextInv == ASSUME Inv, Distinct, [Next]_vars PROVE Inv'
<1>1. TypeOK' /\ (sweeping \/ batch = Nothing)'
  BY TypeNext, SweepStep DEF Inv
<1>2. ASSUME NEW q \in Requests PROVE Sound(q)'
  <2>1. CASE Clients
    BY <2>1, CreateStep, QuietSteps, DecideStep DEF Clients
  <2>2. CASE Channel
    BY <2>2, QuietSteps DEF Channel
  <2>3. CASE Sweep
    BY <2>3, QuietSteps, StartAssignmentStep, SettleDecisionStep, ExpireOffersStep DEF Sweep
  <2>4. ASSUME NEW t \in tasks, Coroutine(t) PROVE Sound(q)'
    BY <2>4, TrackStep, PublishNextStep, RecordOfferStep, CloseStep, SendOfferStep DEF Coroutine
  <2>5. ASSUME NEW m \in outbox, OfferArrives(m) PROVE Sound(q)'
    BY <2>5, OfferArrivesStep
  <2>6. ASSUME NEW d \in Deliveries, DeadlinePasses(d) PROVE Sound(q)'
    BY <2>6, QuietSteps
  <2>7. CASE LossOfMessages
    BY <2>7, QuietSteps DEF LossOfMessages
  <2>8. CASE LossOfStatus
    BY <2>8, PublishFailsStep, LoseAssignStep DEF LossOfStatus
  <2>9. CASE UNCHANGED vars
    BY <2>9, QuietSteps
  <2> QED
    BY <2>1, <2>2, <2>3, <2>4, <2>5, <2>6, <2>7, <2>8, <2>9 DEF Next, Normal
<1> QED
  BY <1>1, <1>2 DEF Inv

-----------------------------------------------------------------------------
\* What the drivers of a request stand for.
LEMMA DriverIs ==
  ASSUME Inv, NEW r \in Requests, NEW x \in Drivers(r)
  PROVE  \/ x = <<"assign", 1>> /\ r \in channel.assigns
         \/ x = <<"assign", 2>> /\ r \in pending.assigns
         \/ x = <<"assign", 3>> /\ r \in batch.assigns
         \/ \E t \in tasks : x = <<"task", t>> /\ Works(t, r)
         \/ x = <<"offer", Delivery[r]>> /\ Live(Delivery[r])
<1>1. CASE x \in {<<"assign", i>> : i \in {j \in 1..3 : r \in <<channel, pending, batch>>[j].assigns}}
  <2>1. PICK i \in 1..3 : x = <<"assign", i>> /\ r \in <<channel, pending, batch>>[i].assigns
    BY <1>1
  <2>2. i = 1 \/ i = 2 \/ i = 3
    OBVIOUS
  <2> QED
    BY <2>1, <2>2
<1>2. CASE x \in {<<"task", t>> : t \in {u \in tasks : u.req = r /\ u.pc # "send"}}
  BY <1>2 DEF Works
<1>3. CASE x \in {<<"offer", d>> : d \in {e \in Deliveries : Live(e) /\ offers[e].req = r}}
  <2>1. PICK d \in Deliveries : x = <<"offer", d>> /\ Live(d) /\ offers[d].req = r
    BY <1>3
  <2>2. PICK p \in Requests : d = Delivery[p]
    BY DEF Deliveries
  <2>3. p = r
    BY <2>1, <2>2 DEF Inv, Sound, Offer, Live
  <2> QED
    BY <2>1, <2>2, <2>3
<1> QED
  BY <1>1, <1>2, <1>3 DEF Drivers

LEMMA InvDriven == Inv => DrivenOnce
<1> SUFFICES ASSUME Inv PROVE DrivenOnce
  OBVIOUS
<1>1. ASSUME NEW r \in posted PROVE \A x, y \in Drivers(r) : x = y
  <2>1. r \in Requests /\ Alone(r)
    BY DEF Inv, TypeOK, Sound
  <2>2. ASSUME NEW x \in Drivers(r), NEW y \in Drivers(r) PROVE x = y
    <3>1. CASE Waiting(r)
      BY <2>1, <3>1, DriverIs DEF Alone, OnePlace, Working
    <3>2. CASE ~Waiting(r)
      BY <2>1, <3>2, DriverIs DEF Alone, Waiting, Working
    <3> QED
      BY <3>1, <3>2
  <2> QED
    BY <2>2
<1>2. ASSUME NEW r \in posted, Drivers(r) = {} PROVE Ended(Delivery[r]) \/ r \in lost
  <2>1. r \in Requests /\ Sound(r) /\ Delivery[r] \in Deliveries
    BY DEF Inv, TypeOK, Deliveries
  <2>2. ~Waiting(r)
    <3>1. \A j \in 1..3 : r \notin <<channel, pending, batch>>[j].assigns
      BY <1>2 DEF Drivers
    <3>2. 1 \in 1..3 /\ 2 \in 1..3 /\ 3 \in 1..3
      OBVIOUS
    <3>3. /\ r \notin <<channel, pending, batch>>[1].assigns
          /\ r \notin <<channel, pending, batch>>[2].assigns
          /\ r \notin <<channel, pending, batch>>[3].assigns
      BY ONLY <3>1, <3>2
    <3> QED
      BY <3>3 DEF Waiting
  <2>3. ~Working(r)
    BY <1>2 DEF Drivers, Working, Works
  <2>4. ~Live(Delivery[r])
    BY <1>2, <2>1 DEF Drivers, Sound, Offer, Live
  <2> QED
    BY <2>1, <2>2, <2>3, <2>4 DEF Sound, Settled, Driven
<1>3. Consent
  <2> SUFFICES ASSUME NEW d \in Deliveries, NEW i \in 1 .. Len(evidence[d]),
                      evidence[d][i].status = "Accepted"
               PROVE  [courier |-> evidence[d][i].courier, req |-> evidence[d][i].req,
                       accepted |-> TRUE] \in answers
    BY DEF Consent
  <2>1. PICK r \in Requests : d = Delivery[r]
    BY DEF Deliveries
  <2> QED
    BY <2>1 DEF Inv, Sound, OnCourse, Log, Yes
<1> QED
  BY <1>1, <1>2, <1>3 DEF DrivenOnce, OneDriver

\* Every variable keeps its shape, through every loss, also when delivery ids
\* are posted twice.
THEOREM TypeCorrect == Spec => []TypeOK
BY TypeInit, TypeNext, PTL DEF Spec

\* If no delivery id is posted twice, a posted delivery has one message,
\* coroutine or live offer that drives it until it ends or a status request
\* or its message is lost, and an accepted one was accepted by the courier
\* that was offered it (dispatch_state_t, dispatch_sweeper_t).
THEOREM DeliveryIsDrivenOnce == ASSUME Distinct PROVE Spec => []DrivenOnce
<1>1. Inv /\ [Next]_vars => Inv'
  BY NextInv
<1>2. Inv => DrivenOnce
  BY InvDriven
<1> QED
  BY <1>1, <1>2, InitInv, PTL DEF Spec

-----------------------------------------------------------------------------
(* The server's self-check reads the log right.  What the scan finds in a log *)
(* is shown while the log grows: a new entry takes it one step further.       *)

Direct == <<"Assigned", "Accepted", "PickedUp", "Delivered">>
Passed == <<"Assigned", "Reassigned", "Accepted", "Delivered">>

\* The function HasSequence defines, and that it ends at n.
IsScan(f, log, expected) ==
  f = [i \in 0 .. Len(log) |->
        IF i = 0 THEN 0
        ELSE IF /\ f[i - 1] < Len(expected)
                /\ log[i].status = expected[f[i - 1] + 1]
             THEN f[i - 1] + 1
             ELSE f[i - 1]]

Scans(log, expected, n) ==
  /\ \E f : IsScan(f, log, expected)
  /\ \A f : IsScan(f, log, expected) => f[Len(log)] = n

LEMMA ScanHas ==
  ASSUME NEW log, NEW expected, NEW n, Scans(log, expected, n)
  PROVE  HasSequence(log, expected) <=> n = Len(expected)
<1>1. PICK f : f = CHOOSE g : IsScan(g, log, expected)
  OBVIOUS
<1>2. HasSequence(log, expected) <=> f[Len(log)] = Len(expected)
  BY <1>1 DEF HasSequence, IsScan
<1>3. IsScan(f, log, expected)
  BY <1>1 DEF Scans
<1> QED
  BY <1>2, <1>3 DEF Scans

LEMMA ScanEmpty ==
  ASSUME NEW expected
  PROVE  Scans(<<>>, expected, 0)
<1>1. Len(<<>>) = 0 /\ 0 .. 0 = {0}
  OBVIOUS
<1>2. IsScan([i \in {0} |-> 0], <<>>, expected)
  BY <1>1 DEF IsScan
<1>3. ASSUME NEW f, IsScan(f, <<>>, expected) PROVE f[0] = 0
  BY <1>1, <1>3 DEF IsScan
<1> QED
  BY <1>1, <1>2, <1>3 DEF Scans

LEMMA ScanAppend ==
  ASSUME NEW log \in Seq(Entries), NEW e \in Entries, NEW expected \in Seq(Statuses),
         NEW n \in 0 .. Len(expected), Scans(log, expected, n)
  PROVE  Scans(Append(log, e), expected,
               IF n < Len(expected) /\ e.status = expected[n + 1] THEN n + 1 ELSE n)
<1>1. PICK l, m : l = Append(log, e)
         /\ m = IF n < Len(expected) /\ e.status = expected[n + 1] THEN n + 1 ELSE n
  OBVIOUS
<1>2. PICK k \in Nat : k = Len(log)
  OBVIOUS
<1>3. /\ Len(l) = k + 1 /\ l[k + 1] = e
      /\ \A i \in 1 .. k : l[i] = log[i]
  BY <1>1, <1>2
<1>4. \E f : IsScan(f, l, expected)
  <2>1. PICK f : IsScan(f, log, expected)
    BY DEF Scans
  <2>2. f[k] = n
    BY <1>2, <2>1 DEF Scans
  <2>3. PICK g : g = [i \in 0 .. k + 1 |-> IF i = k + 1 THEN m ELSE f[i]]
    OBVIOUS
  <2>4. ASSUME NEW i \in 0 .. k + 1
        PROVE  g[i] = IF i = 0 THEN 0
                      ELSE IF /\ g[i - 1] < Len(expected)
                              /\ l[i].status = expected[g[i - 1] + 1]
                           THEN g[i - 1] + 1
                           ELSE g[i - 1]
    <3>1. CASE i = k + 1
      <4>1. i # 0 /\ i - 1 = k /\ k \in 0 .. k + 1 /\ k # k + 1
        BY <3>1
      <4>2. g[i] = m /\ g[i - 1] = n /\ l[i] = e
        BY <1>3, <2>2, <2>3, <3>1, <4>1
      <4> QED
        BY <1>1, <4>1, <4>2
    <3>2. CASE i # k + 1
      <4>1. i \in 0 .. k
        BY <3>2
      <4>2. f[i] = IF i = 0 THEN 0
                   ELSE IF /\ f[i - 1] < Len(expected)
                           /\ log[i].status = expected[f[i - 1] + 1]
                        THEN f[i - 1] + 1
                        ELSE f[i - 1]
        BY <1>2, <2>1, <4>1 DEF IsScan
      <4>3. g[i] = f[i]
        BY <2>3, <3>2
      <4>4. CASE i = 0
        BY <4>2, <4>3, <4>4
      <4>5. CASE i # 0
        <5>1. i - 1 \in 0 .. k + 1 /\ i - 1 # k + 1 /\ i \in 1 .. k
          BY <4>1, <4>5
        <5>2. g[i - 1] = f[i - 1] /\ l[i] = log[i]
          BY <1>3, <2>3, <5>1
        <5> QED
          BY <4>2, <4>3, <4>5, <5>2
      <4> QED
        BY <4>4, <4>5
    <3> QED
      BY <3>1, <3>2
  <2>5. g = [i \in 0 .. k + 1 |-> g[i]]
    BY <2>3
  <2>6. g = [i \in 0 .. k + 1 |->
               IF i = 0 THEN 0
               ELSE IF /\ g[i - 1] < Len(expected)
                       /\ l[i].status = expected[g[i - 1] + 1]
                    THEN g[i - 1] + 1
                    ELSE g[i - 1]]
    BY ONLY <2>4, <2>5
  <2> QED
    BY <1>3, <2>6 DEF IsScan
<1>5. ASSUME NEW g, IsScan(g, l, expected) PROVE g[k + 1] = m
  <2>0. \A i \in 0 .. k + 1 : g[i] =
          IF i = 0 THEN 0
          ELSE IF /\ g[i - 1] < Len(expected)
                  /\ l[i].status = expected[g[i - 1] + 1]
               THEN g[i - 1] + 1
               ELSE g[i - 1]
    BY <1>3, <1>5 DEF IsScan
  <2>1. PICK f : f = [i \in 0 .. k |-> g[i]]
    OBVIOUS
  <2>2. ASSUME NEW i \in 0 .. k
        PROVE  f[i] = IF i = 0 THEN 0
                      ELSE IF /\ f[i - 1] < Len(expected)
                              /\ log[i].status = expected[f[i - 1] + 1]
                           THEN f[i - 1] + 1
                           ELSE f[i - 1]
    <3>1. i \in 0 .. k + 1 /\ f[i] = g[i]
      BY <2>1
    <3>2. CASE i = 0
      BY <2>0, <3>1, <3>2
    <3>3. CASE i # 0
      <4>1. i - 1 \in 0 .. k /\ i \in 1 .. k
        BY <3>3
      <4>2. f[i - 1] = g[i - 1] /\ l[i] = log[i]
        BY <1>3, <2>1, <4>1
      <4> QED
        BY <2>0, <3>1, <3>3, <4>2
    <3> QED
      BY <3>2, <3>3
  <2>3. IsScan(f, log, expected)
    BY <1>2, <2>1, <2>2 DEF IsScan
  <2>4. f[k] = n
    BY <1>2, <2>3 DEF Scans
  <2>5. k + 1 \in 0 .. k + 1 /\ k + 1 # 0 /\ (k + 1) - 1 = k /\ k \in 0 .. k
    OBVIOUS
  <2>6. g[k] = n
    BY <2>1, <2>4, <2>5
  <2> QED
    BY <1>1, <1>3, <2>0, <2>5, <2>6
<1> QED
  BY <1>1, <1>3, <1>4, <1>5 DEF Scans

\* How far each scan has come after an entry of a course: the courier tells
\* whether the delivery was passed on before it was accepted.
DirectAt(e) ==
  CASE e.status \in {"Assigned", "Reassigned", "Failed"} -> 1
    [] e.status = "Accepted" -> 2
    [] e.status = "PickedUp" -> 3
    [] e.status = "Delivered" -> IF e.courier = 1 THEN 4 ELSE 2

PassedAt(e) ==
  CASE e.status \in {"Assigned", "PickedUp"} -> 1
    [] e.status = "Reassigned" -> 2
    [] e.status = "Accepted" -> IF e.courier = 1 THEN 1 ELSE 3
    [] e.status = "Delivered" -> IF e.courier = 1 THEN 1 ELSE 4
    [] e.status = "Failed" -> IF Last = 1 THEN 1 ELSE 2

ReadAs(log) ==
  log # <<>> =>
    LET e == log[Len(log)]
    IN  /\ e.status \in {"Assigned", "PickedUp"} => e.courier = 1
        /\ e.status = "Reassigned" => e.courier # 1
        /\ Scans(log, Direct, DirectAt(e))
        /\ Scans(log, Passed, PassedAt(e))

LEMMA ReadOn ==
  ASSUME NEW log \in Seq(Entries), NEW e \in Entries, ReadAs(log), Course(Append(log, e))
  PROVE  ReadAs(Append(log, e))
<1>1. PICK l : l = Append(log, e)
  OBVIOUS
<1>2. PICK k \in Nat : k = Len(log)
  OBVIOUS
<1>3. /\ Len(l) = k + 1 /\ l[k + 1] = e /\ l # <<>>
      /\ \A i \in 1 .. k : l[i] = log[i]
  BY <1>1, <1>2
<1>4. /\ Direct \in Seq(Statuses) /\ Passed \in Seq(Statuses)
      /\ Len(Direct) = 4 /\ Len(Passed) = 4
  BY DEF Direct, Passed, Statuses
<1>5. SUFFICES /\ e.status \in {"Assigned", "PickedUp"} => e.courier = 1
               /\ e.status = "Reassigned" => e.courier # 1
               /\ Scans(l, Direct, DirectAt(e))
               /\ Scans(l, Passed, PassedAt(e))
  BY <1>1, <1>3 DEF ReadAs
<1>6. CASE log = <<>>
  <2>1. k = 0 /\ e.status = "Assigned" /\ e.courier = 1
    BY <1>1, <1>2, <1>3, <1>6 DEF Course
  <2>2. /\ Scans(l, Direct, IF 0 < Len(Direct) /\ e.status = Direct[0 + 1] THEN 0 + 1 ELSE 0)
        /\ Scans(l, Passed, IF 0 < Len(Passed) /\ e.status = Passed[0 + 1] THEN 0 + 1 ELSE 0)
    <3>1. Scans(log, Direct, 0) /\ Scans(log, Passed, 0)
      BY <1>6, ScanEmpty
    <3>2. 0 \in 0 .. Len(Direct) /\ 0 \in 0 .. Len(Passed)
      BY <1>4
    <3> QED
      BY <1>1, <1>4, <3>1, <3>2, ScanAppend
  <2>3. Scans(l, Direct, 1) /\ Scans(l, Passed, 1)
    BY <2>1, <2>2, <1>4 DEF Direct, Passed
  <2> QED
    BY <2>1, <2>3 DEF DirectAt, PassedAt
<1>7. CASE log # <<>>
  <2>1. PICK a : a = log[k]
    OBVIOUS
  <2>2. k # 0 /\ k \in 1 .. k /\ k \in 1 .. Len(l) - 1 /\ l[k] = a /\ a \in Entries
    BY <1>2, <1>3, <1>7, <2>1, EmptySeq, ElementOfSeq
  <2>3. LegalStep(a, e)
    BY <1>1, <1>3, <2>2 DEF Course
  <2>4. /\ a.status \in {"Assigned", "PickedUp"} => a.courier = 1
        /\ a.status = "Reassigned" => a.courier # 1
        /\ Scans(log, Direct, DirectAt(a))
        /\ Scans(log, Passed, PassedAt(a))
    BY <1>2, <1>7, <2>1 DEF ReadAs
  <2>5. PICK n, m : n = DirectAt(a) /\ m = PassedAt(a)
    OBVIOUS
  <2>6. n \in 0 .. 4 /\ m \in 0 .. 4
    BY <2>2, <2>5 DEF DirectAt, PassedAt, Entries, Statuses
  <2>7. PICK n1, m1 : /\ n1 = IF n < 4 /\ e.status = Direct[n + 1] THEN n + 1 ELSE n
                      /\ m1 = IF m < 4 /\ e.status = Passed[m + 1] THEN m + 1 ELSE m
    OBVIOUS
  <2>8. Scans(l, Direct, n1) /\ Scans(l, Passed, m1)
    BY <1>1, <1>4, <2>4, <2>5, <2>6, <2>7, ScanAppend
  <2>9. /\ Direct[1] = "Assigned" /\ Direct[2] = "Accepted"
        /\ Direct[3] = "PickedUp" /\ Direct[4] = "Delivered"
        /\ Passed[1] = "Assigned" /\ Passed[2] = "Reassigned"
        /\ Passed[3] = "Accepted" /\ Passed[4] = "Delivered"
    BY DEF Direct, Passed
  <2>10. a.courier \in 1 .. Last /\ e.courier \in 1 .. Last /\ Last \in Nat \ {0}
    BY <2>2, DispatchAssumption DEF Entries, Couriers
  <2>11. /\ n1 = DirectAt(e) /\ m1 = PassedAt(e)
         /\ e.status \in {"Assigned", "PickedUp"} => e.courier = 1
         /\ e.status = "Reassigned" => e.courier # 1
    <3>1. CASE a.status \in {"Assigned", "Reassigned"} /\ e.status = "Accepted" /\ e.courier = a.courier
      BY <2>4, <2>5, <2>7, <2>9, <2>10, <3>1 DEF DirectAt, PassedAt
    <3>2. CASE a.status \in {"Assigned", "Reassigned"} /\ e.status = "Reassigned" /\ e.courier = a.courier + 1
      BY <2>4, <2>5, <2>7, <2>9, <2>10, <3>2 DEF DirectAt, PassedAt
    <3>3. CASE /\ a.status \in {"Assigned", "Reassigned"} /\ e.status = "Failed"
               /\ a.courier = Last /\ e.courier = Last
      BY <2>4, <2>5, <2>7, <2>9, <2>10, <3>3 DEF DirectAt, PassedAt
    <3>4. CASE /\ a.status = "Accepted" /\ e.courier = a.courier
               /\ e.status = IF a.courier = 1 THEN "PickedUp" ELSE "Delivered"
      BY <2>4, <2>5, <2>7, <2>9, <2>10, <3>4 DEF DirectAt, PassedAt
    <3>5. CASE a.status = "PickedUp" /\ e.status = "Delivered" /\ e.courier = a.courier
      BY <2>4, <2>5, <2>7, <2>9, <2>10, <3>5 DEF DirectAt, PassedAt
    <3> QED
      BY <2>3, <3>1, <3>2, <3>3, <3>4, <3>5 DEF LegalStep
  <2> QED
    BY <2>8, <2>11
<1> QED
  BY <1>6, <1>7

\* Only Tracking writes a log, and only at its end.
LEMMA LogGrows ==
  ASSUME TypeOK, [Next]_vars, NEW d \in Deliveries
  PROVE  evidence'[d] = evidence[d] \/ \E e \in Entries : evidence'[d] = Append(evidence[d], e)
<1>1. ASSUME NEW t \in tasks, Track(t)
      PROVE  evidence'[d] = evidence[d] \/ \E e \in Entries : evidence'[d] = Append(evidence[d], e)
  <2>1. PICK e : e = [status |-> t.status, courier |-> t.cand, req |-> t.req]
    OBVIOUS
  <2>2. e \in Entries
    BY <2>1 DEF TypeOK, Entries
  <2>3. evidence' = [evidence EXCEPT ![Delivery[t.req]] = Append(@, e)]
    BY <1>1, <2>1 DEF Track
  <2> QED
    BY <2>2, <2>3 DEF TypeOK
<1>2. ASSUME NEW t \in tasks, Coroutine(t)
      PROVE  evidence'[d] = evidence[d] \/ \E e \in Entries : evidence'[d] = Append(evidence[d], e)
  BY <1>1, <1>2 DEF Coroutine, PublishNext, RecordOffer, Close, SendOffer
<1>3. CASE Clients \/ Channel \/ Sweep
  BY <1>3 DEF Clients, Channel, Sweep, Create, BindCourier, SubscribeCustomer, Decide,
     AdmitAssign, AdmitResult, TakePending, StartAssignment, SettleDecision, ExpireOffers
<1>4. CASE LossOfMessages \/ LossOfStatus
  BY <1>4 DEF LossOfMessages, LossOfStatus, OfferFails, LoseResult, LoseOffer, PublishFails,
     LoseAssign
<1>5. CASE (\E m \in outbox : OfferArrives(m)) \/ (\E q \in Deliveries : DeadlinePasses(q))
  BY <1>5 DEF OfferArrives, DeadlinePasses
<1>6. CASE UNCHANGED vars
  BY <1>6 DEF vars
<1> QED
  BY <1>2, <1>3, <1>4, <1>5, <1>6 DEF Next, Normal

AllRead == \A d \in Deliveries : ReadAs(evidence[d])

LEMMA AllReadInit == Init => AllRead
BY DEF Init, AllRead, ReadAs

LEMMA AllReadNext == Inv /\ Inv' /\ AllRead /\ [Next]_vars => AllRead'
<1> SUFFICES ASSUME Inv, Inv', AllRead, [Next]_vars, NEW d \in Deliveries
             PROVE  ReadAs(evidence'[d])
  BY DEF AllRead
<1>1. PICK log, l : log = evidence[d] /\ l = evidence'[d]
  OBVIOUS
<1>2. log \in Seq(Entries) /\ ReadAs(log)
  BY <1>1 DEF Inv, TypeOK, Entries, AllRead
<1>3. l = log \/ \E e \in Entries : l = Append(log, e)
  BY <1>1, LogGrows DEF Inv
<1>4. PICK r \in Requests : Delivery[r] = d
  BY DEF Deliveries
<1>5. Course(l)
  BY <1>1, <1>4 DEF Inv, Sound, OnCourse, Log
<1>6. ReadAs(l)
  BY <1>2, <1>3, <1>5, ReadOn
<1> QED
  BY <1>1, <1>6

LEMMA ReadIsLegal == Inv /\ AllRead => CourseLegal
<1> SUFFICES ASSUME Inv, AllRead, NEW d \in Deliveries
             PROVE  Course(evidence[d]) /\ (Ended(d) => SelfCheck(evidence[d]))
  BY DEF CourseLegal
<1>1. PICK log : log = evidence[d]
  OBVIOUS
<1>2. Course(evidence[d])
  BY DEF Inv, Sound, OnCourse, Log, Deliveries
<1>3. ASSUME Ended(d) PROVE SelfCheck(log)
  <2>1. PICK e : e = log[Len(log)]
    OBVIOUS
  <2>2. /\ e.status \in {"Delivered", "Failed"}
        /\ Scans(log, Direct, DirectAt(e)) /\ Scans(log, Passed, PassedAt(e))
    BY <1>1, <1>3, <2>1 DEF Ended, AllRead, ReadAs
  <2>3. /\ HasSequence(log, Direct) <=> DirectAt(e) = Len(Direct)
        /\ HasSequence(log, Passed) <=> PassedAt(e) = Len(Passed)
    BY <2>2, ScanHas
  <2>4. Len(Direct) = 4 /\ Len(Passed) = 4
    BY DEF Direct, Passed
  <2>5. IF e.status = "Failed" THEN ~HasSequence(log, Direct) /\ ~HasSequence(log, Passed)
        ELSE HasSequence(log, Direct) # HasSequence(log, Passed)
    BY <2>2, <2>3, <2>4 DEF DirectAt, PassedAt
  <2> QED
    BY <2>1, <2>5 DEF SelfCheck, Direct, Passed
<1> QED
  BY <1>1, <1>2, <1>3

\* If no delivery id is posted twice, the log of every delivery starts with
\* the first courier and goes on in legal steps, so decisions that come late
\* and offers that run out never add a second course, and once it has ended
\* the server's self-check (evidence_store_t::has_sequence) reads it right.
THEOREM CoursesAreLegal == ASSUME Distinct PROVE Spec => []CourseLegal
<1>1. Inv /\ [Next]_vars => Inv'
  BY NextInv
<1>2. Spec => []Inv
  BY <1>1, InitInv, PTL DEF Spec
<1> QED
  BY <1>2, AllReadInit, AllReadNext, ReadIsLegal, PTL DEF Spec

-----------------------------------------------------------------------------
(* The dispatch with its customer gateway. *)

Subscribes == [delivery : Deliveries, at : {"bind", "relay", "register"}]

\* The shape of the gateway's state, and whose it is: only a session that was
\* connected subscribes, and while it is it is bound before it is relayed.
GatewayOK ==
  /\ subscribing \in [Sessions -> {None} \cup Subscribes]
  /\ stream \in [Sessions -> {"new", "open", "closed"}]
  /\ \A i \in 1 .. Len(updates) : updates[i].after \subseteq confirmed
  /\ updates \in Seq([delivery : Deliveries, after : SUBSET (Sessions \X Deliveries)])
  /\ confirmed \in SUBSET (Sessions \X Deliveries)
  /\ \A s \in Sessions :
       /\ subscribing[s] # None \/ s \in bindings => stream[s] # "new"
       /\ subscribing[s] # None /\ subscribing[s].at # "bind" /\ stream[s] = "open" =>
            s \in bindings
       /\ \A d \in Deliveries : <<s, d>> \in confirmed =>
            /\ stream[s] # "new"
            /\ stream[s] = "open" => s \in bindings

\* As long as sessions follow one another, the connected one keeps the binding
\* and its subscriptions: no other is left that could take them.
OneByOne ==
  ~shared =>
    /\ missed = {}
    /\ \A r, s \in Connected : r = s
    /\ \A r \in Sessions, s \in Connected : subscribing[r] # None => r = s
    /\ \A s \in bindings : s \in Connected => boundSession = s
    /\ \A s \in Connected, d \in Deliveries :
         <<s, d>> \in confirmed => d \in subscriptions

GInv == GatewayOK /\ OneByOne

LEMMA GatewayInitInv == GatewayInit => GInv
<1> SUFFICES ASSUME GatewayInit PROVE GInv
  OBVIOUS
<1>1. updates = <<>> /\ Len(updates) = 0
  BY EmptySeq DEF GatewayInit
<1>2. updates \in Seq([delivery : Deliveries, after : SUBSET (Sessions \X Deliveries)])
  BY <1>1, EmptySeq
<1> QED
  BY <1>1, <1>2 DEF GatewayInit, GInv, GatewayOK, OneByOne, Connected

\* One session's subscribe goes on to its next await.
LEMMA SubscribeStep ==
  ASSUME GInv, NEW s \in Sessions,
         (\E d \in Deliveries : Subscribe(s, d)) \/ Bind(s) \/ Relay(s)
  PROVE  GInv'
<1> USE DEF GInv, GatewayOK, OneByOne, Connected
<1>1. ASSUME NEW d \in Deliveries, Subscribe(s, d) PROVE GInv'
  <2>1. PICK x : x = [delivery |-> d, at |-> IF s \in bindings THEN "relay" ELSE "bind"]
    OBVIOUS
  <2>2. x \in Subscribes /\ subscribing' = [subscribing EXCEPT ![s] = x]
    BY <1>1, <2>1 DEF Subscribe, Subscribes
  <2>3. x.at # "bind" => s \in bindings
    BY <2>1
  <2> QED
    BY <1>1, <2>2, <2>3 DEF Subscribe
<1>2. ASSUME subscribing[s] # None PROVE subscribing[s] \in Subscribes
  BY <1>2
<1>3. CASE Bind(s)
  <2>1. PICK x : x = [subscribing[s] EXCEPT !.at = "relay"]
    OBVIOUS
  <2>2. x \in Subscribes /\ subscribing' = [subscribing EXCEPT ![s] = x]
    BY <1>2, <1>3, <2>1 DEF Bind, Subscribes
  <2> QED
    BY <1>3, <2>2 DEF Bind
<1>4. CASE Relay(s)
  <2>1. PICK x : x = [subscribing[s] EXCEPT !.at = "register"]
    OBVIOUS
  <2>2. x \in Subscribes /\ subscribing' = [subscribing EXCEPT ![s] = x]
    BY <1>2, <1>4, <2>1 DEF Relay, Subscribes
  <2> QED
    BY <1>4, <2>2 DEF Relay
<1> QED
  BY <1>1, <1>3, <1>4

LEMMA SessionStep ==
  ASSUME GInv, NEW s \in Sessions,
         Connect(s) \/ Register(s) \/ SubscribeFails(s) \/ Disconnect(s)
  PROVE  GInv'
<1> USE DEF GInv, GatewayOK, OneByOne, Connected
<1>1. CASE Connect(s)
  <2>1. GatewayOK'
    BY <1>1 DEF Connect
  <2>2. ASSUME ~shared'
        PROVE  /\ ~shared /\ \A r \in Sessions : stream[r] # "open" /\ subscribing[r] = None
               /\ \A r \in Sessions : stream'[r] = "open" => r = s
    BY <1>1, <2>2 DEF Connect
  <2>3. \A d \in Deliveries : <<s, d>> \notin confirmed
    BY <1>1 DEF Connect
  <2>4. s \notin bindings
    BY <1>1 DEF Connect
  <2> QED
    BY <1>1, <2>1, <2>2, <2>3, <2>4 DEF Connect
<1>2. CASE Register(s)
  <2>1. subscribing[s] \in Subscribes /\ subscribing[s].delivery \in Deliveries
    BY <1>2 DEF Register, Subscribes
  <2> QED
    BY <1>2, <2>1 DEF Register
<1>3. CASE Disconnect(s)
  BY <1>3 DEF Disconnect
<1>4. CASE SubscribeFails(s)
  BY <1>4 DEF SubscribeFails
<1> QED
  BY <1>1, <1>2, <1>3, <1>4

\* A status reaches the actor, is lost on the way, or is sent.
LEMMA UpdateStep ==
  ASSUME GInv, TypeOK, StatusUpdated \/ LoseUpdate \/ \E t \in tasks : TrackAndTell(t)
  PROVE  GInv'
<1> DEFINE Updates == [delivery : Deliveries, after : SUBSET (Sessions \X Deliveries)]
<1>0. updates \in Seq(Updates)
  BY DEF GInv, GatewayOK
<1>1. ASSUME updates # <<>>, updates' = Tail(updates)
      PROVE  /\ updates' \in Seq(Updates)
             /\ \A i \in 1 .. Len(updates)' : updates'[i] = updates[i + 1] /\ i + 1 \in 1 .. Len(updates)
  BY <1>0, <1>1, HeadTailProperties
<1>2. CASE LoseUpdate
  BY <1>1, <1>2 DEF LoseUpdate, GInv, GatewayOK, OneByOne, Connected
<1>3. CASE StatusUpdated
  <2>1. PICK m : m = Head(updates)
    OBVIOUS
  <2>2. m \in Updates /\ m.after \subseteq confirmed
    <3>1. Len(updates) \in Nat \ {0} /\ m = updates[1]
      BY <1>0, <1>3, <2>1, EmptySeq DEF StatusUpdated
    <3>2. 1 \in 1 .. Len(updates)
      BY <3>1
    <3>3. updates[1] \in Updates
      BY <1>0, <3>2, ElementOfSeq
    <3>4. updates[1].after \subseteq confirmed
      BY <3>2 DEF GInv, GatewayOK
    <3> QED
      BY <3>1, <3>3, <3>4
  <2>3. ~shared => missed' = {}
    <3> SUFFICES ASSUME ~shared PROVE missed' = {}
      OBVIOUS
    <3>1. ASSUME NEW r \in Connected, <<r, m.delivery>> \in m.after
          PROVE  m.delivery \in subscriptions /\ boundSession = r
      BY <2>2, <3>1 DEF GInv, GatewayOK, OneByOne, Connected
    <3> QED
      BY <1>3, <2>1, <3>1 DEF StatusUpdated, GInv, OneByOne
  <2> QED
    BY <1>1, <1>3, <2>3 DEF StatusUpdated, GInv, GatewayOK, OneByOne, Connected
<1>4. ASSUME NEW t \in tasks, TrackAndTell(t) PROVE GInv'
  <2>1. PICK m : m = [delivery |-> Delivery[t.req], after |-> confirmed]
    OBVIOUS
  <2>2. m \in Updates
    BY <2>1 DEF GInv, GatewayOK, TypeOK, Deliveries
  <2>3. updates' = IF customer THEN Append(updates, m) ELSE updates
    BY <1>4, <2>1 DEF TrackAndTell
  <2>4. updates' \in Seq(Updates)
    BY <1>0, <2>2, <2>3, AppendProperties
  <2>5. \A i \in 1 .. Len(updates)' : updates'[i].after \subseteq confirmed
    <3>1. CASE customer
      BY <1>0, <2>1, <2>2, <2>3, <3>1, AppendProperties DEF GInv, GatewayOK
    <3>2. CASE ~customer
      BY <2>3, <3>2 DEF GInv, GatewayOK
    <3> QED
      BY <3>1, <3>2
  <2> QED
    BY <1>4, <2>4, <2>5 DEF TrackAndTell, GInv, GatewayOK, OneByOne, Connected
<1> QED
  BY <1>2, <1>3, <1>4

\* The service takes only steps of the dispatch, as far as the dispatch sees.
LEMMA ServiceIsDispatch == [ServiceNext]_<<vars, gatewayVars>> => [Next]_vars
<1> SUFFICES ASSUME [ServiceNext]_<<vars, gatewayVars>> PROVE Next \/ UNCHANGED vars
  OBVIOUS
<1>1. ASSUME NEW t \in tasks, TrackAndTell(t) PROVE Next
  BY <1>1 DEF TrackAndTell, Next, Normal, Coroutine
<1>2. ASSUME NEW s \in Sessions, NEW d \in Deliveries, Subscribe(s, d)
      PROVE  Next \/ UNCHANGED vars
  BY <1>2 DEF Subscribe, Next, Normal, Clients
<1>3. ASSUME GatewayNext PROVE Next \/ UNCHANGED vars
  BY <1>2, <1>3
     DEF GatewayNext, Connect, Bind, Relay, Register, SubscribeFails, Disconnect,
         StatusUpdated, LoseUpdate
<1> QED
  BY <1>1, <1>3 DEF ServiceNext

LEMMA GatewayNextInv ==
  TypeOK /\ GInv /\ [ServiceNext]_<<vars, gatewayVars>> => GInv'
<1> SUFFICES ASSUME TypeOK, GInv, [ServiceNext]_<<vars, gatewayVars>> PROVE GInv'
  OBVIOUS
<1>1. CASE UNCHANGED gatewayVars
  BY <1>1 DEF gatewayVars, GInv, GatewayOK, OneByOne, Connected
<1>2. CASE GatewayNext
  BY <1>2, SubscribeStep, SessionStep, UpdateStep DEF GatewayNext
<1> QED
  BY <1>1, <1>2, UpdateStep DEF ServiceNext

\* With its gateway, the dispatch still does what it promises: the service
\* implements the dispatch.
THEOREM GatewayKeepsDispatch == ServiceSpec => Spec
<1>1. Init /\ GatewayInit => Init
  OBVIOUS
<1> QED
  BY <1>1, ServiceIsDispatch, PTL DEF ServiceSpec, Spec

\* A session whose subscribe was answered is pushed every later status that
\* reaches the customer's actor while it is connected, if the customer's
\* sessions follow one another (customer_gateway_session_t,
\* customer_entry_spot_t::status_updated).
THEOREM CustomerIsTold == ServiceSpec => []SubscriberIsTold
<1>1. GInv => SubscriberIsTold
  BY DEF GInv, OneByOne, SubscriberIsTold
<1>2. TypeOK /\ GInv /\ [ServiceNext]_<<vars, gatewayVars>> => GInv'
  BY GatewayNextInv
<1>3. ServiceSpec => []TypeOK
  BY GatewayKeepsDispatch, TypeCorrect, PTL
<1> QED
  BY <1>1, <1>2, <1>3, GatewayInitInv, PTL DEF ServiceSpec

=============================================================================
