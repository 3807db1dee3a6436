------------------------- MODULE OrderWorkflowProofs -------------------------
(***************************************************************************)
(* Proofs about the ShoppingMall order workflow for every set of keys,     *)
(* carts, stock levels, payment methods and client calls, about its        *)
(* planned relocation, and about the store it keeps its document in.  The  *)
(* argument runs over documents: every update keeps SoundDoc, and both the *)
(* saved document and the lock holder's draft are sound.                   *)
(***************************************************************************)
EXTENDS PlannedRelocation, LeasedStore, FiniteSetTheorems, SequenceTheorems, WellFoundedInduction,
        TLAPS

\* A started order carries a seeded cart and a payment method.
RequestKnown(d) ==
  \A o \in Orders :
    d.events[o] # <<>> => /\ d.events[o][1].cart \in Carts
                          /\ d.events[o][1].method \in Methods

SoundDoc(d) ==
  /\ d \in Docs
  /\ RequestKnown(d)
  /\ StreamsLegalIn(d)
  /\ EffectsMatchIn(d)
  /\ ReadModelFreshIn(d)

\* Only jobs and calls that start an order need its cart and its method: the
\* method comes with the call, the cart is known once start_order checked it.
StartJob(j) == j.op = "start" => j.cart \in Carts /\ j.method \in Methods

StartCall(c) ==
  /\ c.pc \in {"plan", "poll", "send"} => c.method \in Methods
  /\ c.pc \in {"poll", "send"} => c.cart \in Carts
  /\ c.pc = "plan" => c.cmd.key \in Keys
  /\ c.pc = "poll" => c.order \in Orders

StartsKnown ==
  /\ \A m \in msgs : StartJob(m)
  /\ \A o \in Orders : StartJob(spot[o].job)
  /\ \A c \in Calls : StartCall(calls[c])

IInv == TypeOK /\ SoundDoc(doc) /\ SoundDoc(draft.doc) /\ StartsKnown

-----------------------------------------------------------------------------
(* Documents *)

LEMMA LastEvent ==
  ASSUME NEW s \in Seq(Events), s # <<>>
  PROVE  Last(s) \in Events /\ Last(s).type \in EventTypes
<1>1. Len(s) \in 1..Len(s)
  OBVIOUS
<1>2. s[Len(s)] \in Events
  BY <1>1
<1> QED BY <1>2 DEF Last, Events

LEMMA StatusType ==
  ASSUME NEW t \in EventTypes
  PROVE  StatusAfter[t] \in Statuses \ {""}
BY DEF StatusAfter, EventTypes, Statuses

LEMMA ModelType ==
  ASSUME NEW m \in Statuses, NEW r \in BOOLEAN, NEW p \in BOOLEAN,
         NEW q \in {"", "inventory", "payment"}
  PROVE  [status |-> m, reserved |-> r, paid |-> p, reason |-> q] \in Models
BY DEF Models

LEMMA ProjectionType ==
  ASSUME NEW s \in Seq(Events)
  PROVE  Projection(s) \in Models
<1>1. Status(s) \in Statuses
  BY LastEvent, StatusType DEF Status, Statuses
<1>2. Reason(s) \in {"", "inventory", "payment"}
  BY DEF Reason
<1>3. Occurs(s, "InventoryReserved") \in BOOLEAN
      /\ Occurs(s, "PaymentAuthorized") \in BOOLEAN
  BY Zenon DEF Occurs
<1> DEFINE m == IF Status(s) = "InventoryReservationFailed" THEN "Created"
                ELSE IF Status(s) \in {"PaymentFailed", "InventoryReleased"}
                  THEN "InventoryReserved"
                ELSE Status(s)
<1>4. m \in Statuses
  BY <1>1 DEF Statuses, EventTypes
<1>5. Projection(s) = [status |-> m, reserved |-> Occurs(s, "InventoryReserved"),
        paid |-> Occurs(s, "PaymentAuthorized"), reason |-> Reason(s)]
  BY DEF Projection
<1> HIDE DEF m
<1> QED BY <1>2, <1>3, <1>4, <1>5, Zenon, ModelType

\* Appending an event keeps a legal stream legal when its type may follow.
LEMMA AppendLegal ==
  ASSUME NEW s \in Seq(Events), LegalStream(s), NEW e \in Events,
         IF s = <<>> THEN e.type = "OrderStarted"
         ELSE <<Last(s).type, e.type>> \in Follows
  PROVE  /\ Append(s, e) \in Seq(Events)
         /\ LegalStream(Append(s, e))
         /\ Append(s, e) # <<>>
         /\ Last(Append(s, e)) = e
         /\ s = <<>> => Append(s, e)[1] = e
         /\ s # <<>> => Append(s, e)[1] = s[1]
<1> DEFINE t == Append(s, e)
<1>1. /\ t \in Seq(Events) /\ Len(t) = Len(s) + 1 /\ t[Len(s) + 1] = e
      /\ \A i \in 1..Len(s) : t[i] = s[i]
      /\ Len(s) \in Nat
  OBVIOUS
<1>2. s = <<>> <=> Len(s) = 0
  OBVIOUS
<1>3. t # <<>> /\ Last(t) = e
  BY <1>1 DEF Last
<1>4. t[1].type = "OrderStarted"
  BY <1>1, <1>2 DEF LegalStream
<1>5. ASSUME NEW i \in 1..Len(t) - 1
      PROVE  <<t[i].type, t[i + 1].type>> \in Follows
  <2>1. CASE i = Len(s)
    BY <1>1, <1>2, <2>1 DEF Last
  <2>2. CASE i < Len(s)
    BY <1>1, <2>2 DEF LegalStream
  <2> QED BY <1>1, <2>1, <2>2, SMTT(30)
<1> HIDE DEF t
<1>6. LegalStream(t)
  BY <1>4, <1>5 DEF LegalStream
<1> QED BY <1>1, <1>2, <1>3, <1>6 DEF t

\* Same effects and the same stream mean the same agreement.
LEMMA EffectsFrame ==
  ASSUME NEW d, NEW e, NEW o,
         e.events[o] = d.events[o], e.reservations[o] = d.reservations[o],
         e.payments[o] = d.payments[o], o \in e.released <=> o \in d.released,
         EffectsMatchAt(d, o)
  PROVE  EffectsMatchAt(e, o)
BY DEF EffectsMatchAt

\* Saving the projection of the only order whose read model may be stale
\* makes the document sound.
LEMMA SaveSound ==
  ASSUME NEW d \in Docs, NEW o \in Orders, RequestKnown(d), StreamsLegalIn(d),
         EffectsMatchIn(d),
         \A q \in Orders \ {o} :
           d.models[q] # None => d.models[q] = Projection(d.events[q])
  PROVE  SoundDoc(SaveProjection(d, o))
<1> DEFINE e == SaveProjection(d, o)
<1>1. e \in Docs
  BY ProjectionType DEF SaveProjection, Docs
<1>2. /\ e.events = d.events /\ e.reservations = d.reservations
      /\ e.payments = d.payments /\ e.released = d.released
      /\ \A q \in Orders : e.models[q] = IF q = o THEN Projection(d.events[o])
                                         ELSE d.models[q]
  BY DEF SaveProjection, Docs
<1> HIDE DEF e
<1>3. EffectsMatchIn(e)
  BY <1>2, EffectsFrame DEF EffectsMatchIn
<1>4. ReadModelFreshIn(e) /\ RequestKnown(e) /\ StreamsLegalIn(e)
  BY <1>2 DEF ReadModelFreshIn, RequestKnown, StreamsLegalIn
<1> QED BY <1>1, <1>3, <1>4 DEF SoundDoc, e

\* One appended event, with effects on its own order only.
LEMMA EventSound ==
  ASSUME NEW d, SoundDoc(d), NEW o \in Orders, NEW ev \in Events,
         NEW e \in Docs,
         e.events = [d.events EXCEPT ![o] = Append(@, ev)],
         e.models = d.models,
         \A q \in Orders \ {o} : /\ e.reservations[q] = d.reservations[q]
                                 /\ e.payments[q] = d.payments[q]
                                 /\ q \in e.released <=> q \in d.released,
         EffectsMatchAt(e, o),
         IF d.events[o] = <<>>
           THEN /\ ev.type = "OrderStarted"
                /\ ev.cart \in Carts /\ ev.method \in Methods
           ELSE <<Last(d.events[o]).type, ev.type>> \in Follows
  PROVE  SoundDoc(SaveProjection(e, o))
<1>1. d.events \in [Orders -> Seq(Events)]
  BY DEF SoundDoc, Docs
<1>2. \A q \in Orders : e.events[q] = IF q = o THEN Append(d.events[o], ev)
                                      ELSE d.events[q]
  BY <1>1
<1>3. LegalStream(d.events[o])
  BY DEF SoundDoc, StreamsLegalIn
<1>4. /\ LegalStream(e.events[o])
      /\ e.events[o][1] = IF d.events[o] = <<>> THEN ev ELSE d.events[o][1]
  BY <1>1, <1>2, <1>3, AppendLegal
<1>5. StreamsLegalIn(e)
  BY <1>2, <1>4 DEF SoundDoc, StreamsLegalIn
<1>6. RequestKnown(e)
  BY <1>2, <1>4 DEF SoundDoc, RequestKnown
<1>7. EffectsMatchIn(e)
  <2> SUFFICES ASSUME NEW q \in Orders
               PROVE  EffectsMatchAt(e, q)
    BY DEF EffectsMatchIn
  <2>1. CASE q # o
    BY <1>2, <2>1, EffectsFrame DEF SoundDoc, EffectsMatchIn
  <2> QED BY <2>1
<1>8. \A q \in Orders \ {o} :
        e.models[q] # None => e.models[q] = Projection(e.events[q])
  BY <1>2 DEF SoundDoc, ReadModelFreshIn
<1> QED BY <1>5, <1>6, <1>7, <1>8, SaveSound

\* The status of an order after an event is the one of the event's type.
LEMMA StatusOfAppend ==
  ASSUME NEW s \in Seq(Events), NEW ev \in Events
  PROVE  Status(Append(s, ev)) = StatusAfter[ev.type]
<1> DEFINE t == Append(s, ev)
<1>1. t # <<>> /\ t[Len(t)] = ev
  OBVIOUS
<1> HIDE DEF t
<1>2. Last(t) = ev
  BY <1>1 DEF Last
<1>3. Status(t) = StatusAfter[ev.type]
  BY <1>1, <1>2 DEF Status
<1> QED BY <1>3 DEF t

LEMMA NewEvent ==
  ASSUME NEW cmd \in Commands
  PROVE  /\ \A t \in EventTypes : /\ Event(t, cmd) \in Events
                                 /\ Event(t, cmd).type = t
         /\ \A cart \in Carts, m \in Methods :
              /\ StartEvent(cmd, cart, m) \in Events
              /\ StartEvent(cmd, cart, m).type = "OrderStarted"
              /\ StartEvent(cmd, cart, m).cart = cart
              /\ StartEvent(cmd, cart, m).method = m
BY DEF Event, StartEvent, Events, EventTypes

\* Document e is document d with event ev appended to the stream of o.
Appended(d, e, o, ev) ==
  /\ e \in Docs
  /\ e.events = [d.events EXCEPT ![o] = Append(@, ev)]
  /\ e.models = d.models /\ e.reservations = d.reservations
  /\ e.payments = d.payments /\ e.released = d.released
  /\ Status(e.events[o]) = StatusAfter[ev.type]

LEMMA AppendEventFields ==
  ASSUME NEW d \in Docs, NEW o \in Orders, NEW ev \in Events
  PROVE  Appended(d, AppendEvent(d, o, ev), o, ev)
<1> DEFINE evs == [d.events EXCEPT ![o] = Append(@, ev)]
           e == AppendEvent(d, o, ev)
<1>2. e = [d EXCEPT !.events = evs]
  BY DEF AppendEvent
<1>3. d.events \in [Orders -> Seq(Events)]
  BY DEF Docs
<1>4. evs \in [Orders -> Seq(Events)] /\ evs[o] = Append(d.events[o], ev)
  BY <1>3
<1>5. Status(evs[o]) = StatusAfter[ev.type]
  BY <1>3, <1>4, StatusOfAppend
<1> HIDE DEF evs, e
<1>6. e \in Docs
  BY <1>2, <1>4 DEF Docs
<1>7. /\ e.events = evs /\ e.models = d.models
      /\ e.reservations = d.reservations
      /\ e.payments = d.payments /\ e.released = d.released
  BY <1>2 DEF Docs
<1> QED BY <1>5, <1>6, <1>7 DEF Appended, evs, e

\* The first event of an order.
LEMMA StartSound ==
  ASSUME NEW d, SoundDoc(d), NEW o \in Orders, d.events[o] = <<>>,
         NEW cmd \in Commands, NEW cart \in Carts, NEW m \in Methods
  PROVE  SoundDoc(SaveProjection(AppendEvent(d, o, StartEvent(cmd, cart, m)), o))
<1> DEFINE ev == StartEvent(cmd, cart, m)
           e == AppendEvent(d, o, ev)
<1>1. /\ ev \in Events /\ ev.type = "OrderStarted"
      /\ ev.cart = cart /\ ev.method = m
  BY NewEvent
<1>2. d \in Docs
  BY DEF SoundDoc
<1> HIDE DEF ev
<1>3. Appended(d, e, o, ev)
  BY <1>1, <1>2, AppendEventFields
<1> HIDE DEF e
<1>4. Status(e.events[o]) = "Created"
  BY <1>1, <1>3 DEF Appended, StatusAfter, EventTypes
<1>5. EffectsMatchAt(d, o)
  BY DEF SoundDoc, EffectsMatchIn
<1>6. EffectsMatchAt(e, o)
  BY <1>3, <1>4, <1>5 DEF EffectsMatchAt, Effects, Status, Appended
<1>7. SoundDoc(SaveProjection(e, o))
  BY <1>1, <1>3, <1>6, EventSound DEF Appended
<1> QED BY <1>7 DEF e, ev

\* The folded status of a running order names its last event.
LEMMA StatusNamesEvent ==
  ASSUME NEW s \in Seq(Events), s # <<>>, ~Terminal(Status(s))
  PROVE  \/ Status(s) = "Created" /\ Last(s).type = "OrderStarted"
         \/ /\ Status(s) \in {"InventoryReserved", "PaymentAuthorized",
                              "InventoryReservationFailed", "PaymentFailed",
                              "InventoryReleased"}
            /\ Last(s).type = Status(s)
<1>1. Last(s).type \in EventTypes
  BY LastEvent
<1> QED BY <1>1 DEF Status, StatusAfter, EventTypes, Terminal

\* One recorded event after an external call left document e: the effects of
\* the status it leads to must already be there.
LEMMA RecordSound ==
  ASSUME NEW d, SoundDoc(d), NEW o \in Orders, d.events[o] # <<>>,
         NEW cmd \in Commands, NEW t \in EventTypes,
         NEW e \in Docs,
         e.events = d.events, e.models = d.models,
         \A q \in Orders \ {o} : /\ e.reservations[q] = d.reservations[q]
                                 /\ e.payments[q] = d.payments[q]
                                 /\ q \in e.released <=> q \in d.released,
         <<Last(d.events[o]).type, t>> \in Follows,
         Effects(StatusAfter[t], e.reservations[o], e.payments[o],
                 o \in e.released)
  PROVE  SoundDoc(SaveProjection(Record(e, o, t, cmd), o))
<1> DEFINE ev == Event(t, cmd)
           f == AppendEvent(e, o, ev)
<1>1. ev \in Events /\ ev.type = t
  BY NewEvent
<1> HIDE DEF ev
<1>2. Appended(e, f, o, ev)
  BY <1>1, AppendEventFields
<1> HIDE DEF f
<1>3. EffectsMatchAt(f, o)
  BY <1>1, <1>2 DEF EffectsMatchAt, Appended
<1>4. SoundDoc(SaveProjection(f, o))
  BY <1>1, <1>2, <1>3, EventSound DEF Appended
<1> QED BY <1>4 DEF f, ev, Record

LEMMA ReserveFields ==
  ASSUME NEW d \in Docs, NEW o \in Orders, NEW c \in Carts,
         d.reservations[o] = None
  PROVE  /\ Reserve(d, o, c) \in Docs
         /\ Reserve(d, o, c).events = d.events
         /\ Reserve(d, o, c).models = d.models
         /\ Reserve(d, o, c).payments = d.payments
         /\ Reserve(d, o, c).released = d.released
         /\ \A q \in Orders \ {o} :
              Reserve(d, o, c).reservations[q] = d.reservations[q]
         /\ Reserve(d, o, c).reservations[o] \in Results
<1> DEFINE res == IF Available(d, c) THEN "accepted" ELSE "refused"
           rs == [d.reservations EXCEPT ![o] = res]
           inv == IF Available(d, c)
                  THEN [s \in Skus |-> d.inventory[s] - Lines[c][s]]
                  ELSE d.inventory
           e == [d EXCEPT !.reservations = rs, !.inventory = inv]
<1>1. Reserve(d, o, c) = e
  BY DEF Reserve
<1>2. inv \in [Skus -> Int]
  BY StreamAssumption DEF Docs
<1>3. res \in Results
  BY DEF Results
<1> HIDE DEF res, inv
<1>4. /\ rs \in [Orders -> {None} \cup Results] /\ rs[o] = res
      /\ \A q \in Orders \ {o} : rs[q] = d.reservations[q]
  BY <1>3 DEF Docs
<1> HIDE DEF rs
<1>5. e \in Docs
  BY <1>2, <1>4 DEF Docs
<1>6. /\ e.events = d.events /\ e.models = d.models
      /\ e.payments = d.payments /\ e.released = d.released
      /\ e.reservations = rs
  BY DEF Docs
<1> QED BY <1>1, <1>3, <1>4, <1>5, <1>6

LEMMA ReleaseFields ==
  ASSUME NEW d \in Docs, NEW o \in Orders, NEW c \in Carts,
         d.reservations[o] # None, o \notin d.released
  PROVE  /\ Release(d, o, c) \in Docs
         /\ Release(d, o, c).events = d.events
         /\ Release(d, o, c).models = d.models
         /\ Release(d, o, c).payments = d.payments
         /\ Release(d, o, c).reservations = d.reservations
         /\ Release(d, o, c).released = d.released \cup {o}
<1> DEFINE inv == [s \in Skus |-> d.inventory[s] + Lines[c][s]]
           rel == d.released \cup {o}
           e == [d EXCEPT !.released = rel, !.inventory = inv]
<1>1. Release(d, o, c) = e
  BY DEF Release
<1>2. inv \in [Skus -> Int]
  BY StreamAssumption DEF Docs
<1>3. rel \in SUBSET Orders
  BY DEF Docs
<1> HIDE DEF inv, rel
<1>4. e \in Docs
  BY <1>2, <1>3 DEF Docs
<1>5. /\ e.events = d.events /\ e.models = d.models
      /\ e.payments = d.payments /\ e.released = rel
      /\ e.reservations = d.reservations
  BY DEF Docs
<1> QED BY <1>1, <1>4, <1>5 DEF rel

LEMMA AuthorizeFields ==
  ASSUME NEW d \in Docs, NEW o \in Orders, NEW m \in Methods,
         d.payments[o] = None
  PROVE  /\ Authorize(d, o, m) \in Docs
         /\ Authorize(d, o, m).events = d.events
         /\ Authorize(d, o, m).models = d.models
         /\ Authorize(d, o, m).reservations = d.reservations
         /\ Authorize(d, o, m).released = d.released
         /\ \A q \in Orders \ {o} :
              Authorize(d, o, m).payments[q] = d.payments[q]
         /\ Authorize(d, o, m).payments[o] \in Results
<1> DEFINE res == IF Authorizes[m] THEN "accepted" ELSE "refused"
           ps == [d.payments EXCEPT ![o] = res]
           e == [d EXCEPT !.payments = ps]
<1>1. Authorize(d, o, m) = e
  BY DEF Authorize
<1>2. res \in Results
  BY DEF Results
<1> HIDE DEF res
<1>3. /\ ps \in [Orders -> {None} \cup Results] /\ ps[o] = res
      /\ \A q \in Orders \ {o} : ps[q] = d.payments[q]
  BY <1>2 DEF Docs
<1> HIDE DEF ps
<1>4. e \in Docs
  BY <1>3 DEF Docs
<1>5. /\ e.events = d.events /\ e.models = d.models
      /\ e.reservations = d.reservations /\ e.released = d.released
      /\ e.payments = ps
  BY DEF Docs
<1> QED BY <1>1, <1>2, <1>3, <1>4, <1>5

\* advance_once keeps the document sound.
LEMMA StepSound ==
  ASSUME NEW d, SoundDoc(d), NEW o \in Orders, NEW cmd \in Commands,
         d.events[o] # <<>>, ~Terminal(Status(d.events[o]))
  PROVE  SoundDoc(SaveProjection(NextStep(d, o, cmd), o))
<1> DEFINE s == d.events[o]
           cart == s[1].cart
           m == s[1].method
<1>1. d \in Docs /\ s \in Seq(Events)
  BY DEF SoundDoc, Docs
<1>2. cart \in Carts /\ m \in Methods
  BY DEF SoundDoc, RequestKnown
<1>3. Effects(Status(s), d.reservations[o], d.payments[o], o \in d.released)
  BY DEF SoundDoc, EffectsMatchIn, EffectsMatchAt
<1>4. \/ Status(s) = "Created" /\ Last(s).type = "OrderStarted"
      \/ /\ Status(s) \in {"InventoryReserved", "PaymentAuthorized",
                           "InventoryReservationFailed", "PaymentFailed",
                           "InventoryReleased"}
         /\ Last(s).type = Status(s)
  BY <1>1, StatusNamesEvent
<1> HIDE DEF s, cart, m
<1>5. CASE Status(s) = "Created"
  <2> DEFINE r == Reserve(d, o, cart)
             t == IF r.reservations[o] = "accepted" THEN "InventoryReserved"
                  ELSE "InventoryReservationFailed"
  <2>1. d.reservations[o] = None /\ d.payments[o] = None /\ o \notin d.released
    BY <1>3, <1>5 DEF Effects
  <2>2. NextStep(d, o, cmd) = Record(r, o, t, cmd)
    BY <1>5 DEF NextStep, s, cart
  <2>3. /\ r \in Docs /\ r.events = d.events /\ r.models = d.models
        /\ r.payments = d.payments /\ r.released = d.released
        /\ \A q \in Orders \ {o} : r.reservations[q] = d.reservations[q]
        /\ r.reservations[o] \in Results
    BY <1>1, <1>2, <2>1, ReserveFields
  <2> HIDE DEF r
  <2>4. t \in EventTypes /\ <<Last(s).type, t>> \in Follows
    BY <1>4, <1>5 DEF EventTypes, Follows
  <2>5. Effects(StatusAfter[t], r.reservations[o], r.payments[o],
                o \in r.released)
    BY <2>1, <2>3 DEF Effects, StatusAfter, EventTypes, Results
  <2> HIDE DEF t
  <2> QED BY <2>2, <2>3, <2>4, <2>5, RecordSound DEF s
<1>6. CASE Status(s) = "InventoryReserved"
  <2> DEFINE r == Authorize(d, o, m)
             t == IF r.payments[o] = "accepted" THEN "PaymentAuthorized"
                  ELSE "PaymentFailed"
  <2>1. /\ d.reservations[o] = "accepted" /\ d.payments[o] = None
        /\ o \notin d.released
    BY <1>3, <1>6 DEF Effects
  <2>2. NextStep(d, o, cmd) = Record(r, o, t, cmd)
    BY <1>6 DEF NextStep, s, m
  <2>3. /\ r \in Docs /\ r.events = d.events /\ r.models = d.models
        /\ r.reservations = d.reservations /\ r.released = d.released
        /\ \A q \in Orders \ {o} : r.payments[q] = d.payments[q]
        /\ r.payments[o] \in Results
    BY <1>1, <1>2, <2>1, AuthorizeFields
  <2> HIDE DEF r
  <2>4. t \in EventTypes /\ <<Last(s).type, t>> \in Follows
    BY <1>4, <1>6 DEF EventTypes, Follows
  <2>5. Effects(StatusAfter[t], r.reservations[o], r.payments[o],
                o \in r.released)
    BY <2>1, <2>3 DEF Effects, StatusAfter, EventTypes, Results
  <2> HIDE DEF t
  <2> QED BY <2>2, <2>3, <2>4, <2>5, RecordSound DEF s
<1>7. CASE Status(s) = "PaymentAuthorized"
  <2> DEFINE t == "OrderConfirmed"
  <2>1. NextStep(d, o, cmd) = Record(d, o, t, cmd)
    BY <1>7 DEF NextStep, s
  <2>2. t \in EventTypes /\ <<Last(s).type, t>> \in Follows
    BY <1>4, <1>7 DEF EventTypes, Follows
  <2>3. Effects(StatusAfter[t], d.reservations[o], d.payments[o],
                o \in d.released)
    BY <1>3, <1>7 DEF Effects, StatusAfter, EventTypes
  <2> HIDE DEF t
  <2> QED BY <1>1, <2>1, <2>2, <2>3, RecordSound DEF s
<1>8. CASE Status(s) = "PaymentFailed"
  <2> DEFINE t == "InventoryReleased"
             r == Release(d, o, cart)
  <2>1. /\ d.reservations[o] = "accepted" /\ d.payments[o] = "refused"
        /\ o \notin d.released
    BY <1>3, <1>8 DEF Effects
  <2>2. NextStep(d, o, cmd) = Record(r, o, t, cmd)
    BY <1>8 DEF NextStep, s, cart
  <2>3. /\ r \in Docs /\ r.events = d.events /\ r.models = d.models
        /\ r.reservations = d.reservations /\ r.payments = d.payments
        /\ r.released = d.released \cup {o}
    <3>1. d.reservations[o] # None
      BY <2>1, StreamAssumption DEF Results
    <3> QED BY <1>1, <1>2, <2>1, <3>1, ReleaseFields
  <2> HIDE DEF r
  <2>4. t \in EventTypes /\ <<Last(s).type, t>> \in Follows
    BY <1>4, <1>8 DEF EventTypes, Follows
  <2>5. Effects(StatusAfter[t], r.reservations[o], r.payments[o],
                o \in r.released)
    BY <2>1, <2>3 DEF Effects, StatusAfter, EventTypes
  <2> HIDE DEF t
  <2> QED BY <2>2, <2>3, <2>4, <2>5, RecordSound DEF s
<1>9. CASE Status(s) \in {"InventoryReleased", "InventoryReservationFailed"}
  <2> DEFINE t == "OrderFailed"
  <2>1. NextStep(d, o, cmd) = Record(d, o, t, cmd)
    BY <1>9 DEF NextStep, s
  <2>2. t \in EventTypes /\ <<Last(s).type, t>> \in Follows
    BY <1>4, <1>9 DEF EventTypes, Follows
  <2>3. Effects(StatusAfter[t], d.reservations[o], d.payments[o],
                o \in d.released)
    BY <1>3, <1>9 DEF Effects, StatusAfter, EventTypes
  <2> HIDE DEF t
  <2> QED BY <1>1, <2>1, <2>2, <2>3, RecordSound DEF s
<1> QED BY <1>4, <1>5, <1>6, <1>7, <1>8, <1>9

\* An update of the mappings, the sequence or the hooks is neutral.
LEMMA NeutralSound ==
  ASSUME NEW d, SoundDoc(d), NEW e \in Docs,
         e.events = d.events, e.reservations = d.reservations,
         e.payments = d.payments, e.released = d.released,
         \A o \in Orders : e.models[o] \in {None, d.models[o]}
  PROVE  SoundDoc(e)
<1>1. RequestKnown(e) /\ StreamsLegalIn(e) /\ ReadModelFreshIn(e)
  BY DEF SoundDoc, RequestKnown, StreamsLegalIn, ReadModelFreshIn
<1>2. EffectsMatchIn(e)
  BY DEF SoundDoc, EffectsMatchIn, EffectsMatchAt
<1> QED BY <1>1, <1>2 DEF SoundDoc

LEMMA EmptySound == SoundDoc(EmptyDoc)
<1>1. EmptyDoc \in Docs
  BY StreamAssumption DEF EmptyDoc, Docs
<1>2. \A o \in Orders : /\ EmptyDoc.events[o] = <<>>
                         /\ EmptyDoc.models[o] = None
                         /\ EmptyDoc.reservations[o] = None
                         /\ EmptyDoc.payments[o] = None
                         /\ o \notin EmptyDoc.released
  BY DEF EmptyDoc
<1> HIDE DEF EmptyDoc
<1>3. RequestKnown(EmptyDoc) /\ ReadModelFreshIn(EmptyDoc)
  BY <1>2 DEF RequestKnown, ReadModelFreshIn
<1>4. StreamsLegalIn(EmptyDoc)
  BY <1>2 DEF StreamsLegalIn, LegalStream
<1>5. EffectsMatchIn(EmptyDoc)
  BY <1>2 DEF EffectsMatchIn, EffectsMatchAt, Effects, Status
<1> QED BY <1>1, <1>3, <1>4, <1>5 DEF SoundDoc

CallStates ==
  [pc : {"new", "plan", "poll", "send", "wait", "watch", "done", "failed"},
   op : {"none", "start", "prepare", "pending", "continue", "rebuild"},
   order : Orders \cup {0}, cmd : Commands, cart : Carts \cup {None},
   method : Methods \cup {None}, reply : {None} \cup Models]

SpotStates ==
  [phase : {"closed", "idle", "locking", "running", "after"},
   timer : BOOLEAN, job : Jobs]

LEMMA Commanded ==
  /\ NoCommand \in Commands /\ ContinueCommand \in Commands
  /\ \A k \in Keys : StartCommand(k) \in Commands
BY DEF NoCommand, ContinueCommand, StartCommand, Commands

LEMMA NoJobType == NoJob \in Jobs /\ StartJob(NoJob)
BY Commanded DEF NoJob, Jobs, StartJob

LEMMA ClosedType == Closed \in SpotStates
BY NoJobType DEF Closed, SpotStates

LEMMA NewCallType == NewCall \in CallStates /\ StartCall(NewCall)
BY Commanded DEF NewCall, CallStates, StartCall

\* TypeOK in terms of the sets above.
LEMMA TypeParts ==
  TypeOK <=> /\ doc \in Docs
             /\ lock \in Orders \cup {Free}
             /\ draft \in [doc : Docs, left : 0..16]
             /\ spot \in [Orders -> SpotStates]
             /\ calls \in [Calls -> CallStates]
             /\ msgs \subseteq Jobs
BY DEF TypeOK, SpotStates, CallStates

LEMMA InitIInv == Init => IInv
<1> SUFFICES ASSUME Init PROVE IInv
  OBVIOUS
<1>1. SoundDoc(doc) /\ SoundDoc(draft.doc)
  BY EmptySound DEF Init, NoDraft
<1>2. draft \in [doc : Docs, left : 0..16]
  BY EmptySound DEF Init, NoDraft, SoundDoc
<1>3. TypeOK
  BY <1>1, <1>2, ClosedType, NewCallType, TypeParts DEF Init, SoundDoc
<1>4. StartsKnown
  BY NoJobType, NewCallType DEF Init, StartsKnown, Closed
<1> QED BY <1>1, <1>3, <1>4 DEF IInv

\* What a step of the API leaves alone.
LEMMA ApiStepKeeps ==
  ASSUME IInv, SoundDoc(doc'), UNCHANGED <<lock, draft, spot>>,
         calls' \in [Calls -> CallStates],
         \A c \in Calls : StartCall(calls'[c]),
         msgs' \subseteq Jobs, \A m \in msgs' : StartJob(m)
  PROVE  IInv'
<1>1. TypeOK'
  BY TypeParts DEF IInv, SoundDoc, TypeOK, SpotStates, CallStates
<1>2. StartsKnown'
  BY DEF IInv, StartsKnown
<1> QED BY <1>1, <1>2 DEF IInv

\* A call whose record is replaced by another well-formed one.
LEMMA CallReplaced ==
  ASSUME IInv, NEW c \in Calls, NEW v \in CallStates, StartCall(v),
         calls' = [calls EXCEPT ![c] = v]
  PROVE  /\ calls' \in [Calls -> CallStates]
         /\ \A b \in Calls : StartCall(calls'[b])
<1>1. calls \in [Calls -> CallStates]
  BY TypeParts DEF IInv
<1>2. \A b \in Calls : StartCall(calls[b])
  BY DEF IInv, StartsKnown
<1> QED BY <1>1, <1>2

\* A call that only moves to another place and takes no new order, cart or
\* method.
LEMMA CallMoved ==
  ASSUME IInv, NEW c \in Calls, NEW v, v \in CallStates,
         v.pc \in {"wait", "watch", "done", "failed"}
              \/ (v.pc = "send" /\ calls[c].pc = "poll"
                  /\ v.cart = calls[c].cart /\ v.method = calls[c].method),
         calls' = [calls EXCEPT ![c] = v]
  PROVE  /\ calls' \in [Calls -> CallStates]
         /\ \A b \in Calls : StartCall(calls'[b])
<1>1. StartCall(calls[c])
  BY DEF IInv, StartsKnown
<1>2. StartCall(v)
  BY <1>1 DEF StartCall
<1> QED BY <1>2, CallReplaced

\* Plan, the first update of start_order.
LEMMA PlanKeeps ==
  ASSUME IInv, NEW c \in Calls, NEW op \in {"start", "prepare"},
         NEW k \in Keys, NEW cart \in Carts \cup {None}, NEW m \in Methods,
         Plan(c, op, k, cart, m, doc), UNCHANGED <<lock, draft, spot, msgs>>
  PROVE  IInv'
<1> DEFINE known == doc.idem[k] # None
           order == IF known THEN doc.idem[k].order ELSE doc.next + 1
<1>1. doc \in Docs /\ msgs \subseteq Jobs /\ (\A j \in msgs : StartJob(j))
  BY DEF IInv, SoundDoc, TypeOK, StartsKnown
<1>2. CASE order \notin Orders \/ cart \notin Carts
  <2> DEFINE v == [NewCall EXCEPT !.pc = "failed"]
  <2>1. doc' = doc /\ calls' = [calls EXCEPT ![c] = v]
    BY <1>2 DEF Plan
  <2>2. v \in CallStates /\ StartCall(v)
    BY NewCallType DEF StartCall, CallStates, NewCall
  <2> HIDE DEF v
  <2>3. SoundDoc(doc')
    BY <2>1 DEF IInv
  <2>4. /\ calls' \in [Calls -> CallStates]
        /\ \A b \in Calls : StartCall(calls'[b])
    BY <2>1, <2>2, CallReplaced
  <2> QED BY <1>1, <2>3, <2>4, ApiStepKeeps
<1>3. CASE order \in Orders /\ cart \in Carts
  <2> DEFINE again == known /\ doc.idem[k].started
             v == [pc |-> IF again THEN "poll" ELSE "send", op |-> op,
                   order |-> order, cmd |-> StartCommand(k),
                   cart |-> cart, method |-> m, reply |-> None]
             nx == IF known THEN doc.next ELSE order
             idem == [doc.idem EXCEPT ![k] = [order |-> order, started |-> TRUE]]
             d == [doc EXCEPT !.next = nx, !.idem = idem]
  <2>1. doc' = d
    BY <1>3 DEF Plan
  <2>2. calls' = [calls EXCEPT ![c] = v]
    BY <1>3 DEF Plan
  <2>3. v \in CallStates /\ StartCall(v)
    BY <1>3, Commanded DEF CallStates, StartCall
  <2> HIDE DEF v
  <2>4. nx \in 0..MaxSequence
    BY <1>1, <1>3, StreamAssumption DEF Docs, Orders
  <2> HIDE DEF nx
  <2>5. idem \in [Keys -> {None} \cup [order : Orders, started : BOOLEAN]]
    BY <1>1, <1>3 DEF Docs
  <2> HIDE DEF idem
  <2>6. d \in Docs /\ d.events = doc.events /\ d.models = doc.models
        /\ d.reservations = doc.reservations /\ d.payments = doc.payments
        /\ d.released = doc.released
    BY <1>1, <2>4, <2>5 DEF Docs
  <2>7. SoundDoc(doc')
    BY <2>1, <2>6, NeutralSound DEF IInv
  <2>8. /\ calls' \in [Calls -> CallStates]
        /\ \A b \in Calls : StartCall(calls'[b])
    BY <2>2, <2>3, CallReplaced
  <2> QED BY <1>1, <2>7, <2>8, ApiStepKeeps
<1> QED BY <1>2, <1>3

LEMMA ClientStepKeeps ==
  ASSUME IInv, NEW c \in Calls, ClientStep(c)
  PROVE  IInv'
<1>1. doc \in Docs /\ msgs \subseteq Jobs /\ (\A j \in msgs : StartJob(j))
      /\ SoundDoc(doc) /\ calls[c] \in CallStates
  BY TypeParts DEF IInv, SoundDoc, TypeOK, StartsKnown
<1>2. ASSUME NEW k \in Keys, NEW cart \in Carts \cup {None},
             NEW m \in Methods, StartOrder(c, k, cart, m)
      PROVE  IInv'
  BY <1>2, PlanKeeps DEF StartOrder
<1>3. ASSUME NEW k \in Keys, NEW cart \in Carts \cup {None},
             NEW m \in Methods, Prepare(c, k, cart, m)
      PROVE  IInv'
  <2> DEFINE known == doc.idem[k] # None
             order == IF known THEN doc.idem[k].order ELSE doc.next + 1
  <2>1. CASE order \notin Orders
    <3> DEFINE v == [calls[c] EXCEPT !.pc = "failed"]
    <3>1. doc' = doc /\ calls' = [calls EXCEPT ![c] = v]
          /\ UNCHANGED <<lock, draft, spot, msgs>>
      BY <1>3, <2>1 DEF Prepare
    <3>2. v \in CallStates /\ v.pc = "failed"
      BY <1>1 DEF CallStates
    <3> HIDE DEF v
    <3>3. SoundDoc(doc')
      BY <1>1, <3>1
    <3> QED BY <1>1, <3>1, <3>2, <3>3, CallMoved, ApiStepKeeps
  <2>2. CASE order \in Orders
    <3> DEFINE v == [pc |-> "plan", op |-> "prepare", order |-> order,
                     cmd |-> StartCommand(k), cart |-> cart, method |-> m,
                     reply |-> None]
               nx == IF known THEN doc.next ELSE order
               idem == [doc.idem EXCEPT ![k] = IF known THEN doc.idem[k]
                               ELSE [order |-> order, started |-> FALSE]]
               stops == doc.stopAt \cup {order}
               d == [doc EXCEPT !.next = nx, !.idem = idem, !.stopAt = stops]
    <3>1. doc' = d /\ calls' = [calls EXCEPT ![c] = v]
          /\ UNCHANGED <<lock, draft, spot, msgs>>
      BY <1>3, <2>2 DEF Prepare
    <3>2. v \in CallStates /\ StartCall(v)
      BY <2>2, Commanded DEF CallStates, StartCall, StartCommand
    <3> HIDE DEF v
    <3>3. nx \in 0..MaxSequence
      BY <1>1, <2>2, StreamAssumption DEF Docs, Orders
    <3>4. idem \in [Keys -> {None} \cup [order : Orders, started : BOOLEAN]]
      BY <1>1, <2>2 DEF Docs
    <3>5. stops \in SUBSET Orders
      BY <1>1, <2>2 DEF Docs
    <3> HIDE DEF nx, idem, stops
    <3>6. d \in Docs /\ d.events = doc.events /\ d.models = doc.models
          /\ d.reservations = doc.reservations /\ d.payments = doc.payments
          /\ d.released = doc.released
      BY <1>1, <3>3, <3>4, <3>5 DEF Docs
    <3>7. SoundDoc(doc')
      BY <1>1, <3>1, <3>6, NeutralSound
    <3>8. /\ calls' \in [Calls -> CallStates]
          /\ \A b \in Calls : StartCall(calls'[b])
      BY <3>1, <3>2, CallReplaced
    <3> QED BY <1>1, <3>1, <3>7, <3>8, ApiStepKeeps
  <2> QED BY <2>1, <2>2
<1>4. ASSUME NEW k \in Keys, CreatePending(c, k)
      PROVE  IInv'
  <2> DEFINE order == doc.next + 1
  <2>1. CASE order \notin Orders
    <3> DEFINE v == [calls[c] EXCEPT !.pc = "failed"]
    <3>1. doc' = doc /\ calls' = [calls EXCEPT ![c] = v]
          /\ UNCHANGED <<lock, draft, spot, msgs>>
      BY <1>4, <2>1 DEF CreatePending
    <3>2. v \in CallStates /\ v.pc = "failed"
      BY <1>1 DEF CallStates
    <3> HIDE DEF v
    <3>3. SoundDoc(doc')
      BY <1>1, <3>1
    <3> QED BY <1>1, <3>1, <3>2, <3>3, CallMoved, ApiStepKeeps
  <2>2. CASE order \in Orders
    <3> DEFINE v == [calls[c] EXCEPT !.pc = "done", !.op = "pending",
                                     !.order = order]
               idem == [doc.idem EXCEPT ![k] = [order |-> order,
                                                started |-> FALSE]]
               d == [doc EXCEPT !.next = order, !.idem = idem]
    <3>a. doc' = d /\ UNCHANGED <<lock, draft, spot, msgs>>
      BY <1>4, <2>2 DEF CreatePending
    <3>b. calls' = [calls EXCEPT ![c].pc = "done", ![c].op = "pending",
                                 ![c].order = order]
      BY <1>4, <2>2 DEF CreatePending
    <3>c. calls' = [calls EXCEPT ![c] = v]
      BY <1>1, <3>b DEF CallStates
    <3>1. doc' = d /\ calls' = [calls EXCEPT ![c] = v]
          /\ UNCHANGED <<lock, draft, spot, msgs>>
      BY <3>a, <3>c
    <3>2. v \in CallStates /\ v.pc = "done"
      BY <1>1, <2>2 DEF CallStates
    <3> HIDE DEF v
    <3>3. order \in 0..MaxSequence
      BY <1>1, <2>2, StreamAssumption DEF Docs, Orders
    <3>4. idem \in [Keys -> {None} \cup [order : Orders, started : BOOLEAN]]
      BY <1>1, <2>2 DEF Docs
    <3> HIDE DEF idem, order
    <3>6. d \in Docs /\ d.events = doc.events /\ d.models = doc.models
          /\ d.reservations = doc.reservations /\ d.payments = doc.payments
          /\ d.released = doc.released
      BY <1>1, <3>3, <3>4 DEF Docs
    <3>7. SoundDoc(doc')
      BY <1>1, <3>1, <3>6, NeutralSound
    <3>8. /\ calls' \in [Calls -> CallStates]
          /\ \A b \in Calls : StartCall(calls'[b])
      BY <3>1, <3>2, CallMoved
    <3> QED BY <1>1, <3>1, <3>7, <3>8, ApiStepKeeps
  <2> QED BY <2>1, <2>2
<1>5. ASSUME NEW op \in {"continue", "rebuild"}, NEW o \in Orders,
             Forward(c, op, o)
      PROVE  IInv'
  <2> DEFINE v == [calls[c] EXCEPT !.pc = "wait", !.op = op, !.order = o]
             cmd == IF op = "continue" THEN ContinueCommand ELSE NoCommand
             j == [op |-> op, order |-> o, cmd |-> cmd, call |-> c,
                   cart |-> None, method |-> None]
  <2>1. doc' = doc /\ calls' = [calls EXCEPT ![c] = v]
        /\ UNCHANGED <<lock, draft, spot>> /\ msgs' = msgs \cup {j}
    BY <1>1, <1>5 DEF Forward, Request, CallStates
  <2>2. v \in CallStates /\ v.pc = "wait"
    BY <1>1 DEF CallStates
  <2>3. cmd \in Commands
    BY Commanded
  <2> HIDE DEF v, cmd
  <2>4. j \in Jobs /\ StartJob(j)
    BY <2>3 DEF Jobs, StartJob
  <2> HIDE DEF j
  <2>5. msgs' \subseteq Jobs /\ \A q \in msgs' : StartJob(q)
    BY <1>1, <2>1, <2>4
  <2>6. SoundDoc(doc')
    BY <1>1, <2>1
  <2>7. /\ calls' \in [Calls -> CallStates]
        /\ \A b \in Calls : StartCall(calls'[b])
    BY <2>1, <2>2, CallMoved
  <2> QED BY <2>1, <2>5, <2>6, <2>7, ApiStepKeeps
<1> QED BY <1>2, <1>3, <1>4, <1>5 DEF ClientStep

\* A step that only moves call c, to a record v.
LEMMA MoveKeeps ==
  ASSUME IInv, NEW c \in Calls, NEW v \in CallStates,
         v.pc \in {"wait", "watch", "done", "failed"}
              \/ (v.pc = "send" /\ calls[c].pc = "poll"
                  /\ v.cart = calls[c].cart /\ v.method = calls[c].method),
         calls' = [calls EXCEPT ![c] = v],
         UNCHANGED <<doc, lock, draft, spot, msgs>>
  PROVE  IInv'
<1>1. /\ calls' \in [Calls -> CallStates]
      /\ \A b \in Calls : StartCall(calls'[b])
  BY CallMoved
<1>2. SoundDoc(doc')
  BY DEF IInv
<1>3. msgs' \subseteq Jobs /\ \A q \in msgs' : StartJob(q)
  BY DEF IInv, TypeOK, StartsKnown
<1> QED BY <1>1, <1>2, <1>3, ApiStepKeeps

\* Answering a call is such a move, or none.
LEMMA AnswerMoves ==
  ASSUME IInv, NEW c \in Calls, NEW model \in Models,
         calls' = Answer(c, model)
  PROVE  /\ calls' \in [Calls -> CallStates]
         /\ \A b \in Calls : StartCall(calls'[b])
<1>1. calls \in [Calls -> CallStates] /\ calls[c] \in CallStates
  BY TypeParts DEF IInv
<1> DEFINE v == [calls[c] EXCEPT !.reply = model,
                   !.pc = IF @ = "wait" \/ @ = "poll"
                          THEN IF calls[c].op = "prepare" THEN "watch"
                               ELSE "done"
                          ELSE @]
<1>2. calls' = [calls EXCEPT ![c] = v]
  BY <1>1 DEF Answer, CallStates
<1>3. v \in CallStates
  BY <1>1, ZenonT(60) DEF CallStates
<1>4. StartCall(calls[c])
  BY DEF IInv, StartsKnown
<1>5. StartCall(v)
  BY <1>1, <1>4 DEF StartCall, CallStates
<1> HIDE DEF v
<1> QED BY <1>2, <1>3, <1>5, CallReplaced

LEMMA ApiKeeps ==
  ASSUME IInv, NEW c \in Calls, ApiStep(c) \/ Abandon(c)
  PROVE  IInv'
<1>1. doc \in Docs /\ msgs \subseteq Jobs /\ (\A j \in msgs : StartJob(j))
      /\ SoundDoc(doc) /\ calls[c] \in CallStates
      /\ calls \in [Calls -> CallStates] /\ StartCall(calls[c])
  BY TypeParts DEF IInv, SoundDoc, TypeOK, StartsKnown
<1>2. CASE PlanPrepared(c)
  <2>1. /\ calls[c].pc = "plan" /\ calls[c].method \in Methods
        /\ calls[c].cmd.key \in Keys
    BY <1>1, <1>2 DEF PlanPrepared, StartCall
  <2> QED BY <1>1, <1>2, <2>1, PlanKeeps DEF PlanPrepared, CallStates
<1>3. CASE PollFound(c)
  <2>1. doc.models[calls[c].order] \in Models
    BY <1>1, <1>3 DEF PollFound, StartCall, Docs
  <2>2. /\ calls' \in [Calls -> CallStates]
        /\ \A b \in Calls : StartCall(calls'[b])
    BY <1>3, <2>1, AnswerMoves DEF PollFound
  <2>3. SoundDoc(doc') /\ UNCHANGED <<lock, draft, spot>> /\ msgs' = msgs
    BY <1>1, <1>3 DEF PollFound
  <2> QED BY <1>1, <2>2, <2>3, ApiStepKeeps
<1>4. CASE PollExhausted(c)
  <2> DEFINE v == [calls[c] EXCEPT !.pc = "send"]
  <2>1. calls' = [calls EXCEPT ![c] = v] /\ calls[c].pc = "poll"
        /\ UNCHANGED <<doc, lock, draft, spot, msgs>>
    BY <1>1, <1>4 DEF PollExhausted
  <2>2. v \in CallStates /\ v.pc = "send" /\ v.cart = calls[c].cart
        /\ v.method = calls[c].method
    BY <1>1 DEF CallStates
  <2> HIDE DEF v
  <2> QED BY <2>1, <2>2, MoveKeeps
<1>5. CASE SendStart(c)
  <2> DEFINE v == [calls[c] EXCEPT !.pc = "wait"]
             j == [op |-> "start", order |-> calls[c].order,
                   cmd |-> calls[c].cmd, call |-> c, cart |-> calls[c].cart,
                   method |-> calls[c].method]
  <2>1. calls' = [calls EXCEPT ![c] = v] /\ calls[c].pc = "send"
        /\ UNCHANGED <<doc, lock, draft, spot>> /\ msgs' = msgs \cup {j}
    BY <1>1, <1>5 DEF SendStart, Request
  <2>2. v \in CallStates /\ v.pc = "wait"
    BY <1>1 DEF CallStates
  <2>3. j \in Jobs /\ StartJob(j)
    BY <1>1, <2>1 DEF Jobs, StartJob, StartCall, CallStates
  <2> HIDE DEF v, j
  <2>4. msgs' \subseteq Jobs /\ \A q \in msgs' : StartJob(q)
    BY <1>1, <2>1, <2>3
  <2>5. /\ calls' \in [Calls -> CallStates]
        /\ \A b \in Calls : StartCall(calls'[b])
    BY <2>1, <2>2, CallMoved
  <2>6. SoundDoc(doc')
    BY <1>1, <2>1
  <2> QED BY <2>1, <2>4, <2>5, <2>6, ApiStepKeeps
<1>6. CASE WatchReached(c)
  <2> DEFINE v == [calls[c] EXCEPT !.pc = "done"]
             stops == doc.stopAt \ {calls[c].order}
             d == [doc EXCEPT !.stopAt = stops]
  <2>1. doc' = d /\ calls' = [calls EXCEPT ![c] = v]
        /\ UNCHANGED <<lock, draft, spot, msgs>>
    BY <1>1, <1>6 DEF WatchReached
  <2>2. v \in CallStates /\ v.pc = "done"
    BY <1>1 DEF CallStates
  <2> HIDE DEF v
  <2>3. stops \in SUBSET Orders
    BY <1>1 DEF Docs
  <2> HIDE DEF stops
  <2>4. d \in Docs /\ d.events = doc.events /\ d.models = doc.models
        /\ d.reservations = doc.reservations /\ d.payments = doc.payments
        /\ d.released = doc.released
    BY <1>1, <2>3 DEF Docs
  <2>5. SoundDoc(doc')
    BY <1>1, <2>1, <2>4, NeutralSound
  <2>6. /\ calls' \in [Calls -> CallStates]
        /\ \A b \in Calls : StartCall(calls'[b])
    BY <2>1, <2>2, CallMoved
  <2> QED BY <1>1, <2>1, <2>5, <2>6, ApiStepKeeps
<1>7. CASE Abandon(c)
  <2> DEFINE v == [calls[c] EXCEPT !.pc = "failed"]
  <2>1. calls' = [calls EXCEPT ![c] = v]
        /\ UNCHANGED <<doc, lock, draft, spot, msgs>>
    BY <1>1, <1>7 DEF Abandon
  <2>2. v \in CallStates /\ v.pc = "failed"
    BY <1>1 DEF CallStates
  <2> HIDE DEF v
  <2> QED BY <2>1, <2>2, MoveKeeps
<1> QED BY <1>2, <1>3, <1>4, <1>5, <1>6, <1>7 DEF ApiStep

-----------------------------------------------------------------------------
(* Steps of the spots *)

\* A step that changes spot o only, besides what it says of the rest.
LEMMA SpotStepKeeps ==
  ASSUME IInv, NEW o \in Orders, NEW v \in SpotStates, StartJob(v.job),
         spot' = [spot EXCEPT ![o] = v],
         lock' \in Orders \cup {Free},
         draft' \in [doc : Docs, left : 0..16], SoundDoc(draft'.doc),
         SoundDoc(doc'),
         calls' \in [Calls -> CallStates],
         \A c \in Calls : StartCall(calls'[c]),
         msgs' \subseteq msgs
  PROVE  IInv'
<1>1. spot \in [Orders -> SpotStates] /\ msgs \subseteq Jobs
      /\ (\A m \in msgs : StartJob(m))
      /\ \A q \in Orders : StartJob(spot[q].job)
  BY TypeParts DEF IInv, StartsKnown
<1>2. spot' \in [Orders -> SpotStates] /\ msgs' \subseteq Jobs
  BY <1>1
<1>3. TypeOK'
  BY <1>2 DEF TypeOK, SoundDoc, SpotStates, CallStates
<1>4. StartsKnown'
  BY <1>1 DEF StartsKnown
<1> QED BY <1>3, <1>4 DEF IInv

LEMMA Unfolded ==
  ASSUME IInv
  PROVE  /\ doc \in Docs /\ SoundDoc(doc) /\ lock \in Orders \cup {Free}
         /\ draft \in [doc : Docs, left : 0..16] /\ SoundDoc(draft.doc)
         /\ calls \in [Calls -> CallStates]
         /\ \A c \in Calls : StartCall(calls[c])
         /\ msgs \subseteq Jobs /\ (\A m \in msgs : StartJob(m))
         /\ spot \in [Orders -> SpotStates]
         /\ \A o \in Orders : StartJob(spot[o].job)
BY TypeParts DEF IInv, StartsKnown

LEMMA NoDraftSound ==
  NoDraft \in [doc : Docs, left : 0..16] /\ SoundDoc(NoDraft.doc)
BY EmptySound DEF NoDraft, SoundDoc

LEMMA TakeRequestKeeps ==
  ASSUME IInv, NEW m \in msgs, TakeRequest(m)
  PROVE  IInv'
<1> USE Unfolded
<1>1. CASE m.order \in Orders
  <2> DEFINE o == m.order
             v == [spot[o] EXCEPT !.phase = "locking", !.job = m]
  <2>1. spot' = [spot EXCEPT ![o] = v] /\ msgs' \subseteq msgs
        /\ UNCHANGED <<doc, lock, draft, calls>>
    BY <1>1 DEF TakeRequest, SpotStates
  <2>2. v \in SpotStates /\ StartJob(v.job)
    BY <1>1 DEF SpotStates
  <2> HIDE DEF v
  <2>3. /\ lock' \in Orders \cup {Free} /\ draft' \in [doc : Docs, left : 0..16]
        /\ SoundDoc(draft'.doc) /\ SoundDoc(doc')
        /\ calls' \in [Calls -> CallStates]
        /\ \A c \in Calls : StartCall(calls'[c])
    BY <2>1
  <2> QED BY <1>1, <2>1, <2>2, <2>3, SpotStepKeeps
<1>2. CASE m.order \notin Orders
  <2>1. spot' = spot /\ msgs' \subseteq msgs
        /\ UNCHANGED <<doc, lock, draft, calls>>
    BY <1>2 DEF TakeRequest
  <2>2. TypeOK'
    BY <2>1 DEF TypeOK, IInv
  <2>3. StartsKnown'
    BY <2>1 DEF StartsKnown, IInv
  <2> QED BY <2>1, <2>2, <2>3 DEF IInv
<1> QED BY <1>1, <1>2

\* A step that changes spot o only.
LEMMA SpotOnlyKeeps ==
  ASSUME IInv, NEW o \in Orders, NEW v \in SpotStates, StartJob(v.job),
         spot' = [spot EXCEPT ![o] = v],
         UNCHANGED <<doc, lock, draft, calls, msgs>>
  PROVE  IInv'
<1>1. /\ lock' \in Orders \cup {Free} /\ draft' \in [doc : Docs, left : 0..16]
      /\ SoundDoc(draft'.doc) /\ SoundDoc(doc')
      /\ calls' \in [Calls -> CallStates]
      /\ \A c \in Calls : StartCall(calls'[c])
  BY Unfolded
<1> QED BY <1>1, SpotStepKeeps

LEMMA AdvanceKeeps ==
  ASSUME IInv, NEW o \in Orders, Advance(o)
  PROVE  IInv'
<1> DEFINE j == spot[o].job
           s == draft.doc.events[o]
           d == IF s = <<>>
                THEN AppendEvent(draft.doc, o,
                                 StartEvent(j.cmd, j.cart, j.method))
                ELSE NextStep(draft.doc, o, j.cmd)
           e == SaveProjection(d, o)
<1>1. j \in Jobs /\ StartJob(j) /\ draft \in [doc : Docs, left : 0..16]
      /\ SoundDoc(draft.doc)
  BY Unfolded DEF SpotStates
<1>2. /\ draft' = [doc |-> e, left |-> draft.left - 1]
      /\ UNCHANGED <<doc, lock, spot, calls, msgs>>
      /\ draft.left > 0
      /\ IF s = <<>> THEN j.op = "start" ELSE ~Terminal(Status(s))
  BY DEF Advance, CanAdvance
<1>3. j.cmd \in Commands
  BY <1>1 DEF Jobs
<1>4. SoundDoc(e)
  <2>1. CASE s = <<>>
    <3>1. j.cart \in Carts /\ j.method \in Methods
      BY <1>1, <1>2, <2>1 DEF StartJob
    <3> QED BY <1>1, <1>3, <2>1, <3>1, StartSound
  <2>2. CASE s # <<>>
    BY <1>1, <1>2, <1>3, <2>2, StepSound
  <2> QED BY <2>1, <2>2
<1> HIDE DEF e
<1>5. draft' \in [doc : Docs, left : 0..16] /\ draft'.doc = e
  BY <1>1, <1>2, <1>4 DEF SoundDoc
<1>6. TypeOK'
  BY <1>2, <1>5 DEF IInv, TypeOK
<1>7. StartsKnown' /\ SoundDoc(doc')
  BY <1>2 DEF IInv, StartsKnown
<1> QED BY <1>4, <1>5, <1>6, <1>7 DEF IInv

LEMMA SpotKeeps ==
  ASSUME IInv, NEW o \in Orders, SpotStep(o) \/ LockTimeout(o) \/ Crash(o)
  PROVE  IInv'
<1>1. /\ doc \in Docs /\ SoundDoc(doc) /\ lock \in Orders \cup {Free}
      /\ draft \in [doc : Docs, left : 0..16] /\ SoundDoc(draft.doc)
      /\ calls \in [Calls -> CallStates]
      /\ (\A c \in Calls : StartCall(calls[c]))
      /\ spot \in [Orders -> SpotStates] /\ spot[o] \in SpotStates
      /\ StartJob(spot[o].job) /\ spot[o].job \in Jobs
  BY Unfolded DEF SpotStates
<1>2. CASE TakeTimer(o)
  <2> DEFINE j == [NoJob EXCEPT !.op = "continue", !.order = o]
             v == [spot[o] EXCEPT !.phase = "locking", !.timer = FALSE,
                                  !.job = j]
  <2>1. spot' = [spot EXCEPT ![o] = v]
        /\ UNCHANGED <<doc, lock, draft, calls, msgs>>
    BY <1>1, <1>2 DEF TakeTimer, SpotStates
  <2>2. j \in Jobs /\ StartJob(j)
    BY NoJobType DEF Jobs, StartJob, NoJob
  <2> HIDE DEF j
  <2>3. v \in SpotStates /\ StartJob(v.job)
    BY <1>1, <2>2 DEF SpotStates
  <2> HIDE DEF v
  <2> QED BY <2>1, <2>3, SpotOnlyKeeps
<1>3. CASE AcquireLock(o)
  <2> DEFINE v == [spot[o] EXCEPT !.phase = "running"]
             left == IF \/ spot[o].job.op = "rebuild"
                        \/ AlreadyApplied(doc, o, spot[o].job.cmd)
                     THEN 0 ELSE IF spot[o].job.op = "start" THEN 1 ELSE 16
  <2>1. /\ spot' = [spot EXCEPT ![o] = v] /\ lock' = o
        /\ draft' = [doc |-> doc, left |-> left]
        /\ UNCHANGED <<doc, calls, msgs>>
    BY <1>1, <1>3 DEF AcquireLock, SpotStates
  <2>2. v \in SpotStates /\ StartJob(v.job)
    BY <1>1 DEF SpotStates
  <2>3. left \in 0..16
    OBVIOUS
  <2> HIDE DEF v, left
  <2>4. draft' \in [doc : Docs, left : 0..16] /\ draft'.doc = doc
    BY <1>1, <2>1, <2>3
  <2> QED BY <1>1, <2>1, <2>2, <2>4, SpotStepKeeps
<1>4. CASE Advance(o)
  BY <1>4, AdvanceKeeps
<1>5. CASE Commit(o)
  <2> DEFINE v == [spot[o] EXCEPT !.phase = "after"]
  <2>1. /\ spot' = [spot EXCEPT ![o] = v] /\ lock' = Free
        /\ doc' = SaveProjection(draft.doc, o) /\ draft' = NoDraft
        /\ UNCHANGED <<calls, msgs>>
    BY <1>1, <1>5 DEF Commit, SpotStates
  <2>2. v \in SpotStates /\ StartJob(v.job)
    BY <1>1 DEF SpotStates
  <2> HIDE DEF v
  <2>3. SoundDoc(doc')
    BY <1>1, <2>1, SaveSound DEF SoundDoc, ReadModelFreshIn
  <2> QED BY <1>1, <2>1, <2>2, <2>3, NoDraftSound, SpotStepKeeps
<1>6. CASE RebuildRefused(o)
  <2> DEFINE v == [spot[o] EXCEPT !.phase = "idle", !.job = NoJob]
             b == spot[o].job.call
             w == [calls[b] EXCEPT !.pc = IF @ = "wait" THEN "failed" ELSE @]
  <2>1. /\ spot' = [spot EXCEPT ![o] = v] /\ lock' = Free
        /\ draft' = NoDraft /\ UNCHANGED <<doc, msgs>>
    BY <1>1, <1>6 DEF RebuildRefused, SpotStates
  <2>2. v \in SpotStates /\ StartJob(v.job)
    BY <1>1, NoJobType DEF SpotStates
  <2>3. /\ calls' \in [Calls -> CallStates]
        /\ \A c \in Calls : StartCall(calls'[c])
    <3>1. CASE b \in Calls
      <4>0. calls[b] \in CallStates /\ StartCall(calls[b])
        BY <1>1, <3>1
      <4>1. calls' = [calls EXCEPT ![b] = w]
        BY <1>1, <1>6, <3>1 DEF RebuildRefused, CallStates
      <4>2. w \in CallStates /\ StartCall(w)
        <5>1. w.pc \in {calls[b].pc, "failed"} /\ w = [calls[b] EXCEPT !.pc = w.pc]
          BY <4>0 DEF CallStates
        <5>2. w \in CallStates
          BY <4>0, <5>1 DEF CallStates
        <5>3. w.op = calls[b].op /\ w.cmd = calls[b].cmd
          BY <4>0, <5>1 DEF CallStates
        <5> QED BY <4>0, <5>2, <5>3 DEF StartCall
      <4> HIDE DEF w, b
      <4> QED BY <3>1, <4>1, <4>2, CallReplaced
    <3>2. CASE b \notin Calls
      BY <1>1, <1>6, <3>2 DEF RebuildRefused
    <3> QED BY <3>1, <3>2
  <2> HIDE DEF v
  <2> QED BY <1>1, <2>1, <2>2, <2>3, NoDraftSound, SpotStepKeeps
<1>7. CASE Finish(o)
  <2> DEFINE ended == Terminal(Status(doc.events[o]))
             j == spot[o].job
             v == IF ended THEN Closed
                  ELSE [phase |-> "idle", job |-> NoJob,
                        timer |-> spot[o].timer \/ j.op = "start"]
  <2>1. /\ spot' = [spot EXCEPT ![o] = v]
        /\ UNCHANGED <<doc, lock, draft, msgs>>
        /\ calls' = IF j.call = None THEN calls
                    ELSE Answer(j.call, Projection(doc.events[o]))
    BY <1>7 DEF Finish
  <2>2. v \in SpotStates /\ StartJob(v.job)
    <3>1. [phase |-> "idle", job |-> NoJob,
           timer |-> spot[o].timer \/ j.op = "start"] \in SpotStates
      BY <1>1, NoJobType DEF SpotStates
    <3> QED BY <3>1, ClosedType, NoJobType DEF Closed
  <2>3. Projection(doc.events[o]) \in Models
    BY <1>1, ProjectionType DEF Docs
  <2>4. /\ calls' \in [Calls -> CallStates]
        /\ \A c \in Calls : StartCall(calls'[c])
    <3>1. CASE j.call = None
      BY <1>1, <2>1, <3>1
    <3>2. CASE j.call \in Calls
      <4>1. calls' = Answer(j.call, Projection(doc.events[o]))
        BY <2>1, <3>2, WorkflowAssumption
      <4> QED BY <2>3, <3>2, <4>1, AnswerMoves
    <3> QED BY <1>1, <3>1, <3>2 DEF Jobs
  <2> HIDE DEF v
  <2> QED BY <1>1, <2>1, <2>2, <2>4, SpotStepKeeps
<1>8. CASE LockTimeout(o)
  <2> DEFINE v == [spot[o] EXCEPT !.phase = "idle", !.job = NoJob]
  <2>1. /\ spot' = [spot EXCEPT ![o] = v]
        /\ UNCHANGED <<doc, lock, draft, calls, msgs>>
    BY <1>1, <1>8 DEF LockTimeout, SpotStates
  <2>2. v \in SpotStates /\ StartJob(v.job)
    BY <1>1, NoJobType DEF SpotStates
  <2> HIDE DEF v
  <2> QED BY <2>1, <2>2, SpotOnlyKeeps
<1>9. CASE Crash(o)
  <2>1. spot' = [spot EXCEPT ![o] = Closed] /\ UNCHANGED <<doc, calls, msgs>>
    BY <1>9 DEF Crash
  <2>2. /\ lock' \in Orders \cup {Free} /\ draft' \in [doc : Docs, left : 0..16]
        /\ SoundDoc(draft'.doc)
    BY <1>1, <1>9, NoDraftSound DEF Crash
  <2>3. StartJob(Closed.job)
    BY NoJobType DEF Closed
  <2> QED BY <1>1, <2>1, <2>2, <2>3, ClosedType, SpotStepKeeps
<1> QED BY <1>2, <1>3, <1>4, <1>5, <1>6, <1>7, <1>8, <1>9 DEF SpotStep

LEMMA DeleteKeeps ==
  ASSUME IInv, NEW o \in Orders, DeleteProjection(o)
  PROVE  IInv'
<1> DEFINE ms == [doc.models EXCEPT ![o] = None]
           d == [doc EXCEPT !.models = ms]
<1>1. doc' = d /\ UNCHANGED <<lock, draft, spot, calls, msgs>>
  BY DEF DeleteProjection
<1>2. doc \in Docs /\ SoundDoc(doc)
  BY Unfolded
<1>3. ms \in [Orders -> {None} \cup Models]
      /\ \A q \in Orders : ms[q] \in {None, doc.models[q]}
  BY <1>2 DEF Docs
<1> HIDE DEF ms
<1>4. d \in Docs /\ d.events = doc.events /\ d.models = ms
      /\ d.reservations = doc.reservations /\ d.payments = doc.payments
      /\ d.released = doc.released
  BY <1>2, <1>3 DEF Docs
<1>5. SoundDoc(doc')
  BY <1>1, <1>2, <1>3, <1>4, NeutralSound
<1>6. /\ calls' \in [Calls -> CallStates]
      /\ (\A c \in Calls : StartCall(calls'[c]))
      /\ msgs' \subseteq Jobs /\ \A q \in msgs' : StartJob(q)
  BY <1>1, Unfolded
<1> QED BY <1>1, <1>5, <1>6, ApiStepKeeps

LEMMA NextKeeps == IInv /\ [Next]_vars => IInv'
<1> SUFFICES ASSUME IInv, [Next]_vars
             PROVE  IInv'
  OBVIOUS
<1>1. ASSUME NEW c \in Calls, ClientStep(c)
      PROVE  IInv'
  BY <1>1, ClientStepKeeps
<1>2. ASSUME NEW c \in Calls, ApiStep(c) \/ Abandon(c)
      PROVE  IInv'
  BY <1>2, ApiKeeps
<1>3. ASSUME NEW m \in msgs, TakeRequest(m)
      PROVE  IInv'
  BY <1>3, TakeRequestKeeps
<1>4. ASSUME NEW o \in Orders, SpotStep(o) \/ LockTimeout(o) \/ Crash(o)
      PROVE  IInv'
  BY <1>4, SpotKeeps
<1>5. ASSUME NEW o \in Orders, DeleteProjection(o)
      PROVE  IInv'
  BY <1>5, DeleteKeeps
<1>6. CASE UNCHANGED vars
  <2>1. TypeOK'
    BY <1>6 DEF vars, IInv, TypeOK
  <2>2. StartsKnown'
    BY <1>6 DEF vars, IInv, StartsKnown
  <2> QED BY <1>6, <2>1, <2>2 DEF vars, IInv
<1> QED BY <1>1, <1>2, <1>3, <1>4, <1>5, <1>6 DEF Next, Normal, Failure

THEOREM Invariance == Spec => []IInv
<1>1. Init => IInv
  BY InitIInv
<1>2. IInv /\ [Next]_vars => IInv'
  BY NextKeeps
<1> QED BY <1>1, <1>2, PTL DEF Spec

\* The type invariant of the workflow, for every number of keys, orders,
\* carts and calls.
THEOREM TypeCorrect == Spec => []TypeOK
<1>1. IInv => TypeOK
  BY DEF IInv
<1> QED BY <1>1, Invariance, PTL

\* Every saved event stream (append_event, advance_once) is a prefix of one
\* of the saga's three runs.
THEOREM StreamsAreLegal == Spec => []StreamsLegal
<1>1. IInv => StreamsLegal
  BY DEF IInv, SoundDoc, StreamsLegal
<1> QED BY <1>1, Invariance, PTL

\* Reservation, payment and release of an order are exactly those its
\* stream records, at every crash point of the workflow.
THEOREM EffectsAreRecorded == Spec => []EffectsMatchStream
<1>1. IInv => EffectsMatchStream
  BY DEF IInv, SoundDoc, EffectsMatchStream
<1> QED BY <1>1, Invariance, PTL

\* A stored read model is always the projection of the order's stream.
THEOREM ReadModelIsFresh == Spec => []ReadModelFresh
<1>1. IInv => ReadModelFresh
  BY DEF IInv, SoundDoc, ReadModelFresh
<1> QED BY <1>1, Invariance, PTL
-----------------------------------------------------------------------------
(* What is saved stays.  The draft of the owner that holds the lock extends *)
(* the saved document, so its commit only appends; nobody else writes while *)
(* the lock is taken, and outside it only the mappings, the hooks and the   *)
(* read models are written.                                                 *)

Extends(s, t) ==
  Len(t) >= Len(s) /\ \A i \in 1..Len(s) : t[i] = s[i]

\* Document e follows d: longer streams, the same hooks, no hooked payment.
Follow(d, e) ==
  /\ e.stopAt = d.stopAt
  /\ \A o \in Orders : Extends(d.events[o], e.events[o])
  /\ \A o \in d.stopAt : e.payments[o] = d.payments[o]

DraftFollows ==
  \A o \in Orders :
    spot[o].phase = "running" => lock = o /\ Follow(doc, draft.doc)

LEMMA FollowSelf ==
  ASSUME NEW d \in Docs
  PROVE  Follow(d, d)
<1>1. \A o \in Orders : d.events[o] \in Seq(Events)
  BY DEF Docs
<1>2. \A o \in Orders : Len(d.events[o]) \in Nat
  BY <1>1
<1> QED BY <1>2 DEF Follow, Extends

LEMMA FollowTwice ==
  ASSUME NEW d \in Docs, NEW e \in Docs, NEW f \in Docs,
         Follow(d, e), Follow(e, f)
  PROVE  Follow(d, f)
<1>1. /\ f.stopAt = d.stopAt
      /\ \A o \in d.stopAt : f.payments[o] = d.payments[o]
  BY DEF Follow
<1>2. ASSUME NEW o \in Orders
      PROVE  Extends(d.events[o], f.events[o])
  <2>1. /\ Len(d.events[o]) \in Nat /\ Len(e.events[o]) \in Nat
        /\ Len(f.events[o]) \in Nat
    BY DEF Docs
  <2>2. /\ Extends(d.events[o], e.events[o])
        /\ Extends(e.events[o], f.events[o])
    BY DEF Follow
  <2> QED BY <2>1, <2>2, SMTT(30) DEF Extends
<1> QED BY <1>1, <1>2 DEF Follow

\* Appending an event to the stream of one order.
LEMMA AppendFollows ==
  ASSUME NEW d \in Docs, NEW e \in Docs, NEW o \in Orders, NEW ev \in Events,
         e.stopAt = d.stopAt, e.events = d.events,
         \A q \in d.stopAt : e.payments[q] = d.payments[q]
  PROVE  /\ AppendEvent(e, o, ev) \in Docs
         /\ Follow(d, AppendEvent(e, o, ev))
<1> DEFINE f == AppendEvent(e, o, ev)
<1>1. Appended(e, f, o, ev)
  BY AppendEventFields
<1>2. f.stopAt = e.stopAt
  BY DEF AppendEvent, Docs
<1> HIDE DEF f
<1>3. ASSUME NEW q \in Orders
      PROVE  Extends(d.events[q], f.events[q])
  <2>1. d.events[q] \in Seq(Events) /\ Len(d.events[q]) \in Nat
    BY DEF Docs
  <2>2. e.events \in [Orders -> Seq(Events)]
    BY DEF Docs
  <2>3. CASE q = o
    <3>1. f.events[q] = Append(d.events[q], ev)
      BY <1>1, <2>2, <2>3 DEF Appended
    <3> QED BY <2>1, <3>1 DEF Extends
  <2>4. CASE q # o
    <3>1. f.events[q] = d.events[q]
      BY <1>1, <2>2, <2>4 DEF Appended
    <3> QED BY <2>1, <3>1 DEF Extends
  <2> QED BY <2>3, <2>4
<1>4. \A q \in d.stopAt : f.payments[q] = d.payments[q]
  BY <1>1 DEF Appended
<1> QED BY <1>1, <1>2, <1>3, <1>4 DEF Follow, Appended, f

\* Saving a read model touches nothing else.
LEMMA SaveFollows ==
  ASSUME NEW d \in Docs, NEW o \in Orders
  PROVE  /\ SaveProjection(d, o).stopAt = d.stopAt
         /\ SaveProjection(d, o).events = d.events
         /\ SaveProjection(d, o).payments = d.payments
BY DEF SaveProjection, Docs

\* advance_once only appends, and charges no order whose hook is set.
LEMMA StepFollows ==
  ASSUME NEW d, SoundDoc(d), NEW o \in Orders, NEW cmd \in Commands,
         d.events[o] # <<>>, ~Terminal(Status(d.events[o])),
         ~StopHookReached(d, o)
  PROVE  /\ NextStep(d, o, cmd) \in Docs
         /\ Follow(d, NextStep(d, o, cmd))
<1> DEFINE s == d.events[o]
           cart == s[1].cart
           m == s[1].method
           r == Reserve(d, o, cart)
           p == Authorize(d, o, m)
           g == Release(d, o, cart)
<1>1. d \in Docs /\ s \in Seq(Events) /\ cart \in Carts /\ m \in Methods
      /\ \A t \in EventTypes : Event(t, cmd) \in Events
  BY NewEvent DEF SoundDoc, RequestKnown, Docs
<1>2. Effects(Status(s), d.reservations[o], d.payments[o], o \in d.released)
  BY DEF SoundDoc, EffectsMatchIn, EffectsMatchAt
<1>3. \/ Status(s) = "Created"
      \/ Status(s) \in {"InventoryReserved", "PaymentAuthorized",
                        "InventoryReservationFailed", "PaymentFailed",
                        "InventoryReleased"}
  BY <1>1, StatusNamesEvent
<1>4. ASSUME NEW e \in Docs, NEW t \in EventTypes, e.stopAt = d.stopAt,
             e.events = d.events,
             \A q \in d.stopAt : e.payments[q] = d.payments[q]
      PROVE  Record(e, o, t, cmd) \in Docs /\ Follow(d, Record(e, o, t, cmd))
  BY <1>1, <1>4, AppendFollows DEF Record
<1>5. CASE Status(s) = "Created"
  <2> DEFINE t == IF r.reservations[o] = "accepted" THEN "InventoryReserved"
                  ELSE "InventoryReservationFailed"
  <2>1. NextStep(d, o, cmd) = Record(r, o, t, cmd)
    BY <1>5 DEF NextStep
  <2>2. d.reservations[o] = None
    BY <1>2, <1>5 DEF Effects
  <2>3. r \in Docs /\ r.events = d.events /\ r.payments = d.payments
    BY <1>1, <2>2, ReserveFields
  <2>4. r.stopAt = d.stopAt
    BY <1>1, <2>2 DEF Reserve, Docs
  <2>5. t \in EventTypes
    BY DEF EventTypes
  <2> HIDE DEF r, t
  <2> QED BY <1>4, <2>1, <2>3, <2>4, <2>5
<1>6. CASE Status(s) = "InventoryReserved"
  <2> DEFINE t == IF p.payments[o] = "accepted" THEN "PaymentAuthorized"
                  ELSE "PaymentFailed"
  <2>1. NextStep(d, o, cmd) = Record(p, o, t, cmd)
    BY <1>6 DEF NextStep
  <2>2. d.payments[o] = None
    BY <1>2, <1>6 DEF Effects
  <2>3. /\ p \in Docs /\ p.events = d.events
        /\ \A q \in Orders \ {o} : p.payments[q] = d.payments[q]
    BY <1>1, <2>2, AuthorizeFields
  <2>4. p.stopAt = d.stopAt
    BY <1>1, <2>2 DEF Authorize, Docs
  <2>5. o \notin d.stopAt /\ d.stopAt \subseteq Orders
    BY <1>1, <1>6 DEF StopHookReached, Docs
  <2>6. t \in EventTypes
    BY DEF EventTypes
  <2> HIDE DEF p, t
  <2> QED BY <1>4, <2>1, <2>3, <2>4, <2>5, <2>6
<1>7. CASE Status(s) = "PaymentFailed"
  <2>1. NextStep(d, o, cmd) = Record(g, o, "InventoryReleased", cmd)
    BY <1>7 DEF NextStep
  <2>2. d.reservations[o] # None /\ o \notin d.released
    BY <1>2, <1>7, StreamAssumption DEF Effects, Results
  <2>3. g \in Docs /\ g.events = d.events /\ g.payments = d.payments
    BY <1>1, <2>2, ReleaseFields
  <2>4. g.stopAt = d.stopAt
    BY <1>1, <2>2 DEF Release, Docs
  <2>5. "InventoryReleased" \in EventTypes
    BY DEF EventTypes
  <2> HIDE DEF g
  <2> QED BY <1>4, <2>1, <2>3, <2>4, <2>5
<1>8. CASE Status(s) = "PaymentAuthorized"
  <2>1. NextStep(d, o, cmd) = Record(d, o, "OrderConfirmed", cmd)
    BY <1>8 DEF NextStep
  <2>2. "OrderConfirmed" \in EventTypes
    BY DEF EventTypes
  <2> QED BY <1>1, <1>4, <2>1, <2>2
<1>9. CASE Status(s) \in {"InventoryReservationFailed", "InventoryReleased"}
  <2>1. NextStep(d, o, cmd) = Record(d, o, "OrderFailed", cmd)
    BY <1>9 DEF NextStep
  <2>2. "OrderFailed" \in EventTypes
    BY DEF EventTypes
  <2> QED BY <1>1, <1>4, <2>1, <2>2
<1> QED BY <1>3, <1>5, <1>6, <1>7, <1>8, <1>9

\* An Advance of the lock holder, seen from the saved document.
LEMMA AdvanceFollows ==
  ASSUME IInv, NEW o \in Orders, Advance(o), Follow(doc, draft.doc)
  PROVE  Follow(doc, draft.doc)'
<1> DEFINE j == spot[o].job
           b == draft.doc
           s == b.events[o]
           d == IF s = <<>>
                THEN AppendEvent(b, o, StartEvent(j.cmd, j.cart, j.method))
                ELSE NextStep(b, o, j.cmd)
           e == SaveProjection(d, o)
<1>1. /\ j \in Jobs /\ StartJob(j) /\ SoundDoc(b) /\ b \in Docs
      /\ doc \in Docs
  BY Unfolded DEF SpotStates, SoundDoc
<1>2. /\ draft' = [doc |-> e, left |-> draft.left - 1] /\ doc' = doc
      /\ IF s = <<>> THEN j.op = "start"
         ELSE ~Terminal(Status(s)) /\ ~StopHookReached(b, o)
  BY DEF Advance, CanAdvance
<1>3. j.cmd \in Commands
  BY <1>1 DEF Jobs
<1>4. d \in Docs /\ Follow(b, d)
  <2>1. CASE s = <<>>
    <3> DEFINE ev == StartEvent(j.cmd, j.cart, j.method)
    <3>1. j.cart \in Carts /\ j.method \in Methods
      BY <1>1, <1>2, <2>1 DEF StartJob
    <3>2. ev \in Events
      BY <1>3, <3>1, NewEvent
    <3>3. d = AppendEvent(b, o, ev)
      BY <2>1
    <3> HIDE DEF ev, d
    <3> QED BY <1>1, <3>2, <3>3, AppendFollows
  <2>2. CASE s # <<>>
    <3>1. d = NextStep(b, o, j.cmd)
      BY <2>2
    <3> HIDE DEF d
    <3> QED BY <1>1, <1>2, <1>3, <2>2, <3>1, StepFollows
  <2> QED BY <2>1, <2>2
<1> HIDE DEF d
<1>5. Follow(doc, d)
  BY <1>1, <1>4, FollowTwice
<1>6. Follow(doc, e)
  BY <1>4, <1>5, SaveFollows DEF Follow
<1>7. draft'.doc = e /\ doc' = doc
  BY <1>2
<1> HIDE DEF e
<1> QED BY <1>6, <1>7

-----------------------------------------------------------------------------
(* Steps *)

\* A step of the API, of a client, or of an operator who deletes a read model
\* leaves the owner's draft alone, and if it writes, the lock is free.
Quiet ==
  /\ UNCHANGED <<lock, draft, spot>>
  /\ doc' = doc \/ lock = Free
  /\ doc'.events = doc.events
  /\ doc'.payments = doc.payments

LEMMA PlanIsQuiet ==
  ASSUME doc \in Docs, NEW c, NEW op, NEW k, NEW cart, NEW m, lock = Free,
         Plan(c, op, k, cart, m, doc), UNCHANGED <<lock, draft, spot>>
  PROVE  Quiet
<1> DEFINE known == doc.idem[k] # None
           order == IF known THEN doc.idem[k].order ELSE doc.next + 1
           d == [doc EXCEPT !.next = IF known THEN @ ELSE order,
                            !.idem[k] = [order |-> order, started |-> TRUE]]
<1>1. doc' = doc \/ doc' = d
  BY DEF Plan
<1>2. d.events = doc.events /\ d.payments = doc.payments
  BY DEF Docs
<1> HIDE DEF d
<1> QED BY <1>1, <1>2 DEF Quiet

LEMMA ClientIsQuiet ==
  ASSUME doc \in Docs, NEW c \in Calls, ClientStep(c)
  PROVE  Quiet
<1>1. ASSUME NEW k \in Keys, NEW cart, NEW m, StartOrder(c, k, cart, m)
      PROVE  Quiet
  BY <1>1, PlanIsQuiet DEF StartOrder
<1>2. ASSUME NEW k \in Keys, NEW cart, NEW m, Prepare(c, k, cart, m)
      PROVE  Quiet
  <2> DEFINE known == doc.idem[k] # None
             order == IF known THEN doc.idem[k].order ELSE doc.next + 1
             d == [doc EXCEPT !.next = IF known THEN @ ELSE order,
                     !.idem[k] = IF known THEN @
                                 ELSE [order |-> order, started |-> FALSE],
                     !.stopAt = @ \cup {order}]
  <2>1. (doc' = doc \/ doc' = d) /\ lock = Free /\ UNCHANGED <<lock, draft, spot>>
    BY <1>2 DEF Prepare
  <2>2. d.events = doc.events /\ d.payments = doc.payments
    BY DEF Docs
  <2> HIDE DEF d
  <2> QED BY <2>1, <2>2 DEF Quiet
<1>3. ASSUME NEW k \in Keys, CreatePending(c, k)
      PROVE  Quiet
  <2> DEFINE d == [doc EXCEPT !.next = @ + 1,
                     !.idem[k] = [order |-> doc.next + 1, started |-> FALSE]]
  <2>1. (doc' = doc \/ doc' = d) /\ lock = Free /\ UNCHANGED <<lock, draft, spot>>
    BY <1>3 DEF CreatePending
  <2>2. d.events = doc.events /\ d.payments = doc.payments
    BY DEF Docs
  <2> HIDE DEF d
  <2> QED BY <2>1, <2>2 DEF Quiet
<1>4. ASSUME NEW op, NEW o \in Orders, Forward(c, op, o)
      PROVE  Quiet
  BY <1>4 DEF Forward, Quiet
<1> QED BY <1>1, <1>2, <1>3, <1>4 DEF ClientStep

LEMMA ApiIsQuiet ==
  ASSUME doc \in Docs, NEW c \in Calls, ApiStep(c) \/ Abandon(c)
  PROVE  Quiet
<1>1. CASE PlanPrepared(c)
  BY <1>1, PlanIsQuiet DEF PlanPrepared
<1>2. CASE WatchReached(c)
  <2> DEFINE d == [doc EXCEPT !.stopAt = @ \ {calls[c].order}]
  <2>1. doc' = d /\ lock = Free /\ UNCHANGED <<lock, draft, spot>>
    BY <1>2 DEF WatchReached
  <2>2. d.events = doc.events /\ d.payments = doc.payments
    BY DEF Docs
  <2> HIDE DEF d
  <2> QED BY <2>1, <2>2 DEF Quiet
<1>3. CASE PollFound(c) \/ PollExhausted(c) \/ SendStart(c) \/ Abandon(c)
  BY <1>3 DEF PollFound, PollExhausted, SendStart, Abandon, Quiet
<1> QED BY <1>1, <1>2, <1>3 DEF ApiStep

LEMMA DeleteIsQuiet ==
  ASSUME doc \in Docs, NEW o \in Orders, DeleteProjection(o)
  PROVE  Quiet
<1> DEFINE d == [doc EXCEPT !.models[o] = None]
<1>1. doc' = d /\ lock = Free /\ UNCHANGED <<lock, draft, spot>>
  BY DEF DeleteProjection
<1>2. d.events = doc.events /\ d.payments = doc.payments
  BY DEF Docs
<1> HIDE DEF d
<1> QED BY <1>1, <1>2 DEF Quiet

\* What a step may do to the saved document.
SavedKept ==
  /\ \A o \in Orders : SavedPrefix(o)
  /\ \A o \in doc.stopAt \cap doc'.stopAt : doc'.payments[o] = doc.payments[o]

LEMMA QuietKeeps ==
  ASSUME doc \in Docs, DraftFollows, Quiet
  PROVE  DraftFollows' /\ SavedKept
<1>1. ASSUME NEW o \in Orders, spot'[o].phase = "running"
      PROVE  lock' = o /\ Follow(doc', draft'.doc)
  <2>1. lock = o /\ Follow(doc, draft.doc) /\ doc' = doc
    BY <1>1, WorkflowAssumption DEF Quiet, DraftFollows
  <2> QED BY <2>1 DEF Quiet
<1>2. \A o \in Orders : Len(doc.events[o]) \in Nat
  BY DEF Docs
<1>3. SavedKept
  BY <1>2 DEF SavedKept, SavedPrefix, Quiet
<1> QED BY <1>1, <1>3 DEF DraftFollows

\* A step that leaves the document alone saves nothing.
LEMMA SameSaved ==
  ASSUME doc \in Docs, doc' = doc
  PROVE  SavedKept
<1>1. \A o \in Orders : Len(doc.events[o]) \in Nat
  BY DEF Docs
<1> QED BY <1>1 DEF SavedKept, SavedPrefix

\* A step after which only spots that were running run, on the same document,
\* draft and lock.
LEMMA IdleKeeps ==
  ASSUME DraftFollows, UNCHANGED <<doc, lock, draft>>,
         \A q \in Orders :
           spot'[q].phase = "running" => spot[q].phase = "running"
  PROVE  DraftFollows'
BY DEF DraftFollows

\* A step that frees or keeps the lock of o after which o does not run.
LEMMA LeaveKeeps ==
  ASSUME IInv, DraftFollows, NEW o \in Orders, NEW v,
         spot' = [spot EXCEPT ![o] = v], v.phase # "running",
         lock = o \/ UNCHANGED <<doc, lock, draft>>
  PROVE  DraftFollows'
<1>1. /\ spot'[o].phase # "running"
      /\ \A q \in Orders \ {o} : spot'[q] = spot[q]
  BY Unfolded
<1>2. ASSUME NEW q \in Orders, spot'[q].phase = "running"
      PROVE  lock' = q /\ Follow(doc', draft'.doc)
  <2>1. q # o /\ spot[q].phase = "running"
    BY <1>1, <1>2
  <2>2. lock = q /\ Follow(doc, draft.doc)
    BY <2>1 DEF DraftFollows
  <2> QED BY <2>1, <2>2
<1> QED BY <1>2 DEF DraftFollows

LEMMA SpotFollows ==
  ASSUME IInv, DraftFollows, NEW o \in Orders,
         SpotStep(o) \/ LockTimeout(o) \/ Crash(o)
  PROVE  DraftFollows' /\ SavedKept
<1>1. /\ doc \in Docs /\ draft.doc \in Docs
      /\ spot \in [Orders -> SpotStates] /\ spot[o] \in SpotStates
  BY Unfolded
<1>2. CASE TakeTimer(o)
  <2> DEFINE v == [spot[o] EXCEPT !.phase = "locking", !.timer = FALSE,
                     !.job = [NoJob EXCEPT !.op = "continue", !.order = o]]
  <2>1. spot' = [spot EXCEPT ![o] = v] /\ UNCHANGED <<doc, lock, draft>>
    BY <1>1, <1>2 DEF TakeTimer, SpotStates
  <2>2. v.phase # "running"
    BY <1>1 DEF SpotStates
  <2> HIDE DEF v
  <2> QED BY <1>1, <2>1, <2>2, LeaveKeeps, SameSaved
<1>3. CASE AcquireLock(o)
  <2>1. lock = Free /\ lock' = o /\ doc' = doc /\ draft'.doc = doc
    BY <1>3 DEF AcquireLock
  <2>2. \A q \in Orders \ {o} : spot'[q] = spot[q]
    BY <1>1, <1>3 DEF AcquireLock
  <2>3. \A q \in Orders \ {o} : spot'[q].phase # "running"
    BY <2>1, <2>2, WorkflowAssumption DEF DraftFollows
  <2>4. Follow(doc', draft'.doc)
    BY <1>1, <2>1, FollowSelf
  <2> QED BY <1>1, <2>1, <2>3, <2>4, SameSaved DEF DraftFollows
<1>4. CASE Advance(o)
  <2>1. /\ spot[o].phase = "running" /\ UNCHANGED <<doc, lock, spot>>
    BY <1>4 DEF Advance
  <2>2. lock = o /\ Follow(doc, draft.doc)
    BY <2>1 DEF DraftFollows
  <2>3. Follow(doc', draft'.doc)
    BY <1>4, <2>2, AdvanceFollows
  <2>4. \A q \in Orders : spot'[q].phase = "running" => lock' = q
    BY <2>1 DEF DraftFollows
  <2> QED BY <1>1, <2>1, <2>3, <2>4, SameSaved DEF DraftFollows
<1>5. CASE Commit(o)
  <2> DEFINE v == [spot[o] EXCEPT !.phase = "after"]
  <2>1. /\ spot' = [spot EXCEPT ![o] = v] /\ spot[o].phase = "running"
        /\ doc' = SaveProjection(draft.doc, o)
    BY <1>1, <1>5 DEF Commit, SpotStates
  <2>2. v.phase # "running"
    BY <1>1 DEF SpotStates
  <2> HIDE DEF v
  <2>3. lock = o /\ Follow(doc, draft.doc)
    BY <2>1 DEF DraftFollows
  <2>4. DraftFollows'
    BY <2>1, <2>2, <2>3, LeaveKeeps
  <2>5. doc'.events = draft.doc.events /\ doc'.payments = draft.doc.payments
    BY <1>1, <2>1, SaveFollows
  <2>6. SavedKept
    BY <2>3, <2>5 DEF SavedKept, SavedPrefix, Follow, Extends
  <2> QED BY <2>4, <2>6
<1>6. CASE RebuildRefused(o)
  <2> DEFINE v == [spot[o] EXCEPT !.phase = "idle", !.job = NoJob]
  <2>1. /\ spot' = [spot EXCEPT ![o] = v] /\ spot[o].phase = "running"
        /\ doc' = doc
    BY <1>1, <1>6 DEF RebuildRefused, SpotStates
  <2>2. v.phase # "running"
    BY <1>1 DEF SpotStates
  <2> HIDE DEF v
  <2>3. lock = o
    BY <2>1 DEF DraftFollows
  <2> QED BY <1>1, <2>1, <2>2, <2>3, LeaveKeeps, SameSaved
<1>7. CASE Finish(o)
  <2> DEFINE j == spot[o].job
             v == IF Terminal(Status(doc.events[o])) THEN Closed
                  ELSE [phase |-> "idle", job |-> NoJob,
                        timer |-> spot[o].timer \/ j.op = "start"]
  <2>1. spot' = [spot EXCEPT ![o] = v] /\ UNCHANGED <<doc, lock, draft>>
    BY <1>7 DEF Finish
  <2>2. v.phase # "running"
    BY DEF Closed
  <2> HIDE DEF v
  <2> QED BY <1>1, <2>1, <2>2, LeaveKeeps, SameSaved
<1>8. CASE LockTimeout(o)
  <2> DEFINE v == [spot[o] EXCEPT !.phase = "idle", !.job = NoJob]
  <2>1. spot' = [spot EXCEPT ![o] = v] /\ UNCHANGED <<doc, lock, draft>>
    BY <1>1, <1>8 DEF LockTimeout, SpotStates
  <2>2. v.phase # "running"
    BY <1>1 DEF SpotStates
  <2> HIDE DEF v
  <2> QED BY <1>1, <2>1, <2>2, LeaveKeeps, SameSaved
<1>9. CASE Crash(o)
  <2>1. /\ spot' = [spot EXCEPT ![o] = Closed] /\ doc' = doc
        /\ lock = o \/ UNCHANGED <<doc, lock, draft>>
    BY <1>9 DEF Crash
  <2>2. Closed.phase # "running"
    BY DEF Closed
  <2> QED BY <1>1, <2>1, <2>2, LeaveKeeps, SameSaved
<1> QED BY <1>2, <1>3, <1>4, <1>5, <1>6, <1>7, <1>8, <1>9 DEF SpotStep

LEMMA TakeFollows ==
  ASSUME IInv, DraftFollows, NEW m \in msgs, TakeRequest(m)
  PROVE  DraftFollows' /\ SavedKept
<1>1. doc \in Docs /\ spot \in [Orders -> SpotStates]
  BY Unfolded
<1>2. UNCHANGED <<doc, lock, draft>>
  BY DEF TakeRequest
<1>3. ASSUME NEW q \in Orders, spot'[q].phase = "running"
      PROVE  spot[q].phase = "running"
  <2>1. CASE q = m.order
    <3>1. spot'[q].phase = "locking"
      BY <1>1, <2>1 DEF TakeRequest, SpotStates
    <3> QED BY <1>3, <3>1
  <2>2. CASE q # m.order
    BY <1>1, <1>3, <2>2 DEF TakeRequest
  <2> QED BY <2>1, <2>2
<1> QED BY <1>1, <1>2, <1>3, IdleKeeps, SameSaved

LEMMA NextFollows ==
  ASSUME IInv, DraftFollows, [Next]_vars
  PROVE  DraftFollows' /\ SavedKept
<1>1. doc \in Docs
  BY Unfolded
<1>2. ASSUME NEW c \in Calls, ClientStep(c)
      PROVE  DraftFollows' /\ SavedKept
  BY <1>1, <1>2, ClientIsQuiet, QuietKeeps
<1>3. ASSUME NEW c \in Calls, ApiStep(c) \/ Abandon(c)
      PROVE  DraftFollows' /\ SavedKept
  BY <1>1, <1>3, ApiIsQuiet, QuietKeeps
<1>4. ASSUME NEW m \in msgs, TakeRequest(m)
      PROVE  DraftFollows' /\ SavedKept
  BY <1>4, TakeFollows
<1>5. ASSUME NEW o \in Orders, SpotStep(o) \/ LockTimeout(o) \/ Crash(o)
      PROVE  DraftFollows' /\ SavedKept
  BY <1>5, SpotFollows
<1>6. ASSUME NEW o \in Orders, DeleteProjection(o)
      PROVE  DraftFollows' /\ SavedKept
  BY <1>1, <1>6, DeleteIsQuiet, QuietKeeps
<1>7. CASE UNCHANGED vars
  <2>1. Quiet
    BY <1>7 DEF vars, Quiet
  <2> QED BY <1>1, <2>1, QuietKeeps
<1> QED BY <1>2, <1>3, <1>4, <1>5, <1>6, <1>7 DEF Next, Normal, Failure

\* The event stream is append-only and a hooked order is not charged, for
\* every interleaving of owners, timers, clients, crashes and lost replies.
THEOREM SavedIsKept == Spec => SavedStays
<1>1. Init => DraftFollows
  BY DEF Init, DraftFollows, Closed
<1>2. IInv /\ DraftFollows /\ [Next]_vars => DraftFollows'
  BY NextFollows
<1>3. IInv /\ DraftFollows /\ [Next]_vars => [SavedKept]_doc
  BY NextFollows
<1>4. SavedStays <=> [][SavedKept]_doc
  BY PTL DEF SavedStays, SavedKept
<1> QED BY <1>1, <1>2, <1>3, <1>4, Invariance, PTL DEF Spec
-----------------------------------------------------------------------------
(* Sums over a finite set.  SumFunctionOnSet is a recursive function on the  *)
(* subsets of its set; a sum that has a property the others do not would     *)
(* have a smallest set, and finite subsets are well founded.                 *)

Picked(S) == CHOOSE x \in S : TRUE

\* The function that SumFunctionOnSet folds with.
IsSum(g, f, S) ==
  g = [T \in SUBSET S |-> IF T = {} THEN 0 ELSE f[Picked(T)] + g[T \ {Picked(T)}]]

LEMMA SumIs ==
  ASSUME NEW f, NEW S
  PROVE  SumFunctionOnSet(f, S) = (CHOOSE g : IsSum(g, f, S))[S]
BY DEF SumFunctionOnSet, FoldFunctionOnSet, MapThenFoldSet, IsSum, Picked

\* Among the subsets of a finite set that have a property, one is smallest.
LEMMA Smallest ==
  ASSUME NEW S, IsFiniteSet(S), NEW B \in SUBSET SUBSET S, B # {}
  PROVE  \E T \in B : \A U \in SUBSET T : U # T => U \notin B
<1>1. PICK R, F : R = StrictSubsetOrdering(S) /\ F = FiniteSubsetsOf(S)
  OBVIOUS
<1>2. IsWellFoundedOn(R, F) /\ F = SUBSET S
  BY <1>1, FS_StrictSubsetOrderingWellFounded, FS_FiniteSubsetsOfFinite
<1>3. PICK T \in B : \A U \in B : ~ (<<U, T>> \in R)
  BY <1>2, WFMin
<1> QED
  BY <1>1, <1>3 DEF StrictSubsetOrdering

LEMMA PickedIn == ASSUME NEW S, S # {} PROVE Picked(S) \in S
BY DEF Picked

LEMMA SumAt ==
  ASSUME NEW f, NEW S, NEW g, IsSum(g, f, S), NEW T \in SUBSET S
  PROVE  g[T] = IF T = {} THEN 0 ELSE f[Picked(T)] + g[T \ {Picked(T)}]
BY DEF IsSum

\* Two such functions agree where both are defined, if f does.
LEMMA SumUnique ==
  ASSUME NEW f, NEW e, NEW S, IsFiniteSet(S), NEW Q, NEW g, NEW h,
         IsSum(g, f, S), IsSum(h, e, Q), S \subseteq Q,
         \A x \in S : f[x] = e[x]
  PROVE  g[S] = h[S]
<1>1. PICK B : B = {T \in SUBSET S : g[T] # h[T]}
  OBVIOUS
<1>0. B \in SUBSET SUBSET S
  BY <1>1
<1>2. ASSUME B # {} PROVE FALSE
  <2>1. PICK T \in B : \A U \in SUBSET T : U # T => U \notin B
    BY <1>0, <1>2, Smallest
  <2>2. T \in SUBSET S /\ T \in SUBSET Q /\ g[T] # h[T]
    BY <1>1, <2>1
  <2>0. /\ g[T] = IF T = {} THEN 0 ELSE f[Picked(T)] + g[T \ {Picked(T)}]
        /\ h[T] = IF T = {} THEN 0 ELSE e[Picked(T)] + h[T \ {Picked(T)}]
    BY <2>2 DEF IsSum
  <2>3. T # {}
    BY <2>0, <2>2
  <2>4. PICK x : x = Picked(T)
    OBVIOUS
  <2>5. x \in T /\ T \ {x} \in SUBSET T /\ T \ {x} # T
    BY <2>3, <2>4, PickedIn
  <2>6. g[T \ {x}] = h[T \ {x}]
    BY <1>1, <2>1, <2>2, <2>5
  <2>7. g[T] = f[x] + g[T \ {x}] /\ h[T] = e[x] + h[T \ {x}]
    BY <2>0, <2>3, <2>4
  <2> QED
    BY <2>2, <2>5, <2>6, <2>7
<1> QED
  BY <1>1, <1>2

LEMMA SumExists ==
  ASSUME NEW f, NEW S, IsFiniteSet(S)
  PROVE  \E g : IsSum(g, f, S)
<1>1. PICK B : B = {T \in SUBSET S : ~ \E g : IsSum(g, f, T)}
  OBVIOUS
<1>0. B \in SUBSET SUBSET S
  BY <1>1
<1>2. ASSUME B # {} PROVE FALSE
  <2>1. PICK T \in B : \A U \in SUBSET T : U # T => U \notin B
    BY <1>0, <1>2, Smallest
  <2>2. T \in SUBSET S /\ IsFiniteSet(T)
    BY <1>1, <2>1, FS_Subset
  <2>3. PICK sum : sum = [U \in SUBSET T |-> (CHOOSE g : IsSum(g, f, U))[U]]
    OBVIOUS
  <2>4. \A U \in SUBSET T : U # T => \E g : IsSum(g, f, U) /\ g[U] = sum[U]
    BY <1>1, <2>1, <2>2, <2>3
  <2>5. PICK h : h = [U \in SUBSET T |->
                        IF U # T THEN sum[U]
                        ELSE IF U = {} THEN 0 ELSE f[Picked(U)] + sum[U \ {Picked(U)}]]
    OBVIOUS
  <2>6. ASSUME NEW U \in SUBSET T
        PROVE  h[U] = IF U = {} THEN 0 ELSE f[Picked(U)] + h[U \ {Picked(U)}]
    <3>1. PICK x : x = Picked(U)
      OBVIOUS
    <3>2. U # {} => x \in U /\ U \ {x} \in SUBSET T /\ U \ {x} # T
      BY <3>1, PickedIn
    <3>3. U # {} => h[U \ {x}] = sum[U \ {x}]
      BY <2>5, <3>2
    <3>4. CASE U = T
      BY <2>5, <3>1, <3>3, <3>4
    <3>5. CASE U # T
      <4>1. PICK g : IsSum(g, f, U) /\ g[U] = sum[U]
        BY <2>4, <3>5
      <4>2. h[U] = g[U]
        BY <2>5, <3>5, <4>1
      <4>3. g[U] = IF U = {} THEN 0 ELSE f[x] + g[U \ {x}]
        BY <3>1, <4>1, SumAt
      <4>4. ASSUME U # {} PROVE g[U \ {x}] = h[U \ {x}]
        <5>1. PICK k : IsSum(k, f, U \ {x}) /\ k[U \ {x}] = sum[U \ {x}]
          BY <2>4, <3>2, <4>4
        <5>2. IsFiniteSet(U \ {x})
          BY <2>2, FS_Subset
        <5>3. k[U \ {x}] = g[U \ {x}]
          BY <4>1, <5>1, <5>2, SumUnique
        <5> QED
          BY <3>3, <4>4, <5>1, <5>3
      <4> QED
        BY <3>1, <4>2, <4>3, <4>4
    <3> QED
      BY <3>4, <3>5
  <2>7. h = [U \in SUBSET T |-> h[U]]
    BY <2>5
  <2>8. IsSum(h, f, T)
    BY ONLY <2>6, <2>7 DEF IsSum
  <2> QED
    BY <1>1, <2>1, <2>8
<1> QED
  BY <1>1, <1>2

LEMMA SumOverIs ==
  ASSUME NEW f, NEW S, IsFiniteSet(S), NEW Q, NEW g, IsSum(g, f, Q), S \subseteq Q
  PROVE  SumFunctionOnSet(f, S) = g[S]
<1>1. PICK h : h = CHOOSE k : IsSum(k, f, S)
  OBVIOUS
<1>2. IsSum(h, f, S)
  BY <1>1, SumExists
<1>3. SumFunctionOnSet(f, S) = h[S]
  BY <1>1, SumIs
<1> QED
  BY <1>2, <1>3, SumUnique

\* What the sum does not look at does not count.
LEMMA SumSame ==
  ASSUME NEW f, NEW e, NEW S, IsFiniteSet(S), \A x \in S : f[x] = e[x]
  PROVE  SumFunctionOnSet(f, S) = SumFunctionOnSet(e, S)
<1>1. PICK g, h : IsSum(g, f, S) /\ IsSum(h, e, S)
  BY SumExists
<1> QED
  BY <1>1, SumOverIs, SumUnique

LEMMA SumEmpty == ASSUME NEW f PROVE SumFunctionOnSet(f, {}) = 0
<1>1. PICK g : IsSum(g, f, {})
  BY SumExists, FS_EmptySet
<1> QED
  BY <1>1, SumOverIs, SumAt, FS_EmptySet

LEMMA SumInt ==
  ASSUME NEW f, NEW S, IsFiniteSet(S), \A x \in S : f[x] \in Int,
         NEW g, IsSum(g, f, S), NEW T \in SUBSET S
  PROVE  g[T] \in Int
<1>1. PICK B : B = {U \in SUBSET S : g[U] \notin Int}
  OBVIOUS
<1>0. B \in SUBSET SUBSET S
  BY <1>1
<1>2. ASSUME B # {} PROVE FALSE
  <2>1. PICK U \in B : \A V \in SUBSET U : V # U => V \notin B
    BY <1>0, <1>2, Smallest
  <2>2. U \in SUBSET S /\ g[U] \notin Int
    BY <1>1, <2>1
  <2>3. PICK x : x = Picked(U)
    OBVIOUS
  <2>6. g[U] = IF U = {} THEN 0 ELSE f[Picked(U)] + g[U \ {Picked(U)}]
    BY <2>2 DEF IsSum
  <2>4. g[U] = IF U = {} THEN 0 ELSE f[x] + g[U \ {x}]
    BY <2>3, <2>6
  <2>5. U # {} => x \in U /\ g[U \ {x}] \in Int
    BY <1>1, <2>1, <2>2, <2>3, PickedIn
  <2> QED
    BY <2>2, <2>4, <2>5
<1> QED
  BY <1>1, <1>2

\* The order in which the elements are taken does not count.
LEMMA SumTake ==
  ASSUME NEW f, NEW S, IsFiniteSet(S), \A x \in S : f[x] \in Int,
         NEW g, IsSum(g, f, S), NEW T \in SUBSET S, NEW x \in T
  PROVE  g[T] = f[x] + g[T \ {x}]
<1>1. PICK B : B = {U \in SUBSET S : \E y \in U : g[U] # f[y] + g[U \ {y}]}
  OBVIOUS
<1>0. B \in SUBSET SUBSET S
  BY <1>1
<1>2. ASSUME B # {} PROVE FALSE
  <2>1. PICK U \in B : \A V \in SUBSET U : V # U => V \notin B
    BY <1>0, <1>2, Smallest
  <2>2. PICK y \in U : g[U] # f[y] + g[U \ {y}]
    BY <1>1, <2>1
  <2>3. PICK c : c = Picked(U)
    OBVIOUS
  <2>11. U \in SUBSET S /\ c \in U
    BY <1>1, <2>1, <2>2, <2>3, PickedIn
  <2>13. g[U] = IF U = {} THEN 0 ELSE f[Picked(U)] + g[U \ {Picked(U)}]
    BY <2>11 DEF IsSum
  <2>12. g[U] = IF U = {} THEN 0 ELSE f[c] + g[U \ {c}]
    BY <2>3, <2>13
  <2>4. U \in SUBSET S /\ c \in U /\ g[U] = f[c] + g[U \ {c}] /\ c # y
    BY <2>2, <2>11, <2>12
  <2>5. PICK D : D = (U \ {c}) \ {y}
    OBVIOUS
  <2>6. D = (U \ {y}) \ {c}
    BY <2>5
  <2>7. /\ U \ {c} \in SUBSET U /\ U \ {c} # U /\ y \in U \ {c} /\ U \ {c} \in SUBSET S
        /\ U \ {y} \in SUBSET U /\ U \ {y} # U /\ c \in U \ {y} /\ U \ {y} \in SUBSET S
    BY <2>2, <2>4
  <2>10. ASSUME NEW V \in SUBSET U, V # U, V \in SUBSET S, NEW z \in V
         PROVE  g[V] = f[z] + g[V \ {z}]
    BY <1>1, <2>1, <2>10
  <2>8. g[U \ {c}] = f[y] + g[D] /\ g[U \ {y}] = f[c] + g[D]
    BY <2>5, <2>6, <2>7, <2>10
  <2>9. f[c] \in Int /\ f[y] \in Int /\ g[D] \in Int
    BY <2>4, <2>2, <2>5, SumInt
  <2> QED
    BY <2>2, <2>4, <2>8, <2>9
<1> QED
  BY <1>1, <1>2

LEMMA SumAdd ==
  ASSUME NEW f, NEW S, IsFiniteSet(S), NEW x, x \notin S, \A y \in S \cup {x} : f[y] \in Int
  PROVE  /\ SumFunctionOnSet(f, S \cup {x}) = f[x] + SumFunctionOnSet(f, S)
         /\ SumFunctionOnSet(f, S) \in Int /\ f[x] \in Int
<1>1. PICK T : T = S \cup {x}
  OBVIOUS
<1>2. IsFiniteSet(T) /\ T \ {x} = S /\ x \in T /\ S \subseteq T
  BY <1>1, FS_AddElement
<1>3. PICK g : IsSum(g, f, T)
  BY <1>2, SumExists
<1>4. SumFunctionOnSet(f, T) = g[T] /\ SumFunctionOnSet(f, S) = g[S]
  BY <1>2, <1>3, SumOverIs
<1>5. g[T] = f[x] + g[S]
  BY <1>1, <1>2, <1>3, SumTake
<1>6. g[S] \in Int
  BY <1>1, <1>2, <1>3, SumInt
<1> QED
  BY <1>1, <1>4, <1>5, <1>6
-----------------------------------------------------------------------------
(* One sale per key.  An order belongs to the one key that maps to it, and   *)
(* only that key's command starts it: everything on its way to the owner     *)
(* that says "start" is already mapped and marked.  The owner takes no       *)
(* second step for a start, because the stream of an order it did not yet    *)
(* see is empty, and one that is not already contains this very command.     *)

\* The command starts order o, and document d has mapped its key to o.
Keyed(d, cmd, o) ==
  /\ o \in Orders
  /\ \E k \in Keys : cmd = StartCommand(k) /\ d.idem[k] = [order |-> o, started |-> TRUE]

KeysSound(d) ==
  /\ \A k \in Keys : d.idem[k] # None => d.idem[k].order <= d.next
  /\ \A j, k \in Keys :
       j # k /\ d.idem[j] # None /\ d.idem[k] # None => d.idem[j].order # d.idem[k].order
  /\ \A o \in Orders : d.events[o] # <<>> => Keyed(d, d.events[o][1].cmd, o)
  /\ \A o \in Orders : \A i \in 2..Len(d.events[o]) : d.events[o][i].cmd.kind # "start"

SaleSound(d) == KeysSound(d) /\ StockConservedIn(d)

JobKeyed(d, j) == IF j.op = "start" THEN Keyed(d, j.cmd, j.order) ELSE j.cmd.kind # "start"

CallKeyed(d, c) == c.pc \in {"poll", "send"} => Keyed(d, c.cmd, c.order)

StartsKeyed ==
  /\ \A m \in msgs : JobKeyed(doc, m)
  /\ \A o \in Orders : /\ JobKeyed(doc, spot[o].job)
                       /\ spot[o].job.op = "start" => spot[o].job.order = o
  /\ \A c \in Calls : CallKeyed(doc, calls[c])

\* The owner's draft has the saved mapping, and a start it may still advance
\* is of an order without events.
DraftKeyed(o) ==
  spot[o].phase = "running" =>
    /\ draft.doc.idem = doc.idem
    /\ spot[o].job.op = "start" /\ draft.left > 0 =>
         draft.left = 1 /\ draft.doc.events[o] = <<>>

KInv == /\ SaleSound(doc) /\ SaleSound(draft.doc)
        /\ StartsKeyed
        /\ \A o \in Orders : DraftKeyed(o)

-----------------------------------------------------------------------------
(* Stock *)

LEMMA TakesType ==
  ASSUME NEW d \in Docs, RequestKnown(d), NEW s \in Skus, NEW o \in Orders
  PROVE  Takes(d, s)[o] \in Int /\ Takes(d, s)[o] >= 0
<1>1. d.events[o] # <<>> => Lines[d.events[o][1].cart][s] \in Nat
  BY StreamAssumption DEF RequestKnown
<1> QED
  BY <1>1 DEF Takes

LEMMA HoldingFinite ==
  ASSUME NEW d
  PROVE  IsFiniteSet(Holding(d)) /\ Holding(d) \subseteq Orders
<1>1. Holding(d) \subseteq Orders
  BY DEF Holding
<1>2. IsFiniteSet(Orders)
  BY FS_Interval, StreamAssumption DEF Orders
<1> QED
  BY <1>1, <1>2, FS_Subset

\* Only a started order holds stock.
LEMMA HolderStarted ==
  ASSUME NEW d, SoundDoc(d), NEW o \in Holding(d)
  PROVE  o \in Orders /\ d.events[o] # <<>>
<1>1. o \in Orders /\ d.reservations[o] = "accepted" /\ EffectsMatchAt(d, o)
  BY DEF Holding, SoundDoc, EffectsMatchIn
<1>2. None # "accepted"
  BY StreamAssumption DEF Results
<1> QED
  BY <1>1, <1>2 DEF EffectsMatchAt, Effects, Status

\* The same stock, held by the same orders for the same carts.
LEMMA StockSame ==
  ASSUME NEW d, NEW e, StockConservedIn(d), e.inventory = d.inventory,
         Holding(e) = Holding(d),
         \A o \in Holding(d) : e.events[o] # <<>> /\ d.events[o] # <<>>
                               /\ e.events[o][1] = d.events[o][1]
  PROVE  StockConservedIn(e)
<1> SUFFICES ASSUME NEW s \in Skus
             PROVE  /\ e.inventory[s] >= 0
                    /\ e.inventory[s] + SumFunctionOnSet(Takes(e, s), Holding(e)) = Stock[s]
  BY DEF StockConservedIn
<1>1. IsFiniteSet(Holding(d)) /\ Holding(d) \subseteq Orders
  BY HoldingFinite
<1>2. \A o \in Holding(d) : Takes(e, s)[o] = Takes(d, s)[o]
  BY <1>1 DEF Takes
<1>3. PICK f, g : f = Takes(d, s) /\ g = Takes(e, s)
  OBVIOUS
<1>4. SumFunctionOnSet(f, Holding(d)) = SumFunctionOnSet(g, Holding(d))
  BY <1>1, <1>2, <1>3, SumSame
<1>5. d.inventory[s] >= 0 /\ d.inventory[s] + SumFunctionOnSet(Takes(d, s), Holding(d)) = Stock[s]
  BY DEF StockConservedIn
<1> QED
  BY <1>3, <1>4, <1>5

\* One order more holds what its cart takes, and just that is gone.
LEMMA StockTaken ==
  ASSUME NEW d \in Docs, RequestKnown(d), NEW e \in Docs, NEW o \in Orders,
         NEW H \in SUBSET Orders, o \notin H, NEW s \in Skus,
         e.events = d.events
  PROVE  /\ SumFunctionOnSet(Takes(d, s), H \cup {o})
              = Takes(d, s)[o] + SumFunctionOnSet(Takes(d, s), H)
         /\ SumFunctionOnSet(Takes(d, s), H) \in Int
         /\ Takes(e, s) = Takes(d, s)
<1>1. IsFiniteSet(H)
  <2>1. IsFiniteSet(Orders)
    BY FS_Interval, StreamAssumption DEF Orders
  <2> QED
    BY <2>1, FS_Subset
<1>2. PICK f : f = Takes(d, s)
  OBVIOUS
<1>3. \A q \in H \cup {o} : f[q] \in Int
  BY <1>2, TakesType
<1>4. /\ SumFunctionOnSet(f, H \cup {o}) = f[o] + SumFunctionOnSet(f, H)
      /\ SumFunctionOnSet(f, H) \in Int
  BY <1>1, <1>3, SumAdd
<1>5. Takes(e, s) = Takes(d, s)
  BY DEF Takes
<1> QED
  BY <1>2, <1>4, <1>5

\* Reserve takes the lines of the cart if all of them are there.
LEMMA ReserveStock ==
  ASSUME NEW d, SoundDoc(d), StockConservedIn(d), NEW o \in Orders,
         d.events[o] # <<>>, d.reservations[o] = None
  PROVE  LET r == Reserve(d, o, d.events[o][1].cart)
         IN  /\ StockConservedIn(r) /\ Holding(r) \subseteq Holding(d) \cup {o}
             /\ r.idem = d.idem /\ r.next = d.next
<1> DEFINE c == d.events[o][1].cart
           r == Reserve(d, o, c)
<1>1. d \in Docs /\ RequestKnown(d) /\ c \in Carts
  BY DEF SoundDoc, RequestKnown
<1>2. /\ r \in Docs /\ r.events = d.events /\ r.released = d.released
      /\ \A q \in Orders \ {o} : r.reservations[q] = d.reservations[q]
  BY <1>1, ReserveFields
<1>3. r.idem = d.idem /\ r.next = d.next
  BY <1>1 DEF Reserve, Docs
<1>4. r.reservations[o] = IF Available(d, c) THEN "accepted" ELSE "refused"
  BY <1>1 DEF Reserve, Docs
<1>5. r.inventory = IF Available(d, c) THEN [s \in Skus |-> d.inventory[s] - Lines[c][s]]
                    ELSE d.inventory
  BY <1>1 DEF Reserve, Docs
<1>6. o \notin Holding(d)
  BY StreamAssumption DEF Holding, Results
<1> HIDE DEF r
<1>7. CASE Available(d, c)
  <2>1. o \notin d.released
    <3>1. EffectsMatchAt(d, o)
      BY DEF SoundDoc, EffectsMatchIn
    <3>2. /\ d.reservations[o] # "accepted" /\ d.reservations[o] # "refused"
      BY StreamAssumption DEF Results
    <3>3. Status(d.events[o]) \in Statuses
      BY <1>1, LastEvent, StatusType DEF Status, Statuses, Docs
    <3> QED
      BY <3>1, <3>2, <3>3 DEF EffectsMatchAt, Effects, Statuses, EventTypes
  <2>2. Holding(r) = Holding(d) \cup {o}
    BY <1>2, <1>4, <1>7, <2>1 DEF Holding
  <2>3. ASSUME NEW s \in Skus
        PROVE  /\ r.inventory[s] >= 0
               /\ r.inventory[s] + SumFunctionOnSet(Takes(r, s), Holding(r)) = Stock[s]
    <3>1. PICK h, t, n : /\ h = SumFunctionOnSet(Takes(d, s), Holding(d))
                         /\ t = Takes(d, s)[o] /\ n = d.inventory[s]
      OBVIOUS
    <3>2. /\ SumFunctionOnSet(Takes(r, s), Holding(r)) = t + h
          /\ h \in Int
      <4>1. PICK H : H = Holding(d)
        OBVIOUS
      <4>2. H \in SUBSET Orders /\ o \notin H
        BY <1>6, <4>1, HoldingFinite
      <4>3. /\ SumFunctionOnSet(Takes(d, s), H \cup {o})
               = Takes(d, s)[o] + SumFunctionOnSet(Takes(d, s), H)
            /\ SumFunctionOnSet(Takes(d, s), H) \in Int
            /\ Takes(r, s) = Takes(d, s)
        BY <1>1, <1>2, <4>2, StockTaken
      <4> QED
        BY <2>2, <3>1, <4>1, <4>3
    <3>3. t = Lines[c][s] /\ t \in Int /\ n \in Int /\ n >= 0 /\ n + h = Stock[s]
      <4>1. t = Lines[c][s]
        BY <3>1 DEF Takes
      <4>2. t \in Int
        BY <1>1, <3>1, TakesType
      <4>3. n \in Int /\ n >= 0 /\ n + h = Stock[s]
        BY <1>1, <3>1 DEF StockConservedIn, Docs
      <4> QED
        BY <4>1, <4>2, <4>3
    <3>4. r.inventory[s] = n - t /\ n >= t
      BY <1>5, <1>7, <3>1, <3>3 DEF Available
    <3> QED
      BY <3>2, <3>3, <3>4
  <2> QED
    BY <1>3, <2>2, <2>3 DEF StockConservedIn, r
<1>8. CASE ~Available(d, c)
  <2>1. Holding(r) = Holding(d)
    BY <1>2, <1>4, <1>8, StreamAssumption DEF Holding, Results
  <2>2. \A q \in Holding(d) : d.events[q] # <<>>
    BY HolderStarted
  <2>3. StockConservedIn(r)
    BY <1>2, <1>5, <1>8, <2>1, <2>2, StockSame
  <2> QED
    BY <1>3, <2>1, <2>3 DEF r
<1> QED
  BY <1>7, <1>8

\* Release gives back what the order took.
LEMMA ReleaseStock ==
  ASSUME NEW d, SoundDoc(d), StockConservedIn(d), NEW o \in Orders,
         d.events[o] # <<>>, d.reservations[o] = "accepted", o \notin d.released
  PROVE  LET r == Release(d, o, d.events[o][1].cart)
         IN  /\ StockConservedIn(r) /\ Holding(r) \subseteq Holding(d)
             /\ r.idem = d.idem /\ r.next = d.next
<1> DEFINE c == d.events[o][1].cart
           r == Release(d, o, c)
<1>1. d \in Docs /\ RequestKnown(d) /\ c \in Carts /\ d.reservations[o] # None
  BY StreamAssumption DEF SoundDoc, RequestKnown, Results
<1>2. /\ r \in Docs /\ r.events = d.events /\ r.reservations = d.reservations
      /\ r.released = d.released \cup {o}
  BY <1>1, ReleaseFields
<1>3. r.idem = d.idem /\ r.next = d.next
  BY <1>1 DEF Release, Docs
<1>4. r.inventory = [s \in Skus |-> d.inventory[s] + Lines[c][s]]
  BY <1>1 DEF Release, Docs
<1> HIDE DEF r
<1>5. Holding(d) = Holding(r) \cup {o} /\ o \notin Holding(r) /\ Holding(r) \in SUBSET Orders
  BY <1>2 DEF Holding
<1>6. ASSUME NEW s \in Skus
      PROVE  /\ r.inventory[s] >= 0
             /\ r.inventory[s] + SumFunctionOnSet(Takes(r, s), Holding(r)) = Stock[s]
  <2>1. PICK h, t, n : /\ h = SumFunctionOnSet(Takes(d, s), Holding(r))
                       /\ t = Takes(d, s)[o] /\ n = d.inventory[s]
    OBVIOUS
  <2>2. /\ SumFunctionOnSet(Takes(d, s), Holding(d)) = t + h
        /\ h \in Int /\ SumFunctionOnSet(Takes(r, s), Holding(r)) = h
    BY <1>1, <1>2, <1>5, <2>1, StockTaken
  <2>3. t = Lines[c][s]
    BY <2>1 DEF Takes
  <2>4. t \in Int /\ t >= 0
    BY <1>1, <2>1, TakesType
  <2>5. n \in Int /\ n >= 0 /\ n + (t + h) = Stock[s]
    BY <1>1, <2>1, <2>2 DEF StockConservedIn, Docs
  <2>6. r.inventory[s] = n + t
    BY <1>4, <2>1, <2>3
  <2> QED
    BY <2>2, <2>4, <2>5, <2>6
<1> QED
  BY <1>3, <1>5, <1>6 DEF StockConservedIn, r

-----------------------------------------------------------------------------
(* Documents of which every order is sold once *)

LEMMA AppendKeys ==
  ASSUME NEW d \in Docs, KeysSound(d), NEW o \in Orders, NEW ev \in Events, NEW e \in Docs,
         e.events = [d.events EXCEPT ![o] = Append(@, ev)],
         e.idem = d.idem, e.next = d.next,
         IF d.events[o] = <<>> THEN Keyed(d, ev.cmd, o) ELSE ev.cmd.kind # "start"
  PROVE  KeysSound(e)
<1>1. d.events \in [Orders -> Seq(Events)]
  BY DEF Docs
<1>2. ASSUME NEW q \in Orders, e.events[q] # <<>>
      PROVE  Keyed(e, e.events[q][1].cmd, q)
  <2>1. Keyed(d, e.events[q][1].cmd, q)
    <3>1. CASE q # o
      BY <1>1, <1>2, <3>1 DEF KeysSound
    <3>2. CASE q = o /\ d.events[o] = <<>>
      <4>1. e.events[q] = Append(d.events[o], ev) /\ Len(d.events[o]) = 0
        BY <1>1, <3>2
      <4>2. e.events[q][1] = ev
        BY <1>1, <4>1
      <4> QED
        BY <3>2, <4>2
    <3>3. CASE q = o /\ d.events[o] # <<>>
      <4>1. e.events[q] = Append(d.events[o], ev) /\ Len(d.events[o]) > 0
        BY <1>1, <3>3
      <4>2. e.events[q][1] = d.events[o][1]
        BY <1>1, <4>1, SMTT(30)
      <4> QED
        BY <3>3, <4>2 DEF KeysSound
    <3> QED
      BY <3>1, <3>2, <3>3
  <2> QED
    BY <2>1 DEF Keyed
<1>3. ASSUME NEW q \in Orders, NEW i \in 2..Len(e.events[q])
      PROVE  e.events[q][i].cmd.kind # "start"
  <2>1. CASE q # o
    BY <1>1, <1>3, <2>1 DEF KeysSound
  <2>2. CASE q = o
    <3>1. e.events[q] = Append(d.events[o], ev) /\ d.events[o] \in Seq(Events)
      BY <1>1, <2>2
    <3>2. CASE i \in 2..Len(d.events[o])
      <4>1. e.events[q][i] = d.events[o][i]
        BY <3>1, <3>2
      <4> QED
        BY <3>2, <4>1 DEF KeysSound
    <3>3. CASE i = Len(d.events[o]) + 1
      <4>1. e.events[q][i] = ev /\ d.events[o] # <<>>
        BY <3>1, <3>3
      <4> QED
        BY <4>1
    <3> QED
      BY <1>3, <3>1, <3>2, <3>3
  <2> QED
    BY <2>1, <2>2
<1>4. /\ \A k \in Keys : e.idem[k] # None => e.idem[k].order <= e.next
      /\ \A j, k \in Keys :
           j # k /\ e.idem[j] # None /\ e.idem[k] # None => e.idem[j].order # e.idem[k].order
  BY DEF KeysSound
<1> QED
  BY <1>2, <1>3, <1>4 DEF KeysSound

\* A read model is no part of it.
LEMMA SaveSale ==
  ASSUME NEW d, SoundDoc(d), SaleSound(d), NEW e \in Docs,
         e.events = d.events, e.idem = d.idem, e.next = d.next, e.inventory = d.inventory,
         e.reservations = d.reservations, e.released = d.released
  PROVE  SaleSound(e)
<1>1. Holding(e) = Holding(d)
  BY DEF Holding
<1>2. \A o \in Holding(d) : d.events[o] # <<>>
  BY HolderStarted
<1>3. StockConservedIn(e)
  BY <1>1, <1>2, StockSame DEF SaleSound
<1>4. \A cmd : \A o : Keyed(e, cmd, o) <=> Keyed(d, cmd, o)
  BY DEF Keyed
<1>5. KeysSound(e)
  BY <1>4 DEF KeysSound, SaleSound
<1> QED
  BY <1>3, <1>5 DEF SaleSound

\* A document with one event appended, and its read model saved.
LEMMA AppendSale ==
  ASSUME NEW d, SoundDoc(d), KeysSound(d), NEW o \in Orders, NEW ev \in Events,
         IF d.events[o] = <<>> THEN Keyed(d, ev.cmd, o) ELSE ev.cmd.kind # "start",
         NEW b \in Docs, b.events = d.events, b.idem = d.idem, b.next = d.next,
         StockConservedIn(b), \A q \in Holding(b) : d.events[q] # <<>>
  PROVE  LET e == SaveProjection(AppendEvent(b, o, ev), o)
         IN  SaleSound(e) /\ e.idem = d.idem
<1> DEFINE f == AppendEvent(b, o, ev)
           e == SaveProjection(f, o)
<1>1. Appended(b, f, o, ev)
  BY AppendEventFields
<1>2. f.inventory = b.inventory /\ f.idem = b.idem /\ f.next = b.next
  BY DEF AppendEvent, Docs
<1> HIDE DEF f
<1>3. f \in Docs /\ f.events = [b.events EXCEPT ![o] = Append(@, ev)]
      /\ f.reservations = b.reservations /\ f.released = b.released
  BY <1>1 DEF Appended
<1>4. /\ e.events = f.events /\ e.idem = f.idem /\ e.next = f.next
      /\ e.inventory = f.inventory /\ e.reservations = f.reservations
      /\ e.released = f.released
  BY <1>3 DEF SaveProjection, Docs
<1>5. e \in Docs
  BY <1>3, ProjectionType DEF SaveProjection, Docs
<1> HIDE DEF e
<1>6. KeysSound(e)
  <2>1. /\ e.events = [d.events EXCEPT ![o] = Append(@, ev)] /\ e.idem = d.idem
        /\ e.next = d.next /\ d \in Docs
    BY <1>2, <1>3, <1>4 DEF SoundDoc
  <2> QED
    BY <1>5, <2>1, AppendKeys
<1>7. Holding(e) = Holding(b)
  BY <1>3, <1>4 DEF Holding
<1>8. ASSUME NEW q \in Holding(b)
      PROVE  e.events[q] # <<>> /\ b.events[q] # <<>> /\ e.events[q][1] = b.events[q][1]
  <2>1. b.events[q] \in Seq(Events) /\ b.events[q] # <<>> /\ q \in Orders
        /\ b.events \in [Orders -> Seq(Events)]
    BY HoldingFinite DEF Docs
  <2>2. e.events[q] = IF q = o THEN Append(b.events[q], ev) ELSE b.events[q]
    BY <1>3, <1>4, <2>1
  <2>3. Append(b.events[q], ev) # <<>> /\ Append(b.events[q], ev)[1] = b.events[q][1]
    BY <2>1
  <2> QED
    BY <2>1, <2>2, <2>3
<1>9. StockConservedIn(e)
  BY <1>2, <1>4, <1>7, <1>8, StockSame
<1> QED
  BY <1>2, <1>4, <1>6, <1>9 DEF SaleSound, e, f

\* A start appends the first event of the order its key is mapped to.
LEMMA StartSale ==
  ASSUME NEW d, SoundDoc(d), SaleSound(d), NEW o \in Orders, d.events[o] = <<>>,
         NEW cmd \in Commands, NEW cart \in Carts, NEW m \in Methods, Keyed(d, cmd, o)
  PROVE  LET e == SaveProjection(AppendEvent(d, o, StartEvent(cmd, cart, m)), o)
         IN  SaleSound(e) /\ e.idem = d.idem
<1>1. PICK ev : ev = StartEvent(cmd, cart, m)
  OBVIOUS
<1>2. ev \in Events /\ ev.cmd = cmd
  BY <1>1, NewEvent DEF StartEvent
<1>3. \A q \in Holding(d) : d.events[q] # <<>>
  BY HolderStarted
<1>4. d \in Docs
  BY DEF SoundDoc
<1> QED
  BY <1>1, <1>2, <1>3, <1>4, AppendSale DEF SaleSound

\* advance_once takes stock once, gives it back once, and is no start.
LEMMA StepSale ==
  ASSUME NEW d, SoundDoc(d), SaleSound(d), NEW o \in Orders, NEW cmd \in Commands,
         cmd.kind # "start", d.events[o] # <<>>, ~Terminal(Status(d.events[o]))
  PROVE  LET e == SaveProjection(NextStep(d, o, cmd), o)
         IN  SaleSound(e) /\ e.idem = d.idem
<1> DEFINE s == d.events[o]
           cart == s[1].cart
           m == s[1].method
           r == Reserve(d, o, cart)
           p == Authorize(d, o, m)
           g == Release(d, o, cart)
           e == SaveProjection(NextStep(d, o, cmd), o)
<1> SUFFICES SaleSound(e) /\ e.idem = d.idem
  OBVIOUS
<1>1. /\ d \in Docs /\ s \in Seq(Events) /\ cart \in Carts /\ m \in Methods
      /\ KeysSound(d) /\ StockConservedIn(d)
  BY DEF SoundDoc, RequestKnown, Docs, SaleSound
<1>2. Effects(Status(s), d.reservations[o], d.payments[o], o \in d.released)
  BY DEF SoundDoc, EffectsMatchIn, EffectsMatchAt
<1>3. \/ Status(s) = "Created"
      \/ Status(s) \in {"InventoryReserved", "PaymentAuthorized",
                        "InventoryReservationFailed", "PaymentFailed",
                        "InventoryReleased"}
  BY <1>1, StatusNamesEvent
<1>4. ASSUME NEW b \in Docs, NEW t \in EventTypes, b.events = d.events, b.idem = d.idem,
             b.next = d.next, StockConservedIn(b), Holding(b) \subseteq Holding(d) \cup {o},
             NextStep(d, o, cmd) = Record(b, o, t, cmd)
      PROVE  SaleSound(e) /\ e.idem = d.idem
  <2>1. PICK ev : ev = Event(t, cmd)
    OBVIOUS
  <2>2. ev \in Events /\ ev.cmd = cmd
    BY <2>1, NewEvent DEF Event
  <2>3. \A q \in Holding(b) : d.events[q] # <<>>
    BY <1>4, HolderStarted
  <2>4. e = SaveProjection(AppendEvent(b, o, ev), o)
    BY <1>4, <2>1 DEF Record
  <2> HIDE DEF e
  <2> QED
    BY <1>1, <1>4, <2>2, <2>3, <2>4, AppendSale
<1> HIDE DEF e
<1>5. CASE Status(s) = "Created"
  <2> DEFINE t == IF r.reservations[o] = "accepted" THEN "InventoryReserved"
                  ELSE "InventoryReservationFailed"
  <2>1. NextStep(d, o, cmd) = Record(r, o, t, cmd)
    BY <1>5 DEF NextStep
  <2>2. d.reservations[o] = None
    BY <1>2, <1>5 DEF Effects
  <2>3. r \in Docs /\ r.events = d.events
    BY <1>1, <2>2, ReserveFields
  <2>4. /\ StockConservedIn(r) /\ Holding(r) \subseteq Holding(d) \cup {o}
        /\ r.idem = d.idem /\ r.next = d.next
    BY <1>1, <2>2, ReserveStock
  <2>5. t \in EventTypes
    BY DEF EventTypes
  <2> HIDE DEF r, t
  <2> QED BY <1>4, <2>1, <2>3, <2>4, <2>5
<1>6. CASE Status(s) = "InventoryReserved"
  <2> DEFINE t == IF p.payments[o] = "accepted" THEN "PaymentAuthorized"
                  ELSE "PaymentFailed"
  <2>1. NextStep(d, o, cmd) = Record(p, o, t, cmd)
    BY <1>6 DEF NextStep
  <2>2. d.payments[o] = None
    BY <1>2, <1>6 DEF Effects
  <2>3. /\ p \in Docs /\ p.events = d.events /\ p.reservations = d.reservations
        /\ p.released = d.released
    BY <1>1, <2>2, AuthorizeFields
  <2>4. p.idem = d.idem /\ p.next = d.next /\ p.inventory = d.inventory
    BY <1>1 DEF Authorize, Docs
  <2>5. t \in EventTypes
    BY DEF EventTypes
  <2> HIDE DEF p, t
  <2>6. Holding(p) = Holding(d)
    BY <2>3 DEF Holding
  <2>7. SaleSound(p)
    BY <2>3, <2>4, SaveSale
  <2>8. StockConservedIn(p)
    BY <2>7 DEF SaleSound
  <2> QED BY <1>4, <2>1, <2>3, <2>4, <2>5, <2>6, <2>8
<1>7. CASE Status(s) = "PaymentFailed"
  <2>1. NextStep(d, o, cmd) = Record(g, o, "InventoryReleased", cmd)
    BY <1>7 DEF NextStep
  <2>2. d.reservations[o] = "accepted" /\ o \notin d.released /\ d.reservations[o] # None
    BY <1>2, <1>7, StreamAssumption DEF Effects, Results
  <2>3. g \in Docs /\ g.events = d.events
    BY <1>1, <2>2, ReleaseFields
  <2>4. /\ StockConservedIn(g) /\ Holding(g) \subseteq Holding(d)
        /\ g.idem = d.idem /\ g.next = d.next
    BY <1>1, <2>2, ReleaseStock
  <2>5. "InventoryReleased" \in EventTypes
    BY DEF EventTypes
  <2> HIDE DEF g
  <2> QED BY <1>4, <2>1, <2>3, <2>4, <2>5
<1>8. CASE Status(s) = "PaymentAuthorized"
  <2>1. NextStep(d, o, cmd) = Record(d, o, "OrderConfirmed", cmd)
    BY <1>8 DEF NextStep
  <2>2. "OrderConfirmed" \in EventTypes
    BY DEF EventTypes
  <2> QED BY <1>1, <1>4, <2>1, <2>2
<1>9. CASE Status(s) \in {"InventoryReservationFailed", "InventoryReleased"}
  <2>1. NextStep(d, o, cmd) = Record(d, o, "OrderFailed", cmd)
    BY <1>9 DEF NextStep
  <2>2. "OrderFailed" \in EventTypes
    BY DEF EventTypes
  <2> QED BY <1>1, <1>4, <2>1, <2>2
<1> QED
  BY <1>3, <1>5, <1>6, <1>7, <1>8, <1>9

LEMMA EmptySale == SaleSound(EmptyDoc)
<1>1. EmptyDoc.events = [o \in Orders |-> <<>>] /\ EmptyDoc.idem = [k \in Keys |-> None]
      /\ EmptyDoc.inventory = Stock /\ EmptyDoc.reservations = [o \in Orders |-> None]
  BY DEF EmptyDoc
<1> HIDE DEF EmptyDoc
<1>2. KeysSound(EmptyDoc)
  BY <1>1 DEF KeysSound
<1>3. Holding(EmptyDoc) = {}
  BY <1>1, StreamAssumption DEF Holding, Results
<1>4. ASSUME NEW s \in Skus
      PROVE  /\ EmptyDoc.inventory[s] >= 0
             /\ EmptyDoc.inventory[s]
                  + SumFunctionOnSet(Takes(EmptyDoc, s), Holding(EmptyDoc)) = Stock[s]
  <2>1. SumFunctionOnSet(Takes(EmptyDoc, s), {}) = 0
    BY SumEmpty
  <2>2. Stock[s] \in Nat
    BY StreamAssumption
  <2> QED
    BY <1>1, <1>3, <2>1, <2>2
<1> QED
  BY <1>2, <1>4 DEF SaleSound, StockConservedIn

\* An update of the mapping of one key: it keeps its order and stays marked,
\* or takes the next one.
LEMMA MapSale ==
  ASSUME NEW d, SoundDoc(d), SaleSound(d), NEW e \in Docs, NEW k \in Keys, NEW r,
         r \in [order : Orders, started : BOOLEAN],
         e.idem = [d.idem EXCEPT ![k] = r],
         IF d.idem[k] = None
           THEN r.order = d.next + 1 /\ e.next = d.next + 1
           ELSE /\ r.order = d.idem[k].order /\ e.next = d.next
                /\ d.idem[k].started => r.started,
         e.events = d.events, e.inventory = d.inventory,
         e.reservations = d.reservations, e.released = d.released
  PROVE  /\ SaleSound(e)
         /\ \A cmd : \A o : Keyed(d, cmd, o) => Keyed(e, cmd, o)
<1>0. r # None
  BY WorkflowAssumption
<1>1. /\ d \in Docs /\ d.next \in Nat
      /\ d.idem \in [Keys -> {None} \cup [order : Orders, started : BOOLEAN]]
      /\ \A j \in Keys \ {k} : e.idem[j] = d.idem[j]
      /\ e.idem[k] = r
  BY StreamAssumption DEF SoundDoc, Docs
<1>2. KeysSound(d) /\ StockConservedIn(d)
  BY DEF SaleSound
<1>3. Holding(e) = Holding(d)
  BY DEF Holding
<1>4. \A o \in Holding(d) : d.events[o] # <<>>
  BY HolderStarted
<1>5. StockConservedIn(e)
  BY <1>2, <1>3, <1>4, StockSame
<1>6. ASSUME NEW j \in Keys, NEW o \in Orders, d.idem[j] = [order |-> o, started |-> TRUE]
      PROVE  e.idem[j] = [order |-> o, started |-> TRUE]
  <2>1. CASE j # k
    BY <1>1, <1>6, <2>1
  <2>2. CASE j = k /\ d.idem[k] # None
    <3>1. d.idem[k].order = o /\ d.idem[k].started
      BY <1>6, <2>2
    <3>2. r.order = o /\ r.started
      BY <2>2, <3>1
    <3> QED
      BY <1>1, <2>2, <3>2
  <2>3. CASE j = k /\ d.idem[k] = None
    <3>1. None = [order |-> o, started |-> TRUE]
      BY <1>6, <2>3
    <3> QED
      BY <1>6, <3>1, WorkflowAssumption
  <2> QED
    BY <2>1, <2>2, <2>3
<1>7. \A cmd : \A o : Keyed(d, cmd, o) => Keyed(e, cmd, o)
  BY <1>6 DEF Keyed
<1>8. ASSUME NEW j \in Keys, e.idem[j] # None
      PROVE  e.idem[j].order <= e.next
  BY <1>1, <1>2, <1>8 DEF KeysSound, Docs, Orders
<1>9. ASSUME NEW i \in Keys, NEW j \in Keys, i # j, e.idem[i] # None, e.idem[j] # None
      PROVE  e.idem[i].order # e.idem[j].order
  BY <1>1, <1>2, <1>9 DEF KeysSound, Docs, Orders
<1>10. KeysSound(e)
  BY <1>2, <1>7, <1>8, <1>9 DEF KeysSound
<1> QED
  BY <1>5, <1>7, <1>10 DEF SaleSound

-----------------------------------------------------------------------------
(* Steps *)

LEMMA InitSale == Init => KInv
<1> SUFFICES ASSUME Init PROVE KInv
  OBVIOUS
<1>1. SaleSound(doc) /\ SaleSound(draft.doc)
  BY EmptySale DEF Init, NoDraft
<1>2. JobKeyed(doc, NoJob) /\ NoJob.op # "start"
  BY DEF JobKeyed, NoJob, NoCommand
<1>3. \A o \in Orders : spot[o] = Closed
  BY DEF Init
<1>4. Closed.job = NoJob /\ Closed.phase # "running"
  BY DEF Closed
<1>5. \A c \in Calls : CallKeyed(doc, calls[c])
  BY DEF Init, CallKeyed, NewCall
<1>6. msgs = {}
  BY DEF Init
<1>7. StartsKeyed
  BY <1>2, <1>3, <1>4, <1>5, <1>6 DEF StartsKeyed
<1> QED
  BY <1>1, <1>3, <1>4, <1>7 DEF KInv, DraftKeyed

\* A step of the API, of a client or of an operator: what is on its way stays
\* keyed, and no owner is at work if the document changes.
LEMMA QuietSale ==
  ASSUME DraftFollows, KInv, Quiet, SaleSound(doc'),
         \A cmd : \A o : Keyed(doc, cmd, o) => Keyed(doc', cmd, o),
         \A m \in msgs' \ msgs : JobKeyed(doc', m),
         \A c \in Calls : calls'[c] # calls[c] => CallKeyed(doc', calls'[c])
  PROVE  KInv'
<1>1. \A j : JobKeyed(doc, j) => JobKeyed(doc', j)
  BY DEF JobKeyed
<1>2. \A c : CallKeyed(doc, c) => CallKeyed(doc', c)
  BY DEF CallKeyed
<1>3. spot' = spot /\ draft' = draft
  BY DEF Quiet
<1>4. StartsKeyed
  BY DEF KInv
<1>5. (\A m \in msgs' : JobKeyed(doc', m)) /\ (\A c \in Calls : CallKeyed(doc', calls'[c]))
  BY <1>1, <1>2, <1>4 DEF StartsKeyed
<1>6. StartsKeyed'
  BY <1>1, <1>3, <1>4, <1>5 DEF StartsKeyed
<1>7. ASSUME NEW o \in Orders
      PROVE  DraftKeyed(o)'
  <2>1. CASE spot[o].phase = "running"
    <3>1. lock = o /\ DraftKeyed(o)
      BY <2>1 DEF DraftFollows, KInv
    <3>2. doc' = doc
      BY <3>1, WorkflowAssumption DEF Quiet
    <3> QED
      BY <1>3, <3>1, <3>2 DEF DraftKeyed
  <2>2. CASE spot[o].phase # "running"
    BY <1>3, <2>2 DEF DraftKeyed
  <2> QED
    BY <2>1, <2>2
<1>8. SaleSound(draft'.doc)
  BY <1>3 DEF KInv
<1> QED
  BY <1>6, <1>7, <1>8 DEF KInv

\* Such a step that touches no mapping, stream or stock.
LEMMA UnmappedSale ==
  ASSUME IInv, DraftFollows, KInv, Quiet, doc' \in Docs, doc'.idem = doc.idem,
         doc'.next = doc.next, doc'.inventory = doc.inventory,
         doc'.reservations = doc.reservations, doc'.released = doc.released,
         \A m \in msgs' \ msgs : JobKeyed(doc, m),
         \A c \in Calls : calls'[c] # calls[c] => CallKeyed(doc, calls'[c])
  PROVE  KInv'
<1>1. PICK e : e = doc'
  OBVIOUS
<1>2. SaleSound(e)
  BY <1>1, SaveSale DEF Quiet, IInv, KInv
<1>3. \A cmd : \A o : Keyed(doc, cmd, o) <=> Keyed(e, cmd, o)
  BY <1>1 DEF Keyed
<1>4. (\A j : JobKeyed(doc, j) => JobKeyed(e, j)) /\ (\A c : CallKeyed(doc, c) => CallKeyed(e, c))
  BY <1>3 DEF JobKeyed, CallKeyed
<1> QED
  BY <1>1, <1>2, <1>3, <1>4, QuietSale

LEMMA PlanSale ==
  ASSUME IInv, DraftFollows, KInv, lock = Free, NEW c \in Calls, NEW op, NEW k \in Keys,
         NEW cart, NEW m, Plan(c, op, k, cart, m, doc), UNCHANGED <<lock, draft, spot, msgs>>,
         doc' \in Docs
  PROVE  KInv'
<1> DEFINE known == doc.idem[k] # None
           order == IF known THEN doc.idem[k].order ELSE doc.next + 1
<1>1. doc \in Docs /\ calls \in [Calls -> CallStates] /\ SoundDoc(doc) /\ SaleSound(doc)
  BY Unfolded DEF KInv
<1>2. Quiet
  BY <1>1, PlanIsQuiet
<1>3. CASE order \notin Orders \/ cart \notin Carts
  <2> DEFINE v == [NewCall EXCEPT !.pc = "failed"]
  <2>1. doc' = doc /\ calls' = [calls EXCEPT ![c] = v]
    BY <1>3 DEF Plan
  <2>2. CallKeyed(doc, v)
    BY DEF CallKeyed, NewCall
  <2> HIDE DEF v
  <2>3. \A b \in Calls : calls'[b] # calls[b] => CallKeyed(doc, calls'[b])
    BY <1>1, <2>1, <2>2
  <2> QED
    BY <1>1, <1>2, <2>1, <2>3, UnmappedSale
<1>4. CASE order \in Orders /\ cart \in Carts
  <2> DEFINE again == known /\ doc.idem[k].started
             v == [pc |-> IF again THEN "poll" ELSE "send", op |-> op,
                   order |-> order, cmd |-> StartCommand(k),
                   cart |-> cart, method |-> m, reply |-> None]
             r == [order |-> order, started |-> TRUE]
             d == [doc EXCEPT !.next = IF known THEN @ ELSE order, !.idem[k] = r]
  <2>1. doc' = d /\ calls' = [calls EXCEPT ![c] = v]
    BY <1>4 DEF Plan
  <2>2. /\ d.idem = [doc.idem EXCEPT ![k] = r] /\ d.events = doc.events
        /\ d.next = (IF known THEN doc.next ELSE order) /\ d.inventory = doc.inventory
        /\ d.reservations = doc.reservations /\ d.released = doc.released
    BY <1>1 DEF Docs
  <2>3. r \in [order : Orders, started : BOOLEAN]
    BY <1>4
  <2>4. IF doc.idem[k] = None
          THEN r.order = doc.next + 1 /\ d.next = doc.next + 1
          ELSE /\ r.order = doc.idem[k].order /\ d.next = doc.next
               /\ doc.idem[k].started => r.started
    BY <2>2
  <2>5. r.order = order /\ r.started
    OBVIOUS
  <2>6. v.cmd = StartCommand(k) /\ v.order = order
    OBVIOUS
  <2>7. r = [order |-> order, started |-> TRUE]
    OBVIOUS
  <2> HIDE DEF v, r, d, order, known
  <2>8. d \in Docs
    BY <2>1
  <2>9. /\ SaleSound(d)
        /\ \A cmd : \A o : Keyed(doc, cmd, o) => Keyed(d, cmd, o)
    BY <1>1, <2>2, <2>3, <2>4, <2>8, MapSale
  <2>10. Keyed(d, v.cmd, v.order)
    <3>1. d.idem[k] = r
      BY <1>1, <2>2 DEF Docs
    <3> QED
      BY <1>4, <2>6, <2>7, <3>1 DEF Keyed
  <2>11. \A b \in Calls : calls'[b] # calls[b] => CallKeyed(d, calls'[b])
    BY <1>1, <2>1, <2>10 DEF CallKeyed
  <2> QED
    BY <1>2, <2>1, <2>9, <2>11, QuietSale
<1> QED
  BY <1>3, <1>4

\* create_pending and prepare map a key that may not be started yet.
LEMMA MappedSale ==
  ASSUME IInv, DraftFollows, KInv, Quiet, doc' \in Docs, NEW k \in Keys, NEW r,
         r \in [order : Orders, started : BOOLEAN],
         doc'.idem = [doc.idem EXCEPT ![k] = r],
         IF doc.idem[k] = None
           THEN r.order = doc.next + 1 /\ doc'.next = doc.next + 1
           ELSE /\ r.order = doc.idem[k].order /\ doc'.next = doc.next
                /\ doc.idem[k].started => r.started,
         doc'.inventory = doc.inventory, doc'.reservations = doc.reservations,
         doc'.released = doc.released, msgs' = msgs,
         \A c \in Calls : calls'[c] # calls[c] => CallKeyed(doc', calls'[c])
  PROVE  KInv'
<1>1. PICK e : e = doc'
  OBVIOUS
<1>2. SoundDoc(doc) /\ SaleSound(doc)
  BY DEF IInv, KInv
<1>3. e.events = doc.events
  BY <1>1 DEF Quiet
<1>4. /\ SaleSound(e)
      /\ \A cmd : \A o : Keyed(doc, cmd, o) => Keyed(e, cmd, o)
  BY <1>1, <1>2, <1>3, MapSale
<1> QED
  BY <1>1, <1>4, QuietSale

LEMMA ClientSale ==
  ASSUME IInv, DraftFollows, KInv, NEW c \in Calls, ClientStep(c), doc' \in Docs
  PROVE  KInv'
<1>1. doc \in Docs /\ calls \in [Calls -> CallStates] /\ Quiet
  BY Unfolded, ClientIsQuiet
<1>2. ASSUME NEW v, calls' = [calls EXCEPT ![c] = v], v.pc \notin {"poll", "send"}
      PROVE  \A d : \A b \in Calls : calls'[b] # calls[b] => CallKeyed(d, calls'[b])
  BY <1>1, <1>2 DEF CallKeyed
<1>3. ASSUME NEW k \in Keys, NEW cart, NEW m, StartOrder(c, k, cart, m)
      PROVE  KInv'
  BY <1>3, PlanSale DEF StartOrder
<1>4. ASSUME NEW k \in Keys, NEW cart, NEW m, Prepare(c, k, cart, m)
      PROVE  KInv'
  <2> DEFINE known == doc.idem[k] # None
             order == IF known THEN doc.idem[k].order ELSE doc.next + 1
  <2>1. CASE order \notin Orders
    <3> DEFINE v == [calls[c] EXCEPT !.pc = "failed"]
    <3>1. doc' = doc /\ calls' = [calls EXCEPT ![c] = v] /\ msgs' = msgs
      BY <1>4, <2>1 DEF Prepare
    <3>2. v.pc \notin {"poll", "send"}
      BY <1>1 DEF CallStates
    <3> HIDE DEF v
    <3> QED
      BY <1>1, <1>2, <3>1, <3>2, UnmappedSale
  <2>2. CASE order \in Orders
    <3> DEFINE v == [pc |-> "plan", op |-> "prepare", order |-> order,
                     cmd |-> StartCommand(k), cart |-> cart, method |-> m,
                     reply |-> None]
               r == IF known THEN doc.idem[k] ELSE [order |-> order, started |-> FALSE]
               d == [doc EXCEPT !.next = IF known THEN @ ELSE order,
                                !.idem[k] = IF known THEN @
                                            ELSE [order |-> order, started |-> FALSE],
                                !.stopAt = @ \cup {order}]
    <3>1. doc' = d /\ calls' = [calls EXCEPT ![c] = v] /\ msgs' = msgs
      BY <1>4, <2>2 DEF Prepare
    <3>2. v.pc \notin {"poll", "send"}
      OBVIOUS
    <3>3. /\ d.idem = [doc.idem EXCEPT ![k] = r] /\ d.inventory = doc.inventory
          /\ d.next = (IF known THEN doc.next ELSE order)
          /\ d.reservations = doc.reservations /\ d.released = doc.released
      BY <1>1 DEF Docs
    <3>4. r \in [order : Orders, started : BOOLEAN]
      BY <1>1, <2>2 DEF Docs
    <3>5. IF doc.idem[k] = None
            THEN r.order = doc.next + 1 /\ d.next = doc.next + 1
            ELSE /\ r.order = doc.idem[k].order /\ d.next = doc.next
                 /\ doc.idem[k].started => r.started
      BY <3>3
    <3> HIDE DEF v, r, d, order, known
    <3> QED
      BY <1>1, <1>2, <3>1, <3>2, <3>3, <3>4, <3>5, MappedSale
  <2> QED
    BY <2>1, <2>2
<1>5. ASSUME NEW k \in Keys, doc.idem[k] = None, CreatePending(c, k)
      PROVE  KInv'
  <2>1. CASE doc.next + 1 \notin Orders
    <3> DEFINE v == [calls[c] EXCEPT !.pc = "failed"]
    <3>1. doc' = doc /\ calls' = [calls EXCEPT ![c] = v] /\ msgs' = msgs
      BY <1>5, <2>1 DEF CreatePending
    <3>2. v.pc \notin {"poll", "send"}
      BY <1>1 DEF CallStates
    <3> HIDE DEF v
    <3> QED
      BY <1>1, <1>2, <3>1, <3>2, UnmappedSale
  <2>2. CASE doc.next + 1 \in Orders
    <3> DEFINE v == [calls[c] EXCEPT !.pc = "done", !.op = "pending",
                                     !.order = doc.next + 1]
               r == [order |-> doc.next + 1, started |-> FALSE]
               d == [doc EXCEPT !.next = @ + 1,
                       !.idem[k] = [order |-> doc.next + 1, started |-> FALSE]]
    <3>1. doc' = d /\ calls' = [calls EXCEPT ![c] = v] /\ msgs' = msgs
      BY <1>1, <1>5, <2>2 DEF CreatePending
    <3>2. v.pc \notin {"poll", "send"}
      BY <1>1 DEF CallStates
    <3>3. /\ d.idem = [doc.idem EXCEPT ![k] = r] /\ d.inventory = doc.inventory
          /\ d.next = doc.next + 1
          /\ d.reservations = doc.reservations /\ d.released = doc.released
      BY <1>1 DEF Docs
    <3>4. r \in [order : Orders, started : BOOLEAN] /\ r.order = doc.next + 1
      BY <2>2
    <3> HIDE DEF v, r, d
    <3> QED
      BY <1>1, <1>2, <1>5, <3>1, <3>2, <3>3, <3>4, MappedSale
  <2> QED
    BY <2>1, <2>2
<1>6. ASSUME NEW op \in {"continue", "rebuild"}, NEW o \in Orders, Forward(c, op, o)
      PROVE  KInv'
  <2> DEFINE v == [calls[c] EXCEPT !.pc = "wait", !.op = op, !.order = o]
             j == [op |-> op, order |-> o,
                   cmd |-> IF op = "continue" THEN ContinueCommand ELSE NoCommand,
                   call |-> c, cart |-> None, method |-> None]
  <2>1. doc' = doc /\ calls' = [calls EXCEPT ![c] = v] /\ msgs' = msgs \cup {j}
    BY <1>1, <1>6 DEF Forward, Request
  <2>2. v.pc \notin {"poll", "send"}
    BY <1>1 DEF CallStates
  <2>3. JobKeyed(doc, j)
    BY <1>6 DEF JobKeyed, ContinueCommand, NoCommand
  <2> HIDE DEF v, j
  <2> QED
    BY <1>1, <1>2, <2>1, <2>2, <2>3, UnmappedSale
<1> QED
  BY <1>3, <1>4, <1>5, <1>6 DEF ClientStep

LEMMA AnswerKeyed ==
  ASSUME IInv, KInv, NEW c \in Calls, NEW model, calls' = Answer(c, model)
  PROVE  \A b \in Calls : CallKeyed(doc, calls'[b])
<1>1. calls \in [Calls -> CallStates] /\ calls[c] \in CallStates
  BY Unfolded
<1>2. \A b \in Calls : CallKeyed(doc, calls[b])
  BY DEF KInv, StartsKeyed
<1> DEFINE v == [calls[c] EXCEPT !.reply = model,
                   !.pc = IF @ = "wait" \/ @ = "poll"
                          THEN IF calls[c].op = "prepare" THEN "watch"
                               ELSE "done"
                          ELSE @]
<1>3. calls' = [calls EXCEPT ![c] = v]
  BY <1>1 DEF Answer, CallStates
<1>4. /\ v.cmd = calls[c].cmd /\ v.order = calls[c].order
      /\ v.pc = "send" => calls[c].pc = "send"
      /\ v.pc # "poll"
  BY <1>1 DEF CallStates
<1> HIDE DEF v
<1>5. CallKeyed(doc, v)
  BY <1>2, <1>4 DEF CallKeyed
<1> QED
  BY <1>1, <1>2, <1>3, <1>5

LEMMA ApiSale ==
  ASSUME IInv, DraftFollows, KInv, NEW c \in Calls, ApiStep(c) \/ Abandon(c), doc' \in Docs
  PROVE  KInv'
<1>1. doc \in Docs /\ calls \in [Calls -> CallStates] /\ calls[c] \in CallStates /\ Quiet
      /\ StartCall(calls[c]) /\ CallKeyed(doc, calls[c])
  BY Unfolded, ApiIsQuiet DEF KInv, StartsKeyed
<1>2. ASSUME NEW v, calls' = [calls EXCEPT ![c] = v],
             v.pc \in {"poll", "send"} =>
               /\ calls[c].pc \in {"poll", "send"}
               /\ v.cmd = calls[c].cmd /\ v.order = calls[c].order
      PROVE  \A b \in Calls : calls'[b] # calls[b] => CallKeyed(doc, calls'[b])
  BY <1>1, <1>2 DEF CallKeyed
<1>3. CASE PlanPrepared(c)
  <2>1. calls[c].cmd.key \in Keys
    BY <1>1, <1>3 DEF PlanPrepared, StartCall
  <2> QED
    BY <1>3, <2>1, PlanSale DEF PlanPrepared
<1>4. CASE PollFound(c)
  <2>1. doc' = doc /\ msgs' = msgs
    BY <1>4 DEF PollFound
  <2>2. \A b \in Calls : CallKeyed(doc, calls'[b])
    BY <1>4, AnswerKeyed DEF PollFound
  <2> QED
    BY <1>1, <2>1, <2>2, UnmappedSale
<1>5. CASE PollExhausted(c)
  <2> DEFINE v == [calls[c] EXCEPT !.pc = "send"]
  <2>1. /\ calls' = [calls EXCEPT ![c] = v] /\ calls[c].pc = "poll"
        /\ doc' = doc /\ msgs' = msgs
    BY <1>1, <1>5 DEF PollExhausted
  <2>2. v.cmd = calls[c].cmd /\ v.order = calls[c].order
    BY <1>1 DEF CallStates
  <2> HIDE DEF v
  <2> QED
    BY <1>1, <1>2, <2>1, <2>2, UnmappedSale
<1>6. CASE SendStart(c)
  <2> DEFINE v == [calls[c] EXCEPT !.pc = "wait"]
             j == [op |-> "start", order |-> calls[c].order,
                   cmd |-> calls[c].cmd, call |-> c, cart |-> calls[c].cart,
                   method |-> calls[c].method]
  <2>1. /\ calls' = [calls EXCEPT ![c] = v] /\ calls[c].pc = "send"
        /\ doc' = doc /\ msgs' = msgs \cup {j}
    BY <1>1, <1>6 DEF SendStart, Request
  <2>2. v.pc = "wait"
    BY <1>1 DEF CallStates
  <2>3. JobKeyed(doc, j)
    BY <1>1, <2>1 DEF JobKeyed, CallKeyed
  <2> HIDE DEF v, j
  <2> QED
    BY <1>1, <1>2, <2>1, <2>2, <2>3, UnmappedSale
<1>7. CASE WatchReached(c)
  <2> DEFINE v == [calls[c] EXCEPT !.pc = "done"]
             d == [doc EXCEPT !.stopAt = @ \ {calls[c].order}]
  <2>1. doc' = d /\ calls' = [calls EXCEPT ![c] = v] /\ msgs' = msgs
    BY <1>1, <1>7 DEF WatchReached
  <2>2. v.pc = "done"
    BY <1>1 DEF CallStates
  <2>3. /\ d.idem = doc.idem /\ d.next = doc.next /\ d.inventory = doc.inventory
        /\ d.reservations = doc.reservations /\ d.released = doc.released
    BY <1>1 DEF Docs
  <2> HIDE DEF v, d
  <2> QED
    BY <1>1, <1>2, <2>1, <2>2, <2>3, UnmappedSale
<1>8. CASE Abandon(c)
  <2> DEFINE v == [calls[c] EXCEPT !.pc = "failed"]
  <2>1. doc' = doc /\ calls' = [calls EXCEPT ![c] = v] /\ msgs' = msgs
    BY <1>1, <1>8 DEF Abandon
  <2>2. v.pc = "failed"
    BY <1>1 DEF CallStates
  <2> HIDE DEF v
  <2> QED
    BY <1>1, <1>2, <2>1, <2>2, UnmappedSale
<1> QED
  BY <1>3, <1>4, <1>5, <1>6, <1>7, <1>8 DEF ApiStep

LEMMA DeleteSale ==
  ASSUME IInv, DraftFollows, KInv, NEW o \in Orders, DeleteProjection(o), doc' \in Docs
  PROVE  KInv'
<1> DEFINE d == [doc EXCEPT !.models[o] = None]
<1>1. doc' = d /\ calls' = calls /\ msgs' = msgs
  BY DEF DeleteProjection
<1>2. doc \in Docs /\ Quiet
  BY Unfolded, DeleteIsQuiet
<1>3. /\ d.idem = doc.idem /\ d.next = doc.next /\ d.inventory = doc.inventory
      /\ d.reservations = doc.reservations /\ d.released = doc.released
  BY <1>2 DEF Docs
<1> HIDE DEF d
<1> QED
  BY <1>1, <1>2, <1>3, UnmappedSale

-----------------------------------------------------------------------------
(* Steps of the owner *)

\* What changes is spot o, and not the mapping.
LEMMA OwnerSale ==
  ASSUME IInv, KInv, NEW o \in Orders, NEW v, spot' = [spot EXCEPT ![o] = v],
         JobKeyed(doc, v.job), v.job.op = "start" => v.job.order = o,
         doc'.idem = doc.idem, SaleSound(doc'), SaleSound(draft'.doc),
         \A q \in Orders : DraftKeyed(q)',
         msgs' \subseteq msgs, \A c \in Calls : CallKeyed(doc, calls'[c])
  PROVE  KInv'
<1>1. spot \in [Orders -> SpotStates]
  BY Unfolded
<1>2. PICK e : e = doc'
  OBVIOUS
<1>3. \A cmd : \A q : Keyed(doc, cmd, q) <=> Keyed(e, cmd, q)
  BY <1>2 DEF Keyed
<1>4. (\A j : JobKeyed(doc, j) => JobKeyed(e, j)) /\ (\A c : CallKeyed(doc, c) => CallKeyed(e, c))
  BY <1>3 DEF JobKeyed, CallKeyed
<1>5. StartsKeyed
  BY DEF KInv
<1>6. ASSUME NEW q \in Orders
      PROVE  /\ JobKeyed(doc', spot'[q].job)
             /\ spot'[q].job.op = "start" => spot'[q].job.order = q
  BY <1>1, <1>2, <1>4, <1>5 DEF StartsKeyed
<1>7. StartsKeyed'
  BY <1>2, <1>4, <1>5, <1>6 DEF StartsKeyed
<1> QED
  BY <1>7 DEF KInv

\* After the step o does not run; if the draft changed, o was its owner.
LEMMA LeaveSale ==
  ASSUME IInv, DraftFollows, KInv, NEW o \in Orders, NEW v,
         spot' = [spot EXCEPT ![o] = v], v.phase # "running",
         lock = o \/ UNCHANGED <<doc, draft>>
  PROVE  \A q \in Orders : DraftKeyed(q)'
<1> SUFFICES ASSUME NEW q \in Orders PROVE DraftKeyed(q)'
  OBVIOUS
<1>1. spot'[o].phase # "running" /\ (q # o => spot'[q] = spot[q])
  BY Unfolded
<1>2. DraftKeyed(q)
  BY DEF KInv
<1>3. q # o /\ spot[q].phase = "running" => lock = q
  BY DEF DraftFollows
<1> QED
  BY <1>1, <1>2, <1>3 DEF DraftKeyed

\* The owner of a start that is not yet in the stream finds no stream at all:
\* the first event of one would carry the command of the same key.
LEMMA StartFindsNothing ==
  ASSUME NEW d, KeysSound(d), NEW o \in Orders, NEW cmd, Keyed(d, cmd, o),
         d \in Docs, ~AlreadyApplied(d, o, cmd)
  PROVE  d.events[o] = <<>>
<1> SUFFICES ASSUME d.events[o] # <<>> PROVE FALSE
  OBVIOUS
<1>1. Keyed(d, d.events[o][1].cmd, o)
  BY DEF KeysSound
<1>2. PICK k \in Keys : cmd = StartCommand(k) /\ d.idem[k] = [order |-> o, started |-> TRUE]
  BY DEF Keyed
<1>3. PICK j \in Keys : /\ d.events[o][1].cmd = StartCommand(j)
                        /\ d.idem[j] = [order |-> o, started |-> TRUE]
  BY <1>1 DEF Keyed
<1>4. j = k
  <2>1. [order |-> o, started |-> TRUE] # None
    <3>1. [order |-> o, started |-> TRUE] \in [order : Orders, started : BOOLEAN]
      OBVIOUS
    <3> QED
      BY <3>1, WorkflowAssumption
  <2>2. d.idem[j].order = o /\ d.idem[k].order = o
    BY <1>2, <1>3
  <2> QED
    BY <1>2, <1>3, <2>1, <2>2 DEF KeysSound
<1>5. 1 \in 1..Len(d.events[o])
  <2>1. d.events[o] \in Seq(Events)
    BY DEF Docs
  <2> QED
    BY <2>1
<1>6. cmd # NoCommand
  BY <1>2 DEF StartCommand, NoCommand
<1> QED
  BY <1>2, <1>3, <1>4, <1>5, <1>6 DEF AlreadyApplied

LEMMA AcquireSale ==
  ASSUME IInv, DraftFollows, KInv, NEW o \in Orders, AcquireLock(o)
  PROVE  KInv'
<1> DEFINE v == [spot[o] EXCEPT !.phase = "running"]
           left == IF \/ spot[o].job.op = "rebuild"
                      \/ AlreadyApplied(doc, o, spot[o].job.cmd)
                   THEN 0 ELSE IF spot[o].job.op = "start" THEN 1 ELSE 16
<1>1. /\ doc \in Docs /\ spot \in [Orders -> SpotStates] /\ spot[o] \in SpotStates
      /\ \A c \in Calls : CallKeyed(doc, calls[c])
      /\ JobKeyed(doc, spot[o].job) /\ (spot[o].job.op = "start" => spot[o].job.order = o)
      /\ SaleSound(doc)
  BY Unfolded DEF KInv, StartsKeyed
<1>2. /\ spot' = [spot EXCEPT ![o] = v] /\ draft' = [doc |-> doc, left |-> left]
      /\ lock = Free /\ UNCHANGED <<doc, calls, msgs>>
  BY <1>1 DEF AcquireLock, SpotStates
<1>3. v.job = spot[o].job
  BY <1>1 DEF SpotStates
<1>4. spot[o].job.op = "start" /\ left > 0 => left = 1 /\ doc.events[o] = <<>>
  <2> SUFFICES ASSUME spot[o].job.op = "start", left > 0
               PROVE  left = 1 /\ doc.events[o] = <<>>
    OBVIOUS
  <2>1. left = 1 /\ ~AlreadyApplied(doc, o, spot[o].job.cmd)
    OBVIOUS
  <2>2. Keyed(doc, spot[o].job.cmd, o)
    BY <1>1 DEF JobKeyed
  <2> QED
    BY <1>1, <2>1, <2>2, StartFindsNothing DEF SaleSound
<1>5. spot'[o].job = spot[o].job /\ (\A q \in Orders \ {o} : spot'[q] = spot[q])
  BY <1>1, <1>2, <1>3
<1>6. draft'.doc = doc /\ draft'.left = left
  BY <1>2
<1> HIDE DEF v, left
<1>7. ASSUME NEW q \in Orders PROVE DraftKeyed(q)'
  <2>1. CASE q = o
    BY <1>2, <1>4, <1>5, <1>6, <2>1 DEF DraftKeyed
  <2>2. CASE q # o
    <3>1. spot'[q].phase # "running"
      BY <1>2, <1>5, <2>2, WorkflowAssumption DEF DraftFollows
    <3> QED
      BY <3>1 DEF DraftKeyed
  <2> QED
    BY <2>1, <2>2
<1> QED
  BY <1>1, <1>2, <1>3, <1>6, <1>7, OwnerSale

LEMMA AdvanceSale ==
  ASSUME IInv, DraftFollows, KInv, NEW o \in Orders, Advance(o)
  PROVE  KInv'
<1> DEFINE j == spot[o].job
           b == draft.doc
           s == b.events[o]
           d == IF s = <<>>
                THEN AppendEvent(b, o, StartEvent(j.cmd, j.cart, j.method))
                ELSE NextStep(b, o, j.cmd)
           e == SaveProjection(d, o)
<1>1. /\ j \in Jobs /\ StartJob(j) /\ SoundDoc(b) /\ draft.left \in 0 .. 16
      /\ SaleSound(b) /\ JobKeyed(doc, j) /\ (j.op = "start" => j.order = o)
      /\ DraftKeyed(o) /\ spot \in [Orders -> SpotStates]
  BY Unfolded DEF SpotStates, KInv, StartsKeyed
<1>2. /\ draft' = [doc |-> e, left |-> draft.left - 1]
      /\ UNCHANGED <<doc, lock, spot, calls, msgs>>
      /\ spot[o].phase = "running" /\ draft.left > 0
      /\ IF s = <<>> THEN j.op = "start" ELSE ~Terminal(Status(s))
  BY DEF Advance, CanAdvance
<1>3. j.cmd \in Commands
  BY <1>1 DEF Jobs
<1>4. b.idem = doc.idem /\ (j.op = "start" => draft.left = 1 /\ s = <<>>)
  BY <1>1, <1>2 DEF DraftKeyed
<1>5. SaleSound(e) /\ e.idem = b.idem
  <2>1. CASE s = <<>>
    <3>1. j.cart \in Carts /\ j.method \in Methods
      BY <1>1, <1>2, <2>1 DEF StartJob
    <3>2. Keyed(b, j.cmd, o)
      BY <1>1, <1>2, <1>4, <2>1 DEF JobKeyed, Keyed
    <3>3. e = SaveProjection(AppendEvent(b, o, StartEvent(j.cmd, j.cart, j.method)), o)
      BY <2>1
    <3> HIDE DEF e
    <3> QED
      BY <1>1, <1>3, <2>1, <3>1, <3>2, <3>3, StartSale
  <2>2. CASE s # <<>>
    <3>1. j.cmd.kind # "start"
      BY <1>1, <1>4, <2>2 DEF JobKeyed
    <3>2. e = SaveProjection(NextStep(b, o, j.cmd), o)
      BY <2>2
    <3> HIDE DEF e
    <3> QED
      BY <1>1, <1>2, <1>3, <2>2, <3>1, <3>2, StepSale
  <2> QED
    BY <2>1, <2>2
<1> HIDE DEF e, d
<1>6. draft'.doc = e /\ draft'.left = draft.left - 1
  BY <1>2
<1>7. ASSUME NEW q \in Orders PROVE DraftKeyed(q)'
  <2>1. CASE q = o
    <3>1. j.op = "start" => draft'.left = 0
      BY <1>1, <1>4, <1>6
    <3> QED
      BY <1>2, <1>4, <1>5, <1>6, <2>1, <3>1 DEF DraftKeyed
  <2>2. CASE q # o
    <3>1. spot'[q].phase # "running"
      BY <1>2, <2>2 DEF DraftFollows
    <3> QED
      BY <3>1 DEF DraftKeyed
  <2> QED
    BY <2>1, <2>2
<1>8. StartsKeyed'
  BY <1>2 DEF KInv, StartsKeyed
<1>9. SaleSound(doc')
  BY <1>2 DEF KInv
<1> QED
  BY <1>5, <1>6, <1>7, <1>8, <1>9 DEF KInv

LEMMA OwnerStepSale ==
  ASSUME IInv, DraftFollows, KInv, NEW o \in Orders, SpotStep(o) \/ LockTimeout(o) \/ Crash(o)
  PROVE  KInv'
<1>1. /\ doc \in Docs /\ draft.doc \in Docs /\ SoundDoc(draft.doc)
      /\ spot \in [Orders -> SpotStates] /\ spot[o] \in SpotStates
      /\ calls \in [Calls -> CallStates]
      /\ (\A c \in Calls : CallKeyed(doc, calls[c]))
      /\ JobKeyed(doc, spot[o].job) /\ (spot[o].job.op = "start" => spot[o].job.order = o)
      /\ SaleSound(doc) /\ SaleSound(draft.doc) /\ DraftKeyed(o)
  BY Unfolded DEF KInv, StartsKeyed
<1>2. JobKeyed(doc, NoJob) /\ NoJob.op # "start" /\ SaleSound(NoDraft.doc)
  BY EmptySale DEF JobKeyed, NoJob, NoCommand, NoDraft
<1>3. CASE TakeTimer(o)
  <2> DEFINE j == [NoJob EXCEPT !.op = "continue", !.order = o]
             v == [spot[o] EXCEPT !.phase = "locking", !.timer = FALSE, !.job = j]
  <2>1. spot' = [spot EXCEPT ![o] = v] /\ UNCHANGED <<doc, lock, draft, calls, msgs>>
    BY <1>1, <1>3 DEF TakeTimer, SpotStates
  <2>2. JobKeyed(doc, j) /\ j.op # "start"
    BY DEF JobKeyed, NoJob, NoCommand
  <2> HIDE DEF j
  <2>3. v.phase # "running" /\ v.job = j
    BY <1>1 DEF SpotStates
  <2> HIDE DEF v
  <2>4. \A q \in Orders : DraftKeyed(q)'
    BY <2>1, <2>3, LeaveSale
  <2> QED
    BY <1>1, <2>1, <2>2, <2>3, <2>4, OwnerSale
<1>4. CASE Commit(o)
  <2> DEFINE v == [spot[o] EXCEPT !.phase = "after"]
  <2>1. /\ spot' = [spot EXCEPT ![o] = v] /\ spot[o].phase = "running"
        /\ doc' = SaveProjection(draft.doc, o) /\ draft' = NoDraft
        /\ calls' = calls /\ msgs' = msgs
    BY <1>1, <1>4 DEF Commit, SpotStates
  <2>2. v.phase # "running" /\ v.job = spot[o].job
    BY <1>1 DEF SpotStates
  <2> HIDE DEF v
  <2>3. lock = o /\ draft.doc.idem = doc.idem
    BY <1>1, <2>1 DEF DraftFollows, DraftKeyed
  <2>4. \A q \in Orders : DraftKeyed(q)'
    BY <2>1, <2>2, <2>3, LeaveSale
  <2>5. PICK e : e = SaveProjection(draft.doc, o)
    OBVIOUS
  <2>6. /\ e \in Docs /\ e.idem = draft.doc.idem /\ e.events = draft.doc.events
        /\ e.next = draft.doc.next /\ e.inventory = draft.doc.inventory
        /\ e.reservations = draft.doc.reservations /\ e.released = draft.doc.released
    BY <1>1, <2>5, ProjectionType DEF SaveProjection, Docs
  <2>7. SaleSound(e)
    BY <1>1, <2>6, SaveSale
  <2> QED
    BY <1>1, <1>2, <2>1, <2>2, <2>3, <2>4, <2>5, <2>6, <2>7, OwnerSale
<1>5. CASE RebuildRefused(o)
  <2> DEFINE v == [spot[o] EXCEPT !.phase = "idle", !.job = NoJob]
             b == spot[o].job.call
  <2>1. /\ spot' = [spot EXCEPT ![o] = v] /\ spot[o].phase = "running"
        /\ doc' = doc /\ draft' = NoDraft /\ msgs' = msgs
    BY <1>1, <1>5 DEF RebuildRefused, SpotStates
  <2>2. v.phase # "running" /\ v.job = NoJob
    BY <1>1 DEF SpotStates
  <2> HIDE DEF v
  <2>3. lock = o
    BY <2>1 DEF DraftFollows
  <2>4. \A q \in Orders : DraftKeyed(q)'
    BY <2>1, <2>2, <2>3, LeaveSale
  <2>5. \A c \in Calls : CallKeyed(doc, calls'[c])
    <3>1. calls' = [calls EXCEPT ![b].pc = IF @ = "wait" THEN "failed" ELSE @]
      BY <1>5 DEF RebuildRefused
    <3>2. CASE b \in Calls
      <4> DEFINE w == [calls[b] EXCEPT !.pc = IF @ = "wait" THEN "failed" ELSE @]
      <4>1. calls' = [calls EXCEPT ![b] = w]
        BY <3>1
      <4>2. /\ w.cmd = calls[b].cmd /\ w.order = calls[b].order
            /\ w.pc \in {"poll", "send"} => calls[b].pc = w.pc
        BY <1>1, <3>2 DEF CallStates
      <4> HIDE DEF w, b
      <4>3. CallKeyed(doc, w)
        BY <1>1, <3>2, <4>2 DEF CallKeyed
      <4> QED
        BY <1>1, <4>1, <4>3
    <3>3. CASE b \notin Calls
      BY <1>1, <3>1, <3>3
    <3> QED
      BY <3>2, <3>3
  <2> QED
    BY <1>1, <1>2, <2>1, <2>2, <2>4, <2>5, OwnerSale
<1>6. CASE Finish(o)
  <2> DEFINE j == spot[o].job
             v == IF Terminal(Status(doc.events[o])) THEN Closed
                  ELSE [phase |-> "idle", job |-> NoJob,
                        timer |-> spot[o].timer \/ j.op = "start"]
  <2>1. /\ spot' = [spot EXCEPT ![o] = v] /\ UNCHANGED <<doc, lock, draft, msgs>>
        /\ calls' = IF j.call = None THEN calls
                    ELSE Answer(j.call, Projection(doc.events[o]))
    BY <1>6 DEF Finish
  <2>2. v.phase # "running" /\ v.job = NoJob
    BY DEF Closed
  <2>3. \A c \in Calls : CallKeyed(doc, calls'[c])
    <3>1. CASE j.call = None
      BY <1>1, <2>1, <3>1
    <3>2. CASE j.call \in Calls
      BY <2>1, <3>2, WorkflowAssumption, AnswerKeyed
    <3> QED
      BY <1>1, <3>1, <3>2 DEF SpotStates, Jobs
  <2> HIDE DEF v
  <2>4. \A q \in Orders : DraftKeyed(q)'
    BY <2>1, <2>2, LeaveSale
  <2> QED
    BY <1>1, <1>2, <2>1, <2>2, <2>3, <2>4, OwnerSale
<1>7. CASE LockTimeout(o)
  <2> DEFINE v == [spot[o] EXCEPT !.phase = "idle", !.job = NoJob]
  <2>1. spot' = [spot EXCEPT ![o] = v] /\ UNCHANGED <<doc, lock, draft, calls, msgs>>
    BY <1>1, <1>7 DEF LockTimeout, SpotStates
  <2>2. v.phase # "running" /\ v.job = NoJob
    BY <1>1 DEF SpotStates
  <2> HIDE DEF v
  <2>3. \A q \in Orders : DraftKeyed(q)'
    BY <2>1, <2>2, LeaveSale
  <2> QED
    BY <1>1, <1>2, <2>1, <2>2, <2>3, OwnerSale
<1>8. CASE Crash(o)
  <2>1. /\ spot' = [spot EXCEPT ![o] = Closed] /\ UNCHANGED <<doc, calls, msgs>>
        /\ draft' = IF lock = o THEN NoDraft ELSE draft
    BY <1>8 DEF Crash
  <2>2. Closed.phase # "running" /\ Closed.job = NoJob
    BY DEF Closed
  <2>3. \A q \in Orders : DraftKeyed(q)'
    BY <2>1, <2>2, LeaveSale
  <2>4. SaleSound(draft'.doc)
    BY <1>1, <1>2, <2>1
  <2> QED
    BY <1>1, <1>2, <2>1, <2>2, <2>3, <2>4, OwnerSale
<1> QED
  BY <1>3, <1>4, <1>5, <1>6, <1>7, <1>8, AcquireSale, AdvanceSale DEF SpotStep

LEMMA TakeSale ==
  ASSUME IInv, DraftFollows, KInv, NEW m \in msgs, TakeRequest(m)
  PROVE  KInv'
<1>1. /\ spot \in [Orders -> SpotStates] /\ JobKeyed(doc, m)
      /\ (\A c \in Calls : CallKeyed(doc, calls[c]))
      /\ SaleSound(doc) /\ SaleSound(draft.doc)
  BY Unfolded DEF KInv, StartsKeyed
<1>2. UNCHANGED <<doc, lock, draft, calls>> /\ msgs' = msgs \ {m}
  BY DEF TakeRequest
<1>3. CASE m.order \in Orders
  <2> DEFINE o == m.order
             v == [spot[o] EXCEPT !.phase = "locking", !.job = m]
  <2>1. spot' = [spot EXCEPT ![o] = v]
    BY <1>1, <1>3 DEF TakeRequest, SpotStates
  <2>2. v.phase # "running" /\ v.job = m
    BY <1>1, <1>3 DEF SpotStates
  <2> HIDE DEF v
  <2>3. \A q \in Orders : DraftKeyed(q)'
    BY <1>2, <1>3, <2>1, <2>2, LeaveSale
  <2> QED
    BY <1>1, <1>2, <1>3, <2>1, <2>2, <2>3, OwnerSale
<1>4. CASE m.order \notin Orders
  <2>1. spot' = spot
    BY <1>1, <1>4 DEF TakeRequest
  <2>2. (\A q \in Orders : DraftKeyed(q)') /\ StartsKeyed'
    BY <1>2, <2>1 DEF KInv, DraftKeyed, StartsKeyed
  <2> QED
    BY <1>1, <1>2, <2>2 DEF KInv
<1> QED
  BY <1>3, <1>4

LEMMA NextSale ==
  ASSUME IInv, DraftFollows, KInv, [Next]_vars
  PROVE  KInv'
<1>1. doc' \in Docs
  <2>1. IInv'
    BY NextKeeps
  <2> QED
    BY <2>1 DEF IInv, TypeOK
<1>2. CASE UNCHANGED vars
  BY <1>2 DEF vars, KInv, StartsKeyed, DraftKeyed
<1> QED
  BY <1>1, <1>2, ClientSale, ApiSale, TakeSale, OwnerStepSale, DeleteSale
     DEF Next, Normal, Failure

LEMMA KInvIsOneSale == KInv => OneSalePerKey
<1> SUFFICES ASSUME KInv PROVE OneSalePerKey
  OBVIOUS
<1>1. KeysSound(doc) /\ StockConserved
  BY DEF KInv, SaleSound, StockConserved
<1>2. ASSUME NEW o \in Orders, doc.events[o] # <<>>
      PROVE  LET k == doc.events[o][1].cmd.key
             IN  k \in Keys /\ doc.idem[k] = [order |-> o, started |-> TRUE]
  <2>1. PICK k \in Keys : /\ doc.events[o][1].cmd = StartCommand(k)
                          /\ doc.idem[k] = [order |-> o, started |-> TRUE]
    BY <1>1, <1>2 DEF KeysSound, Keyed
  <2>2. doc.events[o][1].cmd.key = k
    BY <2>1 DEF StartCommand
  <2> QED
    BY <2>1, <2>2
<1>3. OneOrderPerKey
  BY <1>1, <1>2 DEF OneOrderPerKey, KeysSound
<1>4. StartOnlyStarts
  BY <1>1 DEF StartOnlyStarts, KeysSound
<1> QED
  BY <1>1, <1>3, <1>4 DEF OneSalePerKey

\* Of all requests with one key, repeated, raced, lost or taken by another
\* process, there is one order, started once; it takes its stock once and
\* gives it back at most once, and no unit is ever sold twice or lost
\* (start_order, run_workflow, reserve and release).
THEOREM KeysSellOnce == Spec => []OneSalePerKey
<1>1. Init => DraftFollows
  BY DEF Init, DraftFollows, Closed
<1>2. IInv /\ DraftFollows /\ KInv /\ [Next]_vars => DraftFollows' /\ KInv'
  BY NextFollows, NextSale
<1> QED
  BY <1>1, <1>2, InitSale, KInvIsOneSale, Invariance, PTL DEF Spec
-----------------------------------------------------------------------------
(* Planned relocation.  A request is good for one replay: it is spent when   *)
(* the fixture finds itself recreated elsewhere, and only another request    *)
(* makes a plan that may be replayed again.                                  *)

Plannings == [op : {"none", "requested", "starting", "ready-for-defer"},
              source : Processes \cup {None}, generation : Nat, replayed : BOOLEAN]
Fixtures == [at : Processes \cup {None}, phase : {"none", "new", "idle", "replay"},
             timer : BOOLEAN, ready : BOOLEAN, generation : Nat]
Workers == [pc : {"looking", "starting", "relocating", "ended"}, order : Orders \cup {0}]

RelocationTypes ==
  /\ plan \in [Orders -> Plannings]
  /\ fixture \in [Orders -> Fixtures]
  /\ worker \in [Processes -> Workers]
  /\ creating \in [Orders -> Nat] /\ requests \in [Orders -> Nat]
  /\ generation \in [Orders -> Nat] /\ replays \in [Orders -> Nat]

Planned(o) == plan[o].op # "none"

\* The replay that is under way, and the one the plan still allows.
UnderWay(o) == IF fixture[o].phase = "replay" THEN 1 ELSE 0
Allowed(o) == IF Planned(o) /\ ~plan[o].replayed THEN 1 ELSE 0

\* Without a plan there is neither a fixture nor a thread at work on it.
RelocationSound(o) ==
  /\ creating[o] > 0 \/ fixture[o].at # None => Planned(o)
  /\ fixture[o].at = None => fixture[o] = NoFixture
  /\ replays[o] + UnderWay(o) + Allowed(o) <= requests[o]
  /\ fixture[o].phase = "replay" /\ requests[o] = 1 => fixture[o].at # plan[o].source

AtWork(n) ==
  worker[n].pc \in {"starting", "relocating"} =>
    worker[n].order \in Orders /\ Planned(worker[n].order)

RInv ==
  /\ RelocationTypes
  /\ \A o \in Orders : RelocationSound(o)
  /\ \A n \in Processes : AtWork(n)

LEMMA RelocationInitInv == RelocationInit => RInv
BY RelocationAssumption
   DEF RelocationInit, RInv, RelocationTypes, RelocationSound, AtWork, Planned, UnderWay, Allowed,
       NoPlan, NoFixture, Looking, Plannings, Fixtures, Workers

LEMMA RequestSteps ==
  ASSUME RInv, NEW o \in Orders, Plans(o) \/ CreateFixture(o)
  PROVE  RInv'
<1> USE DEF RInv, RelocationTypes
<1>1. CASE Plans(o)
  <2>1. PICK p : p = [NoPlan EXCEPT !.op = "requested"]
    OBVIOUS
  <2>2. p \in Plannings /\ p.op = "requested" /\ p.source = None /\ ~p.replayed
    BY <2>1 DEF NoPlan, Plannings
  <2>3. /\ plan' = [plan EXCEPT ![o] = p]
        /\ creating' = [creating EXCEPT ![o] = @ + 1]
        /\ requests' = [requests EXCEPT ![o] = @ + 1]
        /\ UNCHANGED <<fixture, worker, generation, replays>>
    BY <1>1, <2>1 DEF Plans
  <2>4. RelocationTypes'
    BY <2>2, <2>3
  <2>5. ASSUME NEW q \in Orders PROVE RelocationSound(q)'
    <3>1. CASE q = o
      <4>1. replays[o] \in Nat /\ requests[o] \in Nat /\ creating[o] \in Nat /\ Planned(o)'
        BY <2>2, <2>3 DEF Planned
      <4>2. RelocationSound(o)
        OBVIOUS
      <4>3. fixture[o].phase = "replay" => requests[o] >= 1
        BY <4>1, <4>2 DEF RelocationSound, UnderWay, Allowed
      <4> QED
        BY <2>2, <2>3, <3>1, <4>1, <4>2, <4>3 DEF RelocationSound, Planned, UnderWay, Allowed
    <3>2. CASE q # o
      BY <2>3, <3>2 DEF RelocationSound, Planned, UnderWay, Allowed
    <3> QED
      BY <3>1, <3>2
  <2>6. \A n \in Processes : AtWork(n)'
    BY <2>2, <2>3 DEF AtWork, Planned
  <2> QED
    BY <2>4, <2>5, <2>6
<1>2. CASE CreateFixture(o)
  <2>0. Planned(o) /\ creating[o] \in Nat
    BY <1>2 DEF CreateFixture, RelocationSound
  <2>1. CASE fixture[o].at # None
    <3>1. /\ creating' = [creating EXCEPT ![o] = @ - 1] /\ creating[o] > 0
          /\ UNCHANGED <<plan, fixture, worker, requests, generation, replays>>
      BY <1>2, <2>1 DEF CreateFixture
    <3> QED
      BY <2>0, <3>1 DEF RelocationSound, Planned, UnderWay, Allowed, AtWork
  <2>2. CASE fixture[o].at = None
    <3>0. generation'[o] = generation[o] + 1 /\ generation[o] \in Nat
      BY <1>2, <2>2 DEF CreateFixture
    <3>1. PICK n \in Processes : fixture' = [fixture EXCEPT ![o] =
            [NoFixture EXCEPT !.at = n, !.phase = "new", !.generation = generation[o] + 1]]
      BY <1>2, <2>2, <3>0 DEF CreateFixture
    <3>4. PICK f : /\ f = [NoFixture EXCEPT !.at = n, !.phase = "new", !.generation = generation[o] + 1]
                   /\ fixture' = [fixture EXCEPT ![o] = f]
      BY <3>1
    <3>5. f = [at |-> n, phase |-> "new", timer |-> FALSE, ready |-> FALSE,
               generation |-> generation[o] + 1]
      BY <3>4 DEF NoFixture
    <3>2. f \in Fixtures /\ f.phase = "new" /\ f.at \in Processes
      BY <3>0, <3>5 DEF Fixtures
    <3>3. /\ creating' = [creating EXCEPT ![o] = @ - 1] /\ creating[o] > 0
          /\ generation' = [generation EXCEPT ![o] = @ + 1]
          /\ UNCHANGED <<plan, worker, requests, replays>>
      BY <1>2, <2>2 DEF CreateFixture
    <3> QED
      BY <2>0, <2>2, <3>4, <3>2, <3>3, RelocationAssumption
         DEF RelocationSound, Planned, UnderWay, Allowed, AtWork
  <2> QED
    BY <2>1, <2>2
<1> QED
  BY <1>1, <1>2

\* The fixture of order o becomes f, which is not replaying, and nothing else changes.
LEMMA FixtureMoves ==
  ASSUME RInv, NEW o \in Orders, NEW f \in Fixtures,
         fixture' = [fixture EXCEPT ![o] = f], f.phase # "replay",
         f.at = None => f = NoFixture, f.at # None => fixture[o].at # None,
         UNCHANGED <<plan, creating, worker, requests, generation, replays>>
  PROVE  RInv'
BY DEF RInv, RelocationTypes, RelocationSound, Planned, UnderWay, Allowed, AtWork

\* A fixture in any phase, with a timer or ready, is somewhere, and planned.
LEMMA FixtureIsSomewhere ==
  ASSUME RInv, NEW o \in Orders,
         fixture[o].phase # "none" \/ fixture[o].timer \/ fixture[o].ready
  PROVE  fixture[o].at # None /\ Planned(o)
<1>1. ~(NoFixture.phase # "none" \/ NoFixture.timer \/ NoFixture.ready)
  BY DEF NoFixture
<1>2. RelocationSound(o)
  BY DEF RInv
<1> QED
  BY <1>1, <1>2 DEF RelocationSound

LEMMA InitializeStep ==
  ASSUME RInv, NEW o \in Orders, Initialize(o)
  PROVE  RInv'
<1> USE DEF RInv, RelocationTypes
<1>0. /\ fixture[o] \in Fixtures /\ plan[o] \in Plannings /\ fixture[o].phase = "new"
      /\ Planned(o) /\ fixture[o].at # None
      /\ UNCHANGED <<creating, worker, requests, generation, replays>>
  BY FixtureIsSomewhere DEF Initialize
<1>1. CASE IsSource(o)
  <2>1. PICK p, f : /\ p = [plan[o] EXCEPT !.source = fixture[o].at, !.generation = fixture[o].generation]
                    /\ f = [fixture[o] EXCEPT !.phase = "idle", !.timer = TRUE]
    OBVIOUS
  <2>2. plan' = [plan EXCEPT ![o] = p] /\ fixture' = [fixture EXCEPT ![o] = f]
    BY <1>1, <2>1 DEF Initialize
  <2>3. /\ p \in Plannings /\ p.op = plan[o].op /\ p.replayed = plan[o].replayed
        /\ f \in Fixtures /\ f.phase = "idle" /\ f.at = fixture[o].at
    BY <1>0, <2>1 DEF Plannings, Fixtures
  <2> QED
    BY <1>0, <2>2, <2>3 DEF RelocationSound, Planned, UnderWay, Allowed, AtWork
<1>2. CASE ~IsSource(o) /\ IsTarget(o)
  <2>1. PICK p, f : p = [plan[o] EXCEPT !.replayed = TRUE] /\ f = [fixture[o] EXCEPT !.phase = "replay"]
    OBVIOUS
  <2>2. plan' = [plan EXCEPT ![o] = p] /\ fixture' = [fixture EXCEPT ![o] = f]
    BY <1>2, <2>1 DEF Initialize
  <2>3. /\ p \in Plannings /\ p.op = plan[o].op /\ p.replayed /\ p.source = plan[o].source
        /\ f \in Fixtures /\ f.phase = "replay" /\ f.at = fixture[o].at
    BY <1>0, <2>1 DEF Plannings, Fixtures
  <2>4. plan[o].source # fixture[o].at /\ ~plan[o].replayed
    BY <1>2 DEF IsTarget
  <2> QED
    BY <1>0, <2>2, <2>3, <2>4 DEF RelocationSound, Planned, UnderWay, Allowed, AtWork
<1>3. CASE ~IsSource(o) /\ ~IsTarget(o)
  <2>1. PICK f : f = [fixture[o] EXCEPT !.phase = "idle"]
    OBVIOUS
  <2>2. fixture' = [fixture EXCEPT ![o] = f] /\ UNCHANGED plan
    BY <1>3, <2>1 DEF Initialize
  <2>3. f \in Fixtures /\ f.phase = "idle" /\ f.at = fixture[o].at
    BY <1>0, <2>1 DEF Fixtures
  <2> QED
    BY <1>0, <2>2, <2>3, FixtureMoves
<1> QED
  BY <1>1, <1>2, <1>3

LEMMA FixtureSteps ==
  ASSUME RInv, NEW o \in Orders, Replay(o) \/ CheckReadiness(o) \/ Relocate(o)
  PROVE  RInv'
<1> USE DEF RInv, RelocationTypes
<1>0. fixture[o] \in Fixtures /\ RelocationSound(o) /\ fixture[o].at # None /\ Planned(o)
  BY FixtureIsSomewhere DEF Replay, CheckReadiness, Relocate
<1>1. CASE Replay(o)
  <2>1. PICK f : f = [fixture[o] EXCEPT !.phase = "idle"]
    OBVIOUS
  <2>2. /\ fixture' = [fixture EXCEPT ![o] = f] /\ fixture[o].phase = "replay"
        /\ replays' = [replays EXCEPT ![o] = @ + 1]
        /\ UNCHANGED <<plan, creating, worker, requests, generation>>
    BY <1>1, <2>1 DEF Replay
  <2>3. f \in Fixtures /\ f.phase = "idle" /\ f.at = fixture[o].at
    BY <1>0, <2>1 DEF Fixtures
  <2> QED
    BY <1>0, <2>2, <2>3 DEF RelocationSound, Planned, UnderWay, Allowed, AtWork
<1>2. CASE CheckReadiness(o)
  <2>1. PICK f : f = [fixture[o] EXCEPT !.timer = FALSE, !.ready = TRUE]
    OBVIOUS
  <2>2. /\ fixture' = [fixture EXCEPT ![o] = f]
        /\ UNCHANGED <<plan, creating, worker, requests, generation, replays>>
    BY <1>2, <2>1 DEF CheckReadiness
  <2>3. f \in Fixtures /\ f.phase = fixture[o].phase /\ f.at = fixture[o].at
    BY <1>0, <2>1 DEF Fixtures
  <2> QED
    BY <1>0, <2>2, <2>3 DEF RelocationSound, Planned, UnderWay, Allowed, AtWork
<1>3. CASE Relocate(o)
  <2>0. fixture[o].at # None
    BY <1>0
  <2>1. PICK m \in Processes : fixture' = [fixture EXCEPT ![o].at = m, ![o].phase = "new", ![o].ready = FALSE]
    BY <1>3 DEF Relocate
  <2>2. PICK f : f = [fixture[o] EXCEPT !.at = m, !.phase = "new", !.ready = FALSE]
    OBVIOUS
  <2>3. f \in Fixtures /\ f.phase = "new" /\ f.at # None /\ fixture' = [fixture EXCEPT ![o] = f]
    BY <1>0, <2>1, <2>2, RelocationAssumption DEF Fixtures
  <2> QED
    BY <1>3, <2>0, <2>3, FixtureMoves DEF Relocate
<1> QED
  BY <1>1, <1>2, <1>3

LEMMA WorkerSteps ==
  ASSUME RInv, NEW n \in Processes, WorkerStep(n) \/ GivesUp(n)
  PROVE  RInv'
<1> USE DEF RInv, RelocationTypes
<1>1. ASSUME NEW o \in Orders, Claim(n, o) PROVE RInv'
  <2>1. PICK p : p = [plan[o] EXCEPT !.op = "starting"]
    OBVIOUS
  <2>2. /\ p \in Plannings /\ p.op = "starting" /\ p.replayed = plan[o].replayed
        /\ p.source = plan[o].source
    BY <2>1 DEF Plannings
  <2>3. /\ plan' = [plan EXCEPT ![o] = p] /\ plan[o].op = "requested"
        /\ worker' = [worker EXCEPT ![n] = [pc |-> "starting", order |-> o]]
        /\ UNCHANGED <<creating, fixture, requests, generation, replays>>
    BY <1>1, <2>1 DEF Claim, Goes
  <2>4. worker' \in [Processes -> Workers]
    BY <2>3 DEF Workers
  <2> QED
    BY <2>2, <2>3, <2>4 DEF RelocationSound, Planned, UnderWay, Allowed, AtWork
<1>2. ASSUME Signal(n) PROVE RInv'
  <2>0. PICK o : o = worker[n].order
    OBVIOUS
  <2>1. PICK p : p = [plan[o] EXCEPT !.op = "ready-for-defer"]
    OBVIOUS
  <2>2. o \in Orders /\ Planned(o)
    BY <1>2, <2>0 DEF Signal, AtWork
  <2>3. /\ p \in Plannings /\ p.op = "ready-for-defer" /\ p.replayed = plan[o].replayed
        /\ p.source = plan[o].source
    BY <2>1, <2>2 DEF Plannings
  <2>4. /\ plan' = [plan EXCEPT ![o] = p]
        /\ worker' = [worker EXCEPT ![n] = [pc |-> "relocating", order |-> o]]
        /\ UNCHANGED <<creating, fixture, requests, generation, replays>>
    BY <1>2, <2>0, <2>1 DEF Signal, Goes
  <2>5. worker' \in [Processes -> Workers]
    BY <2>2, <2>4 DEF Workers
  <2> QED
    BY <2>2, <2>3, <2>4, <2>5 DEF RelocationSound, Planned, UnderWay, Allowed, AtWork
<1>3. ASSUME Ends(n) \/ GivesUp(n) PROVE RInv'
  <2>1. /\ worker' = [worker EXCEPT ![n] = [pc |-> "ended", order |-> worker[n].order]]
        /\ UNCHANGED <<plan, creating, fixture, requests, generation, replays>>
    BY <1>3 DEF Ends, GivesUp, Goes
  <2>2. worker' \in [Processes -> Workers]
    BY <2>1 DEF Workers
  <2> QED
    BY <2>1, <2>2 DEF RelocationSound, Planned, UnderWay, Allowed, AtWork
<1> QED
  BY <1>1, <1>2, <1>3 DEF WorkerStep

LEMMA FaultSteps ==
  ASSUME RInv, NEW o \in Orders, InitializedAgain(o) \/ FixtureLost(o)
  PROVE  RInv'
<1> USE DEF RInv, RelocationTypes
<1>1. CASE InitializedAgain(o)
  <2>1. PICK m \in Processes : fixture' = [fixture EXCEPT ![o].at = m, ![o].phase = "new", ![o].timer = FALSE]
    BY <1>1 DEF InitializedAgain
  <2>2. PICK f : f = [fixture[o] EXCEPT !.at = m, !.phase = "new", !.timer = FALSE]
    OBVIOUS
  <2>3. f \in Fixtures /\ f.phase = "new" /\ f.at # None /\ fixture' = [fixture EXCEPT ![o] = f]
    BY <2>1, <2>2, RelocationAssumption DEF Fixtures
  <2> QED
    BY <1>1, <2>3, FixtureMoves DEF InitializedAgain
<1>2. CASE FixtureLost(o)
  <2>1. /\ fixture' = [fixture EXCEPT ![o] = NoFixture]
        /\ worker' = [worker EXCEPT ![fixture[o].at] = Looking]
        /\ UNCHANGED <<plan, creating, requests, generation, replays>>
    BY <1>2 DEF FixtureLost
  <2>2. NoFixture \in Fixtures /\ NoFixture.phase = "none" /\ NoFixture.at = None /\ Looking \in Workers
    BY DEF NoFixture, Fixtures, Looking, Workers
  <2>3. RelocationTypes'
    BY <2>1, <2>2
  <2>4. \A q \in Orders : RelocationSound(q)'
    BY <2>1, <2>2 DEF RelocationSound, Planned, UnderWay, Allowed
  <2>5. \A n \in Processes : AtWork(n)'
    BY <2>1 DEF AtWork, Planned, Looking
  <2> QED
    BY <2>3, <2>4, <2>5
<1> QED
  BY <1>1, <1>2

LEMMA RelocationNextInv == RInv /\ [RelocationNext]_<<vars, relocationVars, due>> => RInv'
<1> SUFFICES ASSUME RInv, [RelocationNext]_<<vars, relocationVars, due>> PROVE RInv'
  OBVIOUS
<1>1. ASSUME UNCHANGED <<plan, creating, fixture, worker, requests, generation, replays>> PROVE RInv'
  BY <1>1 DEF RInv, RelocationTypes, RelocationSound, Planned, UnderWay, Allowed, AtWork
<1>2. CASE OnlyOrders \/ UNCHANGED <<vars, relocationVars, due>>
  BY <1>1, <1>2 DEF OnlyOrders, relocationVars
<1>3. ASSUME NEW o \in Orders, Plans(o) \/ RelocationStep(o) PROVE RInv'
  BY <1>3, RequestSteps, InitializeStep, FixtureSteps DEF RelocationStep
<1>4. ASSUME NEW n \in Processes, WorkerStep(n) PROVE RInv'
  BY <1>4, WorkerSteps
<1>5. CASE RelocationFault
  BY <1>5, WorkerSteps, FaultSteps DEF RelocationFault
<1> QED
  BY <1>2, <1>3, <1>4, <1>5 DEF RelocationNext

\* A relocation that was asked for once replays the order at most once and
\* never on the process it was to leave, whatever is created, initialized
\* again or lost (planned_relocation_fixture_spot_t::on_initialize).
THEOREM RelocationReplaysOnce == RelocationSpec => []ReplayedOnce
<1>1. RInv => ReplayedOnce
  <2> SUFFICES ASSUME RInv, NEW o \in Orders
               PROVE  /\ replays[o] <= requests[o]
                      /\ fixture[o].phase = "replay" /\ requests[o] = 1
                           => fixture[o].at # plan[o].source
    BY DEF ReplayedOnce
  <2>1. RelocationSound(o) /\ replays[o] \in Nat /\ requests[o] \in Nat
    BY DEF RInv, RelocationTypes
  <2> QED
    BY <2>1 DEF RelocationSound, UnderWay, Allowed
<1> QED
  BY <1>1, RelocationInitInv, RelocationNextInv, PTL DEF RelocationSpec

-----------------------------------------------------------------------------
(* A replay runs the workflow on the saved document, as an owner would.       *)

LEMMA AdvancedSound ==
  ASSUME NEW d, SoundDoc(d), NEW o \in Orders, NEW cmd \in Commands
  PROVE  SoundDoc(Advanced(d, o, cmd)) /\ Follow(d, Advanced(d, o, cmd))
<1>1. CASE Stops(d, o)
  BY <1>1, FollowSelf DEF Advanced, SoundDoc
<1>2. CASE ~Stops(d, o)
  <2>1. PICK e, f : e = NextStep(d, o, cmd) /\ f = SaveProjection(e, o)
    OBVIOUS
  <2>2. Advanced(d, o, cmd) = f
    BY <1>2, <2>1 DEF Advanced
  <2>3. SoundDoc(f) /\ e \in Docs /\ Follow(d, e)
    BY <1>2, <2>1, StepSound, StepFollows DEF Stops
  <2>4. Follow(d, f)
    BY <2>1, <2>3, SaveFollows DEF Follow
  <2> QED
    BY <2>2, <2>3, <2>4
<1> QED
  BY <1>1, <1>2

LEMMA AdvancedTwice ==
  ASSUME NEW d, SoundDoc(d), NEW o \in Orders, NEW cmd \in Commands,
         NEW e, SoundDoc(e), Follow(d, e)
  PROVE  SoundDoc(Advanced(e, o, cmd)) /\ Follow(d, Advanced(e, o, cmd))
BY AdvancedSound, FollowTwice DEF SoundDoc

\* What run_workflow leaves: a sound document that follows the one it took.
LEMMA RanSound ==
  ASSUME NEW d, SoundDoc(d), NEW o \in Orders, NEW cmd \in Commands
  PROVE  SoundDoc(Ran(d, o, cmd)) /\ Follow(d, Ran(d, o, cmd))
<1>1. PICK next : next = [e \in Docs |-> Advanced(e, o, cmd)]
  OBVIOUS
<1>2. ASSUME NEW e, SoundDoc(e), Follow(d, e)
      PROVE  SoundDoc(next[e]) /\ Follow(d, next[e])
  <2>1. next[e] = Advanced(e, o, cmd)
    BY <1>1, <1>2 DEF SoundDoc
  <2> QED
    BY <1>2, <2>1, AdvancedTwice
<1>3. SoundDoc(d) /\ Follow(d, d)
  BY FollowSelf DEF SoundDoc
<1>4. PICK f : f = next[next[next[next[d]]]]
  OBVIOUS
<1>5. SoundDoc(f) /\ Follow(d, f)
  BY <1>2, <1>3, <1>4
<1>6. PICK e : e = IF AlreadyApplied(d, o, cmd) THEN d ELSE f
  OBVIOUS
<1>7. Ran(d, o, cmd) = SaveProjection(e, o)
  BY <1>1, <1>4, <1>6 DEF Ran
<1>8. SoundDoc(e) /\ Follow(d, e)
  BY <1>3, <1>5, <1>6
<1>9. SoundDoc(SaveProjection(e, o))
  BY <1>8, SaveSound DEF SoundDoc, ReadModelFreshIn
<1>10. Follow(d, SaveProjection(e, o))
  BY <1>8, SaveFollows DEF SoundDoc, Follow
<1> QED
  BY <1>7, <1>9, <1>10

\* A replay, with no owner at work.
LEMMA ReplayKeeps ==
  ASSUME IInv, DraftFollows, NEW o \in Orders, Replay(o)
  PROVE  IInv' /\ DraftFollows' /\ SavedKept
<1>1. PICK d : d = Ran(doc, o, RelocationCommand)
  OBVIOUS
<1>2. SoundDoc(d) /\ Follow(doc, d)
  BY <1>1, RanSound DEF IInv, RelocationCommand, Commands
<1>3. /\ lock = Free /\ doc' = d
      /\ UNCHANGED <<lock, draft, spot, calls, msgs>>
  BY <1>1 DEF Replay
<1>4. TypeOK' /\ StartsKnown'
  BY <1>2, <1>3 DEF IInv, TypeOK, StartsKnown, SoundDoc
<1>5. IInv'
  BY <1>2, <1>3, <1>4 DEF IInv
<1>6. DraftFollows'
  BY <1>3, WorkflowAssumption DEF DraftFollows
<1>7. SavedKept
  BY <1>2, <1>3 DEF SavedKept, SavedPrefix, Follow, Extends
<1> QED
  BY <1>5, <1>6, <1>7

\* Replayed steps sell nothing twice: a relocation never starts an order.
LEMMA AdvancedSale ==
  ASSUME NEW d, SoundDoc(d), SaleSound(d), NEW o \in Orders, NEW cmd \in Commands,
         cmd.kind # "start"
  PROVE  SaleSound(Advanced(d, o, cmd)) /\ Advanced(d, o, cmd).idem = d.idem
<1>1. CASE Stops(d, o)
  BY <1>1 DEF Advanced
<1>2. CASE ~Stops(d, o)
  <2>1. d.events[o] # <<>> /\ ~Terminal(Status(d.events[o]))
    BY <1>2 DEF Stops
  <2>2. PICK e : e = SaveProjection(NextStep(d, o, cmd), o)
    OBVIOUS
  <2>3. SaleSound(e) /\ e.idem = d.idem
    BY <2>1, <2>2, StepSale
  <2>4. Advanced(d, o, cmd) = e
    BY <1>2, <2>2 DEF Advanced
  <2> QED
    BY <2>3, <2>4
<1> QED
  BY <1>1, <1>2

LEMMA RanSale ==
  ASSUME NEW d, SoundDoc(d), SaleSound(d), NEW o \in Orders, NEW cmd \in Commands,
         cmd.kind # "start"
  PROVE  SaleSound(Ran(d, o, cmd)) /\ Ran(d, o, cmd).idem = d.idem
<1>1. PICK next : next = [e \in Docs |-> Advanced(e, o, cmd)]
  OBVIOUS
<1>2. ASSUME NEW e, SoundDoc(e), SaleSound(e), e.idem = d.idem
      PROVE  SoundDoc(next[e]) /\ SaleSound(next[e]) /\ next[e].idem = d.idem
  <2>1. next[e] = Advanced(e, o, cmd)
    BY <1>1, <1>2 DEF SoundDoc
  <2> QED
    BY <1>2, <2>1, AdvancedSound, AdvancedSale
<1>3. PICK f : f = next[next[next[next[d]]]]
  OBVIOUS
<1>4. SoundDoc(f) /\ SaleSound(f) /\ f.idem = d.idem
  BY <1>2, <1>3
<1>5. PICK e : e = IF AlreadyApplied(d, o, cmd) THEN d ELSE f
  OBVIOUS
<1>6. Ran(d, o, cmd) = SaveProjection(e, o)
  BY <1>1, <1>3, <1>5 DEF Ran
<1>7. SoundDoc(e) /\ SaleSound(e) /\ e.idem = d.idem
  BY <1>4, <1>5
<1>8. PICK r : r = SaveProjection(e, o)
  OBVIOUS
<1>9. SoundDoc(r)
  BY <1>7, <1>8, SaveSound DEF SoundDoc, ReadModelFreshIn
<1>10. /\ r.events = e.events /\ r.idem = e.idem /\ r.next = e.next
       /\ r.inventory = e.inventory /\ r.reservations = e.reservations
       /\ r.released = e.released
  BY <1>7, <1>8 DEF SaveProjection, SoundDoc, Docs
<1> QED
  BY <1>6, <1>7, <1>8, <1>9, <1>10, SaveSale DEF SoundDoc

LEMMA ReplaySale ==
  ASSUME IInv, DraftFollows, KInv, NEW o \in Orders, Replay(o)
  PROVE  KInv'
<1>1. PICK d : d = Ran(doc, o, RelocationCommand)
  OBVIOUS
<1>2. SaleSound(d) /\ d.idem = doc.idem
  <2>1. SoundDoc(doc) /\ SaleSound(doc)
    BY DEF IInv, KInv
  <2>2. RelocationCommand \in Commands /\ RelocationCommand.kind # "start"
    BY DEF RelocationCommand, Commands
  <2> QED
    BY <1>1, <2>1, <2>2, RanSale
<1>3. lock = Free /\ doc' = d /\ UNCHANGED <<lock, draft, spot, calls, msgs>>
  BY <1>1 DEF Replay
<1>4. \A cmd : \A q : Keyed(doc, cmd, q) <=> Keyed(d, cmd, q)
  BY <1>2 DEF Keyed
<1>5. StartsKeyed'
  BY <1>3, <1>4 DEF KInv, StartsKeyed, JobKeyed, CallKeyed
<1>6. \A q \in Orders : DraftKeyed(q)'
  BY <1>2, <1>3, WorkflowAssumption DEF KInv, DraftKeyed
<1> QED
  BY <1>2, <1>3, <1>5, <1>6 DEF KInv

LEMMA RelocationKeeps ==
  IInv /\ DraftFollows /\ KInv /\ [RelocationNext]_<<vars, relocationVars, due>>
    => IInv' /\ DraftFollows' /\ KInv' /\ [SavedKept]_doc
<1> SUFFICES ASSUME IInv, DraftFollows, KInv, [RelocationNext]_<<vars, relocationVars, due>>
             PROVE  IInv' /\ DraftFollows' /\ KInv' /\ [SavedKept]_doc
  OBVIOUS
<1>1. ASSUME [Next]_vars PROVE IInv' /\ DraftFollows' /\ KInv' /\ [SavedKept]_doc
  BY <1>1, NextKeeps, NextFollows, NextSale
<1>2. CASE Normal \/ UNCHANGED vars
  BY <1>1, <1>2 DEF Next
<1>3. ASSUME NEW o \in Orders, Plans(o) \/ RelocationStep(o)
      PROVE  UNCHANGED vars \/ Replay(o)
  BY <1>3 DEF Plans, RelocationStep, CreateFixture, Initialize, CheckReadiness, Relocate
<1>4. ASSUME NEW n \in Processes, WorkerStep(n) PROVE UNCHANGED vars
  BY <1>4 DEF WorkerStep, Claim, Signal, Ends
<1>5. CASE RelocationFault
  BY <1>2, <1>5 DEF RelocationFault, GivesUp, InitializedAgain, FixtureLost
<1> QED
  BY <1>2, <1>3, <1>4, <1>5, ReplayKeeps, ReplaySale DEF RelocationNext

\* Planned relocation disturbs nothing the order workflow promises: replayed
\* on another process, whenever and however often, a stream stays a legal run
\* of the saga, with the effects it records and a true read model, what was
\* saved stays, no order whose hook is set is charged, and the requests of
\* one key are one sale (planned_relocation_fixture_spot_t::on_initialize,
\* run_workflow).
THEOREM RelocationKeepsOrders ==
  RelocationSpec =>
    /\ [](TypeOK /\ StreamsLegal /\ EffectsMatchStream /\ ReadModelFresh /\ OneSalePerKey)
    /\ SavedStays
<1>1. RelocationInit => IInv /\ DraftFollows /\ KInv
  BY InitIInv, InitSale DEF RelocationInit, Init, DraftFollows, Closed
<1>2. IInv => TypeOK /\ StreamsLegal /\ EffectsMatchStream /\ ReadModelFresh
  BY DEF IInv, SoundDoc, StreamsLegal, EffectsMatchStream, ReadModelFresh
<1>3. SavedStays <=> [][SavedKept]_doc
  BY PTL DEF SavedStays, SavedKept
<1>4. RelocationSpec => [](IInv /\ DraftFollows /\ KInv)
  BY <1>1, RelocationKeeps, PTL DEF RelocationSpec
<1>5. RelocationSpec => [][SavedKept]_doc
  BY <1>4, RelocationKeeps, PTL DEF RelocationSpec
<1> QED
  BY <1>2, <1>3, <1>4, <1>5, KInvIsOneSale, PTL

-----------------------------------------------------------------------------
(* The workflow implements OrderSaga.  The owner's draft is the saved        *)
(* document with its order carried along one course; its commit therefore is *)
(* one step of the saga, whatever number of events it saves, and every other *)
(* step is one of a hook or none.                                            *)

Courses == {Saga!Sold, Saga!Refused, Saga!NoStock}

OnCourse(s, c) == Len(s) <= Len(c) /\ \A i \in 1..Len(s) : s[i].type = c[i]

\* Course c agrees with the payment method of the order with stream s.
Charges(s, c) == c # Saga!NoStock => (c = Saga!Sold <=> Authorizes[s[1].method])

\* Every started order is on a course.
Coursed(d) ==
  \A o \in Orders :
    d.events[o] # <<>> => \E c \in Courses : OnCourse(d.events[o], c) /\ Charges(d.events[o], c)

\* The units of s that n events of course c hold for a cart.
Taken(cart, c, n, s) ==
  IF c # Saga!NoStock /\ n >= 2 /\ ~(c = Saga!Refused /\ n >= 4) THEN Lines[cart][s] ELSE 0

OpenTo(d, o, c) ==
  /\ OnCourse(d.events[o], c) /\ Charges(d.events[o], c)
  /\ Len(d.events[o]) = 1 => (c # Saga!NoStock <=> Available(d, d.events[o][1].cart))

\* Document e is document d, but for order o.
OnlyOrder(d, e, o) == e.stopAt = d.stopAt /\ \A q \in Orders \ {o} : e.events[q] = d.events[q]

\* In document e order o is further on course c than in document d.
Further(d, e, o, c) ==
  LET i == Len(d.events[o])
      j == Len(e.events[o])
  IN  /\ 0 < i /\ i < j /\ e.events[o][1] = d.events[o][1]
      /\ OpenTo(d, o, c) /\ OnCourse(e.events[o], c)
      /\ o \in d.stopAt /\ i <= 2 /\ c # Saga!NoStock => j <= 2
      /\ \A s \in Skus :
           e.inventory[s] = d.inventory[s] + Taken(d.events[o][1].cart, c, i, s)
                                           - Taken(d.events[o][1].cart, c, j, s)

\* Document e is document d with order o where it was, placed, or further.
Carried(d, e, o) ==
  /\ OnlyOrder(d, e, o)
  /\ \/ e.events[o] = d.events[o] /\ e.inventory = d.inventory
     \/ d.events[o] = <<>> /\ Len(e.events[o]) = 1 /\ e.inventory = d.inventory
     \/ \E c \in Courses : Further(d, e, o, c)

LEMMA CourseEvents ==
  /\ Saga!Sold # Saga!Refused /\ Saga!Sold # Saga!NoStock /\ Saga!Refused # Saga!NoStock
  /\ Len(Saga!Sold) = 4 /\ Len(Saga!Refused) = 5 /\ Len(Saga!NoStock) = 3
  /\ Saga!Sold[1] = "OrderStarted" /\ Saga!Refused[1] = "OrderStarted"
  /\ Saga!NoStock[1] = "OrderStarted"
  /\ Saga!Sold[2] = "InventoryReserved" /\ Saga!Refused[2] = "InventoryReserved"
  /\ Saga!NoStock[2] = "InventoryReservationFailed"
  /\ Saga!Sold[3] = "PaymentAuthorized" /\ Saga!Refused[3] = "PaymentFailed"
  /\ Saga!NoStock[3] = "OrderFailed"
  /\ Saga!Sold[4] = "OrderConfirmed" /\ Saga!Refused[4] = "InventoryReleased"
  /\ Saga!Refused[5] = "OrderFailed"
<1>1. /\ Len(Saga!Sold) = 4 /\ Len(Saga!Refused) = 5 /\ Len(Saga!NoStock) = 3
  BY DEF Saga!Sold, Saga!Refused, Saga!NoStock
<1> QED
  BY <1>1 DEF Saga!Sold, Saga!Refused, Saga!NoStock

\* Two courses of one stream have taken the same for it.
LEMMA SameCourse ==
  ASSUME NEW s, Len(s) \in Nat, NEW b \in Courses, NEW c \in Courses,
         OnCourse(s, b), OnCourse(s, c)
  PROVE  /\ Len(s) >= 2 => (b = Saga!NoStock <=> c = Saga!NoStock)
         /\ \A n \in 1..Len(s) : \A cart, k : Taken(cart, b, n, k) = Taken(cart, c, n, k)
<1>1. Len(s) >= 2 => (b = Saga!NoStock <=> c = Saga!NoStock)
  BY CourseEvents DEF Courses, OnCourse
<1>2. Len(s) >= 3 => b = c
  BY CourseEvents DEF Courses, OnCourse
<1>3. ASSUME NEW n \in 1..Len(s), NEW cart, NEW k
      PROVE  Taken(cart, b, n, k) = Taken(cart, c, n, k)
  <2>1. CASE n = 1
    BY <2>1 DEF Taken
  <2>2. CASE n = 2
    BY <1>1, <2>2 DEF Taken
  <2>3. CASE n >= 3
    BY <1>2, <2>3
  <2> QED
    BY <2>1, <2>2, <2>3
<1> QED
  BY <1>1, <1>3

LEMMA TakenType ==
  ASSUME NEW cart \in Carts, NEW c, NEW n, NEW s \in Skus
  PROVE  Taken(cart, c, n, s) \in Int
<1>1. Lines[cart][s] \in Nat
  BY StreamAssumption
<1> QED
  BY <1>1 DEF Taken

\* A carried order goes one way.
LEMMA CarriedFurther ==
  ASSUME NEW d, NEW e, NEW f, SoundDoc(d), SoundDoc(e), SoundDoc(f), NEW o \in Orders,
         NEW c \in Courses, Carried(d, e, o), OnlyOrder(e, f, o), Further(e, f, o, c),
         d.events[o] # <<>>
  PROVE  Carried(d, f, o)
<1> DEFINE i == Len(d.events[o])
           j == Len(e.events[o])
           n == Len(f.events[o])
           cart == d.events[o][1].cart
<1>1. /\ i \in Nat /\ j \in Nat /\ n \in Nat /\ i > 0 /\ cart \in Carts
      /\ d.inventory \in [Skus -> Int] /\ e.inventory \in [Skus -> Int]
      /\ f.inventory \in [Skus -> Int]
  <2>1. d.events[o] \in Seq(Events) /\ e.events[o] \in Seq(Events) /\ f.events[o] \in Seq(Events)
    BY DEF SoundDoc, Docs
  <2>2. i # 0
    BY <2>1
  <2> QED
    BY <2>1, <2>2 DEF SoundDoc, Docs, RequestKnown
<1>2. OnlyOrder(d, f, o)
  BY DEF Carried, OnlyOrder
<1>3. /\ 0 < j /\ j < n /\ f.events[o][1] = e.events[o][1]
      /\ OpenTo(e, o, c) /\ OnCourse(f.events[o], c)
      /\ o \in e.stopAt /\ j <= 2 /\ c # Saga!NoStock => n <= 2
      /\ \A s \in Skus :
           f.inventory[s] = e.inventory[s] + Taken(e.events[o][1].cart, c, j, s)
                                           - Taken(e.events[o][1].cart, c, n, s)
  BY DEF Further
<1>4. CASE e.events[o] = d.events[o] /\ e.inventory = d.inventory
  <2>1. Further(d, f, o, c)
    BY <1>3, <1>4 DEF Further, OpenTo, Available, Carried, OnlyOrder
  <2> QED
    BY <1>2, <2>1 DEF Carried
<1>5. ASSUME NEW b \in Courses, Further(d, e, o, b)
      PROVE  Carried(d, f, o)
  <2>1. /\ i < j /\ e.events[o][1] = d.events[o][1]
        /\ OpenTo(d, o, b) /\ OnCourse(e.events[o], b)
        /\ o \in d.stopAt /\ i <= 2 /\ b # Saga!NoStock => j <= 2
        /\ \A s \in Skus :
             e.inventory[s] = d.inventory[s] + Taken(cart, b, i, s) - Taken(cart, b, j, s)
    BY <1>5 DEF Further
  <2>2. OnCourse(e.events[o], c) /\ e.stopAt = d.stopAt
    BY <1>3 DEF OpenTo, Carried, OnlyOrder
  <2>3. (b = Saga!NoStock <=> c = Saga!NoStock)
        /\ \A s : /\ Taken(cart, b, i, s) = Taken(cart, c, i, s)
                  /\ Taken(cart, b, j, s) = Taken(cart, c, j, s)
    <3>1. PICK t : t = e.events[o]
      OBVIOUS
    <3>2. Len(t) = j /\ Len(t) \in Nat /\ OnCourse(t, b) /\ OnCourse(t, c)
      BY <1>1, <2>1, <2>2, <3>1
    <3>3. /\ Len(t) >= 2 => (b = Saga!NoStock <=> c = Saga!NoStock)
          /\ \A m \in 1..Len(t) : \A a, k : Taken(a, b, m, k) = Taken(a, c, m, k)
      BY <3>2, SameCourse
    <3>4. j >= 2 /\ i \in 1..j /\ j \in 1..j
      BY <1>1, <2>1
    <3> QED
      BY <3>2, <3>3, <3>4
  <2>4. OpenTo(d, o, c)
    <3>1. OnCourse(d.events[o], c)
      <4>1. \A m \in 1..i : d.events[o][m].type = b[m] /\ e.events[o][m].type = b[m]
        BY <1>1, <2>1 DEF OpenTo, OnCourse
      <4>2. j <= Len(c) /\ \A m \in 1..i : e.events[o][m].type = c[m]
        BY <1>1, <2>1, <2>2 DEF OnCourse
      <4>3. Len(c) \in Nat
        BY CourseEvents DEF Courses
      <4> QED
        BY <1>1, <2>1, <4>1, <4>2, <4>3 DEF OnCourse
    <3>2. Charges(d.events[o], c)
      BY <1>3, <2>1 DEF OpenTo, Charges
    <3> QED
      BY <2>1, <2>3, <3>1, <3>2 DEF OpenTo
  <2>5. o \in d.stopAt /\ i <= 2 /\ c # Saga!NoStock => n <= 2
    BY <1>1, <1>3, <2>1, <2>2, <2>3
  <2>6. ASSUME NEW s \in Skus
        PROVE  f.inventory[s] = d.inventory[s] + Taken(cart, c, i, s) - Taken(cart, c, n, s)
    <3>1. PICK x, y, z, u, v, w :
            /\ x = Taken(cart, c, i, s) /\ y = Taken(cart, c, j, s) /\ z = Taken(cart, c, n, s)
            /\ u = d.inventory[s] /\ v = e.inventory[s] /\ w = f.inventory[s]
      OBVIOUS
    <3>2. x \in Int /\ y \in Int /\ z \in Int /\ u \in Int /\ v \in Int /\ w \in Int
      BY <1>1, <3>1, TakenType
    <3>3. v = u + x - y
      BY <2>1, <2>3, <3>1
    <3>4. w = v + y - z
      BY <1>3, <2>1, <3>1
    <3>5. w = u + x - z
      BY <3>2, <3>3, <3>4
    <3> QED
      BY <3>1, <3>5
  <2>7. 0 < i /\ i < n /\ f.events[o][1] = d.events[o][1]
    BY <1>1, <1>3, <2>1
  <2>8. Further(d, f, o, c)
    BY <1>3, <2>4, <2>5, <2>6, <2>7 DEF Further
  <2> QED
    BY <1>2, <2>8 DEF Carried
<1> QED
  BY <1>4, <1>5 DEF Carried

\* Carried along, every order stays on a course.
LEMMA CarriedCoursed ==
  ASSUME NEW d, NEW e, SoundDoc(d), SoundDoc(e), NEW o \in Orders, Coursed(d), Carried(d, e, o)
  PROVE  Coursed(e)
<1> SUFFICES ASSUME NEW q \in Orders, e.events[q] # <<>>
             PROVE  \E c \in Courses : OnCourse(e.events[q], c) /\ Charges(e.events[q], c)
  BY DEF Coursed
<1>1. CASE e.events[q] = d.events[q]
  BY <1>1 DEF Coursed
<1>2. CASE q = o /\ Len(e.events[o]) = 1
  <2>1. PICK c \in {Saga!Sold, Saga!Refused} : c = Saga!Sold <=> Authorizes[e.events[o][1].method]
    BY CourseEvents
  <2>2. e.events[o][1].type = "OrderStarted"
    BY <1>2 DEF SoundDoc, StreamsLegalIn, LegalStream
  <2>3. OnCourse(e.events[o], c)
    BY <1>2, <2>2, CourseEvents DEF OnCourse
  <2>4. Charges(e.events[o], c) /\ c \in Courses
    BY <2>1, CourseEvents DEF Charges, Courses
  <2> QED
    BY <1>2, <2>3, <2>4
<1>3. ASSUME q = o, NEW c \in Courses, Further(d, e, o, c)
      PROVE  OnCourse(e.events[q], c) /\ Charges(e.events[q], c)
  BY <1>3 DEF Further, OpenTo, Charges
<1> QED
  BY <1>1, <1>2, <1>3 DEF Carried, OnlyOrder

\* A recorded event takes its order further.
LEMMA RecordFurther ==
  ASSUME NEW d \in Docs, NEW b \in Docs, NEW o \in Orders, NEW cmd \in Commands,
         NEW t \in EventTypes, NEW c \in Courses, d.events[o] # <<>>,
         b.events = d.events, b.stopAt = d.stopAt, OpenTo(d, o, c),
         LET i == Len(d.events[o])
             cart == d.events[o][1].cart
         IN  /\ i < Len(c) /\ c[i + 1] = t
             /\ o \in d.stopAt /\ i = 2 => c = Saga!NoStock
             /\ \A s \in Skus :
                  b.inventory[s] = d.inventory[s] + Taken(cart, c, i, s) - Taken(cart, c, i + 1, s)
  PROVE  LET e == SaveProjection(Record(b, o, t, cmd), o)
         IN  OnlyOrder(d, e, o) /\ Further(d, e, o, c)
<1> DEFINE i == Len(d.events[o])
           ev == Event(t, cmd)
           f == AppendEvent(b, o, ev)
           e == SaveProjection(f, o)
           s == d.events[o]
<1> SUFFICES OnlyOrder(d, e, o) /\ Further(d, e, o, c)
  BY DEF Record
<1>1. ev \in Events /\ ev.type = t
  BY NewEvent
<1> HIDE DEF ev
<1>2. Appended(b, f, o, ev) /\ f.stopAt = b.stopAt /\ f.inventory = b.inventory
  BY <1>1, AppendEventFields DEF AppendEvent, Docs
<1> HIDE DEF f
<1>3. e.events = f.events /\ e.stopAt = f.stopAt /\ e.inventory = f.inventory
  BY <1>2 DEF Appended, SaveProjection, Docs
<1> HIDE DEF e
<1>4. d.events \in [Orders -> Seq(Events)] /\ s \in Seq(Events)
  BY DEF Docs
<1>5. /\ e.events[o] = Append(s, ev)
      /\ \A q \in Orders \ {o} : e.events[q] = d.events[q]
  BY <1>2, <1>3, <1>4 DEF Appended
<1>6. /\ i \in Nat /\ i > 0 /\ Len(e.events[o]) = i + 1 /\ e.events[o][i + 1] = ev
      /\ \A m \in 1..i : e.events[o][m] = s[m]
  <2>1. i # 0
    BY <1>4
  <2> QED
    BY <1>4, <1>5, <2>1
<1>7. e.events[o][1] = s[1]
  BY <1>6
<1>8. OnCourse(e.events[o], c)
  <2>1. Len(c) \in Nat
    BY CourseEvents DEF Courses
  <2>2. ASSUME NEW m \in 1..i + 1 PROVE e.events[o][m].type = c[m]
    <3>1. CASE m = i + 1
      BY <1>1, <1>6, <3>1
    <3>2. CASE m # i + 1
      <4>1. m \in 1..i
        BY <1>6, <3>2
      <4> QED
        BY <1>6, <4>1 DEF OpenTo, OnCourse
    <3> QED
      BY <3>1, <3>2
  <2> QED
    BY <1>6, <2>1, <2>2 DEF OnCourse
<1>9. o \in d.stopAt /\ i <= 2 /\ c # Saga!NoStock => i + 1 <= 2
  <2>1. PICK n : n = i
    OBVIOUS
  <2>2. o \in d.stopAt /\ n = 2 => c = Saga!NoStock
    BY <2>1
  <2>3. n \in Nat /\ n > 0
    BY <1>6, <2>1
  <2>4. o \in d.stopAt /\ n <= 2 /\ c # Saga!NoStock => n + 1 <= 2
    BY <2>2, <2>3
  <2> QED
    BY <2>1, <2>4
<1> QED
  BY <1>2, <1>3, <1>5, <1>6, <1>7, <1>8, <1>9 DEF OnlyOrder, Further

\* On its course a running order is where its status says.
LEMMA CourseOfStatus ==
  ASSUME NEW s \in Seq(Events), s # <<>>, NEW c \in Courses, OnCourse(s, c)
  PROVE  /\ Last(s).type = "OrderStarted" => Len(s) = 1
         /\ Last(s).type = "InventoryReserved" => Len(s) = 2 /\ c # Saga!NoStock
         /\ Last(s).type = "InventoryReservationFailed" => Len(s) = 2 /\ c = Saga!NoStock
         /\ Last(s).type = "PaymentAuthorized" => Len(s) = 3 /\ c = Saga!Sold
         /\ Last(s).type = "PaymentFailed" => Len(s) = 3 /\ c = Saga!Refused
         /\ Last(s).type = "InventoryReleased" => Len(s) = 4 /\ c = Saga!Refused
<1>1. PICK n, t : n = Len(s) /\ t = Last(s).type
  OBVIOUS
<1>2. n \in Nat /\ n # 0 /\ t = c[n] /\ n <= Len(c)
  <2>1. Len(s) \in Nat /\ Len(s) # 0
    OBVIOUS
  <2> QED
    BY <1>1, <2>1 DEF OnCourse, Last
<1>3. CASE c = Saga!Sold
  <2>1. n = 1 \/ n = 2 \/ n = 3 \/ n = 4
    BY <1>2, <1>3, CourseEvents
  <2> QED
    BY <1>1, <1>2, <1>3, <2>1, CourseEvents
<1>4. CASE c = Saga!Refused
  <2>1. n = 1 \/ n = 2 \/ n = 3 \/ n = 4 \/ n = 5
    BY <1>2, <1>4, CourseEvents
  <2> QED
    BY <1>1, <1>2, <1>4, <2>1, CourseEvents
<1>5. CASE c = Saga!NoStock
  <2>1. n = 1 \/ n = 2 \/ n = 3
    BY <1>2, <1>5, CourseEvents
  <2> QED
    BY <1>1, <1>2, <1>5, <2>1, CourseEvents
<1> QED
  BY <1>3, <1>4, <1>5 DEF Courses

\* advance_once takes a running order one event further.
LEMMA StepFurther ==
  ASSUME NEW d, SoundDoc(d), Coursed(d), NEW o \in Orders, NEW cmd \in Commands,
         d.events[o] # <<>>, ~Terminal(Status(d.events[o])), ~StopHookReached(d, o)
  PROVE  LET e == SaveProjection(NextStep(d, o, cmd), o)
         IN  OnlyOrder(d, e, o) /\ \E c \in Courses : Further(d, e, o, c)
<1> DEFINE s == d.events[o]
           i == Len(s)
           cart == s[1].cart
           m == s[1].method
           r == Reserve(d, o, cart)
           p == Authorize(d, o, m)
           g == Release(d, o, cart)
           e == SaveProjection(NextStep(d, o, cmd), o)
<1> SUFFICES OnlyOrder(d, e, o) /\ \E c \in Courses : Further(d, e, o, c)
  OBVIOUS
<1>1. /\ d \in Docs /\ s \in Seq(Events) /\ cart \in Carts /\ m \in Methods
      /\ d.inventory \in [Skus -> Int] /\ i \in Nat
  BY DEF SoundDoc, RequestKnown, Docs
<1>2. Effects(Status(s), d.reservations[o], d.payments[o], o \in d.released)
  BY DEF SoundDoc, EffectsMatchIn, EffectsMatchAt
<1>3. \/ Status(s) = "Created" /\ Last(s).type = "OrderStarted"
      \/ /\ Status(s) \in {"InventoryReserved", "PaymentAuthorized",
                           "InventoryReservationFailed", "PaymentFailed",
                           "InventoryReleased"}
         /\ Last(s).type = Status(s)
  BY <1>1, StatusNamesEvent
<1>4. PICK b \in Courses : OnCourse(s, b) /\ Charges(s, b)
  BY DEF Coursed
<1>5. /\ Last(s).type = "OrderStarted" => i = 1
      /\ Last(s).type = "InventoryReserved" => i = 2 /\ b # Saga!NoStock
      /\ Last(s).type = "InventoryReservationFailed" => i = 2 /\ b = Saga!NoStock
      /\ Last(s).type = "PaymentAuthorized" => i = 3 /\ b = Saga!Sold
      /\ Last(s).type = "PaymentFailed" => i = 3 /\ b = Saga!Refused
      /\ Last(s).type = "InventoryReleased" => i = 4 /\ b = Saga!Refused
  BY <1>1, <1>4, CourseOfStatus
<1>6. ASSUME NEW a \in Docs, NEW t \in EventTypes, NEW c \in Courses,
             a.events = d.events, a.stopAt = d.stopAt, OpenTo(d, o, c),
             i < Len(c), c[i + 1] = t, o \in d.stopAt /\ i = 2 => c = Saga!NoStock,
             \A k \in Skus :
               a.inventory[k] = d.inventory[k] + Taken(cart, c, i, k) - Taken(cart, c, i + 1, k),
             NextStep(d, o, cmd) = Record(a, o, t, cmd)
      PROVE  OnlyOrder(d, e, o) /\ \E q \in Courses : Further(d, e, o, q)
  BY <1>1, <1>6, RecordFurther
<1> HIDE DEF e
<1>7. \A k \in Skus : Lines[cart][k] \in Nat /\ d.inventory[k] \in Int
  BY <1>1, StreamAssumption
<1>8. i # 1 => OpenTo(d, o, b)
  BY <1>4 DEF OpenTo
<1>9. CASE Status(s) = "Created"
  <2> DEFINE t == IF r.reservations[o] = "accepted" THEN "InventoryReserved"
                  ELSE "InventoryReservationFailed"
  <2>1. NextStep(d, o, cmd) = Record(r, o, t, cmd)
    BY <1>9 DEF NextStep
  <2>2. d.reservations[o] = None
    BY <1>2, <1>9 DEF Effects
  <2>3. r \in Docs /\ r.events = d.events
    BY <1>1, <2>2, ReserveFields
  <2>4. /\ r.stopAt = d.stopAt
        /\ r.reservations[o] = IF Available(d, cart) THEN "accepted" ELSE "refused"
        /\ r.inventory = IF Available(d, cart) THEN [k \in Skus |-> d.inventory[k] - Lines[cart][k]]
                         ELSE d.inventory
    BY <1>1, <2>2 DEF Reserve, Docs
  <2>5. t \in EventTypes /\ t = IF Available(d, cart) THEN "InventoryReserved"
                                ELSE "InventoryReservationFailed"
    BY <2>4 DEF EventTypes
  <2> HIDE DEF r, t
  <2>6. PICK c \in Courses : /\ c # Saga!NoStock <=> Available(d, cart)
                             /\ c # Saga!NoStock => (c = Saga!Sold <=> Authorizes[m])
    <3>1. CASE Available(d, cart) /\ Authorizes[m]
      BY <3>1, CourseEvents DEF Courses
    <3>2. CASE Available(d, cart) /\ ~Authorizes[m]
      BY <3>2, CourseEvents DEF Courses
    <3>3. CASE ~Available(d, cart)
      BY <3>3, CourseEvents DEF Courses
    <3> QED
      BY <3>1, <3>2, <3>3
  <2>7. i = 1 /\ s[1].type = "OrderStarted"
    <3>1. i = 1
      BY <1>3, <1>5, <1>9
    <3>2. Last(s).type = "OrderStarted"
      BY <1>3, <1>9
    <3> QED
      BY <3>1, <3>2 DEF Last
  <2>8. OpenTo(d, o, c) /\ i < Len(c) /\ c[i + 1] = t
    <3>1. OnCourse(s, c)
      BY <2>7, CourseEvents DEF OnCourse, Courses
    <3>2. i < Len(c) /\ c[i + 1] = t
      BY <2>5, <2>6, <2>7, CourseEvents DEF Courses
    <3> QED
      BY <2>6, <3>1, <3>2 DEF OpenTo, Charges
  <2>9. ASSUME NEW k \in Skus
        PROVE  r.inventory[k] = d.inventory[k] + Taken(cart, c, i, k) - Taken(cart, c, i + 1, k)
    BY <1>1, <1>7, <2>4, <2>6, <2>7 DEF Taken
  <2> QED
    BY <1>6, <2>1, <2>3, <2>4, <2>5, <2>7, <2>8, <2>9, SMTT(30)
<1>10. CASE Status(s) = "InventoryReserved"
  <2> DEFINE t == IF p.payments[o] = "accepted" THEN "PaymentAuthorized"
                  ELSE "PaymentFailed"
  <2>1. NextStep(d, o, cmd) = Record(p, o, t, cmd)
    BY <1>10 DEF NextStep
  <2>2. d.payments[o] = None
    BY <1>2, <1>10 DEF Effects
  <2>3. p \in Docs /\ p.events = d.events
    BY <1>1, <2>2, AuthorizeFields
  <2>4. /\ p.stopAt = d.stopAt /\ p.inventory = d.inventory
        /\ p.payments[o] = IF Authorizes[m] THEN "accepted" ELSE "refused"
    BY <1>1, <2>2 DEF Authorize, Docs
  <2>5. t \in EventTypes /\ t = IF Authorizes[m] THEN "PaymentAuthorized" ELSE "PaymentFailed"
    BY <2>4 DEF EventTypes
  <2> HIDE DEF p, t
  <2>6. i = 2 /\ b # Saga!NoStock /\ (b = Saga!Sold <=> Authorizes[m]) /\ o \notin d.stopAt
    BY <1>3, <1>4, <1>5, <1>10 DEF Charges, StopHookReached
  <2>7. i < Len(b) /\ b[i + 1] = t
    BY <2>5, <2>6, CourseEvents DEF Courses
  <2>8. ASSUME NEW k \in Skus
        PROVE  p.inventory[k] = d.inventory[k] + Taken(cart, b, i, k) - Taken(cart, b, i + 1, k)
    BY <1>7, <2>4, <2>6 DEF Taken
  <2> QED
    BY <1>6, <1>8, <2>1, <2>3, <2>4, <2>5, <2>6, <2>7, <2>8
<1>11. CASE Status(s) = "PaymentFailed"
  <2> DEFINE t == "InventoryReleased"
  <2>1. NextStep(d, o, cmd) = Record(g, o, t, cmd)
    BY <1>11 DEF NextStep
  <2>2. d.reservations[o] # None /\ o \notin d.released
    BY <1>2, <1>11, StreamAssumption DEF Effects, Results
  <2>3. g \in Docs /\ g.events = d.events
    BY <1>1, <2>2, ReleaseFields
  <2>4. g.stopAt = d.stopAt /\ g.inventory = [k \in Skus |-> d.inventory[k] + Lines[cart][k]]
    BY <1>1, <2>2 DEF Release, Docs
  <2>5. t \in EventTypes
    BY DEF EventTypes
  <2> HIDE DEF g
  <2>6. i = 3 /\ b = Saga!Refused
    BY <1>3, <1>5, <1>11
  <2>7. i < Len(b) /\ b[i + 1] = t
    BY <2>6, CourseEvents
  <2>8. ASSUME NEW k \in Skus
        PROVE  g.inventory[k] = d.inventory[k] + Taken(cart, b, i, k) - Taken(cart, b, i + 1, k)
    BY <1>7, <2>4, <2>6, CourseEvents DEF Taken
  <2> HIDE DEF t
  <2> QED
    BY <1>6, <1>8, <2>1, <2>3, <2>4, <2>5, <2>6, <2>7, <2>8
<1>12. CASE Status(s) = "PaymentAuthorized"
  <2> DEFINE t == "OrderConfirmed"
  <2>1. NextStep(d, o, cmd) = Record(d, o, t, cmd) /\ t \in EventTypes
    BY <1>12 DEF NextStep, EventTypes
  <2>2. i = 3 /\ b = Saga!Sold
    BY <1>3, <1>5, <1>12
  <2>3. i < Len(b) /\ b[i + 1] = t
    BY <2>2, CourseEvents
  <2>4. ASSUME NEW k \in Skus
        PROVE  d.inventory[k] = d.inventory[k] + Taken(cart, b, i, k) - Taken(cart, b, i + 1, k)
    BY <1>7, <2>2, CourseEvents DEF Taken
  <2> HIDE DEF t
  <2> QED
    BY <1>1, <1>6, <1>8, <2>1, <2>2, <2>3, <2>4
<1>13. CASE Status(s) \in {"InventoryReservationFailed", "InventoryReleased"}
  <2> DEFINE t == "OrderFailed"
  <2>1. NextStep(d, o, cmd) = Record(d, o, t, cmd) /\ t \in EventTypes
    BY <1>13 DEF NextStep, EventTypes
  <2>2. \/ i = 2 /\ b = Saga!NoStock
        \/ i = 4 /\ b = Saga!Refused
    BY <1>3, <1>5, <1>13
  <2>3. i < Len(b) /\ b[i + 1] = t /\ i # 1 /\ (i = 2 => b = Saga!NoStock)
    <3>1. CASE i = 2 /\ b = Saga!NoStock
      BY <3>1, CourseEvents
    <3>2. CASE i = 4 /\ b = Saga!Refused
      BY <3>2, CourseEvents
    <3> QED
      BY <2>2, <3>1, <3>2
  <2>4. ASSUME NEW k \in Skus
        PROVE  d.inventory[k] = d.inventory[k] + Taken(cart, b, i, k) - Taken(cart, b, i + 1, k)
    <3>1. b = Saga!NoStock => Taken(cart, b, i, k) = 0 /\ Taken(cart, b, i + 1, k) = 0
      BY DEF Taken
    <3>2. i = 4 /\ b = Saga!Refused => Taken(cart, b, i, k) = 0 /\ Taken(cart, b, i + 1, k) = 0
      BY DEF Taken
    <3>3. Taken(cart, b, i, k) = 0 /\ Taken(cart, b, i + 1, k) = 0
      BY <2>2, <3>1, <3>2
    <3> QED
      BY <1>7, <3>3
  <2> HIDE DEF t
  <2> QED
    BY <1>1, <1>6, <1>8, <2>1, <2>3, <2>4
<1> QED
  BY <1>3, <1>9, <1>10, <1>11, <1>12, <1>13

-----------------------------------------------------------------------------
(* Steps of the saga *)

LEMMA TypesOf ==
  ASSUME NEW s \in Seq(Events)
  PROVE  /\ Types(s) \in Seq(EventTypes) /\ Len(Types(s)) = Len(s)
         /\ \A i \in 1..Len(s) : Types(s)[i] = s[i].type
<1>1. \A i \in 1..Len(s) : s[i].type \in EventTypes
  <2>1. \A i \in 1..Len(s) : s[i] \in Events
    OBVIOUS
  <2> QED
    BY <2>1 DEF Events
<1>2. Types(s) \in [1..Len(s) -> EventTypes] /\ Len(s) \in Nat
  BY <1>1 DEF Types
<1> QED
  BY <1>2 DEF Types

LEMMA TypesOfCourse ==
  ASSUME NEW s \in Seq(Events), NEW c \in Courses, OnCourse(s, c)
  PROVE  Types(s) = SubSeq(c, 1, Len(s))
<1>1. PICK t, n : t = Types(s) /\ n = Len(s)
  OBVIOUS
<1>2. t \in Seq(EventTypes) /\ Len(t) = n /\ n \in Nat /\ \A i \in 1..n : t[i] = c[i]
  BY <1>1, TypesOf DEF OnCourse
<1>3. PICK u : u = SubSeq(c, 1, n)
  OBVIOUS
<1>4. \A i \in 1..n : c[i] \in EventTypes
  BY <1>2
<1>5. u \in Seq(EventTypes) /\ Len(u) = n /\ \A i \in 1..n : u[i] = c[i]
  BY <1>2, <1>3, <1>4, SubSeqProperties
<1>6. t = u
  BY <1>2, <1>5, SeqEqual
<1> QED
  BY <1>1, <1>3, <1>6

LEMMA NoTypes == Types(<<>>) = <<>>
<1>1. <<>> \in Seq(Events)
  OBVIOUS
<1>2. Types(<<>>) \in Seq(EventTypes) /\ Len(Types(<<>>)) = 0
  BY <1>1, TypesOf
<1> QED
  BY <1>2

LEMMA SagaInit == Init => Saga!Init
<1>1. Requested(<<>>) = None
  BY DEF Requested
<1> QED
  BY <1>1, NoTypes DEF Init, EmptyDoc, Saga!Init

\* A document saved with one order carried is a step of the saga.
LEMMA CarriedStep ==
  ASSUME SoundDoc(doc), SoundDoc(doc'), KeysSound(doc'), NEW o \in Orders,
         Carried(doc, doc', o)
  PROVE  [Saga!Next]_Saga!sagaVars
<1> DEFINE s == doc.events[o]
           t == doc'.events[o]
           H == [q \in Orders |-> Types(doc.events[q])]
           G == [q \in Orders |-> Types(doc'.events[q])]
           R == [q \in Orders |-> Requested(doc.events[q])]
           Q == [q \in Orders |-> Requested(doc'.events[q])]
<1>1. /\ \A q \in Orders : doc.events[q] \in Seq(Events) /\ doc'.events[q] \in Seq(Events)
      /\ s \in Seq(Events) /\ t \in Seq(Events)
      /\ doc.inventory \in [Skus -> Int] /\ doc'.inventory \in [Skus -> Int]
  BY DEF SoundDoc, Docs
<1>2. doc'.stopAt = doc.stopAt /\ \A q \in Orders \ {o} : doc'.events[q] = doc.events[q]
  BY DEF Carried, OnlyOrder
<1>3. \A q \in Orders \ {o} : G[q] = H[q] /\ Q[q] = R[q]
  BY <1>2
<1>4. \A q \in Orders : H[q] # <<>> <=> doc.events[q] # <<>>
  <2>1. ASSUME NEW q \in Orders PROVE H[q] # <<>> <=> doc.events[q] # <<>>
    <3>1. Types(doc.events[q]) \in Seq(EventTypes) /\ Len(Types(doc.events[q])) = Len(doc.events[q])
      BY <1>1, TypesOf
    <3>2. H[q] = Types(doc.events[q])
      OBVIOUS
    <3> HIDE DEF H
    <3> QED
      BY <1>1, <3>1, <3>2
  <2> QED
    BY <2>1
<1>5. CASE t = s /\ doc'.inventory = doc.inventory
  <2>1. G = H /\ Q = R
    BY <1>3, <1>5
  <2> QED
    BY <1>2, <1>5, <2>1 DEF Saga!sagaVars
<1>6. CASE s = <<>> /\ Len(t) = 1 /\ doc'.inventory = doc.inventory
  <2>1. PICK k \in Keys : t[1].cmd = StartCommand(k) /\ doc'.idem[k] = [order |-> o, started |-> TRUE]
    BY <1>1, <1>6 DEF KeysSound, Keyed
  <2>2. t # <<>> /\ t[1].cart \in Carts /\ t[1].method \in Methods /\ t[1].type = "OrderStarted"
    BY <1>1, <1>6 DEF SoundDoc, RequestKnown, StreamsLegalIn, LegalStream
  <2>3. t[1].cmd.key = k
    BY <2>1 DEF StartCommand
  <2>4. Q[o] = [key |-> k, cart |-> t[1].cart, method |-> t[1].method]
    BY <2>2, <2>3 DEF Requested
  <2>5. G[o] = <<"OrderStarted">>
    <3>1. Types(t) = [i \in 1..1 |-> "OrderStarted"]
      BY <1>6, <2>2 DEF Types
    <3> QED
      BY <3>1
  <2>6. ASSUME NEW q \in Orders, H[q] # <<>>
        PROVE  R[q].key # k
    <3>1. doc.events[q] # <<>> /\ q # o
      BY <1>4, <1>6, <2>6
    <3>2. doc'.events[q] = doc.events[q]
      BY <1>2, <3>1
    <3>3. Keyed(doc', doc.events[q][1].cmd, q)
      BY <3>1, <3>2 DEF KeysSound
    <3>4. PICK j \in Keys : /\ doc.events[q][1].cmd = StartCommand(j)
                            /\ doc'.idem[j] = [order |-> q, started |-> TRUE]
      BY <3>3 DEF Keyed
    <3>5. R[q].key = j
      BY <3>1, <3>4 DEF Requested, StartCommand
    <3>6. doc'.idem[j].order = q /\ doc'.idem[k].order = o
      BY <2>1, <3>4
    <3> QED
      BY <3>1, <3>5, <3>6
  <2>7. H[o] = <<>>
    BY <1>6, NoTypes
  <2>8. G = [H EXCEPT ![o] = <<"OrderStarted">>]
    BY <1>3, <2>5
  <2>9. Q = [R EXCEPT ![o] = [key |-> k, cart |-> t[1].cart, method |-> t[1].method]]
    BY <1>3, <2>4
  <2>10. Saga!Place(o, k, t[1].cart, t[1].method)
    BY <1>2, <1>6, <2>6, <2>7, <2>8, <2>9 DEF Saga!Place
  <2> QED
    BY <2>2, <2>10 DEF Saga!Next
<1>7. ASSUME NEW c \in Courses, Further(doc, doc', o, c)
      PROVE  Saga!Advance(o)
  <2> DEFINE i == Len(s)
             j == Len(t)
             cart == s[1].cart
  <2>1. /\ 0 < i /\ i < j /\ t[1] = s[1] /\ OpenTo(doc, o, c) /\ OnCourse(t, c)
        /\ o \in doc.stopAt /\ i <= 2 /\ c # Saga!NoStock => j <= 2
        /\ \A k \in Skus : doc'.inventory[k] = doc.inventory[k] + Taken(cart, c, i, k)
                                                               - Taken(cart, c, j, k)
    BY <1>7 DEF Further
  <2>2. i \in Nat /\ j \in Nat /\ s # <<>> /\ t # <<>>
    BY <1>1, <2>1
  <2>3. Len(H[o]) = i /\ \A m \in 1..i : H[o][m] = s[m].type
    BY <1>1, TypesOf
  <2>4. R[o] = [key |-> s[1].cmd.key, cart |-> cart, method |-> s[1].method]
    BY <2>2 DEF Requested
  <2>5. R[o].cart = cart /\ R[o].method = s[1].method
    BY <2>4
  <2>6. Q = R
    <3>1. Q[o] = R[o]
      BY <2>1, <2>2 DEF Requested
    <3> QED
      BY <1>3, <3>1
  <2>7. G = [H EXCEPT ![o] = SubSeq(c, 1, j)]
    <3>1. G[o] = SubSeq(c, 1, j)
      BY <1>1, <2>1, TypesOfCourse
    <3> QED
      BY <1>3, <3>1
  <2>8. ASSUME NEW n, NEW k \in Skus
        PROVE  Saga!Has(o, c, n, k) = Taken(cart, c, n, k)
    BY <2>5 DEF Saga!Has, Taken
  <2>9. doc'.inventory = [k \in Skus |-> doc.inventory[k] + Saga!Has(o, c, i, k) - Saga!Has(o, c, j, k)]
    BY <1>1, <2>1, <2>8
  <2>10. Saga!Goes(o, c)
    BY <2>1, <2>3, <2>5 DEF Saga!Goes, OpenTo, OnCourse, Charges, Available
  <2>11. j \in i + 1 .. Len(c)
    <3>1. Len(c) \in Nat
      BY CourseEvents DEF Courses
    <3> QED
      BY <2>1, <2>2, <3>1 DEF OnCourse
  <2>12. c \in {Saga!Sold, Saga!Refused, Saga!NoStock}
    BY DEF Courses
  <2>13. \E b \in {Saga!Sold, Saga!Refused, Saga!NoStock} : \E m \in Len(H[o]) + 1 .. Len(b) :
           /\ Len(H[o]) > 0 /\ Saga!Goes(o, b)
           /\ o \in doc.stopAt /\ Len(H[o]) <= 2 /\ b # Saga!NoStock => m <= 2
           /\ H' = [H EXCEPT ![o] = SubSeq(b, 1, m)]
           /\ doc'.inventory =
                [k \in Skus |-> doc.inventory[k] + Saga!Has(o, b, Len(H[o]), k) - Saga!Has(o, b, m, k)]
           /\ UNCHANGED <<R, doc.stopAt>>
    <3>1. /\ c \in {Saga!Sold, Saga!Refused, Saga!NoStock} /\ j \in Len(H[o]) + 1 .. Len(c)
          /\ Len(H[o]) > 0 /\ Saga!Goes(o, c)
          /\ o \in doc.stopAt /\ Len(H[o]) <= 2 /\ c # Saga!NoStock => j <= 2
      BY <2>1, <2>3, <2>10, <2>11, <2>12
    <3>2. H' = [H EXCEPT ![o] = SubSeq(c, 1, j)]
      BY <2>7
    <3>3. doc'.inventory =
            [k \in Skus |-> doc.inventory[k] + Saga!Has(o, c, Len(H[o]), k) - Saga!Has(o, c, j, k)]
      BY <2>3, <2>9
    <3>4. UNCHANGED <<R, doc.stopAt>>
      BY <1>2, <2>6
    <3> QED
      BY <3>1, <3>2, <3>3, <3>4, Zenon
  <2> QED
    BY <2>13, Zenon DEF Saga!Advance
<1> QED
  BY <1>5, <1>6, <1>7 DEF Carried, Saga!Next

\* An update of the hooks is a step of the saga; one of anything but streams,
\* stock and hooks is none.
LEMMA HookStep ==
  ASSUME doc'.events = doc.events, doc'.inventory = doc.inventory, NEW o \in Orders,
         doc'.stopAt \in {doc.stopAt, doc.stopAt \cup {o}, doc.stopAt \ {o}}
  PROVE  [Saga!Next]_Saga!sagaVars
BY DEF Saga!Next, Saga!Hold, Saga!LetGo, Saga!sagaVars

-----------------------------------------------------------------------------
(* Steps of the workflow *)

\* The owner's draft carries its own order; only a start places one.
DraftCarried(o) ==
  spot[o].phase = "running" =>
    /\ Carried(doc, draft.doc, o)
    /\ spot[o].job.op # "start" /\ doc.events[o] = <<>> => draft.doc.events[o] = <<>>

SInv == Coursed(doc) /\ \A o \in Orders : DraftCarried(o)

\* What an update beside the owner may do.
HooksOnly ==
  /\ doc'.inventory = doc.inventory
  /\ \/ doc'.stopAt = doc.stopAt
     \/ \E o \in Orders : doc'.stopAt \in {doc.stopAt \cup {o}, doc.stopAt \ {o}}

LEMMA PlanHooks ==
  ASSUME doc \in Docs, NEW c, NEW op, NEW k, NEW cart, NEW m, Plan(c, op, k, cart, m, doc)
  PROVE  HooksOnly
<1> DEFINE known == doc.idem[k] # None
           order == IF known THEN doc.idem[k].order ELSE doc.next + 1
           d == [doc EXCEPT !.next = IF known THEN @ ELSE order,
                            !.idem[k] = [order |-> order, started |-> TRUE]]
<1>1. doc' = doc \/ doc' = d
  BY DEF Plan
<1>2. d.inventory = doc.inventory /\ d.stopAt = doc.stopAt
  BY DEF Docs
<1> HIDE DEF d
<1> QED BY <1>1, <1>2 DEF HooksOnly

LEMMA ClientHooks ==
  ASSUME doc \in Docs, NEW c \in Calls, ClientStep(c)
  PROVE  HooksOnly
<1>1. ASSUME NEW k \in Keys, NEW cart, NEW m, StartOrder(c, k, cart, m)
      PROVE  HooksOnly
  BY <1>1, PlanHooks DEF StartOrder
<1>2. ASSUME NEW k \in Keys, NEW cart, NEW m, Prepare(c, k, cart, m)
      PROVE  HooksOnly
  <2> DEFINE known == doc.idem[k] # None
             order == IF known THEN doc.idem[k].order ELSE doc.next + 1
             d == [doc EXCEPT !.next = IF known THEN @ ELSE order,
                     !.idem[k] = IF known THEN @
                                 ELSE [order |-> order, started |-> FALSE],
                     !.stopAt = @ \cup {order}]
  <2>1. doc' = doc \/ (doc' = d /\ order \in Orders)
    BY <1>2 DEF Prepare
  <2>2. d.inventory = doc.inventory /\ d.stopAt = doc.stopAt \cup {order}
    BY DEF Docs
  <2> HIDE DEF d, order
  <2> QED BY <2>1, <2>2 DEF HooksOnly
<1>3. ASSUME NEW k \in Keys, CreatePending(c, k)
      PROVE  HooksOnly
  <2> DEFINE d == [doc EXCEPT !.next = @ + 1,
                     !.idem[k] = [order |-> doc.next + 1, started |-> FALSE]]
  <2>1. doc' = doc \/ doc' = d
    BY <1>3 DEF CreatePending
  <2>2. d.inventory = doc.inventory /\ d.stopAt = doc.stopAt
    BY DEF Docs
  <2> HIDE DEF d
  <2> QED BY <2>1, <2>2 DEF HooksOnly
<1>4. ASSUME NEW op, NEW o \in Orders, Forward(c, op, o)
      PROVE  HooksOnly
  BY <1>4 DEF Forward, HooksOnly
<1> QED BY <1>1, <1>2, <1>3, <1>4 DEF ClientStep

LEMMA ApiHooks ==
  ASSUME doc \in Docs, NEW c \in Calls, calls[c].order \in Orders \cup {0}, ApiStep(c) \/ Abandon(c)
  PROVE  HooksOnly
<1>1. CASE PlanPrepared(c)
  BY <1>1, PlanHooks DEF PlanPrepared
<1>2. CASE WatchReached(c)
  <2> DEFINE d == [doc EXCEPT !.stopAt = @ \ {calls[c].order}]
  <2>1. doc' = d
    BY <1>2 DEF WatchReached
  <2>2. d.inventory = doc.inventory /\ d.stopAt = doc.stopAt \ {calls[c].order}
    BY DEF Docs
  <2>3. calls[c].order = 0 => doc.stopAt \ {calls[c].order} = doc.stopAt
    BY DEF Docs, Orders
  <2> HIDE DEF d
  <2> QED BY <2>1, <2>2, <2>3 DEF HooksOnly
<1>3. CASE PollFound(c) \/ PollExhausted(c) \/ SendStart(c) \/ Abandon(c)
  BY <1>3 DEF PollFound, PollExhausted, SendStart, Abandon, HooksOnly
<1> QED BY <1>1, <1>2, <1>3 DEF ApiStep

LEMMA DeleteHooks ==
  ASSUME doc \in Docs, NEW o \in Orders, DeleteProjection(o)
  PROVE  HooksOnly
<1> DEFINE d == [doc EXCEPT !.models[o] = None]
<1>1. doc' = d
  BY DEF DeleteProjection
<1>2. d.inventory = doc.inventory /\ d.stopAt = doc.stopAt
  BY DEF Docs
<1> HIDE DEF d
<1> QED BY <1>1, <1>2 DEF HooksOnly

LEMMA QuietSaga ==
  ASSUME Quiet, HooksOnly, DraftFollows, SInv
  PROVE  SInv' /\ [Saga!Next]_Saga!sagaVars
<1>1. Coursed(doc')
  BY DEF Quiet, SInv, Coursed
<1>2. ASSUME NEW o \in Orders PROVE DraftCarried(o)'
  <2>1. spot[o].phase = "running" => doc' = doc
    BY WorkflowAssumption DEF Quiet, DraftFollows
  <2> QED
    BY <2>1 DEF Quiet, SInv, DraftCarried
<1>3. ASSUME doc'.stopAt = doc.stopAt
      PROVE  UNCHANGED Saga!sagaVars
  <2> DEFINE H == [o \in Orders |-> Types(doc.events[o])]
             R == [o \in Orders |-> Requested(doc.events[o])]
  <2>1. PICK d : d = doc'.events
    OBVIOUS
  <2>2. d = doc.events
    BY <2>1 DEF Quiet
  <2>3. H' = H /\ R' = R
    BY <2>1, <2>2
  <2>4. doc'.inventory = doc.inventory
    BY DEF HooksOnly
  <2> QED
    BY <1>3, <2>3, <2>4 DEF Saga!sagaVars
<1>4. ASSUME NEW o \in Orders, doc'.stopAt \in {doc.stopAt \cup {o}, doc.stopAt \ {o}}
      PROVE  [Saga!Next]_Saga!sagaVars
  BY <1>4, HookStep DEF Quiet, HooksOnly
<1> QED
  BY <1>1, <1>2, <1>3, <1>4 DEF SInv, HooksOnly

\* After the step o does not run; if the draft changed, o was its owner.
LEMMA LeaveSaga ==
  ASSUME IInv, DraftFollows, SInv, NEW o \in Orders, NEW v,
         spot' = [spot EXCEPT ![o] = v], v.phase # "running",
         lock = o \/ UNCHANGED <<doc, draft>>
  PROVE  \A q \in Orders : DraftCarried(q)'
<1> SUFFICES ASSUME NEW q \in Orders PROVE DraftCarried(q)'
  OBVIOUS
<1>1. spot'[o].phase # "running" /\ (q # o => spot'[q] = spot[q])
  BY Unfolded
<1>2. DraftCarried(q)
  BY DEF SInv
<1>3. q # o /\ spot[q].phase = "running" => lock = q
  BY DEF DraftFollows
<1> QED
  BY <1>1, <1>2, <1>3 DEF DraftCarried

\* A step that saves nothing.
LEMMA UnsavedSaga ==
  ASSUME SInv, doc' = doc, \A q \in Orders : DraftCarried(q)'
  PROVE  SInv' /\ [Saga!Next]_Saga!sagaVars
BY DEF SInv, Saga!sagaVars

LEMMA SavedCarried ==
  ASSUME NEW d, NEW e \in Docs, NEW o \in Orders, Carried(d, e, o)
  PROVE  Carried(d, SaveProjection(e, o), o)
<1>1. PICK f : f = SaveProjection(e, o)
  OBVIOUS
<1>2. f.events = e.events /\ f.inventory = e.inventory /\ f.stopAt = e.stopAt
  BY <1>1 DEF SaveProjection, Docs
<1> QED
  BY <1>1, <1>2 DEF Carried, OnlyOrder, Further

LEMMA AdvanceCarries ==
  ASSUME IInv, DraftFollows, KInv, SInv, NEW o \in Orders, Advance(o)
  PROVE  SInv' /\ [Saga!Next]_Saga!sagaVars
<1> DEFINE j == spot[o].job
           b == draft.doc
           s == b.events[o]
           d == IF s = <<>>
                THEN AppendEvent(b, o, StartEvent(j.cmd, j.cart, j.method))
                ELSE NextStep(b, o, j.cmd)
           e == SaveProjection(d, o)
<1>1. /\ j \in Jobs /\ StartJob(j) /\ SoundDoc(b) /\ b \in Docs /\ SoundDoc(doc)
      /\ DraftKeyed(o) /\ j.cmd \in Commands
  BY Unfolded DEF SpotStates, KInv, SoundDoc, Jobs
<1>2. /\ draft' = [doc |-> e, left |-> draft.left - 1]
      /\ UNCHANGED <<doc, lock, spot>>
      /\ spot[o].phase = "running" /\ draft.left > 0
      /\ IF s = <<>> THEN j.op = "start" ELSE ~Terminal(Status(s)) /\ ~StopHookReached(b, o)
  BY DEF Advance, CanAdvance
<1>3. /\ Coursed(doc) /\ Carried(doc, b, o) /\ lock = o
      /\ j.op # "start" /\ doc.events[o] = <<>> => s = <<>>
  BY <1>2 DEF SInv, DraftCarried, DraftFollows
<1>4. Carried(doc, e, o) /\ (j.op # "start" /\ doc.events[o] = <<>> => e.events[o] = <<>>)
  <2>1. CASE s = <<>>
    <3>1. PICK ev : ev = StartEvent(j.cmd, j.cart, j.method)
      OBVIOUS
    <3>2. ev \in Events
      BY <1>1, <1>2, <2>1, <3>1, NewEvent DEF StartJob
    <3>3. PICK f : f = AppendEvent(b, o, ev)
      OBVIOUS
    <3>4. /\ Appended(b, f, o, ev) /\ f.stopAt = b.stopAt /\ f.inventory = b.inventory
      BY <1>1, <3>2, <3>3, AppendEventFields DEF AppendEvent, Docs
    <3>5. doc.events[o] = <<>> /\ b.inventory = doc.inventory
      <4>1. Len(s) = 0
        BY <2>1
      <4>2. \A c : ~Further(doc, b, o, c)
        <5> SUFFICES ASSUME NEW c, Further(doc, b, o, c) PROVE FALSE
          OBVIOUS
        <5>1. doc.events[o] \in Seq(Events)
          BY <1>1 DEF SoundDoc, Docs
        <5>2. Len(doc.events[o]) \in Nat
          BY <5>1
        <5> QED
          BY <4>1, <5>2 DEF Further
      <4> QED
        BY <1>3, <2>1, <4>1, <4>2 DEF Carried
    <3>6. f \in Docs /\ Len(f.events[o]) = 1 /\ \A q \in Orders \ {o} : f.events[q] = b.events[q]
      <4>1. b.events \in [Orders -> Seq(Events)]
        BY <1>1 DEF Docs
      <4>2. f.events[o] = Append(<<>>, ev)
        BY <2>1, <3>4, <4>1 DEF Appended
      <4>3. Len(f.events[o]) = 1
        BY <4>2
      <4>4. \A q \in Orders \ {o} : f.events[q] = b.events[q]
        BY <3>4, <4>1 DEF Appended
      <4> QED
        BY <3>4, <4>3, <4>4 DEF Appended
    <3>7. Carried(doc, f, o)
      BY <1>3, <3>4, <3>5, <3>6 DEF Carried, OnlyOrder
    <3>8. e = SaveProjection(f, o)
      BY <2>1, <3>1, <3>3
    <3> HIDE DEF e
    <3> QED
      BY <1>2, <2>1, <3>6, <3>7, <3>8, SavedCarried
  <2>2. CASE s # <<>>
    <3>1. e = SaveProjection(NextStep(b, o, j.cmd), o)
      BY <2>2
    <3> HIDE DEF e
    <3>2. Coursed(b)
      BY <1>1, <1>3, CarriedCoursed
    <3>3. SoundDoc(e)
      BY <1>1, <1>2, <2>2, <3>1, StepSound
    <3>4. PICK c \in Courses : OnlyOrder(b, e, o) /\ Further(b, e, o, c)
      BY <1>1, <1>2, <2>2, <3>1, <3>2, StepFurther
    <3>5. doc.events[o] # <<>>
      BY <1>1, <1>2, <1>3, <2>2 DEF DraftKeyed
    <3> QED
      BY <1>1, <1>3, <3>3, <3>4, <3>5, CarriedFurther
  <2> QED
    BY <2>1, <2>2
<1> HIDE DEF e, d
<1>5. draft'.doc = e
  BY <1>2
<1>6. ASSUME NEW q \in Orders PROVE DraftCarried(q)'
  <2>1. CASE q = o
    BY <1>2, <1>4, <1>5, <2>1 DEF DraftCarried
  <2>2. CASE q # o
    <3>1. spot'[q].phase # "running"
      BY <1>2, <1>3, <2>2 DEF DraftFollows
    <3> QED
      BY <3>1 DEF DraftCarried
  <2> QED
    BY <2>1, <2>2
<1> QED
  BY <1>2, <1>6, UnsavedSaga

LEMMA OwnerStepSaga ==
  ASSUME IInv, DraftFollows, KInv, SInv, IInv', KInv', NEW o \in Orders,
         SpotStep(o) \/ LockTimeout(o) \/ Crash(o)
  PROVE  SInv' /\ [Saga!Next]_Saga!sagaVars
<1>1. /\ doc \in Docs /\ draft.doc \in Docs /\ SoundDoc(doc) /\ SoundDoc(draft.doc)
      /\ spot \in [Orders -> SpotStates] /\ spot[o] \in SpotStates
  BY Unfolded
<1>2. CASE TakeTimer(o)
  <2> DEFINE v == [spot[o] EXCEPT !.phase = "locking", !.timer = FALSE,
                     !.job = [NoJob EXCEPT !.op = "continue", !.order = o]]
  <2>1. spot' = [spot EXCEPT ![o] = v] /\ UNCHANGED <<doc, lock, draft>>
    BY <1>1, <1>2 DEF TakeTimer, SpotStates
  <2>2. v.phase # "running"
    BY <1>1 DEF SpotStates
  <2> HIDE DEF v
  <2> QED BY <2>1, <2>2, LeaveSaga, UnsavedSaga
<1>3. CASE AcquireLock(o)
  <2>1. lock = Free /\ lock' = o /\ doc' = doc /\ draft'.doc = doc
    BY <1>3 DEF AcquireLock
  <2>2. \A q \in Orders \ {o} : spot'[q] = spot[q]
    BY <1>1, <1>3 DEF AcquireLock
  <2>3. \A q \in Orders \ {o} : spot'[q].phase # "running"
    BY <2>1, <2>2, WorkflowAssumption DEF DraftFollows
  <2>4. Carried(doc', draft'.doc, o)
    BY <2>1 DEF Carried, OnlyOrder
  <2>5. ASSUME NEW q \in Orders PROVE DraftCarried(q)'
    BY <2>1, <2>3, <2>4 DEF DraftCarried
  <2> QED BY <2>1, <2>5, UnsavedSaga
<1>4. CASE Commit(o)
  <2> DEFINE v == [spot[o] EXCEPT !.phase = "after"]
  <2>1. /\ spot' = [spot EXCEPT ![o] = v] /\ spot[o].phase = "running"
        /\ doc' = SaveProjection(draft.doc, o)
    BY <1>1, <1>4 DEF Commit, SpotStates
  <2>2. v.phase # "running"
    BY <1>1 DEF SpotStates
  <2> HIDE DEF v
  <2>3. lock = o /\ Carried(doc, draft.doc, o) /\ Coursed(doc)
    BY <2>1 DEF DraftFollows, SInv, DraftCarried
  <2>4. \A q \in Orders : DraftCarried(q)'
    BY <2>1, <2>2, <2>3, LeaveSaga
  <2>5. Carried(doc, doc', o)
    BY <1>1, <2>1, <2>3, SavedCarried
  <2>6. SoundDoc(doc') /\ KeysSound(doc')
    BY DEF IInv, KInv, SaleSound
  <2>7. Coursed(doc')
    BY <1>1, <2>3, <2>5, <2>6, CarriedCoursed
  <2>8. [Saga!Next]_Saga!sagaVars
    BY <1>1, <2>5, <2>6, CarriedStep
  <2> QED BY <2>4, <2>7, <2>8 DEF SInv
<1>5. CASE RebuildRefused(o)
  <2> DEFINE v == [spot[o] EXCEPT !.phase = "idle", !.job = NoJob]
  <2>1. /\ spot' = [spot EXCEPT ![o] = v] /\ spot[o].phase = "running"
        /\ doc' = doc
    BY <1>1, <1>5 DEF RebuildRefused, SpotStates
  <2>2. v.phase # "running"
    BY <1>1 DEF SpotStates
  <2> HIDE DEF v
  <2>3. lock = o
    BY <2>1 DEF DraftFollows
  <2> QED BY <2>1, <2>2, <2>3, LeaveSaga, UnsavedSaga
<1>6. CASE Finish(o)
  <2> DEFINE j == spot[o].job
             v == IF Terminal(Status(doc.events[o])) THEN Closed
                  ELSE [phase |-> "idle", job |-> NoJob,
                        timer |-> spot[o].timer \/ j.op = "start"]
  <2>1. spot' = [spot EXCEPT ![o] = v] /\ UNCHANGED <<doc, lock, draft>>
    BY <1>6 DEF Finish
  <2>2. v.phase # "running"
    BY DEF Closed
  <2> HIDE DEF v
  <2> QED BY <2>1, <2>2, LeaveSaga, UnsavedSaga
<1>7. CASE LockTimeout(o)
  <2> DEFINE v == [spot[o] EXCEPT !.phase = "idle", !.job = NoJob]
  <2>1. spot' = [spot EXCEPT ![o] = v] /\ UNCHANGED <<doc, lock, draft>>
    BY <1>1, <1>7 DEF LockTimeout, SpotStates
  <2>2. v.phase # "running"
    BY <1>1 DEF SpotStates
  <2> HIDE DEF v
  <2> QED BY <2>1, <2>2, LeaveSaga, UnsavedSaga
<1>8. CASE Crash(o)
  <2>1. /\ spot' = [spot EXCEPT ![o] = Closed] /\ doc' = doc
        /\ lock = o \/ UNCHANGED <<doc, draft>>
    BY <1>8 DEF Crash
  <2>2. Closed.phase # "running"
    BY DEF Closed
  <2> QED BY <2>1, <2>2, LeaveSaga, UnsavedSaga
<1> QED BY <1>2, <1>3, <1>4, <1>5, <1>6, <1>7, <1>8, AdvanceCarries DEF SpotStep

LEMMA TakeSaga ==
  ASSUME IInv, DraftFollows, SInv, NEW m \in msgs, TakeRequest(m)
  PROVE  SInv' /\ [Saga!Next]_Saga!sagaVars
<1>1. spot \in [Orders -> SpotStates]
  BY Unfolded
<1>2. UNCHANGED <<doc, lock, draft>>
  BY DEF TakeRequest
<1>3. CASE m.order \in Orders
  <2> DEFINE o == m.order
             v == [spot[o] EXCEPT !.phase = "locking", !.job = m]
  <2>1. spot' = [spot EXCEPT ![o] = v]
    BY <1>1, <1>3 DEF TakeRequest, SpotStates
  <2>2. v.phase # "running"
    BY <1>1, <1>3 DEF SpotStates
  <2> HIDE DEF v
  <2> QED
    BY <1>2, <1>3, <2>1, <2>2, LeaveSaga, UnsavedSaga
<1>4. CASE m.order \notin Orders
  <2>1. spot' = spot
    BY <1>1, <1>4 DEF TakeRequest
  <2>2. \A q \in Orders : DraftCarried(q)'
    BY <1>2, <2>1 DEF SInv, DraftCarried
  <2> QED
    BY <1>2, <2>2, UnsavedSaga
<1> QED
  BY <1>3, <1>4

LEMMA NextSaga ==
  ASSUME IInv, DraftFollows, KInv, SInv, [Next]_vars
  PROVE  SInv' /\ [Saga!Next]_Saga!sagaVars
<1>1. doc \in Docs /\ calls \in [Calls -> CallStates] /\ IInv' /\ KInv'
  BY Unfolded, NextKeeps, NextSale
<1>2. ASSUME NEW c \in Calls, ClientStep(c)
      PROVE  SInv' /\ [Saga!Next]_Saga!sagaVars
  BY <1>1, <1>2, ClientIsQuiet, ClientHooks, QuietSaga
<1>3. ASSUME NEW c \in Calls, ApiStep(c) \/ Abandon(c)
      PROVE  SInv' /\ [Saga!Next]_Saga!sagaVars
  <2>1. calls[c].order \in Orders \cup {0}
    BY <1>1 DEF CallStates
  <2> QED
    BY <1>1, <1>3, <2>1, ApiIsQuiet, ApiHooks, QuietSaga
<1>4. ASSUME NEW m \in msgs, TakeRequest(m)
      PROVE  SInv' /\ [Saga!Next]_Saga!sagaVars
  BY <1>4, TakeSaga
<1>5. ASSUME NEW o \in Orders, SpotStep(o) \/ LockTimeout(o) \/ Crash(o)
      PROVE  SInv' /\ [Saga!Next]_Saga!sagaVars
  BY <1>1, <1>5, OwnerStepSaga
<1>6. ASSUME NEW o \in Orders, DeleteProjection(o)
      PROVE  SInv' /\ [Saga!Next]_Saga!sagaVars
  BY <1>1, <1>6, DeleteIsQuiet, DeleteHooks, QuietSaga
<1>7. CASE UNCHANGED vars
  <2>1. Quiet /\ HooksOnly
    BY <1>7 DEF vars, Quiet, HooksOnly
  <2> QED BY <2>1, QuietSaga
<1> QED BY <1>2, <1>3, <1>4, <1>5, <1>6, <1>7 DEF Next, Normal, Failure

LEMMA InitSaga == Init => SInv
BY DEF Init, EmptyDoc, Closed, SInv, DraftCarried, Coursed

\* The order workflow implements the saga: for any keys, carts, stock and
\* requests, whatever owners, timers, retries, crashes and lost replies do, an
\* order is placed once, by its own key, and each save carries one order
\* forward on the course its stock and its payment method call for.
THEOREM WorkflowIsSaga == Spec => SagaSpec
<1>1. Init => DraftFollows
  BY DEF Init, DraftFollows, Closed
<1>2. IInv /\ DraftFollows /\ KInv /\ [Next]_vars => DraftFollows' /\ KInv'
  BY NextFollows, NextSale
<1>3. IInv /\ DraftFollows /\ KInv /\ SInv /\ [Next]_vars => SInv' /\ [Saga!Next]_Saga!sagaVars
  BY NextSaga
<1> QED
  BY Invariance, InitSale, SagaInit, InitSaga, <1>1, <1>2, <1>3, PTL DEF Spec, SagaSpec, Saga!Spec

-----------------------------------------------------------------------------
(* And so it does when orders are relocated: a replay carries its order too. *)

\* What a replay has made of document d is sound, and order o carried.
Replayed(d, e, o) ==
  SoundDoc(e) /\ Carried(d, e, o) /\ (d.events[o] = <<>> => e.events[o] = <<>>)

LEMMA AdvancedCarried ==
  ASSUME NEW d, SoundDoc(d), Coursed(d), NEW o \in Orders, NEW cmd \in Commands,
         NEW e, Replayed(d, e, o)
  PROVE  Replayed(d, Advanced(e, o, cmd), o)
<1>1. CASE Stops(e, o)
  BY <1>1 DEF Advanced
<1>2. CASE ~Stops(e, o)
  <2>1. PICK f : f = SaveProjection(NextStep(e, o, cmd), o)
    OBVIOUS
  <2>2. Advanced(e, o, cmd) = f
    BY <1>2, <2>1 DEF Advanced
  <2>3. /\ e.events[o] # <<>> /\ ~Terminal(Status(e.events[o])) /\ ~StopHookReached(e, o)
        /\ d.events[o] # <<>> /\ SoundDoc(e) /\ Carried(d, e, o)
    BY <1>2 DEF Stops, Replayed
  <2>4. SoundDoc(f)
    BY <2>1, <2>3, StepSound
  <2>5. Coursed(e)
    BY <2>3, CarriedCoursed
  <2>6. PICK c \in Courses : OnlyOrder(e, f, o) /\ Further(e, f, o, c)
    BY <2>1, <2>3, <2>5, StepFurther
  <2>7. Carried(d, f, o)
    BY <2>3, <2>4, <2>6, CarriedFurther
  <2> QED
    BY <2>2, <2>3, <2>4, <2>7 DEF Replayed
<1> QED
  BY <1>1, <1>2

LEMMA RanCarried ==
  ASSUME NEW d, SoundDoc(d), Coursed(d), NEW o \in Orders, NEW cmd \in Commands
  PROVE  Carried(d, Ran(d, o, cmd), o)
<1>1. PICK next : next = [e \in Docs |-> Advanced(e, o, cmd)]
  OBVIOUS
<1>2. ASSUME NEW e, Replayed(d, e, o)
      PROVE  Replayed(d, next[e], o)
  <2>1. next[e] = Advanced(e, o, cmd)
    BY <1>1, <1>2 DEF Replayed, SoundDoc
  <2> QED
    BY <1>2, <2>1, AdvancedCarried
<1>3. Replayed(d, d, o)
  BY DEF Replayed, Carried, OnlyOrder
<1>4. PICK f : f = next[next[next[next[d]]]]
  OBVIOUS
<1>5. Replayed(d, f, o)
  BY <1>2, <1>3, <1>4
<1>6. PICK e : e = IF AlreadyApplied(d, o, cmd) THEN d ELSE f
  OBVIOUS
<1>7. Ran(d, o, cmd) = SaveProjection(e, o)
  BY <1>1, <1>4, <1>6 DEF Ran
<1>8. Replayed(d, e, o)
  BY <1>3, <1>5, <1>6
<1> QED
  BY <1>7, <1>8, SavedCarried DEF Replayed, SoundDoc

LEMMA ReplaySaga ==
  ASSUME IInv, DraftFollows, SInv, IInv', KInv', NEW o \in Orders, Replay(o)
  PROVE  SInv' /\ [Saga!Next]_Saga!sagaVars
<1>1. Carried(doc, doc', o) /\ SoundDoc(doc) /\ Coursed(doc)
  <2>1. doc' = Ran(doc, o, RelocationCommand) /\ RelocationCommand \in Commands
    BY DEF Replay, RelocationCommand, Commands
  <2> QED
    BY <2>1, RanCarried DEF IInv, SInv
<1>2. SoundDoc(doc') /\ KeysSound(doc')
  BY DEF IInv, KInv, SaleSound
<1>3. Coursed(doc') /\ [Saga!Next]_Saga!sagaVars
  BY <1>1, <1>2, CarriedCoursed, CarriedStep
<1>4. ASSUME NEW q \in Orders PROVE spot'[q].phase # "running"
  BY WorkflowAssumption DEF Replay, DraftFollows
<1> QED
  BY <1>3, <1>4 DEF SInv, DraftCarried

LEMMA RelocationCarries ==
  IInv /\ DraftFollows /\ KInv /\ SInv /\ [RelocationNext]_<<vars, relocationVars, due>>
    => SInv' /\ [Saga!Next]_Saga!sagaVars
<1> SUFFICES ASSUME IInv, DraftFollows, KInv, SInv,
                    [RelocationNext]_<<vars, relocationVars, due>>
             PROVE  SInv' /\ [Saga!Next]_Saga!sagaVars
  OBVIOUS
<1>1. ASSUME [Next]_vars PROVE SInv' /\ [Saga!Next]_Saga!sagaVars
  BY <1>1, NextSaga
<1>2. CASE Normal \/ UNCHANGED vars
  BY <1>1, <1>2 DEF Next
<1>3. ASSUME NEW o \in Orders, Plans(o) \/ RelocationStep(o)
      PROVE  UNCHANGED vars \/ Replay(o)
  BY <1>3 DEF Plans, RelocationStep, CreateFixture, Initialize, CheckReadiness, Relocate
<1>4. ASSUME NEW n \in Processes, WorkerStep(n) PROVE UNCHANGED vars
  BY <1>4 DEF WorkerStep, Claim, Signal, Ends
<1>5. CASE RelocationFault
  BY <1>2, <1>5 DEF RelocationFault, GivesUp, InitializedAgain, FixtureLost
<1>6. IInv' /\ KInv'
  BY RelocationKeeps
<1> QED
  BY <1>2, <1>3, <1>4, <1>5, <1>6, ReplaySaga DEF RelocationNext

\* Planned relocation is a course like any other to the saga: whatever process
\* replays an order, and however often, it goes on where it was saved.
THEOREM RelocationIsSaga == RelocationSpec => SagaSpec
<1>1. RelocationInit => Init
  BY DEF RelocationInit
<1>2. Init => DraftFollows
  BY DEF Init, DraftFollows, Closed
<1> QED
  BY InitIInv, InitSale, SagaInit, InitSaga, RelocationKeeps, RelocationCarries, <1>1, <1>2, PTL
     DEF RelocationSpec, SagaSpec, Saga!Spec

-----------------------------------------------------------------------------
(* The document store below the workflow.  As long as nobody beside it is    *)
(* late the lease makes an update atomic: the store implements AtomicStore,  *)
(* which is what the updates of the workflow above take for granted.         *)

\* A process has begun the update it is working on.
Begun == \A p \in Writers : pc[p] # "idle" => round[p] \in 1..Rounds

Shape == StoreTypeOK /\ Begun

\* Tokens tell processes apart, and none is the absent lock key.
LEMMA TokenFacts ==
  ASSUME Shape, NEW p \in Writers, pc[p] # "idle"
  PROVE  /\ Token(p) \in Tokens
         /\ Token(p) # NoToken
         /\ \A q \in Writers : Token(q) = Token(p) => q = p
BY LeaseAssumption DEF Shape, Begun, StoreTypeOK, Token, Tokens

\* The tokens of late holders, the "late" of AtomicStore.
LateTokens == {Token(p) : p \in Late}

LEMMA OpenFacts ==
  ASSUME Shape
  PROVE  /\ Open \subseteq Tokens /\ NoToken \notin Open
         /\ \A p \in Writers : pc[p] # "idle" => (Token(p) \in Open <=> p \in Holders)
<1>1. \A p \in Holders : p \in Writers /\ pc[p] # "idle"
  BY DEF Holders
<1> QED BY <1>1, TokenFacts DEF Open

LEMMA InitShape == StoreInit => Shape
BY LeaseAssumption DEF StoreInit, Shape, StoreTypeOK, Begun

LEMMA NextShape == Shape /\ [StoreNext]_storeVars => Shape'
<1> SUFFICES ASSUME Shape, [StoreNext]_storeVars
             PROVE  Shape'
  OBVIOUS
<1>0. Open \subseteq Tokens
  BY OpenFacts
<1> USE LeaseAssumption DEF Shape, StoreTypeOK, Begun
<1>1. ASSUME NEW p \in Writers, BeginUpdate(p)
      PROVE  Shape'
  BY <1>1 DEF BeginUpdate
<1>2. ASSUME NEW p \in Writers, Acquire(p)
      PROVE  Shape'
  BY <1>2, TokenFacts DEF Acquire
<1>3. ASSUME NEW p \in Writers, AcquireTimeout(p)
      PROVE  Shape'
  BY <1>3 DEF AcquireTimeout
<1>4. ASSUME NEW p \in Writers, Load(p)
      PROVE  Shape'
  BY <1>4 DEF Load
<1>5. ASSUME NEW p \in Writers, Save(p)
      PROVE  Shape'
  <2>1. Append(copy[p], Token(p)) \in Seq(Tokens)
    BY <1>5, TokenFacts DEF Save
  <2> QED BY <1>5, <2>1 DEF Save
<1>6. ASSUME NEW p \in Writers, UpdateThrows(p)
      PROVE  Shape'
  BY <1>6 DEF UpdateThrows
<1>7. ASSUME NEW p \in Writers, Unlock(p)
      PROVE  Shape'
  BY <1>7 DEF Unlock
<1>8. ASSUME NEW p \in Writers, WriterCrash(p)
      PROVE  Shape'
  BY <1>8 DEF WriterCrash
<1>9. CASE Expire
  BY <1>0, <1>9 DEF Expire
<1>10. CASE UNCHANGED storeVars
  BY <1>10 DEF storeVars
<1> QED BY <1>1, <1>2, <1>3, <1>4, <1>5, <1>6, <1>7, <1>8, <1>9, <1>10
        DEF StoreNext, WriterStep

\* The shape of the variables is kept by every step, timely or not.
THEOREM StoreTypeCorrect == StoreSpec => []StoreTypeOK
<1>1. Shape => StoreTypeOK
  BY DEF Shape
<1> QED BY InitShape, NextShape, <1>1, PTL DEF StoreSpec

-----------------------------------------------------------------------------
(* What a step does to the updates under way and to those that are late.     *)

Places == {"idle", "locking", "locked", "loaded", "unlocking", "dead"}

\* SET NX opens an update; those that were late are late still.
LEMMA AcquireOpens ==
  ASSUME Shape, NEW p \in Writers, Acquire(p)
  PROVE  Open' = Open \cup {Token(p)} /\ Late' = Late /\ LateTokens' = LateTokens
<1>0. /\ pc[p] = "locking" /\ pc \in [Writers -> Places]
      /\ pc' = [pc EXCEPT ![p] = "locked"] /\ round' = round
      /\ lease = NoToken /\ lease' = Token(p)
  BY DEF Acquire, Shape, StoreTypeOK, Places
<1>1. Holders' = Holders \cup {p} /\ p \notin Holders
  BY <1>0 DEF Holders
<1>2. \A q \in Writers : Token(q)' = Token(q)
  BY <1>0 DEF Token
<1>3. \A q \in Holders : q \in Writers /\ Token(q) # NoToken /\ Token(q) # Token(p)
  BY <1>0, <1>1, TokenFacts DEF Holders
<1>4. Open' = Open \cup {Token(p)}
  BY <1>1, <1>2, <1>3 DEF Open
<1>5. \A q \in Holders : q \in Late /\ lease' # Token(q)'
  BY <1>0, <1>2, <1>3 DEF Late
<1>6. lease' = Token(p)'
  BY <1>0, <1>2
<1>7. Late' = Late
  BY <1>1, <1>5, <1>6 DEF Late
<1>8. \A q \in Late : q \in Writers
  BY DEF Late, Holders
<1> QED BY <1>2, <1>4, <1>7, <1>8 DEF LateTokens

\* The SET, an exception and a crash close one, whoever has the lease.
LEMMA LeaveCloses ==
  ASSUME Shape, NEW p \in Holders, NEW v \in {"unlocking", "dead"},
         pc' = [pc EXCEPT ![p] = v], round' = round, lease' = lease
  PROVE  /\ Open' = Open \ {Token(p)} /\ Token(p) \in Open
         /\ Late' = Late \ {p} /\ LateTokens' = LateTokens \ {Token(p)}
<1>0. pc \in [Writers -> Places]
  BY DEF Shape, StoreTypeOK, Places
<1>1. Holders' = Holders \ {p} /\ p \in Writers /\ pc[p] # "idle"
  BY <1>0 DEF Holders
<1>2. \A q \in Writers : Token(q)' = Token(q)
  BY DEF Token
<1>3. \A q \in Holders : q \in Writers /\ (Token(q) = Token(p) => q = p)
  BY <1>1, TokenFacts DEF Holders
<1>4. Open' = Open \ {Token(p)} /\ Token(p) \in Open
  BY <1>1, <1>2, <1>3 DEF Open
<1>5. Late' = Late \ {p}
  BY <1>1, <1>2, <1>3 DEF Late
<1>6. \A q \in Late : q \in Holders
  BY DEF Late
<1> QED BY <1>2, <1>3, <1>4, <1>5, <1>6 DEF LateTokens

\* Whoever is no holder may begin, wait, fail to lock, crash and unlock, and a
\* holder load, without making anyone late.
LEMMA OthersOpenNothing ==
  ASSUME Shape, NEW p \in Writers,
         \/ BeginUpdate(p) \/ AcquireTimeout(p) \/ Load(p) \/ Unlock(p)
         \/ WriterCrash(p) /\ p \notin Holders
  PROVE  Open' = Open /\ Late' = Late /\ LateTokens' = LateTokens
<1>0. pc \in [Writers -> Places] /\ round \in [Writers -> 0..Rounds]
  BY DEF Shape, StoreTypeOK, Places
<1>1. Holders' = Holders
  BY <1>0 DEF Holders, BeginUpdate, AcquireTimeout, Load, Unlock, WriterCrash
<1>2. \A q \in Holders : q \in Writers /\ pc[q] # "idle" /\ Token(q)' = Token(q)
  BY <1>0 DEF Holders, Token, BeginUpdate, AcquireTimeout, Load, Unlock, WriterCrash
<1>3. \A q \in Holders : lease' = Token(q) <=> lease = Token(q)
  <2>1. CASE Unlock(p)
    <3>1. pc[p] = "unlocking" /\ p \notin Holders
      BY <2>1 DEF Unlock, Holders
    <3>2. \A q \in Holders : Token(q) # Token(p) /\ Token(q) # NoToken
      BY <1>2, <3>1, TokenFacts
    <3>3. lease' = lease \/ (lease = Token(p) /\ lease' = NoToken)
      BY <2>1 DEF Unlock
    <3> QED BY <3>2, <3>3
  <2>2. CASE ~Unlock(p)
    BY <2>2 DEF BeginUpdate, AcquireTimeout, Load, WriterCrash
  <2> QED BY <2>1, <2>2
<1>4. Late' = Late
  BY <1>1, <1>2, <1>3 DEF Late
<1>5. \A q \in Late : q \in Holders
  BY DEF Late
<1> QED BY <1>1, <1>2, <1>4, <1>5 DEF Open, LateTokens

\* A lease that runs out makes late the holder it was of, if it was of one.
LEMMA ExpireMakesLate ==
  ASSUME Shape, Expire
  PROVE  /\ Open' = Open
         /\ IF lease \in Open THEN LateTokens' = LateTokens \cup {lease}
            ELSE Late' = Late /\ LateTokens' = LateTokens
<1>0. pc' = pc /\ round' = round /\ lease' = NoToken
  BY DEF Expire
<1>1. Holders' = Holders /\ \A q \in Writers : Token(q)' = Token(q)
  BY <1>0 DEF Holders, Token
<1>2. \A q \in Holders : q \in Writers /\ Token(q) # NoToken
  BY TokenFacts DEF Holders
<1>3. Open' = Open
  BY <1>1, <1>2 DEF Open
<1>4. Late' = Holders
  BY <1>0, <1>1, <1>2 DEF Late
<1>5. \A q \in Holders : q \in Late \/ lease = Token(q)
  BY DEF Late
<1>6. \A q \in Late : q \in Holders
  BY DEF Late
<1>7. LateTokens' = {Token(q) : q \in Holders}
  BY <1>1, <1>2, <1>4 DEF LateTokens
<1>8. CASE lease \in Open
  <2>1. PICK h \in Holders : lease = Token(h)
    BY <1>8 DEF Open
  <2>2. \A t : t \in LateTokens' => t \in LateTokens \cup {lease}
    <3>1. \A q \in Holders : Token(q) \in LateTokens \/ Token(q) = lease
      BY <1>5 DEF LateTokens
    <3> QED BY <1>7, <3>1
  <2>3. \A t : t \in LateTokens \cup {lease} => t \in LateTokens'
    <3>1. \A t \in LateTokens : t \in LateTokens'
      BY <1>6, <1>7 DEF LateTokens
    <3>2. lease \in LateTokens'
      BY <1>7, <2>1
    <3> QED BY <3>1, <3>2
  <2>4. LateTokens' = LateTokens \cup {lease}
    <3> DEFINE before == LateTokens \cup {lease}
               after == LateTokens'
    <3>1. \A t : t \in after <=> t \in before
      BY <2>2, <2>3
    <3> HIDE DEF before, after
    <3>2. after = before
      BY <3>1
    <3> QED BY <3>2 DEF before, after
  <2> QED BY <1>3, <1>8, <2>4
<1>9. CASE lease \notin Open
  <2>1. \A q \in Holders : q \in Late
    BY <1>5, <1>9 DEF Open
  <2>2. Late = Holders
    BY <1>6, <2>1
  <2>3. LateTokens' = LateTokens
    BY <1>7, <2>2 DEF LateTokens
  <2> QED BY <1>3, <1>4, <1>9, <2>2, <2>3
<1> QED BY <1>8, <1>9

-----------------------------------------------------------------------------
LEMMA NextHolder ==
  ASSUME Shape, HolderCurrent, [StoreNext]_storeVars
  PROVE  HolderCurrent'
<1>0. /\ exposed \subseteq Open /\ (Late # {} => Open \subseteq exposed)
      /\ \A q \in Holders : Token(q) \notin exposed /\ pc[q] = "loaded" => copy[q] = saved
      /\ \A q \in Holders : q \in Writers /\ pc[q] # "idle"
  BY DEF HolderCurrent, Holders
<1>a. pc \in [Writers -> Places] /\ copy \in [Writers -> Seq(Tokens)]
  BY DEF Shape, StoreTypeOK, Places
<1>1. ASSUME NEW p \in Writers, Acquire(p)
      PROVE  HolderCurrent'
  <2>1. Open' = Open \cup {Token(p)} /\ Late' = Late
    BY <1>1, AcquireOpens
  <2>2. exposed' = IF Late = {} THEN exposed ELSE exposed \cup {Token(p)}
    BY <1>1 DEF Acquire
  <2>3. ASSUME NEW q \in Holders', Token(q)' \notin exposed', pc'[q] = "loaded"
        PROVE  copy'[q] = saved'
    BY <1>0, <1>a, <1>1, <2>2, <2>3 DEF Acquire, Holders, Token
  <2> QED BY <1>0, <2>1, <2>2, <2>3 DEF HolderCurrent
<1>2. ASSUME NEW p \in Writers, Save(p)
      PROVE  HolderCurrent'
  <2>1. p \in Holders /\ pc[p] = "loaded"
    BY <1>2 DEF Save, Holders
  <2>2. Open' = Open \ {Token(p)} /\ Late' = Late \ {p}
    BY <1>2, <2>1, LeaveCloses DEF Save
  <2>3. ASSUME NEW q \in Holders', Token(q)' \notin exposed', pc'[q] = "loaded"
        PROVE  copy'[q] = saved'
    \* Of two holders one is late, and then both are exposed.
    <3>1. q \in Holders /\ q # p /\ Token(q)' = Token(q)
      BY <1>a, <1>2, <2>3 DEF Save, Holders, Token
    <3>2. Token(q) # Token(p) /\ Token(q) \in Open
      BY <1>0, <2>1, <3>1, OpenFacts, TokenFacts
    <3>3. p \in Late \/ q \in Late
      BY <2>1, <3>1, <3>2 DEF Late
    <3>4. Token(q) \in exposed'
      BY <1>0, <1>2, <3>2, <3>3 DEF Save
    <3> QED BY <2>3, <3>1, <3>4
  <2>4. exposed' = exposed \ {Token(p)}
    BY <1>2 DEF Save
  <2> QED BY <1>0, <2>2, <2>3, <2>4 DEF HolderCurrent
<1>3. ASSUME NEW p \in Holders, UpdateThrows(p) \/ WriterCrash(p)
      PROVE  HolderCurrent'
  <2>1. p \in Writers
    BY DEF Holders
  <2>2. Open' = Open \ {Token(p)} /\ Late' = Late \ {p}
    BY <1>3, LeaveCloses DEF UpdateThrows, WriterCrash
  <2>3. ASSUME NEW q \in Holders', Token(q)' \notin exposed', pc'[q] = "loaded"
        PROVE  copy'[q] = saved'
    <3>1. q \in Holders /\ q # p /\ Token(q)' = Token(q) /\ pc[q] = "loaded"
      BY <1>a, <1>3, <2>3 DEF UpdateThrows, WriterCrash, Holders, Token
    <3>2. Token(q) # Token(p)
      BY <1>0, <2>1, <3>1, TokenFacts
    <3> QED BY <1>0, <1>3, <2>3, <3>1, <3>2 DEF UpdateThrows, WriterCrash
  <2>4. exposed' = exposed \ {Token(p)}
    BY <1>3 DEF UpdateThrows, WriterCrash
  <2> QED BY <1>0, <2>2, <2>3, <2>4 DEF HolderCurrent
<1>4. ASSUME NEW p \in Writers,
             \/ BeginUpdate(p) \/ AcquireTimeout(p) \/ Load(p) \/ Unlock(p)
             \/ WriterCrash(p) /\ p \notin Holders
      PROVE  HolderCurrent'
  <2>1. Open' = Open /\ Late' = Late
    BY <1>4, OthersOpenNothing
  <2>2. exposed' = exposed
    <3>1. CASE WriterCrash(p) /\ p \notin Holders
      <4>1. Token(p) \notin exposed
        BY <1>0, <3>1, OpenFacts DEF WriterCrash
      <4> QED BY <3>1, <4>1 DEF WriterCrash
    <3>2. CASE BeginUpdate(p) \/ AcquireTimeout(p) \/ Load(p) \/ Unlock(p)
      BY <3>2 DEF BeginUpdate, AcquireTimeout, Load, Unlock
    <3> QED BY <1>4, <3>1, <3>2
  <2>3. ASSUME NEW q \in Holders', Token(q)' \notin exposed', pc'[q] = "loaded"
        PROVE  copy'[q] = saved'
    <3>1. CASE Load(p)
      <4>1. copy' = [copy EXCEPT ![p] = saved] /\ saved' = saved
            /\ pc' = [pc EXCEPT ![p] = "loaded"] /\ round' = round
        BY <3>1 DEF Load
      <4>2. q # p => q \in Holders /\ pc[q] = "loaded" /\ Token(q)' = Token(q)
        BY <1>a, <2>3, <4>1 DEF Holders, Token
      <4> QED BY <1>0, <1>a, <2>2, <2>3, <4>1, <4>2
    <3>2. CASE ~Load(p)
      <4>1. q \in Holders /\ pc[q] = "loaded" /\ Token(q)' = Token(q)
        BY <1>4, <1>a, <2>3, <3>2
           DEF BeginUpdate, AcquireTimeout, Unlock, WriterCrash, Holders, Token, Shape, StoreTypeOK
      <4>2. copy' = copy /\ saved' = saved
        BY <1>4, <3>2 DEF BeginUpdate, AcquireTimeout, Unlock, WriterCrash
      <4> QED BY <1>0, <2>2, <2>3, <4>1, <4>2
    <3> QED BY <3>1, <3>2
  <2> QED BY <1>0, <2>1, <2>2, <2>3 DEF HolderCurrent
<1>5. CASE Expire
  <2>1. Open' = Open /\ (lease \notin Open => Late' = Late)
    BY <1>5, ExpireMakesLate
  <2>2. exposed' = IF lease \in Open THEN exposed \cup Open ELSE exposed
    BY <1>5 DEF Expire
  <2>3. ASSUME NEW q \in Holders', Token(q)' \notin exposed', pc'[q] = "loaded"
        PROVE  copy'[q] = saved'
    BY <1>0, <1>5, <2>2, <2>3 DEF Expire, Holders, Token
  <2> QED BY <1>0, <2>1, <2>2, <2>3 DEF HolderCurrent
<1>6. CASE UNCHANGED storeVars
  BY <1>6 DEF storeVars, HolderCurrent, Holders, Late, Open, Token
<1>7. \A p \in Writers : UpdateThrows(p) => p \in Holders
  BY DEF UpdateThrows, Holders
<1> QED BY <1>1, <1>2, <1>3, <1>4, <1>5, <1>6, <1>7 DEF StoreNext, WriterStep

\* Holders of the lock: while nobody is late, or has been beside it, a process
\* that has loaded the document has the saved document.
THEOREM HolderIsCurrent == StoreSpec => []HolderCurrent
<1>1. StoreInit => HolderCurrent
  <2>1. StoreInit => Holders = {}
    BY DEF StoreInit, Holders
  <2> QED BY <2>1 DEF StoreInit, HolderCurrent, Late, Open
<1>2. Shape /\ HolderCurrent /\ [StoreNext]_storeVars => HolderCurrent'
  BY NextHolder
<1> QED BY InitShape, NextShape, <1>1, <1>2, PTL DEF StoreSpec

LEMMA StepIsAtomic ==
  ASSUME Shape, HolderCurrent, [StoreNext]_storeVars
  PROVE  [Atomic!Next]_Atomic!atomicVars
<1> USE DEF LateTokens
<1>0. ASSUME NEW p \in Writers, pc[p] # "idle"
      PROVE  Token(p) \in Tokens
  BY <1>0, TokenFacts
<1>1. ASSUME NEW p \in Writers, Acquire(p)
      PROVE  Atomic!Next
  <2>1. Open' = Open \cup {Token(p)} /\ LateTokens' = LateTokens
    BY <1>1, AcquireOpens
  <2>2. Late = {} <=> LateTokens = {}
    OBVIOUS
  <2>3. exposed' = (IF LateTokens = {} THEN exposed ELSE exposed \cup {Token(p)}) /\ saved' = saved
    BY <1>1, <2>2 DEF Acquire
  <2>4. Atomic!Begin(Token(p))
    BY <2>1, <2>3 DEF Atomic!Begin
  <2>5. Token(p) \in Tokens
    BY <1>0, <1>1 DEF Acquire
  <2> QED BY <2>4, <2>5 DEF Atomic!Next
<1>2. ASSUME NEW p \in Writers, Save(p)
      PROVE  Atomic!Next
  <2>1. p \in Holders /\ pc[p] = "loaded"
    BY <1>2 DEF Save, Holders
  <2>2. /\ Open' = Open \ {Token(p)} /\ Token(p) \in Open
        /\ LateTokens' = LateTokens \ {Token(p)}
    BY <1>2, <2>1, LeaveCloses DEF Save
  <2>3. Atomic!Leave(Token(p))
    BY <1>2, <2>2 DEF Save, Atomic!Leave
  <2>4. saved' = Append(copy[p], Token(p)) /\ copy[p] \in Seq(Tokens) /\ Token(p) \in Tokens
    BY <1>0, <1>2, <2>1 DEF Save, Shape, StoreTypeOK
  <2>5. saved' # <<>> /\ saved'[Len(saved')] = Token(p)
    BY <2>4
  <2>6. Token(p) \notin exposed => saved' = Append(saved, Token(p))
    BY <2>1, <2>4 DEF HolderCurrent
  <2>7. Atomic!Update(Token(p))
    BY <2>3, <2>5, <2>6 DEF Atomic!Update
  <2> QED BY <2>4, <2>7 DEF Atomic!Next
<1>3. ASSUME NEW p \in Holders, UpdateThrows(p) \/ WriterCrash(p)
      PROVE  Atomic!Next
  <2>1. /\ Open' = Open \ {Token(p)} /\ Token(p) \in Open
        /\ LateTokens' = LateTokens \ {Token(p)}
    BY <1>3, LeaveCloses DEF UpdateThrows, WriterCrash
  <2>2. Atomic!Drop(Token(p))
    BY <1>3, <2>1 DEF UpdateThrows, WriterCrash, Atomic!Drop, Atomic!Leave
  <2>3. Token(p) \in Tokens
    BY <1>0 DEF Holders
  <2> QED BY <2>2, <2>3 DEF Atomic!Next
<1>4. ASSUME NEW p \in Writers,
             \/ BeginUpdate(p) \/ AcquireTimeout(p) \/ Load(p) \/ Unlock(p)
             \/ WriterCrash(p) /\ p \notin Holders
      PROVE  UNCHANGED Atomic!atomicVars
  <2>1. Open' = Open /\ LateTokens' = LateTokens
    BY <1>4, OthersOpenNothing
  <2>2. exposed' = exposed /\ saved' = saved
    <3>1. CASE WriterCrash(p) /\ p \notin Holders
      <4>1. Token(p) \notin exposed
        BY <3>1, OpenFacts DEF WriterCrash, HolderCurrent
      <4> QED BY <3>1, <4>1 DEF WriterCrash
    <3>2. CASE BeginUpdate(p) \/ AcquireTimeout(p) \/ Load(p) \/ Unlock(p)
      BY <3>2 DEF BeginUpdate, AcquireTimeout, Load, Unlock
    <3> QED BY <1>4, <3>1, <3>2
  <2> QED BY <2>1, <2>2 DEF Atomic!atomicVars
<1>5. CASE Expire
  <2>1. /\ Open' = Open
        /\ IF lease \in Open THEN LateTokens' = LateTokens \cup {lease}
           ELSE LateTokens' = LateTokens
    BY <1>5, ExpireMakesLate
  <2>2. saved' = saved /\ exposed' = IF lease \in Open THEN exposed \cup Open ELSE exposed
    BY <1>5 DEF Expire
  <2>3. CASE lease \in Open
    <3>1. Atomic!Lapse(lease)
      BY <2>1, <2>2, <2>3 DEF Atomic!Lapse
    <3>2. lease \in Tokens
      BY <2>3, OpenFacts
    <3> QED BY <3>1, <3>2 DEF Atomic!Next
  <2>4. CASE lease \notin Open
    BY <2>1, <2>2, <2>4 DEF Atomic!atomicVars
  <2> QED BY <2>3, <2>4
<1>6. CASE UNCHANGED storeVars
  BY <1>6 DEF storeVars, Holders, Late, Open, Token, Atomic!atomicVars
<1>7. \A p \in Writers : UpdateThrows(p) => p \in Holders
  BY DEF UpdateThrows, Holders
<1> QED BY <1>1, <1>2, <1>3, <1>4, <1>5, <1>6, <1>7 DEF StoreNext, WriterStep

\* Every SET of the document is one atomic update of the document before it: a
\* saved update is lost, or one applied to a stale document, only by an update
\* beside which a lease was outlived.
THEOREM StoreIsAtomic == StoreSpec => SerializedUpdates
<1>1. StoreInit => Atomic!Init
  <2>1. StoreInit => Holders = {}
    BY DEF StoreInit, Holders
  <2> QED BY <2>1 DEF StoreInit, Atomic!Init, Late, Open
<1>2. Shape /\ HolderCurrent /\ [StoreNext]_storeVars => [Atomic!Next]_Atomic!atomicVars
  BY StepIsAtomic
<1> QED BY InitShape, NextShape, HolderIsCurrent, <1>1, <1>2, PTL
        DEF StoreSpec, SerializedUpdates, Atomic!Spec

\* If holders finish within their lease no saved update is ever lost, whatever
\* crashes, exceptions, timeouts and failed unlocks do.
THEOREM TimelyStoreIsLossless == StoreSpec /\ [](Late = {}) => Atomic!Lossless
<1>1. StoreInit => exposed = {}
  BY DEF StoreInit
<1>2. Shape /\ exposed = {} /\ Late = {} /\ (Late = {})' /\ [StoreNext]_storeVars => (exposed = {})'
  <2> SUFFICES ASSUME Shape, exposed = {}, Late = {}, Late' = {}, [StoreNext]_storeVars
               PROVE  exposed' = {}
    OBVIOUS
  <2>1. Expire => lease \notin Open
    <3>1. ASSUME Expire, lease \in Open
          PROVE  FALSE
      <4>1. LateTokens' = LateTokens \cup {lease}
        BY <3>1, ExpireMakesLate
      <4> QED BY <4>1 DEF LateTokens
    <3> QED BY <3>1
  <2> QED BY <2>1
          DEF StoreNext, WriterStep, BeginUpdate, Acquire, AcquireTimeout, Load, Save, UpdateThrows,
              Unlock, WriterCrash, Expire, storeVars
<1>3. Shape /\ HolderCurrent /\ exposed = {} /\ [StoreNext]_storeVars
        => [\E u \in Tokens : saved' = Append(saved, u)]_saved
  <2> SUFFICES ASSUME Shape, HolderCurrent, exposed = {}, [StoreNext]_storeVars
               PROVE  [\E u \in Tokens : saved' = Append(saved, u)]_saved
    OBVIOUS
  <2>1. ASSUME NEW p \in Writers, Save(p)
        PROVE  \E u \in Tokens : saved' = Append(saved, u)
    <3>1. copy[p] = saved /\ Token(p) \in Tokens
      BY <2>1, TokenFacts DEF Save, HolderCurrent, Holders
    <3> QED BY <2>1, <3>1 DEF Save
  <2>2. ASSUME \A p \in Writers : ~Save(p)
        PROVE  saved' = saved
    BY <2>2 DEF StoreNext, WriterStep, BeginUpdate, Acquire, AcquireTimeout, Load,
                      UpdateThrows, Unlock, WriterCrash, Expire, storeVars
  <2> QED BY <2>1, <2>2
<1> QED BY InitShape, NextShape, HolderIsCurrent, <1>1, <1>2, <1>3, PTL
        DEF StoreSpec, Atomic!Lossless

=============================================================================
