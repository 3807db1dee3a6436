---------------------------- MODULE CustomerGateway ----------------------------
(***************************************************************************)
(* The customer gateway of DeliveryDispatch (Server/CustomerGateway/       *)
(* main.cpp), composed with the dispatch that produces the statuses:       *)
(* Tracking sends every status it logs to the customer's actor, one-way,   *)
(* and the actor pushes it to its bound session if the gateway's directory *)
(* has a subscription of that delivery.                                    *)
(*                                                                         *)
(* A session handles one packet at a time; the awaits inside a subscribe   *)
(* are steps of their own, and statuses arrive between them, or the        *)
(* disconnect of the stream, after which it goes on or fails.  The sample  *)
(* has one customer, so all sessions bind the same actor; the framework    *)
(* pushes to the session that bound it last.                               *)
(*                                                                         *)
(* Bound: a session connects once and subscribes to each delivery once.    *)
(***************************************************************************)
EXTENDS DeliveryDispatch

CONSTANTS Sessions, NoSession

VARIABLES
  stream,        \* per session: "new", "open", "closed"
  subscribing,   \* per session: its subscribe under way, or None
  bindings,      \* sessions whose _bound_actors holds the customer
  boundSession,  \* the session the actor pushes to
  subscriptions, \* customer_session_directory_t: subscribed deliveries
  updates,       \* DeliveryStatusUpdatedMsg on the way to the actor, in order
  confirmed,     \* history: <<session, delivery>> answered with the reply
  missed,        \* history: <<session, delivery>> that should have been told
  shared         \* history: two sessions were there at one time

gatewayVars == <<stream, subscribing, bindings, boundSession, subscriptions,
                 updates, confirmed, missed, shared>>

GatewayInit ==
  /\ stream = [s \in Sessions |-> "new"]
  /\ subscribing = [s \in Sessions |-> None]
  /\ bindings = {}
  /\ boundSession = NoSession
  /\ subscriptions = {}
  /\ updates = <<>>
  /\ confirmed = {} /\ missed = {} /\ shared = FALSE

Connected == {s \in Sessions : stream[s] = "open"}

Connect(s) ==
  /\ stream[s] = "new"
  /\ stream' = [stream EXCEPT ![s] = "open"]
  /\ shared' = (shared \/ Connected # {} \/ \E r \in Sessions : subscribing[r] # None)
  /\ UNCHANGED <<subscribing, bindings, boundSession, subscriptions, updates,
                 confirmed, missed, vars>>

-----------------------------------------------------------------------------
(* customer_gateway_session_t::on_packet *)

\* SubscribeDeliveryReq: get_or_create finds or creates the customer's actor.
Subscribe(s, d) ==
  /\ stream[s] = "open" /\ subscribing[s] = None
  /\ <<s, d>> \notin confirmed
  /\ subscribing' = [subscribing EXCEPT ![s] =
       [delivery |-> d, at |-> IF s \in bindings THEN "relay" ELSE "bind"]]
  /\ IF customer THEN UNCHANGED vars ELSE SubscribeCustomer
  /\ UNCHANGED <<stream, bindings, boundSession, subscriptions, updates,
                 confirmed, missed, shared>>

\* bind_or_get
Bind(s) ==
  /\ subscribing[s] # None /\ subscribing[s].at = "bind"
  /\ bindings' = bindings \cup {s}
  /\ boundSession' = s
  /\ subscribing' = [subscribing EXCEPT ![s].at = "relay"]
  /\ UNCHANGED <<stream, subscriptions, updates, confirmed, missed, shared, vars>>

\* Mutant: the reply is sent before the subscription is registered.
MutRelay(s) ==
  /\ subscribing[s] # None /\ subscribing[s].at = "relay"
  /\ subscribing' = [subscribing EXCEPT ![s].at = "register"]
  /\ confirmed' = confirmed \cup {<<s, subscribing[s].delivery>>}
  /\ UNCHANGED <<stream, bindings, boundSession, subscriptions, updates,
                 missed, shared, vars>>

\* relay_request: the actor's subscribe_delivery only echoes the delivery.
Relay(s) ==
  /\ subscribing[s] # None /\ subscribing[s].at = "relay"
  /\ subscribing' = [subscribing EXCEPT ![s].at = "register"]
  /\ UNCHANGED <<stream, bindings, boundSession, subscriptions, updates,
                 confirmed, missed, shared, vars>>

\* customer_session_directory_t::subscribe, and the reply to the client.
Register(s) ==
  /\ subscribing[s] # None /\ subscribing[s].at = "register"
  /\ subscriptions' = subscriptions \cup {subscribing[s].delivery}
  /\ confirmed' = confirmed \cup {<<s, subscribing[s].delivery>>}
  /\ subscribing' = [subscribing EXCEPT ![s] = None]
  /\ UNCHANGED <<stream, bindings, boundSession, updates, missed, shared, vars>>

\* The binding or the request that is awaited fails.
SubscribeFails(s) ==
  /\ subscribing[s] # None /\ subscribing[s].at # "register"
  /\ subscribing' = [subscribing EXCEPT ![s] = None]
  /\ UNCHANGED <<stream, bindings, boundSession, subscriptions, updates,
                 confirmed, missed, shared, vars>>

\* on_disconnected: unsubscribe_customer drops every subscription of the
\* customer, whichever session made it; a subscribe under way goes on.
Disconnect(s) ==
  /\ stream[s] = "open"
  /\ stream' = [stream EXCEPT ![s] = "closed"]
  /\ bindings' = bindings \ {s}
  /\ boundSession' = IF boundSession = s THEN NoSession ELSE boundSession
  /\ subscriptions' = IF s \in bindings THEN {} ELSE subscriptions
  /\ UNCHANGED <<subscribing, updates, confirmed, missed, shared, vars>>

-----------------------------------------------------------------------------
(* Statuses *)

\* Tracking logs a status and, if it finds the actor, sends it there.
TrackAndTell(t) ==
  /\ Track(t)
  /\ updates' = IF customer THEN Append(updates, [delivery |-> Delivery[t.req], after |-> confirmed])
                ELSE updates
  /\ UNCHANGED <<stream, subscribing, bindings, boundSession, subscriptions,
                 confirmed, missed, shared>>

\* customer_entry_spot_t::status_updated: pushed to the bound session, or
\* ignored when there is no subscription.
StatusUpdated ==
  /\ updates # <<>>
  /\ LET m == Head(updates)
         told == IF m.delivery \in subscriptions THEN {boundSession} ELSE {}
     IN  missed' = missed \cup {<<s, m.delivery>> : s \in
           {r \in Connected \ told : <<r, m.delivery>> \in m.after}}
  /\ updates' = Tail(updates)
  /\ UNCHANGED <<stream, subscribing, bindings, boundSession, subscriptions,
                 confirmed, shared, vars>>

LoseUpdate ==
  /\ updates # <<>>
  /\ updates' = Tail(updates)
  /\ UNCHANGED <<stream, subscribing, bindings, boundSession, subscriptions,
                 confirmed, missed, shared, vars>>

GatewayNext ==
  \/ \E s \in Sessions :
       \/ Connect(s) \/ Bind(s) \/ Relay(s) \/ Register(s) \/ SubscribeFails(s)
       \/ Disconnect(s)
       \/ \E d \in Deliveries : Subscribe(s, d)
  \/ StatusUpdated \/ LoseUpdate

\* The whole service: every status goes through Tracking, which tells the
\* gateway, and only a subscribe creates the customer's actor.
ServiceNext ==
  \/ Next /\ UNCHANGED <<evidence, customer, gatewayVars>>
  \/ \E t \in tasks : TrackAndTell(t)
  \/ GatewayNext

ServiceSpec ==
  Init /\ GatewayInit /\ [][ServiceNext]_<<vars, gatewayVars>>

-----------------------------------------------------------------------------
\* A session whose subscribe was answered is pushed every later status that
\* reaches the actor while it is connected, as long as the customer's sessions
\* follow one another: two at a time share one binding, and the first to go
\* takes the other's subscriptions with it.
SubscriberIsTold == ~shared => missed = {}
=============================================================================
