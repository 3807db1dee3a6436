-------------------------- MODULE MCDeliveryDispatch --------------------------
(* TLC instance of the delivery service.  focus is chosen once: "one" follows *)
(* one delivery through every loss; "two" follows two of them without loss,   *)
(* one of which bound couriers answer; "gateway" one that no courier takes,   *)
(* with the customer's sessions.                                              *)
EXTENDS CustomerGateway

CONSTANTS r1, r2

VARIABLE focus

MCDistinct == [r \in Requests |-> r]       \* every request is a new delivery

MCVars == <<vars, gatewayVars, focus>>

MCInit ==
  /\ Init /\ GatewayInit
  /\ focus \in {"one", "two", "gateway"}
  /\ focus = "two" => customer /\ bound = Couriers
  /\ focus = "gateway" => ~customer /\ bound = {}

Dispatching == UNCHANGED <<gatewayVars, focus>>

Dispatch == Channel \/ Sweep \/ \E d \in Deliveries : DeadlinePasses(d)

\* The step of a coroutine; Tracking tells the gateway if it is in focus.
Work(t) ==
  IF focus = "gateway" /\ t.pc = "publish" THEN TrackAndTell(t) /\ UNCHANGED focus
                                          ELSE Coroutine(t) /\ Dispatching

MCNext ==
  \/ focus = "one" /\ Next /\ r2 \notin posted' /\ Dispatching
  \/ focus = "two" /\ Normal /\ (\A x \in answers' : x.req = r1) /\ Dispatching
  \/ focus = "gateway" /\ (Create(r1) \/ Dispatch) /\ Dispatching
  \/ focus = "gateway" /\ \E t \in tasks : Work(t)
  \/ /\ focus = "gateway" /\ GatewayNext /\ UNCHANGED focus
     /\ \A s \in Sessions : subscribing'[s] # None => subscribing'[s].delivery = r1

MCFairness ==
  /\ \A r \in Requests :
       /\ WF_MCVars(AdmitAssign(r) /\ Dispatching)
       /\ WF_MCVars(\E t \in tasks : t.req = r /\ Work(t))
  /\ WF_MCVars(Sweep /\ Dispatching)
  /\ \A d \in Deliveries : WF_MCVars(DeadlinePasses(d) /\ Dispatching)

MCSpec == MCInit /\ [][MCNext]_MCVars /\ MCFairness
=============================================================================
