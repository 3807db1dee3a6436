------------------------------ MODULE SupportChat ------------------------------
(***************************************************************************)
(* The conversations of SupportChat (samples/SupportChat/Server/Support):  *)
(* conversation_t and its Spot, the deferred joins of customers and of the *)
(* agents' conversation actors, the idle timer, and the assignment service *)
(* they share.  A handler changes its own Spot and calls the locked        *)
(* service at most once, so handlers of different Spots are single steps.  *)
(*                                                                         *)
(* A customer joins the conversation it opened, again if that join is      *)
(* given up, and an agent the conversations it was notified of.  Deadlines *)
(* are "none", "armed" or, once their time has passed, "due".              *)
(*                                                                         *)
(* Bounds: MaxMessages messages per conversation, MaxRejoins joins of      *)
(* agents that are already in it.                                          *)
(***************************************************************************)
EXTENDS AgentAssignment

CONSTANTS Customer, MaxMessages, MaxRejoins

ASSUME SupportAssumption ==
  /\ Customer \notin Agents /\ Customer # None
  /\ MaxMessages \in Nat /\ MaxRejoins \in Nat

VARIABLES
  conv,      \* the conversations
  customer,  \* per conversation: where its customer's join is
  pending,   \* the Spot's _pending_agent_assignments for its customer
  told,      \* per conversation: the agents notified of it
  agent,     \* per conversation and agent: where the agent's join is
  rejoins    \* per conversation: joins by agents already in it

vars == <<assignmentVars, conv, customer, pending, told, agent, rejoins>>

People == Agents \cup {Customer}
Joining == {"none", "asked", "admitted", "joined"}
Coming == {"asked", "admitted", "lost"}

NewConversation ==
  [status |-> "none", agent |-> None, people |-> {}, seq |-> 0,
   idle |-> "none", close |-> "none"]

Init ==
  /\ AssignmentInit
  /\ conv = [c \in Conversations |-> NewConversation]
  /\ customer = [c \in Conversations |-> "none"]
  /\ pending = [c \in Conversations |-> None]
  /\ told = [c \in Conversations |-> {}]
  /\ agent = [c \in Conversations |-> [a \in Agents |-> "none"]]
  /\ rejoins = [c \in Conversations |-> 0]

Open(c) == conv[c].status \notin {"none", "closed"}

-----------------------------------------------------------------------------
(* conversation_t *)

JoinCustomer(v) == [v EXCEPT !.people = @ \cup {Customer}]

AssignAgent(v, a) == [v EXCEPT !.agent = a]

JoinAgent(v, a) ==
  [v EXCEPT !.agent = a, !.status = "active", !.people = @ \cup {a}]

\* send_message: a message calls back a conversation that waits for its close.
Write(v) ==
  [v EXCEPT !.seq = @ + 1, !.idle = "armed",
            !.status = IF @ = "waitingForClose" THEN "active" ELSE @,
            !.close = IF v.status = "waitingForClose" THEN "none" ELSE @]

\* Mutant: the close deadline is not set when the conversation turns idle.
MutTurnIdle(v) == [v EXCEPT !.status = "waitingForClose"]

TurnIdle(v) == [v EXCEPT !.status = "waitingForClose", !.close = "armed"]

Closed(v) == [v EXCEPT !.status = "closed", !.close = "none"]

-----------------------------------------------------------------------------
(* Agents and their availability *)

\* SetAgentAvailableReq, and the disconnect of the roster actor.
GoOnline(a) ==
  /\ SetAvailable(a)
  /\ UNCHANGED <<conv, customer, pending, told, agent, rejoins>>

GoOffline(a) ==
  /\ a \in available
  /\ SetUnavailable(a)
  /\ UNCHANGED <<conv, customer, pending, told, agent, rejoins>>

-----------------------------------------------------------------------------
(* The customer *)

\* open_conversation: the API server creates the Spot.
Create(c) ==
  /\ conv[c].status = "none"
  /\ conv' = [conv EXCEPT ![c].status = "waiting"]
  /\ customer' = [customer EXCEPT ![c] = "opening"]
  /\ UNCHANGED <<assignmentVars, pending, told, agent, rejoins>>

\* The API's reply arrives and the join is deferred, or the request fails.
Opened(c) ==
  /\ customer[c] = "opening"
  /\ \E next \in {"asked", "none"} : customer' = [customer EXCEPT ![c] = next]
  /\ UNCHANGED <<assignmentVars, conv, pending, told, agent, rejoins>>

\* on_actor_join of the customer reserves an agent, if none is reserved.
CustomerAdmitted(c) ==
  /\ customer[c] = "asked"
  /\ Open(c)
  /\ Assign(c)
  /\ pending' = [pending EXCEPT ![c] = IF Chosen(c) = None THEN @ ELSE Chosen(c)]
  /\ customer' = [customer EXCEPT ![c] = "admitted"]
  /\ UNCHANGED <<conv, told, agent, rejoins>>

\* The runtime gives the join up; the reservation, if any, stays.
CustomerLost(c) ==
  /\ customer[c] \in {"asked", "admitted"}
  /\ customer' = [customer EXCEPT ![c] = "lost"]
  /\ UNCHANGED <<assignmentVars, conv, pending, told, agent, rejoins>>

\* The customer, still at the Entry Spot, names the conversation in a join.
CustomerAsks(c) ==
  /\ customer[c] = "lost"
  /\ customer' = [customer EXCEPT ![c] = "asked"]
  /\ UNCHANGED <<assignmentVars, conv, pending, told, agent, rejoins>>

\* on_actor_joined, join_actor: the reserved agent is assigned and its roster
\* actor notified, if it is connected.
CustomerArrives(c) ==
  /\ customer[c] = "admitted"
  /\ Open(c)
  /\ customer' = [customer EXCEPT ![c] = "joined"]
  /\ pending' = [pending EXCEPT ![c] = None]
  /\ LET a == pending[c]
         v == JoinCustomer(conv[c])
     IN  /\ conv' = [conv EXCEPT ![c] = IF a = None THEN v ELSE AssignAgent(v, a)]
         /\ told' \in {told, IF a = None THEN told
                             ELSE [told EXCEPT ![c] = @ \cup {a}]}
  /\ UNCHANGED <<assignmentVars, agent, rejoins>>

-----------------------------------------------------------------------------
(* The agent's conversation actor *)

AgentAsks(c, a) ==
  /\ a \in told[c] /\ agent[c][a] = "none"
  /\ agent' = [agent EXCEPT ![c][a] = "asked"]
  /\ UNCHANGED <<assignmentVars, conv, customer, pending, told, rejoins>>

AgentAdmitted(c, a) ==
  /\ agent[c][a] = "asked"
  /\ Open(c)
  /\ agent' = [agent EXCEPT ![c][a] = "admitted"]
  /\ UNCHANGED <<assignmentVars, conv, customer, pending, told, rejoins>>

\* join_agent throws in on_actor_join, or the runtime gives the join up.
AgentRefused(c, a) ==
  /\ agent[c][a] \in {"asked", "admitted"}
  /\ agent' = [agent EXCEPT ![c][a] = "none"]
  /\ UNCHANGED <<assignmentVars, conv, customer, pending, told, rejoins>>

\* join_agent throws for a conversation closed since the admission: the actor
\* is in the Spot but not a participant.
AgentArrives(c, a) ==
  /\ agent[c][a] = "admitted"
  /\ agent' = [agent EXCEPT ![c][a] = "joined"]
  /\ conv' = IF Open(c) THEN [conv EXCEPT ![c] = JoinAgent(@, a)] ELSE conv
  /\ UNCHANGED <<assignmentVars, customer, pending, told, rejoins>>

\* The Spot's own join handler, for an agent that has reconnected.
AgentRejoins(c, a) ==
  /\ agent[c][a] = "joined" /\ rejoins[c] < MaxRejoins
  /\ Open(c)
  /\ conv' = [conv EXCEPT ![c] = JoinAgent(@, a)]
  /\ rejoins' = [rejoins EXCEPT ![c] = @ + 1]
  /\ UNCHANGED <<assignmentVars, customer, pending, told, agent>>

-----------------------------------------------------------------------------
(* The conversation *)

InSpot(c, p) ==
  IF p = Customer THEN customer[c] = "joined" ELSE agent[c][p] = "joined"

\* Mutant: a closed conversation accepts messages.
MutCanWrite(c, p) == p \in conv[c].people

CanWrite(c, p) == p \in conv[c].people /\ conv[c].status # "closed"

SendMessage(c, p) ==
  /\ InSpot(c, p) /\ CanWrite(c, p)
  /\ conv[c].seq < MaxMessages
  /\ conv' = [conv EXCEPT ![c] = Write(@)]
  /\ UNCHANGED <<assignmentVars, customer, pending, told, agent, rejoins>>

CloseConversation(c, p) ==
  /\ InSpot(c, p)
  /\ Open(c)
  /\ conv' = [conv EXCEPT ![c] = Closed(@)]
  /\ Release(c)
  /\ UNCHANGED <<customer, pending, told, agent, rejoins>>

TurnsIdle(v) == v.status = "active" /\ v.idle = "due"
TurnsClosed(v) == v.status = "waitingForClose" /\ v.close = "due"

\* on_idle_tick
IdleTick(c) ==
  /\ TurnsIdle(conv[c])
  /\ conv' = [conv EXCEPT ![c] = TurnIdle(@)]
  /\ UNCHANGED <<assignmentVars, customer, pending, told, agent, rejoins>>

\* Mutant: the timer does not release.
MutKeepTick(c) ==
  /\ TurnsClosed(conv[c])
  /\ conv' = [conv EXCEPT ![c] = Closed(@)]
  /\ UNCHANGED <<assignmentVars, customer, pending, told, agent, rejoins>>

CloseTick(c) ==
  /\ TurnsClosed(conv[c])
  /\ conv' = [conv EXCEPT ![c] = Closed(@)]
  /\ Release(c)
  /\ UNCHANGED <<customer, pending, told, agent, rejoins>>

TimePasses(c) ==
  /\ Open(c)
  /\ \/ /\ conv[c].idle = "armed"
        /\ conv' = [conv EXCEPT ![c].idle = "due"]
     \/ /\ conv[c].close = "armed"
        /\ conv' = [conv EXCEPT ![c].close = "due"]
  /\ UNCHANGED <<assignmentVars, customer, pending, told, agent, rejoins>>

-----------------------------------------------------------------------------
Timer(c) == IdleTick(c) \/ CloseTick(c)

CustomerStep(c) ==
  \/ Create(c) \/ Opened(c)
  \/ CustomerAdmitted(c) \/ CustomerLost(c) \/ CustomerAsks(c)
  \/ CustomerArrives(c)

AgentStep(c, a) ==
  \/ AgentAsks(c, a) \/ AgentAdmitted(c, a) \/ AgentRefused(c, a)
  \/ AgentArrives(c, a) \/ AgentRejoins(c, a)

Talk(c) == \E p \in People : SendMessage(c, p) \/ CloseConversation(c, p)

Next ==
  \/ \E a \in Agents : GoOnline(a) \/ GoOffline(a)
  \/ \E c \in Conversations :
       \/ CustomerStep(c) \/ Talk(c) \/ Timer(c) \/ TimePasses(c)
       \/ \E a \in Agents : AgentStep(c, a)

Spec == Init /\ [][Next]_vars

-----------------------------------------------------------------------------
Conversation ==
  [status : {"none", "waiting", "active", "waitingForClose", "closed"},
   agent : Agents \cup {None}, people : SUBSET People, seq : Nat,
   idle : {"none", "armed", "due"}, close : {"none", "armed", "due"}]

\* The shape of every variable.
TypeOK ==
  /\ AssignmentTypeOK
  /\ conv \in [Conversations -> Conversation]
  /\ customer \in [Conversations -> Joining \cup {"opening", "lost"}]
  /\ pending \in [Conversations -> Agents \cup {None}]
  /\ told \in [Conversations -> SUBSET Agents]
  /\ agent \in [Conversations -> [Agents -> Joining]]
  /\ rejoins \in [Conversations -> Nat]

\* A reservation is held by an open conversation only: close and the timer
\* give it back exactly once, whatever joins are still on their way.
ReservedIsOpen == \A c \in Conversations : reserved[c] # None => Open(c)

\* The agent an open conversation shows is the one the service has reserved
\* for it, also while that agent is away; until the customer has arrived the
\* Spot keeps the reservation for it.
AssignedIsReserved ==
  \A c \in Conversations :
    Open(c) =>
      /\ conv[c].agent # None => reserved[c] = conv[c].agent
      /\ customer[c] \in Coming => reserved[c] = pending[c]

\* A conversation that is active or idle has both sides: its customer and the
\* assigned agent are participants and in the Spot.
Attended ==
  \A c \in Conversations :
    conv[c].status \in {"active", "waitingForClose"} =>
      /\ Customer \in conv[c].people /\ customer[c] = "joined"
      /\ conv[c].agent \in conv[c].people
      /\ agent[c][conv[c].agent] = "joined"

\* Conversations and reservations agree: what is reserved is open, what is
\* shown is reserved, and what is active has both sides in it.
ReservationsHeld == ReservedIsOpen /\ AssignedIsReserved /\ Attended

\* A closed conversation never changes again: late joins, messages, closes
\* and timers find it closed.
ClosedStays ==
  [][\A c \in Conversations :
       conv[c].status = "closed" => conv'[c] = conv[c]]_conv

\* A conversation that has become active and has a message is closed in the
\* end: people stop writing, rejoining agents cannot hold the timer up for
\* ever, and no other step restarts it.
ConversationsEnd ==
  \A c \in Conversations :
    (conv[c].status = "active" /\ conv[c].seq > 0) ~> conv[c].status = "closed"
=============================================================================
