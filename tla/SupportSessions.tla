----------------------------- MODULE SupportSessions -----------------------------
(***************************************************************************)
(* What the clients of SupportChat see: the session server that signs them *)
(* in and binds actors to their streams (Server/Session/main.cpp), the     *)
(* rooms an agent has one actor each for, and the notices the actors push  *)
(* to the session they are bound to (Server/Support/main.cpp).             *)
(*                                                                         *)
(* A customer is named by the conversation it opens, which is also the     *)
(* name of its actor; agent a has the roster actor a and the conversation  *)
(* actors <<c, a>>.  A client has one session at a time.  A notice to an   *)
(* actor that is bound to no session is lost.  `known` has the messages    *)
(* whose text, or whose existence from a join's reply, a session has.      *)
(*                                                                         *)
(* Bound: MaxSessions sessions of one client.                              *)
(***************************************************************************)
EXTENDS SupportChat

CONSTANT MaxSessions

\* No client is named like an agent's actor in a conversation.
ASSUME SessionsAssumption ==
  /\ MaxSessions \in Nat \ {0}
  /\ (Agents \cup Conversations) \cap (Conversations \X Agents) = {}

VARIABLES
  sessions,  \* per client: how many sessions it has had
  bound,     \* the actors that are bound to their client's session
  leaving,   \* roster actors whose disconnect the Entry Spot has yet to handle
  call,      \* per conversation and participant: its JoinConversationReq
  known,     \* per conversation and participant: messages its session knows of
  ready,     \* per conversation and participant: has its session joined?
  waits,     \* what clients wait for: receiving actor, kind, conversation
  heard      \* the notices that were waited for and came

sessionVars == <<sessions, bound, leaving, call, known, ready, waits, heard>>
chatVars == <<vars, sessionVars>>

Clients == Agents \cup Conversations

ActorOf(c, p) == IF p = Customer THEN c ELSE <<c, p>>
ClientOf(c, p) == IF p = Customer THEN c ELSE p
ActorsOf(x) == {x} \cup (Conversations \X ({x} \cap Agents))

NoCall == [at |-> "none", scheduled |-> FALSE, seq |-> 0]

SessionsInit ==
  /\ Init
  /\ sessions = [x \in Clients |-> 0]
  /\ bound = {} /\ leaving = {}
  /\ call = [c \in Conversations |-> [p \in People |-> NoCall]]
  /\ known = [c \in Conversations |-> [p \in People |-> {}]]
  /\ ready = [c \in Conversations |-> [p \in People |-> FALSE]]
  /\ waits = {} /\ heard = {}

-----------------------------------------------------------------------------
(* Notices *)

Notice(to, kind, c, v) ==
  [to |-> to, kind |-> kind, conv |-> c, status |-> v.status, seq |-> v.seq]

\* A push to the session an actor is bound to; what nobody waits for is ignored.
Push(notices) ==
  heard' = heard \cup {n \in notices : n.to \in bound /\ <<n.to, n.kind, n.conv>> \in waits}

\* The customer and the agent the conversation shows.
Everyone(v) == {Customer} \cup ({v.agent} \ {None})

\* broadcast, broadcast_except
Broadcast(kind, c, except) ==
  LET v == conv'[c] IN
  Push({Notice(ActorOf(c, p), kind, c, v) : p \in Everyone(v) \ except})

\* The sessions of some participants learn of messages.
Learn(c, people, messages) ==
  known' = [known EXCEPT ![c] = [p \in People |->
              IF p \in people /\ ActorOf(c, p) \in bound THEN @[p] \cup messages ELSE @[p]]]

-----------------------------------------------------------------------------
(* Sessions *)

\* AuthenticateReq: the API names the user, the support server ensures the
\* actor, and bind_or_get makes it the session's.
Authenticate(x) ==
  /\ x \notin bound /\ sessions[x] < MaxSessions
  /\ bound' = bound \cup {x}
  /\ sessions' = [sessions EXCEPT ![x] = @ + 1]
  /\ UNCHANGED <<vars, leaving, call, known, ready, waits, heard>>

Disconnect(x) ==
  LET Reset(f, value) ==
        [c \in Conversations |-> [p \in People |->
           IF ClientOf(c, p) = x THEN value ELSE f[c][p]]]
  IN
  /\ x \in bound
  /\ bound' = bound \ ActorsOf(x)
  /\ leaving' = leaving \cup ({x} \cap Agents)
  /\ call' = Reset(call, NoCall)
  /\ known' = Reset(known, {})
  /\ ready' = Reset(ready, FALSE)
  /\ waits' = {w \in waits : w[1] \notin ActorsOf(x)}
  /\ UNCHANGED <<vars, sessions, heard>>

\* on_disconnect_actor of the roster actor; it may come after the next sign-in.
RosterLeft(a) ==
  /\ a \in leaving
  /\ leaving' = leaving \ {a}
  /\ GoOffline(a) \/ (a \notin available /\ UNCHANGED vars)
  /\ UNCHANGED <<sessions, bound, call, known, ready, waits, heard>>

\* SetAgentAvailableReq
Available(a, is) ==
  /\ a \in bound
  /\ IF is THEN GoOnline(a) ELSE GoOffline(a) \/ (a \notin available /\ UNCHANGED vars)
  /\ UNCHANGED sessionVars

-----------------------------------------------------------------------------
(* Opening and joining *)

OpenConversation(c) == c \in bound /\ Create(c) /\ UNCHANGED sessionVars

\* The steps of a join that nobody is told of.
Underway(c) ==
  /\ \/ Opened(c) \/ CustomerAdmitted(c) \/ CustomerLost(c)
     \/ \E a \in Agents : AgentAdmitted(c, a)
  /\ UNCHANGED sessionVars

\* The agent is told on its roster actor.
Arrives(c) ==
  LET a == pending[c] IN
  /\ CustomerArrives(c)
  /\ told' = IF a \in bound THEN [told EXCEPT ![c] = @ \cup {a}] ELSE told
  /\ Push(IF a = None THEN {} ELSE {Notice(a, "assigned", c, conv'[c])})
  /\ ready' = [ready EXCEPT ![c][Customer] = c \in bound]
  /\ UNCHANGED <<sessions, bound, leaving, call, known, waits>>

\* on_join_completed tells the agent's client of a failure.
Refused(c, a) ==
  /\ AgentRefused(c, a)
  /\ Push({Notice(<<c, a>>, "failed", c, conv[c])})
  /\ UNCHANGED <<sessions, bound, leaving, call, known, ready, waits>>

\* What join_actor does for an agent, besides its reply.
Welcome(c) ==
  /\ Broadcast("joined", c, {})
  /\ Learn(c, Everyone(conv'[c]), 1..conv[c].seq)

Comes(c, a) ==
  /\ AgentArrives(c, a)
  /\ IF Open(c)
     THEN Welcome(c) /\ ready' = [ready EXCEPT ![c][a] = <<c, a>> \in bound]
     ELSE UNCHANGED <<known, ready, heard>>
  /\ UNCHANGED <<sessions, bound, leaving, call, waits>>

\* JoinConversationReq reaches the session server.
Ask(c, p) ==
  /\ ClientOf(c, p) \in bound /\ call[c][p] = NoCall
  /\ IF p = Customer THEN customer[c] \in {"lost", "joined"} ELSE p \in told[c]
  /\ call' = [call EXCEPT ![c][p].at = IF p = Customer THEN "bound" ELSE "sent"]
  /\ UNCHANGED <<vars, sessions, bound, leaving, known, ready, waits, heard>>

\* ensure_agent_conversation_actor: an agent's room has an actor of its own.
Bind(c, a) ==
  /\ call[c][a].at = "sent"
  /\ bound' = bound \cup {<<c, a>>}
  /\ call' = [call EXCEPT ![c][a].at = "bound"]
  /\ UNCHANGED <<vars, sessions, leaving, known, ready, waits, heard>>

Answered(c, p, scheduled) ==
  call' = [call EXCEPT ![c][p] =
             [at |-> "answered", scheduled |-> scheduled, seq |-> conv[c].seq]]

\* Mutant: the join is relayed before the room's actor is bound.
MutRelayed(c, p) == call[c][p].at \in {"sent", "bound"}

Relayed(c, p) == call[c][p].at = "bound"

\* The Entry Spot schedules the join of an actor that is still there.
Schedule(c, p) ==
  /\ Relayed(c, p)
  /\ IF p = Customer THEN CustomerAsks(c) ELSE AgentAsks(c, p)
  /\ Answered(c, p, TRUE)
  /\ UNCHANGED <<sessions, bound, leaving, known, ready, waits, heard>>

\* The Spot's own join handler: the actor is already in it.
JoinAgain(c, p) ==
  /\ Relayed(c, p) /\ InSpot(c, p) /\ Open(c)
  /\ IF p = Customer
     THEN UNCHANGED <<vars, known, heard>>
     ELSE AgentRejoins(c, p) /\ Welcome(c)
  /\ Answered(c, p, FALSE)
  /\ UNCHANGED <<sessions, bound, leaving, ready, waits>>

\* A closed conversation refuses the join.
JoinClosed(c, p) ==
  /\ Relayed(c, p) /\ InSpot(c, p) /\ ~Open(c)
  /\ call' = [call EXCEPT ![c][p] = NoCall]
  /\ UNCHANGED <<vars, sessions, bound, leaving, known, ready, waits, heard>>

\* The reply comes to the client: where the conversation is, if it is in it.
Reply(c, p) ==
  LET answer == call[c][p] IN
  /\ answer.at = "answered"
  /\ call' = [call EXCEPT ![c][p] = NoCall]
  /\ IF answer.scheduled
     THEN UNCHANGED <<known, ready>>
     ELSE /\ known' = [known EXCEPT ![c][p] = @ \cup 1..answer.seq]
          /\ ready' = [ready EXCEPT ![c][p] = TRUE]
  /\ UNCHANGED <<vars, sessions, bound, leaving, waits, heard>>

-----------------------------------------------------------------------------
(* In the conversation *)

Say(c, p) ==
  /\ ActorOf(c, p) \in bound
  /\ SendMessage(c, p)
  /\ Learn(c, Everyone(conv[c]) \cup {p}, {conv'[c].seq})
  /\ Broadcast("chat", c, {p})
  /\ UNCHANGED <<sessions, bound, leaving, call, ready, waits>>

\* Mutant: the state of the conversation is not looked at.
MutSetTyping(c, p) ==
  LET peer == IF p = Customer THEN conv[c].agent ELSE Customer IN
  /\ ActorOf(c, p) \in bound /\ InSpot(c, p)
  /\ Push(IF peer = None THEN {} ELSE {Notice(ActorOf(c, peer), "typing", c, conv[c])})
  /\ UNCHANGED <<vars, sessions, bound, leaving, call, known, ready, waits>>

\* SetTypingMsg: the peer is told, unless the conversation is closed.
SetTyping(c, p) ==
  LET peer == IF p = Customer THEN conv[c].agent ELSE Customer IN
  /\ ActorOf(c, p) \in bound /\ InSpot(c, p)
  /\ IF CanWrite(c, p) /\ peer # None
     THEN Push({Notice(ActorOf(c, peer), "typing", c, conv[c])})
     ELSE UNCHANGED heard
  /\ UNCHANGED <<vars, sessions, bound, leaving, call, known, ready, waits>>

Shut(c, p) ==
  /\ ActorOf(c, p) \in bound
  /\ CloseConversation(c, p)
  /\ Broadcast("closed", c, {})
  /\ UNCHANGED <<sessions, bound, leaving, call, known, ready, waits>>

Tick(c) ==
  /\ \/ IdleTick(c) /\ Broadcast("idle", c, {})
     \/ CloseTick(c) /\ Broadcast("closed", c, {})
  /\ UNCHANGED <<sessions, bound, leaving, call, known, ready, waits>>

Clock(c) == TimePasses(c) /\ UNCHANGED sessionVars

-----------------------------------------------------------------------------
\* What the servers do without a client, when nothing fails.
Serve(c) ==
  \/ Underway(c) /\ customer'[c] \notin {"none", "lost"}
  \/ Arrives(c) \/ Tick(c)
  \/ \E a \in Agents : Comes(c, a) \/ Bind(c, a)
  \/ \E p \in People : Schedule(c, p) \/ JoinAgain(c, p) \/ JoinClosed(c, p)

SessionsNext ==
  \/ \E x \in Clients : Authenticate(x) \/ Disconnect(x)
  \/ \E a \in Agents : RosterLeft(a) \/ \E is \in BOOLEAN : Available(a, is)
  \/ \E c \in Conversations :
       \/ OpenConversation(c) \/ Underway(c) \/ Serve(c) \/ Clock(c)
       \/ \E a \in Agents : Refused(c, a)
       \/ \E p \in People : \/ (~ready[c][p] /\ Ask(c, p)) \/ Reply(c, p)
                            \/ Say(c, p) \/ Shut(c, p)

SessionsSpec == SessionsInit /\ [][SessionsNext]_chatVars

\* A session that has joined a conversation misses nothing: it knows of every
\* message, by a notice or by the reply to its join, however its join, the
\* binding of its actor and its peer's messages interleave after a reconnect.
InTheKnow ==
  \A c \in Conversations, p \in People :
    ready[c][p] /\ InSpot(c, p) => known[c][p] = 1..conv[c].seq
=============================================================================
