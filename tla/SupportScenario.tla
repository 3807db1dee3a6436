----------------------------- MODULE SupportScenario -----------------------------
(***************************************************************************)
(* The client scenario of SupportChat                                      *)
(* (Client/supportchat_client_scenario.hpp): three customers, named by     *)
(* their conversations First, Second and Third, and one agent, Desk, act   *)
(* out a script and expect replies and notices.  The script is data, a     *)
(* sequence of steps; Act takes the next one against SupportSessions.  An  *)
(* expectation that fails ends the run at Failed.                          *)
(*                                                                         *)
(* Assumed: the servers fail nothing, and the client is quick: a deadline  *)
(* passes only while the client waits for the notice that tells of it.     *)
(***************************************************************************)
EXTENDS SupportSessions

CONSTANTS First, Second, Third, Desk

ASSUME ScenarioAssumption == {First, Second, Third} \subseteq Conversations /\ Desk \in Agents

VARIABLE at  \* the next step of the script

Failed == 0

-----------------------------------------------------------------------------
(* Steps *)

SignIn(x) == [do |-> "sign in", who |-> x]
Leave(x) == [do |-> "leave", who |-> x]
Sets(x, is, accepted) == [do |-> "set", who |-> x, is |-> is, accepted |-> accepted]
Opens(c) == [do |-> "open", conv |-> c]
Joins(c, p) == [do |-> "join", conv |-> c, by |-> p]
Joined(c, p, scheduled, seq) ==
  [do |-> "joined", conv |-> c, by |-> p, scheduled |-> scheduled, seq |-> seq]
Says(c, p, seq) == [do |-> "say", conv |-> c, by |-> p, seq |-> seq]
CannotSay(c, p) == [do |-> "cannot say", conv |-> c, by |-> p]
Shuts(c, p) == [do |-> "shut", conv |-> c, by |-> p]
CannotShut(c, p) == [do |-> "cannot shut", conv |-> c, by |-> p]
Types(c, p) == [do |-> "type", conv |-> c, by |-> p]
Await(what) == [do |-> "await", what |-> what]
Hears(what, status, seq) == [do |-> "hear", what |-> what, status |-> status, seq |-> seq]
Quiet(what) == [do |-> "quiet", what |-> what]

To(p, kind, c) == <<ActorOf(c, p), kind, c>>
Both(kind, c) == {To(Customer, kind, c), To(Desk, kind, c)}
Peer(p) == IF p = Customer THEN Desk ELSE Customer
TypingToDesk == {To(Desk, "typing", c) : c \in Conversations}

-----------------------------------------------------------------------------
(* The script *)

Authentication ==
  <<SignIn(First), SignIn(Desk), Sets(First, TRUE, FALSE), Sets(Desk, TRUE, TRUE)>>

Assignment(c) ==
  <<Await({<<Desk, "assigned", c>>}), Opens(c), Hears(<<Desk, "assigned", c>>, "waiting", 0)>>

AgentJoins(c) ==
  <<Await(Both("joined", c)), Joins(c, Desk), Joined(c, Desk, TRUE, 0),
    Hears(To(Customer, "joined", c), "active", 0), Hears(To(Desk, "joined", c), "active", 0)>>

Message(c, p, seq) ==
  <<Await({To(Peer(p), "chat", c)}), Says(c, p, seq),
    Hears(To(Peer(p), "chat", c), "active", seq)>>

SecondConversation ==
  <<SignIn(Second)>> \o Assignment(Second) \o AgentJoins(Second)
  \o Message(Second, Desk, 1) \o Message(Second, Customer, 2)

Typing ==
  <<Await({To(Customer, "typing", First)} \cup TypingToDesk), Types(First, Desk),
    Hears(To(Customer, "typing", First), "active", 2), Quiet(TypingToDesk)>>

CustomerReconnects ==
  <<Leave(First), SignIn(First), Joins(First, Customer), Joined(First, Customer, FALSE, 3)>>

AgentReconnects ==
  <<Leave(Desk), SignIn(Desk), Sets(Desk, TRUE, TRUE),
    Joins(First, Desk), Joined(First, Desk, FALSE, 3),
    Joins(Second, Desk), Joined(Second, Desk, FALSE, 2)>>

ExplicitClose ==
  <<Await(Both("idle", First)), Await(Both("closed", Second)), Shuts(Second, Desk),
    Hears(To(Desk, "closed", Second), "closed", 2),
    Hears(To(Customer, "closed", Second), "closed", 2),
    CannotShut(Second, Customer), CannotSay(Second, Customer),
    Await(TypingToDesk), Types(Second, Customer), Quiet(TypingToDesk)>>

IdleResume ==
  <<Hears(To(Customer, "idle", First), "waitingForClose", 3),
    Hears(To(Desk, "idle", First), "waitingForClose", 3)>>
  \o Message(First, Customer, 4)

IdleClose ==
  <<Await(Both("idle", First)), Await(Both("closed", First)),
    Hears(To(Customer, "idle", First), "waitingForClose", 4),
    Hears(To(Desk, "idle", First), "waitingForClose", 4),
    Hears(To(Customer, "closed", First), "closed", 4),
    Hears(To(Desk, "closed", First), "closed", 4), CannotSay(First, Customer)>>

NoAgent == <<Sets(Desk, FALSE, TRUE), SignIn(Third), Opens(Third)>>

Script ==
  Authentication \o Assignment(First) \o AgentJoins(First)
  \o Message(First, Desk, 1) \o Message(First, Customer, 2)
  \o SecondConversation \o Typing \o Message(First, Customer, 3)
  \o CustomerReconnects \o AgentReconnects \o ExplicitClose \o IdleResume \o IdleClose
  \o NoAgent

Done == Len(Script) + 1

-----------------------------------------------------------------------------
(* Taking a step *)

Step == Script[at]
Doing(op) == at \in DOMAIN Script /\ Step.do = op

Expect(holds) == at' = IF holds THEN at + 1 ELSE Failed

\* What the client waited for and has heard.
Came(what) == {n \in heard : <<n.to, n.kind, n.conv>> \in what}

Session ==
  \/ Doing("sign in") /\ Authenticate(Step.who) /\ Expect(TRUE)
  \/ Doing("leave") /\ Disconnect(Step.who) /\ Expect(TRUE)
  \/ /\ Doing("set")
     /\ IF Step.who \in Agents
        THEN Available(Step.who, Step.is) /\ Expect(Step.accepted)
        ELSE UNCHANGED chatVars /\ Expect(~Step.accepted)

\* A request that is answered with an error changes nothing.
Request ==
  \/ Doing("open") /\ OpenConversation(Step.conv) /\ Expect(TRUE)
  \/ /\ Doing("say")
     /\ LET c == Step.conv IN
        IF InSpot(c, Step.by) /\ CanWrite(c, Step.by)
        THEN Say(c, Step.by) /\ Expect(conv'[c].seq = Step.seq /\ conv'[c].status = "active")
        ELSE UNCHANGED chatVars /\ Expect(FALSE)
  \/ /\ Doing("cannot say") /\ UNCHANGED chatVars
     /\ Expect(~CanWrite(Step.conv, Step.by))
  \/ /\ Doing("shut")
     /\ LET c == Step.conv IN
        IF InSpot(c, Step.by) /\ Open(c)
        THEN Shut(c, Step.by) /\ Expect(conv'[c].status = "closed")
        ELSE UNCHANGED chatVars /\ Expect(FALSE)
  \/ Doing("cannot shut") /\ UNCHANGED chatVars /\ Expect(~Open(Step.conv))
  \/ Doing("type") /\ SetTyping(Step.conv, Step.by) /\ Expect(TRUE)

Join ==
  \/ Doing("join") /\ Ask(Step.conv, Step.by) /\ Expect(TRUE)
  \/ /\ Doing("joined")
     /\ LET answer == call[Step.conv][Step.by] IN
        /\ Reply(Step.conv, Step.by)
        /\ Expect(/\ answer.scheduled = Step.scheduled /\ answer.seq = Step.seq
                  /\ Step.scheduled \/ conv[Step.conv].status = "active"
                  /\ ActorOf(Step.conv, Step.by) \in bound)

Waiting ==
  /\ UNCHANGED <<vars, sessions, bound, leaving, call, known, ready>>
  /\ \/ /\ Doing("await") /\ Expect(TRUE)
        /\ waits' = waits \cup Step.what /\ heard' = heard \ Came(Step.what)
     \/ /\ Doing("hear")
        /\ \E n \in Came({Step.what}) :
             /\ Expect(n.status = Step.status /\ n.seq = Step.seq)
             /\ waits' = waits \ {Step.what} /\ heard' = heard \ {n}
     \/ /\ Doing("quiet") /\ Expect(Came(Step.what) = {})
        /\ waits' = waits \ Step.what /\ UNCHANGED heard

Act == Session \/ Request \/ Join \/ Waiting

\* A deadline passes while the client waits for it.
SlowClock(c) ==
  /\ Doing("hear") /\ Step.what[3] = c /\ Step.what[2] \in {"idle", "closed"}
  /\ Came({Step.what}) = {}
  /\ Clock(c) /\ UNCHANGED at

Servers ==
  /\ \/ \E c \in Conversations : Serve(c)
     \/ \E a \in Agents : RosterLeft(a)
  /\ UNCHANGED at

ScenarioNext == Act \/ Servers \/ \E c \in Conversations : SlowClock(c)

ScenarioSpec == SessionsInit /\ at = 1 /\ [][ScenarioNext]_<<chatVars, at>>

\* Every expectation of the scenario holds and every notice it waits for comes,
\* however the deferred joins, the timers and a late disconnect interleave with it.
ScenarioHolds == at = 1 ~> at = Done
=============================================================================
