--------------------------- MODULE GameQuestScenario ---------------------------
(***************************************************************************)
(* The client scenario of GameQuest (Client/gamequest_client_scenario.hpp):*)
(* Alice and Bob play, an administrator deletes and rebuilds a projection, *)
(* Alice reconnects to the other API process, her owner is closed and      *)
(* activated again; two players are owned side by side; and the mission    *)
(* process of an owner is killed.  The script is data; Act takes its next  *)
(* step.  An expectation that fails ends the run at Failed.                *)
(*                                                                         *)
(* The players of the last two parts share nothing with Alice and Bob, so  *)
(* each part is a script of its own, with the same two names.              *)
(*                                                                         *)
(* Assumed: nothing else fails, no wait times out, and an owner that was   *)
(* closed is activated on the process that has its stream (AtHome).        *)
(***************************************************************************)
EXTENDS GameQuest

CONSTANTS Alice, Bob, OnA, OnB, Again  \* the players and their streams

VARIABLES
  part,    \* the script that is played
  at,      \* its next step
  mail,    \* packets sent without a request, per stream
  waits,   \* pushes the client waits for
  heard    \* those that came

scriptVars == <<part, at, mail, waits, heard>>

Failed == 0

Kill(n) == [id |-> <<"kill", n>>, type |-> "MonsterKilled", value |-> "wolf", count |-> 1]
Herbs(n, count) ==
  [id |-> <<"herb", n>>, type |-> "ItemCollected", value |-> "healing-herb", count |-> count]
Ruins == [id |-> <<"enter", 1>>, type |-> "AreaEntered", value |-> "ruins", count |-> 1]

ScriptFacts == {Kill(1), Kill(2), Kill(3), Herbs(1, 1), Herbs(2, 4), Ruins}

ASSUME CastAssumption ==
  /\ {Alice, Bob} \subseteq Players /\ {OnA, OnB, Again} \subseteq Sessions
  /\ ScriptFacts \subseteq Facts

-----------------------------------------------------------------------------
(* Steps *)

AStep(op, s, p) == [do |-> op, on |-> s, of |-> p]

\* A request and its answer, which shows the quest q with count n.
Joins(s, p) == <<AStep("join", s, p), AStep("joined", s, p)>>
Asks(s, p) == AStep("sync", s, p)
Shown(s, q, n) == [do |-> "shown", on |-> s, quest |-> q, count |-> n]
Hidden(s, q) == [do |-> "hidden", on |-> s, quest |-> q]
Polled(s, q, n) == [do |-> "polled", on |-> s, quest |-> q, count |-> n]
Kills(s, p, n) ==
  <<[do |-> "request", on |-> s, of |-> p, fact |-> Kill(n)], AStep("done", s, p)>>
Sends(s, p, f) == [do |-> "send", on |-> s, of |-> p, fact |-> f]
Admins(s, p, op) ==
  <<[do |-> "admin", on |-> s, of |-> p, op |-> op],
    [do |-> "administered", on |-> s, of |-> p, op |-> op]>>

\* A push: the count of one of the quests qs, or its completion, for 0.
Push(s, p, qs, n) == [on |-> s, of |-> p, quests |-> qs, count |-> n]
Await(push) == [do |-> "await", what |-> push]
Hears(push) == [do |-> "hear", what |-> push]

-----------------------------------------------------------------------------
(* The script *)

FirstHunt ==
  LET first == Push(OnA, Alice, {"first_hunt"}, 1)
      completed == Push(OnA, Alice, {"first_hunt"}, 0)
  IN  Joins(OnA, Alice) \o <<Await(first)>> \o Kills(OnA, Alice, 1) \o <<Hears(first)>>
      \o <<Await(completed)>> \o Kills(OnA, Alice, 2) \o Kills(OnA, Alice, 3)
      \o <<Hears(completed)>> \o Kills(OnA, Alice, 3)

HerbGathering ==
  LET completed == Push(OnB, Bob, {"herb_gathering"}, 0)
  IN  <<Sends(OnA, Bob, Herbs(1, 1))>> \o Joins(OnB, Bob)
      \o <<Asks(OnB, Bob), Polled(OnB, "herb_gathering", 1),
           Await(completed), Sends(OnB, Bob, Herbs(2, 4)), Hears(completed)>>

Projection ==
  Admins(OnB, Bob, "herb_gathering")
  \o <<Asks(OnB, Bob), Hidden(OnB, "herb_gathering")>> \o Admins(OnB, Bob, "rebuild")

Idempotency ==
  Kills(OnA, Alice, 3) \o <<Asks(OnA, Alice), Shown(OnA, "first_hunt", 3)>>

Reconciliation ==
  <<AStep("unpublished", OnA, Alice), Asks(OnA, Alice), Shown(OnA, "first_hunt", 4)>>

Reconnect ==
  LET completed == Push(Again, Alice, {"visit_ruins"}, 0)
  IN  Joins(Again, Alice)
      \o <<Await(completed), Sends(Again, Alice, Ruins), Hears(completed)>>

CloseAndReplay ==
  <<AStep("close", Again, Alice), AStep("closed", Again, Alice),
    Asks(Again, Alice), Shown(Again, "first_hunt", 4)>>

ScaleOut ==
  LET a == Push(OnA, Alice, Quests, 1)
      b == Push(OnB, Bob, Quests, 1)
  IN  Joins(OnA, Alice) \o Joins(OnB, Bob) \o <<Await(a), Await(b)>>
      \o Kills(OnA, Alice, 1) \o <<Sends(OnB, Bob, Herbs(1, 1)), Hears(a), Hears(b)>>

OwnerLoss ==
  LET first == Push(OnB, Alice, {"first_hunt"}, 1)
  IN  Joins(OnB, Alice) \o <<Await(first)>> \o Kills(OnB, Alice, 1)
      \o <<Hears(first), AStep("killed", OnB, Alice), AStep("unavailable", OnB, Alice)>>

Parts ==
  {FirstHunt \o HerbGathering \o Projection \o Idempotency \o Reconciliation \o Reconnect
     \o CloseAndReplay \o <<AStep("assert", OnA, Alice), AStep("assert", OnB, Alice)>>,
   ScaleOut, OwnerLoss}

ScenarioInit(parts) ==
  /\ part \in parts /\ at = 1
  /\ mail = [s \in Sessions |-> <<>>]
  /\ waits = {} /\ heard = {}

-----------------------------------------------------------------------------
(* Taking a step *)

Step == part[at]
Now(op) == at \in DOMAIN part /\ Step.do = op
Free == mail[Step.on] = <<>>

Expect(holds) == at' = IF holds THEN at + 1 ELSE Failed

\* has_progress
Has(projection, q, n) == q \in DOMAIN projection /\ projection[q].count = n
Rewarded(projection, q) == q \in DOMAIN projection /\ projection[q].status = "reward_granted"

\* assert_state: what an API process shows proves one of the two quests.
AssertState(projections) ==
  Rewarded(projections[Alice], "first_hunt") \/ Rewarded(projections[Bob], "herb_gathering")

Request ==
  \/ Now("join") /\ Free /\ Join(Step.on, Step.of)
  \/ Now("sync") /\ Free /\ Sync(Step.on, Step.of)
  \/ Now("request") /\ Free /\ Play(Step.on, Step.of, Step.fact)
  \/ Now("admin") /\ Free /\ Admin(Step.on, Step.of, Step.op)
  \/ Now("close") /\ Free /\ AskClose(Step.on, Step.of)
  \/ Now("unpublished") /\ Free /\ KillUnpublished(Step.on, Step.of, 1)

\* The join of a new player shows no quest.
Answer ==
  \/ /\ Now("joined") /\ Synced(Step.on)
     /\ Expect(at = 2 => DOMAIN shown'[home[Step.of]][Step.of] = {})
  \/ /\ Now("shown") /\ Synced(Step.on)
     /\ Expect(Has(session[Step.on].reply, Step.quest, Step.count))
  \/ /\ Now("hidden") /\ Synced(Step.on)
     /\ Expect(Step.quest \notin DOMAIN session[Step.on].reply)
  \/ /\ Now("polled") /\ Synced(Step.on)
     /\ at' = IF Has(session[Step.on].reply, Step.quest, Step.count) THEN at + 1 ELSE at - 1
  \/ /\ Now("administered")
     /\ \E a \in Apis, m \in Missions :
          /\ Maintain(a, Step.of, m)
          /\ Expect(Step.op = "rebuild" => Rewarded(cache'[m][Step.of], "herb_gathering"))

\* What the client sees without a packet, and what the runner does.
Look ==
  \/ Now("done") /\ session[Step.on].doing = "idle" /\ Expect(TRUE)
  \/ Now("closed") /\ owner[Step.of] = None /\ Expect(TRUE)
  \/ Now("unavailable") /\ Expect(~Reachable(Step.of))
  \/ Now("assert") /\ Expect(AssertState(shown[SessionApi[Step.on]]))

Wait ==
  \/ Now("await") /\ waits' = waits \cup {Step.what} /\ UNCHANGED heard /\ Expect(TRUE)
  \/ /\ Now("hear")
     /\ \E h \in heard : h.push = Step.what /\ Expect(h.rewarded) /\ heard' = heard \ {h}
     /\ UNCHANGED waits

Act ==
  \/ Request /\ Expect(TRUE) /\ UNCHANGED <<part, mail, waits, heard, requests>>
  \/ Answer /\ UNCHANGED <<part, mail, waits, heard>>
  \/ Now("killed") /\ Crash(owner[Step.of]) /\ Expect(TRUE) /\ UNCHANGED <<part, mail, waits, heard>>
  \/ Look /\ UNCHANGED <<vars, part, mail, waits, heard>>
  \/ Wait /\ UNCHANGED <<vars, part, mail>>
  \/ /\ Now("send") /\ Expect(TRUE)
     /\ mail' = [mail EXCEPT ![Step.on] = Append(@, [of |-> Step.of, fact |-> Step.fact])]
     /\ UNCHANGED <<vars, part, waits, heard>>

-----------------------------------------------------------------------------
(* The servers *)

\* A packet that was sent arrives.
Arrive(s) ==
  /\ mail[s] # <<>>
  /\ Play(s, Head(mail[s]).of, Head(mail[s]).fact)
  /\ mail' = [mail EXCEPT ![s] = Tail(@)]
  /\ UNCHANGED <<part, at, waits, heard, requests>>

\* The pushes of a notification: one for each quest shown, and one for a completion.
Matches(push, p, n) ==
  /\ push \in waits /\ push.on = bound[p] /\ push.of = p
  /\ IF push.count = 0 THEN n.completed \in push.quests
     ELSE \E q \in push.quests : Has(n.projection, q, push.count)

Pushed(m, p) ==
  LET n == Head(notes[m][p])
      came == {push \in waits : Matches(push, p, n)}
  IN
  /\ Notified(m, p)
  /\ heard' = heard \cup
       {[push |-> w, rewarded |-> w.count = 0 => Rewarded(n.projection, n.completed)] : w \in came}
  /\ waits' = waits \ came
  /\ UNCHANGED <<part, at, mail>>

AtHome == \A p \in Players : owner'[p] \in Missions => homes[p] \subseteq {owner'[p]}

Serve ==
  /\ \/ \E s \in Sessions : Record(s)
     \/ \E p \in Players, m \in Missions :
          \/ Activate(p, m) /\ AtHome
          \/ \E a \in Apis : Apply(a, p, m) \/ Reconcile(a, p, m) \/ Close(a, p, m)
  /\ UNCHANGED scriptVars

ScenarioStep ==
  \/ Act \/ Serve
  \/ \E s \in Sessions : Arrive(s)
  \/ \E m \in Missions, p \in Players : Pushed(m, p)

ScenarioSpec ==
  Init /\ ScenarioInit(Parts) /\ [][ScenarioStep]_<<vars, scriptVars>>

\* No expectation of the scenario fails, and the client never waits for an answer, a
\* push or a state that the servers will not bring about, however the one-way facts
\* and the notifications interleave with its requests.
ScenarioHolds == at # Failed /\ (at \in DOMAIN part => ENABLED ScenarioStep)
=============================================================================
