--------------------------- MODULE TicTacToeScenario ---------------------------
(***************************************************************************)
(* What the clients of TicTacToe see, and the scenario they play           *)
(* (Client/tictactoe_client_scenario.hpp): the notices that the room, the  *)
(* actors and the Entry Spots push to the bound sessions, the observers of *)
(* milestones, and a script in which X and O play X's last win before the  *)
(* milestone, a Watcher is told of it, X reconnects and both leave.  The   *)
(* script is data; Act takes its next step, and an expectation that fails  *)
(* ends the run at Failed.                                                 *)
(*                                                                         *)
(* Assumed: nothing fails, and no turn times out.  A stream delivers what  *)
(* was pushed to it in order; what is pushed to a closed one is lost.      *)
(***************************************************************************)
EXTENDS TicTacToeRoom

CONSTANTS X, O, Watcher,
          Plays  \* the cells they mark in turn: 0, 3, 1, 4, 2 in the code

ASSUME ScenarioAssumption ==
  /\ {X, O, Watcher} \subseteq Players /\ Cardinality({X, O, Watcher}) = 3
  /\ Plays \in Seq(Cells) /\ Len(Plays) = 5

VARIABLES
  bound,      \* the actors that are bound to an open stream
  observers,  \* the Entry Spots' observers
  events,     \* player_win_milestone_event_t on their way to the Entry Spots
  mail,       \* per actor: packets sent to it without a request
  shown,      \* per actor: the state that its last accepted join was answered with
  inbox,      \* per client: notices on its stream
  line,       \* the next step of the script
  waits,      \* what the client waits for
  heard       \* notices that were waited for and came

wireVars == <<bound, observers, events, mail, shown, inbox>>
clientVars == <<line, waits, heard>>
scenarioVars == <<wireVars, clientVars>>

Failed == 0

ScenarioInit ==
  /\ bound = {} /\ observers = {} /\ events = <<>>
  /\ mail = [a \in Players |-> <<>>]
  /\ shown = [a \in Players |-> NewMatch]
  /\ inbox = [a \in Players |-> <<>>]
  /\ waits = {} /\ heard = {}

-----------------------------------------------------------------------------
(* Notices *)

\* by: the player it is about; cell: the one it marked.
Notice(kind, by, cell, state) == [kind |-> kind, by |-> by, cell |-> cell, state |-> state]

Pushed(to, notices) ==
  inbox' = [a \in Players |-> IF a \in to \cap bound THEN inbox[a] \o notices ELSE inbox[a]]

\* What a client waits for.
Wait(on, kind, by, cell) == [on |-> on, kind |-> kind, by |-> by, cell |-> cell]
Reply(a) == Wait(a, "join", a, None)
Newcomer == Wait(X, "player joined", O, None)
Start == Wait(X, "start", None, None)
Move(on, by, cell) == Wait(on, "move", by, cell)
Win == Wait(O, "win", None, None)
Fame == Wait(Watcher, "milestone", X, None)
AnyNewcomer(a) == Wait(a, "player joined", None, None)

Meets(w, n) ==
  \/ w.kind = n.kind /\ w.by \in {None, n.by}
  \/ w.kind = "start" /\ n.kind = "state" /\ n.state.status = "playing" /\ n.state.o = O
  \/ w.kind = "move" /\ n.kind = "state" /\ n.by = w.by /\ n.cell = w.cell
  \/ w.kind = "win" /\ n.kind = "state" /\ n.state.winner = X

-----------------------------------------------------------------------------
(* The script *)

SignIn(a) == [do |-> "sign in", by |-> a]
Observe(a) == [do |-> "observe", by |-> a]
Close(a) == [do |-> "close", by |-> a]
Send(a, packet) == [do |-> "send", by |-> a, packet |-> packet]
Play(a, turn) == [do |-> "play", by |-> a, turn |-> turn]
Await(what) == [do |-> "await", what |-> what]
Hear(what, status) == [do |-> "hear", what |-> what, status |-> status]
Quiet(what) == [do |-> "quiet", what |-> what]
Gone(who) == [do |-> "gone", who |-> who]

Peer(a) == IF a = X THEN O ELSE X

Authentication == <<SignIn(X), SignIn(O), SignIn(Watcher), Observe(Watcher)>>

FirstJoin ==
  <<Await({Reply(X)}), Send(X, "join"), Hear(Reply(X), "waiting"),
    Await({AnyNewcomer(X)}), Quiet(AnyNewcomer(X))>>

SecondJoin ==
  <<Await({Newcomer, Start}), Await({Reply(O)}), Send(O, "join"), Hear(Reply(O), "playing"),
    Await({AnyNewcomer(O)}), Quiet(AnyNewcomer(O)),
    Hear(Newcomer, "playing"), Hear(Start, "playing")>>

Turn(a, turn) ==
  LET move == Move(Peer(a), a, Plays[turn])
  IN  <<Await({move}), Play(a, turn), Hear(move, "playing")>>

Victory ==
  <<Await({Win, Fame}), Play(X, Len(Plays)), Hear(Win, "won"), Hear(Fame, "won")>>

Reconnection ==
  <<Close(X), SignIn(X), Await({Reply(X)}), Send(X, "join"), Hear(Reply(X), "won")>>

Departure ==
  <<Send(X, "leave"), Send(O, "leave"), Gone({X, O}), Close(X), Close(O), Close(Watcher)>>

Script ==
  Authentication \o FirstJoin \o SecondJoin
  \o Turn(X, 1) \o Turn(O, 2) \o Turn(X, 3) \o Turn(O, 4)
  \o Victory \o Reconnection \o Departure

Done == Len(Script) + 1

-----------------------------------------------------------------------------
(* The client *)

Step == Script[line]
Doing(what) == line \in DOMAIN Script /\ Step.do = what
Expect(holds) == line' = IF holds THEN line + 1 ELSE Failed

\* The board when so many turns have been played.
BoardAfter(turns) ==
  [c \in Cells |->
     IF \E i \in 1 .. turns : Plays[i] = c
     THEN IF (CHOOSE i \in 1 .. turns : Plays[i] = c) % 2 = 1 THEN "x" ELSE "o"
     ELSE "."]

\* same_state: the turn's deadline is not part of what is told.
SameState(m, n) == [m EXCEPT !.deadline = "none"] = [n EXCEPT !.deadline = "none"]

\* The first sign-in creates the actor, a later one finds it.
SignsIn ==
  /\ Doing("sign in") /\ Expect(TRUE)
  /\ bound' = bound \cup {Step.by}
  /\ IF at[Step.by] = "nowhere" THEN Authenticate(Step.by) ELSE UNCHANGED vars
  /\ UNCHANGED <<observers, events, mail, shown, inbox, waits, heard>>

Observes ==
  /\ Doing("observe") /\ Expect(at[Step.by] = "entry")
  /\ observers' = observers \cup {Step.by}
  /\ UNCHANGED <<vars, bound, events, mail, shown, inbox, waits, heard>>

\* on_disconnected of the session: an Entry Spot forgets its observer.
Closes ==
  /\ Doing("close") /\ Expect(TRUE)
  /\ bound' = bound \ {Step.by}
  /\ observers' = IF at[Step.by] = "entry" THEN observers \ {Step.by} ELSE observers
  /\ inbox' = [inbox EXCEPT ![Step.by] = <<>>]
  /\ UNCHANGED <<vars, events, mail, shown, waits, heard>>

Sends ==
  /\ Doing("send") /\ Expect(TRUE)
  /\ mail' = [mail EXCEPT ![Step.by] = Append(@, Step.packet)]
  /\ UNCHANGED <<vars, bound, observers, events, shown, inbox, waits, heard>>

\* place_mark with its notice to the other player, the milestone's event and its reply
TakesTurn ==
  /\ Doing("play")
  /\ LET a == Step.by
         cell == Plays[Step.turn]
     IN  IF at[a] = "room" /\ CanPlace(match, a, cell)
         THEN /\ PlaceMark(a, cell)
              /\ Pushed(members \ {a}, <<Notice("state", a, cell, match')>>)
              /\ events' = events \o SubSeq(milestones', Len(milestones) + 1, Len(milestones'))
              /\ Expect(/\ match'.board = BoardAfter(Step.turn)
                        /\ IF Step.turn = Len(Plays) THEN match'.winner = a
                           ELSE match'.turn = MarkOf(match, Peer(a)))
         ELSE Expect(FALSE) /\ UNCHANGED <<vars, inbox, events>>
  /\ UNCHANGED <<bound, observers, mail, shown, waits, heard>>

\* What comes shows the match as it is, with the players in their seats.
Listens ==
  /\ \/ /\ Doing("await") /\ Expect(TRUE)
        /\ waits' = waits \cup Step.what /\ UNCHANGED heard
     \/ /\ Doing("hear")
        /\ \E h \in heard :
             /\ h.wait = Step.what /\ heard' = heard \ {h}
             /\ LET state == h.notice.state IN
                Expect(/\ state.status = Step.status /\ SameState(state, match)
                       /\ state.x = X /\ (Step.status = "waiting" <=> state.o # O))
        /\ UNCHANGED waits
     \/ /\ Doing("quiet") /\ Expect(Step.what \in waits)
        /\ waits' = waits \ {Step.what} /\ UNCHANGED heard
     \/ /\ Doing("gone") /\ \A a \in Step.who : at[a] = "nowhere"
        /\ Expect(at[Watcher] = "entry") /\ UNCHANGED <<waits, heard>>
  /\ UNCHANGED <<vars, wireVars>>

Act == SignsIn \/ Observes \/ Closes \/ Sends \/ TakesTurn \/ Listens

-----------------------------------------------------------------------------
(* The servers *)

\* A join is the Entry Spot's or, for who is in the room, its confirmation.
TakeJoin(a) ==
  /\ mail[a] # <<>> /\ Head(mail[a]) = "join"
  /\ \/ /\ at[a] = "entry" /\ JoinGame(a, "room") /\ UNCHANGED inbox
     \/ /\ at[a] = "room" /\ a \in {match.x, match.o}
        /\ Pushed({a}, <<Notice("join", a, None, match)>>) /\ UNCHANGED vars
  /\ mail' = [mail EXCEPT ![a] = Tail(@)]
  /\ UNCHANGED <<bound, observers, events, shown>>

TakeLeave(a) ==
  /\ mail[a] # <<>> /\ Head(mail[a]) = "leave" /\ LeaveGame(a)
  /\ mail' = [mail EXCEPT ![a] = Tail(@)]
  /\ UNCHANGED <<bound, observers, events, shown, inbox>>

Admitted(a) ==
  /\ Admit(a)
  /\ shown' = [shown EXCEPT ![a] = EvaluateJoin(match, a)]
  /\ UNCHANGED <<bound, observers, events, mail, inbox>>

\* The Entry Spot forgets who left it; the room tells the others.
Arrived(a) ==
  /\ \E moved \in BOOLEAN : Arrive(a, moved)
  /\ observers' = observers \ {a}
  /\ Pushed(members' \ {a},
            <<Notice("player joined", a, None, match'), Notice("state", None, None, match')>>)
  /\ UNCHANGED <<bound, events, mail, shown>>

Completed(a, i) ==
  /\ JoinCompleted(a, i)
  /\ IF Fresh(a, i) THEN Pushed({a}, <<Notice("join", a, None, shown[a])>>)
     ELSE UNCHANGED inbox
  /\ UNCHANGED <<bound, observers, events, mail, shown>>

OnPlayerWinMilestone ==
  /\ events # <<>> /\ events' = Tail(events)
  /\ Pushed(observers, <<Notice("milestone", Head(events), None, match)>>)
  /\ UNCHANGED <<vars, bound, observers, mail, shown>>

\* The stream delivers a notice to all who wait for one like it.
Deliver(a) ==
  LET n == Head(inbox[a])
      met == {w \in waits : w.on = a /\ Meets(w, n)}
  IN
  /\ inbox[a] # <<>> /\ inbox' = [inbox EXCEPT ![a] = Tail(@)]
  /\ waits' = waits \ met
  /\ heard' = heard \cup {[wait |-> w, notice |-> n] : w \in met}
  /\ UNCHANGED <<vars, bound, observers, events, mail, shown, line>>

Serve ==
  /\ \/ \E a \in Players :
          \/ TakeJoin(a) \/ TakeLeave(a) \/ Admitted(a) \/ Arrived(a)
          \/ (Leave(a) \/ Destroy(a)) /\ UNCHANGED wireVars
          \/ \E i \in Joins : Completed(a, i)
     \/ OnPlayerWinMilestone
  /\ UNCHANGED clientVars

ScenarioNext == Act \/ Serve \/ \E a \in Players : Deliver(a)

ScenarioSpec ==
  Init /\ ScenarioInit /\ line = 1 /\ [][ScenarioNext]_<<vars, scenarioVars>>

-----------------------------------------------------------------------------
\* Every game and every departure comes to its end; and so does the client's scenario:
\* each notice it waits for comes and shows the match as it is, the reconnected player
\* finds its game as it was, and the observer hears of the milestone, however the
\* joins, the pushes and the milestone's event interleave with its requests.
GamesPlayOut == GamesEnd /\ (line = 1 ~> line = Done)
=============================================================================
