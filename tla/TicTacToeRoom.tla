---------------------------- MODULE TicTacToeRoom ----------------------------
(***************************************************************************)
(* A TicTacToe room (samples/TicTacToe/Server/Play): the room's Spot       *)
(* (TicTacToeGameSpot), the Entry Spot, the player actors that move        *)
(* between them, and the stream sessions that bind them.  A Spot runs one  *)
(* handler at a time, so a handler is one step.                            *)
(*                                                                         *)
(* The framework (external): it carries the joins an actor deferred out    *)
(* one at a time, in the order they were asked for, wherever the actor is  *)
(* by then; a join is two callbacks of the room, the admission             *)
(* (on_actor_join) while the actor is still where it was, and the arrival  *)
(* (on_actor_joined), between which other admissions may fall; it may fail *)
(* a join at any point before the arrival.  It reports the ends of an      *)
(* actor's joins in their order, and may report any of them again, at any  *)
(* time, also in the process the actor was carried to.                     *)
(*                                                                         *)
(* A disconnect only sets a mark that no handler reads, so it is not a     *)
(* step: a disconnected player is one that does nothing more.              *)
(*                                                                         *)
(* Bounds: an actor asks for at most MaxJoins joins in a life, and is      *)
(* created at most MaxLives times.                                         *)
(***************************************************************************)
EXTENDS TicTacToeMatch, Sequences

CONSTANTS
  Wins,       \* wins of a player when it authenticates
  Milestone,  \* the number of wins that is announced (100 in the code)
  MaxJoins, MaxLives

ASSUME RoomAssumption ==
  /\ Wins \in [Players -> Nat]
  /\ Milestone \in Nat /\ MaxJoins \in Nat /\ MaxLives \in Nat

VARIABLES
  match,
  admitted,    \* the Spot's _pending_joins: the wins a request brings, or None
  members,     \* the Spot's actors
  players,     \* the Spot's players: wins, or None
  at,          \* per actor: where it is
  actor,       \* per actor: its own fields
  asked,       \* per actor: the joins it asked for in this life, in order
  reply,       \* per actor: the mark its admission was answered with, or "none"
  over,        \* per actor: how its joins ended, in order: a mark or "failed"
  reported,    \* per actor: the number of ends that were reported to it
  away,        \* history: it was carried to another process in this life
  failures,    \* history: failure notices
  milestones,  \* history: milestone events, in order
  overlapped,  \* history: one was admitted while another was on its way
  created      \* per actor: number of creations

spotVars  == <<match, admitted, members, players, overlapped>>
joinVars  == <<asked, reply, over, reported>>
vars == <<spotVars, at, actor, joinVars, away, failures, milestones, created>>

NewActor(a) == [wins |-> Wins[a], destroy |-> FALSE, rooms |-> <<>>, processed |-> {}]

Init ==
  /\ match = NewMatch
  /\ admitted = [a \in Players |-> None]
  /\ members = {}
  /\ players = [a \in Players |-> None]
  /\ at = [a \in Players |-> "nowhere"]
  /\ actor = [a \in Players |-> NewActor(a)]
  /\ asked = [a \in Players |-> <<>>]
  /\ reply = [a \in Players |-> "none"]
  /\ over = [a \in Players |-> <<>>]
  /\ reported = [a \in Players |-> 0]
  /\ away = [a \in Players |-> FALSE]
  /\ failures = {}
  /\ milestones = <<>>
  /\ overlapped = FALSE
  /\ created = [a \in Players |-> 0]

-----------------------------------------------------------------------------
(* Sessions and the Entry Spot *)

\* The first authentication of a player, or the first after its actor was
\* destroyed, creates the actor.  Later ones only bind another session.
Authenticate(a) ==
  /\ at[a] = "nowhere" /\ created[a] < MaxLives
  /\ at' = [at EXCEPT ![a] = "entry"]
  /\ actor' = [actor EXCEPT ![a] = NewActor(a)]
  /\ created' = [created EXCEPT ![a] = @ + 1]
  /\ UNCHANGED <<spotVars, joinVars, away, failures, milestones>>

\* join_game: remember the room, defer a join that brings the player as it is
\* now; others of the actor may still be waiting or on their way.
JoinGame(a, room) ==
  /\ at[a] = "entry" /\ Len(asked[a]) < MaxJoins
  /\ actor' = [actor EXCEPT ![a].rooms = Append(@, room)]
  /\ asked' = [asked EXCEPT ![a] = Append(@, [room |-> room, wins |-> actor[a].wins])]
  /\ UNCHANGED <<spotVars, at, reply, over, reported, away, failures, milestones, created>>

\* The join that is carried out.
UnderWay(a) == Len(over[a]) < Len(asked[a])
Request(a) == asked[a][Len(over[a]) + 1]

\* on_actor_join at the room: evaluated, not yet joined.
Admit(a) ==
  /\ UnderWay(a) /\ reply[a] = "none"
  /\ Request(a).room = "room" /\ CanJoin(match, a)
  /\ overlapped' = (overlapped \/ \E b \in Players \ {a} : reply[b] # "none")
  /\ admitted' = [admitted EXCEPT ![a] = Request(a).wins]
  /\ reply' = [reply EXCEPT ![a] = MarkOf(EvaluateJoin(match, a), a)]
  /\ UNCHANGED <<match, members, players, at, actor, asked, over, reported, away,
                 failures, milestones, created>>

\* The room rejects the player's level or throws, there is no such room, or it
\* is not reached; also after the admission, whose request stays at the room.
JoinFails(a) ==
  /\ UnderWay(a)
  /\ over' = [over EXCEPT ![a] = Append(@, "failed")]
  /\ reply' = [reply EXCEPT ![a] = "none"]
  /\ UNCHANGED <<spotVars, at, actor, asked, reported, away, failures, milestones, created>>

\* on_actor_joined: the actor has moved, or was in the room already.  The
\* adapter that carries it to another process keeps neither its pending rooms
\* nor its processed operations.  With both seats taken meanwhile match.join
\* throws, and the actor is in the room without a seat.
Arrive(a, moved) ==
  /\ reply[a] # "none" /\ admitted[a] # None
  /\ at[a] \in {"entry", "room", "leaving"} /\ (moved => at[a] = "entry")
  /\ admitted' = [admitted EXCEPT ![a] = None]
  /\ players' = [players EXCEPT ![a] = admitted[a]]
  /\ actor' = [actor EXCEPT ![a] =
       IF moved THEN [@ EXCEPT !.wins = admitted[a], !.rooms = <<>>, !.processed = {}]
       ELSE [@ EXCEPT !.wins = admitted[a]]]
  /\ IF CanJoin(match, a)
     THEN match' = Join(match, a) /\ members' = members \cup {a}
     ELSE UNCHANGED <<match, members>>
  /\ at' = [at EXCEPT ![a] = IF @ = "entry" THEN "room" ELSE @]
  /\ away' = [away EXCEPT ![a] = @ \/ moved]
  /\ over' = [over EXCEPT ![a] = Append(@, reply[a])]
  /\ reply' = [reply EXCEPT ![a] = "none"]
  /\ UNCHANGED <<overlapped, asked, reported, failures, milestones, created>>

\* Mutant: the operations that were processed are not remembered.
MutFresh(a, i) == TRUE

\* The i-th end is one the actor has not processed.
Fresh(a, i) == i \notin actor[a].processed

\* on_join_completed
JoinCompleted(a, i) ==
  /\ i \in DOMAIN over[a] /\ i <= reported[a] + 1
  /\ reported' = [reported EXCEPT ![a] = IF i > @ THEN i ELSE @]
  /\ LET rooms == actor[a].rooms
     IN  IF Fresh(a, i)
         THEN /\ failures' = IF over[a][i] # "failed" THEN failures ELSE failures \cup
                   {[room |-> asked[a][i].room, away |-> away[a],
                     named |-> IF rooms = <<>> THEN "none" ELSE Head(rooms)]}
              /\ actor' = [actor EXCEPT
                   ![a].processed = @ \cup {i},
                   ![a].rooms = IF rooms = <<>> THEN @ ELSE Tail(@)]
         ELSE UNCHANGED <<failures, actor>>
  /\ UNCHANGED <<spotVars, at, asked, reply, over, away, milestones, created>>

-----------------------------------------------------------------------------
(* The room *)

Scores(m, a) == m.status = "won" /\ m.winner = a

\* place_mark and publish_win_milestone.
PlaceMark(a, c) ==
  /\ at[a] = "room"
  /\ CanPlace(match, a, c)
  /\ LET m == Place(match, a, c)
         n == players[a] + 1
     IN  /\ match' = m
         /\ IF Scores(m, a)
            THEN /\ players' = [players EXCEPT ![a] = n]
                 /\ actor' = [actor EXCEPT ![a].wins = n]
                 /\ milestones' = IF n = Milestone THEN Append(milestones, a)
                                  ELSE milestones
            ELSE UNCHANGED <<players, actor, milestones>>
  /\ UNCHANGED <<admitted, members, overlapped, at, joinVars, away, failures, created>>

TurnTimePasses ==
  /\ match.deadline = "armed"
  /\ match' = [match EXCEPT !.deadline = "due"]
  /\ UNCHANGED <<admitted, members, players, overlapped, at, actor, joinVars,
                 away, failures, milestones, created>>

GameTick ==
  /\ Ticks(match)
  /\ match' = Tick(match)
  /\ UNCHANGED <<admitted, members, players, overlapped, at, actor, joinVars,
                 away, failures, milestones, created>>

\* Mutant: the actor is not marked for destruction.
MutLeaveGame(a) ==
  /\ at[a] = "room"
  /\ CanLeave(match, a)
  /\ at' = [at EXCEPT ![a] = "leaving"]
  /\ UNCHANGED <<spotVars, actor, joinVars, away, failures, milestones, created>>

\* leave_game
LeaveGame(a) ==
  /\ at[a] = "room"
  /\ CanLeave(match, a)
  /\ actor' = [actor EXCEPT ![a].destroy = TRUE]
  /\ at' = [at EXCEPT ![a] = "leaving"]
  /\ UNCHANGED <<spotVars, joinVars, away, failures, milestones, created>>

\* The return to the Entry Spot: on_leave_actor of the room, then
\* on_actor_joined of the Entry Spot, which destroys a marked actor.
Leave(a) ==
  /\ at[a] = "leaving"
  /\ members' = members \ {a}
  /\ players' = [players EXCEPT ![a] = None]
  /\ at' = [at EXCEPT ![a] = IF actor[a].destroy THEN "destroying" ELSE "entry"]
  /\ UNCHANGED <<match, admitted, overlapped, actor, joinVars, away, failures,
                 milestones, created>>

\* destroy_actor; what the framework still held for the actor goes with it.
Destroy(a) ==
  /\ at[a] = "destroying"
  /\ at' = [at EXCEPT ![a] = "nowhere"]
  /\ asked' = [asked EXCEPT ![a] = <<>>]
  /\ reply' = [reply EXCEPT ![a] = "none"]
  /\ over' = [over EXCEPT ![a] = <<>>]
  /\ reported' = [reported EXCEPT ![a] = 0]
  /\ away' = [away EXCEPT ![a] = FALSE]
  /\ UNCHANGED <<spotVars, actor, failures, milestones, created>>

-----------------------------------------------------------------------------
Rooms == {"room", "gone"}

Moves == \E a \in Players, c \in Cells : PlaceMark(a, c)

Runtime(a) ==
  \/ Admit(a) \/ JoinFails(a)
  \/ \E moved \in BOOLEAN : Arrive(a, moved)
  \/ Leave(a) \/ Destroy(a)

Next ==
  \/ \E a \in Players :
       \/ Authenticate(a) \/ LeaveGame(a) \/ Runtime(a)
       \/ \E room \in Rooms : JoinGame(a, room)
       \/ \E i \in 1..MaxJoins : JoinCompleted(a, i)
  \/ Moves \/ TurnTimePasses \/ GameTick

Spec == Init /\ [][Next]_vars

\* The clock, the one-second room timer and the framework's moves go on;
\* players promise nothing.
Fairness ==
  /\ WF_vars(TurnTimePasses) /\ WF_vars(GameTick)
  /\ \A a \in Players : WF_vars(Runtime(a))

FairSpec == Spec /\ Fairness

-----------------------------------------------------------------------------
Joins == 1..MaxJoins

\* The shape of every variable.
TypeOK ==
  /\ match \in Matches
  /\ admitted \in [Players -> Nat \cup {None}] /\ members \subseteq Players
  /\ players \in [Players -> Nat \cup {None}]
  /\ at \in [Players -> {"nowhere", "entry", "room", "leaving", "destroying"}]
  /\ actor \in [Players -> [wins : Nat, destroy : BOOLEAN, rooms : Seq(Rooms),
                            processed : SUBSET Joins]]
  /\ asked \in [Players -> Seq([room : Rooms, wins : Nat])]
  /\ \A a \in Players : Len(asked[a]) <= MaxJoins
  /\ reply \in [Players -> Marks \cup {"none"}]
  /\ over \in [Players -> Seq(Marks \cup {"failed"})]
  /\ reported \in [Players -> Nat]
  /\ away \in [Players -> BOOLEAN]
  /\ failures \subseteq [room : Rooms, away : BOOLEAN, named : Rooms \cup {"none"}]
  /\ milestones \in Seq(Players)
  /\ created \in [Players -> 0..MaxLives]
  /\ overlapped \in BOOLEAN

Count(mark) == Cardinality({c \in Cells : match.board[c] = mark})

\* While the game runs two different players hold the seats and the marks on
\* the board alternate, X first: nobody moves twice or out of turn, whatever
\* joins, rejoins, returns and repeated messages arrive in between.
TurnsAlternate ==
  /\ match.status = "playing" =>
       /\ match.x # None /\ match.o # None /\ match.x # match.o
       /\ match.turn \in Marks
       /\ Count("x") = Count("o") + (IF match.turn = "o" THEN 1 ELSE 0)
  /\ Count("x") - Count("o") \in {0, 1}

\* The outcome is the board's: a win has the winner's line and no other, a
\* draw and a timeout have none, and a timeout is won by the player who was
\* not on turn.
OutcomeFits ==
  /\ match.status = "won" =>
       \E mark \in Marks : /\ Player(match, mark) = match.winner
                           /\ HasLine(match.board, mark)
                           /\ ~HasLine(match.board, Other(mark))
  /\ match.status # "won" => \A mark \in Marks : ~HasLine(match.board, mark)
  /\ match.status = "draw" => \A c \in Cells : match.board[c] # "."
  /\ match.status = "timedOut" =>
       match.winner =
         Player(match, IF Count("x") = Count("o") THEN "o" ELSE "x")

ArrivedOnce(a) ==
  \A i, j \in DOMAIN over[a] : over[a][i] # "failed" /\ over[a][j] # "failed" => i = j

\* Room and actor agree on the wins: a member's count is what it brought plus
\* the won game, counted once, and the milestone was announced exactly for a
\* winner who reached it by this game.  A join that is carried out in the room
\* brings the wins of the time it was asked for.
WinCountedOnce ==
  /\ \A a \in members :
       /\ players[a] = actor[a].wins
       /\ created[a] = 1 /\ ArrivedOnce(a) =>
            players[a] = Wins[a]
              + (IF match.status = "won" /\ match.winner = a THEN 1 ELSE 0)
  /\ Len(milestones) =
       IF match.status = "won" /\ Wins[match.winner] + 1 = Milestone THEN 1 ELSE 0

\* The game is played by the rules to an outcome that late moves, ticks and
\* rejoins cannot spoil, and its win is counted and announced once.
GameIsFair == TypeOK /\ TurnsAlternate /\ OutcomeFits /\ WinCountedOnce

\* Only seated players are members, a player leaves or is destroyed only when
\* its game is over, and a running game has a deadline for those who stop.
PlayersStay ==
  /\ members \subseteq {match.x, match.o}
  /\ match.status = "playing" => match.deadline # "none"
  /\ \A a \in Players :
       a \in {match.x, match.o} /\ ~Final(match) => a \in members /\ at[a] = "room"

\* The actor pairs the ends of its joins with its queue of rooms, which several
\* joins may wait in; the queue is lost when the actor changes processes.
FailureNamesRoom ==
  \A f \in failures : f.named = IF f.away THEN "none" ELSE f.room

\* While admissions came one at a time.
SeatAsTold ==
  ~overlapped =>
    \A a \in Players :
      /\ a \in members =>
           \A i \in DOMAIN over[a] : over[a][i] # "failed" => Player(match, over[a][i]) = a
      /\ at[a] = "room" => a \in members

\* Players are told the truth: a failure notice names the room that was asked for, or
\* none after a change of process, however many joins wait and however often their ends
\* are reported; and the state shown in an accepted join is the seat the player gets.
ToldTruly == FailureNamesRoom /\ SeatAsTold

\* A running game ends although players disconnect or stop moving, and a
\* player who left is destroyed, so that its id can be created again.
GamesEnd ==
  /\ match.status = "playing" ~> Final(match)
  /\ \A a \in Players : at[a] = "leaving" ~> at[a] = "nowhere"
=============================================================================
