-------------------------- MODULE TicTacToeRoomProofs --------------------------
(***************************************************************************)
(* Proofs about TicTacToeRoom, for any players, any finite board and any   *)
(* winning lines.  The match keeps its own invariant under its operations; *)
(* each player's place, seat, told mark and queue of rooms keep theirs     *)
(* under the steps of the room, the Entry Spot and the runtime.            *)
(***************************************************************************)
EXTENDS TicTacToeScenario, FiniteSetTheorems, SequenceTheorems, TLAPS

-----------------------------------------------------------------------------
(* The match *)

CountIn(board, mark) == Cardinality({c \in Cells : board[c] = mark})

\* What tictactoe_match_t keeps between its operations.
MatchInv(m) ==
  /\ m.x = None => m.o = None
  /\ m.x # None => m.x # m.o
  /\ m.status = "waiting" =>
       /\ m.o = None /\ m.deadline = "none" /\ m.winner = None
       /\ m.board = [c \in Cells |-> "."]
       /\ m.x # None => m.turn = "x"
  /\ m.status # "waiting" => m.o # None
  /\ m.status = "playing" => m.turn \in Marks /\ m.deadline # "none"
  /\ m.status \in {"won", "timedOut"} => m.winner \in {m.x, m.o}
  /\ m.status # "won" => \A mark \in Marks : ~HasLine(m.board, mark)

\* X moves first and the players alternate.
CountInv(m) ==
  LET x == CountIn(m.board, "x")
      o == CountIn(m.board, "o")
  IN  /\ m.status = "playing" => x = o + (IF m.turn = "o" THEN 1 ELSE 0)
      /\ x = o \/ x = o + 1

\* The outcome is the board's.
OutcomeInv(m) ==
  /\ m.status = "won" =>
       \E mark \in Marks : /\ Player(m, mark) = m.winner
                           /\ HasLine(m.board, mark)
                           /\ ~HasLine(m.board, Other(mark))
  /\ m.status = "draw" => \A c \in Cells : m.board[c] # "."
  /\ m.status = "timedOut" =>
       m.winner =
         Player(m, IF CountIn(m.board, "x") = CountIn(m.board, "o") THEN "o" ELSE "x")

Fair(m) == m \in Matches /\ MatchInv(m) /\ CountInv(m) /\ OutcomeInv(m)

LEMMA CountType ==
  ASSUME NEW board, NEW mark
  PROVE  CountIn(board, mark) \in Nat /\ IsFiniteSet({c \in Cells : board[c] = mark})
<1>1. {c \in Cells : board[c] = mark} \subseteq Cells
  OBVIOUS
<1>2. IsFiniteSet({c \in Cells : board[c] = mark})
  BY <1>1, FS_Subset, MatchAssumption
<1> QED
  BY <1>2, FS_CardinalityType DEF CountIn

LEMMA EmptyBoard ==
  ASSUME NEW mark \in Marks
  PROVE  /\ CountIn([c \in Cells |-> "."], mark) = 0
         /\ ~HasLine([c \in Cells |-> "."], mark)
<1>1. {c \in Cells : [d \in Cells |-> "."][c] = mark} = {}
  BY DEF Marks
<1>2. CountIn([c \in Cells |-> "."], mark) = 0
  BY <1>1, FS_EmptySet DEF CountIn
<1>3. ASSUME NEW l \in Lines, \A c \in l : [d \in Cells |-> "."][c] = mark
      PROVE  FALSE
  <2>1. l # {} /\ l \subseteq Cells
    BY MatchAssumption
  <2>2. PICK c \in l : c \in Cells
    BY <2>1
  <2> QED
    BY <1>3, <2>2 DEF Marks
<1> QED
  BY <1>2, <1>3 DEF HasLine

\* A mark in an empty cell.
LEMMA MarkCounts ==
  ASSUME NEW b \in [Cells -> Marks \cup {"."}], NEW c \in Cells, b[c] = ".",
         NEW mark \in Marks
  PROVE  LET n == [b EXCEPT ![c] = mark]
         IN  /\ CountIn(n, mark) = CountIn(b, mark) + 1
             /\ CountIn(n, Other(mark)) = CountIn(b, Other(mark))
             /\ ~HasLine(b, Other(mark)) => ~HasLine(n, Other(mark))
<1> DEFINE n == [b EXCEPT ![c] = mark]
           S == {d \in Cells : b[d] = mark}
           T == {d \in Cells : b[d] = Other(mark)}
<1>1. mark # "." /\ Other(mark) # "." /\ mark # Other(mark)
  BY DEF Marks, Other
<1>2. n \in [Cells -> Marks \cup {"."}]
      /\ \A d \in Cells : n[d] = IF d = c THEN mark ELSE b[d]
  OBVIOUS
<1> HIDE DEF n
<1>3. {d \in Cells : n[d] = mark} = S \cup {c} /\ c \notin S
  BY <1>1, <1>2
<1>4. {d \in Cells : n[d] = Other(mark)} = T
  BY <1>1, <1>2
<1>5. IsFiniteSet(S)
  BY CountType
<1>6. Cardinality(S \cup {c}) = Cardinality(S) + 1
  BY <1>3, <1>5, FS_AddElement
<1>7. CountIn(n, mark) = CountIn(b, mark) + 1
  BY <1>3, <1>6 DEF CountIn
<1>8. CountIn(n, Other(mark)) = CountIn(b, Other(mark))
  BY <1>4 DEF CountIn
<1>9. ASSUME HasLine(n, Other(mark)) PROVE HasLine(b, Other(mark))
  <2>1. PICK l \in Lines : \A d \in l : n[d] = Other(mark)
    BY <1>9 DEF HasLine
  <2>2. \A d \in l : d \in Cells /\ b[d] = Other(mark)
    BY <1>1, <1>2, <2>1, MatchAssumption
  <2> QED
    BY <2>2 DEF HasLine
<1> QED
  BY <1>7, <1>8, <1>9 DEF n

LEMMA NewMatchFair == Fair(NewMatch)
<1>1. NewMatch \in Matches
  BY DEF NewMatch, Matches
<1>2. /\ CountIn(NewMatch.board, "x") = 0 /\ CountIn(NewMatch.board, "o") = 0
      /\ \A mark \in Marks : ~HasLine(NewMatch.board, mark)
  BY EmptyBoard DEF NewMatch, Marks
<1>3. CountInv(NewMatch)
  BY <1>2 DEF CountInv, NewMatch
<1> QED
  BY <1>1, <1>2, <1>3 DEF Fair, MatchInv, OutcomeInv, NewMatch

\* A join seats a player that has no seat, and changes nothing else of a match
\* that has begun.
LEMMA JoinFair ==
  ASSUME NEW m \in Matches, Fair(m), NEW a \in Players, CanJoin(m, a)
  PROVE  /\ Fair(Join(m, a))
         /\ a \in {Join(m, a).x, Join(m, a).o}
         /\ {Join(m, a).x, Join(m, a).o} \subseteq {m.x, m.o, a}
         /\ m.x # None => Join(m, a).x = m.x
         /\ m.o # None => Join(m, a).o = m.o
         /\ Join(m, a).x = EvaluateJoin(m, a).x /\ Join(m, a).o = EvaluateJoin(m, a).o
         /\ Join(m, a).board = m.board /\ Join(m, a).winner = m.winner
         /\ Join(m, a).status # m.status => ~Final(m) /\ ~Final(Join(m, a))
<1> DEFINE n == Join(m, a)
<1>0. a # None
  BY MatchAssumption
<1>1. CASE m.x = None
  <2>1. n = [m EXCEPT !.x = a, !.turn = "x", !.status = "waiting"]
    BY <1>1 DEF Join, EvaluateJoin
  <2>2. m.status = "waiting" /\ m.o = None
    BY <1>1 DEF Fair, MatchInv
  <2>3. n \in Matches
    BY <2>1 DEF Matches, Marks
  <2>4. /\ n.x = a /\ n.o = None /\ n.turn = "x" /\ n.status = "waiting"
        /\ n.board = m.board /\ n.winner = m.winner /\ n.deadline = m.deadline
    BY <2>1, <2>2 DEF Matches
  <2> HIDE DEF n
  <2>5. MatchInv(n) /\ CountInv(n) /\ OutcomeInv(n)
    BY <1>0, <2>2, <2>4 DEF Fair, MatchInv, CountInv, OutcomeInv
  <2>6. EvaluateJoin(m, a).x = a /\ EvaluateJoin(m, a).o = None
    BY <1>1, <2>2 DEF EvaluateJoin, Matches
  <2> QED
    BY <1>1, <2>2, <2>3, <2>4, <2>5, <2>6 DEF Fair, Final, n
<1>2. CASE m.x # None /\ a # m.x /\ m.o = None
  <2>1. n = [[m EXCEPT !.o = a, !.status = "playing"] EXCEPT !.deadline = "armed"]
    <3>1. m.status = "waiting"
      BY <1>2 DEF Fair, MatchInv
    <3>2. EvaluateJoin(m, a) = [m EXCEPT !.o = a, !.status = "playing"]
      BY <1>2 DEF EvaluateJoin
    <3>3. EvaluateJoin(m, a).status = "playing"
      BY <3>2 DEF Matches
    <3> QED
      BY <3>1, <3>2, <3>3 DEF Join
  <2>2. m.status = "waiting" /\ m.turn = "x" /\ m.board = [c \in Cells |-> "."]
    BY <1>2 DEF Fair, MatchInv
  <2>3. n \in Matches
    BY <2>1 DEF Matches, Marks
  <2>4. /\ n.x = m.x /\ n.o = a /\ n.turn = "x" /\ n.status = "playing"
        /\ n.board = m.board /\ n.winner = m.winner /\ n.deadline = "armed"
    BY <2>1, <2>2 DEF Matches
  <2>5. EvaluateJoin(m, a).x = m.x /\ EvaluateJoin(m, a).o = a
    BY <1>2 DEF EvaluateJoin, Matches
  <2> HIDE DEF n
  <2>6. CountIn(n.board, "x") = 0 /\ CountIn(n.board, "o") = 0
    BY <2>2, <2>4, EmptyBoard DEF Marks
  <2>7. MatchInv(n) /\ OutcomeInv(n)
    BY <1>0, <1>2, <2>2, <2>4 DEF Fair, MatchInv, OutcomeInv, Marks
  <2>8. CountInv(n)
    BY <2>4, <2>6 DEF CountInv
  <2> QED
    BY <1>2, <2>2, <2>3, <2>4, <2>5, <2>7, <2>8 DEF Fair, Final, n
<1>3. CASE m.x # None /\ ~(a # m.x /\ m.o = None)
  <2>1. EvaluateJoin(m, a) = m /\ n = m
    BY <1>3 DEF EvaluateJoin, Join
  <2> QED
    BY <1>0, <1>3, <2>1 DEF CanJoin
<1> QED
  BY <1>1, <1>2, <1>3

\* A move alternates the marks, and ends the match exactly with a line or a
\* full board.
LEMMA PlaceFair ==
  ASSUME NEW m \in Matches, Fair(m), NEW a \in Players, NEW c \in Cells,
         CanPlace(m, a, c)
  PROVE  /\ Fair(Place(m, a, c))
         /\ a \in {m.x, m.o}
         /\ Place(m, a, c).x = m.x /\ Place(m, a, c).o = m.o
         /\ Place(m, a, c).status # "waiting"
         /\ Place(m, a, c).status = "won" => Place(m, a, c).winner = a
<1> DEFINE mark == MarkOf(m, a)
           b == [m.board EXCEPT ![c] = mark]
           n == Place(m, a, c)
           x == CountIn(m.board, "x")
           o == CountIn(m.board, "o")
<1>1. /\ m.status = "playing" /\ m.turn \in Marks /\ Player(m, m.turn) = a
      /\ m.board[c] = "." /\ m.board \in [Cells -> Marks \cup {"."}]
      /\ m.x # m.o /\ m.deadline # "none" /\ m.x # None /\ m.o # None
      /\ ~HasLine(m.board, "x") /\ ~HasLine(m.board, "o")
  BY DEF CanPlace, Fair, MatchInv, Matches, Marks
<1>2. mark = m.turn /\ mark \in Marks /\ a \in {m.x, m.o} /\ Player(m, mark) = a
  BY <1>1 DEF MarkOf, Player, Marks
<1>3. x = o + (IF m.turn = "o" THEN 1 ELSE 0) /\ x \in Nat /\ o \in Nat
  BY <1>1, CountType DEF Fair, CountInv
<1>4. /\ CountIn(b, mark) = CountIn(m.board, mark) + 1
      /\ CountIn(b, Other(mark)) = CountIn(m.board, Other(mark))
      /\ ~HasLine(b, Other(mark))
  <2>1. ~HasLine(m.board, Other(mark))
    BY <1>1, <1>2 DEF Other, Marks
  <2> QED
    BY <1>1, <1>2, <2>1, MarkCounts
<1>5. b \in [Cells -> Marks \cup {"."}]
  BY <1>1, <1>2
<1>6. \/ HasLine(b, mark) /\ n = [m EXCEPT !.board = b, !.status = "won", !.winner = a]
      \/ /\ ~HasLine(b, mark) /\ \A d \in Cells : b[d] # "."
         /\ n = [m EXCEPT !.board = b, !.status = "draw"]
      \/ /\ ~HasLine(b, mark)
         /\ n = [m EXCEPT !.board = b, !.turn = Other(mark), !.deadline = "armed"]
  BY DEF Place
<1> HIDE DEF b, mark, n, x, o
<1>7. \/ mark = "x" /\ Other(mark) = "o"
      \/ mark = "o" /\ Other(mark) = "x"
  BY <1>2 DEF Marks, Other
<1>8. \/ /\ mark = "x" /\ CountIn(b, "x") = x + 1 /\ CountIn(b, "o") = o /\ x = o
      \/ /\ mark = "o" /\ CountIn(b, "x") = x /\ CountIn(b, "o") = o + 1 /\ x = o + 1
  <2>1. CASE mark = "x" /\ Other(mark) = "o"
    BY <1>2, <1>3, <1>4, <2>1 DEF x, o
  <2>2. CASE mark = "o" /\ Other(mark) = "x"
    BY <1>2, <1>3, <1>4, <2>2 DEF x, o
  <2> QED
    BY <1>7, <2>1, <2>2
<1>9. n.board = b /\ n.x = m.x /\ n.o = m.o
  BY <1>6 DEF Matches
<1>10. CASE HasLine(b, mark) /\ n = [m EXCEPT !.board = b, !.status = "won", !.winner = a]
  <2>1. n \in Matches
    BY <1>5, <1>10 DEF Matches
  <2>2. n.status = "won" /\ n.winner = a /\ n.turn = m.turn
    BY <1>10 DEF Matches
  <2>3. Player(n, mark) = a
    BY <1>2, <1>9 DEF Player
  <2>4. MatchInv(n)
    BY <1>1, <1>2, <1>9, <2>2 DEF MatchInv
  <2>5. CountInv(n)
    BY <1>3, <1>8, <1>9, <2>2 DEF CountInv
  <2>6. OutcomeInv(n)
    BY <1>2, <1>4, <1>9, <1>10, <2>2, <2>3 DEF OutcomeInv
  <2> QED
    BY <1>2, <1>9, <2>1, <2>2, <2>4, <2>5, <2>6 DEF Fair, n
<1>11. ~HasLine(b, mark) => \A k \in Marks : ~HasLine(b, k)
  BY <1>4, <1>7 DEF Marks
<1>12. CASE /\ ~HasLine(b, mark) /\ \A d \in Cells : b[d] # "."
            /\ n = [m EXCEPT !.board = b, !.status = "draw"]
  <2>1. n \in Matches
    BY <1>5, <1>12 DEF Matches
  <2>2. n.status = "draw"
    BY <1>12 DEF Matches
  <2>4. MatchInv(n)
    BY <1>1, <1>9, <1>11, <1>12, <2>2 DEF MatchInv
  <2>5. CountInv(n)
    BY <1>3, <1>8, <1>9, <2>2 DEF CountInv
  <2>6. OutcomeInv(n)
    BY <1>9, <1>12, <2>2 DEF OutcomeInv
  <2> QED
    BY <1>2, <1>9, <2>1, <2>2, <2>4, <2>5, <2>6 DEF Fair, n
<1>13. CASE /\ ~HasLine(b, mark)
            /\ n = [m EXCEPT !.board = b, !.turn = Other(mark), !.deadline = "armed"]
  <2>1. n \in Matches
    BY <1>5, <1>7, <1>13 DEF Matches, Marks
  <2>2. n.status = "playing" /\ n.turn = Other(mark) /\ n.deadline = "armed"
    BY <1>1, <1>13 DEF Matches
  <2>4. MatchInv(n)
    BY <1>1, <1>7, <1>9, <1>11, <1>13, <2>2 DEF MatchInv, Marks
  <2>5. CountInv(n)
    BY <1>3, <1>7, <1>8, <1>9, <2>2 DEF CountInv
  <2>6. OutcomeInv(n)
    BY <2>2 DEF OutcomeInv
  <2> QED
    BY <1>2, <1>9, <2>1, <2>2, <2>4, <2>5, <2>6 DEF Fair, n
<1> QED
  BY <1>6, <1>10, <1>12, <1>13

LEMMA TickFair ==
  ASSUME NEW m \in Matches, Fair(m), Ticks(m)
  PROVE  /\ Fair(Tick(m)) /\ Tick(m).x = m.x /\ Tick(m).o = m.o
         /\ Tick(m).status = "timedOut" /\ m.status = "playing"
<1> DEFINE n == Tick(m)
           x == CountIn(m.board, "x")
           o == CountIn(m.board, "o")
<1>1. /\ m.status = "playing" /\ m.turn \in Marks /\ m.o # None /\ m.x # None /\ m.x # m.o
      /\ \A mark \in Marks : ~HasLine(m.board, mark)
      /\ x = o + (IF m.turn = "o" THEN 1 ELSE 0) /\ x \in Nat /\ o \in Nat
      /\ x = o \/ x = o + 1
  BY CountType DEF Ticks, Fair, MatchInv, CountInv
<1>2. Player(m, Other(m.turn)) \in {m.x, m.o}
  BY DEF Player
<1>3. n = [m EXCEPT !.status = "timedOut", !.winner = Player(m, Other(m.turn)),
                    !.turn = "none", !.deadline = "none"]
  BY DEF Tick
<1>4. n \in Matches
  BY <1>2, <1>3 DEF Matches
<1>5. /\ n.x = m.x /\ n.o = m.o /\ n.status = "timedOut" /\ n.board = m.board
      /\ n.winner = Player(m, Other(m.turn))
  BY <1>3 DEF Matches
<1>6. Other(m.turn) = IF x = o THEN "o" ELSE "x"
  BY <1>1 DEF Other, Marks
<1>7. n.winner = Player(n, IF x = o THEN "o" ELSE "x")
  BY <1>5, <1>6 DEF Player
<1> HIDE DEF n
<1>8. MatchInv(n)
  BY <1>1, <1>2, <1>5 DEF MatchInv
<1>9. CountInv(n)
  BY <1>1, <1>5 DEF CountInv
<1>10. OutcomeInv(n)
  BY <1>5, <1>7 DEF OutcomeInv
<1> QED
  BY <1>1, <1>4, <1>5, <1>8, <1>9, <1>10 DEF Fair, n

LEMMA DueFair ==
  ASSUME NEW m \in Matches, Fair(m), m.deadline = "armed"
  PROVE  LET n == [m EXCEPT !.deadline = "due"]
         IN  /\ Fair(n) /\ n.x = m.x /\ n.o = m.o /\ n.status = m.status
             /\ n.winner = m.winner
<1> DEFINE n == [m EXCEPT !.deadline = "due"]
<1>1. /\ n \in Matches /\ n.x = m.x /\ n.o = m.o /\ n.status = m.status
      /\ n.winner = m.winner /\ n.board = m.board /\ n.turn = m.turn /\ n.deadline = "due"
  BY DEF Matches
<1> HIDE DEF n
<1>2. MatchInv(n)
  BY <1>1 DEF Fair, MatchInv
<1>3. CountInv(n)
  BY <1>1 DEF Fair, CountInv
<1>4. OutcomeInv(n)
  <2>1. Player(n, "x") = Player(m, "x") /\ Player(n, "o") = Player(m, "o")
    BY <1>1 DEF Player
  <2>2. \A mark \in Marks : Player(n, mark) = Player(m, mark)
    BY <2>1 DEF Marks
  <2> QED
    BY <1>1, <2>1, <2>2 DEF Fair, OutcomeInv
<1> QED
  BY <1>1, <1>2, <1>3, <1>4 DEF Fair, n

-----------------------------------------------------------------------------
(* The room *)

Actors == [wins : Nat, destroy : BOOLEAN, rooms : Seq(Rooms), processed : SUBSET Joins]
Requests == [room : Rooms, wins : Nat]
Notices == [room : Rooms, away : BOOLEAN, named : Rooms \cup {"none"}]

\* Where an actor is, how its joins ended there and how often it was created.
LifeInv(a) ==
  /\ a \in members => at[a] \in {"room", "leaving"}
  /\ at[a] \in {"leaving", "destroying"} => Final(match) /\ actor[a].destroy
  /\ at[a] # "nowhere" => created[a] # 0
  /\ ~Final(match) => created[a] \in {0, 1} /\ (at[a] = "nowhere" => created[a] = 0)
  /\ at[a] = "nowhere" => asked[a] = <<>> /\ reported[a] = 0 /\ ~away[a]
  /\ at[a] = "entry" => ~away[a] /\ \A i \in DOMAIN over[a] : over[a][i] = "failed"
  /\ at[a] \in {"room", "leaving"} => \E i \in DOMAIN over[a] : over[a][i] # "failed"

\* Every request brings the wins of the authentication; only the winner's
\* actor may have one more, and has it if it came to the room once.
WinInv(a) ==
  /\ at[a] = "entry" => actor[a].wins = Wins[a]
  /\ \A i \in DOMAIN asked[a] : asked[a][i].wins = Wins[a]
  /\ reply[a] # "none" => admitted[a] = Wins[a]
  /\ at[a] = "entry" /\ created[a] = 1 => a \notin {match.x, match.o}
  /\ ~(match.status = "won" /\ match.winner = a) => actor[a].wins = Wins[a]
  /\ a \in members /\ created[a] = 1 /\ ArrivedOnce(a) =>
       actor[a].wins = Wins[a] + (IF match.status = "won" /\ match.winner = a THEN 1 ELSE 0)

\* Until the match is over, whoever has a seat is in the room.
SeatInv(a) ==
  /\ a \in {match.x, match.o} => created[a] # 0
  /\ a \in {match.x, match.o} /\ ~Final(match) => a \in members /\ at[a] = "room"
  /\ a \in members => a \in {match.x, match.o} /\ players[a] = actor[a].wins

\* While admissions come one at a time, the seat an admission showed is free
\* until its actor comes.
TellInv(a) ==
  ~overlapped =>
    /\ a \in members =>
         \A i \in DOMAIN over[a] : over[a][i] # "failed" => Player(match, over[a][i]) = a
    /\ at[a] \in {"room", "leaving"} => a \in members
    /\ reply[a] # "none" => /\ \A b \in Players \ {a} : reply[b] = "none"
                            /\ CanJoin(match, a)
                            /\ reply[a] = MarkOf(EvaluateJoin(match, a), a)

\* The queue holds the rooms of the joins whose ends were not reported yet, in
\* the order they were asked for; an actor that changed processes has lost it.
QueueInv(a) ==
  /\ Len(over[a]) <= Len(asked[a]) /\ reported[a] <= Len(over[a])
  /\ reply[a] # "none" => Len(over[a]) < Len(asked[a])
  /\ away[a] => actor[a].rooms = <<>>
  /\ at[a] # "nowhere" /\ ~away[a] =>
       /\ actor[a].processed = 1..reported[a]
       /\ Len(actor[a].rooms) = Len(asked[a]) - reported[a]
       /\ \A i \in 1..Len(actor[a].rooms) :
            actor[a].rooms[i] = asked[a][reported[a] + i].room

Announced ==
  Len(milestones) =
    IF match.status = "won" /\ Wins[match.winner] + 1 = Milestone THEN 1 ELSE 0

PlayerInv(a) == LifeInv(a) /\ WinInv(a) /\ SeatInv(a) /\ TellInv(a) /\ QueueInv(a)

IInv ==
  /\ TypeOK /\ Fair(match) /\ Announced /\ FailureNamesRoom
  /\ \A a \in Players : PlayerInv(a)

LEMMA InitIInv == Init => IInv
<1> SUFFICES ASSUME Init PROVE IInv
  OBVIOUS
<1> USE DEF Init
<1>1. Fair(match)
  BY NewMatchFair
<1>2. ASSUME NEW a \in Players PROVE NewActor(a) \in Actors
  <2>1. Wins[a] \in Nat /\ <<>> \in Seq(Rooms)
    BY RoomAssumption
  <2> QED
    BY <2>1 DEF NewActor, Actors
<1>3. actor \in [Players -> Actors]
  BY <1>2
<1>4. TypeOK
  <2>1. match \in Matches /\ members \subseteq Players
    BY <1>1 DEF Fair
  <2>2. /\ admitted \in [Players -> Nat \cup {None}] /\ players \in [Players -> Nat \cup {None}]
        /\ overlapped \in BOOLEAN
    OBVIOUS
  <2>3. /\ at \in [Players -> {"nowhere", "entry", "room", "leaving", "destroying"}]
        /\ reply \in [Players -> Marks \cup {"none"}] /\ away \in [Players -> BOOLEAN]
        /\ reported \in [Players -> Nat]
    OBVIOUS
  <2>4. created \in [Players -> 0..MaxLives] /\ milestones \in Seq(Players)
    BY RoomAssumption
  <2>5. /\ asked \in [Players -> Seq(Requests)]
        /\ over \in [Players -> Seq(Marks \cup {"failed"})]
        /\ \A a \in Players : Len(asked[a]) <= MaxJoins
    BY RoomAssumption
  <2> QED
    BY <1>3, <2>1, <2>2, <2>3, <2>4, <2>5 DEF TypeOK, Actors, Requests
<1>5. Announced /\ FailureNamesRoom
  BY DEF Announced, FailureNamesRoom, NewMatch
<1>6. ASSUME NEW a \in Players PROVE PlayerInv(a)
  <2>1. a # None /\ Wins[a] \in Nat
    BY MatchAssumption, RoomAssumption
  <2>2. /\ actor[a].wins = Wins[a] /\ actor[a].rooms = <<>> /\ actor[a].processed = {}
    BY DEF NewActor
  <2>3. LifeInv(a) /\ WinInv(a)
    BY <2>1, <2>2 DEF LifeInv, WinInv, NewMatch
  <2>4. SeatInv(a) /\ TellInv(a)
    BY <2>1 DEF SeatInv, TellInv, NewMatch
  <2>5. QueueInv(a)
    BY <2>2 DEF QueueInv
  <2> QED
    BY <2>3, <2>4, <2>5 DEF PlayerInv
<1> QED
  BY <1>1, <1>4, <1>5, <1>6 DEF IInv

-----------------------------------------------------------------------------
(* Players a step is not about *)

\* What a step at another player leaves of a player.
Elsewhere(b) ==
  /\ at'[b] = at[b] /\ actor'[b] = actor[b] /\ asked'[b] = asked[b] /\ reply'[b] = reply[b]
  /\ over'[b] = over[b] /\ reported'[b] = reported[b] /\ away'[b] = away[b]
  /\ created'[b] = created[b] /\ players'[b] = players[b] /\ admitted'[b] = admitted[b]
  /\ b \in members' <=> b \in members

LEMMA QueueElsewhere ==
  ASSUME NEW b \in Players, QueueInv(b), Elsewhere(b)
  PROVE  QueueInv(b)'
BY DEF QueueInv, Elsewhere

LEMMA LifeElsewhere ==
  ASSUME NEW b \in Players, LifeInv(b), WinInv(b), SeatInv(b), Elsewhere(b), match' = match
  PROVE  LifeInv(b)' /\ WinInv(b)' /\ SeatInv(b)'
<1>1. ArrivedOnce(b)' <=> ArrivedOnce(b)
  BY DEF ArrivedOnce, Elsewhere
<1>2. LifeInv(b)' /\ SeatInv(b)'
  BY DEF LifeInv, SeatInv, Elsewhere
<1>3. WinInv(b)'
  BY <1>1 DEF WinInv, Elsewhere
<1> QED
  BY <1>2, <1>3

LEMMA TellElsewhere ==
  ASSUME NEW a \in Players, NEW b \in Players \ {a}, TellInv(b), Elsewhere(b), match' = match,
         overlapped' = overlapped, reply'[a] \in {"none", reply[a]},
         \A c \in Players \ {a} : reply'[c] = reply[c]
  PROVE  TellInv(b)'
<1>1. CASE overlapped
  BY <1>1 DEF TellInv
<1>2. CASE ~overlapped
  <2>1. \A c \in Players \ {b} : reply[c] = "none" => reply'[c] = "none"
    OBVIOUS
  <2> QED
    BY <1>2, <2>1 DEF TellInv, Elsewhere
<1> QED
  BY <1>1, <1>2

\* A step at a that leaves the match alone.
LEMMA OneActor ==
  ASSUME IInv, NEW a \in Players, TypeOK', UNCHANGED <<match, milestones>>,
         FailureNamesRoom', \A b \in Players \ {a} : Elsewhere(b) /\ TellInv(b)',
         PlayerInv(a)'
  PROVE  IInv'
<1>1. Fair(match)' /\ Announced'
  BY DEF IInv, Announced, Fair, MatchInv, CountInv, OutcomeInv
<1>2. ASSUME NEW b \in Players PROVE PlayerInv(b)'
  <2>1. CASE b = a
    BY <2>1
  <2>2. CASE b # a
    BY <2>2, QueueElsewhere, LifeElsewhere DEF IInv, PlayerInv
  <2> QED
    BY <2>1, <2>2
<1> QED
  BY <1>1, <1>2 DEF IInv

\* And one that admits nobody and tells of no failure, too.
LEMMA OneActorOnly ==
  ASSUME IInv, NEW a \in Players, TypeOK',
         UNCHANGED <<match, milestones, failures, overlapped>>,
         reply'[a] \in {"none", reply[a]},
         \A b \in Players \ {a} : Elsewhere(b),
         PlayerInv(a)'
  PROVE  IInv'
<1>1. FailureNamesRoom'
  BY DEF IInv, FailureNamesRoom
<1>2. \A c \in Players \ {a} : reply'[c] = reply[c]
  BY DEF Elsewhere
<1>3. \A b \in Players \ {a} : TellInv(b)'
  BY <1>2, TellElsewhere DEF IInv, PlayerInv
<1> QED
  BY <1>1, <1>3, OneActor

-----------------------------------------------------------------------------
(* Sessions and joins *)

LEMMA JoinTypes ==
  ASSUME TypeOK, NEW a \in Players
  PROVE  /\ asked[a] \in Seq(Requests) /\ Len(asked[a]) \in Nat
         /\ DOMAIN asked[a] = 1..Len(asked[a])
         /\ \A i \in 1..Len(asked[a]) : asked[a][i] \in Requests
         /\ over[a] \in Seq(Marks \cup {"failed"}) /\ Len(over[a]) \in Nat
         /\ DOMAIN over[a] = 1..Len(over[a])
         /\ actor[a] \in Actors
         /\ actor[a].rooms \in Seq(Rooms) /\ Len(actor[a].rooms) \in Nat
         /\ reported[a] \in Nat
<1>1. asked[a] \in Seq(Requests) /\ over[a] \in Seq(Marks \cup {"failed"})
  BY DEF TypeOK, Requests
<1>2. actor[a] \in Actors /\ reported[a] \in Nat
  BY DEF TypeOK, Actors
<1>3. actor[a].rooms \in Seq(Rooms)
  BY <1>2 DEF Actors
<1> HIDE DEF Requests
<1> QED
  BY <1>1, <1>2, <1>3, LenProperties, ElementOfSeq

LEMMA AuthenticateIInv ==
  ASSUME IInv, NEW a \in Players, Authenticate(a)
  PROVE  IInv'
<1> DEFINE v == NewActor(a)
<1>0. TypeOK /\ LifeInv(a) /\ WinInv(a) /\ SeatInv(a) /\ TellInv(a) /\ QueueInv(a)
  BY DEF IInv, PlayerInv
<1>1. /\ Wins[a] \in Nat /\ created[a] \in Nat /\ created[a] < MaxLives /\ at[a] = "nowhere"
  BY <1>0, RoomAssumption DEF TypeOK, Authenticate
<1>2. /\ v.wins = Wins[a] /\ v.rooms = <<>> /\ v.processed = {} /\ v \in Actors
  <2>1. <<>> \in Seq(Rooms)
    OBVIOUS
  <2> QED
    BY <1>1, <2>1 DEF NewActor, Actors
<1> HIDE DEF v
<1>3. /\ at' = [at EXCEPT ![a] = "entry"] /\ actor' = [actor EXCEPT ![a] = v]
      /\ created' = [created EXCEPT ![a] = @ + 1]
      /\ UNCHANGED <<match, admitted, members, players, overlapped, asked, reply, over,
                     reported, away, failures, milestones>>
  BY DEF Authenticate, spotVars, joinVars, v
<1>4. TypeOK'
  <2>1. actor' \in [Players -> Actors]
    BY <1>0, <1>2, <1>3 DEF TypeOK, Actors
  <2>2. created' \in [Players -> 0..MaxLives]
    BY <1>0, <1>1, <1>3, RoomAssumption DEF TypeOK
  <2>3. at' \in [Players -> {"nowhere", "entry", "room", "leaving", "destroying"}]
    BY <1>0, <1>3 DEF TypeOK
  <2> QED
    BY <1>0, <1>3, <2>1, <2>2, <2>3 DEF TypeOK, Actors
<1>5. \A b \in Players \ {a} : Elsewhere(b)
  BY <1>0, <1>3 DEF TypeOK, Elsewhere
<1>6. at'[a] = "entry" /\ actor'[a] = v /\ created'[a] = created[a] + 1
  BY <1>0, <1>3 DEF TypeOK
<1>7. /\ asked[a] = <<>> /\ over[a] \in Seq(Marks \cup {"failed"}) /\ Len(over[a]) = 0
      /\ reported[a] = 0 /\ reply[a] = "none" /\ ~away[a] /\ a \notin members
  <2>1. asked[a] = <<>> /\ reported[a] = 0 /\ ~away[a] /\ a \notin members
    BY <1>0, <1>1 DEF LifeInv
  <2>2. over[a] \in Seq(Marks \cup {"failed"}) /\ Len(over[a]) \in Nat
    BY <1>0 DEF TypeOK
  <2>3. Len(asked[a]) = 0
    BY <2>1
  <2> QED
    BY <1>0, <2>1, <2>2, <2>3 DEF QueueInv
<1>8. DOMAIN over[a] = {} /\ DOMAIN asked[a] = {}
  BY <1>7
<1>9. created'[a] \in {0, 1} => created[a] = 0
  BY <1>1, <1>6
<1>10. created[a] = 0 => a \notin {match.x, match.o}
  BY <1>0 DEF SeatInv
<1>11. LifeInv(a)'
  BY <1>0, <1>1, <1>3, <1>6, <1>7, <1>8, <1>9 DEF LifeInv
<1>12. SeatInv(a)' /\ TellInv(a)'
  BY <1>0, <1>1, <1>3, <1>6, <1>7, <1>8 DEF SeatInv, TellInv
<1>13. WinInv(a)'
  BY <1>1, <1>2, <1>3, <1>6, <1>7, <1>8, <1>9, <1>10 DEF WinInv
<1>14. QueueInv(a)'
  BY <1>2, <1>3, <1>6, <1>7 DEF QueueInv
<1> QED
  BY <1>3, <1>4, <1>5, <1>11, <1>12, <1>13, <1>14, OneActorOnly DEF PlayerInv

\* The new room goes behind those that wait.
LEMMA JoinGameIInv ==
  ASSUME IInv, NEW a \in Players, NEW room \in Rooms, JoinGame(a, room)
  PROVE  IInv'
<1> DEFINE r == [room |-> room, wins |-> actor[a].wins]
           v == [actor[a] EXCEPT !.rooms = Append(@, room)]
           s == Append(asked[a], r)
<1>0. TypeOK /\ LifeInv(a) /\ WinInv(a) /\ SeatInv(a) /\ TellInv(a) /\ QueueInv(a)
  BY DEF IInv, PlayerInv
<1>1. /\ actor[a] \in Actors /\ asked[a] \in Seq(Requests) /\ Len(asked[a]) \in Nat
      /\ DOMAIN asked[a] = 1..Len(asked[a])
      /\ Len(over[a]) \in Nat /\ reported[a] \in Nat
      /\ actor[a].rooms \in Seq(Rooms) /\ Len(actor[a].rooms) \in Nat
      /\ at[a] = "entry" /\ Len(asked[a]) < MaxJoins /\ ~away[a] /\ actor[a].wins = Wins[a]
  <2>1. at[a] = "entry" /\ Len(asked[a]) < MaxJoins
    BY DEF JoinGame
  <2> QED
    BY <1>0, <2>1, JoinTypes DEF LifeInv, WinInv
<1>2. /\ v.wins = actor[a].wins /\ v.destroy = actor[a].destroy
      /\ v.processed = actor[a].processed /\ v.rooms = Append(actor[a].rooms, room)
      /\ v \in Actors
  <2>1. Append(actor[a].rooms, room) \in Seq(Rooms)
    BY <1>1
  <2> HIDE DEF Rooms
  <2> QED
    BY <1>1, <2>1 DEF Actors
<1>3. /\ r \in Requests /\ s \in Seq(Requests) /\ Len(s) = Len(asked[a]) + 1
      /\ s[Len(asked[a]) + 1] = r /\ \A i \in 1..Len(asked[a]) : s[i] = asked[a][i]
  BY <1>1 DEF Requests, Actors
<1>4. /\ actor' = [actor EXCEPT ![a] = v] /\ asked' = [asked EXCEPT ![a] = s]
      /\ UNCHANGED <<match, admitted, members, players, overlapped, at, reply, over,
                     reported, away, failures, milestones, created>>
  BY DEF JoinGame, spotVars
<1>5. r.wins = Wins[a] /\ r.room = room
  BY <1>1
<1> HIDE DEF v, s, r
<1>6. TypeOK'
  <2>1. actor' \in [Players -> Actors]
    BY <1>0, <1>2, <1>4 DEF TypeOK, Actors
  <2>2. asked' \in [Players -> Seq(Requests)]
    BY <1>0, <1>3, <1>4 DEF TypeOK, Requests
  <2>3. \A b \in Players : Len(asked'[b]) <= MaxJoins
    BY <1>0, <1>1, <1>3, <1>4, RoomAssumption DEF TypeOK
  <2> QED
    BY <1>0, <1>4, <2>1, <2>2, <2>3 DEF TypeOK, Actors, Requests
<1>7. \A b \in Players \ {a} : Elsewhere(b)
  BY <1>0, <1>4 DEF TypeOK, Elsewhere
<1>8. actor'[a] = v /\ asked'[a] = s
  BY <1>0, <1>4 DEF TypeOK
<1>9. LifeInv(a)' /\ SeatInv(a)' /\ TellInv(a)'
  BY <1>0, <1>1, <1>2, <1>4, <1>8 DEF LifeInv, SeatInv, TellInv
<1>10. WinInv(a)'
  <2>1. \A i \in DOMAIN s : s[i].wins = Wins[a]
    <3> SUFFICES ASSUME NEW i \in 1..Len(s) PROVE s[i].wins = Wins[a]
      BY <1>3
    <3>1. CASE i = Len(asked[a]) + 1
      BY <1>3, <1>5, <3>1
    <3>2. CASE i # Len(asked[a]) + 1
      <4>1. i \in 1..Len(asked[a])
        BY <1>1, <1>3, <3>2
      <4>2. i \in DOMAIN asked[a]
        BY <1>1, <4>1
      <4> QED
        BY <1>0, <1>3, <4>1, <4>2 DEF WinInv
    <3> QED
      BY <3>1, <3>2
  <2>2. ArrivedOnce(a)' <=> ArrivedOnce(a)
    BY <1>4 DEF ArrivedOnce
  <2> QED
    BY <1>0, <1>1, <1>2, <1>4, <1>8, <2>1, <2>2 DEF WinInv
<1>11. QueueInv(a)'
  <2> DEFINE q == actor[a].rooms
             w == v.rooms
  <2>1. /\ w = Append(q, room) /\ Len(w) = Len(q) + 1 /\ w[Len(q) + 1] = room
        /\ \A i \in 1..Len(q) : w[i] = q[i]
    BY <1>1, <1>2
  <2>2. /\ Len(q) = Len(asked[a]) - reported[a] /\ Len(over[a]) <= Len(asked[a])
        /\ reported[a] <= Len(over[a]) /\ actor[a].processed = 1..reported[a]
        /\ \A i \in 1..Len(q) : q[i] = asked[a][reported[a] + i].room
    BY <1>0, <1>1 DEF QueueInv
  <2>n. /\ Len(q) \in Nat /\ Len(asked[a]) \in Nat /\ Len(over[a]) \in Nat
        /\ reported[a] \in Nat /\ Len(s) = Len(asked[a]) + 1 /\ Len(w) = Len(q) + 1
        /\ Len(q) = Len(asked[a]) - reported[a] /\ Len(over[a]) <= Len(asked[a])
    BY <1>1, <1>3, <2>1, <2>2
  <2> HIDE DEF q, w
  <2>3. Len(w) = Len(s) - reported[a] /\ Len(over[a]) <= Len(s)
    BY <2>n
  <2>4. ASSUME NEW i \in 1..Len(w) PROVE w[i] = s[reported[a] + i].room
    <3>1. CASE i = Len(q) + 1
      <4>1. reported[a] + i = Len(asked[a]) + 1
        BY <2>n, <3>1
      <4>2. w[i] = room /\ s[reported[a] + i] = r
        BY <1>3, <2>1, <3>1, <4>1
      <4> QED
        BY <1>5, <4>2
    <3>2. CASE i # Len(q) + 1
      <4>1. i \in 1..Len(q) /\ reported[a] + i \in 1..Len(asked[a])
        BY <2>n, <3>2
      <4>2. w[i] = q[i] /\ s[reported[a] + i] = asked[a][reported[a] + i]
        BY <1>3, <2>1, <4>1
      <4> QED
        BY <2>2, <4>1, <4>2
    <3> QED
      BY <3>1, <3>2
  <2>5. reply[a] # "none" => Len(over[a]) < Len(s)
    BY <1>0, <1>1, <1>3 DEF QueueInv
  <2> QED
    BY <1>1, <1>2, <1>4, <1>8, <2>2, <2>3, <2>4, <2>5 DEF QueueInv, q, w
<1> QED
  BY <1>4, <1>6, <1>7, <1>9, <1>10, <1>11, OneActorOnly DEF PlayerInv

LEMMA AdmitIInv ==
  ASSUME IInv, NEW a \in Players, Admit(a)
  PROVE  IInv'
<1> DEFINE t == MarkOf(EvaluateJoin(match, a), a)
           w == Request(a).wins
<1>0. TypeOK /\ LifeInv(a) /\ WinInv(a) /\ SeatInv(a) /\ TellInv(a) /\ QueueInv(a)
      /\ FailureNamesRoom
  BY DEF IInv, PlayerInv
<1>1. Len(over[a]) < Len(asked[a]) /\ reply[a] = "none" /\ CanJoin(match, a) /\ t \in Marks
  BY DEF Admit, UnderWay, MarkOf, Marks
<1>2. w = Wins[a] /\ Wins[a] \in Nat
  <2>1. Len(over[a]) + 1 \in DOMAIN asked[a]
    BY <1>0, <1>1, JoinTypes
  <2> QED
    BY <1>0, <2>1, RoomAssumption DEF WinInv, Request
<1>3. /\ reply' = [reply EXCEPT ![a] = t] /\ admitted' = [admitted EXCEPT ![a] = w]
      /\ overlapped' = (overlapped \/ \E b \in Players \ {a} : reply[b] # "none")
      /\ UNCHANGED <<match, members, players, at, actor, asked, over, reported, away,
                     failures, milestones, created>>
  BY DEF Admit
<1> HIDE DEF t, w
<1>4. TypeOK'
  <2>1. reply' \in [Players -> Marks \cup {"none"}]
    BY <1>0, <1>1, <1>3 DEF TypeOK
  <2>2. admitted' \in [Players -> Nat \cup {None}]
    BY <1>0, <1>2, <1>3 DEF TypeOK
  <2>3. overlapped' \in BOOLEAN
    BY <1>0, <1>3, Zenon DEF TypeOK
  <2> QED
    BY <1>0, <1>3, <2>1, <2>2, <2>3 DEF TypeOK
<1>5. \A b \in Players \ {a} : Elsewhere(b)
  BY <1>0, <1>3 DEF TypeOK, Elsewhere
<1>6. ~overlapped' => ~overlapped /\ \A b \in Players \ {a} : reply[b] = "none"
  BY <1>3, Zenon
<1>7. reply'[a] = t /\ admitted'[a] = w
  BY <1>0, <1>3 DEF TypeOK
<1>8. \A b \in Players \ {a} : TellInv(b)'
  <2> SUFFICES ASSUME NEW b \in Players, b # a, ~overlapped' PROVE TellInv(b)'
    BY DEF TellInv
  <2>1. TellInv(b) /\ Elsewhere(b) /\ reply[b] = "none" /\ ~overlapped
    BY <1>5, <1>6 DEF IInv, PlayerInv
  <2> QED
    BY <1>3, <2>1 DEF TellInv, Elsewhere
<1>9. LifeInv(a)' /\ SeatInv(a)'
  BY <1>0, <1>3 DEF LifeInv, SeatInv
<1>10. WinInv(a)'
  <2>1. ArrivedOnce(a)' <=> ArrivedOnce(a)
    BY <1>3 DEF ArrivedOnce
  <2> QED
    BY <1>0, <1>2, <1>3, <1>7, <2>1 DEF WinInv
<1>11. TellInv(a)'
  <2> SUFFICES ASSUME ~overlapped' PROVE TellInv(a)'
    BY DEF TellInv
  <2>1. \A b \in Players \ {a} : reply'[b] = "none"
    BY <1>5, <1>6 DEF Elsewhere
  <2> QED
    BY <1>0, <1>1, <1>3, <1>6, <1>7, <2>1 DEF TellInv, t
<1>12. QueueInv(a)'
  BY <1>0, <1>1, <1>3, <1>7 DEF QueueInv
<1>13. FailureNamesRoom'
  BY <1>0, <1>3 DEF FailureNamesRoom
<1> QED
  BY <1>3, <1>4, <1>5, <1>8, <1>9, <1>10, <1>11, <1>12, <1>13, OneActor DEF PlayerInv

\* One more join of a player is over.
LEMMA EndAppended ==
  ASSUME TypeOK, NEW a \in Players, NEW e \in Marks \cup {"failed"},
         over' = [over EXCEPT ![a] = Append(@, e)]
  PROVE  /\ over' \in [Players -> Seq(Marks \cup {"failed"})]
         /\ Len(over'[a]) = Len(over[a]) + 1
         /\ DOMAIN over'[a] = 1..(Len(over[a]) + 1)
         /\ over'[a][Len(over[a]) + 1] = e
         /\ \A i \in 1..Len(over[a]) : over'[a][i] = over[a][i]
         /\ \A b \in Players \ {a} : over'[b] = over[b]
         /\ ArrivedOnce(a)' => ArrivedOnce(a)
<1> DEFINE E == Marks \cup {"failed"}
           s == Append(over[a], e)
<1>1. over[a] \in Seq(E) /\ over \in [Players -> Seq(E)] /\ Len(over[a]) \in Nat
      /\ DOMAIN over[a] = 1..Len(over[a])
  BY JoinTypes DEF TypeOK
<1> HIDE DEF E
<1>2. /\ s \in Seq(E) /\ Len(s) = Len(over[a]) + 1 /\ s[Len(over[a]) + 1] = e
      /\ DOMAIN s = 1..(Len(over[a]) + 1) /\ \A i \in 1..Len(over[a]) : s[i] = over[a][i]
  BY <1>1, AppendProperties DEF E
<1> HIDE DEF s
<1>3. over'[a] = s /\ over' \in [Players -> Seq(E)] /\ \A b \in Players \ {a} : over'[b] = over[b]
  BY <1>1, <1>2 DEF s
<1>4. ASSUME ArrivedOnce(a)' PROVE ArrivedOnce(a)
  <2>1. \A i, j \in 1..(Len(over[a]) + 1) : s[i] # "failed" /\ s[j] # "failed" => i = j
    <3>1. DOMAIN over'[a] = 1..(Len(over[a]) + 1) /\ over'[a] = s
      BY <1>2, <1>3
    <3> QED
      BY <1>4, <3>1, Zenon DEF ArrivedOnce
  <2>2. 1..Len(over[a]) \subseteq 1..(Len(over[a]) + 1)
    BY <1>1
  <2>3. \A i, j \in 1..Len(over[a]) : over[a][i] # "failed" /\ over[a][j] # "failed" => i = j
    BY <1>2, <2>1, <2>2
  <2> QED
    BY <1>1, <2>3 DEF ArrivedOnce
<1> QED
  BY <1>2, <1>3, <1>4 DEF E

\* A join fails, before its admission or after it.
LEMMA JoinFailsIInv ==
  ASSUME IInv, NEW a \in Players, JoinFails(a)
  PROVE  IInv'
<1>0. TypeOK /\ LifeInv(a) /\ WinInv(a) /\ SeatInv(a) /\ TellInv(a) /\ QueueInv(a)
  BY DEF IInv, PlayerInv
<1>1. /\ over' = [over EXCEPT ![a] = Append(@, "failed")]
      /\ reply' = [reply EXCEPT ![a] = "none"] /\ Len(over[a]) < Len(asked[a])
      /\ UNCHANGED <<match, admitted, members, players, overlapped, at, actor, asked,
                     reported, away, failures, milestones, created>>
  BY DEF JoinFails, UnderWay, spotVars
<1>2. /\ over' \in [Players -> Seq(Marks \cup {"failed"})]
      /\ Len(over'[a]) = Len(over[a]) + 1 /\ DOMAIN over'[a] = 1..(Len(over[a]) + 1)
      /\ over'[a][Len(over[a]) + 1] = "failed"
      /\ \A i \in 1..Len(over[a]) : over'[a][i] = over[a][i]
      /\ \A b \in Players \ {a} : over'[b] = over[b]
      /\ ArrivedOnce(a)' => ArrivedOnce(a)
  BY <1>0, <1>1, EndAppended
<1>3. /\ Len(over[a]) \in Nat /\ DOMAIN over[a] = 1..Len(over[a]) /\ Len(asked[a]) \in Nat
      /\ reported[a] \in Nat
  BY <1>0, JoinTypes
<1>4. TypeOK'
  <2>1. reply' \in [Players -> Marks \cup {"none"}]
    BY <1>0, <1>1 DEF TypeOK
  <2> QED
    BY <1>0, <1>1, <1>2, <2>1 DEF TypeOK
<1>5. reply'[a] = "none"
  BY <1>0, <1>1 DEF TypeOK
<1>6. \A b \in Players \ {a} : Elsewhere(b)
  BY <1>0, <1>1, <1>2 DEF TypeOK, Elsewhere
<1>7. \A i \in DOMAIN over'[a] : over'[a][i] # "failed" =>
        i \in DOMAIN over[a] /\ over[a][i] = over'[a][i]
  <2> SUFFICES ASSUME NEW i \in 1..(Len(over[a]) + 1), over'[a][i] # "failed"
               PROVE  i \in 1..Len(over[a]) /\ over[a][i] = over'[a][i]
    BY <1>2, <1>3
  <2>1. i # Len(over[a]) + 1
    BY <1>2
  <2>2. i \in 1..Len(over[a])
    BY <1>3, <2>1
  <2> QED
    BY <1>2, <2>2
<1>8. \A i \in DOMAIN over[a] : i \in DOMAIN over'[a] /\ over[a][i] = over'[a][i]
  BY <1>2, <1>3
<1>9. LifeInv(a)'
  <2>1. at[a] # "nowhere"
    <3>1. asked[a] = <<>> => Len(asked[a]) = 0
      OBVIOUS
    <3> QED
      BY <1>0, <1>1, <1>3, <3>1 DEF LifeInv
  <2>2. at[a] = "entry" => \A i \in DOMAIN over'[a] : over'[a][i] = "failed"
    BY <1>0, <1>7 DEF LifeInv
  <2>3. at[a] \in {"room", "leaving"} => \E i \in DOMAIN over'[a] : over'[a][i] # "failed"
    BY <1>0, <1>8 DEF LifeInv
  <2> QED
    BY <1>0, <1>1, <2>1, <2>2, <2>3 DEF LifeInv
<1>10. WinInv(a)'
  BY <1>0, <1>1, <1>2, <1>5 DEF WinInv
<1>11. SeatInv(a)'
  BY <1>0, <1>1 DEF SeatInv
<1>12. TellInv(a)'
  BY <1>0, <1>1, <1>5, <1>7 DEF TellInv
<1>13. QueueInv(a)'
  BY <1>0, <1>1, <1>2, <1>3, <1>5 DEF QueueInv
<1> QED
  BY <1>1, <1>4, <1>5, <1>6, <1>9, <1>10, <1>11, <1>12, <1>13, OneActorOnly DEF PlayerInv

\* An end that is reported for the first time is that of the join whose room is
\* the first in the queue; reported again it does nothing, unless the actor has
\* changed processes, where the queue is empty.
LEMMA JoinCompletedIInv ==
  ASSUME IInv, NEW a \in Players, NEW i \in Joins, JoinCompleted(a, i)
  PROVE  IInv'
<1> DEFINE rooms == actor[a].rooms
           r == IF i > reported[a] THEN i ELSE reported[a]
           f == [room |-> asked[a][i].room, away |-> away[a],
                 named |-> IF rooms = <<>> THEN "none" ELSE Head(rooms)]
           v == [actor[a] EXCEPT !.processed = @ \cup {i},
                                 !.rooms = IF rooms = <<>> THEN @ ELSE Tail(@)]
<1>0. /\ TypeOK /\ LifeInv(a) /\ WinInv(a) /\ SeatInv(a) /\ TellInv(a) /\ QueueInv(a)
      /\ FailureNamesRoom
  BY DEF IInv, PlayerInv
<1>1. /\ i \in DOMAIN over[a] /\ i <= reported[a] + 1
      /\ reported' = [reported EXCEPT ![a] = r]
      /\ UNCHANGED <<match, admitted, members, players, overlapped, at, asked, reply,
                     over, away, milestones, created>>
  BY DEF JoinCompleted, spotVars
<1>2. /\ asked[a] \in Seq(Requests) /\ Len(asked[a]) \in Nat /\ DOMAIN asked[a] = 1..Len(asked[a])
      /\ \A k \in 1..Len(asked[a]) : asked[a][k] \in Requests
      /\ Len(over[a]) \in Nat /\ DOMAIN over[a] = 1..Len(over[a])
      /\ actor[a] \in Actors /\ rooms \in Seq(Rooms) /\ Len(rooms) \in Nat /\ reported[a] \in Nat
  BY <1>0, JoinTypes
<1>3. /\ Len(over[a]) <= Len(asked[a]) /\ reported[a] <= Len(over[a])
      /\ reply[a] # "none" => Len(over[a]) < Len(asked[a])
      /\ away[a] => rooms = <<>>
      /\ at[a] # "nowhere" /\ ~away[a] =>
           /\ actor[a].processed = 1..reported[a] /\ Len(rooms) = Len(asked[a]) - reported[a]
           /\ \A k \in 1..Len(rooms) : rooms[k] = asked[a][reported[a] + k].room
  BY <1>0 DEF QueueInv
<1>4. i \in 1..Len(over[a]) /\ i \in 1..Len(asked[a]) /\ asked[a][i].room \in Rooms /\ i \in Nat
  <2>1. i \in 1..Len(over[a]) /\ i \in 1..Len(asked[a])
    BY <1>1, <1>2, <1>3
  <2> QED
    BY <1>2, <2>1 DEF Requests
<1>5. at[a] # "nowhere"
  <2>1. asked[a] = <<>> => Len(asked[a]) = 0
    OBVIOUS
  <2> QED
    BY <1>0, <1>2, <1>4, <2>1 DEF LifeInv
<1>6. r \in Nat /\ i <= r /\ reported[a] <= r /\ r <= Len(over[a]) /\ reported'[a] = r
  <2>1. r \in Nat /\ i <= r /\ reported[a] <= r /\ r <= Len(over[a])
    BY <1>2, <1>3, <1>4
  <2> HIDE DEF r
  <2> QED
    BY <1>0, <1>1, <2>1 DEF TypeOK
<1>7. reported' \in [Players -> Nat]
  BY <1>0, <1>1, <1>6 DEF TypeOK
<1>8. CASE i \in actor[a].processed
  <2>1. UNCHANGED <<failures, actor>>
    BY <1>8 DEF JoinCompleted, Fresh
  <2>2. TypeOK'
    BY <1>0, <1>1, <1>7, <2>1 DEF TypeOK
  <2>3. \A b \in Players \ {a} : Elsewhere(b)
    BY <1>0, <1>1, <2>1 DEF Elsewhere, TypeOK
  <2>4. LifeInv(a)' /\ SeatInv(a)' /\ TellInv(a)'
    BY <1>0, <1>1, <1>5, <2>1 DEF LifeInv, SeatInv, TellInv
  <2>5. WinInv(a)'
    <3>1. ArrivedOnce(a)' <=> ArrivedOnce(a)
      BY <1>1 DEF ArrivedOnce
    <3> QED
      BY <1>0, <1>1, <2>1, <3>1 DEF WinInv
  <2>6. QueueInv(a)'
    <3>1. ~away[a] => r = reported[a]
      BY <1>2, <1>3, <1>4, <1>5, <1>8
    <3> HIDE DEF r, rooms
    <3>2. CASE away[a]
      BY <1>0, <1>1, <1>3, <1>6, <2>1, <3>2 DEF QueueInv
    <3>3. CASE ~away[a]
      BY <1>0, <1>1, <1>6, <2>1, <3>1, <3>3 DEF QueueInv
    <3> QED
      BY <3>2, <3>3
  <2> QED
    BY <1>1, <2>1, <2>2, <2>3, <2>4, <2>5, <2>6, OneActorOnly DEF PlayerInv
<1>9. CASE i \notin actor[a].processed
  <2>1. /\ failures' = IF over[a][i] # "failed" THEN failures ELSE failures \cup {f}
        /\ actor' = [actor EXCEPT ![a] = v]
    BY <1>9 DEF JoinCompleted, Fresh
  <2>2. ~away[a] =>
          /\ i = reported[a] + 1 /\ r = i /\ rooms # <<>> /\ Head(rooms) = asked[a][i].room
    <3> SUFFICES ASSUME ~away[a]
                 PROVE  i = reported[a] + 1 /\ r = i /\ rooms # <<>>
                        /\ Head(rooms) = asked[a][i].room
      OBVIOUS
    <3>1. i = reported[a] + 1 /\ r = i
      BY <1>1, <1>2, <1>3, <1>4, <1>5, <1>9
    <3>2. Len(rooms) = Len(asked[a]) - reported[a] /\ reported[a] + 1 <= Len(asked[a])
      BY <1>3, <1>4, <1>5, <3>1
    <3>3. Len(rooms) >= 1 /\ 1 \in 1..Len(rooms)
      BY <1>2, <3>2
    <3>4. rooms[1] = asked[a][i].room
      BY <1>3, <1>5, <3>1, <3>3
    <3>5. rooms # <<>> /\ Head(rooms) = rooms[1]
      BY <1>2, <3>3
    <3> QED
      BY <3>1, <3>4, <3>5
  <2>3. /\ f.room = asked[a][i].room /\ f.away = away[a]
        /\ f.named = IF f.away THEN "none" ELSE f.room
        /\ f \in Notices
    <3>1. f.named = IF away[a] THEN "none" ELSE asked[a][i].room
      BY <1>3, <2>2
    <3>2. away[a] \in BOOLEAN
      BY <1>0 DEF TypeOK
    <3> QED
      BY <1>4, <3>1, <3>2 DEF Notices
  <2> DEFINE w == IF rooms = <<>> THEN rooms ELSE Tail(rooms)
  <2>4. /\ w \in Seq(Rooms) /\ (rooms = <<>> => w = <<>>)
        /\ rooms # <<>> => /\ Len(w) = Len(rooms) - 1
                           /\ \A k \in 1..Len(w) : w[k] = rooms[k + 1]
    <3> HIDE DEF Rooms, rooms
    <3>1. CASE rooms = <<>>
      BY <1>2, <3>1
    <3>2. CASE rooms # <<>>
      BY <1>2, <3>2, HeadTailProperties
    <3> QED
      BY <3>1, <3>2
  <2>5. /\ v.wins = actor[a].wins /\ v.destroy = actor[a].destroy
        /\ v.processed = actor[a].processed \cup {i} /\ v.rooms = w /\ v \in Actors
    <3>1. actor[a].processed \cup {i} \in SUBSET Joins
      BY <1>2 DEF Actors
    <3>2. v = [actor[a] EXCEPT !.processed = actor[a].processed \cup {i}, !.rooms = w]
      OBVIOUS
    <3> HIDE DEF v, w, Rooms, Joins, rooms
    <3> QED
      BY <1>2, <2>4, <3>1, <3>2 DEF Actors
  <2> HIDE DEF v, f, w
  <2>6. FailureNamesRoom'
    BY <1>0, <2>1, <2>3 DEF FailureNamesRoom
  <2>7. failures' \subseteq Notices
    BY <1>0, <2>1, <2>3 DEF TypeOK, Notices
  <2>8. TypeOK'
    <3>1. actor' \in [Players -> Actors]
      BY <1>0, <2>1, <2>5 DEF TypeOK, Actors
    <3> QED
      BY <1>0, <1>1, <1>7, <2>7, <3>1 DEF TypeOK, Actors, Notices
  <2>9. actor'[a] = v
    BY <1>0, <2>1 DEF TypeOK
  <2>10. \A b \in Players \ {a} : Elsewhere(b)
    BY <1>0, <1>1, <2>1 DEF TypeOK, Elsewhere
  <2>11. \A b \in Players \ {a} : TellInv(b)'
    BY <1>1, <2>10, TellElsewhere DEF IInv, PlayerInv
  <2>12. LifeInv(a)' /\ SeatInv(a)' /\ TellInv(a)'
    BY <1>0, <1>1, <1>5, <2>5, <2>9 DEF LifeInv, SeatInv, TellInv
  <2>13. WinInv(a)'
    <3>1. ArrivedOnce(a)' <=> ArrivedOnce(a)
      BY <1>1 DEF ArrivedOnce
    <3> QED
      BY <1>0, <1>1, <2>5, <2>9, <3>1 DEF WinInv
  <2>14. QueueInv(a)'
    <3>1. CASE away[a]
      <4>1. v.rooms = <<>>
        BY <1>3, <2>4, <2>5, <3>1
      <4>2. reported'[a] = r /\ r <= Len(over[a])
        BY <1>6
      <4> HIDE DEF r, rooms, w
      <4> QED
        BY <1>0, <1>1, <2>9, <3>1, <4>1, <4>2 DEF QueueInv
    <3>2. CASE ~away[a]
      <4>0. /\ v.processed = 1..reported[a] \cup {r} /\ r = reported[a] + 1
            /\ v.rooms = w /\ Len(w) = Len(rooms) - 1 /\ Len(rooms) = Len(asked[a]) - reported[a]
            /\ reported[a] \in Nat /\ Len(asked[a]) \in Nat
        <5> HIDE DEF r, rooms, w
        <5>1. /\ actor[a].processed = 1..reported[a] /\ Len(rooms) = Len(asked[a]) - reported[a]
          BY <1>3, <1>5, <3>2
        <5>2. r = i /\ r = reported[a] + 1 /\ rooms # <<>>
          BY <2>2, <3>2
        <5>3. Len(w) = Len(rooms) - 1
          BY <2>4, <5>2
        <5> QED
          BY <1>2, <2>5, <5>1, <5>2, <5>3
      <4>1. v.processed = 1..r
        <5> HIDE DEF r
        <5> QED
          BY <4>0
      <4>2. Len(v.rooms) = Len(asked[a]) - r
        <5> HIDE DEF r, rooms, w
        <5> QED
          BY <4>0
      <4>3. ASSUME NEW k \in 1..Len(v.rooms) PROVE v.rooms[k] = asked[a][r + k].room
        <5>1. /\ v.rooms[k] = rooms[k + 1] /\ k + 1 \in 1..Len(rooms)
              /\ r + k = reported[a] + (k + 1)
          <6>1. k \in 1..Len(w) /\ rooms # <<>> /\ r = reported[a] + 1
            BY <2>2, <2>5, <3>2
          <6> HIDE DEF r, rooms
          <6>2. v.rooms[k] = rooms[k + 1] /\ k \in 1..(Len(rooms) - 1)
            BY <2>4, <2>5, <6>1
          <6>3. Len(rooms) \in Nat /\ reported[a] \in Nat
            BY <1>2
          <6>4. k \in Nat
            BY <6>1
          <6> HIDE DEF w
          <6>5. k + 1 \in 1..Len(rooms)
            BY <6>2, <6>3, <6>4
          <6>6. r + k = reported[a] + (k + 1)
            BY <6>1, <6>3, <6>4
          <6> QED
            BY <6>2, <6>5, <6>6
        <5> QED
          BY <1>3, <1>5, <3>2, <5>1
      <4> HIDE DEF r
      <4> QED
        BY <1>1, <1>3, <1>6, <2>9, <3>2, <4>1, <4>2, <4>3 DEF QueueInv
    <3> QED
      BY <3>1, <3>2
  <2> QED
    BY <1>1, <2>6, <2>8, <2>10, <2>11, <2>12, <2>13, <2>14, OneActor DEF PlayerInv
<1> QED
  BY <1>8, <1>9

\* What an arrival at a may do to the match.
MayJoin(m, n, a) ==
  /\ Fair(n) /\ {n.x, n.o} \subseteq {m.x, m.o, a}
  /\ m.x # None => n.x = m.x
  /\ m.o # None => n.o = m.o
  /\ n.winner = m.winner /\ (n.status = "won" <=> m.status = "won")
  /\ Final(n) <=> Final(m)

LEMMA SeatKept ==
  ASSUME NEW m, NEW n, NEW a, MayJoin(m, n, a), NEW b \in Players, NEW mark,
         Player(m, mark) = b
  PROVE  Player(n, mark) = b
BY MatchAssumption DEF MayJoin, Player

LEMMA ArriveElsewhere ==
  ASSUME NEW a \in Players, NEW b \in Players, a # b, MayJoin(match, match', a),
         PlayerInv(b), Elsewhere(b), reply[a] # "none", overlapped' = overlapped
  PROVE  PlayerInv(b)'
<1>0. b # None /\ LifeInv(b) /\ WinInv(b) /\ SeatInv(b) /\ TellInv(b) /\ QueueInv(b)
  BY MatchAssumption DEF PlayerInv
<1>1. LifeInv(b)'
  BY <1>0 DEF LifeInv, Elsewhere, MayJoin
<1>2. WinInv(b)'
  <2>1. ArrivedOnce(b)' <=> ArrivedOnce(b)
    BY DEF ArrivedOnce, Elsewhere
  <2> QED
    BY <1>0, <2>1 DEF WinInv, Elsewhere, MayJoin
<1>3. SeatInv(b)'
  BY <1>0 DEF SeatInv, Elsewhere, MayJoin
<1>4. TellInv(b)'
  <2> SUFFICES ASSUME ~overlapped PROVE TellInv(b)'
    BY DEF TellInv
  <2>1. reply'[b] = "none"
    BY <1>0 DEF TellInv, Elsewhere
  <2>2. /\ over'[b] = over[b] /\ at'[b] = at[b] /\ (b \in members' <=> b \in members)
    BY DEF Elsewhere
  <2>3. b \in members' =>
          \A i \in DOMAIN over'[b] : over'[b][i] # "failed" => Player(match', over'[b][i]) = b
    BY <1>0, <2>2, SeatKept DEF TellInv
  <2>4. b \in members' =>
          \A i \in DOMAIN over'[b] : over'[b][i] # "failed" => Player(match, over[b][i])' = b
    BY <2>3 DEF Player
  <2>5. at'[b] \in {"room", "leaving"} => b \in members'
    BY <1>0, <2>2 DEF TellInv
  <2> QED
    BY <2>1, <2>4, <2>5 DEF TellInv
<1>5. QueueInv(b)'
  BY <1>0, QueueElsewhere
<1> QED
  BY <1>1, <1>2, <1>3, <1>4, <1>5 DEF PlayerInv

\* The first arrival of a player seats it, when there is a seat, with the wins
\* it had; a later one finds it seated, and brings the same wins again.
LEMMA ArriveIInv ==
  ASSUME IInv, NEW a \in Players, NEW moved \in BOOLEAN, Arrive(a, moved)
  PROVE  IInv'
<1>b. PICK v : v = IF moved
                   THEN [actor[a] EXCEPT !.wins = admitted[a], !.rooms = <<>>, !.processed = {}]
                   ELSE [actor[a] EXCEPT !.wins = admitted[a]]
  OBVIOUS
<1>0. /\ TypeOK /\ LifeInv(a) /\ WinInv(a) /\ SeatInv(a) /\ TellInv(a) /\ QueueInv(a)
      /\ FailureNamesRoom /\ Fair(match) /\ Announced /\ match \in Matches
  BY DEF IInv, PlayerInv, TypeOK
<1>1. /\ reply[a] # "none" /\ at[a] \in {"entry", "room", "leaving"}
      /\ moved => at[a] = "entry"
  BY DEF Arrive
<1>2. /\ admitted[a] = Wins[a] /\ Wins[a] \in Nat /\ reply[a] \in Marks /\ created[a] # 0
      /\ reply[a] # "failed"
  <2>1. reply[a] \in Marks
    BY <1>0, <1>1 DEF TypeOK
  <2> QED
    BY <1>0, <1>1, <2>1, RoomAssumption DEF WinInv, LifeInv, Marks
<1>3. actor[a] \in Actors
  BY <1>0 DEF TypeOK, Actors
<1>4. /\ v \in Actors /\ v.wins = Wins[a] /\ v.destroy = actor[a].destroy
      /\ IF moved THEN v.rooms = <<>> /\ v.processed = {}
         ELSE v.rooms = actor[a].rooms /\ v.processed = actor[a].processed
  <2>1. CASE moved
    <3>1. v = [actor[a] EXCEPT !.wins = Wins[a], !.rooms = <<>>, !.processed = {}]
          /\ <<>> \in Seq(Rooms)
      BY <1>b, <1>2, <2>1
    <3> QED
      BY <1>2, <1>3, <2>1, <3>1 DEF Actors
  <2>2. CASE ~moved
    <3>1. v = [actor[a] EXCEPT !.wins = Wins[a]]
      BY <1>b, <1>2, <2>2
    <3> HIDE DEF Rooms, Joins
    <3> QED
      BY <1>2, <1>3, <2>2, <3>1 DEF Actors
  <2> QED
    BY <2>1, <2>2
<1>5. /\ admitted' = [admitted EXCEPT ![a] = None]
      /\ at' = [at EXCEPT ![a] = IF @ = "entry" THEN "room" ELSE @]
      /\ players' = [players EXCEPT ![a] = Wins[a]] /\ actor' = [actor EXCEPT ![a] = v]
      /\ away' = [away EXCEPT ![a] = @ \/ moved]
      /\ over' = [over EXCEPT ![a] = Append(@, reply[a])]
      /\ reply' = [reply EXCEPT ![a] = "none"]
      /\ UNCHANGED <<overlapped, asked, reported, failures, milestones, created>>
  <2>1. actor' = [actor EXCEPT ![a] = v]
    BY <1>b DEF Arrive
  <2> QED
    BY <1>2, <2>1 DEF Arrive
<1>6. IF CanJoin(match, a) THEN match' = Join(match, a) /\ members' = members \cup {a}
      ELSE UNCHANGED <<match, members>>
  BY DEF Arrive
<1>7. /\ MayJoin(match, match', a)
      /\ CanJoin(match, a) =>
           /\ a \in {match'.x, match'.o}
           /\ match'.x = EvaluateJoin(match, a).x /\ match'.o = EvaluateJoin(match, a).o
  <2>1. CASE CanJoin(match, a)
    <3>1. match' = Join(match, a)
      BY <1>6, <2>1
    <3>2. /\ Fair(match') /\ a \in {match'.x, match'.o}
          /\ {match'.x, match'.o} \subseteq {match.x, match.o, a}
          /\ match.x # None => match'.x = match.x
          /\ match.o # None => match'.o = match.o
          /\ match'.x = EvaluateJoin(match, a).x /\ match'.o = EvaluateJoin(match, a).o
          /\ match'.winner = match.winner
          /\ match'.status # match.status => ~Final(match) /\ ~Final(match')
      BY <1>0, <2>1, <3>1, JoinFair
    <3> QED
      BY <3>2 DEF MayJoin, Final
  <2>2. CASE ~CanJoin(match, a)
    <3>1. match' = match
      BY <1>6, <2>2
    <3> QED
      BY <1>0, <2>2, <3>1 DEF MayJoin
  <2> QED
    BY <2>1, <2>2
<1>8. /\ over' \in [Players -> Seq(Marks \cup {"failed"})]
      /\ Len(over'[a]) = Len(over[a]) + 1 /\ DOMAIN over'[a] = 1..(Len(over[a]) + 1)
      /\ over'[a][Len(over[a]) + 1] = reply[a]
      /\ \A i \in 1..Len(over[a]) : over'[a][i] = over[a][i]
      /\ \A b \in Players \ {a} : over'[b] = over[b]
  <2>1. reply[a] \in Marks \cup {"failed"}
    BY <1>2
  <2> QED
    BY <1>0, <1>5, <2>1, EndAppended
<1>9. /\ Len(over[a]) \in Nat /\ DOMAIN over[a] = 1..Len(over[a]) /\ Len(asked[a]) \in Nat
      /\ reported[a] \in Nat
  BY <1>0, JoinTypes
<1>10. TypeOK'
  <2>1. match' \in Matches
    BY <1>7 DEF MayJoin, Fair
  <2>2. admitted' \in [Players -> Nat \cup {None}] /\ members' \subseteq Players
    BY <1>0, <1>5, <1>6 DEF TypeOK
  <2>3. players' \in [Players -> Nat \cup {None}]
    BY <1>0, <1>2, <1>5 DEF TypeOK
  <2>4. at' \in [Players -> {"nowhere", "entry", "room", "leaving", "destroying"}]
    BY <1>0, <1>1, <1>5 DEF TypeOK
  <2>5. actor' \in [Players -> Actors]
    BY <1>0, <1>4, <1>5 DEF TypeOK, Actors
  <2>6. reply' \in [Players -> Marks \cup {"none"}]
    BY <1>0, <1>5 DEF TypeOK
  <2>7. away' \in [Players -> BOOLEAN]
    <3>1. (away[a] \/ moved) \in BOOLEAN
      BY Zenon
    <3> QED
      BY <1>0, <1>5, <3>1, Zenon DEF TypeOK
  <2> QED
    BY <1>0, <1>5, <1>8, <2>1, <2>2, <2>3, <2>4, <2>5, <2>6, <2>7 DEF TypeOK, Actors
<1>11. \A b \in Players \ {a} : Elsewhere(b)
  <2> SUFFICES ASSUME NEW b \in Players, b # a PROVE Elsewhere(b)
    OBVIOUS
  <2>1. b \in members' <=> b \in members
    BY <1>6
  <2>2. /\ at'[b] = at[b] /\ actor'[b] = actor[b] /\ reply'[b] = reply[b]
        /\ players'[b] = players[b] /\ admitted'[b] = admitted[b] /\ over'[b] = over[b]
    BY <1>0, <1>5, <1>8 DEF TypeOK
  <2>3. away'[b] = away[b]
    BY <1>0, <1>5 DEF TypeOK
  <2> QED
    BY <1>5, <2>1, <2>2, <2>3 DEF Elsewhere
<1>12. /\ at'[a] = IF at[a] = "entry" THEN "room" ELSE at[a]
       /\ actor'[a] = v /\ players'[a] = Wins[a] /\ reply'[a] = "none"
  BY <1>0, <1>5 DEF TypeOK
<1>13. away'[a] <=> away[a] \/ moved
  BY <1>0, <1>5, Zenon DEF TypeOK
<1>14. Len(over[a]) + 1 \in DOMAIN over'[a]
  BY <1>8, <1>9
<1>15. LifeInv(a)'
  <2>1. at'[a] \in {"room", "leaving"}
    BY <1>1, <1>12
  <2>2. \E i \in DOMAIN over'[a] : over'[a][i] # "failed"
    BY <1>2, <1>8, <1>14
  <2>3. at'[a] = "leaving" => at[a] = "leaving"
    BY <1>12
  <2> QED
    BY <1>0, <1>1, <1>2, <1>4, <1>5, <1>7, <1>12, <2>1, <2>2, <2>3 DEF LifeInv, MayJoin
<1>16. SeatInv(a)'
  <2>1. CASE CanJoin(match, a)
    <3>1. a \in members'
      BY <1>6, <2>1
    <3>2. ~Final(match') => at'[a] = "room"
      BY <1>0, <1>1, <1>7, <1>12 DEF LifeInv, MayJoin
    <3> QED
      BY <1>2, <1>4, <1>5, <1>7, <1>12, <2>1, <3>1, <3>2 DEF SeatInv
  <2>2. CASE ~CanJoin(match, a)
    <3>1. match' = match /\ members' = members
      BY <1>6, <2>2
    <3>2. a \notin {match.x, match.o}
      BY <2>2 DEF CanJoin
    <3>3. a \notin members
      BY <1>0, <3>2 DEF SeatInv
    <3> QED
      BY <3>1, <3>2, <3>3 DEF SeatInv
  <2> QED
    BY <2>1, <2>2
<1>17. WinInv(a)'
  <2>1. ASSUME ArrivedOnce(a)', created[a] = 1
        PROVE  ~(match'.status = "won" /\ match'.winner = a)
    <3>1. \A i \in DOMAIN over[a] : over[a][i] = "failed"
      <4> SUFFICES ASSUME NEW i \in 1..Len(over[a]), over[a][i] # "failed" PROVE FALSE
        BY <1>9
      <4>1. i \in DOMAIN over'[a] /\ over'[a][i] # "failed" /\ i # Len(over[a]) + 1
        BY <1>8, <1>9
      <4> QED
        BY <1>2, <1>8, <1>14, <2>1, <4>1 DEF ArrivedOnce
    <3>2. at[a] = "entry"
      BY <1>0, <1>1, <3>1 DEF LifeInv
    <3>3. a \notin {match.x, match.o}
      BY <1>0, <2>1, <3>2 DEF WinInv
    <3>4. match.status = "won" => match.winner \in {match.x, match.o}
      BY <1>0 DEF Fair, MatchInv
    <3> QED
      BY <1>7, <3>3, <3>4 DEF MayJoin
  <2>2. Wins[a] + 0 = Wins[a]
    BY <1>2
  <2>3. at'[a] # "entry"
    BY <1>12
  <2> QED
    BY <1>0, <1>4, <1>5, <1>12, <2>1, <2>2, <2>3 DEF WinInv
<1>18. TellInv(a)'
  <2> SUFFICES ASSUME ~overlapped PROVE TellInv(a)'
    BY <1>5 DEF TellInv
  <2>1. CanJoin(match, a) /\ reply[a] = MarkOf(EvaluateJoin(match, a), a)
    BY <1>0, <1>1 DEF TellInv
  <2>2. a \in members'
    BY <1>6, <2>1
  <2>3. Player(match', reply[a]) = a
    <3>1. reply[a] = IF a = match'.x THEN "x" ELSE "o"
      BY <1>7, <2>1 DEF MarkOf
    <3> QED
      BY <1>7, <2>1, <3>1 DEF Player
  <2>4. ASSUME NEW i \in DOMAIN over'[a], over'[a][i] # "failed"
        PROVE  Player(match', over'[a][i]) = a
    <3>1. CASE i = Len(over[a]) + 1
      BY <1>8, <2>3, <3>1
    <3>2. CASE i # Len(over[a]) + 1
      <4>1. i \in 1..Len(over[a])
        BY <1>8, <1>9, <3>2
      <4>2. over'[a][i] = over[a][i] /\ i \in DOMAIN over[a] /\ over[a][i] # "failed"
        BY <1>8, <1>9, <2>4, <4>1
      <4>3. at[a] \in {"room", "leaving"}
        BY <1>0, <1>1, <4>2 DEF LifeInv
      <4>4. Player(match, over[a][i]) = a
        BY <1>0, <4>2, <4>3 DEF TellInv
      <4> QED
        BY <1>7, <4>2, <4>4, SeatKept
    <3> QED
      BY <3>1, <3>2
  <2>5. \A i \in DOMAIN over'[a] : over'[a][i] # "failed" => Player(match, over[a][i])' = a
    BY <2>4 DEF Player
  <2> QED
    BY <1>12, <2>2, <2>5 DEF TellInv
<1>19. QueueInv(a)'
  <2>1. Len(over[a]) + 1 <= Len(asked[a]) /\ reported[a] <= Len(over[a]) + 1
    BY <1>0, <1>1, <1>9 DEF QueueInv
  <2>2. Len(over'[a]) = Len(over[a]) + 1
    BY <1>8
  <2>3. away'[a] => v.rooms = <<>>
    BY <1>0, <1>4, <1>13 DEF QueueInv
  <2>4. ~away'[a] => /\ ~away[a] /\ at[a] # "nowhere"
                     /\ v.rooms = actor[a].rooms /\ v.processed = actor[a].processed
    BY <1>1, <1>4, <1>13
  <2>5. reply'[a] = "none" /\ actor'[a] = v /\ asked'[a] = asked[a] /\ reported'[a] = reported[a]
    BY <1>5, <1>12
  <2>6. ~away[a] /\ at[a] # "nowhere" =>
          /\ actor[a].processed = 1..reported[a]
          /\ Len(actor[a].rooms) = Len(asked[a]) - reported[a]
          /\ \A i \in 1..Len(actor[a].rooms) :
               actor[a].rooms[i] = asked[a][reported[a] + i].room
    BY <1>0 DEF QueueInv
  <2> QED
    BY <2>1, <2>2, <2>3, <2>4, <2>5, <2>6 DEF QueueInv
<1>20. FailureNamesRoom' /\ Announced' /\ Fair(match)'
  BY <1>0, <1>5, <1>7 DEF FailureNamesRoom, Announced, MayJoin, Fair, MatchInv, CountInv, OutcomeInv
<1>21. ASSUME NEW b \in Players PROVE PlayerInv(b)'
  <2>1. CASE b = a
    BY <1>15, <1>16, <1>17, <1>18, <1>19, <2>1 DEF PlayerInv
  <2>2. CASE b # a
    BY <1>1, <1>5, <1>7, <1>11, <2>2, ArriveElsewhere DEF IInv
  <2> QED
    BY <2>1, <2>2
<1> QED
  BY <1>10, <1>20, <1>21 DEF IInv

-----------------------------------------------------------------------------
(* The game *)

\* A step of a match whose seats stay as they are.
KeepsSeats(m, n) ==
  /\ Fair(m) /\ Fair(n) /\ n.x = m.x /\ n.o = m.o
  /\ Final(m) => Final(n)

LEMMA SameSeats ==
  ASSUME NEW m, NEW n, KeepsSeats(m, n), NEW a
  PROVE  /\ CanJoin(n, a) <=> CanJoin(m, a)
         /\ MarkOf(EvaluateJoin(n, a), a) = MarkOf(EvaluateJoin(m, a), a)
         /\ \A mark : Player(n, mark) = Player(m, mark)
<1>1. m \in Matches /\ n \in Matches /\ n.x = m.x /\ n.o = m.o
  BY DEF KeepsSeats, Fair
<1>2. EvaluateJoin(n, a).x = EvaluateJoin(m, a).x
  BY <1>1 DEF EvaluateJoin, Matches
<1> QED
  BY <1>1, <1>2 DEF CanJoin, MarkOf, Player

LEMMA SameTold ==
  ASSUME NEW b \in Players, TellInv(b), KeepsSeats(match, match'),
         UNCHANGED <<overlapped, members, at, reply, over>>
  PROVE  TellInv(b)'
<1>1. /\ CanJoin(match', b) <=> CanJoin(match, b)
      /\ MarkOf(EvaluateJoin(match', b), b) = MarkOf(EvaluateJoin(match, b), b)
      /\ \A mark : Player(match', mark) = Player(match, mark)
  BY SameSeats
<1>2. CanJoin(match, b)' <=> CanJoin(match, b)
  BY <1>1 DEF CanJoin
<1>3. MarkOf(EvaluateJoin(match, b), b)' = MarkOf(EvaluateJoin(match, b), b)
  BY <1>1 DEF MarkOf, EvaluateJoin
<1>4. \A i : Player(match, over[b][i])' = Player(match, over[b][i])
  <2>1. \A i : Player(match, over[b][i])' = Player(match', over[b][i])
    BY DEF Player
  <2> QED
    BY <1>1, <2>1
<1> QED
  BY <1>2, <1>3, <1>4 DEF TellInv

LEMMA MoveElsewhere ==
  ASSUME NEW b \in Players, PlayerInv(b), Elsewhere(b), KeepsSeats(match, match'),
         UNCHANGED <<overlapped, members, at, reply, over>>,
         (match'.status = "won" /\ match'.winner = b)
           <=> (match.status = "won" /\ match.winner = b)
  PROVE  PlayerInv(b)'
<1>0. LifeInv(b) /\ WinInv(b) /\ SeatInv(b) /\ TellInv(b) /\ QueueInv(b)
  BY DEF PlayerInv
<1>1. LifeInv(b)'
  BY <1>0 DEF LifeInv, Elsewhere, KeepsSeats
<1>2. WinInv(b)'
  <2>1. ArrivedOnce(b)' <=> ArrivedOnce(b)
    BY DEF ArrivedOnce, Elsewhere
  <2> QED
    BY <1>0, <2>1 DEF WinInv, Elsewhere, KeepsSeats
<1>3. SeatInv(b)'
  BY <1>0 DEF SeatInv, Elsewhere, KeepsSeats
<1>4. TellInv(b)' /\ QueueInv(b)'
  BY <1>0, SameTold, QueueElsewhere
<1> QED
  BY <1>1, <1>2, <1>3, <1>4 DEF PlayerInv

\* The clock and the room's timer.
LEMMA ClockIInv ==
  ASSUME IInv, TurnTimePasses \/ GameTick
  PROVE  IInv'
<1>0. TypeOK /\ Fair(match) /\ match \in Matches /\ Announced /\ FailureNamesRoom
  BY DEF IInv, TypeOK
<1>1. UNCHANGED <<admitted, members, players, overlapped, at, actor, asked, reply, over,
                  reported, away, failures, milestones, created>>
  BY DEF TurnTimePasses, GameTick, joinVars
<1>2. /\ Fair(match') /\ match'.x = match.x /\ match'.o = match.o
      /\ \/ match'.status = match.status /\ match'.winner = match.winner
         \/ match.status = "playing" /\ match'.status = "timedOut"
  BY <1>0, DueFair, TickFair DEF TurnTimePasses, GameTick
<1>3. /\ KeepsSeats(match, match')
      /\ match'.status = "won" <=> match.status = "won"
      /\ match.status = "won" => match'.winner = match.winner
  BY <1>0, <1>2 DEF KeepsSeats, Final
<1>4. TypeOK'
  BY <1>0, <1>1, <1>2 DEF TypeOK, Fair
<1>5. FailureNamesRoom' /\ Announced'
  BY <1>0, <1>1, <1>3 DEF FailureNamesRoom, Announced
<1>6. Fair(match)'
  BY <1>2 DEF Fair, MatchInv, CountInv, OutcomeInv
<1>7. ASSUME NEW b \in Players PROVE PlayerInv(b)'
  <2>1. PlayerInv(b) /\ Elsewhere(b)
    BY <1>1 DEF IInv, Elsewhere
  <2> QED
    BY <1>1, <1>3, <2>1, MoveElsewhere
<1> QED
  BY <1>4, <1>5, <1>6, <1>7 DEF IInv

\* The player who moves is in its first life and not yet the winner, so its win
\* is counted once.
LEMMA PlaceMarkIInv ==
  ASSUME IInv, NEW a \in Players, NEW c \in Cells, PlaceMark(a, c)
  PROVE  IInv'
<1>0. /\ TypeOK /\ LifeInv(a) /\ WinInv(a) /\ SeatInv(a) /\ TellInv(a) /\ QueueInv(a)
      /\ FailureNamesRoom /\ Fair(match) /\ Announced /\ match \in Matches
  BY DEF IInv, PlayerInv, TypeOK
<1>1. /\ Fair(match') /\ a \in {match.x, match.o} /\ match'.x = match.x /\ match'.o = match.o
      /\ match'.status # "waiting" /\ (match'.status = "won" => match'.winner = a)
      /\ match.status = "playing"
  BY <1>0, PlaceFair DEF PlaceMark, CanPlace
<1>2. KeepsSeats(match, match') /\ ~Final(match)
  BY <1>0, <1>1 DEF KeepsSeats, Final
<1>3. /\ a \in members /\ at[a] = "room" /\ created[a] \in {0, 1} /\ created[a] # 0
      /\ players[a] = actor[a].wins /\ actor[a].wins = Wins[a]
  BY <1>0, <1>1, <1>2 DEF SeatInv, LifeInv, WinInv
<1>4. actor[a] \in Actors /\ Wins[a] \in Nat /\ Wins[a] + 1 \in Nat
  BY <1>0, RoomAssumption DEF TypeOK, Actors
<1>5. PICK w : w = IF match'.status = "won" THEN Wins[a] + 1 ELSE Wins[a]
  OBVIOUS
<1>6. PICK v : v = [actor[a] EXCEPT !.wins = w]
  OBVIOUS
<1>7. /\ v \in Actors /\ v.wins = w /\ v.destroy = actor[a].destroy
      /\ v.rooms = actor[a].rooms /\ v.processed = actor[a].processed /\ w \in Nat
  <2> HIDE DEF Rooms, Joins
  <2> QED
    BY <1>4, <1>5, <1>6 DEF Actors
<1>8. Scores(match', a) <=> match'.status = "won"
  BY <1>1 DEF Scores
<1>9. /\ players' = [players EXCEPT ![a] = w] /\ actor' = [actor EXCEPT ![a] = v]
      /\ milestones' = IF match'.status = "won" /\ Wins[a] + 1 = Milestone
                       THEN Append(milestones, a) ELSE milestones
      /\ UNCHANGED <<admitted, members, overlapped, at, asked, reply, over, reported, away,
                     failures, created>>
  <2>0. UNCHANGED <<admitted, members, overlapped, at, asked, reply, over, reported, away,
                    failures, created>>
    BY DEF PlaceMark, joinVars
  <2>1. CASE match'.status = "won"
    <3>1. /\ players' = [players EXCEPT ![a] = players[a] + 1]
          /\ actor' = [actor EXCEPT ![a].wins = players[a] + 1]
          /\ milestones' = IF players[a] + 1 = Milestone THEN Append(milestones, a)
                           ELSE milestones
      BY <1>8, <2>1 DEF PlaceMark
    <3>2. players[a] + 1 = w
      BY <1>3, <1>5, <2>1
    <3>3. actor' = [actor EXCEPT ![a] = v]
      BY <1>6, <3>1, <3>2
    <3> QED
      BY <1>3, <2>0, <2>1, <3>1, <3>2, <3>3
  <2>2. CASE match'.status # "won"
    <3>1. UNCHANGED <<players, actor, milestones>>
      BY <1>8, <2>2 DEF PlaceMark
    <3>2. v = actor[a] /\ w = players[a]
      <4>1. w = Wins[a] /\ actor[a].wins = Wins[a] /\ players[a] = Wins[a]
        BY <1>3, <1>5, <2>2
      <4> QED
        BY <1>4, <1>6, <4>1 DEF Actors
    <3> QED
      BY <1>0, <2>0, <2>2, <3>1, <3>2 DEF TypeOK
  <2> QED
    BY <2>1, <2>2
<1>10. TypeOK'
  <2>1. actor' \in [Players -> Actors]
    BY <1>0, <1>7, <1>9 DEF TypeOK, Actors
  <2>2. players' \in [Players -> Nat \cup {None}]
    BY <1>0, <1>7, <1>9 DEF TypeOK
  <2>3. milestones' \in Seq(Players)
    BY <1>0, <1>9 DEF TypeOK
  <2>4. match' \in Matches
    BY <1>1 DEF Fair
  <2> QED
    BY <1>0, <1>9, <2>1, <2>2, <2>3, <2>4 DEF TypeOK, Actors
<1>11. Announced'
  <2>1. Len(milestones) = 0 /\ milestones \in Seq(Players)
    BY <1>0, <1>1 DEF Announced, TypeOK
  <2>2. Len(Append(milestones, a)) = 1
    BY <2>1
  <2>3. match'.status = "won" => Wins[match'.winner] = Wins[a]
    BY <1>1
  <2> QED
    BY <1>9, <2>1, <2>2, <2>3 DEF Announced
<1>12. FailureNamesRoom' /\ Fair(match)'
  BY <1>0, <1>1, <1>9 DEF FailureNamesRoom, Fair, MatchInv, CountInv, OutcomeInv
<1>13. actor'[a] = v /\ players'[a] = w
  BY <1>0, <1>9 DEF TypeOK
<1>14. LifeInv(a)'
  BY <1>0, <1>2, <1>3, <1>7, <1>9, <1>13 DEF LifeInv
<1>15. SeatInv(a)'
  BY <1>1, <1>3, <1>7, <1>9, <1>13 DEF SeatInv
<1>16. WinInv(a)'
  <2>1. actor'[a].wins = w
    BY <1>7, <1>13
  <2>2. w = Wins[a] + (IF match'.status = "won" /\ match'.winner = a THEN 1 ELSE 0)
    BY <1>1, <1>4, <1>5
  <2>3. ~(match'.status = "won" /\ match'.winner = a) => w = Wins[a]
    BY <1>1, <1>5
  <2> QED
    BY <1>0, <1>3, <1>9, <2>1, <2>2, <2>3 DEF WinInv
<1>17. QueueInv(a)'
  BY <1>0, <1>7, <1>9, <1>13 DEF QueueInv
<1>18. TellInv(a)'
  BY <1>0, <1>2, <1>9, SameTold
<1>19. ASSUME NEW b \in Players PROVE PlayerInv(b)'
  <2>1. CASE b = a
    BY <1>14, <1>15, <1>16, <1>17, <1>18, <2>1 DEF PlayerInv
  <2>2. CASE b # a
    <3>1. Elsewhere(b)
      BY <1>0, <1>9, <2>2 DEF TypeOK, Elsewhere
    <3>2. PlayerInv(b)
      BY DEF IInv
    <3> QED
      BY <1>1, <1>2, <1>9, <2>2, <3>1, <3>2, MoveElsewhere
  <2> QED
    BY <2>1, <2>2
<1> QED
  BY <1>10, <1>11, <1>12, <1>19 DEF IInv

-----------------------------------------------------------------------------
(* Leaving *)

LEMMA LeaveGameIInv ==
  ASSUME IInv, NEW a \in Players, LeaveGame(a)
  PROVE  IInv'
<1>0. TypeOK /\ LifeInv(a) /\ WinInv(a) /\ SeatInv(a) /\ TellInv(a) /\ QueueInv(a)
  BY DEF IInv, PlayerInv
<1>1. at[a] = "room" /\ Final(match) /\ actor[a] \in Actors
  BY <1>0 DEF LeaveGame, CanLeave, TypeOK, Actors
<1>2. PICK v : v = [actor[a] EXCEPT !.destroy = TRUE]
  OBVIOUS
<1>3. /\ v \in Actors /\ v.wins = actor[a].wins /\ v.destroy
      /\ v.rooms = actor[a].rooms /\ v.processed = actor[a].processed
  <2> HIDE DEF Rooms, Joins
  <2> QED
    BY <1>1, <1>2 DEF Actors
<1>4. /\ at' = [at EXCEPT ![a] = "leaving"] /\ actor' = [actor EXCEPT ![a] = v]
      /\ UNCHANGED <<match, admitted, members, players, overlapped, asked, reply, over,
                     reported, away, failures, milestones, created>>
  BY <1>2 DEF LeaveGame, spotVars, joinVars
<1>5. TypeOK'
  <2>1. actor' \in [Players -> Actors]
    BY <1>0, <1>3, <1>4 DEF TypeOK, Actors
  <2>2. at' \in [Players -> {"nowhere", "entry", "room", "leaving", "destroying"}]
    BY <1>0, <1>4 DEF TypeOK
  <2> QED
    BY <1>0, <1>4, <2>1, <2>2 DEF TypeOK, Actors
<1>6. \A b \in Players \ {a} : Elsewhere(b)
  BY <1>0, <1>4 DEF TypeOK, Elsewhere
<1>7. at'[a] = "leaving" /\ actor'[a] = v
  BY <1>0, <1>4 DEF TypeOK
<1>8. LifeInv(a)' /\ SeatInv(a)' /\ TellInv(a)'
  BY <1>0, <1>1, <1>3, <1>4, <1>7 DEF LifeInv, SeatInv, TellInv
<1>9. WinInv(a)'
  <2>1. ArrivedOnce(a)' <=> ArrivedOnce(a)
    BY <1>4 DEF ArrivedOnce
  <2> QED
    BY <1>0, <1>3, <1>4, <1>7, <2>1 DEF WinInv
<1>10. QueueInv(a)'
  BY <1>0, <1>1, <1>3, <1>4, <1>7 DEF QueueInv
<1> QED
  BY <1>4, <1>5, <1>6, <1>8, <1>9, <1>10, OneActorOnly DEF PlayerInv

LEMMA LeaveIInv ==
  ASSUME IInv, NEW a \in Players, Leave(a)
  PROVE  IInv'
<1>0. TypeOK /\ LifeInv(a) /\ WinInv(a) /\ SeatInv(a) /\ TellInv(a) /\ QueueInv(a)
  BY DEF IInv, PlayerInv
<1>1. at[a] = "leaving" /\ Final(match) /\ actor[a].destroy
  BY <1>0 DEF Leave, LifeInv
<1>2. /\ at' = [at EXCEPT ![a] = "destroying"] /\ members' = members \ {a}
      /\ players' = [players EXCEPT ![a] = None]
      /\ UNCHANGED <<match, admitted, overlapped, actor, asked, reply, over, reported, away,
                     failures, milestones, created>>
  BY <1>1 DEF Leave, joinVars
<1>3. TypeOK'
  BY <1>0, <1>2 DEF TypeOK
<1>4. \A b \in Players \ {a} : Elsewhere(b)
  BY <1>0, <1>2 DEF TypeOK, Elsewhere
<1>5. at'[a] = "destroying"
  BY <1>0, <1>2 DEF TypeOK
<1>6. LifeInv(a)' /\ SeatInv(a)' /\ TellInv(a)'
  BY <1>0, <1>1, <1>2, <1>5 DEF LifeInv, SeatInv, TellInv
<1>7. WinInv(a)' /\ QueueInv(a)'
  BY <1>0, <1>1, <1>2, <1>5 DEF WinInv, QueueInv
<1> QED
  BY <1>2, <1>3, <1>4, <1>6, <1>7, OneActorOnly DEF PlayerInv

LEMMA DestroyIInv ==
  ASSUME IInv, NEW a \in Players, Destroy(a)
  PROVE  IInv'
<1>0. TypeOK /\ LifeInv(a) /\ WinInv(a) /\ SeatInv(a) /\ TellInv(a) /\ QueueInv(a)
  BY DEF IInv, PlayerInv
<1>1. at[a] = "destroying" /\ Final(match) /\ a \notin members
  BY <1>0 DEF Destroy, LifeInv
<1>2. /\ at' = [at EXCEPT ![a] = "nowhere"] /\ asked' = [asked EXCEPT ![a] = <<>>]
      /\ reply' = [reply EXCEPT ![a] = "none"] /\ over' = [over EXCEPT ![a] = <<>>]
      /\ reported' = [reported EXCEPT ![a] = 0] /\ away' = [away EXCEPT ![a] = FALSE]
      /\ UNCHANGED <<match, admitted, members, players, overlapped, actor, failures,
                     milestones, created>>
  BY DEF Destroy, spotVars
<1>3. TypeOK'
  <2>1. asked' \in [Players -> Seq(Requests)] /\ over' \in [Players -> Seq(Marks \cup {"failed"})]
    <3> HIDE DEF Requests, Marks
    <3>1. asked \in [Players -> Seq(Requests)] /\ over \in [Players -> Seq(Marks \cup {"failed"})]
      BY <1>0 DEF TypeOK, Requests
    <3> QED
      BY <1>2, <3>1
  <2>2. \A b \in Players : Len(asked'[b]) <= MaxJoins
    BY <1>0, <1>2, RoomAssumption DEF TypeOK
  <2>3. /\ at' \in [Players -> {"nowhere", "entry", "room", "leaving", "destroying"}]
        /\ reply' \in [Players -> Marks \cup {"none"}]
        /\ reported' \in [Players -> Nat] /\ away' \in [Players -> BOOLEAN]
    BY <1>0, <1>2 DEF TypeOK
  <2> QED
    BY <1>0, <1>2, <2>1, <2>2, <2>3 DEF TypeOK, Requests
<1>4. \A b \in Players \ {a} : Elsewhere(b)
  BY <1>0, <1>2 DEF TypeOK, Elsewhere
<1>5. /\ at'[a] = "nowhere" /\ asked'[a] = <<>> /\ over'[a] = <<>> /\ reply'[a] = "none"
      /\ reported'[a] = 0 /\ ~away'[a]
  BY <1>0, <1>2 DEF TypeOK
<1>6. LifeInv(a)' /\ SeatInv(a)' /\ TellInv(a)'
  BY <1>0, <1>1, <1>2, <1>5 DEF LifeInv, SeatInv, TellInv
<1>7. WinInv(a)' /\ QueueInv(a)'
  BY <1>0, <1>1, <1>2, <1>5 DEF WinInv, QueueInv
<1> QED
  BY <1>2, <1>3, <1>4, <1>5, <1>6, <1>7, OneActorOnly DEF PlayerInv

LEMMA StutterIInv ==
  ASSUME IInv, UNCHANGED vars
  PROVE  IInv'
<1>1. UNCHANGED <<match, admitted, members, players, overlapped, at, actor, asked, reply,
                  over, reported, away, failures, milestones, created>>
  BY DEF vars, spotVars, joinVars
<1>2. TypeOK /\ FailureNamesRoom /\ Announced /\ Fair(match)
  BY DEF IInv
<1>3. TypeOK'
  BY <1>1, <1>2 DEF TypeOK
<1>4. FailureNamesRoom' /\ Announced' /\ Fair(match)'
  BY <1>1, <1>2 DEF FailureNamesRoom, Announced, Fair, MatchInv, CountInv, OutcomeInv
<1>5. ASSUME NEW b \in Players PROVE PlayerInv(b)'
  <2>1. Elsewhere(b) /\ PlayerInv(b)
    BY <1>1 DEF Elsewhere, IInv
  <2>2. LifeInv(b)' /\ WinInv(b)' /\ SeatInv(b)' /\ QueueInv(b)'
    BY <1>1, <2>1, QueueElsewhere, LifeElsewhere DEF PlayerInv
  <2>3. TellInv(b)'
    BY <1>1, <2>1 DEF PlayerInv, TellInv
  <2> QED
    BY <2>2, <2>3 DEF PlayerInv
<1> QED
  BY <1>3, <1>4, <1>5 DEF IInv

LEMMA NextIInv == IInv /\ [Next]_vars => IInv'
<1> SUFFICES ASSUME IInv, [Next]_vars PROVE IInv'
  OBVIOUS
<1>1. ASSUME NEW a \in Players,
             Authenticate(a) \/ LeaveGame(a) \/ \E room \in Rooms : JoinGame(a, room)
      PROVE  IInv'
  BY <1>1, AuthenticateIInv, LeaveGameIInv, JoinGameIInv
<1>2. ASSUME NEW a \in Players, Runtime(a) PROVE IInv'
  BY <1>2, AdmitIInv, JoinFailsIInv, ArriveIInv, LeaveIInv, DestroyIInv DEF Runtime
<1>3. ASSUME NEW a \in Players, NEW i \in 1..MaxJoins, JoinCompleted(a, i) PROVE IInv'
  BY <1>3, JoinCompletedIInv DEF Joins
<1>4. CASE Moves
  BY <1>4, PlaceMarkIInv DEF Moves
<1>5. CASE TurnTimePasses \/ GameTick
  BY <1>5, ClockIInv
<1>6. CASE UNCHANGED vars
  BY <1>6, StutterIInv
<1> QED
  BY <1>1, <1>2, <1>3, <1>4, <1>5, <1>6 DEF Next

LEMMA IInvHolds == Spec => []IInv
BY InitIInv, NextIInv, PTL DEF Spec

-----------------------------------------------------------------------------
\* For any players, board and winning lines: the marks alternate, the outcome is
\* the board's, late moves, ticks and rejoins change nothing, and the win of a
\* player that joins, leaves and comes back is counted and announced once.
THEOREM GameStaysFair == Spec => []GameIsFair
<1>1. IInv => TurnsAlternate
  <2> SUFFICES ASSUME IInv PROVE TurnsAlternate
    OBVIOUS
  <2>1. MatchInv(match) /\ CountInv(match)
    BY DEF IInv, Fair
  <2>2. /\ Count("x") = CountIn(match.board, "x") /\ Count("o") = CountIn(match.board, "o")
        /\ Count("x") \in Nat /\ Count("o") \in Nat
    BY CountType DEF Count, CountIn
  <2>3. match.status = "playing" =>
          /\ match.x # None /\ match.o # None /\ match.x # match.o
          /\ match.turn \in Marks
          /\ Count("x") = Count("o") + (IF match.turn = "o" THEN 1 ELSE 0)
    BY <2>1, <2>2 DEF MatchInv, CountInv
  <2>4. Count("x") = Count("o") \/ Count("x") = Count("o") + 1
    BY <2>1, <2>2 DEF CountInv
  <2>5. Count("x") - Count("o") \in {0, 1}
    BY <2>2, <2>4
  <2> QED
    BY <2>3, <2>5 DEF TurnsAlternate
<1>2. IInv => OutcomeFits
  BY DEF IInv, Fair, MatchInv, OutcomeInv, OutcomeFits, Count, CountIn
<1>3. IInv => WinCountedOnce
  <2> SUFFICES ASSUME IInv PROVE WinCountedOnce
    OBVIOUS
  <2>1. ASSUME NEW a \in members
        PROVE  /\ players[a] = actor[a].wins
               /\ created[a] = 1 /\ ArrivedOnce(a) =>
                    players[a] = Wins[a]
                      + (IF match.status = "won" /\ match.winner = a THEN 1 ELSE 0)
    <3>1. a \in Players
      BY DEF IInv, TypeOK
    <3>2. SeatInv(a) /\ WinInv(a)
      BY <3>1 DEF IInv, PlayerInv
    <3> QED
      BY <3>2 DEF WinInv, SeatInv
  <2> QED
    BY <2>1 DEF IInv, Announced, WinCountedOnce
<1>4. IInv => GameIsFair
  BY <1>1, <1>2, <1>3 DEF IInv, GameIsFair
<1> QED
  BY <1>4, IInvHolds, PTL

\* Nobody loses its seat or is destroyed while its game runs, and a running
\* game has a deadline.
THEOREM PlayersDoStay == Spec => []PlayersStay
<1>1. IInv => PlayersStay
  <2> SUFFICES ASSUME IInv PROVE PlayersStay
    OBVIOUS
  <2>1. members \subseteq {match.x, match.o}
    BY DEF IInv, TypeOK, PlayerInv, SeatInv
  <2>2. match.status = "playing" => match.deadline # "none"
    BY DEF IInv, Fair, MatchInv
  <2>3. \A a \in Players :
          a \in {match.x, match.o} /\ ~Final(match) => a \in members /\ at[a] = "room"
    BY DEF IInv, PlayerInv, SeatInv
  <2> QED
    BY <2>1, <2>2, <2>3 DEF PlayersStay
<1> QED
  BY <1>1, IInvHolds, PTL

\* However many joins of a player wait, fail at any point, are carried out in the
\* room or are reported again, a failure notice names the room of its own join, or
\* none once the actor has changed processes; and while admissions come one at a
\* time every accepted join showed the seat the player has.
THEOREM PlayersHearTheTruth == Spec => []ToldTruly
<1>1. IInv => SeatAsTold
  <2> SUFFICES ASSUME IInv, ~overlapped, NEW a \in Players
               PROVE  /\ a \in members =>
                           \A i \in DOMAIN over[a] :
                             over[a][i] # "failed" => Player(match, over[a][i]) = a
                      /\ at[a] = "room" => a \in members
    BY DEF SeatAsTold
  <2>1. TellInv(a)
    BY DEF IInv, PlayerInv
  <2> QED
    BY <2>1 DEF TellInv
<1>2. IInv => ToldTruly
  BY <1>1 DEF IInv, ToldTruly
<1> QED
  BY <1>2, IInvHolds, PTL

-----------------------------------------------------------------------------
(* The client's scenario *)

Kinds == {"join", "player joined", "start", "move", "win", "milestone"}
Statuses == {"waiting", "playing", "won"}
Waits == [on : Players, kind : Kinds, by : Players \cup {None}, cell : Cells \cup {None}]

\* The steps a script may have: players' steps, turns of the cells in Plays, and waiting.
Steps ==
  [do : {"sign in", "observe", "close"}, by : Players]
  \cup [do : {"send"}, by : Players, packet : {"join", "leave"}]
  \cup [do : {"play"}, by : Players, turn : 1 .. 5]
  \cup [do : {"await"}, what : SUBSET Waits]
  \cup [do : {"hear"}, what : Waits, status : Statuses]
  \cup [do : {"quiet"}, what : Waits]
  \cup [do : {"gone"}, who : SUBSET Players]

LEMMA Cast ==
  /\ X \in Players /\ O \in Players /\ Watcher \in Players
  /\ Len(Plays) = 5 /\ \A i \in 1 .. 5 : Plays[i] \in Cells
<1>1. {X, O, Watcher} \subseteq Players /\ Plays \in Seq(Cells) /\ Len(Plays) = 5
  BY ScenarioAssumption
<1> QED
  BY <1>1, ElementOfSeq

LEMMA WaitType ==
  ASSUME NEW on \in Players, NEW kind \in Kinds,
         NEW by \in Players \cup {None}, NEW cell \in Cells \cup {None}
  PROVE  Wait(on, kind, by, cell) \in Waits
BY DEF Waits, Wait

LEMMA PlayerSteps ==
  ASSUME NEW a \in Players
  PROVE  /\ SignIn(a) \in Steps /\ Observe(a) \in Steps /\ Close(a) \in Steps
         /\ \A packet \in {"join", "leave"} : Send(a, packet) \in Steps
         /\ \A turn \in 1 .. 5 : Play(a, turn) \in Steps
         /\ Reply(a) \in Waits /\ AnyNewcomer(a) \in Waits
<1>1. SignIn(a) \in Steps /\ Observe(a) \in Steps /\ Close(a) \in Steps
  BY DEF Steps, SignIn, Observe, Close
<1>2. ASSUME NEW packet \in {"join", "leave"} PROVE Send(a, packet) \in Steps
  BY DEF Steps, Send
<1>3. ASSUME NEW turn \in 1 .. 5 PROVE Play(a, turn) \in Steps
  BY DEF Steps, Play
<1>4. Reply(a) \in Waits /\ AnyNewcomer(a) \in Waits
  BY WaitType DEF Reply, AnyNewcomer, Kinds
<1> QED
  BY <1>1, <1>2, <1>3, <1>4

LEMMA WaitSteps ==
  /\ \A what \in SUBSET Waits : Await(what) \in Steps
  /\ \A what \in Waits : Quiet(what) \in Steps
  /\ \A what \in Waits, status \in Statuses : Hear(what, status) \in Steps
  /\ Gone({X, O}) \in Steps
<1>1. ASSUME NEW what \in SUBSET Waits PROVE Await(what) \in Steps
  BY DEF Steps, Await
<1>2. ASSUME NEW what \in Waits PROVE Quiet(what) \in Steps
  BY DEF Steps, Quiet
<1>3. ASSUME NEW what \in Waits, NEW status \in Statuses PROVE Hear(what, status) \in Steps
  BY DEF Steps, Hear
<1>4. Gone({X, O}) \in Steps
  BY Cast DEF Steps, Gone
<1> QED
  BY <1>1, <1>2, <1>3, <1>4

LEMMA ScriptSteps == Script \in Seq(Steps)
<1>1. Newcomer \in Waits /\ Start \in Waits /\ Win \in Waits /\ Fame \in Waits
  BY Cast, WaitType DEF Newcomer, Start, Win, Fame, Kinds
<1>2. Authentication \in Seq(Steps)
  BY Cast, PlayerSteps DEF Authentication
<1>3. FirstJoin \in Seq(Steps)
  BY Cast, PlayerSteps, WaitSteps DEF FirstJoin, Statuses
<1>4. SecondJoin \in Seq(Steps)
  BY <1>1, Cast, PlayerSteps, WaitSteps DEF SecondJoin, Statuses
<1>5. ASSUME NEW a \in {X, O}, NEW turn \in 1 .. 4 PROVE Turn(a, turn) \in Seq(Steps)
  <2> DEFINE move == Move(Peer(a), a, Plays[turn])
  <2>1. move \in Waits
    <3>1. Peer(a) \in Players /\ a \in Players /\ Plays[turn] \in Cells /\ "move" \in Kinds
      BY Cast DEF Peer, Kinds
    <3> QED
      BY <3>1, WaitType DEF Move
  <2>2. Await({move}) \in Steps /\ Hear(move, "playing") \in Steps /\ Play(a, turn) \in Steps
    BY <2>1, Cast, PlayerSteps, WaitSteps DEF Statuses
  <2> QED
    BY <2>2 DEF Turn
<1>6. Victory \in Seq(Steps)
  BY <1>1, Cast, PlayerSteps, WaitSteps DEF Victory, Statuses
<1>7. Reconnection \in Seq(Steps)
  BY Cast, PlayerSteps, WaitSteps DEF Reconnection, Statuses
<1>8. Departure \in Seq(Steps)
  BY Cast, PlayerSteps, WaitSteps DEF Departure
<1> QED
  BY <1>2, <1>3, <1>4, <1>5, <1>6, <1>7, <1>8, ConcatProperties DEF Script

LEMMA ActKeepsRoom == Act => [Next]_vars
<1> SUFFICES ASSUME Act PROVE [Next]_vars
  OBVIOUS
<1>1. ASSUME NEW what, Doing(what) PROVE Step \in Steps /\ Step.do = what
  BY <1>1, ScriptSteps, ElementOfSeq DEF Doing, Step
<1>2. CASE SignsIn
  <2>1. Step \in Steps /\ Step.do = "sign in"
    BY <1>1, <1>2 DEF SignsIn
  <2>2. Step.by \in Players
    BY <2>1 DEF Steps
  <2> QED
    BY <1>2, <2>2 DEF SignsIn, Next
<1>3. CASE TakesTurn
  <2>1. Step \in Steps /\ Step.do = "play"
    BY <1>1, <1>3 DEF TakesTurn
  <2>2. Step.by \in Players /\ Step.turn \in 1 .. 5
    BY <2>1 DEF Steps
  <2>3. Plays[Step.turn] \in Cells
    BY <2>2, Cast
  <2> QED
    BY <1>3, <2>2, <2>3 DEF TakesTurn, Next, Moves
<1>4. CASE Observes \/ Closes \/ Sends \/ Listens
  BY <1>4 DEF Observes, Closes, Sends, Listens
<1> QED
  BY <1>2, <1>3, <1>4 DEF Act

LEMMA ServeKeepsRoom == Serve => [Next]_vars
<1> SUFFICES ASSUME Serve PROVE [Next]_vars
  OBVIOUS
<1>1. ASSUME NEW a \in Players,
             \/ TakeJoin(a) \/ TakeLeave(a) \/ Admitted(a) \/ Arrived(a)
             \/ Leave(a) \/ Destroy(a)
      PROVE  [Next]_vars
  BY <1>1 DEF TakeJoin, TakeLeave, Admitted, Arrived, Next, Runtime, Rooms
<1>2. ASSUME NEW a \in Players, NEW i \in Joins, Completed(a, i) PROVE [Next]_vars
  BY <1>2 DEF Completed, Next, Joins
<1>3. CASE OnPlayerWinMilestone
  BY <1>3 DEF OnPlayerWinMilestone
<1> QED
  BY <1>1, <1>2, <1>3 DEF Serve

\* The client's scenario, with its sessions, observers and pushes, asks of the room only
\* what players may: all that is proved of the room holds while it is played.
THEOREM ScenarioKeepsRoom == ScenarioSpec => Spec
<1>1. [ScenarioNext]_<<vars, scenarioVars>> => [Next]_vars
  <2>1. ASSUME NEW a \in Players, Deliver(a) PROVE UNCHANGED vars
    BY <2>1 DEF Deliver
  <2> QED
    BY <2>1, ActKeepsRoom, ServeKeepsRoom DEF ScenarioNext
<1> QED
  BY <1>1, PTL DEF ScenarioSpec, Spec
=============================================================================
