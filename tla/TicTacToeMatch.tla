---------------------------- MODULE TicTacToeMatch ----------------------------
(***************************************************************************)
(* tictactoe_match_t (samples/TicTacToe/Server/Play/Domain/TicTacToe/      *)
(* tictactoe_match.hpp): the match as a record and its operations as       *)
(* functions from match to match; a Can... operator says when the method   *)
(* does not throw.  The turn deadline is "none", "armed" or, once its time *)
(* has passed, "due".                                                      *)
(***************************************************************************)
EXTENDS Integers, FiniteSets

CONSTANTS
  Players,   \* actor ids
  Cells,     \* cells of the board (nine in the code)
  Lines,     \* the winning lines
  None

ASSUME MatchAssumption ==
  /\ None \notin Players
  /\ IsFiniteSet(Cells)
  /\ Lines \subseteq (SUBSET Cells) \ {{}}

Marks == {"x", "o"}
Other(mark) == IF mark = "x" THEN "o" ELSE "x"

NewMatch ==
  [x |-> None, o |-> None, board |-> [c \in Cells |-> "."], turn |-> "none",
   status |-> "waiting", winner |-> None, deadline |-> "none"]

\* The player of a mark.
Player(m, mark) == IF mark = "x" THEN m.x ELSE m.o

MarkOf(m, a) == IF a = m.x THEN "x" ELSE "o"

CanJoin(m, a) == m.x = None \/ m.o = None \/ a \in {m.x, m.o}

\* evaluate_join: the first player takes X, the second O and starts play.
EvaluateJoin(m, a) ==
  IF m.x = None THEN [m EXCEPT !.x = a, !.turn = "x", !.status = "waiting"]
  ELSE IF a # m.x /\ m.o = None THEN [m EXCEPT !.o = a, !.status = "playing"]
  ELSE m

Join(m, a) ==
  LET n == EvaluateJoin(m, a)
  IN  IF m.status # "playing" /\ n.status = "playing"
      THEN [n EXCEPT !.deadline = "armed"]
      ELSE n

HasLine(board, mark) == \E line \in Lines : \A c \in line : board[c] = mark

CanPlace(m, a, c) ==
  /\ m.status = "playing"
  /\ Player(m, m.turn) = a
  /\ c \in Cells /\ m.board[c] = "."

\* Mutant: a full board is a draw before a line is looked for.
MutPlace(m, a, c) ==
  LET mark  == MarkOf(m, a)
      board == [m.board EXCEPT ![c] = mark]
  IN  IF \A d \in Cells : board[d] # "."
      THEN [m EXCEPT !.board = board, !.status = "draw"]
      ELSE IF HasLine(board, mark)
      THEN [m EXCEPT !.board = board, !.status = "won", !.winner = a]
      ELSE [m EXCEPT !.board = board, !.turn = Other(mark), !.deadline = "armed"]

Place(m, a, c) ==
  LET mark  == MarkOf(m, a)
      board == [m.board EXCEPT ![c] = mark]
  IN  IF HasLine(board, mark)
      THEN [m EXCEPT !.board = board, !.status = "won", !.winner = a]
      ELSE IF \A d \in Cells : board[d] # "."
      THEN [m EXCEPT !.board = board, !.status = "draw"]
      ELSE [m EXCEPT !.board = board, !.turn = Other(mark), !.deadline = "armed"]

Ticks(m) == m.status = "playing" /\ m.deadline = "due"

Tick(m) ==
  [m EXCEPT !.status = "timedOut", !.winner = Player(m, Other(m.turn)),
            !.turn = "none", !.deadline = "none"]

Final(m) == m.status \in {"won", "draw", "timedOut"}

\* Mutant: a player may leave a running game.
MutCanLeave(m, a) == a \in {m.x, m.o}

CanLeave(m, a) == Final(m) /\ a \in {m.x, m.o}

Matches ==
  [x : Players \cup {None}, o : Players \cup {None},
   board : [Cells -> Marks \cup {"."}], turn : Marks \cup {"none"},
   status : {"waiting", "playing", "won", "draw", "timedOut"},
   winner : Players \cup {None}, deadline : {"none", "armed", "due"}]
=============================================================================
