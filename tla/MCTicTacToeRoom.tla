--------------------------- MODULE MCTicTacToeRoom ---------------------------
(* TLC instance of TicTacToeRoom.  focus is chosen once: in "joins" three     *)
(* players come and go, one of them twice, in a room nobody moves in; in      *)
(* "queue" one player has up to three joins waiting; in "game" two players    *)
(* play out every game of the board, one of them with a second join waiting,  *)
(* and are told of their joins before they move; in "lives" a player comes    *)
(* back after it left; and "scenario" is the client's script.                 *)
EXTENDS TicTacToeScenario

CONSTANTS p1, p2, p3

VARIABLE focus

\* A board whose games may end in a win of either player, a draw or a timeout.
MCLines == {{0, 1, 2}, {0, 3}, {1, 4}, {2, 3}}
MCPlays == <<0, 3, 1, 4, 2>>
\* One player is a win short of the milestone.
MCWins == [p \in Players |-> IF p = p1 THEN 1 ELSE 0]

MCVars == <<vars, scenarioVars, focus>>

MCInit ==
  /\ Init /\ ScenarioInit
  /\ focus \in {"joins", "queue", "game", "lives", "scenario"}
  /\ line = IF focus = "scenario" THEN 1 ELSE Failed

\* How often p may join in a life, and how often it may be created.
JoinsOf(f, p) ==
  CASE f = "joins"    -> IF p = p1 THEN 2 ELSE 1
    [] f = "queue"    -> IF p = p1 THEN 3 ELSE IF p = p2 THEN 1 ELSE 0
    [] f = "game"     -> IF p = p1 THEN 2 ELSE IF p = p2 THEN 1 ELSE 0
    [] f = "lives"    -> IF p = p3 THEN 0 ELSE 1
    [] f = "scenario" -> 1

AllToRoom(p) == \A i \in DOMAIN asked[p] : asked[p][i].room = "room"
NoneFails(p) == \A i \in DOMAIN over[p] : over[p][i] # "failed"
Moved == \E c \in Cells : match.board[c] # "."

Bounded(f) ==
  /\ \A p \in Players :
       /\ Len(asked[p]) <= JoinsOf(f, p)
       /\ created[p] <= (IF f = "lives" /\ p = p1 THEN 2 ELSE 1)
       /\ f \in {"joins", "game"} => ~away[p]
       /\ f \in {"joins", "queue"} /\ p # p1 => AllToRoom(p) /\ reported[p] = 0 /\ ~away[p]
       /\ <<f, p>> \in {<<"joins", p3>>, <<"queue", p2>>} => NoneFails(p)
       /\ f = "game" => AllToRoom(p) /\ NoneFails(p)
  /\ f \in {"joins", "queue", "lives"} => ~Moved

MCNext ==
  /\ focus' = focus
  /\ IF focus = "scenario" THEN ScenarioNext ELSE Next /\ UNCHANGED scenarioVars
  /\ Bounded(focus)'
  /\ focus = "game" /\ match'.board # match.board =>
       \A p \in Players : reported[p] = Len(over[p])

\* The room's and the runtime's own steps; in the scenario also the client's.
Own(A) == focus # "scenario" /\ A /\ UNCHANGED <<scenarioVars, focus>>

MCFairness ==
  /\ WF_MCVars(Own(TurnTimePasses)) /\ WF_MCVars(Own(GameTick))
  /\ \A p \in Players : WF_MCVars(Own(Runtime(p)))
  /\ WF_MCVars(focus = "scenario" /\ ScenarioNext /\ UNCHANGED focus)

MCSpec == MCInit /\ [][MCNext]_MCVars /\ MCFairness
=============================================================================
