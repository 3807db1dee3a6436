------------------------------- MODULE BingoGame -------------------------------
(***************************************************************************)
(* Bingo's game (samples/Bingo/Server/Play/Domain/Bingo): a card of nine   *)
(* cells with a free one in the middle, the numbers that are drawn in      *)
(* order, and a room of two players whose cards are marked.  The game of a *)
(* room is a record; a player's card is <<>> until it is submitted.        *)
(***************************************************************************)
EXTENDS Naturals, Sequences, FiniteSets

CONSTANT MaxNumber   \* 15 in the code

ASSUME NumberAssumption == MaxNumber \in Nat \ {0}

Cells == 1 .. 9
Free == 5
Lines == {{1, 2, 3}, {4, 5, 6}, {7, 8, 9}, {1, 4, 7}, {2, 5, 8}, {3, 6, 9}, {1, 5, 9}, {3, 5, 7}}

\* bingo_card_t's constructor
ValidCard(card) ==
  /\ Len(card) = 9
  /\ \A i \in Cells : card[i] \in 1 .. MaxNumber \/ (i = Free /\ card[i] = 0)
  /\ \A i, j \in Cells : card[i] = card[j] => i = j

\* mark, for every number drawn so far
Marked(card, drawn) == {i \in Cells : i = Free \/ card[i] \in 1 .. drawn}

CompletedLines(card, drawn) == Cardinality({l \in Lines : l \subseteq Marked(card, drawn)})

NewGame == [status |-> "WaitingForPlayers", players |-> <<>>, cards |-> <<>>, drawSeq |-> 0,
            winners |-> <<>>]

Seats == 2
IsIn(game, a) == \E i \in DOMAIN game.players : game.players[i] = a
CanAcceptPlayer(game) == Len(game.players) < Seats

\* bingo_room_game_t::join of a room that is not full
Joined(game, a) ==
  IF IsIn(game, a) THEN game
  ELSE [game EXCEPT !.players = Append(@, a), !.cards = Append(@, <<>>),
                    !.status = IF Len(game.players) + 1 = Seats THEN "Running" ELSE @]

\* submit_card, when it does not throw
CanSubmit(game, a, card) ==
  /\ game.status = "Running" /\ ValidCard(card)
  /\ \E i \in DOMAIN game.players : game.players[i] = a /\ game.cards[i] = <<>>

Submitted(game, a, card) ==
  [game EXCEPT !.cards = [i \in DOMAIN @ |-> IF game.players[i] = a THEN card ELSE @[i]]]

\* all_cards_submitted
ShouldDraw(game) == Len(game.players) = Seats /\ \A i \in DOMAIN game.cards : game.cards[i] # <<>>

CanDraw(game) == game.status = "Running" /\ game.drawSeq < MaxNumber /\ game.winners = <<>>

\* draw_next: the players are looked at by seat.
Drawn(game) ==
  LET n == game.drawSeq + 1
      Winner(i) == IF CompletedLines(game.cards[i], n) > 0 THEN <<game.players[i]>> ELSE <<>>
      won == Winner(1) \o Winner(2)
  IN  [game EXCEPT !.drawSeq = n, !.winners = won,
                   !.status = IF won # <<>> \/ n = MaxNumber THEN "Finished" ELSE @]

=============================================================================
