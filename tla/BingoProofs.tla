------------------------------ MODULE BingoProofs ------------------------------
(***************************************************************************)
(* Two properties of Bingo for any actors, rooms, cards and bounds.        *)
(*                                                                         *)
(* TwoPerRoom needs what every room and every actor know of each other     *)
(* (Seating): a game has only actors with a seat, so an actor who waits    *)
(* for his record and has one finds room in it when he wakes.  ResultsOnce *)
(* needs which actors a room still has to let go (Recorded), and that a    *)
(* room shows a game it finished until it is made anew (History).          *)
(* RewardToldOnce needs where the word of each finished game is: told, on  *)
(* its way, or in the answer the observer waits for (Hearing).             *)
(***************************************************************************)
EXTENDS Bingo, FiniteSetTheorems, TLAPS

(* Types, so that every field of a game and of a room has one. *)

Games == [status : {"WaitingForPlayers", "Running", "Finished"}, players : Seq(Actors),
          cards : Seq(Cards \cup {<<>>}), drawSeq : Nat, winners : Seq(Actors)]
RoomStates == [state : {"none", "open", "closing"}, life : Nat, game : Games,
               actors : SUBSET Actors, pending : SUBSET Actors, leaving : Seq(Actors),
               reported : BOOLEAN]
Observers == [stage : {"entry", "joining", "asked", "in"}, room : Rooms \cup {None}, seen : Nat,
              reward : Nat, announced : Nat, told : Seq(Nat)]
Outcomes == [room : Rooms, life : Nat, drawSeq : Nat \ {0}, players : Seq(Actors),
             winners : Seq(Actors)]

Types ==
  /\ book \in [room : Rooms \cup {None}, seats : SUBSET Actors]
  /\ given \in [Rooms -> SUBSET Actors]
  /\ stage \in [Actors -> Stages] /\ goal \in [Actors -> Rooms \cup {None}]
  /\ room \in [Rooms -> RoomStates]
  /\ record \in [Actors -> [wins : Nat, losses : Nat]]
  /\ played \in SUBSET Outcomes /\ IsFiniteSet(played)
  /\ watching \in Observers
  /\ rewards \in SUBSET [room : Rooms, life : Nat, drawSeq : Nat]

Few(S) == IsFiniteSet(S) /\ Cardinality(S) <= Seats

\* The book and what was ever given agree, and nothing is given to a third actor.
BookSound ==
  /\ \A r \in Rooms : Few(given[r])
  /\ book.room # None => given[book.room] = book.seats

\* A game of actors with a seat; its players are known before it runs.
GameSound(g, seats) ==
  /\ \A i \in DOMAIN g.players : g.players[i] \in seats
  /\ \A i, j \in DOMAIN g.players : g.players[i] = g.players[j] => i = j
  /\ Len(g.players) <= Seats /\ Len(g.cards) = Len(g.players)
  /\ g.status = "WaitingForPlayers" <=> Len(g.players) < Seats
  /\ \A i \in DOMAIN g.cards : g.cards[i] = <<>> \/ ValidCard(g.cards[i])
  /\ g.drawSeq <= MaxNumber
  /\ g.status = "Finished" <=> g.winners # <<>>
  /\ g.status = "Finished" => g.drawSeq # 0

RoomSound(r) ==
  LET g == room[r].game IN
  /\ GameSound(g, given[r])
  /\ room[r].pending \subseteq given[r]
  /\ \A a \in room[r].actors : IsIn(g, a) /\ stage[a] = "in" /\ goal[a] = r
  /\ g.status # "Finished" =>
       room[r].leaving = <<>> /\ \A i \in DOMAIN g.players : g.players[i] \in room[r].actors
  /\ \A i \in DOMAIN room[r].leaving : room[r].leaving[i] \in room[r].actors
  /\ \A i, j \in DOMAIN room[r].leaving : room[r].leaving[i] = room[r].leaving[j] => i = j
  /\ room[r].leaving = <<>> => ~room[r].reported
  /\ room[r].state # "open" => room[r].leaving = <<>>

ActorSound(a) ==
  /\ goal[a] = None <=> stage[a] \in {"entry", "gone"}
  /\ goal[a] # None => a \in given[goal[a]]
  /\ stage[a] \in {"admitted", "fetching"} => ~IsIn(room[goal[a]].game, a)

Seating ==
  /\ Types /\ BookSound
  /\ \A r \in Rooms : RoomSound(r)
  /\ \A a \in Actors : ActorSound(a)

\* A finished game is the one its room still shows, or of an earlier life of it.
Shown(r, life, drawSeq) ==
  /\ room[r].state # "none" /\ room[r].game.status = "Finished"
  /\ room[r].life = life /\ room[r].game.drawSeq = drawSeq

PlayedSound(g) ==
  /\ g.winners # <<>>
  /\ g.life <= room[g.room].life
  /\ room[g.room].life = g.life /\ room[g.room].state # "none" => Shown(g.room, g.life, g.drawSeq)

Kept(r, life, drawSeq) ==
  \E g \in played : g.room = r /\ g.life = life /\ g.drawSeq = drawSeq

History ==
  /\ \A g \in played : PlayedSound(g)
  /\ \A g, h \in played : g.room = h.room /\ g.life = h.life => g.drawSeq = h.drawSeq
  /\ \A r \in Rooms :
       room[r].state # "none" /\ room[r].game.status = "Finished"
         => Kept(r, room[r].life, room[r].game.drawSeq)

Owing(a) == {r \in Unreported(a) : Won(room[r].game, a)}

Recorded(a) ==
  /\ record[a].wins + record[a].losses + Cardinality(Unreported(a)) = Cardinality(Results(a))
  /\ record[a].wins + Cardinality(Owing(a)) = Cardinality(Wins(a))

\* What was announced was played; the game an observer found is announced, or the
\* word of it is on its way.
Hearing ==
  LET w == watching IN
  /\ \A e \in rewards : Kept(e.room, e.life, e.drawSeq)
  /\ w.stage # "in" => w.told = <<>>
  /\ w.stage \in {"entry", "joining"} => w.seen = 0
  /\ w.stage # "entry" => w.room # None
  /\ w.announced = 0 <=> w.told = <<>>
  /\ w.told # <<>> => Kept(w.room, w.told[Len(w.told)], w.announced)
  /\ \A i \in 1 .. Len(w.told) - 1 : w.told[i] # w.told[i + 1]
  /\ w.stage = "asked" /\ w.reward # 0 => Kept(w.room, w.seen, w.reward)
  /\ \A g \in played : w.seen # 0 /\ g.room = w.room /\ g.life >= w.seen =>
       \/ \E i \in DOMAIN w.told : w.told[i] = g.life
       \/ Swallowed(g)
       \/ w.stage = "asked" /\ w.reward # 0 /\ g.life = w.seen
       \/ [room |-> g.room, life |-> g.life, drawSeq |-> g.drawSeq] \in rewards

BInv == Seating /\ History /\ (\A a \in Actors : Recorded(a)) /\ Hearing

-----------------------------------------------------------------------------
(* Games *)

LEMMA NewGameSound ==
  ASSUME NEW seats
  PROVE  NewGame \in Games /\ GameSound(NewGame, seats)
BY NumberAssumption DEF NewGame, Games, GameSound, Seats

LEMMA JoinedType ==
  ASSUME NEW g \in Games, NEW a \in Actors
  PROVE  Joined(g, a) \in Games
<1>1. CASE IsIn(g, a)
  BY <1>1 DEF Joined
<1>2. CASE ~IsIn(g, a)
  <2>1. Append(g.players, a) \in Seq(Actors)
    BY DEF Games
  <2>2. Append(g.cards, <<>>) \in Seq(Cards \cup {<<>>})
    BY DEF Games
  <2> QED
    BY <1>2, <2>1, <2>2 DEF Joined, Games
<1> QED
  BY <1>1, <1>2

\* Who was not in the game is its last player.
LEMMA JoinedFields ==
  ASSUME NEW g \in Games, NEW a \in Actors, ~IsIn(g, a)
  PROVE  /\ Joined(g, a).players = Append(g.players, a)
         /\ Joined(g, a).cards = Append(g.cards, <<>>)
         /\ Joined(g, a).status = IF Len(g.players) + 1 = Seats THEN "Running" ELSE g.status
         /\ Joined(g, a).drawSeq = g.drawSeq /\ Joined(g, a).winners = g.winners
         /\ \A c : IsIn(Joined(g, a), c) <=> IsIn(g, c) \/ c = a
<1>1. /\ Joined(g, a).players = Append(g.players, a)
      /\ Joined(g, a).cards = Append(g.cards, <<>>)
      /\ Joined(g, a).status = IF Len(g.players) + 1 = Seats THEN "Running" ELSE g.status
      /\ Joined(g, a).drawSeq = g.drawSeq /\ Joined(g, a).winners = g.winners
  BY DEF Joined, Games
<1>2. g.players \in Seq(Actors)
  BY DEF Games
<1>3. ASSUME NEW c PROVE IsIn(Joined(g, a), c) <=> IsIn(g, c) \/ c = a
  <2>1. PICK s : s = g.players
    OBVIOUS
  <2>2. PICK t : t = Append(s, a)
    OBVIOUS
  <2>3. (\E i \in DOMAIN t : t[i] = c) <=> ((\E i \in DOMAIN s : s[i] = c) \/ c = a)
    <3>1. s \in Seq(Actors) /\ DOMAIN t = 1 .. Len(s) + 1 /\ t[Len(s) + 1] = a
      BY <1>2, <2>1, <2>2
    <3>2. \A i \in 1 .. Len(s) : t[i] = s[i]
      BY <1>2, <2>1, <2>2
    <3>3. DOMAIN s = 1 .. Len(s) /\ Len(s) \in Nat
      BY <3>1
    <3>4. Len(s) + 1 \in DOMAIN t
      BY <3>1, <3>3
    <3>5. ASSUME NEW i \in DOMAIN t, t[i] = c
          PROVE  (\E k \in DOMAIN s : s[k] = c) \/ c = a
      <4>1. i = Len(s) + 1 \/ i \in 1 .. Len(s)
        BY <3>1, <3>3, <3>5
      <4> QED
        BY <3>1, <3>2, <3>3, <3>5, <4>1
    <3>6. ASSUME NEW k \in DOMAIN s, s[k] = c
          PROVE  \E i \in DOMAIN t : t[i] = c
      BY <3>1, <3>2, <3>3, <3>6
    <3> QED
      BY <3>1, <3>4, <3>5, <3>6
  <2> QED
    BY <1>1, <2>1, <2>2, <2>3 DEF IsIn
<1> QED
  BY <1>1, <1>3

LEMMA JoinedSound ==
  ASSUME NEW seats, NEW g \in Games, GameSound(g, seats), NEW a \in Actors,
         CanAcceptPlayer(g), ~IsIn(g, a), a \in seats
  PROVE  GameSound(Joined(g, a), seats)
<1> DEFINE h == Joined(g, a)
<1>1. /\ h.players = Append(g.players, a) /\ h.cards = Append(g.cards, <<>>)
      /\ h.status = IF Len(g.players) + 1 = Seats THEN "Running" ELSE g.status
      /\ h.drawSeq = g.drawSeq /\ h.winners = g.winners
  BY JoinedFields
<1> HIDE DEF h
<1>2. /\ g.players \in Seq(Actors) /\ g.cards \in Seq(Cards \cup {<<>>})
      /\ Len(g.players) \in Nat /\ Len(g.players) < 2
      /\ g.status = "WaitingForPlayers" /\ g.winners = <<>> /\ Len(g.cards) = Len(g.players)
  BY DEF Games, GameSound, CanAcceptPlayer, Seats
<1>3. /\ Len(h.players) = Len(g.players) + 1 /\ Len(h.cards) = Len(h.players)
      /\ DOMAIN h.players = 1 .. Len(g.players) + 1 /\ DOMAIN h.cards = 1 .. Len(g.players) + 1
      /\ h.players[Len(g.players) + 1] = a /\ h.cards[Len(g.players) + 1] = <<>>
  BY <1>1, <1>2
<1>4. \A i \in 1 .. Len(g.players) : h.players[i] = g.players[i] /\ h.cards[i] = g.cards[i]
  BY <1>1, <1>2
<1>5. \A i \in 1 .. Len(g.players) + 1 : i = Len(g.players) + 1 \/ i \in 1 .. Len(g.players)
  BY <1>2
<1>6. DOMAIN g.players = 1 .. Len(g.players) /\ DOMAIN g.cards = 1 .. Len(g.players)
  BY <1>2
<1>7. \A i \in DOMAIN h.players : h.players[i] \in seats
  BY <1>3, <1>4, <1>5, <1>6 DEF GameSound
<1>8. \A i, j \in DOMAIN h.players : h.players[i] = h.players[j] => i = j
  <2> SUFFICES ASSUME NEW i \in DOMAIN h.players, NEW j \in DOMAIN h.players,
                      h.players[i] = h.players[j]
               PROVE  i = j
    OBVIOUS
  <2>1. \A k \in 1 .. Len(g.players) : h.players[k] # a
    BY <1>4, <1>6 DEF IsIn
  <2>2. CASE i \in 1 .. Len(g.players) /\ j \in 1 .. Len(g.players)
    BY <1>4, <1>6, <2>2 DEF GameSound
  <2> QED
    BY <1>3, <1>5, <2>1, <2>2
<1>9. \A i \in DOMAIN h.cards : h.cards[i] = <<>> \/ ValidCard(h.cards[i])
  BY <1>3, <1>4, <1>5, <1>6 DEF GameSound
<1>10. h.status = "WaitingForPlayers" <=> Len(h.players) < Seats
  BY <1>1, <1>2, <1>3 DEF Seats
<1>11. h.status # "Finished" /\ h.winners = <<>> /\ h.drawSeq <= MaxNumber /\ Len(h.players) <= Seats
  BY <1>1, <1>2, <1>3 DEF GameSound, Seats
<1> QED
  BY <1>3, <1>7, <1>8, <1>9, <1>10, <1>11 DEF GameSound, h

LEMMA SubmittedType ==
  ASSUME NEW g \in Games, NEW a \in Actors, NEW card \in Cards
  PROVE  /\ Submitted(g, a, card) \in Games
         /\ Len(Submitted(g, a, card).cards) = Len(g.cards)
         /\ \A i \in DOMAIN g.cards :
              Submitted(g, a, card).cards[i] = IF g.players[i] = a THEN card ELSE g.cards[i]
<1>1. PICK n \in Nat : n = Len(g.cards) /\ DOMAIN g.cards = 1 .. n
  BY DEF Games
<1>2. PICK s : s = [i \in DOMAIN g.cards |-> IF g.players[i] = a THEN card ELSE g.cards[i]]
  OBVIOUS
<1>3. s \in Seq(Cards \cup {<<>>}) /\ Len(s) = n
  <2>1. \A i \in 1 .. n : g.cards[i] \in Cards \cup {<<>>}
    BY <1>1 DEF Games
  <2>2. s \in [1 .. n -> Cards \cup {<<>>}]
    BY <1>1, <1>2, <2>1
  <2> QED
    BY <2>2
<1>4. Submitted(g, a, card) = [g EXCEPT !.cards = s]
  BY <1>2 DEF Submitted, Games
<1>5. Submitted(g, a, card) \in Games /\ Submitted(g, a, card).cards = s
  BY <1>3, <1>4 DEF Games
<1>6. \A i \in DOMAIN g.cards : s[i] = IF g.players[i] = a THEN card ELSE g.cards[i]
  BY <1>2
<1> QED
  BY <1>1, <1>3, <1>5, <1>6

LEMMA SubmittedSound ==
  ASSUME NEW seats, NEW g \in Games, GameSound(g, seats), NEW a \in Actors, NEW card \in Cards,
         ValidCard(card)
  PROVE  /\ GameSound(Submitted(g, a, card), seats)
         /\ Submitted(g, a, card).players = g.players
         /\ Submitted(g, a, card).status = g.status
         /\ Submitted(g, a, card).drawSeq = g.drawSeq
         /\ Submitted(g, a, card).winners = g.winners
<1>1. PICK h : h = Submitted(g, a, card)
  OBVIOUS
<1>2. h \in Games /\ Len(h.cards) = Len(g.cards)
  BY <1>1, SubmittedType
<1>3. \A i \in DOMAIN g.cards : h.cards[i] = IF g.players[i] = a THEN card ELSE g.cards[i]
  BY <1>1, SubmittedType
<1>4. DOMAIN h.cards = DOMAIN g.cards
  BY <1>2 DEF Games
<1>5. /\ h.players = g.players /\ h.status = g.status
      /\ h.drawSeq = g.drawSeq /\ h.winners = g.winners
  BY <1>1 DEF Submitted, Games
<1>6. \A i \in DOMAIN h.cards : h.cards[i] = <<>> \/ ValidCard(h.cards[i])
  BY <1>3, <1>4 DEF GameSound
<1>7. GameSound(h, seats)
  BY <1>2, <1>5, <1>6 DEF GameSound
<1> QED
  BY <1>1, <1>5, <1>7

LEMMA LinesFinite == IsFiniteSet(Lines) /\ Lines # {}
<1>1. PICK n \in Int : n = 9
  OBVIOUS
<1>2. IsFiniteSet(1 .. n)
  BY FS_Interval
<1>3. IsFiniteSet(SUBSET (1 .. n))
  BY <1>2, FS_SUBSET
<1>4. Lines \subseteq SUBSET (1 .. n)
  BY <1>1 DEF Lines
<1>5. {1, 2, 3} \in Lines
  BY DEF Lines
<1> QED
  BY <1>3, <1>4, <1>5, FS_Subset

\* Once every number is drawn every card has a line.
LEMMA AllMarked ==
  ASSUME NEW card, ValidCard(card)
  PROVE  CompletedLines(card, MaxNumber) > 0
<1>1. Marked(card, MaxNumber) = Cells
  BY DEF Marked, ValidCard
<1>2. {l \in Lines : l \subseteq Marked(card, MaxNumber)} = Lines
  BY <1>1 DEF Lines, Cells
<1>3. Cardinality(Lines) \in Nat /\ Cardinality(Lines) # 0
  BY LinesFinite, FS_CardinalityType, FS_EmptySet
<1>4. CompletedLines(card, MaxNumber) = Cardinality(Lines)
  BY <1>2, Zenon DEF CompletedLines
<1> QED
  BY <1>3, <1>4

\* A draw of a game both players have a card for: it is over when somebody won,
\* and with the last number somebody did.
LEMMA DrawnFields ==
  ASSUME NEW seats, NEW g \in Games, GameSound(g, seats), ShouldDraw(g), CanDraw(g)
  PROVE  LET h == Drawn(g)
         IN  /\ h \in Games /\ GameSound(h, seats)
             /\ h.players = g.players /\ h.cards = g.cards
             /\ h.drawSeq = g.drawSeq + 1
             /\ h.status = "Finished" <=> h.winners # <<>>
             /\ \A i \in DOMAIN h.winners : IsIn(g, h.winners[i])
<1> DEFINE n == g.drawSeq + 1
           Winner(i) == IF CompletedLines(g.cards[i], n) > 0 THEN <<g.players[i]>> ELSE <<>>
           won == Winner(1) \o Winner(2)
           h == Drawn(g)
<1> SUFFICES /\ h \in Games /\ GameSound(h, seats)
             /\ h.players = g.players /\ h.cards = g.cards
             /\ h.drawSeq = g.drawSeq + 1
             /\ h.status = "Finished" <=> h.winners # <<>>
             /\ \A i \in DOMAIN h.winners : IsIn(g, h.winners[i])
  OBVIOUS
<1>1. h = [g EXCEPT !.drawSeq = n, !.winners = won,
                    !.status = IF won # <<>> \/ n = MaxNumber THEN "Finished" ELSE @]
  BY DEF Drawn
<1>2. /\ g.players \in Seq(Actors) /\ Len(g.players) = 2 /\ Len(g.cards) = 2
      /\ g.cards \in Seq(Cards \cup {<<>>})
      /\ g.drawSeq \in Nat /\ g.drawSeq < MaxNumber /\ g.status = "Running"
  BY DEF Games, GameSound, ShouldDraw, CanDraw, Seats
<1>3. /\ DOMAIN g.players = 1 .. 2 /\ DOMAIN g.cards = 1 .. 2
      /\ g.players[1] \in Actors /\ g.players[2] \in Actors
  BY <1>2
<1>4. IsIn(g, g.players[1]) /\ IsIn(g, g.players[2])
  BY <1>3 DEF IsIn
<1>5. PICK w1 : w1 = Winner(1)
  OBVIOUS
<1>6. PICK w2 : w2 = Winner(2)
  OBVIOUS
<1>7. w1 \in {<<>>, <<g.players[1]>>} /\ w2 \in {<<>>, <<g.players[2]>>}
  BY <1>5, <1>6
<1>8. won = w1 \o w2
  BY <1>5, <1>6
<1>9. n = MaxNumber => w1 # <<>>
  <2> SUFFICES ASSUME n = MaxNumber PROVE w1 # <<>>
    OBVIOUS
  <2>1. g.cards[1] # <<>> /\ (g.cards[1] = <<>> \/ ValidCard(g.cards[1]))
    BY <1>3 DEF ShouldDraw, GameSound
  <2>2. CompletedLines(g.cards[1], MaxNumber) > 0
    BY <2>1, AllMarked
  <2> QED
    BY <1>5, <2>2
<1> HIDE DEF won, h, n, Winner
<1>10. won \in Seq(Actors) /\ \A i \in DOMAIN won : IsIn(g, won[i])
  <2>1. CASE w1 = <<>> /\ w2 = <<>>
    BY <1>8, <2>1
  <2>2. CASE w1 = <<g.players[1]>> /\ w2 = <<>>
    <3>1. won = <<g.players[1]>>
      BY <1>3, <1>8, <2>2
    <3> QED
      BY <1>3, <1>4, <3>1
  <2>3. CASE w1 = <<>> /\ w2 = <<g.players[2]>>
    <3>1. won = <<g.players[2]>>
      BY <1>3, <1>8, <2>3
    <3> QED
      BY <1>3, <1>4, <3>1
  <2>4. CASE w1 = <<g.players[1]>> /\ w2 = <<g.players[2]>>
    <3>1. <<g.players[1]>> \in Seq(Actors) /\ <<g.players[2]>> \in Seq(Actors)
      BY <1>3
    <3>2. PICK s \in Seq(Actors), t \in Seq(Actors) :
            s = <<g.players[1]>> /\ t = <<g.players[2]>>
      BY <3>1
    <3>3. won = s \o t /\ Len(s) = 1 /\ Len(t) = 1 /\ s[1] = g.players[1] /\ t[1] = g.players[2]
      BY <1>8, <2>4, <3>2
    <3>4. won \in Seq(Actors) /\ Len(won) = 2
      BY <3>2, <3>3
    <3>5. won[1] = s[1] /\ won[2] = t[1]
      BY <3>2, <3>3
    <3>6. DOMAIN won = 1 .. 2
      BY <3>4
    <3>7. \A i \in DOMAIN won : i = 1 \/ i = 2
      BY <3>6
    <3> QED
      BY <1>4, <3>3, <3>4, <3>5, <3>7
  <2> QED
    BY <1>7, <2>1, <2>2, <2>3, <2>4
<1>11. n = MaxNumber => won # <<>>
  <2>1. w1 = <<g.players[1]>> => won # <<>>
    <3>1. <<g.players[1]>> \in Seq(Actors) /\ w2 \in Seq(Actors)
      <4>1. <<g.players[1]>> \in Seq(Actors) /\ <<g.players[2]>> \in Seq(Actors)
        BY <1>3
      <4>2. <<>> \in Seq(Actors)
        OBVIOUS
      <4> QED
        BY <1>7, <4>1, <4>2
    <3>2. PICK s \in Seq(Actors) : s = <<g.players[1]>> /\ Len(s) = 1
      BY <3>1
    <3>3. w1 = s => Len(won) = 1 + Len(w2) /\ Len(w2) \in Nat
      BY <1>8, <3>1, <3>2
    <3> QED
      BY <3>2, <3>3
  <2> QED
    BY <1>7, <1>9, <2>1
<1>12. n \in Nat \ {0} /\ n <= MaxNumber
  BY <1>2, NumberAssumption DEF n
<1>13. /\ h.players = g.players /\ h.cards = g.cards /\ h.drawSeq = n /\ h.winners = won
       /\ h.status = IF won # <<>> THEN "Finished" ELSE "Running"
  BY <1>1, <1>2, <1>11 DEF Games
<1>14. h \in Games
  BY <1>1, <1>10, <1>12 DEF Games
<1>15. GameSound(h, seats)
  BY <1>2, <1>12, <1>13 DEF GameSound, Seats
<1>16. h.status = "Finished" <=> h.winners # <<>>
  BY <1>13
<1>17. h.drawSeq = g.drawSeq + 1
  BY <1>13 DEF n
<1> QED
  BY <1>10, <1>13, <1>14, <1>15, <1>16, <1>17

-----------------------------------------------------------------------------
(* The types of the variables *)

LEMMA NoRoomType ==
  ASSUME NEW n \in Nat
  PROVE  /\ [NoRoom EXCEPT !.life = n] \in RoomStates
         /\ [NoRoom EXCEPT !.state = "open", !.life = n] \in RoomStates
<1>1. NoRoom \in RoomStates
  BY NewGameSound DEF NoRoom, RoomStates
<1> QED
  BY <1>1 DEF RoomStates

LEMMA TypesInit == Init => Types
<1> SUFFICES ASSUME Init PROVE Types
  OBVIOUS
<1>1. NoRoom \in RoomStates
  BY NewGameSound DEF NoRoom, RoomStates
<1>2. NotWatching \in Observers
  BY DEF NotWatching, Observers
<1>3. IsFiniteSet(played)
  BY FS_EmptySet DEF Init
<1> QED
  BY <1>1, <1>2, <1>3 DEF Init, Types, Stages

\* The players, on their way into a room and out of it.
LEMMA ActorTypes ==
  ASSUME Types, NEW a \in Actors,
         \/ Match(a) \/ EnsureRoom(a) \/ MatchFails(a) \/ OnActorJoin(a) \/ OnActorJoined(a)
         \/ Resume(a) \/ FetchFails(a) \/ BackAtEntry(a) \/ Authenticate(a)
         \/ \E card \in Cards : SubmitCard(a, card)
  PROVE  Types' /\ UNCHANGED <<record, played, watchVars>>
<1>1. /\ stage \in [Actors -> Stages] /\ goal \in [Actors -> Rooms \cup {None}]
      /\ room \in [Rooms -> RoomStates]
      /\ \A r \in Rooms : room[r] \in RoomStates /\ room[r].game \in Games
  BY DEF Types, RoomStates
<1>2. ASSUME UNCHANGED <<record, played, watchVars, book, given>>,
             stage' \in [Actors -> Stages], goal' \in [Actors -> Rooms \cup {None}],
             room' \in [Rooms -> RoomStates]
      PROVE  Types'
  BY <1>2 DEF Types, watchVars
<1>3. CASE Match(a)
  <2>1. ASSUME NEW r \in Rooms, NEW seats \in SUBSET Actors, Give(a, r, seats)
        PROVE  /\ book' \in [room : Rooms \cup {None}, seats : SUBSET Actors]
               /\ given' \in [Rooms -> SUBSET Actors] /\ goal' \in [Actors -> Rooms \cup {None}]
    BY <2>1 DEF Give, Types
  <2>2. book.room \in Rooms \cup {None} /\ book.seats \in SUBSET Actors
    BY DEF Types
  <2>3. \E r \in Rooms : \E seats \in SUBSET Actors : Give(a, r, seats)
    <3>1. CASE book.room # None /\ Give(a, book.room, book.seats \cup {a})
      <4>1. book.room \in Rooms /\ book.seats \cup {a} \in SUBSET Actors
        BY <2>2, <3>1
      <4> QED
        BY <3>1, <4>1
    <3>2. CASE \E r \in Rooms : Give(a, r, {a})
      <4>1. {a} \in SUBSET Actors
        OBVIOUS
      <4> QED
        BY <3>2, <4>1
    <3> QED
      BY <1>3, <3>1, <3>2 DEF Match, Reserve
  <2>4. stage' \in [Actors -> Stages] /\ UNCHANGED <<room, record, played, watchVars>>
    BY <1>1, <1>3 DEF Match, Stages
  <2> QED
    BY <2>1, <2>3, <2>4 DEF Types, watchVars
<1>4. CASE EnsureRoom(a)
  <2>1. stage' \in [Actors -> Stages]
    BY <1>1, <1>4 DEF EnsureRoom, Stages
  <2>2. CASE goal[a] \in Rooms
    <3>1. room[goal[a]].life + 1 \in Nat
      BY <1>1, <2>2 DEF RoomStates
    <3>2. room' \in [Rooms -> RoomStates]
      BY <1>1, <1>4, <2>2, <3>1, NoRoomType DEF EnsureRoom
    <3> QED
      BY <1>1, <1>2, <1>4, <2>1, <3>2 DEF EnsureRoom, matchVars
  <2>3. CASE goal[a] \notin Rooms
    <3>1. room' \in [Rooms -> RoomStates]
      BY <1>1, <1>4, <2>3 DEF EnsureRoom
    <3> QED
      BY <1>1, <1>2, <1>4, <2>1, <3>1 DEF EnsureRoom, matchVars
  <2> QED
    BY <2>2, <2>3
<1>5. CASE MatchFails(a)
  <2>1. stage' \in [Actors -> Stages] /\ goal' \in [Actors -> Rooms \cup {None}]
    BY <1>1, <1>5 DEF MatchFails, Turned, Stages
  <2> QED
    BY <1>1, <1>2, <1>5, <2>1 DEF MatchFails, matchVars
<1>6. CASE OnActorJoin(a)
  <2>1. stage' \in [Actors -> Stages] /\ goal' \in [Actors -> Rooms \cup {None}]
    BY <1>1, <1>6 DEF OnActorJoin, Turned, Stages
  <2>2. room' \in [Rooms -> RoomStates]
    <3>1. CASE room' = room
      BY <1>1, <3>1
    <3>2. CASE room' = [room EXCEPT ![goal[a]].pending = @ \cup {a}]
      <4>1. CASE goal[a] \in Rooms
        <5>1. PICK v : v = [room[goal[a]] EXCEPT !.pending = @ \cup {a}]
          OBVIOUS
        <5>2. v \in RoomStates
          BY <1>1, <4>1, <5>1 DEF RoomStates
        <5>3. room' = [room EXCEPT ![goal[a]] = v]
          BY <1>1, <3>2, <4>1, <5>1
        <5> QED
          BY <1>1, <5>2, <5>3
      <4>2. CASE goal[a] \notin Rooms
        BY <1>1, <3>2, <4>2
      <4> QED
        BY <4>1, <4>2
    <3> QED
      BY <1>6, <3>1, <3>2 DEF OnActorJoin
  <2> QED
    BY <1>2, <1>6, <2>1, <2>2 DEF OnActorJoin, matchVars
<1>7. CASE OnActorJoined(a)
  <2>1. stage' \in [Actors -> Stages]
    BY <1>1, <1>7 DEF OnActorJoined, Stages
  <2> QED
    BY <1>1, <1>2, <1>7, <2>1 DEF OnActorJoined, matchVars
<1>8. CASE Resume(a)
  <2>1. stage' \in [Actors -> Stages]
    BY <1>1, <1>8 DEF Resume, Stages
  <2>2. room' \in [Rooms -> RoomStates]
    <3>1. CASE goal[a] \notin Rooms
      BY <1>1, <1>8, <3>1 DEF Resume
    <3>2. CASE goal[a] \in Rooms
      <4>1. PICK still \in BOOLEAN :
              still = (a \in room[goal[a]].pending /\ CanAcceptPlayer(room[goal[a]].game))
        OBVIOUS
      <4>2. PICK v : v = [room[goal[a]] EXCEPT !.pending = @ \ {a},
                                             !.actors = IF still THEN @ \cup {a} ELSE @,
                                             !.game = IF still THEN Joined(@, a) ELSE @]
        OBVIOUS
      <4>3. v \in RoomStates
        BY <1>1, <3>2, <4>2, JoinedType, ZenonT(60) DEF RoomStates
      <4>4. room' = [room EXCEPT ![goal[a]] = v]
        BY <1>1, <1>8, <3>2, <4>1, <4>2 DEF Resume
      <4> QED
        BY <1>1, <4>3, <4>4
    <3> QED
      BY <3>1, <3>2
  <2> QED
    BY <1>1, <1>2, <1>8, <2>1, <2>2 DEF Resume, matchVars
<1>9. CASE BackAtEntry(a) \/ Authenticate(a)
  <2>1. stage' \in [Actors -> Stages] /\ goal' \in [Actors -> Rooms \cup {None}]
    BY <1>1, <1>9 DEF BackAtEntry, Authenticate, Stages
  <2> QED
    BY <1>1, <1>2, <1>9, <2>1 DEF BackAtEntry, Authenticate, matchVars
<1>12. CASE FetchFails(a)
  <2>1. stage' \in [Actors -> Stages]
    BY <1>1, <1>12 DEF FetchFails, Stages
  <2>2. room' \in [Rooms -> RoomStates]
    <3>1. CASE goal[a] \notin Rooms
      BY <1>1, <1>12, <3>1 DEF FetchFails
    <3>2. CASE goal[a] \in Rooms
      <4>1. PICK v : v = [room[goal[a]] EXCEPT !.pending = @ \ {a}]
        OBVIOUS
      <4>2. v \in RoomStates
        BY <1>1, <3>2, <4>1 DEF RoomStates
      <4>3. room' = [room EXCEPT ![goal[a]] = v]
        BY <1>1, <1>12, <3>2, <4>1 DEF FetchFails
      <4> QED
        BY <1>1, <4>2, <4>3
    <3> QED
      BY <3>1, <3>2
  <2> QED
    BY <1>1, <1>2, <1>12, <2>1, <2>2 DEF FetchFails, matchVars
<1>10. ASSUME NEW card \in Cards, SubmitCard(a, card) PROVE Types'
  <2>1. room' \in [Rooms -> RoomStates]
    <3>1. CASE goal[a] \notin Rooms
      BY <1>1, <1>10, <3>1 DEF SubmitCard
    <3>2. CASE goal[a] \in Rooms
      <4>1. PICK g : g = Submitted(room[goal[a]].game, a, card)
        OBVIOUS
      <4>2. g \in Games
        BY <1>1, <3>2, <4>1, SubmittedType
      <4>3. PICK v : v = [room[goal[a]] EXCEPT !.game = g]
        OBVIOUS
      <4>4. v \in RoomStates
        BY <1>1, <3>2, <4>2, <4>3 DEF RoomStates
      <4>5. room' = [room EXCEPT ![goal[a]] = v]
        BY <1>1, <1>10, <3>2, <4>1, <4>3 DEF SubmitCard
      <4> QED
        BY <1>1, <4>4, <4>5
    <3> QED
      BY <3>1, <3>2
  <2> QED
    BY <1>1, <1>2, <1>10, <2>1 DEF SubmitCard, matchVars
<1>11. UNCHANGED <<record, played, watchVars>>
  BY DEF Match, EnsureRoom, MatchFails, OnActorJoin, OnActorJoined, Resume, FetchFails,
         BackAtEntry, Authenticate, SubmitCard
<1> QED
  BY <1>3, <1>4, <1>5, <1>6, <1>7, <1>8, <1>9, <1>10, <1>11, <1>12

\* A room of which one part changed.
LEMMA DrawTypes ==
  ASSUME Seating, NEW r \in Rooms, DrawTick(r)
  PROVE  Types'
<1>1. PICK g, h : g = room[r].game /\ h = Drawn(g)
  OBVIOUS
<1>2. /\ room \in [Rooms -> RoomStates] /\ room[r] \in RoomStates /\ g \in Games
      /\ GameSound(g, given[r]) /\ ShouldDraw(g) /\ CanDraw(g)
  BY <1>1 DEF Seating, Types, RoomStates, RoomSound, DrawTick
<1>3. h \in Games /\ h.drawSeq = g.drawSeq + 1
  BY <1>1, <1>2, DrawnFields
<1>4. PICK order \in room[r].actors \X room[r].actors :
            room' = [room EXCEPT ![r] = AfterDraw(r, h, order)]
  BY <1>1 DEF DrawTick
<1>5. order \in Seq(Actors)
  <2>1. room[r].actors \subseteq Actors
    BY <1>2 DEF RoomStates
  <2>2. PICK x \in room[r].actors, y \in room[r].actors : order = <<x, y>>
    BY <1>4
  <2> QED
    BY <2>1, <2>2
<1>8. AfterDraw(r, h, order) \in RoomStates
  BY <1>2, <1>3, <1>5 DEF RoomStates, AfterDraw
<1>10. room' \in [Rooms -> RoomStates]
  BY <1>2, <1>4, <1>8
<1>11. PICK g1 : g1 = [room |-> r, life |-> room[r].life, drawSeq |-> h.drawSeq,
                       players |-> h.players, winners |-> h.winners]
  OBVIOUS
<1>12. g1 \in Outcomes
  BY <1>2, <1>3, <1>11 DEF Games, RoomStates, Outcomes
<1>13. played' = played \/ played' = played \cup {g1}
  BY <1>1, <1>11 DEF DrawTick
<1>14. played' \in SUBSET Outcomes /\ IsFiniteSet(played')
  <2>1. IsFiniteSet(played) /\ played \in SUBSET Outcomes
    BY DEF Seating, Types
  <2>2. IsFiniteSet(played \cup {g1})
    BY <2>1, FS_AddElement
  <2> QED
    BY <1>12, <1>13, <2>1, <2>2
<1>15. PICK e : e = [room |-> r, life |-> room[r].life, drawSeq |-> h.drawSeq]
  OBVIOUS
<1>16. e \in [room : Rooms, life : Nat, drawSeq : Nat]
  BY <1>2, <1>3, <1>15 DEF Games, RoomStates
<1>17. rewards' = rewards \/ rewards' = rewards \cup {e}
  BY <1>1, <1>15 DEF DrawTick, Publish
<1>18. rewards' \in SUBSET [room : Rooms, life : Nat, drawSeq : Nat]
  BY <1>16, <1>17 DEF Seating, Types
<1> QED
  BY <1>10, <1>14, <1>18 DEF DrawTick, Seating, Types, matchVars

LEMMA RoomTypes ==
  ASSUME Seating, NEW r \in Rooms,
         DrawTick(r) \/ ReportResult(r) \/ Left(r) \/ Closed(r) \/ Observe(r)
  PROVE  Types'
<1>1. /\ room \in [Rooms -> RoomStates] /\ room[r] \in RoomStates
      /\ record \in [Actors -> [wins : Nat, losses : Nat]]
      /\ stage \in [Actors -> Stages] /\ watching \in Observers /\ Types
  BY DEF Seating, Types
<1>2. room[r].leaving # <<>> => Leaver(r) \in Actors /\ Tail(room[r].leaving) \in Seq(Actors)
  BY <1>1 DEF RoomStates, Leaver
<1>3. CASE ReportResult(r)
  <2>1. PICK v : v = [room[r] EXCEPT !.reported = TRUE]
    OBVIOUS
  <2>2. v \in RoomStates /\ room' = [room EXCEPT ![r] = v]
    BY <1>1, <1>3, <2>1 DEF ReportResult, RoomStates
  <2>3. PICK b : b = Leaver(r)
    OBVIOUS
  <2>4. b \in Actors /\ record[b] \in [wins : Nat, losses : Nat]
    BY <1>1, <1>2, <1>3, <2>3 DEF ReportResult
  <2>5. PICK n : n = IF Won(room[r].game, b) THEN [record[b] EXCEPT !.wins = @ + 1]
                                             ELSE [record[b] EXCEPT !.losses = @ + 1]
    OBVIOUS
  <2>6. n \in [wins : Nat, losses : Nat]
    BY <2>4, <2>5
  <2>7. record' = [record EXCEPT ![b] = n]
    BY <1>1, <1>3, <2>3, <2>4, <2>5 DEF ReportResult
  <2>8. room' \in [Rooms -> RoomStates] /\ record' \in [Actors -> [wins : Nat, losses : Nat]]
    BY <1>1, <2>2, <2>4, <2>6, <2>7
  <2>9. UNCHANGED <<book, given, stage, goal, played, watching, rewards>>
    BY <1>3 DEF ReportResult, matchVars, watchVars
  <2> QED
    BY <1>1, <2>8, <2>9 DEF Types
<1>4. CASE Left(r)
  <2>1. PICK s : s = AfterLeave(r, room[r].actors \ {Leaver(r)})
    OBVIOUS
  <2>2. PICK v : v = [room[r] EXCEPT !.actors = room[r].actors \ {Leaver(r)}, !.leaving = Tail(@),
                                     !.reported = FALSE, !.state = s]
    OBVIOUS
  <2>3. v \in RoomStates
    BY <1>1, <1>2, <1>4, <2>1, <2>2 DEF Left, AfterLeave, RoomStates
  <2>4. room' = [room EXCEPT ![r] = v]
    BY <1>1, <1>4, <2>1, <2>2 DEF Left
  <2>5. stage' \in [Actors -> Stages]
    BY <1>1, <1>2, <1>4 DEF Left, Stages
  <2>6. UNCHANGED <<book, given, goal, record, played, watching, rewards>>
    BY <1>4 DEF Left, matchVars, watchVars
  <2>7. room' \in [Rooms -> RoomStates]
    BY <1>1, <2>3, <2>4
  <2> QED
    BY <1>1, <2>5, <2>6, <2>7 DEF Types
<1>5. CASE Closed(r)
  <2>1. room' \in [Rooms -> RoomStates]
    <3>1. room[r].life \in Nat
      BY <1>1 DEF RoomStates
    <3> QED
      BY <1>1, <1>5, <3>1, NoRoomType DEF Closed
  <2> QED
    BY <1>1, <1>5, <2>1 DEF Closed, Types, matchVars, watchVars
<1>6. CASE Observe(r)
  <2>1. watching' \in Observers
    <3>1. NotWatching \in Observers
      BY DEF NotWatching, Observers
    <3> QED
      BY <1>6, <3>1 DEF Observe, Observers
  <2> QED
    BY <1>1, <1>6, <2>1 DEF Observe, Types, matchVars
<1> QED
  BY <1>3, <1>4, <1>5, <1>6, DrawTypes

LEMMA AnnounceType ==
  ASSUME NEW w \in Observers, NEW life \in Nat, NEW n \in Nat
  PROVE  /\ Announce(w, life, n) \in Observers
         /\ Announce(w, life, n) =
              IF w.announced = n THEN w
              ELSE [w EXCEPT !.announced = n, !.told = Append(w.told, life)]
<1>1. Append(w.told, life) \in Seq(Nat)
  BY DEF Observers
<1> QED
  BY <1>1 DEF Announce, Observers

ObserverActs == AskObservation \/ Observed \/ StopObserving \/ \E e \in rewards : OnRewardAcquired(e)

LEMMA ObserverTypes ==
  ASSUME Seating, Hearing, ObserverActs
  PROVE  Types' /\ UNCHANGED <<matchVars, stage, goal, room, record, played, watches>>
<1>1. /\ room \in [Rooms -> RoomStates] /\ watching \in Observers /\ Types
      /\ rewards \in SUBSET [room : Rooms, life : Nat, drawSeq : Nat]
  BY DEF Seating, Types
<1>2. UNCHANGED <<matchVars, stage, goal, room, record, played, watches>>
  BY DEF ObserverActs, AskObservation, Observed, StopObserving, OnRewardAcquired
<1>3. ASSUME watching' \in Observers, rewards' \subseteq rewards PROVE Types'
  BY <1>1, <1>2, <1>3 DEF Types, matchVars
<1>4. CASE AskObservation
  <2>1. watching.room \in Rooms
    BY <1>1, <1>4 DEF AskObservation, Hearing, Observers
  <2>2. room[watching.room].life \in Nat /\ room[watching.room].game.drawSeq \in Nat
    BY <1>1, <2>1 DEF RoomStates, Games
  <2>3. PICK open : open = (room[watching.room].state # "none")
    OBVIOUS
  <2>4. watching' = [watching EXCEPT !.stage = "asked",
           !.seen = IF open THEN room[watching.room].life ELSE 0,
           !.reward = IF open /\ room[watching.room].game.winners # <<>>
                      THEN room[watching.room].game.drawSeq ELSE 0]
    BY <1>4, <2>3 DEF AskObservation
  <2>5. watching' \in Observers
    BY <1>1, <2>2, <2>4 DEF Observers
  <2> QED
    BY <1>3, <1>4, <2>5 DEF AskObservation
<1>5. CASE Observed
  <2>1. PICK w : w = [watching EXCEPT !.stage = "in"]
    OBVIOUS
  <2>2. w \in Observers /\ w.seen \in Nat /\ w.reward \in Nat
    BY <1>1, <2>1 DEF Observers
  <2>3. watching' = IF w.reward # 0 THEN Announce(w, w.seen, w.reward) ELSE w
    BY <1>5, <2>1 DEF Observed
  <2>4. Announce(w, w.seen, w.reward) \in Observers
    BY <2>2, AnnounceType
  <2> QED
    BY <1>3, <1>5, <2>2, <2>3, <2>4 DEF Observed
<1>6. CASE StopObserving
  <2>1. NotWatching \in Observers
    BY DEF NotWatching, Observers
  <2> QED
    BY <1>3, <1>6, <2>1 DEF StopObserving
<1>7. ASSUME NEW e \in rewards, OnRewardAcquired(e) PROVE Types'
  <2>1. e.life \in Nat /\ e.drawSeq \in Nat
    BY <1>1
  <2> QED
    BY <1>1, <1>3, <1>7, <2>1, AnnounceType DEF OnRewardAcquired
<1> QED
  BY <1>2, <1>4, <1>5, <1>6, <1>7 DEF ObserverActs

-----------------------------------------------------------------------------
(* Two actors for each room *)

LEMMA AFewMore ==
  ASSUME NEW S, Few(S), NEW a, a \in S \/ Cardinality(S) < Seats
  PROVE  Few(S \cup {a})
<1>1. Cardinality(S) \in Nat /\ IsFiniteSet(S)
  BY FS_CardinalityType DEF Few
<1>2. CASE a \in S
  <2>1. S \cup {a} = S
    BY <1>2
  <2> QED
    BY <2>1
<1>3. CASE a \notin S
  <2>1. IsFiniteSet(S \cup {a}) /\ Cardinality(S \cup {a}) = Cardinality(S) + 1
    BY <1>1, <1>3, FS_AddElement
  <2> QED
    BY <1>1, <1>3, <2>1 DEF Few, Seats
<1> QED
  BY <1>2, <1>3

LEMMA OneIsFew == \A a : Few({a})
<1> SUFFICES ASSUME NEW a PROVE Few({a})
  OBVIOUS
<1>1. IsFiniteSet({a}) /\ Cardinality({a}) = 1
  BY FS_Singleton
<1> QED
  BY <1>1 DEF Few, Seats

\* Three distinct actors do not fit.
LEMMA NoThird ==
  ASSUME NEW S, Few(S), NEW a \in S, NEW b \in S, NEW c \in S, a # b, b # c, a # c
  PROVE  FALSE
<1>1. IsFiniteSet({a}) /\ Cardinality({a}) = 1
  BY FS_Singleton
<1>2. IsFiniteSet({a} \cup {b}) /\ Cardinality({a} \cup {b}) = 2
  BY <1>1, FS_AddElement
<1>3. Cardinality(({a} \cup {b}) \cup {c}) = 3
  BY <1>2, FS_AddElement
<1>4. Cardinality(({a} \cup {b}) \cup {c}) <= Cardinality(S)
  BY FS_Subset DEF Few
<1>5. Cardinality(S) \in Nat
  BY FS_CardinalityType DEF Few
<1> QED
  BY <1>3, <1>4, <1>5 DEF Few, Seats

\* An actor with a seat who does not play yet finds room in the game.
LEMMA StillRoom ==
  ASSUME NEW seats, Few(seats), NEW g \in Games, GameSound(g, seats), NEW a \in seats, ~IsIn(g, a)
  PROVE  CanAcceptPlayer(g)
<1> SUFFICES ASSUME ~CanAcceptPlayer(g) PROVE FALSE
  OBVIOUS
<1>1. Len(g.players) = 2
  <2>1. g.players \in Seq(Actors)
    BY DEF Games
  <2>2. Len(g.players) \in Nat
    BY <2>1
  <2> QED
    <3>1. Len(g.players) <= Seats
      BY DEF GameSound
    <3>2. ~(Len(g.players) < Seats)
      BY DEF CanAcceptPlayer
    <3>3. PICK n \in Nat : n = Len(g.players)
      BY <2>2
    <3>4. n <= 2 /\ ~(n < 2)
      BY <3>1, <3>2, <3>3 DEF Seats
    <3>5. n = 2
      BY <3>4
    <3> QED
      BY <3>3, <3>5
<1>2. DOMAIN g.players = 1 .. 2 /\ 1 \in 1 .. 2 /\ 2 \in 1 .. 2
  BY <1>1 DEF Games
<1>3. g.players[1] \in seats /\ g.players[2] \in seats /\ g.players[1] # g.players[2]
  BY <1>2 DEF GameSound
<1>4. g.players[1] # a /\ g.players[2] # a
  BY <1>2 DEF IsIn
<1> QED
  BY <1>3, <1>4, NoThird

\* More seats do not hurt a game.
LEMMA MoreSeats ==
  ASSUME NEW s, NEW t, s \subseteq t, NEW g, GameSound(g, s)
  PROVE  GameSound(g, t)
BY DEF GameSound

\* Nobody but the actors of B changed, and nothing but room r.
LEMMA StepSeats ==
  ASSUME Seating, Types', BookSound', NEW r \in Rooms, NEW B \in SUBSET Actors,
         \A q \in Rooms : given[q] \subseteq given'[q],
         \A a \in Actors \ B : stage'[a] = stage[a] /\ goal'[a] = goal[a],
         \A q \in Rooms \ {r} : room'[q] = room[q] /\ B \cap room[q].actors = {},
         RoomSound(r)', \A a \in B : ActorSound(a)',
         \A a \in Actors \ B : IsIn(room'[r].game, a) => IsIn(room[r].game, a)
  PROVE  Seating'
<1>1. ASSUME NEW q \in Rooms, q # r PROVE RoomSound(q)'
  <2>1. RoomSound(q) /\ room[q].actors \subseteq Actors
    BY DEF Seating, Types, RoomStates
  <2>2. room'[q] = room[q] /\ given[q] \subseteq given'[q] /\ B \cap room[q].actors = {}
    BY <1>1
  <2>3. \A a \in room[q].actors : stage'[a] = stage[a] /\ goal'[a] = goal[a]
    BY <2>1, <2>2
  <2>4. GameSound(room[q].game, given'[q])
    BY <2>1, <2>2, MoreSeats DEF RoomSound
  <2> QED
    BY <2>1, <2>2, <2>3, <2>4 DEF RoomSound
<1>2. ASSUME NEW a \in Actors \ B PROVE ActorSound(a)'
  <2>1. /\ ActorSound(a) /\ stage'[a] = stage[a] /\ goal'[a] = goal[a]
        /\ goal[a] \in Rooms \cup {None}
    BY DEF Seating, Types
  <2>2. goal[a] \in Rooms => (IsIn(room'[goal[a]].game, a) => IsIn(room[goal[a]].game, a))
    OBVIOUS
  <2>3. stage[a] \in {"admitted", "fetching"} => goal[a] \in Rooms
    BY <2>1 DEF ActorSound
  <2> QED
    BY <2>1, <2>2, <2>3 DEF ActorSound
<1>3. \A q \in Rooms : RoomSound(q)'
  BY <1>1
<1>4. \A a \in Actors : ActorSound(a)'
  BY <1>2
<1> QED
  BY <1>3, <1>4 DEF Seating

\* What is known of an actor who is not in his room, and of the others.
LEMMA Outside ==
  ASSUME Seating, NEW a \in Actors, stage[a] # "in", NEW q \in Rooms
  PROVE  a \notin room[q].actors
BY DEF Seating, RoomSound

LEMMA SeatedFacts ==
  ASSUME Seating
  PROVE  /\ stage \in [Actors -> Stages] /\ goal \in [Actors -> Rooms \cup {None}]
         /\ room \in [Rooms -> RoomStates] /\ Types /\ BookSound
         /\ \A r \in Rooms : RoomSound(r) /\ room[r] \in RoomStates /\ room[r].game \in Games
         /\ \A a \in Actors : ActorSound(a)
BY DEF Seating, Types, RoomStates

LEMMA MatchSeats ==
  ASSUME Seating, NEW a \in Actors, Match(a)
  PROVE  Seating'
<1>1. Types'
  BY ActorTypes DEF Seating
<1>2. /\ Types /\ BookSound /\ stage[a] = "entry" /\ UNCHANGED room
      /\ stage' = [stage EXCEPT ![a] = "reserved"]
      /\ book.room \in Rooms \cup {None} /\ book.seats \in SUBSET Actors
      /\ given \in [Rooms -> SUBSET Actors]
      /\ stage \in [Actors -> Stages] /\ goal \in [Actors -> Rooms \cup {None}]
  BY DEF Match, Seating, Types
<1>3. \E r \in Rooms : \E seats : Give(a, r, seats) /\ seats = given[r] \cup {a} /\ Few(seats)
  <2>1. CASE /\ book.room # None /\ (a \in book.seats \/ Cardinality(book.seats) < Seats)
             /\ Give(a, book.room, book.seats \cup {a})
    <3>1. book.room \in Rooms /\ given[book.room] = book.seats /\ Few(book.seats)
      BY <1>2, <2>1 DEF BookSound
    <3>2. Few(book.seats \cup {a})
      BY <2>1, <3>1, AFewMore
    <3> QED
      BY <2>1, <3>1, <3>2
  <2>2. CASE \E r \in Rooms : given[r] = {} /\ Give(a, r, {a})
    <3>1. PICK r \in Rooms : given[r] = {} /\ Give(a, r, {a})
      BY <2>2
    <3>2. Few({a}) /\ {a} = given[r] \cup {a}
      BY <3>1, OneIsFew
    <3> QED
      BY <3>1, <3>2
  <2> QED
    BY <2>1, <2>2 DEF Match, Reserve
<1>4. PICK r \in Rooms : \E seats : Give(a, r, seats) /\ seats = given[r] \cup {a} /\ Few(seats)
  BY <1>3
<1>5. PICK seats : Give(a, r, seats) /\ seats = given[r] \cup {a} /\ Few(seats)
  BY <1>4
<1>6. /\ book' = [room |-> r, seats |-> seats]
      /\ given' = [given EXCEPT ![r] = @ \cup {a}]
      /\ goal' = [goal EXCEPT ![a] = r]
  BY <1>5 DEF Give
<1>7. given'[r] = seats /\ \A q \in Rooms \ {r} : given'[q] = given[q]
  BY <1>2, <1>5, <1>6
<1>8. BookSound'
  BY <1>2, <1>5, <1>6, <1>7 DEF BookSound
<1>9. \A q \in Rooms : given[q] \subseteq given'[q]
  BY <1>5, <1>7
<1>10. stage'[a] = "reserved" /\ goal'[a] = r
  BY <1>2, <1>6
<1>11. \A c \in Actors \ {a} : stage'[c] = stage[c] /\ goal'[c] = goal[c]
  BY <1>2, <1>6
<1>12. ActorSound(a)'
  <2>1. a \in given'[r] /\ r # None
    BY <1>5, <1>7, BingoAssumption
  <2> QED
    BY <1>10, <2>1 DEF ActorSound
<1>13. \A q \in Rooms : a \notin room[q].actors
  BY <1>2, Outside
<1>14. RoomSound(r)'
  <2>1. RoomSound(r) /\ room[r].actors \subseteq Actors
    BY SeatedFacts DEF RoomStates
  <2>2. \A c \in room[r].actors : stage'[c] = stage[c] /\ goal'[c] = goal[c]
    BY <1>11, <1>13, <2>1
  <2>3. GameSound(room[r].game, given'[r]) /\ given[r] \subseteq given'[r]
    BY <1>9, <2>1, MoreSeats DEF RoomSound
  <2> QED
    BY <1>2, <2>1, <2>2, <2>3 DEF RoomSound
<1>15. PICK B \in SUBSET Actors : B = {a}
  OBVIOUS
<1>16. \A c \in Actors \ B : stage'[c] = stage[c] /\ goal'[c] = goal[c]
  BY <1>11, <1>15
<1>17. \A q \in Rooms \ {r} : room'[q] = room[q] /\ B \cap room[q].actors = {}
  BY <1>2, <1>13, <1>15
<1>18. \A c \in B : ActorSound(c)'
  BY <1>12, <1>15
<1>19. \A c \in Actors \ B : IsIn(room'[r].game, c) => IsIn(room[r].game, c)
  BY <1>2
<1> QED
  BY <1>1, <1>8, <1>9, <1>14, <1>16, <1>17, <1>18, <1>19, StepSeats

\* A step of one actor that leaves the reservations alone.
LEMMA OneSeat ==
  ASSUME Seating, Types', UNCHANGED <<book, given>>, NEW a \in Actors, NEW r \in Rooms,
         \A c \in Actors \ {a} : stage'[c] = stage[c] /\ goal'[c] = goal[c],
         \A q \in Rooms \ {r} : room'[q] = room[q] /\ a \notin room[q].actors,
         RoomSound(r)', ActorSound(a)',
         \A c \in Actors \ {a} : IsIn(room'[r].game, c) => IsIn(room[r].game, c)
  PROVE  Seating'
<1>1. PICK B \in SUBSET Actors : B = {a}
  OBVIOUS
<1>2. BookSound'
  BY SeatedFacts DEF BookSound
<1>3. \A c \in Actors \ B : stage'[c] = stage[c] /\ goal'[c] = goal[c]
  BY <1>1
<1>4. \A q \in Rooms \ {r} : room'[q] = room[q] /\ B \cap room[q].actors = {}
  BY <1>1
<1>5. \A c \in B : ActorSound(c)'
  BY <1>1
<1>6. \A q \in Rooms : given[q] \subseteq given'[q]
  OBVIOUS
<1>7. \A c \in Actors \ B : IsIn(room'[r].game, c) => IsIn(room[r].game, c)
  BY <1>1
<1> QED
  BY <1>2, <1>3, <1>4, <1>5, <1>6, <1>7, StepSeats

\* If moreover the rooms stay, nothing else is to be shown.
LEMMA OneMoves ==
  ASSUME Seating, Types', UNCHANGED <<book, given, room>>, NEW a \in Actors,
         \A c \in Actors \ {a} : stage'[c] = stage[c] /\ goal'[c] = goal[c],
         stage[a] # "in", ActorSound(a)'
  PROVE  Seating'
<1>1. ASSUME NEW q \in Rooms PROVE RoomSound(q)'
  <2>1. RoomSound(q) /\ room[q].actors \subseteq Actors /\ a \notin room[q].actors
    BY SeatedFacts, Outside DEF RoomStates
  <2> QED
    BY <2>1 DEF RoomSound
<1>2. ASSUME NEW c \in Actors, c # a PROVE ActorSound(c)'
  <2>1. ActorSound(c)
    BY DEF Seating
  <2> QED
    BY <1>2, <2>1 DEF ActorSound
<1>3. BookSound'
  BY SeatedFacts DEF BookSound
<1>4. \A q \in Rooms : RoomSound(q)'
  BY <1>1
<1>5. \A c \in Actors : ActorSound(c)'
  BY <1>2
<1> QED
  BY <1>3, <1>4, <1>5 DEF Seating

LEMMA EnsureSeats ==
  ASSUME Seating, NEW a \in Actors, EnsureRoom(a)
  PROVE  Seating'
<1>1. Types'
  BY ActorTypes DEF Seating
<1>2. PICK r : r = goal[a]
  OBVIOUS
<1>3. /\ stage[a] = "reserved" /\ stage' = [stage EXCEPT ![a] = "joining"]
      /\ room' = IF room[r].state = "none"
                 THEN [room EXCEPT ![r] = [NoRoom EXCEPT !.state = "open", !.life = room[r].life + 1]]
                 ELSE room
      /\ UNCHANGED <<book, given, goal>>
  BY <1>2 DEF EnsureRoom, matchVars
<1>4. /\ stage \in [Actors -> Stages] /\ room \in [Rooms -> RoomStates] /\ goal[a] \in Rooms \cup {None}
      /\ ActorSound(a)
  BY SeatedFacts
<1>5. r \in Rooms /\ a \in given[r]
  BY <1>2, <1>3, <1>4 DEF ActorSound
<1>6. \A c \in Actors \ {a} : stage'[c] = stage[c] /\ goal'[c] = goal[c]
  BY <1>3, <1>4
<1>7. \A q \in Rooms : a \notin room[q].actors
  BY <1>3, Outside
<1>8. ActorSound(a)'
  BY <1>2, <1>3, <1>4 DEF ActorSound
<1>9. CASE room[r].state = "none"
  <2>1. PICK v : v = [NoRoom EXCEPT !.state = "open", !.life = room[r].life + 1]
    OBVIOUS
  <2>2. /\ v.game = NewGame /\ v.actors = {} /\ v.pending = {} /\ v.leaving = <<>> /\ ~v.reported
        /\ v.state = "open"
    BY <2>1 DEF NoRoom
  <2>3. room'[r] = v /\ \A q \in Rooms \ {r} : room'[q] = room[q]
    BY <1>3, <1>4, <1>5, <1>9, <2>1
  <2>4. GameSound(NewGame, given[r]) /\ NewGame.players = <<>> /\ \A c : ~IsIn(NewGame, c)
    BY NewGameSound DEF NewGame, IsIn
  <2>5. RoomSound(r)'
    <3>1. given'[r] = given[r] /\ DOMAIN NewGame.players = {} /\ DOMAIN v.leaving = {}
      BY <1>3, <2>2, <2>4
    <3> QED
      BY <2>2, <2>3, <2>4, <3>1 DEF RoomSound
  <2>6. \A c : ~IsIn(room'[r].game, c)
    BY <2>2, <2>3, <2>4
  <2> QED
    BY <1>1, <1>3, <1>5, <1>6, <1>7, <1>8, <2>3, <2>5, <2>6, OneSeat
<1>10. CASE room[r].state # "none"
  BY <1>1, <1>3, <1>6, <1>8, <1>10, OneMoves
<1> QED
  BY <1>9, <1>10

LEMMA FailSeats ==
  ASSUME Seating, NEW a \in Actors,
         MatchFails(a) \/ OnActorJoined(a) \/ BackAtEntry(a) \/ Authenticate(a)
  PROVE  Seating'
<1>1. Types'
  BY ActorTypes DEF Seating
<1>2. /\ stage \in [Actors -> Stages] /\ goal \in [Actors -> Rooms \cup {None}]
      /\ ActorSound(a)
  BY SeatedFacts
<1>3. UNCHANGED <<book, given, room>> /\ stage[a] # "in"
  BY DEF MatchFails, OnActorJoined, BackAtEntry, Authenticate, matchVars
<1>4. \A c \in Actors \ {a} : stage'[c] = stage[c] /\ goal'[c] = goal[c]
  BY <1>2 DEF MatchFails, OnActorJoined, BackAtEntry, Authenticate, Turned
<1>5. ActorSound(a)'
  <2>1. CASE MatchFails(a) \/ BackAtEntry(a)
    <3>1. stage'[a] \in {"entry", "gone"} /\ goal'[a] = None
      BY <1>2, <2>1 DEF MatchFails, BackAtEntry, Turned
    <3> QED
      BY <3>1 DEF ActorSound
  <2>2. CASE OnActorJoined(a)
    <3>1. stage'[a] = "fetching" /\ stage[a] = "admitted" /\ goal' = goal
      BY <1>2, <2>2 DEF OnActorJoined
    <3> QED
      BY <1>2, <1>3, <3>1 DEF ActorSound
  <2>3. CASE Authenticate(a)
    <3>1. stage'[a] = "entry" /\ stage[a] = "gone" /\ goal' = goal
      BY <1>2, <2>3 DEF Authenticate
    <3> QED
      BY <1>2, <1>3, <3>1 DEF ActorSound
  <2> QED
    BY <2>1, <2>2, <2>3
<1> QED
  BY <1>1, <1>3, <1>4, <1>5, OneMoves

LEMMA JoinSeats ==
  ASSUME Seating, NEW a \in Actors, OnActorJoin(a)
  PROVE  Seating'
<1>1. Types'
  BY ActorTypes DEF Seating
<1>2. PICK r : r = goal[a]
  OBVIOUS
<1>3. /\ stage \in [Actors -> Stages] /\ goal \in [Actors -> Rooms \cup {None}]
      /\ room \in [Rooms -> RoomStates] /\ ActorSound(a)
      /\ stage[a] = "joining" /\ UNCHANGED <<book, given>>
  BY SeatedFacts DEF OnActorJoin, matchVars
<1>4. r \in Rooms /\ a \in given[r]
  BY <1>2, <1>3 DEF ActorSound
<1>5. \A c \in Actors \ {a} : stage'[c] = stage[c] /\ goal'[c] = goal[c]
  BY <1>3 DEF OnActorJoin, Turned
<1>6. \A q \in Rooms : a \notin room[q].actors
  BY <1>3, Outside
<1>7. CASE /\ CanAcceptPlayer(room[r].game)
           /\ room' = [room EXCEPT ![r].pending = @ \cup {a}]
           /\ stage' = [stage EXCEPT ![a] = "admitted"] /\ UNCHANGED goal
  <2>1. PICK v : v = [room[r] EXCEPT !.pending = @ \cup {a}]
    OBVIOUS
  <2>2. /\ room'[r] = v /\ \A q \in Rooms \ {r} : room'[q] = room[q]
    BY <1>3, <1>4, <1>7, <2>1
  <2>3. /\ v.game = room[r].game /\ v.actors = room[r].actors /\ v.leaving = room[r].leaving
        /\ v.reported = room[r].reported /\ v.state = room[r].state
        /\ v.pending = room[r].pending \cup {a}
    BY <1>3, <1>4, <2>1 DEF RoomStates
  <2>4. RoomSound(r) /\ room[r].actors \subseteq Actors
    BY <1>4, SeatedFacts DEF RoomStates
  <2>5. ~IsIn(room[r].game, a)
    <3>1. Len(room[r].game.players) < Seats
      BY <1>7 DEF CanAcceptPlayer
    <3>2. room[r].game.status # "Finished"
      BY <2>4, <3>1 DEF RoomSound, GameSound
    <3>3. \A i \in DOMAIN room[r].game.players : room[r].game.players[i] \in room[r].actors
      BY <2>4, <3>2 DEF RoomSound
    <3> QED
      BY <1>4, <1>6, <3>3 DEF IsIn
  <2>6. ActorSound(a)'
    <3>1. stage'[a] = "admitted" /\ goal'[a] = r
      BY <1>2, <1>3, <1>7
    <3> QED
      BY <1>3, <1>4, <2>2, <2>3, <2>5, <3>1, BingoAssumption DEF ActorSound
  <2>7. \A c \in room[r].actors : stage'[c] = stage[c] /\ goal'[c] = goal[c]
    BY <1>4, <1>5, <1>6, <2>4
  <2>8. RoomSound(r)'
    BY <1>3, <1>4, <2>2, <2>3, <2>4, <2>7 DEF RoomSound
  <2> QED
    BY <1>1, <1>3, <1>4, <1>5, <1>6, <2>2, <2>3, <2>6, <2>8, OneSeat
<1>8. CASE Turned(a) /\ UNCHANGED room
  <2>1. stage'[a] = "entry" /\ goal'[a] = None
    BY <1>3, <1>8 DEF Turned
  <2>2. ActorSound(a)'
    BY <2>1 DEF ActorSound
  <2> QED
    BY <1>1, <1>3, <1>5, <1>8, <2>2, OneMoves
<1> QED
  BY <1>2, <1>7, <1>8 DEF OnActorJoin

LEMMA FetchFailsSeats ==
  ASSUME Seating, NEW a \in Actors, FetchFails(a)
  PROVE  Seating'
<1>1. Types'
  BY ActorTypes DEF Seating
<1>2. PICK r : r = goal[a]
  OBVIOUS
<1>3. /\ stage \in [Actors -> Stages] /\ goal \in [Actors -> Rooms \cup {None}]
      /\ room \in [Rooms -> RoomStates] /\ ActorSound(a)
      /\ stage[a] = "fetching" /\ UNCHANGED <<book, given, goal>>
      /\ stage' = [stage EXCEPT ![a] = "stranded"]
  BY SeatedFacts DEF FetchFails, matchVars
<1>4. r \in Rooms /\ a \in given[r]
  BY <1>2, <1>3 DEF ActorSound
<1>5. \A c \in Actors \ {a} : stage'[c] = stage[c] /\ goal'[c] = goal[c]
  BY <1>3
<1>6. \A q \in Rooms : a \notin room[q].actors
  BY <1>3, Outside
<1>7. PICK v : v = [room[r] EXCEPT !.pending = @ \ {a}]
  OBVIOUS
<1>8. room'[r] = v /\ \A q \in Rooms \ {r} : room'[q] = room[q]
  BY <1>2, <1>3, <1>4, <1>7 DEF FetchFails
<1>9. /\ v.game = room[r].game /\ v.actors = room[r].actors /\ v.leaving = room[r].leaving
      /\ v.reported = room[r].reported /\ v.state = room[r].state
      /\ v.pending \subseteq room[r].pending
  BY <1>3, <1>4, <1>7 DEF RoomStates
<1>10. RoomSound(r) /\ room[r].actors \subseteq Actors
  BY <1>4, SeatedFacts DEF RoomStates
<1>11. stage'[a] = "stranded" /\ goal'[a] = r
  BY <1>2, <1>3
<1>12. ActorSound(a)'
  BY <1>3, <1>4, <1>11, BingoAssumption DEF ActorSound
<1>13. \A c \in room[r].actors : stage'[c] = stage[c] /\ goal'[c] = goal[c]
  BY <1>4, <1>5, <1>6, <1>10
<1>14. RoomSound(r)'
  BY <1>3, <1>8, <1>9, <1>10, <1>13 DEF RoomSound
<1> QED
  BY <1>1, <1>3, <1>4, <1>5, <1>6, <1>8, <1>9, <1>12, <1>14, OneSeat

LEMMA ResumeSeats ==
  ASSUME Seating, NEW a \in Actors, Resume(a)
  PROVE  Seating'
<1>1. Types'
  BY ActorTypes DEF Seating
<1>2. PICK r : r = goal[a]
  OBVIOUS
<1>3. PICK still \in BOOLEAN : still = (a \in room[r].pending /\ CanAcceptPlayer(room[r].game))
  OBVIOUS
<1>4. /\ stage \in [Actors -> Stages] /\ goal \in [Actors -> Rooms \cup {None}]
      /\ room \in [Rooms -> RoomStates] /\ ActorSound(a)
      /\ stage[a] = "fetching" /\ UNCHANGED <<book, given, goal>>
      /\ stage' = [stage EXCEPT ![a] = IF still THEN "in" ELSE "back"]
  BY <1>2, <1>3, SeatedFacts DEF Resume, matchVars
<1>5. r \in Rooms /\ a \in given[r] /\ ~IsIn(room[r].game, a)
  BY <1>2, <1>4 DEF ActorSound
<1>6. \A c \in Actors \ {a} : stage'[c] = stage[c] /\ goal'[c] = goal[c]
  BY <1>4
<1>7. \A q \in Rooms : a \notin room[q].actors
  BY <1>4, Outside
<1>8. PICK g, h : g = room[r].game /\ h = Joined(g, a)
  OBVIOUS
<1>9. /\ g \in Games /\ RoomSound(r) /\ GameSound(g, given[r]) /\ room[r].actors \subseteq Actors
  BY <1>5, <1>8, SeatedFacts DEF RoomSound, RoomStates
<1>10. PICK v : v = [room[r] EXCEPT !.pending = @ \ {a},
                                   !.actors = IF still THEN @ \cup {a} ELSE @,
                                   !.game = IF still THEN h ELSE @]
  OBVIOUS
<1>11. room' = [room EXCEPT ![r] = v]
  BY <1>2, <1>3, <1>4, <1>5, <1>8, <1>10 DEF Resume
<1>12. /\ v.pending \subseteq room[r].pending /\ v.leaving = room[r].leaving
       /\ v.reported = room[r].reported /\ v.state = room[r].state
       /\ v.actors = IF still THEN room[r].actors \cup {a} ELSE room[r].actors
       /\ v.game = IF still THEN h ELSE g
  BY <1>4, <1>5, <1>8, <1>10 DEF RoomStates
<1>13. room'[r] = v /\ \A q \in Rooms \ {r} : room'[q] = room[q]
  BY <1>4, <1>5, <1>11
<1>14. stage'[a] = (IF still THEN "in" ELSE "back") /\ goal'[a] = r
  BY <1>2, <1>4
<1>15. ActorSound(a)'
  BY <1>4, <1>5, <1>14, BingoAssumption DEF ActorSound
<1>16. CASE ~still
  <2>1. \A c \in room[r].actors : stage'[c] = stage[c] /\ goal'[c] = goal[c]
    BY <1>5, <1>6, <1>7, <1>9
  <2>2. RoomSound(r)'
    BY <1>4, <1>8, <1>9, <1>12, <1>13, <1>16, <2>1 DEF RoomSound
  <2>3. \A c : IsIn(room'[r].game, c) => IsIn(room[r].game, c)
    BY <1>8, <1>12, <1>13, <1>16
  <2> QED
    BY <1>1, <1>4, <1>5, <1>6, <1>7, <1>13, <1>15, <2>2, <2>3, OneSeat
<1>17. CASE still
  <2>1. /\ h.players = Append(g.players, a)
        /\ h.status = IF Len(g.players) + 1 = Seats THEN "Running" ELSE g.status
        /\ \A c : IsIn(h, c) <=> IsIn(g, c) \/ c = a
    <3>1. ~IsIn(g, a) /\ a \in Actors
      BY <1>5, <1>8
    <3>2. /\ Joined(g, a).players = Append(g.players, a)
          /\ Joined(g, a).status = IF Len(g.players) + 1 = Seats THEN "Running" ELSE g.status
          /\ \A c : IsIn(Joined(g, a), c) <=> IsIn(g, c) \/ c = a
      BY <1>9, <3>1, JoinedFields
    <3> QED
      BY <1>8, <3>2
  <2>2. GameSound(h, given[r])
    BY <1>3, <1>5, <1>8, <1>9, <1>17, JoinedSound
  <2>3. g.status # "Finished" /\ h.status # "Finished"
    <3>1. Len(g.players) < Seats
      BY <1>3, <1>8, <1>17 DEF CanAcceptPlayer
    <3> QED
      BY <1>9, <2>1, <3>1 DEF GameSound
  <2>4. /\ room[r].leaving = <<>> /\ ~room[r].reported
        /\ \A i \in DOMAIN g.players : g.players[i] \in room[r].actors
    BY <1>8, <1>9, <2>3 DEF RoomSound
  <2>5. v.game = h /\ v.actors = room[r].actors \cup {a}
    BY <1>12, <1>17
  <2>6. \A c \in v.actors : IsIn(h, c) /\ stage'[c] = "in" /\ goal'[c] = r
    <3> SUFFICES ASSUME NEW c \in v.actors PROVE IsIn(h, c) /\ stage'[c] = "in" /\ goal'[c] = r
      OBVIOUS
    <3>1. CASE c = a
      BY <1>14, <1>17, <2>1, <3>1
    <3>2. CASE c # a
      <4>1. c \in room[r].actors /\ c \in Actors
        BY <1>9, <2>5, <3>2
      <4>2. IsIn(g, c) /\ stage[c] = "in" /\ goal[c] = r
        BY <1>8, <1>9, <4>1 DEF RoomSound
      <4> QED
        BY <1>6, <2>1, <3>2, <4>1, <4>2
    <3> QED
      BY <3>1, <3>2
  <2>7. \A i \in DOMAIN h.players : h.players[i] \in v.actors
    <3>1. \A c : (\E i \in DOMAIN h.players : h.players[i] = c)
                   => (\E i \in DOMAIN g.players : g.players[i] = c) \/ c = a
      BY <2>1 DEF IsIn
    <3> QED
      BY <2>4, <2>5, <3>1
  <2>8. v.pending \subseteq given[r]
    BY <1>9, <1>12 DEF RoomSound
  <2>9. v.leaving = <<>> /\ ~v.reported /\ DOMAIN v.leaving = {}
    BY <1>12, <2>4
  <2>10. given'[r] = given[r]
    BY <1>4
  <2>11. RoomSound(r)'
    BY <1>13, <2>2, <2>3, <2>5, <2>6, <2>7, <2>8, <2>9, <2>10 DEF RoomSound
  <2>12. \A c \in Actors \ {a} : IsIn(room'[r].game, c) => IsIn(room[r].game, c)
    BY <1>8, <1>13, <2>1, <2>5
  <2> QED
    BY <1>1, <1>4, <1>5, <1>6, <1>7, <1>13, <1>15, <2>11, <2>12, OneSeat
<1> QED
  BY <1>16, <1>17

\* A room whose game goes on or is over, and nobody moves.
LEMMA RoomSeats ==
  ASSUME Seating, Types', UNCHANGED <<book, given, stage, goal>>, NEW r \in Rooms,
         \A q \in Rooms \ {r} : room'[q] = room[q], RoomSound(r)',
         \A c : IsIn(room'[r].game, c) => IsIn(room[r].game, c)
  PROVE  Seating'
<1>1. PICK B \in SUBSET Actors : B = {}
  OBVIOUS
<1>2. BookSound'
  BY SeatedFacts DEF BookSound
<1>3. \A q \in Rooms \ {r} : room'[q] = room[q] /\ B \cap room[q].actors = {}
  BY <1>1
<1>4. \A q \in Rooms : given[q] \subseteq given'[q]
  OBVIOUS
<1>5. \A c \in B : ActorSound(c)'
  BY <1>1
<1> QED
  BY <1>2, <1>3, <1>4, <1>5, StepSeats

LEMMA SubmitSeats ==
  ASSUME Seating, NEW a \in Actors, NEW card \in Cards, SubmitCard(a, card)
  PROVE  Seating'
<1>1. Types'
  BY ActorTypes DEF Seating
<1>2. PICK r : r = goal[a]
  OBVIOUS
<1>3. /\ goal \in [Actors -> Rooms \cup {None}] /\ room \in [Rooms -> RoomStates] /\ ActorSound(a)
      /\ stage[a] = "in" /\ UNCHANGED <<book, given, stage, goal>>
  BY SeatedFacts DEF SubmitCard, matchVars
<1>4. r \in Rooms
  BY <1>2, <1>3 DEF ActorSound
<1>5. PICK g, h : g = room[r].game /\ h = Submitted(g, a, card)
  OBVIOUS
<1>6. g \in Games /\ RoomSound(r) /\ GameSound(g, given[r]) /\ ValidCard(card)
  BY <1>2, <1>4, <1>5, SeatedFacts DEF RoomSound, SubmitCard, CanSubmit
<1>7. GameSound(h, given[r]) /\ h.players = g.players /\ h.status = g.status
  BY <1>5, <1>6, SubmittedSound
<1>8. PICK v : v = [room[r] EXCEPT !.game = h]
  OBVIOUS
<1>9. room'[r] = v /\ \A q \in Rooms \ {r} : room'[q] = room[q]
  <2>1. room' = [room EXCEPT ![r] = v]
    BY <1>2, <1>3, <1>4, <1>5, <1>8 DEF SubmitCard
  <2> QED
    BY <1>3, <1>4, <2>1
<1>10. /\ v.game = h /\ v.pending = room[r].pending /\ v.leaving = room[r].leaving
       /\ v.reported = room[r].reported /\ v.state = room[r].state /\ v.actors = room[r].actors
  BY <1>3, <1>4, <1>8 DEF RoomStates
<1>11. \A c : IsIn(h, c) <=> IsIn(g, c)
  BY <1>7 DEF IsIn
<1>12. RoomSound(r)'
  BY <1>3, <1>5, <1>6, <1>7, <1>9, <1>10, <1>11 DEF RoomSound
<1>13. \A c : IsIn(room'[r].game, c) => IsIn(room[r].game, c)
  BY <1>5, <1>9, <1>10, <1>11
<1> QED
  BY <1>1, <1>3, <1>4, <1>9, <1>12, <1>13, RoomSeats

\* What a draw does to its room.
LEMMA DrawRoom ==
  ASSUME Seating, NEW r \in Rooms, DrawTick(r)
  PROVE  \E x, y \in room[r].actors :
           /\ \A c : IsIn(room[r].game, c) <=> c = x \/ c = y
           /\ x # y
           /\ room'[r] = AfterDraw(r, Drawn(room[r].game), <<x, y>>)
           /\ \A q \in Rooms \ {r} : room'[q] = room[q]
<1>1. PICK g : g = room[r].game
  OBVIOUS
<1>2. /\ g \in Games /\ RoomSound(r) /\ GameSound(g, given[r]) /\ room \in [Rooms -> RoomStates]
      /\ ShouldDraw(g) /\ g.status = "Running"
  BY <1>1, SeatedFacts DEF RoomSound, DrawTick, CanDraw
<1>3. PICK order \in room[r].actors \X room[r].actors :
        /\ {order[1], order[2]} = room[r].actors
        /\ room' = [room EXCEPT ![r] = AfterDraw(r, Drawn(room[r].game), order)]
  BY DEF DrawTick
<1>4. PICK x \in room[r].actors, y \in room[r].actors : order = <<x, y>>
  BY <1>3
<1>5. \A c : IsIn(g, c) <=> c \in room[r].actors
  BY <1>1, <1>2 DEF RoomSound, IsIn
<1>6. room[r].actors = {x, y}
  BY <1>3, <1>4
<1>7. x # y
  <2>1. Len(g.players) = 2 /\ DOMAIN g.players = 1 .. 2
    BY <1>2 DEF ShouldDraw, Games, Seats
  <2>2. g.players[1] # g.players[2] /\ IsIn(g, g.players[1]) /\ IsIn(g, g.players[2])
    BY <1>2, <2>1 DEF GameSound, IsIn
  <2> QED
    BY <1>5, <1>6, <2>2
<1> QED
  BY <1>1, <1>2, <1>3, <1>4, <1>5, <1>6, <1>7

LEMMA DrawSeats ==
  ASSUME Seating, NEW r \in Rooms, DrawTick(r)
  PROVE  Seating'
<1>1. Types'
  BY RoomTypes
<1>2. UNCHANGED <<book, given, stage, goal>>
  BY DEF DrawTick, matchVars
<1>3. PICK g, h : g = room[r].game /\ h = Drawn(g)
  OBVIOUS
<1>4. /\ g \in Games /\ RoomSound(r) /\ GameSound(g, given[r]) /\ room[r] \in RoomStates
      /\ ShouldDraw(g) /\ CanDraw(g) /\ room[r].state = "open" /\ g.status = "Running"
  BY <1>3, SeatedFacts DEF RoomSound, DrawTick, CanDraw
<1>5. /\ GameSound(h, given[r]) /\ h.players = g.players
      /\ (h.status = "Finished" <=> h.winners # <<>>)
  BY <1>3, <1>4, DrawnFields
<1>6. PICK x \in room[r].actors, y \in room[r].actors :
        /\ x # y /\ room'[r] = AfterDraw(r, Drawn(room[r].game), <<x, y>>)
        /\ \A q \in Rooms \ {r} : room'[q] = room[q]
  BY DrawRoom
<1>7. PICK v : v = AfterDraw(r, h, <<x, y>>)
  OBVIOUS
<1>8. /\ v.game = h /\ v.pending = room[r].pending /\ v.reported = room[r].reported
      /\ v.state = room[r].state /\ v.actors = room[r].actors
      /\ v.leaving = IF h.winners # <<>> THEN <<x, y>> ELSE room[r].leaving
  BY <1>4, <1>7 DEF AfterDraw, RoomStates
<1>9. room[r].leaving = <<>> /\ ~room[r].reported
  BY <1>3, <1>4 DEF RoomSound
<1>10. room'[r] = v
  BY <1>3, <1>6, <1>7
<1>11. \A c : IsIn(h, c) <=> IsIn(g, c)
  BY <1>5 DEF IsIn
<1>12. \/ v.leaving = <<>> /\ h.status # "Finished"
       \/ v.leaving = <<x, y>> /\ h.status = "Finished"
  BY <1>5, <1>8, <1>9
<1>13. /\ \A i \in DOMAIN v.leaving : v.leaving[i] \in v.actors
       /\ \A i, j \in DOMAIN v.leaving : v.leaving[i] = v.leaving[j] => i = j
  <2>1. CASE v.leaving = <<>>
    BY <2>1
  <2>2. CASE v.leaving = <<x, y>>
    BY <1>6, <1>8, <2>2
  <2> QED
    BY <1>12, <2>1, <2>2
<1>14. RoomSound(r)'
  BY <1>2, <1>3, <1>4, <1>5, <1>8, <1>9, <1>10, <1>11, <1>12, <1>13 DEF RoomSound
<1>15. \A c : IsIn(room'[r].game, c) => IsIn(room[r].game, c)
  BY <1>3, <1>8, <1>10, <1>11
<1> QED
  BY <1>1, <1>2, <1>6, <1>14, <1>15, RoomSeats

LEMMA ReportSeats ==
  ASSUME Seating, NEW r \in Rooms, ReportResult(r) \/ Closed(r)
  PROVE  Seating'
<1>1. Types'
  BY RoomTypes
<1>2. UNCHANGED <<book, given, stage, goal>>
  BY DEF ReportResult, Closed, matchVars
<1>3. RoomSound(r) /\ room \in [Rooms -> RoomStates] /\ room[r] \in RoomStates
  BY SeatedFacts
<1>4. CASE ReportResult(r)
  <2>1. PICK v : v = [room[r] EXCEPT !.reported = TRUE]
    OBVIOUS
  <2>2. room'[r] = v /\ \A q \in Rooms \ {r} : room'[q] = room[q]
    BY <1>3, <1>4, <2>1 DEF ReportResult
  <2>3. /\ v.game = room[r].game /\ v.pending = room[r].pending /\ v.leaving = room[r].leaving
        /\ v.state = room[r].state /\ v.actors = room[r].actors /\ v.leaving # <<>>
    BY <1>3, <1>4, <2>1 DEF RoomStates, ReportResult
  <2>4. RoomSound(r)'
    BY <1>2, <1>3, <2>2, <2>3 DEF RoomSound
  <2>5. \A c : IsIn(room'[r].game, c) => IsIn(room[r].game, c)
    BY <2>2, <2>3
  <2> QED
    BY <1>1, <1>2, <2>2, <2>4, <2>5, RoomSeats
<1>5. CASE Closed(r)
  <2>1. PICK v : v = [NoRoom EXCEPT !.life = room[r].life]
    OBVIOUS
  <2>2. room'[r] = v /\ \A q \in Rooms \ {r} : room'[q] = room[q]
    BY <1>3, <1>5, <2>1 DEF Closed
  <2>3. v.game = NewGame /\ v.actors = {} /\ v.pending = {} /\ v.leaving = <<>> /\ ~v.reported
    BY <2>1 DEF NoRoom
  <2>4. GameSound(NewGame, given[r]) /\ NewGame.players = <<>> /\ \A c : ~IsIn(NewGame, c)
    BY NewGameSound DEF NewGame, IsIn
  <2>5. RoomSound(r)'
    <3>1. given'[r] = given[r] /\ DOMAIN NewGame.players = {} /\ DOMAIN v.leaving = {}
      BY <1>2, <2>3, <2>4
    <3> QED
      BY <2>2, <2>3, <2>4, <3>1 DEF RoomSound
  <2>6. \A c : IsIn(room'[r].game, c) => IsIn(room[r].game, c)
    BY <2>2, <2>3, <2>4
  <2> QED
    BY <1>1, <1>2, <2>2, <2>5, <2>6, RoomSeats
<1> QED
  BY <1>4, <1>5

\* What Left makes of its room: the first actor goes, the others wait.
LEMMA LeftRoom ==
  ASSUME Seating, NEW r \in Rooms, Left(r)
  PROVE  /\ Leaver(r) \in room[r].actors
         /\ stage' = [stage EXCEPT ![Leaver(r)] = "back"]
         /\ \A q \in Rooms \ {r} : room'[q] = room[q]
         /\ room'[r].game = room[r].game /\ room'[r].life = room[r].life
         /\ room'[r].pending = room[r].pending
         /\ room'[r].actors = room[r].actors \ {Leaver(r)}
         /\ room'[r].leaving = Tail(room[r].leaving) /\ ~room'[r].reported
         /\ room'[r].state = AfterLeave(r, room'[r].actors)
         /\ \A i \in DOMAIN room'[r].leaving :
              room'[r].leaving[i] = room[r].leaving[i + 1] /\ i + 1 \in DOMAIN room[r].leaving
         /\ \A i \in DOMAIN room[r].leaving :
              i = 1 \/ (i - 1 \in DOMAIN room'[r].leaving /\ i = (i - 1) + 1)
         /\ 1 \in DOMAIN room[r].leaving /\ room[r].leaving[1] = Leaver(r)
<1>1. RoomSound(r) /\ room \in [Rooms -> RoomStates] /\ room[r] \in RoomStates
  BY SeatedFacts
<1>2. room[r].leaving \in Seq(Actors) /\ room[r].leaving # <<>>
  BY <1>1 DEF RoomStates, Left
<1>3. PICK a, rest : a = Leaver(r) /\ rest = room[r].actors \ {a}
  OBVIOUS
<1>4. PICK v : v = [room[r] EXCEPT !.actors = rest, !.leaving = Tail(@), !.reported = FALSE,
                                   !.state = AfterLeave(r, rest)]
  OBVIOUS
<1>5. room' = [room EXCEPT ![r] = v] /\ stage' = [stage EXCEPT ![a] = "back"]
  BY <1>1, <1>3, <1>4 DEF Left
<1>6. room'[r] = v /\ \A q \in Rooms \ {r} : room'[q] = room[q]
  BY <1>1, <1>5
<1>7. /\ v.game = room[r].game /\ v.life = room[r].life /\ v.pending = room[r].pending
      /\ v.actors = rest /\ v.leaving = Tail(room[r].leaving) /\ v.reported = FALSE
      /\ v.state = AfterLeave(r, rest)
  BY <1>1, <1>4 DEF RoomStates
<1>8. PICK s : s = room[r].leaving
  OBVIOUS
<1>9. PICK t : t = Tail(s)
  OBVIOUS
<1>10. s \in Seq(Actors) /\ s # <<>> /\ Len(s) \in Nat /\ Len(s) > 0 /\ DOMAIN s = 1 .. Len(s)
  BY <1>2, <1>8
<1>11. t \in Seq(Actors) /\ Len(t) = Len(s) - 1 /\ DOMAIN t = 1 .. (Len(s) - 1)
  BY <1>9, <1>10
<1>12. \A i \in 1 .. (Len(s) - 1) : t[i] = s[i + 1]
  BY <1>9, <1>10
<1>13. a = s[1] /\ 1 \in DOMAIN s
  BY <1>3, <1>8, <1>10 DEF Leaver
<1>14. a \in room[r].actors
  BY <1>1, <1>8, <1>13 DEF RoomSound
<1>15. \A i \in DOMAIN t : t[i] = s[i + 1] /\ i + 1 \in DOMAIN s
  BY <1>10, <1>11, <1>12
<1>16. \A i \in DOMAIN s : i = 1 \/ (i - 1 \in DOMAIN t /\ i = (i - 1) + 1)
  BY <1>10, <1>11
<1> QED
  BY <1>3, <1>5, <1>6, <1>7, <1>8, <1>9, <1>13, <1>14, <1>15, <1>16

LEMMA LeftSeats ==
  ASSUME Seating, NEW r \in Rooms, Left(r)
  PROVE  Seating'
<1>1. Types' /\ UNCHANGED <<book, given, goal>>
  BY RoomTypes DEF Left, matchVars
<1>2. PICK a : a = Leaver(r)
  OBVIOUS
<1>3. PICK t : t = room'[r].leaving
  OBVIOUS
<1>4. PICK s : s = room[r].leaving
  OBVIOUS
<1>5. /\ RoomSound(r) /\ stage \in [Actors -> Stages] /\ goal \in [Actors -> Rooms \cup {None}]
      /\ room[r].actors \subseteq Actors
  BY SeatedFacts DEF RoomStates
<1>6. /\ a \in room[r].actors /\ a \in Actors
      /\ stage' = [stage EXCEPT ![a] = "back"]
      /\ \A q \in Rooms \ {r} : room'[q] = room[q]
      /\ room'[r].game = room[r].game /\ room'[r].pending = room[r].pending
      /\ room'[r].actors = room[r].actors \ {a} /\ ~room'[r].reported
      /\ room'[r].state = AfterLeave(r, room'[r].actors)
  BY <1>2, <1>5, LeftRoom
<1>7. /\ \A i \in DOMAIN t : t[i] = s[i + 1] /\ i + 1 \in DOMAIN s
      /\ 1 \in DOMAIN s /\ s[1] = a
  BY <1>2, <1>3, <1>4, LeftRoom
<1>8. t \in Seq(Actors)
  BY <1>1, <1>3 DEF Types, RoomStates
<1>9. \A i \in DOMAIN t : i \in Nat /\ i # 0
  BY <1>8
<1>10. \A i \in DOMAIN t : t[i] \in room[r].actors \ {a}
  <2> SUFFICES ASSUME NEW i \in DOMAIN t PROVE t[i] \in room[r].actors \ {a}
    OBVIOUS
  <2>1. i + 1 \in DOMAIN s /\ t[i] = s[i + 1] /\ i + 1 # 1
    BY <1>7, <1>9
  <2> QED
    BY <1>4, <1>5, <1>7, <2>1 DEF RoomSound
<1>11. \A i, j \in DOMAIN t : t[i] = t[j] => i = j
  <2> SUFFICES ASSUME NEW i \in DOMAIN t, NEW j \in DOMAIN t, t[i] = t[j] PROVE i = j
    OBVIOUS
  <2>1. i + 1 = j + 1
    BY <1>4, <1>5, <1>7 DEF RoomSound
  <2> QED
    BY <1>9, <2>1
<1>12. room'[r].state # "open" => t = <<>>
  <2> SUFFICES ASSUME room'[r].state # "open", t # <<>> PROVE FALSE
    OBVIOUS
  <2>1. room'[r].actors = {}
    BY <1>6 DEF AfterLeave
  <2>2. 1 \in DOMAIN t
    BY <1>8
  <2> QED
    BY <1>6, <1>10, <2>1, <2>2
<1>13. room[r].game.status = "Finished"
  BY <1>4, <1>5, <1>7 DEF RoomSound
<1>14. stage[a] = "in" /\ goal[a] = r
  BY <1>5, <1>6 DEF RoomSound
<1>15. \A c \in Actors \ {a} : stage'[c] = stage[c] /\ goal'[c] = goal[c]
  BY <1>1, <1>5, <1>6
<1>16. \A q \in Rooms \ {r} : a \notin room[q].actors
  BY <1>14 DEF Seating, RoomSound
<1>17. ActorSound(a)'
  <2>1. stage'[a] = "back" /\ goal'[a] = r /\ r # None /\ ActorSound(a)
    BY <1>1, <1>5, <1>6, <1>14, SeatedFacts, BingoAssumption
  <2> QED
    BY <1>1, <1>14, <2>1 DEF ActorSound
<1>18. RoomSound(r)'
  <2>1. \A c \in room'[r].actors : IsIn(room'[r].game, c) /\ stage'[c] = "in" /\ goal'[c] = r
    BY <1>5, <1>6, <1>15 DEF RoomSound
  <2>2. GameSound(room'[r].game, given'[r]) /\ room'[r].pending \subseteq given'[r]
    BY <1>1, <1>5, <1>6 DEF RoomSound
  <2>3. \A i \in DOMAIN t : t[i] \in room'[r].actors
    BY <1>6, <1>10
  <2> QED
    BY <1>3, <1>6, <1>11, <1>12, <1>13, <2>1, <2>2, <2>3 DEF RoomSound
<1>19. \A c \in Actors \ {a} : IsIn(room'[r].game, c) => IsIn(room[r].game, c)
  BY <1>6
<1> QED
  BY <1>1, <1>6, <1>15, <1>16, <1>17, <1>18, <1>19, OneSeat

LEMMA SameSeats ==
  ASSUME Seating, Types', UNCHANGED <<book, given, stage, goal, room>>
  PROVE  Seating'
<1>1. BookSound'
  BY SeatedFacts DEF BookSound
<1>2. \A r \in Rooms : RoomSound(r)'
  BY SeatedFacts DEF RoomSound
<1>3. \A a \in Actors : ActorSound(a)'
  BY SeatedFacts DEF ActorSound
<1> QED
  BY <1>1, <1>2, <1>3 DEF Seating

ActorActs(a) ==
  \/ Match(a) \/ EnsureRoom(a) \/ MatchFails(a) \/ OnActorJoin(a) \/ OnActorJoined(a)
  \/ Resume(a) \/ FetchFails(a) \/ BackAtEntry(a) \/ Authenticate(a)
  \/ \E card \in Cards : SubmitCard(a, card)

RoomActs(r) == DrawTick(r) \/ ReportResult(r) \/ Left(r) \/ Closed(r) \/ Observe(r)

LEMMA NextSeats == Seating /\ Hearing /\ [Next]_vars => Seating'
<1> SUFFICES ASSUME Seating, Hearing, [Next]_vars PROVE Seating'
  OBVIOUS
<1>1. ASSUME NEW a \in Actors, ActorActs(a) PROVE Seating'
  <2>1. ASSUME NEW card \in Cards, SubmitCard(a, card) PROVE Seating'
    BY <2>1, SubmitSeats
  <2> QED
    BY <1>1, <2>1, MatchSeats, EnsureSeats, FailSeats, JoinSeats, ResumeSeats, FetchFailsSeats
       DEF ActorActs
<1>2. ASSUME NEW r \in Rooms, Observe(r) PROVE Seating'
  <2>1. Types' /\ UNCHANGED <<book, given, stage, goal, room>>
    BY <1>2, RoomTypes DEF Observe, matchVars
  <2> QED
    BY <2>1, SameSeats
<1>3. ASSUME NEW r \in Rooms, RoomActs(r) PROVE Seating'
  BY <1>2, <1>3, DrawSeats, ReportSeats, LeftSeats DEF RoomActs
<1>4. CASE ObserverActs
  <2>1. Types' /\ UNCHANGED <<book, given, stage, goal, room>>
    BY <1>4, ObserverTypes DEF matchVars
  <2> QED
    BY <2>1, SameSeats
<1>5. CASE UNCHANGED vars
  <2>1. UNCHANGED <<book, given, stage, goal, room, record, played, watching, rewards>>
    BY <1>5 DEF vars, matchVars, watchVars
  <2>2. Types'
    BY <2>1, SeatedFacts DEF Types
  <2> QED
    BY <2>1, <2>2, SameSeats
<1> QED
  BY <1>1, <1>3, <1>4, <1>5 DEF Next, ActorActs, RoomActs, ObserverActs

LEMMA InitSeats == Init => Seating
<1> SUFFICES ASSUME Init PROVE Seating
  OBVIOUS
<1>1. Types
  BY TypesInit
<1>2. BookSound
  BY FS_EmptySet DEF Init, BookSound, Few, Seats
<1>3. ASSUME NEW r \in Rooms PROVE RoomSound(r)
  <2>1. room[r] = NoRoom /\ given[r] = {}
    BY DEF Init
  <2>2. /\ NoRoom.game = NewGame /\ NoRoom.actors = {} /\ NoRoom.pending = {}
        /\ NoRoom.leaving = <<>> /\ ~NoRoom.reported
    BY DEF NoRoom
  <2>3. GameSound(NewGame, given[r]) /\ NewGame.players = <<>>
    BY NewGameSound DEF NewGame
  <2>4. DOMAIN NewGame.players = {} /\ DOMAIN NoRoom.leaving = {}
    BY <2>2, <2>3
  <2> QED
    BY <2>1, <2>2, <2>3, <2>4 DEF RoomSound
<1>4. ASSUME NEW a \in Actors PROVE ActorSound(a)
  BY DEF Init, ActorSound
<1> QED
  BY <1>1, <1>2, <1>3, <1>4 DEF Seating

LEMMA SeatsSuffice == Seating => TwoPerRoom
<1> SUFFICES ASSUME Seating PROVE TwoPerRoom
  OBVIOUS
<1>1. TypeOK
  <2>1. ASSUME NEW r \in Rooms
        PROVE  /\ room[r].state \in {"none", "open", "closing"}
               /\ room[r].game.drawSeq \in 0 .. MaxNumber
               /\ \A i \in DOMAIN room[r].game.cards :
                    room[r].game.cards[i] = <<>> \/ ValidCard(room[r].game.cards[i])
               /\ room[r].actors \subseteq {room[r].game.players[i] : i \in DOMAIN room[r].game.players}
    <3>1. room[r] \in RoomStates /\ room[r].game \in Games /\ RoomSound(r)
      BY SeatedFacts
    <3>2. room[r].game.drawSeq \in 0 .. MaxNumber
      BY <3>1, NumberAssumption DEF Games, RoomSound, GameSound
    <3> QED
      BY <3>1, <3>2 DEF RoomStates, RoomSound, GameSound, IsIn
  <2>2. \A a \in Actors : goal[a] = None <=> stage[a] \in {"entry", "gone"}
    BY DEF Seating, ActorSound
  <2> QED
    BY <2>1, <2>2, SeatedFacts DEF TypeOK
<1>2. ASSUME NEW r \in Rooms
      PROVE  Cardinality(given[r]) <= Seats /\ room[r].pending \cup room[r].actors \subseteq given[r]
  <2>1. RoomSound(r) /\ Few(given[r])
    BY SeatedFacts DEF BookSound
  <2> QED
    BY <2>1 DEF RoomSound, GameSound, IsIn, Few
<1>3. ASSUME NEW a \in Actors, stage[a] = "fetching"
      PROVE  CanAcceptPlayer(room[goal[a]].game)
  <2>1. ActorSound(a) /\ goal[a] \in Rooms \cup {None}
    BY SeatedFacts
  <2>2. goal[a] \in Rooms /\ a \in given[goal[a]] /\ ~IsIn(room[goal[a]].game, a)
    BY <1>3, <2>1 DEF ActorSound
  <2>3. /\ room[goal[a]].game \in Games /\ Few(given[goal[a]])
        /\ GameSound(room[goal[a]].game, given[goal[a]])
    BY <2>2, SeatedFacts DEF BookSound, RoomSound
  <2> QED
    BY <2>2, <2>3, StillRoom
<1> QED
  BY <1>1, <1>2, <1>3 DEF TwoPerRoom

-----------------------------------------------------------------------------
(* What was played, and what of it was told *)

\* A room goes on, is closed or is made anew.
Follows(r) ==
  \/ room'[r].state = "none" /\ room'[r].life = room[r].life
  \/ /\ room'[r].state # "none" /\ room'[r].game.status # "Finished"
     /\ room'[r].life = room[r].life + 1
  \/ /\ room[r].state # "none" /\ room'[r].state # "none" /\ room'[r].life = room[r].life
     /\ room'[r].game.drawSeq = room[r].game.drawSeq
     /\ room'[r].game.status = "Finished" <=> room[r].game.status = "Finished"

LEMMA HistoryStays ==
  ASSUME Seating, History, played' = played, \A r \in Rooms : Follows(r)
  PROVE  History'
<1>1. \A r \in Rooms : room[r].life \in Nat
  BY SeatedFacts DEF RoomStates
<1>2. ASSUME NEW g \in played PROVE PlayedSound(g)'
  <2>1. g.room \in Rooms /\ g.life \in Nat /\ PlayedSound(g) /\ Follows(g.room)
    BY DEF Seating, Types, Outcomes, History
  <2>2. room[g.room].life \in Nat
    BY <1>1, <2>1
  <2> QED
    BY <2>1, <2>2 DEF PlayedSound, Follows, Shown
<1>3. ASSUME NEW r \in Rooms, room'[r].state # "none", room'[r].game.status = "Finished"
      PROVE  Kept(r, room[r].life, room[r].game.drawSeq)'
  <2>1. /\ room[r].state # "none" /\ room[r].game.status = "Finished"
        /\ room'[r].life = room[r].life /\ room'[r].game.drawSeq = room[r].game.drawSeq
    BY <1>3 DEF Follows
  <2>2. Kept(r, room[r].life, room[r].game.drawSeq)
    BY <2>1 DEF History
  <2> QED
    BY <2>1, <2>2 DEF Kept
<1> QED
  BY <1>2, <1>3 DEF History

\* The steps of a player leave the other rooms alone, and his own on its way.
LEMMA ActorFollows ==
  ASSUME Seating, NEW a \in Actors, ActorActs(a), NEW r \in Rooms
  PROVE  /\ Follows(r)
         /\ room'[r].leaving = room[r].leaving /\ room'[r].reported = room[r].reported
         /\ room[r].leaving # <<>> => room'[r].game.winners = room[r].game.winners
<1>1. /\ room \in [Rooms -> RoomStates] /\ room[r] \in RoomStates /\ room[r].game \in Games
      /\ RoomSound(r) /\ ActorSound(a) /\ goal[a] \in Rooms \cup {None}
  BY SeatedFacts
<1>2. ASSUME room'[r].state = room[r].state, room'[r].life = room[r].life,
             room'[r].game.drawSeq = room[r].game.drawSeq,
             (room'[r].game.status = "Finished") <=> (room[r].game.status = "Finished")
      PROVE  Follows(r)
  BY <1>2 DEF Follows
<1>3. ASSUME room'[r] = room[r] PROVE Follows(r)
  BY <1>3, <1>2
<1>4. CASE Match(a) \/ MatchFails(a) \/ OnActorJoined(a) \/ BackAtEntry(a) \/ Authenticate(a)
  <2>1. room' = room
    BY <1>4 DEF Match, MatchFails, OnActorJoined, BackAtEntry, Authenticate
  <2> QED
    BY <1>3, <2>1
<1>5. CASE EnsureRoom(a)
  <2>1. CASE room'[r] = room[r]
    BY <1>3, <2>1
  <2>2. CASE /\ room[r].state = "none"
             /\ room'[r] = [NoRoom EXCEPT !.state = "open", !.life = room[r].life + 1]
    <3>1. /\ room'[r].state = "open" /\ room'[r].life = room[r].life + 1
          /\ room'[r].game.status = "WaitingForPlayers" /\ room'[r].leaving = <<>>
          /\ room'[r].reported = FALSE
      BY <2>2 DEF NoRoom, NewGame
    <3>2. room[r].leaving = <<>> /\ room[r].reported = FALSE
      BY <1>1, <2>2 DEF RoomSound, RoomStates
    <3> QED
      BY <3>1, <3>2 DEF Follows
  <2> QED
    BY <1>1, <1>5, <2>1, <2>2 DEF EnsureRoom
<1>6. CASE OnActorJoin(a)
  <2>1. \/ room'[r] = room[r]
        \/ room'[r] = [room[r] EXCEPT !.pending = @ \cup {a}]
    BY <1>1, <1>6 DEF OnActorJoin
  <2>2. CASE room'[r] = [room[r] EXCEPT !.pending = @ \cup {a}]
    <3>1. /\ room'[r].state = room[r].state /\ room'[r].life = room[r].life
          /\ room'[r].game = room[r].game /\ room'[r].leaving = room[r].leaving
          /\ room'[r].reported = room[r].reported
      BY <1>1, <2>2 DEF RoomStates
    <3> QED
      BY <1>2, <3>1
  <2> QED
    BY <1>3, <2>1, <2>2
<1>9. CASE FetchFails(a)
  <2>1. \/ room'[r] = room[r]
        \/ room'[r] = [room[r] EXCEPT !.pending = @ \ {a}]
    BY <1>1, <1>9 DEF FetchFails
  <2>2. CASE room'[r] = [room[r] EXCEPT !.pending = @ \ {a}]
    <3>1. /\ room'[r].state = room[r].state /\ room'[r].life = room[r].life
          /\ room'[r].game = room[r].game /\ room'[r].leaving = room[r].leaving
          /\ room'[r].reported = room[r].reported
      BY <1>1, <2>2 DEF RoomStates
    <3> QED
      BY <1>2, <3>1
  <2> QED
    BY <1>3, <2>1, <2>2
<1>7. CASE Resume(a)
  <2>1. CASE r # goal[a]
    <3>1. room'[r] = room[r]
      BY <1>1, <1>7, <2>1 DEF Resume
    <3> QED
      BY <1>3, <3>1
  <2>2. CASE r = goal[a]
    <3>1. PICK g, h : g = room[r].game /\ h = Joined(g, a)
      OBVIOUS
    <3>2. PICK still \in BOOLEAN : still = (a \in room[r].pending /\ CanAcceptPlayer(room[r].game))
      OBVIOUS
    <3>3. PICK v : v = [room[r] EXCEPT !.pending = @ \ {a},
                                       !.actors = IF still THEN @ \cup {a} ELSE @,
                                       !.game = IF still THEN h ELSE @]
      OBVIOUS
    <3>4. room'[r] = v
      BY <1>1, <1>7, <2>2, <3>1, <3>2, <3>3 DEF Resume
    <3>5. /\ v.state = room[r].state /\ v.life = room[r].life /\ v.leaving = room[r].leaving
          /\ v.reported = room[r].reported /\ v.game = IF still THEN h ELSE g
      BY <1>1, <3>1, <3>3 DEF RoomStates
    <3>6. ~IsIn(g, a)
      BY <1>1, <1>7, <2>2, <3>1 DEF ActorSound, Resume
    <3>7. /\ h.status = IF Len(g.players) + 1 = Seats THEN "Running" ELSE g.status
          /\ h.drawSeq = g.drawSeq /\ h.winners = g.winners
      BY <1>1, <3>1, <3>6, JoinedFields
    <3>8. still => g.status # "Finished"
      <4>1. still => Len(g.players) < Seats
        BY <3>1, <3>2 DEF CanAcceptPlayer
      <4> QED
        BY <1>1, <3>1, <4>1 DEF RoomSound, GameSound
    <3>9. /\ v.game.drawSeq = g.drawSeq /\ v.game.winners = g.winners
          /\ (v.game.status = "Finished") <=> (g.status = "Finished")
      BY <3>5, <3>7, <3>8
    <3> QED
      BY <1>2, <3>1, <3>4, <3>5, <3>9
  <2> QED
    BY <2>1, <2>2
<1>8. ASSUME NEW card \in Cards, SubmitCard(a, card)
      PROVE  /\ Follows(r)
             /\ room'[r].leaving = room[r].leaving /\ room'[r].reported = room[r].reported
             /\ room'[r].game.winners = room[r].game.winners
  <2>1. CASE r # goal[a]
    <3>1. room'[r] = room[r]
      BY <1>1, <1>8, <2>1 DEF SubmitCard
    <3> QED
      BY <1>3, <3>1
  <2>2. CASE r = goal[a]
    <3>1. PICK g, h : g = room[r].game /\ h = Submitted(g, a, card)
      OBVIOUS
    <3>2. PICK v : v = [room[r] EXCEPT !.game = h]
      OBVIOUS
    <3>3. room'[r] = v
      BY <1>1, <1>8, <2>2, <3>1, <3>2 DEF SubmitCard
    <3>4. /\ v.state = room[r].state /\ v.life = room[r].life /\ v.leaving = room[r].leaving
          /\ v.reported = room[r].reported /\ v.game = h
      BY <1>1, <3>2 DEF RoomStates
    <3>5. GameSound(g, given[r]) /\ ValidCard(card)
      BY <1>1, <1>8, <2>2, <3>1 DEF RoomSound, SubmitCard, CanSubmit
    <3>6. h.status = g.status /\ h.drawSeq = g.drawSeq /\ h.winners = g.winners
      BY <1>1, <3>1, <3>5, SubmittedSound
    <3> QED
      BY <1>2, <3>1, <3>3, <3>4, <3>6
  <2> QED
    BY <2>1, <2>2
<1> QED
  BY <1>4, <1>5, <1>6, <1>7, <1>8, <1>9 DEF ActorActs

LEMMA RoomFollows ==
  ASSUME Seating, NEW r \in Rooms, ReportResult(r) \/ Left(r) \/ Closed(r), NEW q \in Rooms
  PROVE  Follows(q)
<1>1. /\ room \in [Rooms -> RoomStates] /\ room[r] \in RoomStates /\ RoomSound(r)
  BY SeatedFacts
<1>2. ASSUME room'[q] = room[q] PROVE Follows(q)
  BY <1>2 DEF Follows
<1>3. CASE ReportResult(r)
  <2>1. CASE q = r
    <3>1. room'[r] = [room[r] EXCEPT !.reported = TRUE]
      BY <1>1, <1>3 DEF ReportResult
    <3>2. room'[r].state = room[r].state /\ room'[r].life = room[r].life /\ room'[r].game = room[r].game
      BY <1>1, <3>1 DEF RoomStates
    <3> QED
      BY <2>1, <3>2 DEF Follows
  <2>2. CASE q # r
    <3>1. room'[q] = room[q]
      BY <1>1, <1>3, <2>2 DEF ReportResult
    <3> QED
      BY <1>2, <3>1
  <2> QED
    BY <2>1, <2>2
<1>4. CASE Left(r)
  <2>1. /\ \A p \in Rooms \ {r} : room'[p] = room[p]
        /\ room'[r].game = room[r].game /\ room'[r].life = room[r].life
        /\ room'[r].state = AfterLeave(r, room'[r].actors)
    BY <1>4, LeftRoom
  <2>2. room[r].state = "open"
    BY <1>1, <1>4 DEF Left, RoomSound
  <2>3. room'[r].state # "none"
    BY <2>1 DEF AfterLeave
  <2> QED
    BY <1>2, <2>1, <2>2, <2>3 DEF Follows
<1>5. CASE Closed(r)
  <2>1. CASE q = r
    <3>1. room'[r] = [NoRoom EXCEPT !.life = room[r].life]
      BY <1>1, <1>5 DEF Closed
    <3>2. room'[r].state = "none" /\ room'[r].life = room[r].life
      BY <3>1 DEF NoRoom
    <3> QED
      BY <2>1, <3>2 DEF Follows
  <2>2. CASE q # r
    <3>1. room'[q] = room[q]
      BY <1>1, <1>5, <2>2 DEF Closed
    <3> QED
      BY <1>2, <3>1
  <2> QED
    BY <2>1, <2>2
<1> QED
  BY <1>3, <1>4, <1>5

\* What a draw does to its game, to the finished games and to the rewards.
LEMMA DrawOutcome ==
  ASSUME Seating, NEW r \in Rooms, DrawTick(r)
  PROVE  LET g == room[r].game
             h == Drawn(g)
             x == [room |-> r, life |-> room[r].life, drawSeq |-> h.drawSeq,
                   players |-> g.players, winners |-> h.winners]
         IN  /\ room[r].state = "open" /\ g.status = "Running" /\ room[r].leaving = <<>>
             /\ h.drawSeq # 0 /\ h.winners \in Seq(Actors)
             /\ room'[r].state = "open" /\ room'[r].life = room[r].life /\ room'[r].game = h
             /\ room'[r].reported = room[r].reported /\ room[r].reported = FALSE
             /\ h.status = "Finished" <=> h.winners # <<>>
             /\ h.status = "Finished" => played' = played \cup {x}
             /\ h.status # "Finished" => played' = played /\ room'[r].leaving = <<>>
             /\ \/ rewards' = rewards /\ (h.status = "Finished" => watching.stage = "entry")
                \/ /\ h.status = "Finished"
                   /\ rewards' = rewards \cup
                        {[room |-> r, life |-> room[r].life, drawSeq |-> h.drawSeq]}
             /\ UNCHANGED <<record, watching>> /\ \A q \in Rooms \ {r} : room'[q] = room[q]
<1>1. PICK g, h : g = room[r].game /\ h = Drawn(g)
  OBVIOUS
<1>2. /\ g \in Games /\ room[r] \in RoomStates /\ RoomSound(r) /\ GameSound(g, given[r])
      /\ ShouldDraw(g) /\ CanDraw(g) /\ room[r].state = "open" /\ g.status = "Running"
  BY <1>1, SeatedFacts DEF RoomSound, DrawTick, CanDraw
<1>3. /\ h \in Games /\ h.players = g.players /\ h.drawSeq = g.drawSeq + 1
      /\ (h.status = "Finished" <=> h.winners # <<>>)
  BY <1>1, <1>2, DrawnFields
<1>4. h.drawSeq # 0 /\ h.winners \in Seq(Actors)
  BY <1>2, <1>3 DEF Games
<1>5. room[r].leaving = <<>> /\ room[r].reported = FALSE
  BY <1>1, <1>2 DEF RoomSound, RoomStates
<1>6. PICK x \in room[r].actors, y \in room[r].actors :
        /\ room'[r] = AfterDraw(r, h, <<x, y>>)
        /\ \A q \in Rooms \ {r} : room'[q] = room[q]
  BY <1>1, DrawRoom
<1>7. /\ room'[r].state = "open" /\ room'[r].life = room[r].life /\ room'[r].game = h
      /\ room'[r].reported = room[r].reported
      /\ h.winners = <<>> => room'[r].leaving = <<>>
  BY <1>2, <1>5, <1>6 DEF AfterDraw, RoomStates
<1>8. PICK z : z = [room |-> r, life |-> room[r].life, drawSeq |-> h.drawSeq,
                    players |-> g.players, winners |-> h.winners]
  OBVIOUS
<1>9. PICK e : e = [room |-> r, life |-> room[r].life, drawSeq |-> h.drawSeq]
  OBVIOUS
<1>10. UNCHANGED <<record, watching>>
  BY DEF DrawTick
<1>11. h.status = "Finished" => played' = played \cup {z} /\ Publish(r, h)
  BY <1>1, <1>3, <1>8 DEF DrawTick
<1>12. h.status # "Finished" => played' = played /\ rewards' = rewards
  BY <1>1 DEF DrawTick
<1>13. h.status = "Finished" =>
         rewards' = IF watching.stage # "entry" THEN rewards \cup {e} ELSE rewards
  BY <1>3, <1>9, <1>11 DEF Publish
<1> QED
  BY <1>1, <1>2, <1>3, <1>4, <1>5, <1>6, <1>7, <1>8, <1>9, <1>10, <1>11, <1>12, <1>13

\* The game that ends is a new one.
LEMMA DrawHistory ==
  ASSUME Seating, History, NEW r \in Rooms, DrawTick(r)
  PROVE  /\ History' /\ played \subseteq played'
         /\ \A g \in played : g.room = r => g.life # room[r].life
<1>1. PICK g, h : g = room[r].game /\ h = Drawn(g)
  OBVIOUS
<1>2. PICK x : x = [room |-> r, life |-> room[r].life, drawSeq |-> h.drawSeq,
                    players |-> g.players, winners |-> h.winners]
  OBVIOUS
<1>3. /\ room[r].state = "open" /\ g.status = "Running"
      /\ room'[r].state = "open" /\ room'[r].life = room[r].life /\ room'[r].game = h
      /\ (h.status = "Finished" <=> h.winners # <<>>)
      /\ h.status = "Finished" => played' = played \cup {x}
      /\ h.status # "Finished" => played' = played
      /\ \A q \in Rooms \ {r} : room'[q] = room[q]
  BY <1>1, <1>2, DrawOutcome
<1>4. \A f \in played : f.room = r => f.life # room[r].life
  BY <1>1, <1>3 DEF History, PlayedSound, Shown
<1>5. ASSUME NEW f \in played PROVE PlayedSound(f)'
  <2>1. PlayedSound(f) /\ f.room \in Rooms
    BY DEF History, Seating, Types, Outcomes
  <2>2. CASE f.room = r
    BY <1>3, <1>4, <2>1, <2>2 DEF PlayedSound, Shown
  <2>3. CASE f.room # r
    BY <1>3, <2>1, <2>3 DEF PlayedSound, Shown
  <2> QED
    BY <2>2, <2>3
<1>6. h.status = "Finished" => PlayedSound(x)'
  <2>1. room[r].life \in Nat
    BY SeatedFacts DEF RoomStates
  <2> QED
    BY <1>2, <1>3, <2>1 DEF PlayedSound, Shown
<1>7. \A f, k \in played' : f.room = k.room /\ f.life = k.life => f.drawSeq = k.drawSeq
  BY <1>2, <1>3, <1>4 DEF History
<1>8. ASSUME NEW q \in Rooms, room'[q].state # "none", room'[q].game.status = "Finished"
      PROVE  Kept(q, room[q].life, room[q].game.drawSeq)'
  <2>1. CASE q = r
    BY <1>2, <1>3, <1>8, <2>1 DEF Kept
  <2>2. CASE q # r
    BY <1>3, <1>8, <2>2 DEF Kept, History
  <2> QED
    BY <2>1, <2>2
<1>9. \A f \in played' : PlayedSound(f)'
  BY <1>3, <1>5, <1>6
<1> QED
  BY <1>3, <1>4, <1>7, <1>8, <1>9 DEF History

\* How the rooms and what was played in them may change.
LEMMA NextRooms ==
  ASSUME Seating, History, Hearing, [Next]_vars
  PROVE  \/ \E r \in Rooms : DrawTick(r)
         \/ played' = played /\ \A r \in Rooms : Follows(r)
<1>1. ASSUME room' = room PROVE \A r \in Rooms : Follows(r)
  BY <1>1 DEF Follows
<1>2. ASSUME NEW a \in Actors, ActorActs(a)
      PROVE  played' = played /\ \A r \in Rooms : Follows(r)
  BY <1>2, ActorFollows, ActorTypes DEF ActorActs, Seating
<1>3. ASSUME NEW r \in Rooms, ReportResult(r) \/ Left(r) \/ Closed(r)
      PROVE  played' = played /\ \A q \in Rooms : Follows(q)
  <2>1. played' = played
    BY <1>3 DEF ReportResult, Left, Closed
  <2> QED
    BY <1>3, <2>1, RoomFollows
<1>4. CASE (\E r \in Rooms : Observe(r)) \/ ObserverActs \/ UNCHANGED vars
  <2>1. played' = played /\ room' = room
    BY <1>4, ObserverTypes DEF Observe, vars
  <2> QED
    BY <1>1, <2>1
<1> QED
  BY <1>2, <1>3, <1>4 DEF Next, ActorActs, ObserverActs

LEMMA NextHistory == Seating /\ History /\ Hearing /\ [Next]_vars => History'
BY NextRooms, HistoryStays, DrawHistory

-----------------------------------------------------------------------------
(* What the observer hears *)

\* What was played stays played, and the observer is where he was.
LEMMA HearingStays ==
  ASSUME Hearing, played' = played, UNCHANGED <<watching, rewards>>
  PROVE  Hearing'
BY DEF Hearing, Kept, Swallowed

LEMMA KeptStays ==
  ASSUME played \subseteq played', NEW r, NEW life, NEW n, Kept(r, life, n)
  PROVE  \E g \in played' : g.room = r /\ g.life = life /\ g.drawSeq = n
BY DEF Kept

LEMMA DrawHearing ==
  ASSUME Seating, History, Hearing, NEW r \in Rooms, DrawTick(r)
  PROVE  Hearing'
<1>1. PICK h : h = Drawn(room[r].game)
  OBVIOUS
<1>2. PICK x : x = [room |-> r, life |-> room[r].life, drawSeq |-> h.drawSeq,
                    players |-> room[r].game.players, winners |-> h.winners]
  OBVIOUS
<1>3. PICK e : e = [room |-> r, life |-> room[r].life, drawSeq |-> h.drawSeq]
  OBVIOUS
<1>4. /\ h.status = "Finished" => played' = played \cup {x}
      /\ h.status # "Finished" => played' = played
      /\ \/ rewards' = rewards /\ (h.status = "Finished" => watching.stage = "entry")
         \/ h.status = "Finished" /\ rewards' = rewards \cup {e}
      /\ watching' = watching
  BY <1>1, <1>2, <1>3, DrawOutcome
<1>5. played \subseteq played' /\ rewards \subseteq rewards'
  BY <1>4
<1>6. ASSUME NEW q, NEW life, NEW n, Kept(q, life, n) PROVE Kept(q, life, n)'
  BY <1>5, <1>6 DEF Kept
<1>7. \A d \in rewards' : Kept(d.room, d.life, d.drawSeq)'
  <2>1. \A d \in rewards : Kept(d.room, d.life, d.drawSeq)'
    BY <1>6 DEF Hearing
  <2>2. rewards' = rewards \cup {e} => Kept(e.room, e.life, e.drawSeq)' \/ rewards' = rewards
    BY <1>2, <1>3, <1>4 DEF Kept
  <2> QED
    BY <1>4, <2>1, <2>2
<1>8. ASSUME NEW g \in played', watching.seen # 0, g.room = watching.room, g.life >= watching.seen
      PROVE  \/ \E i \in DOMAIN watching.told : watching.told[i] = g.life
             \/ Swallowed(g)'
             \/ watching.stage = "asked" /\ watching.reward # 0 /\ g.life = watching.seen
             \/ [room |-> g.room, life |-> g.life, drawSeq |-> g.drawSeq] \in rewards'
  <2>1. CASE g \in played
    <3>1. Swallowed(g) => Swallowed(g)'
      BY <1>5 DEF Swallowed
    <3> QED
      BY <1>5, <1>8, <2>1, <3>1 DEF Hearing
  <2>2. CASE g \notin played
    <3>1. g = x /\ h.status = "Finished"
      BY <1>4, <2>2
    <3>2. watching.stage # "entry"
      BY <1>8 DEF Hearing
    <3>3. e \in rewards'
      BY <1>4, <3>1, <3>2
    <3> QED
      BY <1>2, <1>3, <3>1, <3>3
  <2> QED
    BY <2>1, <2>2
<1>9. /\ watching.told # <<>> =>
           Kept(watching.room, watching.told[Len(watching.told)], watching.announced)'
      /\ watching.stage = "asked" /\ watching.reward # 0 =>
           Kept(watching.room, watching.seen, watching.reward)'
  BY <1>4, <1>6 DEF Hearing
<1> QED
  BY <1>4, <1>7, <1>8, <1>9 DEF Hearing

LEMMA AskHearing ==
  ASSUME Seating, History, Hearing, AskObservation
  PROVE  Hearing'
<1>1. PICK r : r = watching.room
  OBVIOUS
<1>2. PICK open : open = (room[r].state # "none")
  OBVIOUS
<1>3. PICK seen : seen = IF open THEN room[r].life ELSE 0
  OBVIOUS
<1>4. PICK reward : reward = IF open /\ room[r].game.winners # <<>> THEN room[r].game.drawSeq ELSE 0
  OBVIOUS
<1>5. /\ watching.stage = "joining" /\ watching \in Observers
      /\ watching' = [watching EXCEPT !.stage = "asked", !.seen = seen, !.reward = reward]
      /\ UNCHANGED <<rewards, played>>
  BY <1>1, <1>2, <1>3, <1>4 DEF AskObservation, Seating, Types
<1>6. /\ watching'.stage = "asked" /\ watching'.seen = seen /\ watching'.reward = reward
      /\ watching'.room = r /\ watching'.told = watching.told
      /\ watching'.announced = watching.announced
  BY <1>1, <1>5 DEF Observers
<1>7. watching.told = <<>> /\ r # None /\ r \in Rooms
  BY <1>1, <1>5 DEF Hearing, Observers
<1>8. /\ RoomSound(r) /\ GameSound(room[r].game, given[r]) /\ room[r].life \in Nat
  BY <1>7, SeatedFacts DEF RoomSound, RoomStates
<1>9. reward # 0 => Kept(r, seen, reward)
  BY <1>2, <1>3, <1>4, <1>7, <1>8 DEF History, GameSound
<1>10. ASSUME NEW g \in played, seen # 0, g.room = r, g.life >= seen
       PROVE  reward # 0 /\ g.life = seen
  <2>1. PlayedSound(g) /\ g.life \in Nat
    BY DEF History, Seating, Types, Outcomes
  <2>2. open /\ seen = room[r].life /\ g.life <= room[r].life
    BY <1>3, <1>10, <2>1 DEF PlayedSound
  <2>3. g.life = seen
    BY <1>8, <1>10, <2>1, <2>2
  <2>4. room[r].game.status = "Finished"
    BY <1>2, <1>10, <2>1, <2>2, <2>3 DEF PlayedSound, Shown
  <2>5. room[r].game.winners # <<>> /\ room[r].game.drawSeq # 0
    BY <1>8, <2>4 DEF GameSound
  <2> QED
    BY <1>4, <2>2, <2>3, <2>5
<1>11. \A i \in 1 .. Len(watching'.told) - 1 : watching'.told[i] # watching'.told[i + 1]
  BY <1>6 DEF Hearing
<1>12. \A d \in rewards' : Kept(d.room, d.life, d.drawSeq)'
  BY <1>5 DEF Hearing, Kept
<1>13. Kept(r, seen, reward) => Kept(watching.room, watching.seen, watching.reward)'
  BY <1>5, <1>6 DEF Kept
<1>14. (watching.announced = 0 <=> watching.told = <<>>)'
  BY <1>6 DEF Hearing
<1> QED
  BY <1>5, <1>6, <1>7, <1>9, <1>10, <1>11, <1>12, <1>13, <1>14 DEF Hearing

\* The observer is told of a game that was played.
LEMMA AnnounceHearing ==
  ASSUME Seating, History, Hearing, played' = played, rewards' \subseteq rewards,
         NEW w \in Observers, w.stage = "in", w.room = watching.room, w.room # None,
         w.seen = watching.seen, w.told = watching.told, w.announced = watching.announced,
         NEW life \in Nat, NEW n \in Nat, Kept(w.room, life, n),
         watching' = Announce(w, life, n),
         \A g \in played : w.seen # 0 /\ g.room = w.room /\ g.life >= w.seen =>
           \/ \E i \in DOMAIN w.told : w.told[i] = g.life
           \/ Swallowed(g)
           \/ g.life = life /\ g.drawSeq = n
           \/ [room |-> g.room, life |-> g.life, drawSeq |-> g.drawSeq] \in rewards'
  PROVE  Hearing'
<1>1. PICK f \in played : f.room = w.room /\ f.life = life /\ f.drawSeq = n
  BY DEF Kept
<1>2. n # 0
  BY <1>1 DEF Seating, Types, Outcomes
<1>3. \A d \in rewards' : Kept(d.room, d.life, d.drawSeq)'
  BY DEF Hearing, Kept
<1>4. ASSUME NEW g \in played PROVE Swallowed(g) => Swallowed(g)'
  BY DEF Swallowed
<1>5. CASE w.announced = n
  <2>1. watching' = w
    BY <1>5 DEF Announce
  <2>2. w.told # <<>> /\ Kept(w.room, w.told[Len(w.told)], n)
    BY <1>2, <1>5 DEF Hearing
  <2>3. \A i \in 1 .. Len(w.told) - 1 : w.told[i] # w.told[i + 1]
    BY DEF Hearing
  <2>4. Kept(watching.room, watching.told[Len(watching.told)], watching.announced)'
    BY <1>5, <2>1, <2>2 DEF Kept
  <2>5. ASSUME NEW g \in played, g.room = w.room, g.life = life, g.drawSeq = n
        PROVE  (\E i \in DOMAIN w.told : w.told[i] = g.life) \/ Swallowed(g)'
    <3>1. PICK k \in played : k.room = w.room /\ k.life = w.told[Len(w.told)] /\ k.drawSeq = n
      BY <2>2 DEF Kept
    <3>2. Len(w.told) \in DOMAIN w.told
      BY <2>2 DEF Observers
    <3>3. CASE k.life = g.life
      BY <3>1, <3>2, <3>3
    <3>4. CASE k.life # g.life
      BY <2>5, <3>1, <3>4 DEF Swallowed
    <3> QED
      BY <3>3, <3>4
  <2>6. \A g \in played' : watching'.seen # 0 /\ g.room = watching'.room /\ g.life >= watching'.seen =>
           \/ \E i \in DOMAIN watching'.told : watching'.told[i] = g.life
           \/ Swallowed(g)'
           \/ [room |-> g.room, life |-> g.life, drawSeq |-> g.drawSeq] \in rewards'
    BY <1>4, <2>1, <2>5
  <2> QED
    BY <1>2, <1>3, <1>5, <2>1, <2>2, <2>3, <2>4, <2>6 DEF Hearing
<1>6. CASE w.announced # n
  <2>1. PICK t, s : t = Append(s, life) /\ s = w.told
    OBVIOUS
  <2>2. watching' = [w EXCEPT !.announced = n, !.told = t]
    <3>1. Announce(w, life, n) = [w EXCEPT !.announced = n, !.told = Append(w.told, life)]
      BY <1>6 DEF Announce
    <3> QED
      BY <2>1, <3>1
  <2>3. /\ watching'.stage = "in" /\ watching'.seen = w.seen /\ watching'.room = w.room
        /\ watching'.announced = n /\ watching'.told = t
    BY <2>2 DEF Observers
  <2>4. s \in Seq(Nat) /\ Len(s) \in Nat /\ DOMAIN s = 1 .. Len(s)
    BY <2>1 DEF Observers
  <2>5. /\ t \in Seq(Nat) /\ Len(t) = Len(s) + 1 /\ t[Len(s) + 1] = life /\ t # <<>>
        /\ DOMAIN t = 1 .. Len(s) + 1
    BY <2>1, <2>4
  <2>6. \A i \in 1 .. Len(s) : t[i] = s[i]
    BY <2>1, <2>4
  <2>7. s # <<>> => s[Len(s)] # life
    <3> SUFFICES ASSUME s # <<>>, s[Len(s)] = life PROVE FALSE
      OBVIOUS
    <3>1. Kept(w.room, life, w.announced)
      BY <2>1 DEF Hearing
    <3>2. PICK k \in played : k.room = w.room /\ k.life = life /\ k.drawSeq = w.announced
      BY <3>1 DEF Kept
    <3> QED
      BY <1>1, <1>6, <3>2 DEF History
  <2>8. \A i \in 1 .. Len(t) - 1 : t[i] # t[i + 1]
    <3> SUFFICES ASSUME NEW i \in 1 .. Len(t) - 1 PROVE t[i] # t[i + 1]
      OBVIOUS
    <3>1. i \in 1 .. Len(s) /\ t[i] = s[i]
      BY <2>4, <2>5, <2>6
    <3>2. CASE i = Len(s)
      <4>1. s # <<>>
        BY <2>4, <3>1, <3>2
      <4> QED
        BY <2>5, <2>7, <3>1, <3>2, <4>1
    <3>3. CASE i # Len(s)
      <4>1. i + 1 \in 1 .. Len(s) /\ i \in 1 .. Len(s) - 1
        BY <2>4, <3>1, <3>3
      <4>2. s[i] # s[i + 1]
        BY <2>1, <4>1 DEF Hearing
      <4> QED
        BY <2>6, <3>1, <4>1, <4>2
    <3> QED
      BY <3>2, <3>3
  <2>9. t[Len(t)] = life
    BY <2>4, <2>5
  <2>10. Kept(watching.room, watching.told[Len(watching.told)], watching.announced)'
    BY <1>1, <2>3, <2>9 DEF Kept
  <2>11. Len(s) + 1 \in DOMAIN t
    BY <2>4, <2>5
  <2>12. \A g \in played' : watching'.seen # 0 /\ g.room = watching'.room /\ g.life >= watching'.seen =>
           \/ \E i \in DOMAIN watching'.told : watching'.told[i] = g.life
           \/ Swallowed(g)'
           \/ [room |-> g.room, life |-> g.life, drawSeq |-> g.drawSeq] \in rewards'
    <3> SUFFICES ASSUME NEW g \in played, w.seen # 0, g.room = w.room, g.life >= w.seen
                 PROVE  \/ \E i \in DOMAIN t : t[i] = g.life
                        \/ Swallowed(g)'
                        \/ [room |-> g.room, life |-> g.life, drawSeq |-> g.drawSeq] \in rewards'
      BY <2>3
    <3>1. (\E i \in DOMAIN s : s[i] = g.life) => \E i \in DOMAIN t : t[i] = g.life
      <4> SUFFICES ASSUME NEW i \in DOMAIN s, s[i] = g.life PROVE \E j \in DOMAIN t : t[j] = g.life
        OBVIOUS
      <4>1. i \in DOMAIN t /\ t[i] = s[i]
        BY <2>4, <2>5, <2>6
      <4> QED
        BY <4>1
    <3>2. g.life = life => \E i \in DOMAIN t : t[i] = g.life
      BY <2>5, <2>11
    <3> QED
      BY <1>4, <2>1, <3>1, <3>2
  <2> QED
    BY <1>2, <1>3, <2>3, <2>5, <2>8, <2>10, <2>12 DEF Hearing
<1> QED
  BY <1>5, <1>6

LEMMA ObservedHearing ==
  ASSUME Seating, History, Hearing, Observed
  PROVE  Hearing'
<1>1. PICK w : w = [watching EXCEPT !.stage = "in"]
  OBVIOUS
<1>2. watching \in Observers /\ watching.stage = "asked" /\ played' = played /\ rewards' = rewards
  BY DEF Observed, Seating, Types
<1>3. /\ w \in Observers /\ w.stage = "in" /\ w.room = watching.room /\ w.seen = watching.seen
      /\ w.told = watching.told /\ w.announced = watching.announced /\ w.reward = watching.reward
      /\ w.seen \in Nat /\ w.reward \in Nat
  BY <1>1, <1>2 DEF Observers
<1>4. watching' = IF w.reward # 0 THEN Announce(w, w.seen, w.reward) ELSE w
  BY <1>1 DEF Observed
<1>5. w.room # None
  BY <1>2, <1>3 DEF Hearing
<1>6. CASE w.reward # 0
  <2>1. Kept(w.room, w.seen, w.reward)
    BY <1>2, <1>3, <1>6 DEF Hearing
  <2>2. \A g \in played : g.room = w.room /\ g.life = w.seen => g.drawSeq = w.reward
    BY <2>1 DEF History, Kept
  <2>3. \A g \in played : w.seen # 0 /\ g.room = w.room /\ g.life >= w.seen =>
           \/ \E i \in DOMAIN w.told : w.told[i] = g.life
           \/ Swallowed(g)
           \/ g.life = w.seen /\ g.drawSeq = w.reward
           \/ [room |-> g.room, life |-> g.life, drawSeq |-> g.drawSeq] \in rewards'
    BY <1>2, <1>3, <2>2 DEF Hearing
  <2>4. watching' = Announce(w, w.seen, w.reward)
    BY <1>4, <1>6
  <2> QED
    BY <1>2, <1>3, <1>5, <2>1, <2>3, <2>4, AnnounceHearing
<1>7. CASE w.reward = 0
  <2>1. watching' = w
    BY <1>4, <1>7
  <2>2. ASSUME NEW g \in played PROVE Swallowed(g) => Swallowed(g)'
    BY <1>2 DEF Swallowed
  <2>3. \A q, life, n : Kept(q, life, n)' <=> Kept(q, life, n)
    BY <1>2 DEF Kept
  <2>4. w.told = <<>>
    BY <1>2, <1>3 DEF Hearing
  <2> QED
    BY <1>2, <1>3, <1>5, <1>7, <2>1, <2>2, <2>3, <2>4 DEF Hearing
<1> QED
  BY <1>6, <1>7

LEMMA RewardHearing ==
  ASSUME Seating, History, Hearing, NEW e \in rewards, OnRewardAcquired(e)
  PROVE  Hearing'
<1>1. /\ watching \in Observers /\ watching.stage # "asked" /\ played' = played
      /\ rewards' = rewards \ {e} /\ e.life \in Nat /\ e.drawSeq \in Nat
      /\ e = [room |-> e.room, life |-> e.life, drawSeq |-> e.drawSeq]
  BY DEF OnRewardAcquired, Seating, Types
<1>2. CASE watching.stage = "in" /\ e.room = watching.room
  <2>1. watching' = Announce(watching, e.life, e.drawSeq)
    BY <1>2 DEF OnRewardAcquired
  <2>2. watching.room # None /\ Kept(watching.room, e.life, e.drawSeq)
    BY <1>2 DEF Hearing
  <2>3. \A g \in played :
          watching.seen # 0 /\ g.room = watching.room /\ g.life >= watching.seen =>
           \/ \E i \in DOMAIN watching.told : watching.told[i] = g.life
           \/ Swallowed(g)
           \/ g.life = e.life /\ g.drawSeq = e.drawSeq
           \/ [room |-> g.room, life |-> g.life, drawSeq |-> g.drawSeq] \in rewards'
    BY <1>1, <1>2 DEF Hearing
  <2> QED
    BY <1>1, <1>2, <2>1, <2>2, <2>3, AnnounceHearing
<1>3. CASE ~(watching.stage = "in" /\ e.room = watching.room)
  <2>1. watching' = watching
    BY <1>3 DEF OnRewardAcquired
  <2>2. ASSUME NEW g \in played PROVE Swallowed(g) => Swallowed(g)'
    BY <1>1 DEF Swallowed
  <2>3. \A q, life, n : Kept(q, life, n)' <=> Kept(q, life, n)
    BY <1>1 DEF Kept
  <2>4. watching.seen # 0 => watching.stage = "in"
    BY <1>1 DEF Hearing, Observers
  <2>5. \A g \in played : watching.seen # 0 /\ g.room = watching.room =>
          [room |-> g.room, life |-> g.life, drawSeq |-> g.drawSeq] # e
    BY <1>1, <1>3, <2>4
  <2> QED
    BY <1>1, <2>1, <2>2, <2>3, <2>4, <2>5 DEF Hearing
<1> QED
  BY <1>2, <1>3

LEMMA NextHearing == Seating /\ History /\ Hearing /\ [Next]_vars => Hearing'
<1> SUFFICES ASSUME Seating, History, Hearing, [Next]_vars PROVE Hearing'
  OBVIOUS
<1>1. ASSUME NEW a \in Actors, ActorActs(a) PROVE Hearing'
  <2>1. UNCHANGED <<played, watching, rewards>>
    BY <1>1, ActorTypes DEF ActorActs, Seating, watchVars
  <2> QED
    BY <2>1, HearingStays
<1>2. ASSUME NEW r \in Rooms, ReportResult(r) \/ Left(r) \/ Closed(r) PROVE Hearing'
  BY <1>2, HearingStays DEF ReportResult, Left, Closed, watchVars
<1>3. ASSUME NEW r \in Rooms, Observe(r) PROVE Hearing'
  <2>1. /\ watching' = [NotWatching EXCEPT !.stage = "joining", !.room = r]
        /\ UNCHANGED <<played, rewards>>
    BY <1>3 DEF Observe
  <2>2. /\ watching'.stage = "joining" /\ watching'.room = r /\ watching'.seen = 0
        /\ watching'.told = <<>> /\ watching'.announced = 0
    BY <2>1 DEF NotWatching
  <2>3. \A d \in rewards' : Kept(d.room, d.life, d.drawSeq)'
    BY <2>1 DEF Hearing, Kept
  <2> QED
    BY <2>2, <2>3, BingoAssumption DEF Hearing
<1>4. CASE StopObserving
  <2>1. watching' = NotWatching /\ rewards' = {}
    BY <1>4 DEF StopObserving
  <2>2. /\ watching'.stage = "entry" /\ watching'.seen = 0
        /\ watching'.told = <<>> /\ watching'.announced = 0
    BY <2>1 DEF NotWatching
  <2> QED
    BY <2>1, <2>2 DEF Hearing
<1>5. CASE UNCHANGED vars
  BY <1>5, HearingStays DEF vars, watchVars
<1> QED
  BY <1>1, <1>2, <1>3, <1>4, <1>5, DrawHearing, AskHearing, ObservedHearing, RewardHearing
     DEF Next, ActorActs

-----------------------------------------------------------------------------
(* The record of each player *)

LEMMA ResultsFinite ==
  ASSUME Types, NEW a
  PROVE  /\ IsFiniteSet(Results(a)) /\ IsFiniteSet(Wins(a))
         /\ Cardinality(Results(a)) \in Nat /\ Cardinality(Wins(a)) \in Nat
<1>1. IsFiniteSet(played) /\ Results(a) \subseteq played /\ Wins(a) \subseteq played
  BY DEF Types, Results, Wins
<1>2. IsFiniteSet(Results(a)) /\ IsFiniteSet(Wins(a))
  BY <1>1, FS_Subset
<1> QED
  BY <1>2, FS_CardinalityType

\* An actor owes a result to the room he is in, and to no other.
LEMMA OwesHisRoom ==
  ASSUME Seating, NEW a \in Actors, NEW r \in Unreported(a)
  PROVE  goal[a] = r /\ a \in room[r].actors /\ room[r].leaving # <<>>
<1>1. r \in Rooms /\ RoomSound(r) /\ \E i \in DOMAIN room[r].leaving : room[r].leaving[i] = a
  BY SeatedFacts DEF Unreported
<1> QED
  BY <1>1 DEF RoomSound

LEMMA OwedOnce ==
  ASSUME Seating, NEW a \in Actors
  PROVE  /\ IsFiniteSet(Unreported(a)) /\ IsFiniteSet(Owing(a))
         /\ Cardinality(Unreported(a)) \in Nat /\ Cardinality(Owing(a)) \in Nat
<1>1. Unreported(a) \subseteq {goal[a]} /\ Owing(a) \subseteq {goal[a]}
  BY OwesHisRoom DEF Owing
<1>2. IsFiniteSet({goal[a]})
  BY FS_Singleton
<1>3. IsFiniteSet(Unreported(a)) /\ IsFiniteSet(Owing(a))
  BY <1>1, <1>2, FS_Subset
<1> QED
  BY <1>3, FS_CardinalityType

\* The clean-up of every room stands where it stood.
LEMMA SameRecord ==
  ASSUME Seating, NEW a \in Actors, Recorded(a), UNCHANGED <<record, played>>,
         \A r \in Rooms : room'[r].leaving = room[r].leaving /\ room'[r].reported = room[r].reported,
         \A r \in Rooms : room[r].leaving # <<>> => room'[r].game.winners = room[r].game.winners
  PROVE  Recorded(a)'
<1>1. Unreported(a)' = Unreported(a)
  BY DEF Unreported
<1>2. \A r \in Unreported(a) : Won(room'[r].game, a) <=> Won(room[r].game, a)
  BY OwesHisRoom DEF Unreported, Won
<1>3. Owing(a)' = Owing(a)
  BY <1>1, <1>2 DEF Owing
<1>4. Results(a)' = Results(a) /\ Wins(a)' = Wins(a)
  BY DEF Results, Wins
<1> QED
  BY <1>1, <1>3, <1>4 DEF Recorded

LEMMA DrawRecord ==
  ASSUME Seating, History, NEW a \in Actors, Recorded(a), NEW r \in Rooms, DrawTick(r)
  PROVE  Recorded(a)'
<1>1. PICK g, h : g = room[r].game /\ h = Drawn(g)
  OBVIOUS
<1>2. PICK z : z = [room |-> r, life |-> room[r].life, drawSeq |-> h.drawSeq,
                    players |-> g.players, winners |-> h.winners]
  OBVIOUS
<1>3. /\ room[r].leaving = <<>> /\ room'[r].game = h /\ room'[r].reported = room[r].reported
      /\ room[r].reported = FALSE
      /\ h.status = "Finished" <=> h.winners # <<>>
      /\ h.status = "Finished" => played' = played \cup {z}
      /\ h.status # "Finished" => played' = played /\ room'[r].leaving = <<>>
      /\ record' = record /\ \A q \in Rooms \ {r} : room'[q] = room[q]
  BY <1>1, <1>2, DrawOutcome
<1>4. CASE h.status # "Finished"
  BY <1>3, <1>4, SameRecord
<1>5. CASE h.status = "Finished"
  <2>1. PICK x \in room[r].actors, y \in room[r].actors :
          /\ \A c : IsIn(g, c) <=> c = x \/ c = y
          /\ room'[r] = AfterDraw(r, h, <<x, y>>)
    BY <1>1, DrawRoom
  <2>2. room'[r].leaving = <<x, y>>
    <3>1. room[r] \in RoomStates /\ h.winners # <<>>
      BY <1>3, <1>5, SeatedFacts
    <3> QED
      BY <2>1, <3>1 DEF AfterDraw, RoomStates
  <2>3. (\E i \in DOMAIN room'[r].leaving :
           room'[r].leaving[i] = a /\ ~(i = 1 /\ room'[r].reported)) <=> IsIn(g, a)
    <3>1. DOMAIN room'[r].leaving = 1 .. 2 /\ room'[r].leaving[1] = x /\ room'[r].leaving[2] = y
      BY <2>2
    <3>2. 1 \in 1 .. 2 /\ 2 \in 1 .. 2 /\ \A i \in 1 .. 2 : i = 1 \/ i = 2
      OBVIOUS
    <3> QED
      BY <1>3, <2>1, <3>1, <3>2
  <2>4. z \notin played
    BY <1>2, DrawHistory
  <2>5. r \notin Unreported(a)
    BY <1>3, OwesHisRoom
  <2>6. CASE ~IsIn(g, a)
    <3>1. Unreported(a)' = Unreported(a)
      BY <1>3, <2>3, <2>5, <2>6 DEF Unreported
    <3>2. Owing(a)' = Owing(a)
      BY <1>3, <2>5, <3>1 DEF Owing, Unreported
    <3>3. Results(a)' = Results(a)
      BY <1>2, <1>3, <1>5, <2>6 DEF Results, IsIn
    <3>4. Wins(a)' = Wins(a)
      BY <3>3 DEF Wins
    <3> QED
      BY <1>3, <3>1, <3>2, <3>3, <3>4 DEF Recorded
  <2>7. CASE IsIn(g, a)
    <3>1. goal[a] = r
      <4>1. a \in room[r].actors
        BY <2>1, <2>7
      <4> QED
        BY <4>1, SeatedFacts DEF RoomSound
    <3>2. Unreported(a) = {} /\ Owing(a) = {}
      BY <2>5, <3>1, OwesHisRoom DEF Owing
    <3>3. Unreported(a)' = {r}
      BY <1>3, <2>3, <2>7, <3>2 DEF Unreported
    <3>4. Results(a)' = Results(a) \cup {z} /\ z \notin Results(a) /\ z \notin Wins(a)
      BY <1>2, <1>3, <1>5, <2>4, <2>7 DEF Results, Wins, IsIn
    <3>5. /\ Cardinality(Results(a)') = Cardinality(Results(a)) + 1
          /\ Cardinality(Wins(a) \cup {z}) = Cardinality(Wins(a)) + 1
          /\ Cardinality(Results(a)) \in Nat /\ Cardinality(Wins(a)) \in Nat
      BY <3>4, SeatedFacts, ResultsFinite, FS_AddElement
    <3>6. Cardinality({r}) = 1 /\ Cardinality({}) = 0
      BY FS_Singleton, FS_EmptySet
    <3>7. record[a].wins \in Nat /\ record[a].losses \in Nat
      BY SeatedFacts DEF Types
    <3>8. /\ record[a].wins + record[a].losses = Cardinality(Results(a))
          /\ record[a].wins = Cardinality(Wins(a))
      BY <3>2, <3>5, <3>6, <3>7 DEF Recorded
    <3>9. CASE Won(h, a)
      <4>1. Owing(a)' = {r}
        BY <1>3, <3>3, <3>9 DEF Owing
      <4>2. Wins(a)' = Wins(a) \cup {z}
        BY <1>2, <3>4, <3>9 DEF Wins, Won
      <4> QED
        BY <1>3, <3>3, <3>5, <3>6, <3>7, <3>8, <4>1, <4>2 DEF Recorded
    <3>10. CASE ~Won(h, a)
      <4>1. Owing(a)' = {}
        BY <1>3, <3>3, <3>10 DEF Owing
      <4>2. Wins(a)' = Wins(a)
        BY <1>2, <3>4, <3>10 DEF Wins, Won
      <4> QED
        BY <1>3, <3>3, <3>5, <3>6, <3>7, <3>8, <4>1, <4>2 DEF Recorded
    <3> QED
      BY <3>9, <3>10
  <2> QED
    BY <2>6, <2>7
<1> QED
  BY <1>4, <1>5

\* The API adds the result of the actor who leaves, and of nobody else.
LEMMA ReportRecord ==
  ASSUME Seating, NEW a \in Actors, Recorded(a), NEW r \in Rooms, ReportResult(r)
  PROVE  Recorded(a)'
<1>1. PICK s : s = room[r].leaving
  OBVIOUS
<1>2. /\ s # <<>> /\ room[r].reported = FALSE /\ room[r] \in RoomStates /\ RoomSound(r)
      /\ room \in [Rooms -> RoomStates] /\ s \in Seq(Actors)
  BY <1>1, SeatedFacts DEF ReportResult, RoomStates
<1>3. PICK b : b = Leaver(r)
  OBVIOUS
<1>4. b = s[1] /\ 1 \in DOMAIN s /\ b \in Actors
  BY <1>1, <1>2, <1>3 DEF Leaver
<1>5. room' = [room EXCEPT ![r].reported = TRUE] /\ played' = played
  BY DEF ReportResult
<1>6. /\ \A q \in Rooms \ {r} : room'[q] = room[q]
      /\ room'[r].leaving = s /\ room'[r].reported = TRUE /\ room'[r].game = room[r].game
  BY <1>1, <1>2, <1>5 DEF RoomStates
<1>7. record \in [Actors -> [wins : Nat, losses : Nat]]
  BY SeatedFacts DEF Types
<1>8. record' = IF Won(room[r].game, b) THEN [record EXCEPT ![b].wins = @ + 1]
                ELSE [record EXCEPT ![b].losses = @ + 1]
  BY <1>3 DEF ReportResult
<1>9. Results(a)' = Results(a) /\ Wins(a)' = Wins(a)
  BY <1>5 DEF Results, Wins
<1>10. \A i \in DOMAIN s : s[i] = b => i = 1
  BY <1>1, <1>2, <1>4 DEF RoomSound
<1>11. \A q \in Rooms : room'[q].game = room[q].game
  BY <1>6
<1>12. CASE a # b
  <2>1. record'[a] = record[a]
    BY <1>4, <1>7, <1>8, <1>12
  <2>2. Unreported(a)' = Unreported(a)
    BY <1>1, <1>2, <1>4, <1>6, <1>12 DEF Unreported
  <2>3. Owing(a)' = Owing(a)
    BY <1>11, <2>2 DEF Owing, Unreported
  <2> QED
    BY <1>9, <2>1, <2>2, <2>3 DEF Recorded
<1>13. CASE a = b
  <2>1. r \in Unreported(a)
    BY <1>1, <1>2, <1>4, <1>13 DEF Unreported
  <2>2. goal[a] = r /\ Unreported(a) = {r}
    BY <2>1, OwesHisRoom
  <2>3. Unreported(a)' = {}
    BY <1>6, <1>10, <1>13, <2>2 DEF Unreported
  <2>4. Owing(a)' = {}
    BY <2>3 DEF Owing
  <2>5. Cardinality({r}) = 1 /\ Cardinality({}) = 0
    BY FS_Singleton, FS_EmptySet
  <2>6. PICK w \in Nat, l \in Nat : record[a] = [wins |-> w, losses |-> l]
    BY <1>7
  <2>7. PICK nr \in Nat, nw \in Nat : nr = Cardinality(Results(a)) /\ nw = Cardinality(Wins(a))
    BY SeatedFacts, ResultsFinite
  <2>8. CASE Won(room[r].game, a)
    <3>1. record'[a].wins = w + 1 /\ record'[a].losses = l
      BY <1>7, <1>8, <1>13, <2>6, <2>8
    <3>2. Owing(a) = {r}
      BY <2>2, <2>8 DEF Owing
    <3>3. w + l + 1 = nr /\ w + 1 = nw
      BY <2>2, <2>5, <2>6, <2>7, <3>2 DEF Recorded
    <3> QED
      BY <1>9, <2>3, <2>4, <2>5, <2>7, <3>1, <3>3 DEF Recorded
  <2>9. CASE ~Won(room[r].game, a)
    <3>1. record'[a].wins = w /\ record'[a].losses = l + 1
      BY <1>7, <1>8, <1>13, <2>6, <2>9
    <3>2. Owing(a) = {}
      BY <2>2, <2>9 DEF Owing
    <3>3. w + l + 1 = nr /\ w = nw
      BY <2>2, <2>5, <2>6, <2>7, <3>2 DEF Recorded
    <3> QED
      BY <1>9, <2>3, <2>4, <2>5, <2>7, <3>1, <3>3 DEF Recorded
  <2> QED
    BY <2>8, <2>9
<1> QED
  BY <1>12, <1>13

LEMMA LeftRecord ==
  ASSUME Seating, NEW a \in Actors, Recorded(a), NEW r \in Rooms, Left(r)
  PROVE  Recorded(a)'
<1>1. PICK s, t : s = room[r].leaving /\ t = room'[r].leaving
  OBVIOUS
<1>2. /\ \A q \in Rooms \ {r} : room'[q] = room[q]
      /\ room'[r].game = room[r].game /\ ~room'[r].reported
      /\ \A i \in DOMAIN t : t[i] = s[i + 1] /\ i + 1 \in DOMAIN s
      /\ \A i \in DOMAIN s : i = 1 \/ (i - 1 \in DOMAIN t /\ i = (i - 1) + 1)
  BY <1>1, LeftRoom
<1>3. room[r].reported /\ UNCHANGED <<record, played>>
  BY DEF Left
<1>4. \A i \in DOMAIN t : i \in Nat /\ i # 0
  <2>1. Types'
    BY RoomTypes
  <2>2. t \in Seq(Actors)
    BY <1>1, <2>1 DEF Types, RoomStates
  <2> QED
    BY <2>2
<1>5. (\E i \in DOMAIN t : t[i] = a) <=> (\E j \in DOMAIN s : s[j] = a /\ j # 1)
  <2>1. ASSUME NEW i \in DOMAIN t, t[i] = a PROVE \E j \in DOMAIN s : s[j] = a /\ j # 1
    <3>1. i + 1 \in DOMAIN s /\ s[i + 1] = a /\ i + 1 # 1
      BY <1>2, <1>4, <2>1
    <3> QED
      BY <3>1
  <2>2. ASSUME NEW j \in DOMAIN s, s[j] = a, j # 1 PROVE \E i \in DOMAIN t : t[i] = a
    BY <1>2, <2>2
  <2> QED
    BY <2>1, <2>2
<1>6. Unreported(a)' = Unreported(a)
  BY <1>1, <1>2, <1>3, <1>5 DEF Unreported
<1>7. Owing(a)' = Owing(a)
  BY <1>2, <1>6 DEF Owing, Unreported
<1>8. Results(a)' = Results(a) /\ Wins(a)' = Wins(a)
  BY <1>3 DEF Results, Wins
<1> QED
  BY <1>3, <1>6, <1>7, <1>8 DEF Recorded

LEMMA NextRecord ==
  Seating /\ History /\ Hearing /\ (\A a \in Actors : Recorded(a)) /\ [Next]_vars
    => (\A a \in Actors : Recorded(a))'
<1> SUFFICES ASSUME Seating, History, Hearing, \A c \in Actors : Recorded(c), [Next]_vars,
                    NEW a \in Actors
             PROVE  Recorded(a)'
  OBVIOUS
<1>1. ASSUME UNCHANGED <<record, played, room>> PROVE Recorded(a)'
  BY <1>1, SameRecord
<1>2. ASSUME NEW b \in Actors, ActorActs(b) PROVE Recorded(a)'
  <2>1. UNCHANGED <<record, played>>
    BY <1>2, ActorTypes DEF ActorActs, Seating
  <2> QED
    BY <1>2, <2>1, ActorFollows, SameRecord
<1>3. ASSUME NEW r \in Rooms, Closed(r) PROVE Recorded(a)'
  <2>1. room' = [room EXCEPT ![r] = [NoRoom EXCEPT !.life = room[r].life]]
    BY <1>3 DEF Closed
  <2>2. /\ room \in [Rooms -> RoomStates] /\ RoomSound(r) /\ room[r].state = "closing"
    BY <1>3, SeatedFacts DEF Closed
  <2>3. room[r].leaving = <<>> /\ room[r].reported = FALSE
    BY <2>2 DEF RoomSound, RoomStates
  <2>4. room'[r].leaving = <<>> /\ room'[r].reported = FALSE
    BY <2>1, <2>2 DEF NoRoom
  <2>5. \A q \in Rooms \ {r} : room'[q] = room[q]
    BY <2>1, <2>2
  <2>6. UNCHANGED <<record, played>>
    BY <1>3 DEF Closed
  <2> QED
    BY <2>3, <2>4, <2>5, <2>6, SameRecord
<1>4. CASE (\E r \in Rooms : Observe(r)) \/ ObserverActs \/ UNCHANGED vars
  <2>1. UNCHANGED <<record, played, room>>
    BY <1>4, ObserverTypes DEF Observe, vars
  <2> QED
    BY <1>1, <2>1
<1> QED
  BY <1>2, <1>3, <1>4, DrawRecord, ReportRecord, LeftRecord DEF Next, ActorActs, ObserverActs

-----------------------------------------------------------------------------
(* The invariant and what follows from it *)

LEMMA InitHolds == Init => BInv
<1> SUFFICES ASSUME Init PROVE BInv
  OBVIOUS
<1>1. played = {} /\ rewards = {} /\ watching = NotWatching /\ \A r \in Rooms : room[r] = NoRoom
  BY DEF Init
<1>2. History
  BY <1>1 DEF History, NoRoom
<1>3. Hearing
  BY <1>1 DEF Hearing, NotWatching
<1>4. ASSUME NEW a \in Actors PROVE Recorded(a)
  <2>1. Unreported(a) = {} /\ Owing(a) = {} /\ Results(a) = {} /\ Wins(a) = {}
    BY <1>1 DEF Unreported, Owing, Results, Wins, NoRoom
  <2>2. record[a] = [wins |-> 0, losses |-> 0]
    BY DEF Init
  <2> QED
    BY <2>1, <2>2, FS_EmptySet DEF Recorded
<1> QED
  BY <1>2, <1>3, <1>4, InitSeats DEF BInv

LEMMA NextHolds == BInv /\ [Next]_vars => BInv'
BY NextSeats, NextHistory, NextHearing, NextRecord DEF BInv

LEMMA RecordsSuffice == BInv => FinishedOnce
<1> SUFFICES ASSUME BInv PROVE FinishedOnce
  OBVIOUS
<1>1. ResultsOnce
  <2>1. ASSUME NEW a \in Actors
        PROVE  /\ record[a].wins + record[a].losses
                    = Cardinality(Results(a)) - Cardinality(Unreported(a))
               /\ record[a].wins = Cardinality(Wins(a)) - Cardinality(Owing(a))
    <3>1. PICK w \in Nat, l \in Nat : w = record[a].wins /\ l = record[a].losses
      BY DEF BInv, Seating, Types
    <3>2. PICK u \in Nat, o \in Nat : u = Cardinality(Unreported(a)) /\ o = Cardinality(Owing(a))
      BY OwedOnce DEF BInv
    <3>3. w + l + u = Cardinality(Results(a)) /\ w + o = Cardinality(Wins(a))
      BY <3>1, <3>2 DEF BInv, Recorded
    <3> QED
      BY <3>1, <3>2, <3>3
  <2>2. \A g \in played : g.winners # <<>>
    BY DEF BInv, History, PlayedSound
  <2> QED
    BY <2>1, <2>2 DEF ResultsOnce, Owing
<1>2. RewardToldOnce
  BY DEF BInv, Hearing, RewardToldOnce
<1> QED
  BY <1>1, <1>2 DEF FinishedOnce

\* The matchmaker, the joins with their yields and the clean-up together let in nobody
\* but the two actors a room was given to, and send nobody back who was let in.
THEOREM TwoStayTwo == Spec => []TwoPerRoom
<1>1. BInv /\ [Next]_vars => BInv'
  BY NextHolds
<1>2. BInv => TwoPerRoom
  BY SeatsSuffice DEF BInv
<1> QED
  BY InitHolds, <1>1, <1>2, PTL DEF Spec

\* Every finished game is in the record of each of its players once, however the yields
\* of the clean-up interleave, and the observer's room tells of it as it should.
THEOREM GamesEndOnce == Spec => []FinishedOnce
<1>1. BInv /\ [Next]_vars => BInv'
  BY NextHolds
<1> QED
  BY InitHolds, <1>1, RecordsSuffice, PTL DEF Spec

=============================================================================
