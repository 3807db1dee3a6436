--------------------------------- MODULE Bingo ---------------------------------
(***************************************************************************)
(* Bingo's servers (samples/Bingo/Server): the matchmaker that gives two   *)
(* actors the same room, the API between it and the Entry Spot, the game   *)
(* room with the yields of its callbacks, the clean-up of a finished room, *)
(* the players' record and the room of an observer.                        *)
(*                                                                         *)
(* A callback that yields lets the room take other turns; one that awaits  *)
(* holds the room.  The framework (external) delivers a published reward   *)
(* to every observer room that exists, and destroys a closed room after    *)
(* its last turn.  An actor that was destroyed may sign in again.          *)
(*                                                                         *)
(* Bounds: MaxMatches match requests, MaxWatches stays of the observer.    *)
(***************************************************************************)
EXTENDS BingoGame

CONSTANTS Actors, Rooms, Observer, Cards, MaxMatches, MaxWatches, None

ASSUME BingoAssumption ==
  /\ Observer \notin Actors /\ None \notin Actors \cup Rooms
  /\ MaxMatches \in Nat /\ MaxWatches \in Nat

VARIABLES
  book,      \* Redis: the room of the level bucket and the actors who reserved it
  given,     \* history: who was ever given a room
  stage,     \* what each actor does: see Stages
  goal,      \* the room an actor is given, on its way to or in
  matches,   \* match requests so far
  room,      \* the game rooms' Spots: [state, life, game, actors, pending, leaving, reported]
  record,    \* bingo_player_record_store_t
  played,    \* history: finished games, [room, life, drawSeq, players, winners]
  watching,  \* the observer: [stage, room, seen, announced, told]
  rewards,   \* published rewards on their way to the observer's room
  watches    \* stays of the observer so far

matchVars == <<book, given, matches>>
watchVars == <<watching, rewards, watches>>
vars == <<matchVars, stage, goal, room, record, played, watchVars>>

\* entry: on the Entry Spot.  reserved: the API knows the room.  joining: the join is
\* deferred.  admitted: on_actor_join accepted.  fetching: on_actor_joined waits for
\* the record.  stranded: in the room, but none of its actors.  in: of the room's
\* actors.  back: on its way to the Entry Spot.
Stages == {"entry", "reserved", "joining", "admitted", "fetching", "stranded", "in", "back",
           "gone"}

NoRoom == [state |-> "none", life |-> 0, game |-> NewGame, actors |-> {}, pending |-> {},
           leaving |-> <<>>, reported |-> FALSE]
NotWatching == [stage |-> "entry", room |-> None, seen |-> 0, reward |-> 0, announced |-> 0,
                told |-> <<>>]

Init ==
  /\ book = [room |-> None, seats |-> {}]
  /\ given = [r \in Rooms |-> {}]
  /\ stage = [a \in Actors |-> "entry"] /\ goal = [a \in Actors |-> None]
  /\ matches = 0
  /\ room = [r \in Rooms |-> NoRoom]
  /\ record = [a \in Actors |-> [wins |-> 0, losses |-> 0]]
  /\ played = {}
  /\ watching = NotWatching /\ rewards = {} /\ watches = 0

-----------------------------------------------------------------------------
(* A match *)

Give(a, r, seats) ==
  /\ book' = [room |-> r, seats |-> seats]
  /\ given' = [given EXCEPT ![r] = @ \cup {a}]
  /\ goal' = [goal EXCEPT ![a] = r]

\* Mutant: a full room is noticed one actor too late.
MutReserve(a) ==
  \/ /\ book.room # None /\ (a \in book.seats \/ Cardinality(book.seats) <= Seats)
     /\ Give(a, book.room, book.seats \cup {a})
  \/ /\ book.room = None \/ (a \notin book.seats /\ Cardinality(book.seats) > Seats)
     /\ \E r \in Rooms : given[r] = {} /\ Give(a, r, {a})

\* The reservation script: the room of the book for who has a seat or finds one, a new
\* room (a random name) for everybody else.
Reserve(a) ==
  \/ /\ book.room # None /\ (a \in book.seats \/ Cardinality(book.seats) < Seats)
     /\ Give(a, book.room, book.seats \cup {a})
  \/ /\ book.room = None \/ (a \notin book.seats /\ Cardinality(book.seats) >= Seats)
     /\ \E r \in Rooms : given[r] = {} /\ Give(a, r, {a})

\* match_bingo of the Entry Spot, up to the matchmaker's answer
Match(a) ==
  /\ stage[a] = "entry" /\ matches < MaxMatches
  /\ matches' = matches + 1
  /\ Reserve(a)
  /\ stage' = [stage EXCEPT ![a] = "reserved"]
  /\ UNCHANGED <<room, record, played, watchVars>>

\* The API makes the room's Spot; the actor's join is deferred.
EnsureRoom(a) ==
  LET r == goal[a] IN
  /\ stage[a] = "reserved" /\ room[r].state # "closing"
  /\ room' = IF room[r].state = "none"
             THEN [room EXCEPT ![r] = [NoRoom EXCEPT !.state = "open", !.life = room[r].life + 1]]
             ELSE room
  /\ stage' = [stage EXCEPT ![a] = "joining"]
  /\ UNCHANGED <<matchVars, goal, record, played, watchVars>>

\* The request of the API or the join fails: the reservation stays.
Turned(a) == stage' = [stage EXCEPT ![a] = "entry"] /\ goal' = [goal EXCEPT ![a] = None]

MatchFails(a) ==
  /\ stage[a] \in {"reserved", "joining"}
  /\ Turned(a)
  /\ UNCHANGED <<matchVars, room, record, played, watchVars>>

-----------------------------------------------------------------------------
(* The room *)

\* on_actor_join: a copy of the game must take the player.
OnActorJoin(a) ==
  LET r == goal[a] IN
  /\ stage[a] = "joining"
  /\ \/ /\ room[r].state = "open" /\ CanAcceptPlayer(room[r].game)
        /\ room' = [room EXCEPT ![r].pending = @ \cup {a}]
        /\ stage' = [stage EXCEPT ![a] = "admitted"] /\ UNCHANGED goal
     \/ /\ room[r].state # "open" \/ ~CanAcceptPlayer(room[r].game)
        /\ Turned(a) /\ UNCHANGED room
  /\ UNCHANGED <<matchVars, record, played, watchVars>>

\* on_actor_joined, up to its yield
OnActorJoined(a) ==
  /\ stage[a] = "admitted"
  /\ stage' = [stage EXCEPT ![a] = "fetching"]
  /\ UNCHANGED <<matchVars, goal, room, record, played, watchVars>>

\* on_actor_joined once the API sent the record: the room may have changed meanwhile.
Resume(a) ==
  LET r == goal[a]
      still == a \in room[r].pending /\ CanAcceptPlayer(room[r].game)
  IN
  /\ stage[a] = "fetching"
  /\ room' = [room EXCEPT ![r].pending = @ \ {a},
                          ![r].actors = IF still THEN @ \cup {a} ELSE @,
                          ![r].game = IF still THEN Joined(@, a) ELSE @]
  /\ stage' = [stage EXCEPT ![a] = IF still THEN "in" ELSE "back"]
  /\ UNCHANGED <<matchVars, goal, record, played, watchVars>>

\* The request for the record fails after the framework moved the actor.
FetchFails(a) ==
  /\ stage[a] = "fetching"
  /\ room' = [room EXCEPT ![goal[a]].pending = @ \ {a}]
  /\ stage' = [stage EXCEPT ![a] = "stranded"]
  /\ UNCHANGED <<matchVars, goal, record, played, watchVars>>

SubmitCard(a, card) ==
  LET r == goal[a] IN
  /\ stage[a] = "in" /\ room[r].state = "open"
  /\ CanSubmit(room[r].game, a, card)
  /\ room' = [room EXCEPT ![r].game = Submitted(@, a, card)]
  /\ UNCHANGED <<matchVars, stage, goal, record, played, watchVars>>

\* publish_reward reaches the observer room that exists.
Publish(r, game) ==
  rewards' = IF game.winners # <<>> /\ watching.stage # "entry"
             THEN rewards \cup {[room |-> r, life |-> room[r].life, drawSeq |-> game.drawSeq]}
             ELSE rewards

\* A game that was won ends with the leaving of its actors, in the order of a map.
AfterDraw(r, game, order) ==
  [room[r] EXCEPT !.game = game, !.leaving = IF game.winners # <<>> THEN order ELSE @]

\* handle_draw_tick
DrawTick(r) ==
  LET game == Drawn(room[r].game)
      over == game.status = "Finished"
  IN
  /\ room[r].state = "open" /\ ShouldDraw(room[r].game) /\ CanDraw(room[r].game)
  /\ \E order \in room[r].actors \X room[r].actors :
       /\ {order[1], order[2]} = room[r].actors
       /\ room' = [room EXCEPT ![r] = AfterDraw(r, game, order)]
  /\ IF over
     THEN /\ Publish(r, game)
          /\ played' = played \cup {[room |-> r, life |-> room[r].life, drawSeq |-> game.drawSeq,
                                     players |-> game.players, winners |-> game.winners]}
     ELSE UNCHANGED <<rewards, played>>
  /\ UNCHANGED <<matchVars, stage, goal, record, watching, watches>>

\* Mutant: the winner is the one who gets the reward.
MutWon(game, a) == game.winners # <<>> /\ game.winners[1] = a

Won(game, a) == \E i \in DOMAIN game.winners : game.winners[i] = a

Leaver(r) == Head(room[r].leaving)

\* on_leave_actor, up to its yield: the API adds the result to the record.
ReportResult(r) ==
  /\ room[r].leaving # <<>> /\ ~room[r].reported
  /\ record' = IF Won(room[r].game, Leaver(r))
               THEN [record EXCEPT ![Leaver(r)].wins = @ + 1]
               ELSE [record EXCEPT ![Leaver(r)].losses = @ + 1]
  /\ room' = [room EXCEPT ![r].reported = TRUE]
  /\ UNCHANGED <<matchVars, stage, goal, played, watchVars>>

\* Mutant: whether the room is empty is asked before the actor is off its list.
MutAfterLeave(r, rest) == IF room[r].actors = {} THEN "closing" ELSE "open"

\* The room is closed after the callback that empties it.
AfterLeave(r, rest) == IF rest = {} THEN "closing" ELSE "open"

\* on_leave_actor after its yield
Left(r) ==
  LET a == Leaver(r)
      rest == room[r].actors \ {a}
  IN
  /\ room[r].leaving # <<>> /\ room[r].reported
  /\ room' = [room EXCEPT ![r].actors = rest, ![r].leaving = Tail(@), ![r].reported = FALSE,
                          ![r].state = AfterLeave(r, rest)]
  /\ stage' = [stage EXCEPT ![a] = "back"]
  /\ UNCHANGED <<matchVars, goal, record, played, watchVars>>

Closed(r) ==
  /\ room[r].state = "closing"
  /\ room' = [room EXCEPT ![r] = [NoRoom EXCEPT !.life = room[r].life]]
  /\ UNCHANGED <<matchVars, stage, goal, record, played, watchVars>>

\* on_actor_joined of the Entry Spot: an actor of a finished game is destroyed.
BackAtEntry(a) ==
  /\ stage[a] = "back"
  /\ stage' = [stage EXCEPT ![a] = "gone"] /\ goal' = [goal EXCEPT ![a] = None]
  /\ UNCHANGED <<matchVars, room, record, played, watchVars>>

\* The player signs in again: authenticate_session_handler_t makes the actor anew.
Authenticate(a) ==
  /\ stage[a] = "gone" /\ matches < MaxMatches
  /\ stage' = [stage EXCEPT ![a] = "entry"]
  /\ UNCHANGED <<matchVars, goal, room, record, played, watchVars>>

-----------------------------------------------------------------------------
(* The observer's room *)

\* observe_bingo_events of the Entry Spot makes the room, which subscribes.
Observe(r) ==
  /\ watching.stage = "entry" /\ watches < MaxWatches /\ given[r] # {}
  /\ watching' = [NotWatching EXCEPT !.stage = "joining", !.room = r]
  /\ watches' = watches + 1
  /\ UNCHANGED <<matchVars, stage, goal, room, record, played, rewards>>

\* on_actor_joined of an observer, up to the game room's answer; it holds its room.
AskObservation ==
  LET r == watching.room
      game == room[r].game
      open == room[r].state # "none"
  IN
  /\ watching.stage = "joining"
  /\ watching' = [watching EXCEPT !.stage = "asked",
                    !.seen = IF open THEN room[r].life ELSE 0,
                    !.reward = IF open /\ game.winners # <<>> THEN game.drawSeq ELSE 0]
  /\ UNCHANGED <<matchVars, stage, goal, room, record, played, rewards, watches>>

\* on_reward_acquired: a second reward is told from the first by its number alone.
Announce(w, life, drawSeq) ==
  IF w.announced = drawSeq THEN w
  ELSE [w EXCEPT !.announced = drawSeq, !.told = Append(@, life)]

Observed ==
  /\ watching.stage = "asked"
  /\ LET w == [watching EXCEPT !.stage = "in"] IN
     watching' = IF w.reward # 0 THEN Announce(w, w.seen, w.reward) ELSE w
  /\ UNCHANGED <<matchVars, stage, goal, room, record, played, rewards, watches>>

\* While the observer's join is under way the event waits; before it nobody is told.
OnRewardAcquired(e) ==
  /\ e \in rewards /\ watching.stage # "asked"
  /\ rewards' = rewards \ {e}
  /\ watching' = IF watching.stage = "in" /\ e.room = watching.room
                 THEN Announce(watching, e.life, e.drawSeq) ELSE watching
  /\ UNCHANGED <<matchVars, stage, goal, room, record, played, watches>>

\* stop_observing_events: the observer leaves, and its room is closed with it.
StopObserving ==
  /\ watching.stage = "in"
  /\ watching' = NotWatching /\ rewards' = {}
  /\ UNCHANGED <<matchVars, stage, goal, room, record, played, watches>>

Next ==
  \/ \E a \in Actors :
       \/ Match(a) \/ EnsureRoom(a) \/ MatchFails(a) \/ OnActorJoin(a) \/ OnActorJoined(a)
       \/ Resume(a) \/ FetchFails(a) \/ BackAtEntry(a) \/ Authenticate(a)
       \/ \E card \in Cards : SubmitCard(a, card)
  \/ \E r \in Rooms : DrawTick(r) \/ ReportResult(r) \/ Left(r) \/ Closed(r) \/ Observe(r)
  \/ AskObservation \/ Observed \/ StopObserving
  \/ \E e \in rewards : OnRewardAcquired(e)

\* The room's timer, the API's answers and the framework's closing of a room go on.
Fairness ==
  \A r \in Rooms : WF_vars(DrawTick(r)) /\ WF_vars(ReportResult(r)) /\ WF_vars(Left(r))
                   /\ WF_vars(Closed(r))

Spec == Init /\ [][Next]_vars /\ Fairness

-----------------------------------------------------------------------------
(* Properties *)

TypeOK ==
  /\ stage \in [Actors -> Stages] /\ goal \in [Actors -> Rooms \cup {None}]
  /\ \A a \in Actors : goal[a] = None <=> stage[a] \in {"entry", "gone"}
  /\ \A r \in Rooms :
       /\ room[r].state \in {"none", "open", "closing"}
       /\ room[r].game.drawSeq \in 0 .. MaxNumber
       /\ \A i \in DOMAIN room[r].game.cards :
            room[r].game.cards[i] = <<>> \/ ValidCard(room[r].game.cards[i])
       /\ room[r].actors \subseteq {room[r].game.players[i] : i \in DOMAIN room[r].game.players}

\* A room belongs to the two actors its reservation names: whoever joins it, is in
\* it or plays in it has a seat, and a player who was let in is never sent back.
TwoPerRoom ==
  /\ TypeOK
  /\ \A r \in Rooms :
       /\ Cardinality(given[r]) <= Seats
       /\ room[r].pending \cup room[r].actors \subseteq given[r]
  /\ \A a \in Actors :
       stage[a] = "fetching" => CanAcceptPlayer(room[goal[a]].game)

Results(a) == {g \in played : \E i \in DOMAIN g.players : g.players[i] = a}
Wins(a) == {g \in Results(a) : \E i \in DOMAIN g.winners : g.winners[i] = a}
Unreported(a) ==
  {r \in Rooms : \E i \in DOMAIN room[r].leaving :
                   room[r].leaving[i] = a /\ ~(i = 1 /\ room[r].reported)}

\* The record of each player, as a win for all who had a line.
ResultsOnce ==
  /\ \A g \in played : g.winners # <<>>
  /\ \A a \in Actors :
       /\ record[a].wins + record[a].losses
            = Cardinality(Results(a)) - Cardinality(Unreported(a))
       /\ record[a].wins
            = Cardinality(Wins(a))
              - Cardinality({r \in Unreported(a) : Won(room[r].game, a)})

\* By the snapshot an observer asks for when it joins or by the event, whichever
\* comes.  The room may be made anew meanwhile: its next game is told as well, unless it
\* ended with the same number.
Swallowed(g) ==
  \E h \in played : h.room = g.room /\ h.life # g.life /\ h.drawSeq = g.drawSeq

RewardToldOnce ==
  LET w == watching IN
  /\ \A i \in 1 .. Len(w.told) - 1 : w.told[i] # w.told[i + 1]
  /\ w.stage = "in" /\ w.seen # 0 /\ rewards = {} =>
       \A g \in played :
         g.room = w.room /\ g.life >= w.seen =>
           Swallowed(g) \/ \E i \in DOMAIN w.told : w.told[i] = g.life

\* Every finished game has a winner and is in the record of each of its players once,
\* however the yields of the clean-up interleave; and an observer who found the game
\* alive is told of the reward of that game and of its room's next ones, of none twice
\* in a row, though two games that end with the same number count as one.
FinishedOnce == ResultsOnce /\ RewardToldOnce

\* A game both players have a card for is played to its end: the room is closed, or
\* made anew for another game.
PlayedOut ==
  \A r \in Rooms :
    room[r].state = "open" /\ ShouldDraw(room[r].game) ~> room[r].game.players = <<>>

=============================================================================
