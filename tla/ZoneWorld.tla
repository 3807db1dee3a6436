------------------------------- MODULE ZoneWorld -------------------------------
(***************************************************************************)
(* ZoneWorld's players (samples/ZoneWorld/Server): player actors on the    *)
(* Entry Spot and the zones, the moves that are checked by the actor that  *)
(* makes them, the deferred joins that carry an actor over a border, the   *)
(* admission by a zone whose node may be in maintenance (ZoneOps), and an  *)
(* announcement's way from Ops to every human.                             *)
(*                                                                         *)
(* The framework (external): it runs the joins an actor asked for one at a *)
(* time, calls the target's on_actor_joined and the source's               *)
(* on_leave_actor in either order, may fail a join that it has not carried *)
(* out, and may report a completion again.  A spot handles a message it    *)
(* sent to itself before it lets the same actor in again.                  *)
(*                                                                         *)
(* World, Split, MaxStep, BotStep and Spawn stand for spec_t's numbers.    *)
(* Bounds: MaxDeeds packets and bot ticks, MaxRepeats repeated completions.*)
(***************************************************************************)
EXTENDS ZoneOps, Integers

CONSTANTS Humans, Bots, World, Split, MaxStep, BotStep, Spawn, Fixtures, MaxDeeds, MaxRepeats,
          NodeOf

Zones == {"zone-nw", "zone-ne", "zone-sw", "zone-se"}
Actors == Humans \cup Bots
Inside == (0 .. World - 1) \X (0 .. World - 1)
Reach == (-1 .. World) \X (-1 .. World)

ASSUME WorldAssumption ==
  /\ World \in Nat /\ Split \in 1 .. World - 1
  /\ MaxStep \in Nat \ {0} /\ BotStep \in 1 .. MaxStep
  /\ Spawn \in Inside /\ Fixtures \subseteq Inside \X {-1, 0, 1} \X {-1, 0, 1}
  /\ MaxDeeds \in Nat /\ MaxRepeats \in Nat
  /\ Humans \cap Bots = {} /\ None \notin Actors \cup Zones \cup Inside
  /\ NodeOf \in [Zones -> Nodes]

VARIABLES
  actor,     \* player_actor_t: [pos, zone, bot, dir, fresh, initial, operations]
  at,        \* where the framework has the actor: "entry" or a zone
  joins,     \* the joins each actor asked for and that are not over
  phase,     \* the first of them: "idle", "admitted", "left" or "came"
  over,      \* completions on their way to the actor
  pending,   \* zone_spot_t::_pending
  listed,    \* zone_spot_t::_players: a position, or None
  updates,   \* update_position_msg_t on their way to a zone
  news,      \* where the announcement is on its way to
  heard,     \* how often each human's session was sent it
  deeds, repeats,
  asked, answered,   \* history: JoinWorld packets and their replies
  raced,             \* history: a packet was handled while a join was under way
  crossed            \* history: no announcement yet, or a zone was entered since

playerVars == <<actor, at, joins, phase, over, pending, listed, updates, deeds, repeats,
                asked, answered, raced>>
newsVars == <<news, heard, crossed>>
worldVars == <<playerVars, newsVars>>

\* zone_of
ZoneOf(p) ==
  IF p[2] < Split THEN (IF p[1] < Split THEN "zone-nw" ELSE "zone-ne")
                  ELSE (IF p[1] < Split THEN "zone-sw" ELSE "zone-se")

Gap(i, j) == IF i < j THEN j - i ELSE i - j
Near(p, q) == Gap(p[1], q[1]) <= MaxStep /\ Gap(p[2], q[2]) <= MaxStep
Diagonal(p, q) == (p[1] < Split) # (q[1] < Split) /\ (p[2] < Split) # (q[2] < Split)

\* validate_move
Valid(p, q) == q \in Inside /\ Near(p, q) /\ ~Diagonal(p, q)

\* adjacent_zones
Adjacent(z) == IF z \in {"zone-nw", "zone-se"} THEN {"zone-ne", "zone-sw"} ELSE {"zone-nw", "zone-se"}

\* player_actor_t as its factory makes it
NewActor(bot) == [pos |-> Spawn, zone |-> "zone-nw", bot |-> bot, dir |-> <<0, 0>>,
                  fresh |-> TRUE, initial |-> FALSE, operations |-> {}]

WorldInit ==
  /\ actor = [a \in Actors |-> NewActor(a \in Bots)]
  /\ at = [a \in Actors |-> "entry"]
  /\ joins = [a \in Actors |-> <<>>]
  /\ phase = [a \in Actors |-> "idle"]
  /\ over = [a \in Actors |-> <<>>]
  /\ pending = [z \in Zones |-> [a \in Actors |-> None]]
  /\ listed = [z \in Zones |-> [a \in Actors |-> None]]
  /\ updates = [z \in Zones |-> <<>>]
  /\ deeds = 0 /\ repeats = 0
  /\ asked = [a \in Actors |-> 0] /\ answered = [a \in Actors |-> 0]
  /\ raced = [a \in Actors |-> FALSE]
  /\ news = {} /\ heard = [a \in Actors |-> 0] /\ crossed = [a \in Actors |-> TRUE]

-----------------------------------------------------------------------------
(* Packets and bot ticks, handled where the actor is *)

Settled(a) == phase[a] \in {"idle", "admitted"}

UnderWay(a) == joins[a] # <<>> \/ over[a] # <<>>

\* The actor takes a turn: it is not being carried from one spot to another.
Turn(a) ==
  /\ Settled(a) /\ deeds < MaxDeeds
  /\ deeds' = deeds + 1
  /\ raced' = [raced EXCEPT ![a] = @ \/ UnderWay(a)]

\* prepare_join: the join is deferred to after the turn.
PrepareJoin(a, to, initial, new) ==
  /\ joins' = [joins EXCEPT ![a] = Append(@,
       [pos |-> to, to |-> ZoneOf(to), bot |-> new.bot, initial |-> initial, operation |-> deeds,
        from |-> IF new.fresh THEN None ELSE new.zone])]
  /\ actor' = [actor EXCEPT ![a] = [new EXCEPT !.initial = initial]]

Answer(a) == answered' = [answered EXCEPT ![a] = @ + 1]

\* join_world on the Entry Spot of a fresh actor, and elsewhere
JoinWorld(a) ==
  /\ a \in Humans /\ Turn(a)
  /\ asked' = [asked EXCEPT ![a] = @ + 1]
  /\ \/ /\ at[a] = "entry" /\ actor[a].fresh
        /\ PrepareJoin(a, Spawn, TRUE,
                       [actor[a] EXCEPT !.pos = Spawn, !.zone = "zone-nw", !.bot = FALSE])
        /\ UNCHANGED answered
     \/ /\ ~(at[a] = "entry" /\ actor[a].fresh)
        /\ Answer(a)
        /\ UNCHANGED <<actor, joins>>
  /\ UNCHANGED <<at, phase, over, pending, listed, updates, repeats, newsVars, opsVars>>

\* enter_world, asked by world_bootstrap_handler_t
EnterWorld(a) ==
  /\ a \in Bots /\ at[a] = "entry" /\ Turn(a)
  /\ \E f \in Fixtures :
       PrepareJoin(a, f[1], TRUE, [actor[a] EXCEPT !.bot = TRUE, !.dir = <<f[2], f[3]>>])
  /\ UNCHANGED <<at, phase, over, pending, listed, updates, repeats, asked, answered, newsVars,
                 opsVars>>

Turned(d) == <<-d[1], -d[2]>>

\* Mutant: a crossing is asked for before the length of the move is checked.
MutAuthority(a, to) ==
  LET me == actor[a] IN
  \/ /\ ~Valid(me.pos, to) /\ (ZoneOf(to) = me.zone \/ to \notin Inside)
     /\ actor' = IF me.bot THEN [actor EXCEPT ![a].dir = Turned(@)] ELSE actor
     /\ UNCHANGED <<joins, updates>>
  \/ /\ ZoneOf(to) # me.zone /\ to \in Inside
     /\ PrepareJoin(a, to, FALSE, me)
     /\ UNCHANGED updates
  \/ /\ Valid(me.pos, to) /\ ZoneOf(to) = me.zone
     /\ actor' = [actor EXCEPT ![a].pos = to]
     /\ updates' = IF at[a] = "entry" THEN updates
                   ELSE [updates EXCEPT ![at[a]] = Append(@, [who |-> a, pos |-> to])]
     /\ UNCHANGED joins

\* apply_move_authority, and the zone's update of its own list
Authority(a, to) ==
  LET me == actor[a] IN
  \/ /\ ~Valid(me.pos, to)
     /\ actor' = IF me.bot THEN [actor EXCEPT ![a].dir = Turned(@)] ELSE actor
     /\ UNCHANGED <<joins, updates>>
  \/ /\ Valid(me.pos, to) /\ ZoneOf(to) # me.zone
     /\ PrepareJoin(a, to, FALSE, me)
     /\ UNCHANGED updates
  \/ /\ Valid(me.pos, to) /\ ZoneOf(to) = me.zone
     /\ actor' = [actor EXCEPT ![a].pos = to]
     /\ updates' = IF at[a] = "entry" THEN updates
                   ELSE [updates EXCEPT ![at[a]] = Append(@, [who |-> a, pos |-> to])]
     /\ UNCHANGED joins

Move(a, to) ==
  /\ a \in Humans /\ Turn(a) /\ asked[a] > 0
  /\ Authority(a, to)
  /\ UNCHANGED <<at, phase, over, pending, listed, repeats, asked, answered, newsVars, opsVars>>

\* bot_tick_msg_t, sent by tick_bots to the bots of the list
BotTick(a) ==
  /\ at[a] # "entry" /\ actor[a].bot /\ listed[at[a]][a] # None /\ Turn(a)
  /\ Authority(a, <<actor[a].pos[1] + actor[a].dir[1] * BotStep,
                    actor[a].pos[2] + actor[a].dir[2] * BotStep>>)
  /\ UNCHANGED <<at, phase, over, pending, listed, repeats, asked, answered, newsVars, opsVars>>

UpdatePosition(z) ==
  /\ updates[z] # <<>>
  /\ LET m == Head(updates[z]) IN
     listed' = IF listed[z][m.who] = None THEN listed ELSE [listed EXCEPT ![z][m.who] = m.pos]
  /\ updates' = [updates EXCEPT ![z] = Tail(@)]
  /\ UNCHANGED <<actor, at, joins, phase, over, pending, deeds, repeats, asked, answered, raced,
                 newsVars, opsVars>>

-----------------------------------------------------------------------------
(* A join *)

Completion(a, outcome) == Append(over[a], [outcome |-> outcome, operation |-> Head(joins[a]).operation,
                                           initial |-> Head(joins[a]).initial])

EndJoin(a, outcome) ==
  /\ over' = [over EXCEPT ![a] = Completion(a, outcome)]
  /\ joins' = [joins EXCEPT ![a] = Tail(@)]
  /\ phase' = [phase EXCEPT ![a] = "idle"]

\* zone_spot_t::on_actor_join
OnActorJoin(a) ==
  /\ joins[a] # <<>> /\ phase[a] = "idle"
  /\ LET enter == Head(joins[a])
         closed == flag[NodeOf[enter.to]] /\ enter.from # enter.to
     IN  \/ /\ closed
            /\ EndJoin(a, "rejected")
            /\ UNCHANGED pending
         \/ /\ ~closed
            /\ pending' = [pending EXCEPT ![enter.to][a] = enter]
            /\ phase' = [phase EXCEPT ![a] = "admitted"]
            /\ UNCHANGED <<joins, over>>
  /\ UNCHANGED <<actor, at, listed, updates, deeds, repeats, asked, answered, raced, newsVars,
                 opsVars>>

\* External: the framework gives a join up that moved nothing yet.
FailJoin(a) ==
  /\ joins[a] # <<>> /\ Settled(a)
  /\ EndJoin(a, "failed")
  /\ UNCHANGED <<actor, at, pending, listed, updates, deeds, repeats, asked, answered, raced,
                 newsVars, opsVars>>

Target(a) == Head(joins[a]).to

\* Mutant: the source keeps the player on its list.
MutOnLeaveActor(a) ==
  /\ phase[a] \in {"admitted", "came"} /\ at[a] # Target(a)
  /\ \/ /\ phase[a] = "came"
        /\ at' = [at EXCEPT ![a] = Target(a)]
        /\ EndJoin(a, "accepted")
     \/ /\ phase[a] = "admitted"
        /\ phase' = [phase EXCEPT ![a] = "left"]
        /\ UNCHANGED <<at, over, joins>>
  /\ UNCHANGED <<actor, listed, pending, updates, deeds, repeats, asked, answered, raced, newsVars,
                 opsVars>>

\* on_leave_actor of the source; a join of the spot the actor is at leaves nothing.
OnLeaveActor(a) ==
  /\ phase[a] \in {"admitted", "came"} /\ at[a] # Target(a)
  /\ listed' = IF at[a] = "entry" THEN listed ELSE [listed EXCEPT ![at[a]][a] = None]
  /\ \/ /\ phase[a] = "came"
        /\ at' = [at EXCEPT ![a] = Target(a)]
        /\ EndJoin(a, "accepted")
     \/ /\ phase[a] = "admitted"
        /\ phase' = [phase EXCEPT ![a] = "left"]
        /\ UNCHANGED <<at, over, joins>>
  /\ UNCHANGED <<actor, pending, updates, deeds, repeats, asked, answered, raced, newsVars, opsVars>>

NoUpdate(a, z) == \A i \in DOMAIN updates[z] : updates[z][i].who # a

\* zone_spot_t::on_actor_joined
OnActorJoined(a) ==
  LET z == Target(a)
      enter == pending[z][a]
      last == phase[a] = "left" \/ at[a] = z
  IN
  /\ phase[a] \in {"admitted", "left"} /\ NoUpdate(a, z)
  /\ pending' = [pending EXCEPT ![z][a] = None]
  /\ listed' = [listed EXCEPT ![z][a] = enter.pos]
  /\ actor' = [actor EXCEPT ![a].pos = enter.pos, ![a].zone = z, ![a].bot = enter.bot]
  /\ IF last THEN EndJoin(a, "accepted") /\ at' = [at EXCEPT ![a] = z]
             ELSE phase' = [phase EXCEPT ![a] = "came"] /\ UNCHANGED <<at, over, joins>>
  /\ crossed' = [crossed EXCEPT ![a] = TRUE]
  /\ UNCHANGED <<updates, deeds, repeats, asked, answered, raced, news, heard, opsVars>>

\* Mutant: the operations that were completed are not remembered.
MutCompleted(a, c) ==
  LET me == actor[a] IN
  /\ IF me.initial /\ ~me.bot THEN Answer(a) ELSE UNCHANGED answered
  /\ actor' = [actor EXCEPT ![a] =
       IF c.outcome = "accepted" THEN [me EXCEPT !.fresh = FALSE]
       ELSE IF c.outcome = "rejected" /\ me.bot THEN [me EXCEPT !.dir = Turned(@)]
       ELSE me]

\* What on_join_completed does with a completion it has not seen yet.
Completed(a, c) ==
  LET me == actor[a]
      done == [me EXCEPT !.operations = @ \cup {c.operation}]
  IN
  /\ IF me.initial /\ ~me.bot THEN Answer(a) ELSE UNCHANGED answered
  /\ actor' = [actor EXCEPT ![a] =
       IF c.outcome = "accepted" THEN [done EXCEPT !.fresh = FALSE]
       ELSE IF c.outcome = "rejected" /\ me.bot THEN [done EXCEPT !.dir = Turned(@)]
       ELSE done]

\* player_actor_t::on_join_completed; the framework may report the completion again.
OnJoinCompleted(a) ==
  /\ over[a] # <<>> /\ Settled(a)
  /\ LET c == Head(over[a]) IN
     IF c.operation \in actor[a].operations THEN UNCHANGED <<actor, answered>> ELSE Completed(a, c)
  /\ \/ over' = [over EXCEPT ![a] = Tail(@)] /\ UNCHANGED repeats
     \/ repeats < MaxRepeats /\ repeats' = repeats + 1 /\ UNCHANGED over
  /\ UNCHANGED <<at, joins, phase, pending, listed, updates, deeds, asked, raced, newsVars, opsVars>>

-----------------------------------------------------------------------------
(* An announcement: Ops, the nodes' subscribers, the zones, the players *)

On(kind, place) == [kind |-> kind, place |-> place]

AnnounceWorld ==
  /\ news = {} /\ \A a \in Actors : heard[a] = 0
  /\ news' = {On("node", n) : n \in {m \in Nodes : process[m] = "ready"}}
  /\ crossed' = [a \in Actors |-> ~Settled(a)]
  /\ UNCHANGED <<heard, playerVars, opsVars>>

\* announce_fanout_handler_t: the zones of the node
AnnounceNode(n) ==
  /\ On("node", n) \in news
  /\ news' = (news \ {On("node", n)}) \cup {On("zone", z) : z \in {y \in Zones : NodeOf[y] = n}}
  /\ UNCHANGED <<heard, crossed, playerVars, opsVars>>

HumansOf(z) == {a \in Actors : listed[z][a] # None /\ ~actor[a].bot}

\* zone_spot_t::announce: the humans of the list
AnnounceZone(z) ==
  /\ On("zone", z) \in news
  /\ news' = (news \ {On("zone", z)}) \cup {On(z, a) : a \in HumansOf(z)}
  /\ UNCHANGED <<heard, crossed, playerVars, opsVars>>

\* deliver_announce, where the actor is by then
DeliverAnnounce(z, a) ==
  /\ On(z, a) \in news /\ Settled(a)
  /\ news' = news \ {On(z, a)}
  /\ heard' = IF actor[a].bot THEN heard ELSE [heard EXCEPT ![a] = @ + 1]
  /\ UNCHANGED <<crossed, playerVars, opsVars>>

PlayersNext ==
  \/ \E a \in Actors :
       \/ JoinWorld(a) \/ EnterWorld(a) \/ BotTick(a)
       \/ OnActorJoin(a) \/ FailJoin(a) \/ OnLeaveActor(a) \/ OnActorJoined(a)
       \/ OnJoinCompleted(a)
       \/ \E to \in Reach : Move(a, to)
  \/ \E z \in Zones : UpdatePosition(z)

NewsNext ==
  \/ AnnounceWorld
  \/ \E n \in Nodes : AnnounceNode(n)
  \/ \E z \in Zones : AnnounceZone(z) \/ \E a \in Actors : DeliverAnnounce(z, a)

\* The players and the announcements, with the maintenance of the nodes under them.
WorldNext == PlayersNext \/ NewsNext \/ (MaintenanceStep /\ UNCHANGED worldVars)

WorldSpec == OpsInit /\ WorldInit /\ [][WorldNext]_<<opsVars, worldVars>>

-----------------------------------------------------------------------------
(* Properties *)

WorldTypeOK ==
  /\ \A a \in Actors :
       /\ actor[a].pos \in Inside /\ actor[a].zone \in Zones
       /\ actor[a].dir \in {-1, 0, 1} \X {-1, 0, 1}
       /\ at[a] \in Zones \cup {"entry"}
       /\ phase[a] # "idle" => joins[a] # <<>>
  /\ \A z \in Zones, a \in Actors : listed[z][a] \in Inside \cup {None}

\* An actor that is not being carried over a border is on the list of the zone it is
\* at and on no other, and every list shows a position of its own zone.
OnTheRightList ==
  \A a \in Actors, z \in Zones :
    /\ listed[z][a] # None => ZoneOf(listed[z][a]) = z
    /\ Settled(a) => (listed[z][a] # None <=> at[a] = z)

\* With no update on its way, the list of the zone shows a settled actor where the
\* actor itself believes to be.
ShownWhereItIs ==
  \A a \in Actors :
    Settled(a) /\ at[a] # "entry" /\ NoUpdate(a, at[a]) =>
      listed[at[a]][a] = actor[a].pos /\ actor[a].zone = at[a]

\* What the zones show of an actor and what the actor believes agree, however its
\* leave of one zone and its arrival in the next interleave with moves and failures.
InOneZone == WorldTypeOK /\ OnTheRightList /\ ShownWhereItIs

\* What is asked and not answered is an initial join under way.
JoinsAnswered ==
  \A a \in Humans :
    ~raced[a] =>
      asked[a] - answered[a] =
        Cardinality({i \in DOMAIN joins[a] : joins[a][i].initial})
        + Cardinality({i \in DOMAIN over[a] :
            over[a][i].initial /\ over[a][i].operation \notin actor[a].operations})

\* A step of a player that waits for its joins is one the rules allow, over a
\* border too.
StepsLegal ==
  [][\A a \in Actors :
       actor'[a].pos # actor[a].pos /\ ~actor'[a].fresh /\ ~raced'[a] =>
         Valid(actor[a].pos, actor'[a].pos)]_worldVars

\* It was told, or one node, zone or delivery is to tell it.
HeardOnce ==
  \A a \in Humans :
    ~crossed[a] /\ Settled(a) /\ at[a] # "entry" =>
      LET due == {On("node", NodeOf[at[a]]), On("zone", at[a])} \cup {On(z, a) : z \in Zones}
      IN  heard[a] + Cardinality(due \cap news) = 1

\* A client that waits for its join gets exactly one reply to each JoinWorld, also when
\* the framework reports a completion twice; and a human who was in a zone when the
\* announcement was made and entered none since hears it exactly once.
ToldOnce == JoinsAnswered /\ HeardOnce

=============================================================================
