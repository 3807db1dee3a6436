---------------------------- MODULE ZoneWorldProofs ----------------------------
(***************************************************************************)
(* Proofs about ZoneWorld.  The players, for any set of humans and bots,   *)
(* any size of the world and any placement of the zones: what the zones    *)
(* show of an actor and what the actor believes agree (InOneZone), its     *)
(* steps are legal (StepsLegal), and it is told once (ToldOnce).  A step   *)
(* of a player is about one actor, so everything is said per actor.        *)
(* The borders: a zone that was created again is heard again (HeardAgain). *)
(* Ops, for any number of nodes, consoles, requests, reports and restarts: *)
(* the state a node is in settles on the desired one (MaintenanceSettles), *)
(* and the loss of a node is told (LossIsTold).  The nodes, for any shares *)
(* of the zones: they find them within their attempts (ClaimsSettle).      *)
(***************************************************************************)
EXTENDS ZoneClaims, ZoneBorder, FiniteSetTheorems, SequenceTheorems, TLAPS

-----------------------------------------------------------------------------
(* What the zones show of an actor *)

Directions == {-1, 0, 1} \X {-1, 0, 1}
Phases == {"idle", "admitted", "left", "came"}

ActorStates == [pos : Inside, zone : Zones, bot : BOOLEAN, dir : Directions,
                fresh : BOOLEAN, initial : BOOLEAN, operations : SUBSET Nat]

JoinRecords == [pos : Inside, to : Zones, bot : BOOLEAN, initial : BOOLEAN,
                operation : Nat, from : Zones \cup {None}]

\* A join is to the zone of its position.
Joins == {j \in JoinRecords : j.to = ZoneOf(j.pos)}

Completions == [outcome : {"accepted", "rejected", "failed"}, operation : Nat,
                initial : BOOLEAN]

Updates == [who : Actors, pos : Inside]

PlayerTypes ==
  /\ actor \in [Actors -> ActorStates]
  /\ at \in [Actors -> Zones \cup {"entry"}]
  /\ joins \in [Actors -> Seq(Joins)]
  /\ phase \in [Actors -> Phases]
  /\ over \in [Actors -> Seq(Completions)]
  /\ pending \in [Zones -> [Actors -> Joins \cup {None}]]
  /\ listed \in [Zones -> [Actors -> Inside \cup {None}]]
  /\ updates \in [Zones -> Seq(Updates)]
  /\ deeds \in Nat

\* A zone lists, and is sent, positions of its own.
OwnPositions(z) ==
  /\ \A a \in Actors : listed[z][a] # None => ZoneOf(listed[z][a]) = z
  /\ \A i \in 1 .. Len(updates[z]) : ZoneOf(updates[z][i].pos) = z

\* The join under way of an actor: the target keeps what it admitted, and an actor
\* that left or came was somewhere else.
Joining(a) ==
  /\ phase[a] # "idle" => joins[a] # <<>>
  /\ phase[a] \in {"admitted", "left"} => pending[Target(a)][a] = Head(joins[a])
  /\ phase[a] \in {"left", "came"} => at[a] # Target(a)

\* The zones that list an actor: the one it is at; none, once it left; both, once it came.
ListedBy(a) ==
  \A z \in Zones :
    /\ Settled(a) => (listed[z][a] # None <=> at[a] = z)
    /\ phase[a] = "left" => listed[z][a] = None
    /\ phase[a] = "came" => (listed[z][a] # None <=> (z = at[a] \/ z = Target(a)))

LastUpdate(a, z, i) ==
  /\ updates[z][i].who = a
  /\ \A j \in 1 .. Len(updates[z]) : j > i => updates[z][j].who # a

\* The last update under way, or else the list, is the actor's own position.
Shows(a, z) ==
  /\ NoUpdate(a, z) => listed[z][a] = actor[a].pos
  /\ \A i \in 1 .. Len(updates[z]) :
       LastUpdate(a, z, i) => updates[z][i].pos = actor[a].pos

Believes(a) ==
  /\ Settled(a) /\ at[a] # "entry" => actor[a].zone = at[a] /\ Shows(a, at[a])
  /\ phase[a] = "came" =>
       /\ actor[a].zone = Target(a)
       /\ NoUpdate(a, Target(a))
       /\ listed[Target(a)][a] = actor[a].pos

Sound(a) == Joining(a) /\ ListedBy(a) /\ Believes(a)

PInv ==
  /\ PlayerTypes
  /\ \A z \in Zones : OwnPositions(z)
  /\ \A a \in Actors : Sound(a)

-----------------------------------------------------------------------------
(* What the invariant says *)

LEMMA ZoneOfType == \A q : ZoneOf(q) \in Zones
BY DEF ZoneOf, Zones

LEMMA TargetType ==
  ASSUME PlayerTypes, NEW a \in Actors, joins[a] # <<>>
  PROVE  /\ Head(joins[a]) \in Joins
         /\ Target(a) \in Zones
         /\ Target(a) = ZoneOf(Head(joins[a]).pos)
         /\ Tail(joins[a]) \in Seq(Joins)
<1>1. joins[a] \in Seq(Joins)
  BY DEF PlayerTypes
<1>2. Head(joins[a]) \in Joins /\ Tail(joins[a]) \in Seq(Joins)
  BY <1>1
<1> QED BY <1>2 DEF Target, Joins, JoinRecords

LEMMA EntryIsNoZone == "entry" \notin Zones /\ None \notin Inside
BY WorldAssumption DEF Zones

LEMMA InvImplies == PInv => InOneZone
<1> SUFFICES ASSUME PInv PROVE InOneZone
  OBVIOUS
<1>1. PlayerTypes
  BY DEF PInv
<1>2. WorldTypeOK
  <2>1. ASSUME NEW a \in Actors
        PROVE  /\ actor[a].pos \in Inside /\ actor[a].zone \in Zones
               /\ actor[a].dir \in {-1, 0, 1} \X {-1, 0, 1}
               /\ at[a] \in Zones \cup {"entry"}
               /\ phase[a] # "idle" => joins[a] # <<>>
    BY <1>1 DEF PInv, PlayerTypes, ActorStates, Directions, Sound, Joining
  <2>2. \A z \in Zones, a \in Actors : listed[z][a] \in Inside \cup {None}
    BY <1>1 DEF PlayerTypes
  <2> QED BY <2>1, <2>2 DEF WorldTypeOK
<1>3. OnTheRightList
  BY DEF PInv, OnTheRightList, OwnPositions, Sound, ListedBy
<1>4. ShownWhereItIs
  BY DEF PInv, ShownWhereItIs, Sound, Believes, Shows
<1> QED BY <1>2, <1>3, <1>4 DEF InOneZone

LEMMA InitPInv == WorldInit => PInv
<1> SUFFICES ASSUME WorldInit PROVE PInv
  OBVIOUS
<1>1. \A a \in Actors : NewActor(a \in Bots) \in ActorStates
  <2>1. Spawn \in Inside
    BY WorldAssumption
  <2>2. <<0, 0>> \in Directions
    BY DEF Directions
  <2> QED BY <2>1, <2>2 DEF NewActor, ActorStates, Zones
<1>2. PlayerTypes
  BY <1>1 DEF WorldInit, PlayerTypes, Phases
<1>3. \A z \in Zones : OwnPositions(z)
  BY DEF WorldInit, OwnPositions
<1>4. \A a \in Actors : Sound(a)
  BY EntryIsNoZone DEF WorldInit, Sound, Joining, ListedBy, Believes, Settled
<1> QED BY <1>2, <1>3, <1>4 DEF PInv

-----------------------------------------------------------------------------
(* Frames *)

\* Updates of others are added to what is under way to the zones.
OthersAdded(a) ==
  \A z \in Zones :
    \/ updates'[z] = updates[z]
    \/ \E m \in Updates : m.who # a /\ updates'[z] = Append(updates[z], m)

LEMMA AddedKeeps ==
  ASSUME PlayerTypes, NEW a \in Actors, NEW z \in Zones, OthersAdded(a),
         actor'[a].pos = actor[a].pos, listed'[z][a] = listed[z][a]
  PROVE  /\ NoUpdate(a, z)' <=> NoUpdate(a, z)
         /\ Shows(a, z) => Shows(a, z)'
<1>1. updates[z] \in Seq(Updates) /\ Len(updates[z]) \in Nat
      /\ DOMAIN updates[z] = 1 .. Len(updates[z])
  BY DEF PlayerTypes
<1>2. CASE updates'[z] = updates[z]
  BY <1>2 DEF NoUpdate, Shows, LastUpdate
<1>3. ASSUME NEW m \in Updates, m.who # a, updates'[z] = Append(updates[z], m)
      PROVE  /\ NoUpdate(a, z)' <=> NoUpdate(a, z)
             /\ Shows(a, z) => Shows(a, z)'
  <2> DEFINE u == updates'[z]
             n == Len(updates[z])
  <2>1. /\ Len(u) = n + 1 /\ u[n + 1] = m
        /\ \A i \in 1 .. n : u[i] = updates[z][i]
        /\ DOMAIN u = 1 .. n + 1
    BY <1>1, <1>3
  <2>2. NoUpdate(a, z)' <=> NoUpdate(a, z)
    BY <1>1, <1>3, <2>1 DEF NoUpdate
  <2>3. ASSUME Shows(a, z), NEW i \in 1 .. Len(u), LastUpdate(a, z, i)'
        PROVE  u[i].pos = actor'[a].pos
    <3>1. i # n + 1 /\ i \in 1 .. n
      BY <1>1, <1>3, <2>1, <2>3 DEF LastUpdate
    <3>2. u[i].who = a /\ \A j \in 1 .. Len(u) : j > i => u[j].who # a
      BY <2>3 DEF LastUpdate
    <3>3. updates[z][i].who = a /\ \A j \in 1 .. n : j > i => updates[z][j].who # a
      <4> HIDE DEF u
      <4> QED BY <1>1, <2>1, <3>1, <3>2
    <3>4. LastUpdate(a, z, i)
      BY <3>3 DEF LastUpdate
    <3> QED BY <2>1, <2>3, <3>1, <3>4 DEF Shows
  <2>4. Shows(a, z) => Shows(a, z)'
    BY <2>2, <2>3 DEF Shows
  <2> QED BY <2>2, <2>4
<1> QED BY <1>2, <1>3 DEF OthersAdded

\* A step that does not carry the actor: about another one, or about what is not
\* said here of this one.
Unmoved(a) ==
  /\ OthersAdded(a)
  /\ at'[a] = at[a] /\ phase'[a] = phase[a]
  /\ phase[a] # "idle" => joins'[a] # <<>> /\ Head(joins'[a]) = Head(joins[a])
  /\ \/ Settled(a) /\ at[a] = "entry"
     \/ actor'[a].pos = actor[a].pos /\ actor'[a].zone = actor[a].zone
  /\ \A z \in Zones : /\ listed'[z][a] = listed[z][a]
                      /\ pending'[z][a] = pending[z][a]

LEMMA UnmovedKeeps ==
  ASSUME PlayerTypes, NEW a \in Actors, Sound(a), Unmoved(a)
  PROVE  Sound(a)'
<1>1. phase[a] # "idle" => Target(a)' = Target(a) /\ Target(a) \in Zones
  BY TargetType DEF Target, Unmoved, Sound, Joining
<1>2. at[a] \in Zones \cup {"entry"} /\ phase[a] \in Phases
  BY DEF PlayerTypes
<1>3. Settled(a)' <=> Settled(a)
  BY DEF Settled, Unmoved
<1>4. Joining(a)'
  <2>1. /\ phase'[a] = phase[a] /\ at'[a] = at[a]
        /\ phase[a] # "idle" => joins'[a] # <<>> /\ Head(joins'[a]) = Head(joins[a])
    BY DEF Unmoved
  <2>2. phase[a] \in {"admitted", "left"} => pending'[Target(a)][a] = Head(joins[a])
    BY <1>1 DEF Sound, Joining, Unmoved
  <2>3. CASE phase[a] = "idle"
    BY <2>1, <2>3 DEF Joining
  <2>4. CASE phase[a] # "idle"
    <3>1. Target(a)' = Target(a) /\ Head(joins'[a]) = Head(joins[a])
          /\ joins'[a] # <<>>
      BY <1>1, <2>1, <2>4
    <3>2. phase[a] \in {"left", "came"} => at[a] # Target(a)
      BY DEF Sound, Joining
    <3> QED BY <2>1, <2>2, <3>1, <3>2 DEF Joining
  <2> QED BY <2>3, <2>4
<1>5. ListedBy(a)'
  BY <1>1, <1>3 DEF Sound, ListedBy, Unmoved
<1>6. Believes(a)'
  <2>1. CASE phase[a] = "came"
    <3>1. /\ Target(a) \in Zones /\ Target(a)' = Target(a) /\ ~Settled(a)
          /\ actor'[a].pos = actor[a].pos /\ actor'[a].zone = actor[a].zone
      BY <1>1, <2>1 DEF Unmoved, Settled
    <3>2. NoUpdate(a, Target(a))' <=> NoUpdate(a, Target(a))
      BY <3>1, AddedKeeps DEF Unmoved
    <3>3. listed'[Target(a)][a] = listed[Target(a)][a]
      BY <3>1 DEF Unmoved
    <3> QED BY <1>3, <2>1, <3>1, <3>2, <3>3 DEF Sound, Believes
  <2>2. CASE Settled(a) /\ at[a] # "entry"
    <3>1. actor'[a].pos = actor[a].pos /\ actor'[a].zone = actor[a].zone
          /\ at'[a] = at[a]
      BY <2>2 DEF Unmoved
    <3>2. Shows(a, at[a]) => Shows(a, at[a])'
      BY <1>2, <2>2, <3>1, AddedKeeps DEF Unmoved
    <3>3. phase[a] # "came" /\ phase'[a] # "came"
      BY <2>2 DEF Settled, Unmoved
    <3> QED BY <2>2, <3>1, <3>2, <3>3 DEF Sound, Believes
  <2>3. CASE phase[a] # "came" /\ ~(Settled(a) /\ at[a] # "entry")
    BY <1>3, <2>3 DEF Believes, Unmoved
  <2> QED BY <2>1, <2>2, <2>3
<1> QED BY <1>4, <1>5, <1>6 DEF Sound

\* A join is admitted, refused or given up: the actor stays where it was.
LEMMA StaysKeeps ==
  ASSUME PlayerTypes, NEW a \in Actors, Sound(a), Settled(a), Settled(a)', Joining(a)',
         at'[a] = at[a], UNCHANGED <<actor, listed, updates>>
  PROVE  Sound(a)'
<1>1. phase'[a] # "left" /\ phase'[a] # "came"
  BY DEF Settled
<1>2. ListedBy(a)'
  BY <1>1 DEF Sound, ListedBy
<1>3. Believes(a)'
  BY <1>1 DEF Sound, Believes, Shows, NoUpdate, LastUpdate
<1> QED BY <1>2, <1>3 DEF Sound

\* A step of the actor a.
LEMMA StepOf ==
  ASSUME PInv, NEW a \in Actors, PlayerTypes', \A z \in Zones : OwnPositions(z)',
         Sound(a)', \A b \in Actors : b # a => Unmoved(b)
  PROVE  PInv'
<1>1. \A b \in Actors : Sound(b)'
  BY UnmovedKeeps DEF PInv
<1> QED BY <1>1 DEF PInv

\* A step that changes no more than the actor's own record and its joins.
LEMMA TalkKeeps ==
  ASSUME PInv, NEW a \in Actors, NEW v \in ActorStates, NEW js \in Seq(Joins),
         actor' = [actor EXCEPT ![a] = v], joins' = [joins EXCEPT ![a] = js],
         UNCHANGED <<at, phase, pending, listed, updates>>,
         over' \in [Actors -> Seq(Completions)], deeds' \in Nat,
         phase[a] # "idle" => js # <<>> /\ Head(js) = Head(joins[a]),
         \/ Settled(a) /\ at[a] = "entry"
         \/ v.pos = actor[a].pos /\ v.zone = actor[a].zone
  PROVE  PInv'
<1>1. PlayerTypes
  BY DEF PInv
<1>2. PlayerTypes'
  BY <1>1 DEF PlayerTypes
<1>3. \A z \in Zones : OwnPositions(z)'
  BY DEF PInv, OwnPositions
<1>4. actor'[a] = v /\ joins'[a] = js
  BY <1>1 DEF PlayerTypes
<1>5. \A b \in Actors : b # a => actor'[b] = actor[b] /\ joins'[b] = joins[b]
  BY <1>1 DEF PlayerTypes
<1>6. \A b \in Actors : OthersAdded(b)
  BY DEF OthersAdded
<1>7. Unmoved(a)
  BY <1>4, <1>6 DEF Unmoved
<1>8. \A b \in Actors : b # a => Unmoved(b)
  <2> SUFFICES ASSUME NEW b \in Actors, b # a PROVE Unmoved(b)
    OBVIOUS
  <2>1. phase[b] # "idle" => joins[b] # <<>>
    BY DEF PInv, Sound, Joining
  <2> QED BY <1>5, <1>6, <2>1 DEF Unmoved
<1>9. Sound(a)'
  BY <1>1, <1>7, UnmovedKeeps DEF PInv
<1> QED BY <1>2, <1>3, <1>8, <1>9, StepOf

-----------------------------------------------------------------------------
(* Packets and bot ticks *)

LEMMA PrepareKeeps ==
  ASSUME PInv, NEW a \in Actors, NEW to \in Inside, NEW initial \in BOOLEAN,
         NEW new \in ActorStates, PrepareJoin(a, to, initial, new),
         \/ Settled(a) /\ at[a] = "entry"
         \/ new.pos = actor[a].pos /\ new.zone = actor[a].zone,
         UNCHANGED <<at, phase, over, pending, listed, updates>>, deeds' \in Nat
  PROVE  PInv'
<1> DEFINE j == [pos |-> to, to |-> ZoneOf(to), bot |-> new.bot, initial |-> initial,
                 operation |-> deeds, from |-> IF new.fresh THEN None ELSE new.zone]
           v == [new EXCEPT !.initial = initial]
           js == Append(joins[a], j)
<1>1. PlayerTypes
  BY DEF PInv
<1>2. j \in Joins
  BY <1>1, ZoneOfType DEF Joins, JoinRecords, PlayerTypes, ActorStates
<1>3. v \in ActorStates /\ v.pos = new.pos /\ v.zone = new.zone
  BY DEF ActorStates
<1>4. joins[a] \in Seq(Joins)
  BY <1>1 DEF PlayerTypes
<1>5. actor' = [actor EXCEPT ![a] = v] /\ joins' = [joins EXCEPT ![a] = js]
  BY DEF PrepareJoin
<1> HIDE DEF j, v
<1>6. /\ js \in Seq(Joins) /\ js # <<>>
      /\ joins[a] # <<>> => Head(js) = Head(joins[a])
  BY <1>2, <1>4
<1>7. phase[a] # "idle" => joins[a] # <<>>
  BY DEF PInv, Sound, Joining
<1>8. over' \in [Actors -> Seq(Completions)]
  BY <1>1 DEF PlayerTypes
<1> HIDE DEF js
<1>9. /\ phase[a] # "idle" => js # <<>> /\ Head(js) = Head(joins[a])
      /\ \/ Settled(a) /\ at[a] = "entry"
         \/ v.pos = actor[a].pos /\ v.zone = actor[a].zone
  BY <1>3, <1>6, <1>7
<1>10. UNCHANGED <<at, phase, pending, listed, updates>>
  OBVIOUS
<1> QED BY <1>3, <1>5, <1>6, <1>8, <1>9, <1>10, TalkKeeps

LEMMA ActorKeeps ==
  ASSUME PInv, NEW a \in Actors, NEW v \in ActorStates, actor' = [actor EXCEPT ![a] = v],
         v.pos = actor[a].pos, v.zone = actor[a].zone,
         UNCHANGED <<at, phase, joins, pending, listed, updates>>,
         over' \in [Actors -> Seq(Completions)], deeds' \in Nat
  PROVE  PInv'
<1>1. joins \in [Actors -> Seq(Joins)]
  BY DEF PInv, PlayerTypes
<1>2. joins' = [joins EXCEPT ![a] = joins[a]] /\ joins[a] \in Seq(Joins)
  BY <1>1
<1>3. phase[a] # "idle" => joins[a] # <<>>
  BY DEF PInv, Sound, Joining
<1> QED BY <1>2, <1>3, TalkKeeps

LEMMA SameKeeps ==
  ASSUME PInv,
         UNCHANGED <<actor, at, joins, phase, over, pending, listed, updates, deeds>>
  PROVE  PInv'
<1>1. PlayerTypes' /\ \A z \in Zones : OwnPositions(z)'
  BY DEF PInv, PlayerTypes, OwnPositions
<1>2. ASSUME NEW a \in Actors
      PROVE  Unmoved(a)
  BY DEF PInv, Sound, Joining, Unmoved, OthersAdded
<1>3. \A a \in Actors : Sound(a)'
  BY <1>2, UnmovedKeeps DEF PInv
<1> QED BY <1>1, <1>3 DEF PInv

\* A move within the zone: the actor and, by the update it sends, its zone.
LEMMA WalkKeeps ==
  ASSUME PInv, NEW a \in Actors, NEW to \in Inside, Settled(a), at[a] # "entry",
         ZoneOf(to) = actor[a].zone,
         actor' = [actor EXCEPT ![a].pos = to],
         updates' = [updates EXCEPT ![at[a]] = Append(@, [who |-> a, pos |-> to])],
         UNCHANGED <<at, joins, phase, over, pending, listed>>, deeds' \in Nat
  PROVE  PInv'
<1> DEFINE z == at[a]
           m == [who |-> a, pos |-> to]
           v == [actor[a] EXCEPT !.pos = to]
           n == Len(updates[z])
<1>1. PlayerTypes
  BY DEF PInv
<1>2. z \in Zones /\ actor[a].zone = z
  BY <1>1 DEF PlayerTypes, PInv, Sound, Believes
<1>3. m \in Updates /\ m.who = a /\ m.pos = to
  BY DEF Updates
<1>4. v \in ActorStates /\ v.pos = to /\ v.zone = z
  BY <1>1, <1>2, ZenonT(60) DEF PlayerTypes, ActorStates
<1>5. actor' = [actor EXCEPT ![a] = v]
  OBVIOUS
<1> HIDE DEF m, v
<1>6. /\ updates' = [updates EXCEPT ![z] = Append(updates[z], m)]
      /\ updates[z] \in Seq(Updates)
  BY <1>1, <1>2 DEF m, PlayerTypes
<1>7. PlayerTypes'
  <2>1. actor' \in [Actors -> ActorStates]
    BY <1>1, <1>4, <1>5 DEF PlayerTypes
  <2>2. Append(updates[z], m) \in Seq(Updates)
    BY <1>3, <1>6
  <2>3. updates' \in [Zones -> Seq(Updates)]
    BY <1>1, <1>6, <2>2 DEF PlayerTypes
  <2> QED BY <1>1, <2>1, <2>3 DEF PlayerTypes
<1>8. /\ n \in Nat /\ Len(updates'[z]) = n + 1 /\ updates'[z][n + 1] = m
      /\ \A i \in 1 .. n : updates'[z][i] = updates[z][i]
      /\ DOMAIN updates'[z] = 1 .. n + 1
  <2>1. updates'[z] = Append(updates[z], m)
    BY <1>1, <1>2, <1>6 DEF PlayerTypes
  <2> QED BY <1>3, <1>6, <2>1
<1>9. \A y \in Zones : y # z => updates'[y] = updates[y]
  BY <1>1, <1>6 DEF PlayerTypes
<1>10. \A y \in Zones : OwnPositions(y)'
  <2> SUFFICES ASSUME NEW y \in Zones PROVE OwnPositions(y)'
    OBVIOUS
  <2>1. OwnPositions(y)
    BY DEF PInv
  <2>2. CASE y # z
    BY <1>9, <2>1, <2>2 DEF OwnPositions
  <2>3. CASE y = z
    <3>1. \A i \in 1 .. n + 1 : ZoneOf(updates'[z][i].pos) = z
      <4>1. \A i \in 1 .. n : ZoneOf(updates'[z][i].pos) = z
        BY <1>8, <2>1, <2>3 DEF OwnPositions
      <4>2. ZoneOf(updates'[z][n + 1].pos) = z
        BY <1>2, <1>3, <1>8
      <4> HIDE DEF n, z
      <4> QED BY <1>8, <4>1, <4>2
    <3> QED BY <1>8, <2>1, <2>3, <3>1 DEF OwnPositions
  <2> QED BY <2>2, <2>3
<1>11. actor'[a] = v /\ \A b \in Actors : b # a => actor'[b] = actor[b]
  BY <1>1, <1>5 DEF PlayerTypes
<1>12. \A b \in Actors : b # a => Unmoved(b)
  <2> SUFFICES ASSUME NEW b \in Actors, b # a PROVE Unmoved(b)
    OBVIOUS
  <2>1. OthersAdded(b)
    <3> SUFFICES ASSUME NEW y \in Zones
                 PROVE  \/ updates'[y] = updates[y]
                        \/ \E k \in Updates :
                             k.who # b /\ updates'[y] = Append(updates[y], k)
      BY DEF OthersAdded
    <3>1. CASE y = z
      <4>1. updates'[y] = Append(updates[y], m)
        BY <1>1, <1>6, <3>1 DEF PlayerTypes
      <4> QED BY <1>3, <4>1
    <3> QED BY <1>9, <3>1
  <2>2. phase[b] # "idle" => joins[b] # <<>>
    BY DEF PInv, Sound, Joining
  <2> QED BY <1>11, <2>1, <2>2 DEF Unmoved
<1>13. Sound(a)'
  <2>1. Sound(a) /\ phase[a] # "came" /\ phase[a] # "left"
    BY DEF PInv, Settled
  <2>2. Joining(a)'
    BY <2>1 DEF Sound, Joining, Target
  <2>3. ListedBy(a)'
    BY <2>1 DEF Sound, ListedBy, Settled, Target
  <2>4. ~NoUpdate(a, z)'
    <3>1. (n + 1) \in DOMAIN updates'[z]
      BY <1>8
    <3> QED BY <1>3, <1>8, <3>1 DEF NoUpdate
  <2>5. ASSUME NEW i \in 1 .. Len(updates'[z]), LastUpdate(a, z, i)'
        PROVE  updates'[z][i].pos = to
    <3>1. \A j \in 1 .. Len(updates'[z]) : j > i => updates'[z][j].who # a
      BY <2>5 DEF LastUpdate
    <3>2. i = n + 1
      <4>1. i \in 1 .. n + 1 /\ n \in Nat
        BY <1>8
      <4>2. updates'[z][n + 1].who = a /\ n + 1 \in 1 .. Len(updates'[z])
        BY <1>3, <1>8
      <4>3. ~(n + 1 > i)
        BY <3>1, <4>2
      <4> HIDE DEF n, z
      <4> QED BY <4>1, <4>3
    <3> QED BY <1>3, <1>8, <3>2
  <2>6. Shows(a, z)'
    BY <1>4, <1>11, <2>4, <2>5 DEF Shows
  <2>7. Believes(a)'
    BY <1>4, <1>11, <2>1, <2>6 DEF Believes
  <2> QED BY <2>2, <2>3, <2>7 DEF Sound
<1> QED BY <1>7, <1>10, <1>12, <1>13, StepOf

LEMMA TurnedType ==
  ASSUME NEW d \in Directions
  PROVE  Turned(d) \in Directions
<1>1. /\ d[1] \in {-1, 0, 1} /\ d[2] \in {-1, 0, 1}
  BY DEF Directions
<1>2. -d[1] \in {-1, 0, 1} /\ -d[2] \in {-1, 0, 1}
  BY <1>1
<1> QED BY <1>2 DEF Turned, Directions

LEMMA AuthorityKeeps ==
  ASSUME PInv, NEW a \in Actors, NEW to, Settled(a), Authority(a, to), deeds' \in Nat,
         UNCHANGED <<at, phase, over, pending, listed>>
  PROVE  PInv'
<1> DEFINE me == actor[a]
<1>1. PlayerTypes
  BY DEF PInv
<1>2. me \in ActorStates /\ over \in [Actors -> Seq(Completions)]
      /\ actor \in [Actors -> ActorStates]
  BY <1>1 DEF PlayerTypes
<1>3. Valid(me.pos, to) => to \in Inside
  BY DEF Valid
<1>4. CASE UNCHANGED <<joins, updates>>
           /\ actor' = IF me.bot THEN [actor EXCEPT ![a].dir = Turned(@)] ELSE actor
  <2> DEFINE v == IF me.bot THEN [me EXCEPT !.dir = Turned(me.dir)] ELSE me
  <2>1. actor' = [actor EXCEPT ![a] = v]
    BY <1>2, <1>4
  <2>2. Turned(me.dir) \in Directions
    BY <1>2, TurnedType DEF ActorStates
  <2>3. v \in ActorStates /\ v.pos = me.pos /\ v.zone = me.zone
    BY <1>2, <2>2 DEF ActorStates
  <2> HIDE DEF v
  <2> QED BY <1>2, <1>4, <2>1, <2>3, ActorKeeps
<1>5. CASE Valid(me.pos, to) /\ PrepareJoin(a, to, FALSE, me) /\ UNCHANGED updates
  BY <1>2, <1>3, <1>5, PrepareKeeps
<1>6. CASE /\ Valid(me.pos, to) /\ ZoneOf(to) = me.zone
           /\ actor' = [actor EXCEPT ![a].pos = to]
           /\ updates' = IF at[a] = "entry" THEN updates
                         ELSE [updates EXCEPT ![at[a]] = Append(@, [who |-> a, pos |-> to])]
           /\ UNCHANGED joins
  <2>1. CASE at[a] = "entry"
    <3> DEFINE v == [me EXCEPT !.pos = to]
    <3>1. v \in ActorStates
      BY <1>2, <1>3, <1>6 DEF ActorStates
    <3>2. actor' = [actor EXCEPT ![a] = v]
      BY <1>6
    <3> HIDE DEF v
    <3>3. joins \in [Actors -> Seq(Joins)]
      BY <1>1 DEF PlayerTypes
    <3>4. joins' = [joins EXCEPT ![a] = joins[a]] /\ joins[a] \in Seq(Joins)
      BY <1>6, <3>3
    <3>5. phase[a] # "idle" => joins[a] # <<>>
      BY DEF PInv, Sound, Joining
    <3>6. updates' = updates /\ over' \in [Actors -> Seq(Completions)]
      BY <1>2, <1>6, <2>1
    <3> QED BY <2>1, <3>1, <3>2, <3>4, <3>5, <3>6, TalkKeeps
  <2>2. CASE at[a] # "entry"
    BY <1>3, <1>6, <2>2, WalkKeeps
  <2> QED BY <2>1, <2>2
<1> QED BY <1>4, <1>5, <1>6 DEF Authority

LEMMA TurnType ==
  ASSUME PInv, NEW a, Turn(a)
  PROVE  Settled(a) /\ deeds' \in Nat
BY DEF PInv, PlayerTypes, Turn

LEMMA PacketKeeps ==
  ASSUME PInv, NEW a \in Actors,
         \/ JoinWorld(a) \/ EnterWorld(a) \/ BotTick(a) \/ \E to \in Reach : Move(a, to)
  PROVE  PInv'
<1>1. PlayerTypes /\ actor[a] \in ActorStates
  BY DEF PInv, PlayerTypes
<1>2. over' = over => over' \in [Actors -> Seq(Completions)]
  BY <1>1 DEF PlayerTypes
<1>3. CASE JoinWorld(a)
  <2>1. Settled(a) /\ deeds' \in Nat /\ UNCHANGED <<at, phase, over, pending, listed, updates>>
    BY <1>3, TurnType DEF JoinWorld
  <2>2. CASE at[a] = "entry" /\ actor[a].fresh
    <3> DEFINE new == [actor[a] EXCEPT !.pos = Spawn, !.zone = "zone-nw", !.bot = FALSE]
    <3>1. PrepareJoin(a, Spawn, TRUE, new)
      BY <1>3, <2>2 DEF JoinWorld
    <3>2. Spawn \in Inside /\ "zone-nw" \in Zones
      BY WorldAssumption DEF Zones
    <3>3. new \in ActorStates
      BY <1>1, <3>2 DEF ActorStates
    <3> HIDE DEF new
    <3> QED BY <2>1, <2>2, <3>1, <3>2, <3>3, PrepareKeeps
  <2>3. CASE ~(at[a] = "entry" /\ actor[a].fresh)
    <3>1. UNCHANGED <<actor, joins>>
      BY <1>3, <2>3 DEF JoinWorld
    <3>2. actor' = [actor EXCEPT ![a] = actor[a]]
      BY <1>1, <3>1 DEF PlayerTypes
    <3> QED BY <1>1, <1>2, <2>1, <3>1, <3>2, ActorKeeps
  <2> QED BY <2>2, <2>3
<1>4. CASE EnterWorld(a)
  <2>1. /\ Settled(a) /\ deeds' \in Nat /\ at[a] = "entry"
        /\ UNCHANGED <<at, phase, over, pending, listed, updates>>
    BY <1>4, TurnType DEF EnterWorld
  <2>2. PICK f \in Fixtures :
          PrepareJoin(a, f[1], TRUE, [actor[a] EXCEPT !.bot = TRUE, !.dir = <<f[2], f[3]>>])
    BY <1>4 DEF EnterWorld
  <2> DEFINE new == [actor[a] EXCEPT !.bot = TRUE, !.dir = <<f[2], f[3]>>]
  <2>3. f[1] \in Inside /\ <<f[2], f[3]>> \in Directions
    BY WorldAssumption DEF Directions
  <2>4. new \in ActorStates
    BY <1>1, <2>3 DEF ActorStates
  <2>5. PrepareJoin(a, f[1], TRUE, new)
    BY <2>2
  <2> HIDE DEF new
  <2> QED BY <2>1, <2>3, <2>4, <2>5, PrepareKeeps
<1>5. CASE BotTick(a)
  <2>1. Settled(a) /\ deeds' \in Nat /\ UNCHANGED <<at, phase, over, pending, listed>>
    BY <1>5, TurnType DEF BotTick
  <2> QED BY <1>5, <2>1, AuthorityKeeps DEF BotTick
<1>6. ASSUME NEW to \in Reach, Move(a, to)
      PROVE  PInv'
  <2>1. Settled(a) /\ deeds' \in Nat /\ UNCHANGED <<at, phase, over, pending, listed>>
    BY <1>6, TurnType DEF Move
  <2> QED BY <1>6, <2>1, AuthorityKeeps DEF Move
<1> QED BY <1>3, <1>4, <1>5, <1>6

-----------------------------------------------------------------------------
(* Updates of a zone's list *)

LEMMA UpdateKeeps ==
  ASSUME PInv, NEW z \in Zones, UpdatePosition(z)
  PROVE  PInv'
<1> DEFINE u == updates[z]
           t == Tail(updates[z])
           m == Head(updates[z])
           n == Len(updates[z])
<1>1. PlayerTypes
  BY DEF PInv
<1>2. /\ u \in Seq(Updates) /\ u # <<>> /\ m \in Updates /\ m = u[1]
      /\ t \in Seq(Updates) /\ n \in Nat /\ n > 0 /\ Len(t) = n - 1
      /\ DOMAIN u = 1 .. n /\ DOMAIN t = 1 .. n - 1
      /\ \A i \in 1 .. n - 1 : t[i] = u[i + 1]
  BY <1>1 DEF UpdatePosition, PlayerTypes
<1>3. /\ updates'[z] = t
      /\ \A y \in Zones : y # z => updates'[y] = updates[y]
      /\ updates' \in [Zones -> Seq(Updates)]
  BY <1>1, <1>2 DEF UpdatePosition, PlayerTypes
<1>4. UNCHANGED <<actor, at, joins, phase, over, pending, deeds>>
  BY DEF UpdatePosition
<1>5. m.who \in Actors /\ m.pos \in Inside /\ m.pos # None
  BY <1>2, EntryIsNoZone DEF Updates
<1>6. listed' = IF listed[z][m.who] = None THEN listed
                ELSE [listed EXCEPT ![z][m.who] = m.pos]
  BY DEF UpdatePosition
<1> HIDE DEF u, t, m, n
<1>7. \A y \in Zones, b \in Actors :
        listed'[y][b] = IF y = z /\ b = m.who /\ listed[z][b] # None THEN m.pos
                        ELSE listed[y][b]
  BY <1>1, <1>5, <1>6 DEF PlayerTypes
<1>8. PlayerTypes'
  <2>1. listed' \in [Zones -> [Actors -> Inside \cup {None}]]
    BY <1>1, <1>5, <1>6 DEF PlayerTypes
  <2> QED BY <1>1, <1>3, <1>4, <2>1 DEF PlayerTypes
<1>9. \A y \in Zones : OwnPositions(y)'
  <2> SUFFICES ASSUME NEW y \in Zones PROVE OwnPositions(y)'
    OBVIOUS
  <2>1. OwnPositions(y) /\ OwnPositions(z)
    BY DEF PInv
  <2>2. ZoneOf(m.pos) = z
    BY <1>2, <2>1 DEF OwnPositions, u, n
  <2>3. ASSUME NEW a \in Actors, listed'[y][a] # None
        PROVE  ZoneOf(listed'[y][a]) = y
    BY <1>7, <2>1, <2>2, <2>3 DEF OwnPositions
  <2>4. ASSUME NEW i \in 1 .. Len(updates'[y])
        PROVE  ZoneOf(updates'[y][i].pos) = y
    <3>1. CASE y = z
      <4>1. i \in 1 .. n - 1 /\ i + 1 \in 1 .. n
        BY <1>2, <1>3, <2>4, <3>1
      <4>2. updates'[y][i] = updates[z][i + 1]
        BY <1>2, <1>3, <3>1, <4>1 DEF u
      <4> QED BY <2>1, <3>1, <4>1, <4>2 DEF OwnPositions, n
    <3>2. CASE y # z
      BY <1>3, <2>1, <2>4, <3>2 DEF OwnPositions
    <3> QED BY <3>1, <3>2
  <2> QED BY <2>3, <2>4 DEF OwnPositions
<1>10. ASSUME NEW a \in Actors
       PROVE  Sound(a)'
  <2>1. /\ Sound(a) /\ Target(a)' = Target(a) /\ (Settled(a)' <=> Settled(a))
        /\ at'[a] = at[a] /\ phase'[a] = phase[a] /\ actor'[a] = actor[a]
    BY <1>4 DEF PInv, Target, Settled
  <2>2. Joining(a)'
    BY <1>4, <2>1 DEF Sound, Joining
  <2>3. \A y \in Zones : listed'[y][a] # None <=> listed[y][a] # None
    BY <1>5, <1>7
  <2>4. ListedBy(a)'
    BY <2>1, <2>3 DEF Sound, ListedBy
  <2>5. ASSUME NEW y \in Zones, NoUpdate(a, y)
        PROVE  NoUpdate(a, y)' /\ listed'[y][a] = listed[y][a]
    <3>1. CASE y = z
      <4>1. m.who # a
        BY <1>2, <2>5, <3>1 DEF NoUpdate, u
      <4>2. \A i \in 1 .. n - 1 : t[i].who # a
        BY <1>2, <2>5, <3>1 DEF NoUpdate, u
      <4>3. NoUpdate(a, y)'
        BY <1>2, <1>3, <3>1, <4>2 DEF NoUpdate
      <4> QED BY <1>7, <4>1, <4>3
    <3>2. CASE y # z
      BY <1>3, <1>7, <2>5, <3>2 DEF NoUpdate
    <3> QED BY <3>1, <3>2
  <2>6. ASSUME Shows(a, z), listed[z][a] # None
        PROVE  Shows(a, z)'
    <3>1. ASSUME NEW i \in 1 .. n - 1, LastUpdate(a, z, i)'
          PROVE  LastUpdate(a, z, i + 1)
      <4>1. u[i + 1].who = a
        BY <1>2, <1>3, <3>1 DEF LastUpdate
      <4>2. ASSUME NEW j \in 1 .. n, j > i + 1
            PROVE  u[j].who # a
        <5>1. j - 1 \in 1 .. n - 1 /\ j - 1 > i /\ (j - 1) + 1 = j
          BY <1>2, <4>2
        <5>2. t[j - 1].who # a
          BY <1>2, <1>3, <3>1, <5>1 DEF LastUpdate
        <5> QED BY <1>2, <5>1, <5>2
      <4> QED BY <4>1, <4>2 DEF LastUpdate, u, n
    <3>2. ASSUME NEW i \in 1 .. Len(updates'[z]), LastUpdate(a, z, i)'
          PROVE  updates'[z][i].pos = actor'[a].pos
      <4>1. i \in 1 .. n - 1 /\ i + 1 \in 1 .. n
        BY <1>2, <1>3, <3>2
      <4>2. updates[z][i + 1].pos = actor[a].pos
        BY <2>6, <3>1, <3>2, <4>1 DEF Shows, n
      <4> QED BY <1>2, <1>3, <2>1, <4>1, <4>2 DEF u
    <3>3. ASSUME NoUpdate(a, z)'
          PROVE  listed'[z][a] = actor'[a].pos
      <4>1. \A i \in 1 .. n - 1 : t[i].who # a
        BY <1>2, <1>3, <3>3 DEF NoUpdate
      <4>2. ASSUME NEW j \in 1 .. n, j > 1
            PROVE  u[j].who # a
        <5>1. j - 1 \in 1 .. n - 1 /\ (j - 1) + 1 = j
          BY <1>2, <4>2
        <5> QED BY <1>2, <4>1, <5>1
      <4>3. CASE m.who = a
        <5>1. LastUpdate(a, z, 1) /\ 1 \in 1 .. Len(updates[z])
          BY <1>2, <4>2, <4>3 DEF LastUpdate, u, n
        <5>2. m.pos = actor[a].pos
          BY <1>2, <2>6, <5>1 DEF Shows, u
        <5> QED BY <1>7, <2>1, <2>6, <4>3, <5>2
      <4>4. CASE m.who # a
        <5>1. \A j \in 1 .. n : u[j].who # a
          BY <1>2, <4>2, <4>4
        <5>2. NoUpdate(a, z)
          BY <1>2, <5>1 DEF NoUpdate, u
        <5> QED BY <1>7, <2>1, <2>6, <4>4, <5>2 DEF Shows
      <4> QED BY <4>3, <4>4
    <3> QED BY <3>2, <3>3 DEF Shows
  <2>7. Believes(a)'
    <3>1. CASE Settled(a) /\ at[a] # "entry"
      <4>1. /\ actor[a].zone = at[a] /\ Shows(a, at[a]) /\ phase[a] # "came"
            /\ at[a] \in Zones /\ listed[at[a]][a] # None
        BY <1>1, <2>1, <3>1 DEF Sound, Believes, ListedBy, Settled, PlayerTypes
      <4>2. Shows(a, at[a])'
        <5>1. CASE at[a] = z
          BY <2>1, <2>6, <4>1, <5>1
        <5>2. CASE at[a] # z
          <6>1. /\ updates'[at[a]] = updates[at[a]]
                /\ listed'[at[a]][a] = listed[at[a]][a]
            BY <1>3, <1>7, <4>1, <5>2
          <6> QED BY <2>1, <4>1, <6>1 DEF Shows, NoUpdate, LastUpdate
        <5> QED BY <5>1, <5>2
      <4> QED BY <2>1, <4>1, <4>2 DEF Believes
    <3>2. CASE phase[a] = "came"
      <4>1. /\ actor[a].zone = Target(a) /\ NoUpdate(a, Target(a))
            /\ listed[Target(a)][a] = actor[a].pos
        BY <2>1, <3>2 DEF Sound, Believes
      <4>2. Target(a) \in Zones
        BY <1>1, <2>1, <3>2, TargetType DEF Sound, Joining
      <4>3. NoUpdate(a, Target(a))' /\ listed'[Target(a)][a] = listed[Target(a)][a]
        BY <2>1, <2>5, <4>1, <4>2
      <4> QED BY <2>1, <3>2, <4>1, <4>3 DEF Believes, Settled
    <3>3. CASE phase[a] # "came" /\ ~(Settled(a) /\ at[a] # "entry")
      BY <2>1, <3>3 DEF Believes
    <3> QED BY <3>1, <3>2, <3>3
  <2> QED BY <2>2, <2>4, <2>7 DEF Sound
<1> QED BY <1>8, <1>9, <1>10 DEF PInv

-----------------------------------------------------------------------------
(* A join *)

LEMMA CompletionType ==
  ASSUME PlayerTypes, NEW a \in Actors, joins[a] # <<>>,
         NEW outcome \in {"accepted", "rejected", "failed"}
  PROVE  Completion(a, outcome) \in Seq(Completions)
<1> DEFINE c == [outcome |-> outcome, operation |-> Head(joins[a]).operation,
                 initial |-> Head(joins[a]).initial]
<1>1. Head(joins[a]) \in JoinRecords
  BY TargetType DEF Joins
<1>2. c \in Completions
  BY <1>1 DEF JoinRecords, Completions
<1>3. over[a] \in Seq(Completions)
  BY DEF PlayerTypes
<1> QED BY <1>2, <1>3 DEF Completion

LEMMA EndJoinTypes ==
  ASSUME PlayerTypes, NEW a \in Actors, joins[a] # <<>>,
         NEW outcome \in {"accepted", "rejected", "failed"}, EndJoin(a, outcome)
  PROVE  /\ over' \in [Actors -> Seq(Completions)]
         /\ joins' \in [Actors -> Seq(Joins)]
         /\ phase' \in [Actors -> Phases] /\ phase'[a] = "idle"
         /\ \A b \in Actors : b # a => joins'[b] = joins[b] /\ phase'[b] = phase[b]
<1>1. Completion(a, outcome) \in Seq(Completions) /\ Tail(joins[a]) \in Seq(Joins)
  BY CompletionType, TargetType
<1> QED BY <1>1 DEF EndJoin, PlayerTypes, Phases

\* The join of actor a is over, or goes on, without carrying it.
LEMMA StillKeeps ==
  ASSUME PInv, NEW a \in Actors, Settled(a), Settled(a)', Joining(a)',
         UNCHANGED <<actor, at, listed, updates, deeds>>,
         over' \in [Actors -> Seq(Completions)],
         joins' \in [Actors -> Seq(Joins)], phase' \in [Actors -> Phases],
         pending' \in [Zones -> [Actors -> Joins \cup {None}]],
         \A b \in Actors : b # a =>
           /\ joins'[b] = joins[b] /\ phase'[b] = phase[b]
           /\ \A z \in Zones : pending'[z][b] = pending[z][b]
  PROVE  PInv'
<1>1. PlayerTypes
  BY DEF PInv
<1>2. PlayerTypes'
  BY <1>1 DEF PlayerTypes
<1>3. \A z \in Zones : OwnPositions(z)'
  BY DEF PInv, OwnPositions
<1>4. Sound(a)'
  BY <1>1, StaysKeeps DEF PInv
<1>5. \A b \in Actors : b # a => Unmoved(b)
  BY DEF PInv, Sound, Joining, Unmoved, OthersAdded
<1> QED BY <1>2, <1>3, <1>4, <1>5, StepOf

LEMMA OnActorJoinKeeps ==
  ASSUME PInv, NEW a \in Actors, OnActorJoin(a)
  PROVE  PInv'
<1> DEFINE enter == Head(joins[a])
           closed == flag[NodeOf[enter.to]] /\ enter.from # enter.to
<1>1. PlayerTypes /\ joins[a] # <<>> /\ phase[a] = "idle"
  BY DEF PInv, OnActorJoin
<1>2. enter \in Joins /\ enter.to \in Zones
  BY <1>1, TargetType DEF Joins, JoinRecords
<1>3. Settled(a) /\ UNCHANGED <<actor, at, listed, updates, deeds>>
  BY <1>1 DEF Settled, OnActorJoin
<1>4. CASE closed
  <2>1. EndJoin(a, "rejected") /\ UNCHANGED pending
    BY <1>4 DEF OnActorJoin
  <2>2. /\ over' \in [Actors -> Seq(Completions)] /\ joins' \in [Actors -> Seq(Joins)]
        /\ phase' \in [Actors -> Phases] /\ phase'[a] = "idle"
        /\ \A b \in Actors : b # a => joins'[b] = joins[b] /\ phase'[b] = phase[b]
    BY <1>1, <2>1, EndJoinTypes
  <2>3. Joining(a)' /\ Settled(a)'
    BY <2>2 DEF Joining, Settled
  <2>4. pending' \in [Zones -> [Actors -> Joins \cup {None}]]
    BY <1>1, <2>1 DEF PlayerTypes
  <2>5. \A b \in Actors : b # a =>
           /\ joins'[b] = joins[b] /\ phase'[b] = phase[b]
           /\ \A z \in Zones : pending'[z][b] = pending[z][b]
    BY <2>1, <2>2
  <2> QED BY <1>3, <2>2, <2>3, <2>4, <2>5, StillKeeps
<1>5. CASE ~closed
  <2>1. /\ pending' = [pending EXCEPT ![enter.to][a] = enter]
        /\ phase' = [phase EXCEPT ![a] = "admitted"]
        /\ UNCHANGED <<joins, over>>
    BY <1>5 DEF OnActorJoin
  <2> HIDE DEF enter, closed
  <2>2. /\ over' \in [Actors -> Seq(Completions)] /\ joins' \in [Actors -> Seq(Joins)]
        /\ phase' \in [Actors -> Phases] /\ phase'[a] = "admitted"
        /\ pending' \in [Zones -> [Actors -> Joins \cup {None}]]
    BY <1>1, <1>2, <2>1 DEF PlayerTypes, Phases
  <2>3. \A b \in Actors : b # a =>
          /\ joins'[b] = joins[b] /\ phase'[b] = phase[b]
          /\ \A z \in Zones : pending'[z][b] = pending[z][b]
    BY <1>1, <1>2, <2>1 DEF PlayerTypes
  <2>4. pending'[enter.to][a] = enter
    BY <1>1, <1>2, <2>1 DEF PlayerTypes
  <2>5. joins'[a] = joins[a] /\ joins[a] # <<>> /\ Target(a)' = enter.to
        /\ Head(joins'[a]) = enter
    BY <1>1, <2>1 DEF Target, enter
  <2>6. Joining(a)' /\ Settled(a)'
    BY <2>2, <2>4, <2>5 DEF Joining, Settled
  <2> QED BY <1>3, <2>2, <2>3, <2>6, StillKeeps
<1> QED BY <1>4, <1>5

LEMMA FailJoinKeeps ==
  ASSUME PInv, NEW a \in Actors, FailJoin(a)
  PROVE  PInv'
<1>1. PlayerTypes /\ joins[a] # <<>> /\ Settled(a) /\ EndJoin(a, "failed")
      /\ UNCHANGED <<actor, at, pending, listed, updates, deeds>>
  BY DEF PInv, FailJoin
<1>2. /\ over' \in [Actors -> Seq(Completions)] /\ joins' \in [Actors -> Seq(Joins)]
      /\ phase' \in [Actors -> Phases] /\ phase'[a] = "idle"
      /\ \A b \in Actors : b # a => joins'[b] = joins[b] /\ phase'[b] = phase[b]
  BY <1>1, EndJoinTypes
<1>3. Joining(a)' /\ Settled(a)'
  BY <1>2 DEF Joining, Settled
<1>4. pending' \in [Zones -> [Actors -> Joins \cup {None}]]
  BY <1>1 DEF PlayerTypes
<1>5. \A b \in Actors : b # a =>
         /\ joins'[b] = joins[b] /\ phase'[b] = phase[b]
         /\ \A z \in Zones : pending'[z][b] = pending[z][b]
  BY <1>1, <1>2
<1> QED BY <1>1, <1>2, <1>3, <1>4, <1>5, StillKeeps

LEMMA OnLeaveActorKeeps ==
  ASSUME PInv, NEW a \in Actors, OnLeaveActor(a)
  PROVE  PInv'
<1>t. PlayerTypes /\ Sound(a)
  BY DEF PInv
<1>p. Target(a) \in Zones
  BY <1>t, TargetType DEF Sound, Joining, OnLeaveActor
<1>z. PICK z \in Zones : z = Target(a)
  BY <1>p
<1>1. PlayerTypes /\ Sound(a) /\ phase[a] \in {"admitted", "came"} /\ at[a] # z
      /\ UNCHANGED <<actor, pending, updates, deeds>>
  BY <1>t, <1>z DEF PInv, OnLeaveActor
<1>2. joins[a] # <<>> /\ z \in Zones /\ at[a] \in Zones \cup {"entry"}
  BY <1>1 DEF Sound, Joining, PlayerTypes
<1>3. listed' = IF at[a] = "entry" THEN listed ELSE [listed EXCEPT ![at[a]][a] = None]
  BY DEF OnLeaveActor
<1>4. /\ listed' \in [Zones -> [Actors -> Inside \cup {None}]]
      /\ \A y \in Zones, b \in Actors :
           listed'[y][b] = IF y = at[a] /\ b = a THEN None ELSE listed[y][b]
  <2>1. CASE at[a] = "entry"
    BY <1>1, <1>3, <2>1, EntryIsNoZone DEF PlayerTypes
  <2>2. CASE at[a] \in Zones
    BY <1>1, <1>3, <2>2, EntryIsNoZone DEF PlayerTypes
  <2> QED BY <1>2, <2>1, <2>2
<1>5. \A y \in Zones : OwnPositions(y)'
  BY <1>1, <1>4 DEF PInv, OwnPositions
<1>6. CASE phase[a] = "came"
  <2>1. EndJoin(a, "accepted") /\ at' = [at EXCEPT ![a] = z]
    BY <1>6, <1>z DEF OnLeaveActor
  <2>2. /\ over' \in [Actors -> Seq(Completions)] /\ joins' \in [Actors -> Seq(Joins)]
        /\ phase' \in [Actors -> Phases] /\ phase'[a] = "idle"
        /\ \A b \in Actors : b # a => joins'[b] = joins[b] /\ phase'[b] = phase[b]
    BY <1>1, <1>2, <2>1, EndJoinTypes
  <2>3. /\ at' \in [Actors -> Zones \cup {"entry"}] /\ at'[a] = z
        /\ \A b \in Actors : b # a => at'[b] = at[b]
    BY <1>1, <1>2, <2>1 DEF PlayerTypes
  <2>4. PlayerTypes'
    BY <1>1, <1>4, <2>2, <2>3 DEF PlayerTypes
  <2>5. \A y \in Zones : listed[y][a] # None <=> (y = at[a] \/ y = z)
    BY <1>1, <1>6, <1>z DEF Sound, ListedBy
  <2>6. \A y \in Zones : listed'[y][a] # None <=> y = z
    BY <1>1, <1>4, <2>5
  <2>7. /\ actor[a].zone = z /\ NoUpdate(a, z) /\ listed[z][a] = actor[a].pos
    BY <1>1, <1>6, <1>z DEF Sound, Believes
  <2>8. listed'[z][a] = actor'[a].pos /\ NoUpdate(a, z)'
    BY <1>1, <1>2, <1>4, <2>7 DEF NoUpdate
  <2>9. Shows(a, z)'
    <3>1. updates[z] \in Seq(Updates) /\ updates'[z] = updates[z]
      BY <1>1, <1>2 DEF PlayerTypes
    <3>2. \A i \in 1 .. Len(updates'[z]) : updates'[z][i].who # a
      BY <2>7, <3>1 DEF NoUpdate
    <3> QED BY <2>8, <3>2 DEF Shows, LastUpdate
  <2>10. Sound(a)'
    <3>1. Joining(a)' /\ ListedBy(a)'
      BY <2>2, <2>3, <2>6 DEF Joining, ListedBy, Settled
    <3>2. Believes(a)'
      BY <1>1, <2>2, <2>3, <2>7, <2>9 DEF Believes
    <3> QED BY <3>1, <3>2 DEF Sound
  <2>11. \A b \in Actors : b # a => Unmoved(b)
    BY <1>1, <1>4, <2>2, <2>3 DEF PInv, Sound, Joining, Unmoved, OthersAdded
  <2> QED BY <1>5, <2>4, <2>10, <2>11, StepOf
<1>7. CASE phase[a] = "admitted"
  <2>1. phase' = [phase EXCEPT ![a] = "left"] /\ UNCHANGED <<at, over, joins>>
    BY <1>7 DEF OnLeaveActor
  <2>2. /\ phase' \in [Actors -> Phases] /\ phase'[a] = "left"
        /\ \A b \in Actors : b # a => phase'[b] = phase[b]
    BY <1>1, <2>1 DEF PlayerTypes, Phases
  <2>3. PlayerTypes'
    BY <1>1, <1>4, <2>1, <2>2 DEF PlayerTypes
  <2>4. \A y \in Zones : listed[y][a] # None <=> at[a] = y
    BY <1>1, <1>7 DEF Sound, ListedBy, Settled
  <2>5. \A y \in Zones : listed'[y][a] = None
    BY <1>4, <2>4
  <2>6. Sound(a)'
    <3>1. pending'[Target(a)][a] = Head(joins[a]) /\ Target(a)' = Target(a)
      BY <1>1, <1>7, <2>1 DEF Sound, Joining, Target
    <3>2. Joining(a)'
      BY <1>1, <1>2, <1>z, <2>1, <2>2, <3>1 DEF Joining
    <3>3. ListedBy(a)'
      BY <2>2, <2>5 DEF ListedBy, Settled
    <3>4. Believes(a)'
      BY <2>2 DEF Believes, Settled
    <3> QED BY <3>2, <3>3, <3>4 DEF Sound
  <2>7. \A b \in Actors : b # a => Unmoved(b)
    BY <1>1, <1>4, <2>1, <2>2 DEF PInv, Sound, Joining, Unmoved, OthersAdded
  <2> QED BY <1>5, <2>3, <2>6, <2>7, StepOf
<1> QED BY <1>1, <1>6, <1>7

LEMMA OnActorJoinedKeeps ==
  ASSUME PInv, NEW a \in Actors, OnActorJoined(a)
  PROVE  PInv'
<1>t. PlayerTypes /\ Sound(a)
  BY DEF PInv
<1>p. Target(a) \in Zones
  BY <1>t, TargetType DEF Sound, Joining, OnActorJoined
<1>z. PICK z \in Zones : z = Target(a)
  BY <1>p
<1> DEFINE enter == Head(joins[a])
           v == [actor[a] EXCEPT !.pos = enter.pos, !.zone = z, !.bot = enter.bot]
           last == phase[a] = "left" \/ at[a] = z
<1>1. PlayerTypes /\ Sound(a) /\ phase[a] \in {"admitted", "left"} /\ NoUpdate(a, z)
      /\ UNCHANGED <<updates, deeds>>
  BY <1>t, <1>z DEF PInv, OnActorJoined
<1>2. /\ joins[a] # <<>> /\ z \in Zones /\ at[a] \in Zones \cup {"entry"}
      /\ enter \in JoinRecords /\ ZoneOf(enter.pos) = z /\ pending[z][a] = enter
  BY <1>1, <1>z, TargetType DEF Sound, Joining, PlayerTypes, Joins
<1>3. /\ pending' = [pending EXCEPT ![z][a] = None]
      /\ listed' = [listed EXCEPT ![z][a] = enter.pos]
      /\ actor' = [actor EXCEPT ![a].pos = enter.pos, ![a].zone = z, ![a].bot = enter.bot]
      /\ IF last THEN EndJoin(a, "accepted") /\ at' = [at EXCEPT ![a] = z]
         ELSE phase' = [phase EXCEPT ![a] = "came"] /\ UNCHANGED <<at, over, joins>>
  BY <1>2, <1>z DEF OnActorJoined
<1>4. actor[a] \in ActorStates /\ enter.pos \in Inside /\ enter.bot \in BOOLEAN
  BY <1>1, <1>2 DEF PlayerTypes, JoinRecords
<1>5. v \in ActorStates /\ v.pos = enter.pos /\ v.zone = z
  BY <1>2, <1>4 DEF ActorStates
<1>6. actor' = [actor EXCEPT ![a] = v]
  BY <1>1, <1>3, <1>4 DEF PlayerTypes, ActorStates
<1> HIDE DEF enter, v
<1>7. /\ actor' \in [Actors -> ActorStates] /\ actor'[a] = v
      /\ \A b \in Actors : b # a => actor'[b] = actor[b]
  BY <1>1, <1>5, <1>6 DEF PlayerTypes
<1>8. /\ listed' \in [Zones -> [Actors -> Inside \cup {None}]]
      /\ \A y \in Zones, b \in Actors :
           listed'[y][b] = IF y = z /\ b = a THEN enter.pos ELSE listed[y][b]
  BY <1>1, <1>2, <1>3, <1>4 DEF PlayerTypes
<1>9. /\ pending' \in [Zones -> [Actors -> Joins \cup {None}]]
      /\ \A y \in Zones, b \in Actors : b # a => pending'[y][b] = pending[y][b]
  BY <1>1, <1>2, <1>3 DEF PlayerTypes
<1>10. \A y \in Zones : OwnPositions(y)'
  BY <1>1, <1>2, <1>8 DEF PInv, OwnPositions
<1>11. /\ listed'[z][a] = enter.pos /\ enter.pos # None
       /\ NoUpdate(a, z)' /\ actor'[a].pos = enter.pos /\ actor'[a].zone = z
  BY <1>1, <1>2, <1>4, <1>5, <1>7, <1>8, EntryIsNoZone DEF NoUpdate
<1>12. CASE last
  <2>1. EndJoin(a, "accepted") /\ at' = [at EXCEPT ![a] = z]
    BY <1>3, <1>12
  <2>2. /\ over' \in [Actors -> Seq(Completions)] /\ joins' \in [Actors -> Seq(Joins)]
        /\ phase' \in [Actors -> Phases] /\ phase'[a] = "idle"
        /\ \A b \in Actors : b # a => joins'[b] = joins[b] /\ phase'[b] = phase[b]
    BY <1>1, <1>2, <2>1, EndJoinTypes
  <2>3. /\ at' \in [Actors -> Zones \cup {"entry"}] /\ at'[a] = z
        /\ \A b \in Actors : b # a => at'[b] = at[b]
    BY <1>1, <1>2, <2>1 DEF PlayerTypes
  <2>4. PlayerTypes'
    BY <1>1, <1>7, <1>8, <1>9, <2>2, <2>3 DEF PlayerTypes
  <2>5. \A y \in Zones : y # z => listed[y][a] = None
    <3>1. CASE phase[a] = "left"
      BY <1>1, <3>1 DEF Sound, ListedBy
    <3>2. CASE at[a] = z /\ phase[a] = "admitted"
      BY <1>1, <3>2 DEF Sound, ListedBy, Settled
    <3> QED BY <1>1, <1>12, <3>1, <3>2
  <2>6. \A y \in Zones : listed'[y][a] # None <=> y = z
    BY <1>8, <1>11, <2>5
  <2>7. Shows(a, z)'
    <3>1. updates[z] \in Seq(Updates) /\ updates'[z] = updates[z]
      BY <1>1, <1>2 DEF PlayerTypes
    <3>2. \A i \in 1 .. Len(updates'[z]) : updates'[z][i].who # a
      BY <1>11, <3>1 DEF NoUpdate
    <3> QED BY <1>11, <3>2 DEF Shows, LastUpdate
  <2>8. Sound(a)'
    <3>1. Joining(a)' /\ ListedBy(a)'
      BY <2>2, <2>3, <2>6 DEF Joining, ListedBy, Settled
    <3>2. Believes(a)'
      BY <1>11, <2>2, <2>3, <2>7 DEF Believes
    <3> QED BY <3>1, <3>2 DEF Sound
  <2>9. \A b \in Actors : b # a => Unmoved(b)
    BY <1>1, <1>7, <1>8, <1>9, <2>2, <2>3
       DEF PInv, Sound, Joining, Unmoved, OthersAdded
  <2> QED BY <1>10, <2>4, <2>8, <2>9, StepOf
<1>13. CASE ~last
  <2>1. phase' = [phase EXCEPT ![a] = "came"] /\ UNCHANGED <<at, over, joins>>
        /\ at[a] # z /\ phase[a] = "admitted"
    BY <1>1, <1>3, <1>13
  <2>2. /\ phase' \in [Actors -> Phases] /\ phase'[a] = "came"
        /\ \A b \in Actors : b # a => phase'[b] = phase[b]
    BY <1>1, <2>1 DEF PlayerTypes, Phases
  <2>3. PlayerTypes'
    BY <1>1, <1>7, <1>8, <1>9, <2>1, <2>2 DEF PlayerTypes
  <2>4. \A y \in Zones : listed[y][a] # None <=> at[a] = y
    BY <1>1, <2>1 DEF Sound, ListedBy, Settled
  <2>5. \A y \in Zones : listed'[y][a] # None <=> (y = at[a] \/ y = z)
    BY <1>8, <1>11, <2>4
  <2>6. Target(a)' = z
    BY <2>1, <1>z DEF Target
  <2>7. Sound(a)'
    <3>1. Joining(a)'
      BY <1>2, <2>1, <2>2, <2>6 DEF Joining
    <3>2. ListedBy(a)'
      BY <2>1, <2>2, <2>5, <2>6 DEF ListedBy, Settled
    <3>3. Believes(a)'
      BY <1>11, <2>2, <2>6 DEF Believes, Settled
    <3> QED BY <3>1, <3>2, <3>3 DEF Sound
  <2>8. \A b \in Actors : b # a => Unmoved(b)
    BY <1>1, <1>7, <1>8, <1>9, <2>1, <2>2
       DEF PInv, Sound, Joining, Unmoved, OthersAdded
  <2> QED BY <1>10, <2>3, <2>7, <2>8, StepOf
<1> QED BY <1>12, <1>13

LEMMA OnJoinCompletedKeeps ==
  ASSUME PInv, NEW a \in Actors, OnJoinCompleted(a)
  PROVE  PInv'
<1> DEFINE c == Head(over[a])
           me == actor[a]
<1>1. /\ PlayerTypes /\ over[a] \in Seq(Completions) /\ over[a] # <<>>
      /\ me \in ActorStates /\ actor \in [Actors -> ActorStates]
  BY DEF PInv, PlayerTypes, OnJoinCompleted
<1>2. c \in Completions /\ Tail(over[a]) \in Seq(Completions)
  BY <1>1
<1>3. over' \in [Actors -> Seq(Completions)]
  BY <1>1, <1>2 DEF OnJoinCompleted, PlayerTypes
<1>4. UNCHANGED <<at, phase, joins, pending, listed, updates, deeds>> /\ deeds' \in Nat
  BY <1>1 DEF OnJoinCompleted, PlayerTypes
<1>5. \E v \in ActorStates : /\ actor' = [actor EXCEPT ![a] = v]
                             /\ v.pos = me.pos /\ v.zone = me.zone
  <2>1. CASE c.operation \in me.operations
    <3>1. actor' = [actor EXCEPT ![a] = me]
      BY <1>1, <2>1 DEF OnJoinCompleted
    <3> QED BY <1>1, <3>1
  <2>2. CASE c.operation \notin me.operations
    <3> DEFINE done == [me EXCEPT !.operations = @ \cup {c.operation}]
               v == IF c.outcome = "accepted" THEN [done EXCEPT !.fresh = FALSE]
                    ELSE IF c.outcome = "rejected" /\ me.bot
                         THEN [done EXCEPT !.dir = Turned(@)]
                    ELSE done
    <3>1. actor' = [actor EXCEPT ![a] = v]
      BY <2>2 DEF OnJoinCompleted, Completed
    <3>2. me.operations \cup {c.operation} \in SUBSET Nat
      BY <1>1, <1>2 DEF ActorStates, Completions
    <3>3. done \in ActorStates /\ done.pos = me.pos /\ done.zone = me.zone
      BY <1>1, <3>2 DEF ActorStates
    <3> HIDE DEF done
    <3>4. Turned(done.dir) \in Directions
      BY <3>3, TurnedType DEF ActorStates
    <3>5. v \in ActorStates /\ v.pos = me.pos /\ v.zone = me.zone
      BY <3>3, <3>4 DEF ActorStates
    <3> HIDE DEF v
    <3> QED BY <3>1, <3>5
  <2> QED BY <2>1, <2>2
<1> QED BY <1>3, <1>4, <1>5, ActorKeeps

-----------------------------------------------------------------------------
(* Steps *)

LEMMA NextKeeps == PInv /\ [WorldNext]_<<opsVars, worldVars>> => PInv'
<1> SUFFICES ASSUME PInv, [WorldNext]_<<opsVars, worldVars>>
             PROVE  PInv'
  OBVIOUS
<1>1. ASSUME NEW a \in Actors,
             \/ JoinWorld(a) \/ EnterWorld(a) \/ BotTick(a)
             \/ \E to \in Reach : Move(a, to)
      PROVE  PInv'
  BY <1>1, PacketKeeps
<1>2. ASSUME NEW a \in Actors, OnActorJoin(a)
      PROVE  PInv'
  BY <1>2, OnActorJoinKeeps
<1>3. ASSUME NEW a \in Actors, FailJoin(a)
      PROVE  PInv'
  BY <1>3, FailJoinKeeps
<1>4. ASSUME NEW a \in Actors, OnLeaveActor(a)
      PROVE  PInv'
  BY <1>4, OnLeaveActorKeeps
<1>5. ASSUME NEW a \in Actors, OnActorJoined(a)
      PROVE  PInv'
  BY <1>5, OnActorJoinedKeeps
<1>6. ASSUME NEW a \in Actors, OnJoinCompleted(a)
      PROVE  PInv'
  BY <1>6, OnJoinCompletedKeeps
<1>7. ASSUME NEW z \in Zones, UpdatePosition(z)
      PROVE  PInv'
  BY <1>7, UpdateKeeps
<1>8. CASE PlayersNext
  BY <1>1, <1>2, <1>3, <1>4, <1>5, <1>6, <1>7, <1>8 DEF PlayersNext
<1>9. CASE NewsNext
  <2>1. UNCHANGED playerVars
    BY <1>9 DEF NewsNext, AnnounceWorld, AnnounceNode, AnnounceZone, DeliverAnnounce
  <2> QED BY <2>1, SameKeeps DEF playerVars
<1>10. CASE UNCHANGED worldVars
  BY <1>10, SameKeeps DEF worldVars, playerVars
<1> QED BY <1>8, <1>9, <1>10 DEF WorldNext

\* The zones' lists and the actors' own positions agree, wherever leave and arrival,
\* moves, failures, late updates and repeated completions fall, for any world, any
\* players and any maintenance of the nodes.
THEOREM PlayersAreInOneZone == WorldSpec => []InOneZone
<1>1. WorldInit => PInv
  BY InitPInv
<1>2. PInv /\ [WorldNext]_<<opsVars, worldVars>> => PInv'
  BY NextKeeps
<1>3. PInv => InOneZone
  BY InvImplies
<1> QED BY <1>1, <1>2, <1>3, PTL DEF WorldSpec

-----------------------------------------------------------------------------
(* Steps and replies of an actor that waits for its joins *)

\* A human never becomes a bot, and nobody was let in who is still at the entry.
Kind(a) ==
  /\ a \in Humans => /\ ~actor[a].bot
                     /\ \A i \in 1 .. Len(joins[a]) : ~joins[a][i].bot
  /\ at[a] = "entry" => /\ actor[a].fresh
                        /\ \A i \in 1 .. Len(over[a]) : over[a][i].outcome # "accepted"

\* One join at most is not over; the actor remembers what kind of join it was and has
\* not handled its completion, and until the actor arrives the join is a legal step.
Calm(a) ==
  /\ Len(joins[a]) + Len(over[a]) <= 1
  /\ \A o \in actor[a].operations : o < deeds
  /\ joins[a] # <<>> =>
       /\ Head(joins[a]).initial = actor[a].initial
       /\ Head(joins[a]).operation < deeds
       /\ Head(joins[a]).operation \notin actor[a].operations
       /\ ~actor[a].fresh /\ phase[a] # "came" => Valid(actor[a].pos, Head(joins[a]).pos)
  /\ over[a] # <<>> =>
       /\ Head(over[a]).operation < deeds
       /\ Head(over[a]).operation \in actor[a].operations
          \/ Head(over[a]).initial = actor[a].initial

\* The reply that is due when the join is over, and when its completion is handled.
JoinOwes(a) == IF joins[a] # <<>> /\ Head(joins[a]).initial THEN 1 ELSE 0
OverOwes(a) ==
  IF /\ over[a] # <<>> /\ Head(over[a]).initial
     /\ Head(over[a]).operation \notin actor[a].operations
  THEN 1 ELSE 0

Owed(a) == a \in Humans => asked[a] - answered[a] = JoinOwes(a) + OverOwes(a)

Good(a) == Kind(a) /\ (~raced[a] => Calm(a) /\ Owed(a))

HistoryTypes ==
  /\ asked \in [Actors -> Nat] /\ answered \in [Actors -> Nat]
  /\ raced \in [Actors -> BOOLEAN]

SInv == HistoryTypes /\ \A a \in Actors : Good(a)

LEMMA InitSInv == WorldInit => SInv
<1> SUFFICES ASSUME WorldInit PROVE SInv
  OBVIOUS
<1>1. HistoryTypes
  BY DEF WorldInit, HistoryTypes
<1>2. ASSUME NEW a \in Actors PROVE Good(a)
  <2>1. /\ joins[a] = <<>> /\ over[a] = <<>> /\ asked[a] = 0 /\ answered[a] = 0
        /\ actor[a].fresh = TRUE /\ actor[a].operations = {} /\ actor[a].bot = (a \in Bots)
    BY DEF WorldInit, NewActor
  <2>2. Kind(a)
    <3>1. a \in Humans => ~actor[a].bot
      BY <2>1, WorldAssumption, Zenon
    <3> QED BY <2>1, <3>1 DEF Kind
  <2>3. Calm(a) /\ Owed(a)
    BY <2>1 DEF Calm, Owed, JoinOwes, OverOwes
  <2> QED BY <2>2, <2>3 DEF Good
<1> QED BY <1>1, <1>2 DEF SInv

\* Another actor's step.
Untouched(b) ==
  /\ actor'[b] = actor[b] /\ joins'[b] = joins[b] /\ phase'[b] = phase[b]
  /\ over'[b] = over[b] /\ at'[b] = at[b] /\ raced'[b] = raced[b]
  /\ asked'[b] = asked[b] /\ answered'[b] = answered[b]

LEMMA UntouchedGood ==
  ASSUME PlayerTypes, deeds' \in Nat, deeds' >= deeds, NEW b \in Actors, Good(b), Untouched(b)
  PROVE  Good(b)'
<1>1. Kind(b)'
  BY DEF Good, Kind, Untouched
<1>2. ASSUME ~raced[b] PROVE Calm(b)' /\ Owed(b)'
  <2>1. Calm(b) /\ Owed(b) /\ deeds \in Nat /\ actor[b].operations \subseteq Nat
        /\ joins[b] \in Seq(Joins) /\ over[b] \in Seq(Completions)
    BY <1>2 DEF Good, PlayerTypes, ActorStates
  <2>2. Owed(b)'
    BY <2>1 DEF Owed, JoinOwes, OverOwes, Untouched
  <2>3. joins[b] # <<>> => Head(joins[b]).operation \in Nat
    BY <2>1 DEF Joins, JoinRecords
  <2>4. over[b] # <<>> => Head(over[b]).operation \in Nat
    <3>1. over[b] # <<>> => Head(over[b]) \in Completions
      BY <2>1
    <3> QED BY <3>1 DEF Completions
  <2>5. \A o \in actor'[b].operations : o < deeds'
    BY <2>1 DEF Calm, Untouched
  <2>6. /\ actor'[b] = actor[b] /\ joins'[b] = joins[b] /\ phase'[b] = phase[b]
        /\ over'[b] = over[b]
    BY DEF Untouched
  <2>7. /\ joins[b] # <<>> /\ Head(joins[b]).operation < deeds
           => Head(joins[b]).operation < deeds'
        /\ over[b] # <<>> /\ Head(over[b]).operation < deeds
           => Head(over[b]).operation < deeds'
    BY <2>1, <2>3, <2>4
  <2>8. Calm(b)'
    BY <2>1, <2>5, <2>6, <2>7 DEF Calm
  <2> QED BY <2>2, <2>8
<1> QED BY <1>1, <1>2 DEF Good, Untouched

\* A step of the actor a.
LEMMA GoodStep ==
  ASSUME PInv, SInv, HistoryTypes', deeds' \in Nat, deeds' >= deeds, NEW a \in Actors, Good(a)',
         \A b \in Actors : b # a => Untouched(b)
  PROVE  SInv'
<1>1. ASSUME NEW b \in Actors PROVE Good(b)'
  BY <1>1, UntouchedGood DEF PInv, SInv
<1> QED BY <1>1 DEF SInv

\* The actor takes a turn; if it was not waiting, nothing of a join is left.
LEMMA TurnHistory ==
  ASSUME PInv, SInv, NEW a \in Actors, Turn(a)
  PROVE  /\ deeds' = deeds + 1 /\ deeds \in Nat /\ deeds' \in Nat /\ deeds' >= deeds
         /\ raced' \in [Actors -> BOOLEAN]
         /\ \A b \in Actors : b # a => raced'[b] = raced[b]
         /\ ~raced'[a] => ~raced[a] /\ joins[a] = <<>> /\ over[a] = <<>>
<1>1. /\ deeds' = deeds + 1 /\ deeds \in Nat /\ raced \in [Actors -> BOOLEAN]
      /\ raced' = [raced EXCEPT ![a] = raced[a] \/ UnderWay(a)]
  BY DEF PInv, PlayerTypes, SInv, HistoryTypes, Turn
<1>2. (raced[a] \/ UnderWay(a)) \in BOOLEAN
  OBVIOUS
<1>3. /\ raced' \in [Actors -> BOOLEAN]
      /\ \A b \in Actors : b # a => raced'[b] = raced[b]
      /\ raced'[a] = (raced[a] \/ UnderWay(a))
  BY <1>1, <1>2, Zenon
<1>4. ~raced'[a] => ~raced[a] /\ joins[a] = <<>> /\ over[a] = <<>>
  BY <1>3, Zenon DEF UnderWay
<1>5. deeds' = deeds + 1 /\ deeds \in Nat /\ deeds' \in Nat /\ deeds' >= deeds
  BY <1>1
<1> QED BY <1>3, <1>4, <1>5

LEMMA PreparedGood ==
  ASSUME PInv, SInv, NEW a \in Actors, Turn(a), NEW to \in Inside, NEW initial \in BOOLEAN,
         NEW new \in ActorStates, PrepareJoin(a, to, initial, new),
         UNCHANGED <<at, phase, over, answered>>, HistoryTypes',
         new.fresh = actor[a].fresh, new.operations = actor[a].operations,
         a \in Humans => ~new.bot,
         ~new.fresh => Valid(new.pos, to),
         \A b \in Actors : b # a => asked'[b] = asked[b],
         a \in Humans => asked'[a] = asked[a] + (IF initial THEN 1 ELSE 0)
  PROVE  SInv'
<1> DEFINE j == [pos |-> to, to |-> ZoneOf(to), bot |-> new.bot, initial |-> initial,
                 operation |-> deeds, from |-> IF new.fresh THEN None ELSE new.zone]
           v == [new EXCEPT !.initial = initial]
<1>1. PlayerTypes /\ Good(a) /\ joins[a] \in Seq(Joins)
  BY DEF PInv, PlayerTypes, SInv
<1>2. /\ deeds' = deeds + 1 /\ deeds \in Nat /\ deeds' \in Nat /\ deeds' >= deeds
      /\ \A b \in Actors : b # a => raced'[b] = raced[b]
      /\ ~raced'[a] => ~raced[a] /\ joins[a] = <<>> /\ over[a] = <<>>
  BY TurnHistory
<1>3. /\ v.pos = new.pos /\ v.initial = initial /\ v.fresh = actor[a].fresh
      /\ v.operations = actor[a].operations /\ v.bot = new.bot
  BY DEF ActorStates
<1>4. /\ j.pos = to /\ j.initial = initial /\ j.operation = deeds /\ j.bot = new.bot
  OBVIOUS
<1>5. actor' = [actor EXCEPT ![a] = v] /\ joins' = [joins EXCEPT ![a] = Append(joins[a], j)]
  BY DEF PrepareJoin
<1> HIDE DEF j, v
<1>6. /\ actor'[a] = v /\ joins'[a] = Append(joins[a], j)
      /\ \A b \in Actors : b # a => actor'[b] = actor[b] /\ joins'[b] = joins[b]
  BY <1>1, <1>5 DEF PlayerTypes
<1>7. \A b \in Actors : b # a => Untouched(b)
  BY <1>2, <1>6 DEF Untouched
<1>8. Kind(a)'
  <2>1. ASSUME a \in Humans, NEW i \in 1 .. Len(joins'[a]) PROVE ~joins'[a][i].bot
    <3>1. \A k \in 1 .. Len(joins[a]) : ~joins[a][k].bot
      BY <1>1, <2>1 DEF Good, Kind
    <3>2. CASE i \in 1 .. Len(joins[a])
      BY <1>1, <1>6, <3>1, <3>2
    <3>3. CASE i = Len(joins[a]) + 1
      BY <1>1, <1>4, <1>6, <2>1, <3>3
    <3> QED BY <1>1, <1>6, <2>1, <3>2, <3>3
  <2> QED BY <1>1, <1>3, <1>6, <2>1 DEF Good, Kind
<1>9. ASSUME ~raced'[a] PROVE Calm(a)' /\ Owed(a)'
  <2>1. /\ joins[a] = <<>> /\ over[a] = <<>> /\ over'[a] = <<>> /\ Calm(a) /\ Owed(a)
    BY <1>1, <1>2, <1>9 DEF Good
  <2>2. joins'[a] = <<j>> /\ Head(joins'[a]) = j /\ joins'[a] # <<>> /\ Len(joins'[a]) = 1
    BY <1>6, <2>1
  <2>3. \A o \in v.operations : o \in Nat /\ o < deeds
    BY <1>1, <1>3, <2>1 DEF Calm, PlayerTypes, ActorStates
  <2>4. Calm(a)'
    BY <1>2, <1>3, <1>4, <1>6, <2>1, <2>2, <2>3 DEF Calm
  <2>5. Owed(a)'
    BY <1>4, <2>1, <2>2 DEF Owed, JoinOwes, OverOwes, SInv, HistoryTypes
  <2> QED BY <2>4, <2>5
<1>10. Good(a)'
  BY <1>8, <1>9 DEF Good
<1> QED BY <1>2, <1>7, <1>10, GoodStep

\* A turn that asks for no join.
LEMMA TalkedGood ==
  ASSUME PInv, SInv, NEW a \in Actors, Turn(a), NEW v \in ActorStates,
         actor' = [actor EXCEPT ![a] = v],
         UNCHANGED <<at, phase, over, joins>>, HistoryTypes',
         v.fresh = actor[a].fresh, v.operations = actor[a].operations, v.bot = actor[a].bot,
         \A b \in Actors : b # a => asked'[b] = asked[b] /\ answered'[b] = answered[b],
         asked'[a] - answered'[a] = asked[a] - answered[a]
  PROVE  SInv'
<1>1. PlayerTypes /\ Good(a)
  BY DEF PInv, SInv
<1>2. /\ deeds' = deeds + 1 /\ deeds \in Nat /\ deeds' \in Nat /\ deeds' >= deeds
      /\ \A b \in Actors : b # a => raced'[b] = raced[b]
      /\ ~raced'[a] => ~raced[a] /\ joins[a] = <<>> /\ over[a] = <<>>
  BY TurnHistory
<1>3. actor'[a] = v /\ \A b \in Actors : b # a => actor'[b] = actor[b]
  BY <1>1 DEF PlayerTypes
<1>4. \A b \in Actors : b # a => Untouched(b)
  BY <1>2, <1>3 DEF Untouched
<1>5. Kind(a)'
  BY <1>1, <1>3 DEF Good, Kind
<1>6. ASSUME ~raced'[a] PROVE Calm(a)' /\ Owed(a)'
  <2>1. /\ joins'[a] = <<>> /\ over'[a] = <<>> /\ Calm(a) /\ Owed(a)
        /\ joins[a] = <<>> /\ over[a] = <<>>
    BY <1>1, <1>2, <1>6 DEF Good
  <2>2. \A o \in v.operations : o \in Nat /\ o < deeds
    BY <1>1, <2>1 DEF Calm, PlayerTypes, ActorStates
  <2>3. Calm(a)'
    BY <1>2, <1>3, <2>1, <2>2 DEF Calm
  <2>4. Owed(a)'
    BY <2>1 DEF Owed, JoinOwes, OverOwes
  <2> QED BY <2>3, <2>4
<1>7. Good(a)'
  BY <1>5, <1>6 DEF Good
<1> QED BY <1>2, <1>4, <1>7, GoodStep

LEMMA AuthorityGood ==
  ASSUME PInv, SInv, NEW a \in Actors, NEW to, Turn(a), Authority(a, to),
         UNCHANGED <<at, phase, over, asked, answered>>
  PROVE  SInv'
<1> DEFINE me == actor[a]
<1>1. /\ me \in ActorStates /\ actor \in [Actors -> ActorStates]
  BY DEF PInv, PlayerTypes
<1>2. HistoryTypes'
  BY TurnHistory DEF SInv, HistoryTypes
<1>3. Valid(me.pos, to) => to \in Inside
  BY DEF Valid
<1>4. asked'[a] \in Nat /\ a \in Humans => ~me.bot
  BY DEF SInv, HistoryTypes, Good, Kind
<1>h. asked[a] \in Nat /\ (a \in Humans => ~me.bot)
  BY DEF SInv, HistoryTypes, Good, Kind
<1>5. CASE UNCHANGED <<joins, updates>>
           /\ actor' = IF me.bot THEN [actor EXCEPT ![a].dir = Turned(@)] ELSE actor
  <2> DEFINE v == IF me.bot THEN [me EXCEPT !.dir = Turned(me.dir)] ELSE me
  <2>1. actor' = [actor EXCEPT ![a] = v]
    BY <1>1, <1>5
  <2>2. Turned(me.dir) \in Directions
    BY <1>1, TurnedType DEF ActorStates
  <2>3. /\ v \in ActorStates /\ v.fresh = me.fresh /\ v.operations = me.operations
        /\ v.bot = me.bot
    BY <1>1, <2>2 DEF ActorStates
  <2> HIDE DEF v
  <2> QED BY <1>2, <1>5, <2>1, <2>3, TalkedGood
<1>6. CASE Valid(me.pos, to) /\ PrepareJoin(a, to, FALSE, me) /\ UNCHANGED updates
  <2>1. a \in Humans => asked'[a] = asked[a] + (IF FALSE THEN 1 ELSE 0)
    BY <1>h
  <2>2. to \in Inside /\ (~me.fresh => Valid(me.pos, to))
    BY <1>3, <1>6
  <2>3. PrepareJoin(a, to, FALSE, me) /\ UNCHANGED <<at, phase, over, answered>>
        /\ \A b \in Actors : b # a => asked'[b] = asked[b]
    BY <1>6
  <2> HIDE DEF me
  <2> QED BY <1>1, <1>2, <1>h, <2>1, <2>2, <2>3, PreparedGood DEF me
<1>7. CASE Valid(me.pos, to) /\ actor' = [actor EXCEPT ![a].pos = to] /\ UNCHANGED joins
  <2> DEFINE v == [me EXCEPT !.pos = to]
  <2>1. actor' = [actor EXCEPT ![a] = v]
    BY <1>7
  <2>2. /\ v \in ActorStates /\ v.fresh = me.fresh /\ v.operations = me.operations
        /\ v.bot = me.bot
    BY <1>1, <1>3, <1>7 DEF ActorStates
  <2> HIDE DEF v
  <2> QED BY <1>2, <1>7, <2>1, <2>2, TalkedGood
<1> QED BY <1>5, <1>6, <1>7 DEF Authority

LEMMA PacketGood ==
  ASSUME PInv, SInv, NEW a \in Actors,
         \/ JoinWorld(a) \/ EnterWorld(a) \/ BotTick(a) \/ \E to \in Reach : Move(a, to)
  PROVE  SInv'
<1>1. PlayerTypes /\ actor[a] \in ActorStates /\ actor \in [Actors -> ActorStates]
  BY DEF PInv, PlayerTypes
<1>2. HistoryTypes /\ Good(a)
  BY DEF SInv
<1>3. CASE JoinWorld(a)
  <2>1. /\ Turn(a) /\ a \in Humans /\ UNCHANGED <<at, phase, over>>
        /\ asked' = [asked EXCEPT ![a] = @ + 1]
    BY <1>3 DEF JoinWorld
  <2>2. /\ asked' \in [Actors -> Nat] /\ asked'[a] = asked[a] + 1
        /\ \A b \in Actors : b # a => asked'[b] = asked[b]
    BY <1>2, <2>1 DEF HistoryTypes
  <2>3. CASE /\ at[a] = "entry" /\ actor[a].fresh
             /\ PrepareJoin(a, Spawn, TRUE,
                            [actor[a] EXCEPT !.pos = Spawn, !.zone = "zone-nw", !.bot = FALSE])
             /\ UNCHANGED answered
    <3> DEFINE new == [actor[a] EXCEPT !.pos = Spawn, !.zone = "zone-nw", !.bot = FALSE]
    <3>1. Spawn \in Inside /\ "zone-nw" \in Zones
      BY WorldAssumption DEF Zones
    <3>2. /\ new \in ActorStates /\ new.fresh = actor[a].fresh /\ new.fresh = TRUE
          /\ new.operations = actor[a].operations /\ new.bot = FALSE
      BY <1>1, <2>3, <3>1 DEF ActorStates
    <3>3. PrepareJoin(a, Spawn, TRUE, new)
      BY <2>3
    <3>4. HistoryTypes'
      BY <1>2, <2>1, <2>2, <2>3, TurnHistory DEF HistoryTypes
    <3> HIDE DEF new
    <3> QED BY <2>1, <2>2, <2>3, <3>1, <3>2, <3>3, <3>4, PreparedGood
  <2>4. CASE Answer(a) /\ UNCHANGED <<actor, joins>>
    <3>1. /\ answered' \in [Actors -> Nat] /\ answered'[a] = answered[a] + 1
          /\ \A b \in Actors : b # a => answered'[b] = answered[b]
      BY <1>2, <2>4 DEF HistoryTypes, Answer
    <3>2. HistoryTypes'
      BY <2>1, <2>2, <3>1, TurnHistory DEF HistoryTypes
    <3>3. actor' = [actor EXCEPT ![a] = actor[a]]
      BY <1>1, <2>4
    <3>4. asked'[a] - answered'[a] = asked[a] - answered[a]
      BY <1>2, <2>2, <3>1 DEF HistoryTypes
    <3> QED BY <1>1, <2>1, <2>2, <2>4, <3>1, <3>2, <3>3, <3>4, TalkedGood
  <2> QED BY <1>3, <2>3, <2>4 DEF JoinWorld
<1>4. CASE EnterWorld(a)
  <2>1. PICK f \in Fixtures :
          PrepareJoin(a, f[1], TRUE, [actor[a] EXCEPT !.bot = TRUE, !.dir = <<f[2], f[3]>>])
    BY <1>4 DEF EnterWorld
  <2> DEFINE new == [actor[a] EXCEPT !.bot = TRUE, !.dir = <<f[2], f[3]>>]
  <2>2. f[1] \in Inside /\ <<f[2], f[3]>> \in Directions
    BY WorldAssumption DEF Directions
  <2>3. at[a] = "entry" /\ actor[a].fresh
    BY <1>2, <1>4 DEF EnterWorld, Good, Kind
  <2>4. /\ new \in ActorStates /\ new.fresh = actor[a].fresh /\ new.fresh = TRUE
        /\ new.operations = actor[a].operations
    BY <1>1, <2>2, <2>3 DEF ActorStates
  <2>5. PrepareJoin(a, f[1], TRUE, new)
    BY <2>1
  <2>6. /\ a \notin Humans /\ Turn(a) /\ UNCHANGED <<at, phase, over, asked, answered>>
    BY <1>4, WorldAssumption DEF EnterWorld
  <2>7. HistoryTypes'
    BY <1>2, <2>6, TurnHistory DEF HistoryTypes
  <2> HIDE DEF new
  <2> QED BY <2>2, <2>4, <2>5, <2>6, <2>7, PreparedGood
<1>5. CASE BotTick(a)
  <2>1. Turn(a) /\ UNCHANGED <<at, phase, over, asked, answered>>
    BY <1>5 DEF BotTick
  <2> QED BY <1>5, <2>1, AuthorityGood DEF BotTick
<1>6. ASSUME NEW to \in Reach, Move(a, to)
      PROVE  SInv'
  <2>1. Turn(a) /\ UNCHANGED <<at, phase, over, asked, answered>>
    BY <1>6 DEF Move
  <2> QED BY <1>6, <2>1, AuthorityGood DEF Move
<1> QED BY <1>3, <1>4, <1>5, <1>6

-----------------------------------------------------------------------------
(* The way of a join *)

LEMMA OneOfTwo ==
  ASSUME NEW m \in Nat, NEW n \in Nat, m > 0, m + n <= 1 \/ n + m <= 1
  PROVE  m = 1 /\ n = 0
OBVIOUS

LEMMA EndedGood ==
  ASSUME PInv, SInv, NEW a \in Actors, NEW outcome, joins[a] # <<>>, EndJoin(a, outcome),
         UNCHANGED <<asked, answered, raced, deeds>>,
         actor'[a].fresh = actor[a].fresh, actor'[a].initial = actor[a].initial,
         actor'[a].operations = actor[a].operations,
         a \in Humans => ~actor'[a].bot,
         outcome = "accepted" => at'[a] # "entry",
         at'[a] = "entry" => at[a] = "entry",
         \A b \in Actors : b # a => actor'[b] = actor[b] /\ at'[b] = at[b]
  PROVE  SInv'
<1> DEFINE j == Head(joins[a])
           c == [outcome |-> outcome, operation |-> j.operation, initial |-> j.initial]
<1>1. /\ PlayerTypes /\ Good(a) /\ joins[a] \in Seq(Joins) /\ over[a] \in Seq(Completions)
      /\ HistoryTypes' /\ deeds' \in Nat /\ deeds' >= deeds
  BY DEF PInv, PlayerTypes, SInv, HistoryTypes
<1>2. /\ over'[a] = Append(over[a], c) /\ joins'[a] = Tail(joins[a]) /\ phase'[a] = "idle"
      /\ \A b \in Actors : b # a => /\ over'[b] = over[b] /\ joins'[b] = joins[b]
                                   /\ phase'[b] = phase[b]
  BY <1>1 DEF EndJoin, Completion, PlayerTypes
<1>3. \A b \in Actors : b # a => Untouched(b)
  BY <1>2 DEF Untouched
<1>4. /\ Len(joins[a]) \in Nat /\ Len(joins[a]) > 0 /\ Len(joins'[a]) = Len(joins[a]) - 1
      /\ \A i \in 1 .. Len(joins'[a]) : i + 1 \in 1 .. Len(joins[a])
                                       /\ joins'[a][i] = joins[a][i + 1]
  BY <1>1, <1>2
<1>5. c.outcome = outcome /\ c.operation = j.operation /\ c.initial = j.initial
  OBVIOUS
<1> HIDE DEF c
<1>6. /\ Len(over[a]) \in Nat /\ Len(over'[a]) = Len(over[a]) + 1
      /\ over'[a][Len(over[a]) + 1] = c
      /\ \A i \in 1 .. Len(over[a]) : over'[a][i] = over[a][i]
  <2>1. over[a] \in Seq(Completions \cup {c}) /\ c \in Completions \cup {c}
    BY <1>1
  <2> QED BY <1>2, <2>1
<1>7. Kind(a)'
  <2>1. ASSUME a \in Humans, NEW i \in 1 .. Len(joins'[a]) PROVE ~joins'[a][i].bot
    BY <1>1, <1>4, <2>1 DEF Good, Kind
  <2>2. ASSUME at'[a] = "entry"
        PROVE  /\ actor'[a].fresh
               /\ \A i \in 1 .. Len(over'[a]) : over'[a][i].outcome # "accepted"
    <3>1. /\ at[a] = "entry" /\ outcome # "accepted" /\ actor[a].fresh
          /\ \A i \in 1 .. Len(over[a]) : over[a][i].outcome # "accepted"
      BY <1>1, <2>2 DEF Good, Kind
    <3>2. \A i \in 1 .. Len(over'[a]) : i \in 1 .. Len(over[a]) \/ i = Len(over[a]) + 1
      BY <1>6
    <3> QED BY <1>5, <1>6, <3>1, <3>2
  <2> QED BY <2>1, <2>2 DEF Kind
<1>8. ASSUME ~raced'[a] PROVE Calm(a)' /\ Owed(a)'
  <2>1. /\ Calm(a) /\ Owed(a) /\ Len(joins[a]) = 1 /\ over[a] = <<>> /\ Len(over[a]) = 0
    <3>1. Calm(a) /\ Owed(a)
      BY <1>1, <1>8 DEF Good
    <3>2. Len(joins[a]) + Len(over[a]) <= 1
      BY <3>1 DEF Calm
    <3>3. Len(joins[a]) = 1 /\ Len(over[a]) = 0
      <4>1. Len(joins[a]) > 0 /\ Len(joins[a]) \in Nat /\ Len(over[a]) \in Nat
        BY <1>4, <1>6
      <4> QED BY <3>2, <4>1, OneOfTwo
    <3> QED BY <1>1, <3>1, <3>3
  <2>2. Len(joins'[a]) = 0 /\ joins'[a] = <<>>
    <3>1. Tail(joins[a]) \in Seq(Joins)
      BY <1>1
    <3> QED BY <1>2, <1>4, <2>1, <3>1
  <2>3. over'[a] = <<c>> /\ Len(over'[a]) = 1 /\ Head(over'[a]) = c /\ over'[a] # <<>>
    BY <1>2, <2>1
  <2>4. /\ j.initial = actor[a].initial /\ j.operation < deeds
        /\ j.operation \notin actor[a].operations
        /\ \A o \in actor[a].operations : o < deeds
    BY <2>1 DEF Calm
  <2>5. Calm(a)'
    BY <1>5, <2>2, <2>3, <2>4 DEF Calm
  <2>6. JoinOwes(a) = OverOwes(a)' /\ OverOwes(a) = 0 /\ JoinOwes(a)' = 0
    BY <1>5, <2>1, <2>2, <2>3, <2>4 DEF JoinOwes, OverOwes
  <2>7. Owed(a)'
    <3>1. JoinOwes(a) \in {0, 1}
      BY DEF JoinOwes
    <3> HIDE DEF j
    <3> QED BY <2>1, <2>6, <3>1 DEF Owed
  <2> QED BY <2>5, <2>7
<1>9. Good(a)'
  BY <1>7, <1>8 DEF Good
<1> QED BY <1>1, <1>3, <1>9, GoodStep

\* The join goes on: it is admitted, the source is left, or the target was reached.
LEMMA CarriedGood ==
  ASSUME PInv, SInv, NEW a \in Actors, NEW p \in Phases, phase' = [phase EXCEPT ![a] = p],
         UNCHANGED <<at, over, joins, asked, answered, raced, deeds>>,
         actor'[a].fresh = actor[a].fresh, actor'[a].initial = actor[a].initial,
         actor'[a].operations = actor[a].operations,
         a \in Humans => ~actor'[a].bot,
         p = "came" \/ (phase[a] # "came" /\ actor'[a].pos = actor[a].pos),
         \A b \in Actors : b # a => actor'[b] = actor[b]
  PROVE  SInv'
<1>1. /\ PlayerTypes /\ Good(a) /\ HistoryTypes' /\ deeds' \in Nat /\ deeds' >= deeds
  BY DEF PInv, PlayerTypes, SInv, HistoryTypes
<1>2. phase'[a] = p /\ \A b \in Actors : b # a => phase'[b] = phase[b]
  BY <1>1 DEF PlayerTypes
<1>3. \A b \in Actors : b # a => Untouched(b)
  BY <1>2 DEF Untouched
<1>4. Kind(a)'
  BY <1>1 DEF Good, Kind
<1>5. ASSUME ~raced[a] PROVE Calm(a)' /\ Owed(a)'
  <2>1. Calm(a) /\ Owed(a)
    BY <1>1, <1>5 DEF Good
  <2>2. Owed(a)'
    BY <2>1 DEF Owed, JoinOwes, OverOwes
  <2>3. joins[a] # <<>> /\ ~actor'[a].fresh /\ phase'[a] # "came"
        => Valid(actor'[a].pos, Head(joins[a]).pos)
    BY <1>2, <2>1 DEF Calm
  <2>4. Calm(a)'
    BY <2>1, <2>3 DEF Calm, Valid
  <2> QED BY <2>2, <2>4
<1>6. Good(a)'
  BY <1>4, <1>5 DEF Good
<1> QED BY <1>1, <1>3, <1>6, GoodStep

LEMMA OnActorJoinGood ==
  ASSUME PInv, SInv, NEW a \in Actors, OnActorJoin(a)
  PROVE  SInv'
<1>1. /\ joins[a] # <<>> /\ phase[a] = "idle"
      /\ UNCHANGED <<actor, at, asked, answered, raced, deeds>>
      /\ a \in Humans => ~actor[a].bot
  BY DEF OnActorJoin, SInv, Good, Kind
<1>2. CASE EndJoin(a, "rejected")
  BY <1>1, <1>2, EndedGood
<1>3. CASE phase' = [phase EXCEPT ![a] = "admitted"] /\ UNCHANGED <<joins, over>>
  BY <1>1, <1>3, CarriedGood DEF Phases
<1> QED BY <1>2, <1>3 DEF OnActorJoin

LEMMA FailJoinGood ==
  ASSUME PInv, SInv, NEW a \in Actors, FailJoin(a)
  PROVE  SInv'
<1>1. /\ joins[a] # <<>> /\ EndJoin(a, "failed")
      /\ UNCHANGED <<actor, at, asked, answered, raced, deeds>>
      /\ a \in Humans => ~actor[a].bot
  BY DEF FailJoin, SInv, Good, Kind
<1> QED BY <1>1, EndedGood

LEMMA OnLeaveActorGood ==
  ASSUME PInv, SInv, NEW a \in Actors, OnLeaveActor(a)
  PROVE  SInv'
<1>1. /\ phase[a] \in {"admitted", "came"} /\ joins[a] # <<>>
      /\ UNCHANGED <<actor, asked, answered, raced, deeds>>
      /\ a \in Humans => ~actor[a].bot
  BY DEF OnLeaveActor, SInv, Good, Kind, PInv, Sound, Joining
<1>2. CASE at' = [at EXCEPT ![a] = Target(a)] /\ EndJoin(a, "accepted")
  <2>1. Target(a) \in Zones
    BY <1>1, TargetType DEF PInv
  <2>2. at'[a] = Target(a) /\ \A b \in Actors : b # a => at'[b] = at[b]
    BY <1>2 DEF PInv, PlayerTypes
  <2>3. at'[a] # "entry"
    BY <2>1, <2>2, EntryIsNoZone
  <2> QED BY <1>1, <1>2, <2>2, <2>3, EndedGood
<1>3. CASE phase[a] = "admitted" /\ phase' = [phase EXCEPT ![a] = "left"]
           /\ UNCHANGED <<at, over, joins>>
  BY <1>1, <1>3, CarriedGood DEF Phases
<1> QED BY <1>2, <1>3 DEF OnLeaveActor

\* What arrives is what was asked for.
LEMMA Arrival ==
  ASSUME PInv, NEW a \in Actors, OnActorJoined(a)
  PROVE  LET enter == Head(joins[a]) IN
         /\ joins[a] # <<>> /\ phase[a] \in {"admitted", "left"} /\ enter \in Joins
         /\ actor'[a] = [actor[a] EXCEPT !.pos = enter.pos, !.zone = Target(a), !.bot = enter.bot]
         /\ \A b \in Actors : b # a => actor'[b] = actor[b]
<1>1. /\ PlayerTypes /\ phase[a] \in {"admitted", "left"} /\ joins[a] # <<>>
      /\ pending[Target(a)][a] = Head(joins[a])
  BY DEF OnActorJoined, PInv, Sound, Joining
<1>2. /\ actor' = [actor EXCEPT ![a].pos = Head(joins[a]).pos, ![a].zone = Target(a),
                               ![a].bot = Head(joins[a]).bot]
      /\ actor \in [Actors -> ActorStates] /\ actor[a] \in ActorStates
      /\ Head(joins[a]) \in Joins
  BY <1>1, TargetType DEF OnActorJoined, PlayerTypes
<1> QED BY <1>1, <1>2 DEF ActorStates

LEMMA OnActorJoinedGood ==
  ASSUME PInv, SInv, NEW a \in Actors, OnActorJoined(a)
  PROVE  SInv'
<1> DEFINE enter == Head(joins[a])
<1>1. /\ joins[a] # <<>> /\ phase[a] \in {"admitted", "left"}
      /\ actor'[a] = [actor[a] EXCEPT !.pos = enter.pos, !.zone = Target(a), !.bot = enter.bot]
      /\ \A b \in Actors : b # a => actor'[b] = actor[b]
  BY Arrival
<1>2. actor[a] \in ActorStates /\ joins[a] \in Seq(Joins)
  BY DEF PInv, PlayerTypes
<1>3. /\ actor'[a].fresh = actor[a].fresh /\ actor'[a].initial = actor[a].initial
      /\ actor'[a].operations = actor[a].operations /\ actor'[a].bot = enter.bot
  BY <1>1, <1>2 DEF ActorStates
<1>4. a \in Humans => ~actor'[a].bot
  <2>1. enter = joins[a][1] /\ 1 \in 1 .. Len(joins[a])
    BY <1>1, <1>2
  <2>2. a \in Humans => ~joins[a][1].bot
    BY <2>1 DEF SInv, Good, Kind
  <2> QED BY <1>3, <2>1, <2>2
<1>5. UNCHANGED <<asked, answered, raced, deeds>>
  BY DEF OnActorJoined
<1> HIDE DEF enter
<1>6. CASE EndJoin(a, "accepted") /\ at' = [at EXCEPT ![a] = Target(a)]
  <2>1. Target(a) \in Zones
    BY <1>1, TargetType DEF PInv
  <2>2. at'[a] = Target(a) /\ \A b \in Actors : b # a => at'[b] = at[b]
    BY <1>6 DEF PInv, PlayerTypes
  <2>3. at'[a] # "entry"
    BY <2>1, <2>2, EntryIsNoZone
  <2> QED BY <1>1, <1>3, <1>4, <1>5, <1>6, <2>2, <2>3, EndedGood
<1>7. CASE phase' = [phase EXCEPT ![a] = "came"] /\ UNCHANGED <<at, over, joins>>
  BY <1>1, <1>3, <1>4, <1>5, <1>7, CarriedGood DEF Phases
<1> QED BY <1>6, <1>7 DEF OnActorJoined

LEMMA OnJoinCompletedGood ==
  ASSUME PInv, SInv, NEW a \in Actors, OnJoinCompleted(a)
  PROVE  SInv'
<1> DEFINE c == Head(over[a])
           me == actor[a]
           new == c.operation \notin me.operations
<1>1. /\ PlayerTypes /\ HistoryTypes /\ Good(a) /\ over[a] \in Seq(Completions) /\ over[a] # <<>>
      /\ me \in ActorStates /\ c \in Completions /\ joins[a] \in Seq(Joins)
      /\ UNCHANGED <<at, joins, phase, deeds, asked, raced>> /\ deeds \in Nat
  BY DEF OnJoinCompleted, PInv, PlayerTypes, SInv
<1>2. PICK v \in ActorStates :
        /\ actor' = [actor EXCEPT ![a] = v]
        /\ v.pos = me.pos /\ v.bot = me.bot /\ v.initial = me.initial
        /\ v.operations = me.operations \cup {c.operation}
        /\ v.fresh # me.fresh => c.outcome = "accepted" /\ v.fresh = FALSE
  <2>1. CASE ~new
    <3>1. actor' = [actor EXCEPT ![a] = me] /\ me.operations = me.operations \cup {c.operation}
      BY <1>1, <2>1 DEF OnJoinCompleted, PlayerTypes
    <3> HIDE DEF me
    <3> QED BY <1>1, <3>1
  <2>2. CASE new
    <3> DEFINE done == [me EXCEPT !.operations = @ \cup {c.operation}]
               v == IF c.outcome = "accepted" THEN [done EXCEPT !.fresh = FALSE]
                    ELSE IF c.outcome = "rejected" /\ me.bot
                         THEN [done EXCEPT !.dir = Turned(@)]
                    ELSE done
    <3>1. actor' = [actor EXCEPT ![a] = v]
      BY <2>2 DEF OnJoinCompleted, Completed
    <3>2. me.operations \cup {c.operation} \in SUBSET Nat
      BY <1>1 DEF ActorStates, Completions
    <3>3. /\ done \in ActorStates /\ done.pos = me.pos /\ done.bot = me.bot
          /\ done.initial = me.initial /\ done.fresh = me.fresh
          /\ done.operations = me.operations \cup {c.operation}
      BY <1>1, <3>2 DEF ActorStates
    <3> HIDE DEF done
    <3>4. Turned(done.dir) \in Directions
      BY <3>3, TurnedType DEF ActorStates
    <3>5. /\ v \in ActorStates /\ v.pos = me.pos /\ v.bot = me.bot /\ v.initial = me.initial
          /\ v.operations = me.operations \cup {c.operation}
          /\ v.fresh # me.fresh => c.outcome = "accepted" /\ v.fresh = FALSE
      BY <3>3, <3>4 DEF ActorStates
    <3> HIDE DEF v
    <3> QED BY <3>1, <3>5
  <2> QED BY <2>1, <2>2
<1>3. actor'[a] = v /\ \A b \in Actors : b # a => actor'[b] = actor[b]
  BY <1>1, <1>2 DEF PlayerTypes
<1>4. /\ over'[a] = over[a] \/ over'[a] = Tail(over[a])
      /\ \A b \in Actors : b # a => over'[b] = over[b]
  BY <1>1 DEF OnJoinCompleted, PlayerTypes
<1>5. /\ answered' \in [Actors -> Nat] /\ \A b \in Actors : b # a => answered'[b] = answered[b]
      /\ answered'[a] = answered[a] + (IF new /\ me.initial /\ ~me.bot THEN 1 ELSE 0)
  <2>1. CASE new /\ me.initial /\ ~me.bot
    <3>1. answered' = [answered EXCEPT ![a] = answered[a] + 1]
      BY <2>1 DEF OnJoinCompleted, Completed, Answer
    <3> HIDE DEF new, me
    <3> QED BY <1>1, <2>1, <3>1 DEF HistoryTypes
  <2>2. CASE ~(new /\ me.initial /\ ~me.bot)
    <3>1. answered' = answered
      BY <2>2 DEF OnJoinCompleted, Completed
    <3> QED BY <1>1, <2>2, <3>1 DEF HistoryTypes
  <2> QED BY <2>1, <2>2
<1>6. \A b \in Actors : b # a => Untouched(b)
  BY <1>1, <1>3, <1>4, <1>5 DEF Untouched
<1>7. HistoryTypes'
  BY <1>1, <1>5 DEF HistoryTypes
<1>8. Kind(a)'
  <2>1. Kind(a)
    BY <1>1 DEF Good
  <2>2. ASSUME at[a] = "entry" PROVE actor'[a].fresh
    <3>1. c = over[a][1] /\ 1 \in 1 .. Len(over[a])
      BY <1>1
    <3>2. c.outcome # "accepted" /\ actor[a].fresh
      BY <2>1, <2>2, <3>1 DEF Kind
    <3> QED BY <1>2, <1>3, <3>2
  <2>3. ASSUME at[a] = "entry", NEW i \in 1 .. Len(over'[a])
        PROVE  over'[a][i].outcome # "accepted"
    <3>1. \A k \in 1 .. Len(over[a]) : over[a][k].outcome # "accepted"
      BY <2>1, <2>3 DEF Kind
    <3>2. CASE over'[a] = over[a]
      BY <2>3, <3>1, <3>2
    <3>3. CASE over'[a] = Tail(over[a])
      <4>1. i + 1 \in 1 .. Len(over[a]) /\ over'[a][i] = over[a][i + 1]
        BY <1>1, <2>3, <3>3
      <4> QED BY <3>1, <4>1
    <3> QED BY <1>4, <3>2, <3>3
  <2> QED BY <1>1, <1>2, <1>3, <2>1, <2>2, <2>3 DEF Kind
<1>9. ASSUME ~raced'[a] PROVE Calm(a)' /\ Owed(a)'
  <2>1. Calm(a) /\ Owed(a)
    BY <1>1, <1>9 DEF Good
  <2>2. Len(over[a]) = 1 /\ Len(joins[a]) = 0 /\ joins[a] = <<>> /\ joins'[a] = <<>>
    <3>1. Len(over[a]) \in Nat /\ Len(over[a]) > 0 /\ Len(joins[a]) \in Nat
      BY <1>1
    <3>2. Len(joins[a]) + Len(over[a]) <= 1
      BY <2>1 DEF Calm
    <3> HIDE DEF c, me, new
    <3>3. Len(over[a]) = 1 /\ Len(joins[a]) = 0
      BY <3>1, <3>2, OneOfTwo
    <3> QED BY <1>1, <3>3
  <2>3. over'[a] = over[a] \/ over'[a] = <<>>
    <3>1. Tail(over[a]) \in Seq(Completions) /\ Len(Tail(over[a])) = 0
      BY <1>1, <2>2
    <3>2. Tail(over[a]) = <<>>
      BY <3>1, EmptySeq
    <3> QED BY <1>4, <3>2
  <2>4. c.operation < deeds /\ (new => c.initial = me.initial)
    BY <1>1, <2>1 DEF Calm
  <2>5. \A o \in actor'[a].operations : o < deeds
    BY <1>2, <1>3, <2>1, <2>4 DEF Calm
  <2>6. over'[a] # <<>> => Head(over'[a]) = c /\ c.operation \in actor'[a].operations
    BY <1>2, <1>3, <2>3
  <2>7. Calm(a)'
    <3>1. Len(over'[a]) \in 0 .. 1 /\ Len(joins'[a]) = 0
      BY <2>2, <2>3
    <3>2. Len(joins'[a]) + Len(over'[a]) <= 1
      <4>1. \A m \in 0 .. 1, n \in {0} : n + m <= 1
        OBVIOUS
      <4> QED BY <3>1, <4>1
    <3>3. deeds' = deeds /\ joins'[a] = <<>>
      BY <1>1, <2>2
    <3> HIDE DEF c
    <3> QED BY <2>4, <2>5, <2>6, <3>2, <3>3 DEF Calm
  <2>8. JoinOwes(a) = 0 /\ JoinOwes(a)' = 0 /\ OverOwes(a)' = 0
    BY <2>2, <2>6 DEF JoinOwes, OverOwes
  <2>9. OverOwes(a) = IF new /\ me.initial THEN 1 ELSE 0
    BY <1>1, <2>4 DEF OverOwes
  <2>10. a \in Humans => ~me.bot
    BY <1>1 DEF Good, Kind
  <2>11. Owed(a)'
    <3>1. ASSUME a \in Humans PROVE asked'[a] - answered'[a] = 0
      <4>1. asked[a] - answered[a] = IF new /\ me.initial THEN 1 ELSE 0
        BY <2>1, <2>8, <2>9, <3>1 DEF Owed
      <4>2. answered'[a] = answered[a] + (IF new /\ me.initial THEN 1 ELSE 0)
        BY <1>5, <2>10, <3>1
      <4> HIDE DEF new, me
      <4> QED BY <1>1, <4>1, <4>2 DEF HistoryTypes
    <3> QED BY <2>8, <3>1 DEF Owed
  <2> QED BY <2>7, <2>11
<1>10. Good(a)'
  BY <1>8, <1>9 DEF Good
<1> QED BY <1>1, <1>6, <1>7, <1>10, GoodStep

LEMMA NextGood == PInv /\ SInv /\ [WorldNext]_<<opsVars, worldVars>> => SInv'
<1> SUFFICES ASSUME PInv, SInv, [WorldNext]_<<opsVars, worldVars>>
             PROVE  SInv'
  OBVIOUS
<1>1. ASSUME NEW a \in Actors,
             \/ JoinWorld(a) \/ EnterWorld(a) \/ BotTick(a)
             \/ \E to \in Reach : Move(a, to)
      PROVE  SInv'
  BY <1>1, PacketGood
<1>2. ASSUME NEW a \in Actors, OnActorJoin(a) PROVE SInv'
  BY <1>2, OnActorJoinGood
<1>3. ASSUME NEW a \in Actors, FailJoin(a) PROVE SInv'
  BY <1>3, FailJoinGood
<1>4. ASSUME NEW a \in Actors, OnLeaveActor(a) PROVE SInv'
  BY <1>4, OnLeaveActorGood
<1>5. ASSUME NEW a \in Actors, OnActorJoined(a) PROVE SInv'
  BY <1>5, OnActorJoinedGood
<1>6. ASSUME NEW a \in Actors, OnJoinCompleted(a) PROVE SInv'
  BY <1>6, OnJoinCompletedGood
<1>7. ASSUME UNCHANGED <<actor, joins, phase, over, at, raced, asked, answered, deeds>>
      PROVE  SInv'
  <2>1. ASSUME NEW a \in Actors PROVE Good(a)'
    <3>1. Untouched(a) /\ deeds \in Nat /\ deeds' = deeds
      BY <1>7 DEF Untouched, PInv, PlayerTypes
    <3> QED BY <3>1, UntouchedGood DEF PInv, SInv
  <2> QED BY <1>7, <2>1 DEF SInv, HistoryTypes
<1>8. CASE PlayersNext
  <2>1. ASSUME NEW z \in Zones, UpdatePosition(z) PROVE SInv'
    BY <1>7, <2>1 DEF UpdatePosition
  <2> QED BY <1>1, <1>2, <1>3, <1>4, <1>5, <1>6, <1>8, <2>1 DEF PlayersNext
<1>9. CASE NewsNext
  <2>1. UNCHANGED playerVars
    BY <1>9 DEF NewsNext, AnnounceWorld, AnnounceNode, AnnounceZone, DeliverAnnounce
  <2> QED BY <1>7, <2>1 DEF playerVars
<1>10. CASE UNCHANGED worldVars
  BY <1>7, <1>10 DEF worldVars, playerVars
<1> QED BY <1>8, <1>9, <1>10 DEF WorldNext

\* What StepsLegal says of one actor.
LegalStep(a) ==
  actor'[a].pos # actor[a].pos /\ ~actor'[a].fresh /\ ~raced'[a] =>
    Valid(actor[a].pos, actor'[a].pos)

LEMMA AuthorityLegal ==
  ASSUME PInv, NEW a \in Actors, NEW to, Authority(a, to)
  PROVE  /\ LegalStep(a)
         /\ \A b \in Actors : b # a => actor'[b] = actor[b]
<1>1. actor \in [Actors -> ActorStates] /\ actor[a] \in ActorStates
  BY DEF PInv, PlayerTypes
<1>2. CASE actor' = IF actor[a].bot THEN [actor EXCEPT ![a].dir = Turned(@)] ELSE actor
  BY <1>1, <1>2 DEF LegalStep, ActorStates
<1>3. CASE PrepareJoin(a, to, FALSE, actor[a])
  BY <1>1, <1>3 DEF PrepareJoin, LegalStep, ActorStates
<1>4. CASE Valid(actor[a].pos, to) /\ actor' = [actor EXCEPT ![a].pos = to]
  BY <1>1, <1>4 DEF LegalStep, ActorStates
<1> QED BY <1>2, <1>3, <1>4 DEF Authority

LEMMA NextLegal ==
  ASSUME PInv, SInv, [WorldNext]_<<opsVars, worldVars>>, NEW a \in Actors
  PROVE  LegalStep(a)
<1>1. actor \in [Actors -> ActorStates] /\ actor[a] \in ActorStates
  BY DEF PInv, PlayerTypes
<1>2. CASE actor'[a] = actor[a]
  BY <1>2 DEF LegalStep
<1>3. ASSUME NEW b \in Actors, JoinWorld(b) PROVE LegalStep(a)
  <2>1. CASE /\ b = a /\ actor[a].fresh
             /\ PrepareJoin(a, Spawn, TRUE,
                  [actor[a] EXCEPT !.pos = Spawn, !.zone = "zone-nw", !.bot = FALSE])
    BY <1>1, <2>1 DEF PrepareJoin, LegalStep, ActorStates
  <2>2. CASE b # a \/ actor' = actor
    BY <1>1, <1>2, <1>3, <2>2 DEF JoinWorld, PrepareJoin
  <2> QED BY <1>3, <2>1, <2>2 DEF JoinWorld
<1>4. ASSUME NEW b \in Actors, EnterWorld(b) PROVE LegalStep(a)
  <2>1. PICK f \in Fixtures :
          PrepareJoin(b, f[1], TRUE, [actor[b] EXCEPT !.bot = TRUE, !.dir = <<f[2], f[3]>>])
    BY <1>4 DEF EnterWorld
  <2>2. CASE b = a
    BY <1>1, <2>1, <2>2 DEF PrepareJoin, LegalStep, ActorStates
  <2>3. CASE b # a
    BY <1>1, <1>2, <2>1, <2>3 DEF PrepareJoin
  <2> QED BY <2>2, <2>3
<1>5. ASSUME NEW b \in Actors, BotTick(b) \/ \E to \in Reach : Move(b, to) PROVE LegalStep(a)
  <2>1. PICK to : Authority(b, to)
    BY <1>5 DEF BotTick, Move
  <2> QED BY <1>2, <2>1, AuthorityLegal
<1>6. ASSUME NEW b \in Actors, OnActorJoined(b) PROVE LegalStep(a)
  <2>1. /\ joins[b] # <<>> /\ phase[b] # "came" /\ raced' = raced
        /\ actor'[b] = [actor[b] EXCEPT !.pos = Head(joins[b]).pos, !.zone = Target(b),
                                        !.bot = Head(joins[b]).bot]
        /\ \A c \in Actors : c # b => actor'[c] = actor[c]
    <3>1. /\ joins[b] # <<>> /\ phase[b] \in {"admitted", "left"}
          /\ actor'[b] = [actor[b] EXCEPT !.pos = Head(joins[b]).pos, !.zone = Target(b),
                                          !.bot = Head(joins[b]).bot]
          /\ \A c \in Actors : c # b => actor'[c] = actor[c]
      BY <1>6, Arrival
    <3>2. raced' = raced
      BY <1>6 DEF OnActorJoined
    <3> QED BY <3>1, <3>2
  <2>2. CASE b = a
    <3>1. actor'[a].pos = Head(joins[a]).pos /\ actor'[a].fresh = actor[a].fresh
      BY <1>1, <2>1, <2>2 DEF ActorStates
    <3>2. ~raced[a] => Calm(a)
      BY DEF SInv, Good
    <3> QED BY <2>1, <2>2, <3>1, <3>2 DEF LegalStep, Calm
  <2>3. CASE b # a
    BY <1>2, <2>1, <2>3
  <2> QED BY <2>2, <2>3
<1>7. ASSUME NEW b \in Actors, OnJoinCompleted(b) PROVE LegalStep(a)
  <2>1. actor'[a].pos = actor[a].pos
    <3> DEFINE c == Head(over[b])
               done == [actor[b] EXCEPT !.operations = @ \cup {c.operation}]
               v == IF c.outcome = "accepted" THEN [done EXCEPT !.fresh = FALSE]
                    ELSE IF c.outcome = "rejected" /\ actor[b].bot
                         THEN [done EXCEPT !.dir = Turned(@)]
                    ELSE done
    <3>1. actor' = actor \/ actor' = [actor EXCEPT ![b] = v]
      BY <1>7 DEF OnJoinCompleted, Completed
    <3>2. actor[b] \in ActorStates
      BY <1>1
    <3>3. v.pos = actor[b].pos
      BY <3>2 DEF ActorStates
    <3> HIDE DEF v
    <3> QED BY <1>1, <3>1, <3>3
  <2> QED BY <2>1 DEF LegalStep
<1>8. CASE actor' = actor
  BY <1>2, <1>8
<1>9. CASE PlayersNext
  <2>1. ASSUME NEW b \in Actors, OnActorJoin(b) \/ FailJoin(b) \/ OnLeaveActor(b)
        PROVE  LegalStep(a)
    BY <1>8, <2>1 DEF OnActorJoin, FailJoin, OnLeaveActor
  <2>2. ASSUME NEW z \in Zones, UpdatePosition(z) PROVE LegalStep(a)
    BY <1>8, <2>2 DEF UpdatePosition
  <2> QED BY <1>3, <1>4, <1>5, <1>6, <1>7, <1>9, <2>1, <2>2 DEF PlayersNext
<1>10. CASE NewsNext
  <2>1. UNCHANGED playerVars
    BY <1>10 DEF NewsNext, AnnounceWorld, AnnounceNode, AnnounceZone, DeliverAnnounce
  <2> QED BY <1>8, <2>1 DEF playerVars
<1>11. CASE UNCHANGED worldVars
  BY <1>8, <1>11 DEF worldVars, playerVars
<1> QED BY <1>9, <1>10, <1>11 DEF WorldNext

\* Every step of a player that waits for its joins is one the rules allow, over a
\* border too, whatever the framework fails, repeats or delays.
THEOREM StepsAreLegal == WorldSpec => StepsLegal
<1>1. WorldInit => PInv /\ SInv
  BY InitPInv, InitSInv
<1>2. PInv /\ SInv /\ [WorldNext]_<<opsVars, worldVars>> => PInv' /\ SInv'
  BY NextKeeps, NextGood
<1>3. PInv /\ SInv /\ [WorldNext]_<<opsVars, worldVars>> =>
        [\A a \in Actors :
           actor'[a].pos # actor[a].pos /\ ~actor'[a].fresh /\ ~raced'[a] =>
             Valid(actor[a].pos, actor'[a].pos)]_worldVars
  BY NextLegal DEF LegalStep
<1> QED BY <1>1, <1>2, <1>3, PTL DEF WorldSpec, StepsLegal

-----------------------------------------------------------------------------
(* Replies and announcements *)

LEMMA AnswersImplied ==
  ASSUME PInv, SInv
  PROVE  JoinsAnswered
<1> SUFFICES ASSUME NEW a \in Humans, ~raced[a]
             PROVE  asked[a] - answered[a] =
                      Cardinality({i \in DOMAIN joins[a] : joins[a][i].initial})
                      + Cardinality({i \in DOMAIN over[a] :
                          over[a][i].initial /\ over[a][i].operation \notin actor[a].operations})
  BY DEF JoinsAnswered
<1> DEFINE J == {i \in DOMAIN joins[a] : joins[a][i].initial}
           O == {i \in DOMAIN over[a] :
                   over[a][i].initial /\ over[a][i].operation \notin actor[a].operations}
<1>1. /\ a \in Actors /\ joins[a] \in Seq(Joins) /\ over[a] \in Seq(Completions)
      /\ Calm(a) /\ Owed(a)
  BY DEF PInv, PlayerTypes, SInv, Good, Actors
<1>2. /\ Len(joins[a]) \in Nat /\ DOMAIN joins[a] = 1 .. Len(joins[a])
      /\ Len(over[a]) \in Nat /\ DOMAIN over[a] = 1 .. Len(over[a])
      /\ joins[a] # <<>> <=> Len(joins[a]) > 0
      /\ over[a] # <<>> <=> Len(over[a]) > 0
      /\ joins[a] # <<>> => Head(joins[a]) = joins[a][1]
      /\ over[a] # <<>> => Head(over[a]) = over[a][1]
  BY <1>1, EmptySeq
<1>3. Len(joins[a]) + Len(over[a]) <= 1
  BY <1>1 DEF Calm
<1>4. Len(joins[a]) \in 0 .. 1 /\ Len(over[a]) \in 0 .. 1
  <2>1. \A m, n \in Nat : m + n <= 1 => m \in 0 .. 1 /\ n \in 0 .. 1
    OBVIOUS
  <2> QED BY <1>2, <1>3, <2>1
<1>5. J = IF joins[a] # <<>> /\ Head(joins[a]).initial THEN {1} ELSE {}
  BY <1>2, <1>4
<1>6. O = IF /\ over[a] # <<>> /\ Head(over[a]).initial
             /\ Head(over[a]).operation \notin actor[a].operations
          THEN {1} ELSE {}
  BY <1>2, <1>4
<1>7. Cardinality(J) = JoinOwes(a) /\ Cardinality(O) = OverOwes(a)
  BY <1>5, <1>6, FS_EmptySet, FS_Singleton DEF JoinOwes, OverOwes
<1> QED BY <1>1, <1>7 DEF Owed

Due(a) == {On("node", NodeOf[at[a]]), On("zone", at[a])} \cup {On(z, a) : z \in Zones}

\* Who was in a zone when the announcement was made, and entered none since, heard of it,
\* or one node, zone or delivery is to tell him.
Hears(a) ==
  ~crossed[a] =>
    /\ phase[a] # "came"
    /\ Settled(a) /\ at[a] # "entry" =>
         \/ heard[a] = 1 /\ Due(a) \cap news = {}
         \/ heard[a] = 0 /\ \E e \in Due(a) : Due(a) \cap news = {e}

NewsInv ==
  /\ heard \in [Actors -> Nat] /\ crossed \in [Actors -> BOOLEAN]
  /\ process = [n \in Nodes |-> "ready"]
  /\ \A a \in Humans : Hears(a)

LEMMA SameNotice ==
  \A k, p, l, q : On(k, p) = On(l, q) <=> (k = l /\ p = q)
BY DEF On

LEMMA KindsDiffer == "node" \notin Zones /\ "zone" \notin Zones
BY DEF Zones

LEMMA InitNews == OpsInit /\ WorldInit => NewsInv
<1> SUFFICES ASSUME OpsInit, WorldInit PROVE NewsInv
  OBVIOUS
<1>1. \A a \in Humans : crossed[a]
  BY DEF WorldInit, Actors
<1> QED BY <1>1 DEF OpsInit, WorldInit, NewsInv, Hears

\* An actor that stays where it is.
LEMMA StaysHears ==
  ASSUME NEW a \in Humans, Hears(a), crossed'[a] = crossed[a], heard'[a] = heard[a],
         ~crossed[a] => /\ at'[a] = at[a] /\ phase'[a] # "came"
                        /\ Settled(a)' => Settled(a),
         Due(a) \cap news' = Due(a) \cap news
  PROVE  Hears(a)'
<1>1. at'[a] = at[a] => Due(a)' = Due(a)
  BY DEF Due
<1> QED BY <1>1 DEF Hears

LEMMA PlayersHear ==
  ASSUME PInv, NewsInv, PlayersNext
  PROVE  NewsInv'
<1>1. /\ news' = news /\ heard' = heard /\ process' = process
  BY ZenonT(60) DEF PlayersNext, JoinWorld, EnterWorld, BotTick, OnActorJoin, FailJoin, OnLeaveActor,
         OnActorJoined, OnJoinCompleted, Move, UpdatePosition, newsVars, opsVars, maintenanceVars
<1>2. ASSUME UNCHANGED <<crossed, at, phase>> PROVE NewsInv'
  <2>1. \A a \in Humans : Hears(a)'
    BY <1>1, <1>2, StaysHears DEF NewsInv, Hears, Settled
  <2> QED BY <1>1, <1>2, <2>1 DEF NewsInv
<1>3. ASSUME NEW a \in Actors, crossed' = crossed,
             \A b \in Actors : b # a => at'[b] = at[b] /\ phase'[b] = phase[b],
             ~crossed[a] => /\ at'[a] = at[a] /\ phase'[a] # "came"
                            /\ Settled(a)' => Settled(a)
      PROVE  NewsInv'
  <2>1. ASSUME NEW b \in Humans PROVE Hears(b)'
    <3>1. CASE b = a
      BY <1>1, <1>3, <3>1, StaysHears DEF NewsInv
    <3>2. CASE b # a
      <4>1. at'[b] = at[b] /\ phase'[b] = phase[b] /\ Hears(b)
        BY <1>3, <3>2 DEF Actors, NewsInv
      <4> QED BY <1>1, <1>3, <4>1, StaysHears DEF Hears, Settled
    <3> QED BY <3>1, <3>2
  <2> QED BY <1>1, <1>3, <2>1 DEF NewsInv
<1>4. PlayerTypes
  BY DEF PInv
<1>5. ASSUME NEW a \in Actors, NEW outcome, EndJoin(a, outcome)
      PROVE  phase'[a] = "idle" /\ \A b \in Actors : b # a => phase'[b] = phase[b]
  BY <1>4, <1>5 DEF EndJoin, PlayerTypes
<1>6. ASSUME NEW a \in Actors, OnActorJoin(a) PROVE NewsInv'
  <2>1. crossed' = crossed /\ at' = at /\ phase[a] = "idle"
    BY <1>6 DEF OnActorJoin, newsVars
  <2>2. /\ phase'[a] \in {"idle", "admitted"}
        /\ \A b \in Actors : b # a => phase'[b] = phase[b]
    BY <1>4, <1>5, <1>6 DEF OnActorJoin, PlayerTypes
  <2> QED BY <1>3, <2>1, <2>2 DEF Settled
<1>7. ASSUME NEW a \in Actors, FailJoin(a) PROVE NewsInv'
  <2>1. crossed' = crossed /\ at' = at /\ Settled(a)
    BY <1>7 DEF FailJoin, newsVars
  <2>2. phase'[a] = "idle" /\ \A b \in Actors : b # a => phase'[b] = phase[b]
    BY <1>5, <1>7 DEF FailJoin
  <2> QED BY <1>3, <2>1, <2>2
<1>8. ASSUME NEW a \in Actors, OnLeaveActor(a) PROVE NewsInv'
  <2>1. crossed' = crossed
    BY <1>8 DEF OnLeaveActor, newsVars
  <2>2. CASE at' = [at EXCEPT ![a] = Target(a)] /\ EndJoin(a, "accepted") /\ phase[a] = "came"
    <3>1. \A b \in Actors : b # a => at'[b] = at[b] /\ phase'[b] = phase[b]
      BY <1>4, <1>5, <2>2 DEF PlayerTypes
    <3>2. CASE a \in Humans
      <4>1. crossed[a]
        BY <2>2, <3>2 DEF NewsInv, Hears
      <4> QED BY <1>3, <2>1, <3>1, <4>1
    <3>3. CASE a \notin Humans
      <4>1. ASSUME NEW b \in Humans PROVE Hears(b)'
        <5>1. b \in Actors /\ b # a
          BY <3>3 DEF Actors
        <5> QED BY <1>1, <2>1, <3>1, <5>1, StaysHears DEF NewsInv, Hears, Settled
      <4> QED BY <1>1, <2>1, <4>1 DEF NewsInv
    <3> QED BY <3>2, <3>3
  <2>3. CASE phase' = [phase EXCEPT ![a] = "left"] /\ UNCHANGED <<at, over, joins>>
    <3>1. phase'[a] = "left" /\ \A b \in Actors : b # a => phase'[b] = phase[b]
      BY <1>4, <2>3 DEF PlayerTypes
    <3> QED BY <1>3, <2>1, <2>3, <3>1 DEF Settled
  <2> QED BY <1>8, <2>2, <2>3 DEF OnLeaveActor
<1>9. ASSUME NEW a \in Actors, OnActorJoined(a) PROVE NewsInv'
  <2>1. crossed' = [crossed EXCEPT ![a] = TRUE] /\ crossed \in [Actors -> BOOLEAN]
    BY <1>9 DEF OnActorJoined, NewsInv
  <2>2. \A b \in Actors : b # a => at'[b] = at[b] /\ phase'[b] = phase[b]
    BY <1>4, <1>5, <1>9 DEF OnActorJoined, PlayerTypes
  <2>3. ASSUME NEW b \in Humans PROVE Hears(b)'
    <3>1. CASE b = a
      BY <2>1, <3>1 DEF Hears
    <3>2. CASE b # a
      <4>1. /\ at'[b] = at[b] /\ phase'[b] = phase[b] /\ crossed'[b] = crossed[b] /\ Hears(b)
        BY <2>1, <2>2, <3>2 DEF Actors, NewsInv
      <4> QED BY <1>1, <4>1, StaysHears DEF Hears, Settled
    <3> QED BY <3>1, <3>2
  <2>4. crossed' \in [Actors -> BOOLEAN]
    BY <2>1
  <2> QED BY <1>1, <2>3, <2>4 DEF NewsInv
<1>10. ASSUME NEW a \in Actors,
              \/ JoinWorld(a) \/ EnterWorld(a) \/ BotTick(a) \/ OnJoinCompleted(a)
              \/ \E to \in Reach : Move(a, to)
       PROVE  NewsInv'
  BY <1>2, <1>10 DEF JoinWorld, EnterWorld, BotTick, OnJoinCompleted, Move, newsVars
<1>11. ASSUME NEW z \in Zones, UpdatePosition(z) PROVE NewsInv'
  BY <1>2, <1>11 DEF UpdatePosition, newsVars
<1> QED BY <1>6, <1>7, <1>8, <1>9, <1>10, <1>11 DEF PlayersNext

LEMMA AnnounceWorldHears ==
  ASSUME PInv, NewsInv, AnnounceWorld
  PROVE  NewsInv'
<1>1. /\ news' = {On("node", n) : n \in Nodes} /\ heard' = heard /\ process' = process
      /\ \A a \in Actors : heard[a] = 0
      /\ crossed' = [a \in Actors |-> ~Settled(a)] /\ UNCHANGED <<at, phase>>
  BY DEF AnnounceWorld, NewsInv, playerVars, opsVars, maintenanceVars
<1>2. ASSUME NEW a \in Humans PROVE Hears(a)'
  <2>1. a \in Actors /\ (crossed'[a] <=> ~Settled(a))
    BY <1>1 DEF Actors
  <2>2. Settled(a) => phase'[a] # "came"
    BY <1>1 DEF Settled
  <2>3. ASSUME at[a] # "entry" PROVE Due(a)' \cap news' = {On("node", NodeOf[at[a]])}
    <3>1. NodeOf[at[a]] \in Nodes
      BY <2>1, <2>3, WorldAssumption DEF PInv, PlayerTypes
    <3> QED BY <1>1, <3>1, SameNotice, KindsDiffer DEF Due
  <2>4. On("node", NodeOf[at[a]]) \in Due(a)'
    BY <1>1 DEF Due
  <2> QED BY <1>1, <2>1, <2>2, <2>3, <2>4 DEF Hears, Settled
<1>3. crossed' \in [Actors -> BOOLEAN]
  BY <1>1
<1> QED BY <1>1, <1>2, <1>3 DEF NewsInv

\* Word of the announcement goes from one place to others; each actor is concerned by
\* one of these at most, and if it was by the first it is by one of the others.
LEMMA PassedOn ==
  ASSUME NewsInv, NEW from, NEW to, from \in news, news' = (news \ {from}) \cup to,
         UNCHANGED <<at, phase, heard, crossed, process>>,
         \A a \in Humans : Settled(a) /\ at[a] # "entry" =>
           IF from \in Due(a) THEN \E e \in Due(a) : Due(a) \cap to = {e}
           ELSE Due(a) \cap to = {}
  PROVE  NewsInv'
<1>1. ASSUME NEW a \in Humans PROVE Hears(a)'
  <2>1. Hears(a) /\ Due(a)' = Due(a) /\ Settled(a)' = Settled(a)
    BY DEF NewsInv, Due, Settled
  <2>2. ASSUME ~crossed[a], Settled(a), at[a] # "entry"
        PROVE  \/ heard[a] = 1 /\ Due(a) \cap news' = {}
               \/ heard[a] = 0 /\ \E e \in Due(a) : Due(a) \cap news' = {e}
    <3>1. CASE heard[a] = 1 /\ Due(a) \cap news = {}
      <4>1. from \notin Due(a)
        BY <3>1
      <4> QED BY <2>2, <3>1, <4>1
    <3>2. ASSUME heard[a] = 0, NEW e \in Due(a), Due(a) \cap news = {e}
          PROVE  heard[a] = 0 /\ \E f \in Due(a) : Due(a) \cap news' = {f}
      <4>1. CASE from \in Due(a)
        <5>1. from = e
          BY <3>2, <4>1
        <5>2. PICK f \in Due(a) : Due(a) \cap to = {f}
          BY <2>2, <4>1
        <5>3. Due(a) \cap news' = {f}
          BY <3>2, <5>1, <5>2
        <5> QED BY <3>2, <5>3
      <4>2. CASE from \notin Due(a)
        <5>1. Due(a) \cap to = {}
          BY <2>2, <4>2
        <5>2. Due(a) \cap news' = {e}
          BY <3>2, <4>2, <5>1
        <5> QED BY <3>2, <5>2
      <4> QED BY <4>1, <4>2
    <3> QED BY <2>1, <2>2, <3>1, <3>2 DEF Hears
  <2> QED BY <2>1, <2>2 DEF Hears
<1> QED BY <1>1 DEF NewsInv

LEMMA AnnounceNodeHears ==
  ASSUME PInv, NewsInv, NEW n \in Nodes, AnnounceNode(n)
  PROVE  NewsInv'
<1> DEFINE to == {On("zone", z) : z \in {y \in Zones : NodeOf[y] = n}}
<1>1. /\ On("node", n) \in news /\ news' = (news \ {On("node", n)}) \cup to
      /\ UNCHANGED <<at, phase, heard, crossed, process>>
  BY DEF AnnounceNode, playerVars, opsVars, maintenanceVars
<1>2. ASSUME NEW a \in Humans, Settled(a), at[a] # "entry"
      PROVE  IF On("node", n) \in Due(a) THEN \E e \in Due(a) : Due(a) \cap to = {e}
             ELSE Due(a) \cap to = {}
  <2>1. at[a] \in Zones
    BY <1>2 DEF PInv, PlayerTypes, Actors
  <2>2. On("node", n) \in Due(a) <=> NodeOf[at[a]] = n
    BY SameNotice, KindsDiffer DEF Due
  <2>3. \A z : On("zone", z) \in Due(a) <=> z = at[a]
    BY SameNotice, KindsDiffer DEF Due
  <2>4. CASE NodeOf[at[a]] = n
    <3>1. Due(a) \cap to = {On("zone", at[a])}
      BY <2>1, <2>3, <2>4
    <3>2. On("zone", at[a]) \in Due(a)
      BY <2>3
    <3> HIDE DEF to
    <3> QED BY <2>2, <2>4, <3>1, <3>2
  <2>5. CASE NodeOf[at[a]] # n
    BY <2>2, <2>3, <2>5
  <2> QED BY <2>4, <2>5
<1> DEFINE from == On("node", n)
<1>3. /\ from \in news /\ news' = (news \ {from}) \cup to
      /\ UNCHANGED <<at, phase, heard, crossed, process>>
  BY <1>1
<1>4. \A a \in Humans : Settled(a) /\ at[a] # "entry" =>
         IF from \in Due(a) THEN \E e \in Due(a) : Due(a) \cap to = {e}
         ELSE Due(a) \cap to = {}
  BY <1>2
<1> HIDE DEF from, to
<1> QED BY <1>3, <1>4, PassedOn

LEMMA AnnounceZoneHears ==
  ASSUME PInv, SInv, NewsInv, NEW z \in Zones, AnnounceZone(z)
  PROVE  NewsInv'
<1> DEFINE to == {On(z, a) : a \in HumansOf(z)}
<1>1. /\ On("zone", z) \in news /\ news' = (news \ {On("zone", z)}) \cup to
      /\ UNCHANGED <<at, phase, heard, crossed, process>>
  BY DEF AnnounceZone, playerVars, opsVars, maintenanceVars
<1>2. ASSUME NEW a \in Humans, Settled(a), at[a] # "entry"
      PROVE  IF On("zone", z) \in Due(a) THEN \E e \in Due(a) : Due(a) \cap to = {e}
             ELSE Due(a) \cap to = {}
  <2>1. a \in Actors /\ (listed[z][a] # None <=> at[a] = z) /\ ~actor[a].bot
    BY <1>2 DEF PInv, Sound, ListedBy, Actors, SInv, Good, Kind
  <2>2. On("zone", z) \in Due(a) <=> z = at[a]
    BY SameNotice, KindsDiffer DEF Due
  <2>3. \A b : On(z, b) \in Due(a) <=> b = a
    BY SameNotice, KindsDiffer DEF Due
  <2>4. a \in HumansOf(z) <=> at[a] = z
    BY <2>1 DEF HumansOf
  <2>5. CASE at[a] = z
    <3>1. Due(a) \cap to = {On(z, a)} /\ On(z, a) \in Due(a)
      BY <2>3, <2>4, <2>5
    <3> HIDE DEF to
    <3> QED BY <2>2, <2>5, <3>1
  <2>6. CASE at[a] # z
    BY <2>2, <2>3, <2>4, <2>6
  <2> QED BY <2>5, <2>6
<1> DEFINE from == On("zone", z)
<1>3. /\ from \in news /\ news' = (news \ {from}) \cup to
      /\ UNCHANGED <<at, phase, heard, crossed, process>>
  BY <1>1
<1>4. \A a \in Humans : Settled(a) /\ at[a] # "entry" =>
         IF from \in Due(a) THEN \E e \in Due(a) : Due(a) \cap to = {e}
         ELSE Due(a) \cap to = {}
  BY <1>2
<1> HIDE DEF from, to
<1> QED BY <1>3, <1>4, PassedOn

LEMMA DeliverHears ==
  ASSUME PInv, SInv, NewsInv, NEW z \in Zones, NEW a \in Actors, DeliverAnnounce(z, a)
  PROVE  NewsInv'
<1>1. /\ On(z, a) \in news /\ news' = news \ {On(z, a)} /\ Settled(a)
      /\ UNCHANGED <<at, phase, crossed, process>> /\ heard \in [Actors -> Nat]
      /\ heard' = IF actor[a].bot THEN heard ELSE [heard EXCEPT ![a] = @ + 1]
  BY DEF DeliverAnnounce, playerVars, opsVars, maintenanceVars, NewsInv
<1>2. /\ heard' \in [Actors -> Nat] /\ \A b \in Actors : b # a => heard'[b] = heard[b]
      /\ ~actor[a].bot => heard'[a] = heard[a] + 1
  BY <1>1
<1>3. ASSUME NEW b \in Humans PROVE Hears(b)'
  <2>1. Hears(b) /\ b \in Actors /\ ~actor[b].bot
    BY DEF NewsInv, Actors, SInv, Good, Kind
  <2>2. On(z, a) \in Due(b) <=> b = a
    BY SameNotice, KindsDiffer DEF Due
  <2>3. CASE b # a
    <3>1. Due(b) \cap news' = Due(b) \cap news
      BY <1>1, <2>2, <2>3
    <3> QED BY <1>1, <1>2, <2>1, <2>3, <3>1, StaysHears DEF Hears, Settled
  <2>4. CASE b = a
    <3>1. Due(b)' = Due(b) /\ heard'[b] = heard[b] + 1 /\ heard[b] \in Nat
      BY <1>1, <1>2, <2>1, <2>4 DEF Due
    <3>2. ASSUME ~crossed[b], at[b] # "entry" PROVE heard'[b] = 1 /\ Due(b) \cap news' = {}
      <4>1. On(z, a) \in Due(b) \cap news
        BY <1>1, <2>2, <2>4
      <4>2. heard[b] = 0 /\ \E e \in Due(b) : Due(b) \cap news = {e}
        BY <1>1, <2>1, <2>4, <3>2, <4>1 DEF Hears
      <4> QED BY <1>1, <3>1, <4>1, <4>2
    <3> QED BY <1>1, <2>1, <3>1, <3>2 DEF Hears
  <2> QED BY <2>3, <2>4
<1> QED BY <1>1, <1>2, <1>3 DEF NewsInv

LEMMA NextHears == PInv /\ SInv /\ NewsInv /\ [WorldNext]_<<opsVars, worldVars>> => NewsInv'
<1> SUFFICES ASSUME PInv, SInv, NewsInv, [WorldNext]_<<opsVars, worldVars>>
             PROVE  NewsInv'
  OBVIOUS
<1>1. CASE PlayersNext
  BY <1>1, PlayersHear
<1>2. CASE NewsNext
  BY <1>2, AnnounceWorldHears, AnnounceNodeHears, AnnounceZoneHears, DeliverHears DEF NewsNext
<1>3. ASSUME UNCHANGED <<worldVars, process>> PROVE NewsInv'
  BY <1>3 DEF NewsInv, Hears, Due, Settled, worldVars, playerVars, newsVars
<1>4. CASE MaintenanceStep /\ UNCHANGED worldVars
  <2>1. process' = process
    BY <1>4 DEF MaintenanceStep, Write, NodeApplies, NodeUnavailable, Publish, Finish, FanOut
  <2> QED BY <1>3, <1>4, <2>1
<1>5. CASE UNCHANGED <<opsVars, worldVars>>
  BY <1>3, <1>5 DEF opsVars, maintenanceVars
<1> QED BY <1>1, <1>2, <1>4, <1>5 DEF WorldNext

LEMMA HeardImplies == NewsInv => HeardOnce
<1> SUFFICES ASSUME NewsInv, NEW a \in Humans, ~crossed[a], Settled(a), at[a] # "entry"
             PROVE  heard[a] + Cardinality(Due(a) \cap news) = 1
  BY DEF HeardOnce, Due
<1>1. CASE heard[a] = 1 /\ Due(a) \cap news = {}
  BY <1>1, FS_EmptySet
<1>2. CASE heard[a] = 0 /\ \E e \in Due(a) : Due(a) \cap news = {e}
  BY <1>2, FS_Singleton
<1> QED BY <1>1, <1>2 DEF NewsInv, Hears

\* Each JoinWorld of a client that waits gets one reply, also when completions are
\* reported twice, and who stays in his zone hears an announcement once.
THEOREM EveryoneIsToldOnce == WorldSpec => []ToldOnce
<1>1. OpsInit /\ WorldInit => PInv /\ SInv /\ NewsInv
  BY InitPInv, InitSInv, InitNews
<1>2. PInv /\ SInv /\ NewsInv /\ [WorldNext]_<<opsVars, worldVars>> => PInv' /\ SInv' /\ NewsInv'
  BY NextKeeps, NextGood, NextHears
<1>3. PInv /\ SInv /\ NewsInv => ToldOnce
  BY AnswersImplied, HeardImplies DEF ToldOnce
<1> QED BY <1>1, <1>2, <1>3, PTL DEF WorldSpec

-----------------------------------------------------------------------------
(* Border events *)

Copies == [tick : Nat, at : Nat, kept : BOOLEAN]
Events == [from : Places, to : Places, tick : Nat]

BorderTypes ==
  /\ tick \in [Places -> 0 .. MaxTicks]
  /\ DOMAIN kept = Places /\ DOMAIN deaf = Places
  /\ \A z \in Places : kept[z] \in [Beside[z] -> Copies] /\ deaf[z] \in [Beside[z] -> Nat]
  /\ onWay \subseteq {e \in Events : e.from \in Beside[e.to]}

\* A copy is younger than Expiry, and it was there as long as events are turned down for it.
Bounded(z, f) ==
  /\ kept[z][f].at <= tick[z]
  /\ kept[z][f].kept => tick[z] - kept[z][f].at < Expiry
  /\ deaf[z][f] # 0 => kept[z][f].kept /\ deaf[z][f] <= tick[z] - kept[z][f].at + 1

BInv == BorderTypes /\ \A z \in Places : \A f \in Beside[z] : Bounded(z, f)

LEMMA InitBorder == BorderInit => BInv
<1> SUFFICES ASSUME BorderInit PROVE BInv
  OBVIOUS
<1>1. Nothing \in Copies /\ Nothing.kept = FALSE /\ Nothing.at = 0
  BY DEF Nothing, Copies
<1>2. BorderTypes
  BY <1>1, BorderAssumption DEF BorderInit, BorderTypes
<1>3. \A z \in Places : \A f \in Beside[z] : Bounded(z, f)
  BY <1>1, BorderAssumption DEF BorderInit, Bounded
<1> QED BY <1>2, <1>3 DEF BInv

LEMMA TickKeeps ==
  ASSUME BInv, NEW z \in Places, Tick(z)
  PROVE  BInv'
<1> DEFINE t == tick[z] + 1
           left == [f \in Beside[z] |-> IF Expired(z, f, t) THEN Nothing ELSE kept[z][f]]
           d == [f \in Beside[z] |-> IF deaf[z][f] = 0 \/ Expired(z, f, t) THEN 0
                                     ELSE deaf[z][f] + 1]
<1>1. /\ BorderTypes /\ tick[z] \in Nat /\ MaxTicks \in Nat /\ tick[z] < MaxTicks
      /\ kept[z] \in [Beside[z] -> Copies] /\ deaf[z] \in [Beside[z] -> Nat]
  BY BorderAssumption DEF BInv, BorderTypes, Tick
<1>2. /\ tick' = [tick EXCEPT ![z] = t] /\ kept' = [kept EXCEPT ![z] = left]
      /\ deaf' = [deaf EXCEPT ![z] = d]
      /\ onWay' = onWay \cup {Event(z, to, t) : to \in Beside[z]}
  BY <1>1 DEF Tick, BorderTypes
<1>3. Nothing \in Copies /\ Nothing.kept = FALSE /\ Nothing.at = 0
  BY DEF Nothing, Copies
<1>4. left \in [Beside[z] -> Copies] /\ d \in [Beside[z] -> Nat]
  BY <1>1, <1>3
<1>5. \A f \in Beside[z] : /\ left[f] = IF Expired(z, f, t) THEN Nothing ELSE kept[z][f]
                           /\ d[f] = IF deaf[z][f] = 0 \/ Expired(z, f, t) THEN 0
                                     ELSE deaf[z][f] + 1
  OBVIOUS
<1>6. t \in 0 .. MaxTicks /\ t \in Nat
  BY <1>1
<1>7. \A to \in Beside[z] : Event(z, to, t) \in {e \in Events : e.from \in Beside[e.to]}
  BY <1>6, BorderAssumption DEF Event, Events
<1> HIDE DEF left, d
<1>8. /\ tick'[z] = t /\ kept'[z] = left /\ deaf'[z] = d
      /\ \A y \in Places : y # z => /\ tick'[y] = tick[y] /\ kept'[y] = kept[y]
                                    /\ deaf'[y] = deaf[y]
  BY <1>1, <1>2 DEF BorderTypes
<1>9. BorderTypes'
  <2>1. tick' \in [Places -> 0 .. MaxTicks] /\ DOMAIN kept' = Places /\ DOMAIN deaf' = Places
    BY <1>1, <1>2, <1>6 DEF BorderTypes
  <2>2. ASSUME NEW y \in Places
        PROVE  kept'[y] \in [Beside[y] -> Copies] /\ deaf'[y] \in [Beside[y] -> Nat]
    BY <1>1, <1>4, <1>8 DEF BorderTypes
  <2>3. onWay' \subseteq {e \in Events : e.from \in Beside[e.to]}
    BY <1>1, <1>2, <1>7 DEF BorderTypes
  <2> QED BY <2>1, <2>2, <2>3 DEF BorderTypes
<1>10. ASSUME NEW y \in Places, NEW f \in Beside[y] PROVE Bounded(y, f)'
  <2>1. Bounded(y, f)
    BY DEF BInv
  <2>2. CASE y # z
    BY <1>8, <2>1, <2>2 DEF Bounded
  <2>3. CASE y = z
    <3>1. /\ kept[z][f] \in Copies /\ kept[z][f].at \in Nat /\ deaf[z][f] \in Nat
          /\ Bounded(z, f)
      BY <1>1, <2>1, <2>3 DEF Copies
    <3>2. CASE Expired(z, f, t)
      <4>1. kept'[z][f] = Nothing /\ deaf'[z][f] = 0
        BY <1>5, <1>8, <2>3, <3>2
      <4> QED BY <1>3, <1>6, <1>8, <2>3, <4>1 DEF Bounded
    <3>3. CASE ~Expired(z, f, t)
      <4>1. /\ kept'[z][f] = kept[z][f] /\ tick'[z] = tick[z] + 1
            /\ deaf'[z][f] = IF deaf[z][f] = 0 THEN 0 ELSE deaf[z][f] + 1
        BY <1>5, <1>8, <2>3, <3>3
      <4>2. kept[z][f].kept => tick[z] + 1 - kept[z][f].at < Expiry
        BY <1>1, <3>1, <3>3, BorderAssumption DEF Expired
      <4>3. /\ kept[z][f].at <= tick[z]
            /\ deaf[z][f] # 0 => kept[z][f].kept /\ deaf[z][f] <= tick[z] - kept[z][f].at + 1
        BY <3>1 DEF Bounded
      <4>4. kept[z][f].at <= tick[z] + 1
        BY <1>1, <3>1, <4>3
      <4>5. ASSUME deaf'[z][f] # 0
            PROVE  kept[z][f].kept /\ deaf'[z][f] <= tick[z] + 1 - kept[z][f].at + 1
        BY <1>1, <3>1, <4>1, <4>3, <4>5
      <4>6. kept'[z][f] = kept[z][f] /\ tick'[z] = tick[z] + 1
        BY <4>1
      <4>7. Bounded(z, f)'
        <5>1. kept'[z][f].at <= tick'[z]
          BY <4>4, <4>6
        <5>2. kept'[z][f].kept => tick'[z] - kept'[z][f].at < Expiry
          BY <1>1, <3>1, <4>2, <4>6
        <5>3. deaf'[z][f] # 0 => /\ kept'[z][f].kept
                                 /\ deaf'[z][f] <= tick'[z] - kept'[z][f].at + 1
          BY <1>1, <3>1, <4>5, <4>6
        <5> QED BY <5>1, <5>2, <5>3 DEF Bounded
      <4> QED BY <2>3, <4>7
    <3> QED BY <3>2, <3>3
  <2> QED BY <2>2, <2>3
<1> QED BY <1>9, <1>10 DEF BInv

LEMMA BorderKeeps ==
  ASSUME BInv, NEW e \in onWay, Border(e)
  PROVE  BInv'
<1> DEFINE z == e.to
           g == e.from
           k == kept[z][g]
           later == ~k.kept \/ e.tick > k.tick
           new == [tick |-> e.tick, at |-> tick[z], kept |-> TRUE]
<1>1. /\ BorderTypes /\ z \in Places /\ g \in Beside[z] /\ e.tick \in Nat
      /\ tick[z] \in Nat /\ tick' = tick /\ onWay' \subseteq onWay /\ Bounded(z, g)
  BY BorderAssumption DEF BInv, BorderTypes, Border, Events
<1>2. /\ kept[z] \in [Beside[z] -> Copies] /\ deaf[z] \in [Beside[z] -> Nat]
      /\ k \in Copies /\ deaf[z][g] \in Nat
  BY <1>1 DEF BorderTypes
<1>3. /\ kept' = IF later THEN [kept EXCEPT ![z][g] = new] ELSE kept
      /\ deaf' = [deaf EXCEPT ![z][g] = IF later THEN 0 ELSE IF deaf[z][g] = 0 THEN 1
                                        ELSE deaf[z][g]]
  BY <1>1, <1>2 DEF Border, BorderTypes
<1>4. new \in Copies /\ new.at = tick[z] /\ new.kept = TRUE
  BY <1>1 DEF Copies
<1> HIDE DEF new
<1>5. \A y \in Places : \A f \in Beside[y] :
        /\ kept'[y][f] = IF y = z /\ f = g /\ later THEN new ELSE kept[y][f]
        /\ deaf'[y][f] = IF y = z /\ f = g
                         THEN (IF later THEN 0 ELSE IF deaf[z][g] = 0 THEN 1 ELSE deaf[z][g])
                         ELSE deaf[y][f]
  BY <1>1, <1>2, <1>3 DEF BorderTypes
<1>6. BorderTypes'
  <2>1. DOMAIN kept' = Places /\ DOMAIN deaf' = Places
    BY <1>1, <1>3 DEF BorderTypes
  <2>2. ASSUME NEW y \in Places
        PROVE  kept'[y] \in [Beside[y] -> Copies] /\ deaf'[y] \in [Beside[y] -> Nat]
    <3>1. kept[y] \in [Beside[y] -> Copies] /\ deaf[y] \in [Beside[y] -> Nat]
      BY <1>1 DEF BorderTypes
    <3>2. CASE y # z
      <4>1. kept'[y] = kept[y] /\ deaf'[y] = deaf[y]
        BY <1>1, <1>3, <3>2 DEF BorderTypes
      <4> QED BY <3>1, <4>1
    <3>3. CASE y = z
      <4>1. kept'[z] = (IF later THEN [kept[z] EXCEPT ![g] = new] ELSE kept[z])
        BY <1>1, <1>3 DEF BorderTypes
      <4>2. deaf'[z] = [deaf[z] EXCEPT ![g] = IF later THEN 0 ELSE IF deaf[z][g] = 0 THEN 1
                                              ELSE deaf[z][g]]
        BY <1>1, <1>3 DEF BorderTypes
      <4> HIDE DEF later, k
      <4>3. kept'[z] \in [Beside[z] -> Copies]
        BY <1>2, <1>4, <4>1
      <4>4. deaf'[z] \in [Beside[z] -> Nat]
        <5>1. (IF later THEN 0 ELSE IF deaf[z][g] = 0 THEN 1 ELSE deaf[z][g]) \in Nat
          BY <1>2
        <5> QED BY <1>2, <4>2, <5>1
      <4> QED BY <3>3, <4>3, <4>4
    <3> QED BY <3>2, <3>3
  <2> QED BY <1>1, <2>1, <2>2 DEF BorderTypes
<1>7. ASSUME NEW y \in Places, NEW f \in Beside[y] PROVE Bounded(y, f)'
  <2>1. Bounded(y, f)
    BY DEF BInv
  <2>2. CASE ~(y = z /\ f = g)
    <3>1. kept'[y][f] = kept[y][f] /\ deaf'[y][f] = deaf[y][f]
      BY <1>5, <2>2
    <3> QED BY <1>1, <2>1, <3>1 DEF Bounded
  <2>3. CASE y = z /\ f = g
    <3>1. CASE later
      <4>1. kept'[z][g] = new /\ deaf'[z][g] = 0
        BY <1>1, <1>5, <3>1
      <4>2. tick[z] - tick[z] < Expiry
        BY <1>1, BorderAssumption
      <4> QED BY <1>1, <1>4, <2>3, <4>1, <4>2 DEF Bounded
    <3>2. CASE ~later
      <4>1. /\ kept'[z][g] = k /\ k.kept
            /\ deaf'[z][g] = IF deaf[z][g] = 0 THEN 1 ELSE deaf[z][g]
        BY <1>1, <1>5, <3>2
      <4>2. k.at \in Nat
        BY <1>2 DEF Copies
      <4>3. /\ k.at <= tick[z] /\ tick[z] - k.at < Expiry
            /\ deaf[z][g] # 0 => deaf[z][g] <= tick[z] - k.at + 1
        BY <1>1, <4>1 DEF Bounded
      <4>4. deaf'[z][g] <= tick[z] - k.at + 1
        <5>1. CASE deaf[z][g] = 0
          <6>1. 1 <= tick[z] - k.at + 1
            BY <1>1, <4>2, <4>3
          <6> QED BY <4>1, <5>1, <6>1
        <5>2. CASE deaf[z][g] # 0
          BY <4>1, <4>3, <5>2
        <5> QED BY <5>1, <5>2
      <4> QED BY <1>1, <2>3, <4>1, <4>3, <4>4 DEF Bounded
    <3> QED BY <3>1, <3>2
  <2> QED BY <2>2, <2>3
<1> QED BY <1>6, <1>7 DEF BInv

LEMMA RecreateKeeps ==
  ASSUME BInv, NEW z \in Places, Recreate(z)
  PROVE  BInv'
<1>1. /\ tick' = [tick EXCEPT ![z] = 0]
      /\ kept' = [kept EXCEPT ![z] = [f \in Beside[z] |-> Nothing]]
      /\ deaf' = [deaf EXCEPT ![z] = [f \in Beside[z] |-> 0]]
      /\ onWay' = onWay /\ BorderTypes /\ MaxTicks \in Nat
  BY BorderAssumption DEF Recreate, BInv
<1>2. Nothing \in Copies /\ Nothing.kept = FALSE /\ Nothing.at = 0
  BY DEF Nothing, Copies
<1>3. /\ tick'[z] = 0 /\ kept'[z] = [f \in Beside[z] |-> Nothing]
      /\ deaf'[z] = [f \in Beside[z] |-> 0]
      /\ \A y \in Places : y # z => /\ tick'[y] = tick[y] /\ kept'[y] = kept[y]
                                    /\ deaf'[y] = deaf[y]
  BY <1>1 DEF BorderTypes
<1>4. BorderTypes'
  BY <1>1, <1>2, <1>3 DEF BorderTypes
<1>5. ASSUME NEW y \in Places, NEW f \in Beside[y] PROVE Bounded(y, f)'
  <2>1. CASE y # z
    BY <1>3, <2>1 DEF BInv, Bounded
  <2>2. CASE y = z
    BY <1>2, <1>3, <2>2 DEF Bounded
  <2> QED BY <2>1, <2>2
<1> QED BY <1>4, <1>5 DEF BInv

LEMMA NextBorder == BInv /\ [BorderNext]_borderVars => BInv'
<1> SUFFICES ASSUME BInv, [BorderNext]_borderVars PROVE BInv'
  OBVIOUS
<1>1. ASSUME NEW z \in Places, Tick(z) PROVE BInv'
  BY <1>1, TickKeeps
<1>2. ASSUME NEW z \in Places, Recreate(z) PROVE BInv'
  BY <1>2, RecreateKeeps
<1>3. ASSUME NEW e \in onWay, Border(e) PROVE BInv'
  BY <1>3, BorderKeeps
<1>4. ASSUME NEW e \in onWay, Lose(e) PROVE BInv'
  BY <1>4 DEF Lose, BInv, BorderTypes, Bounded
<1>5. CASE UNCHANGED borderVars
  BY <1>5 DEF borderVars, BInv, BorderTypes, Bounded
<1> QED BY <1>1, <1>2, <1>3, <1>4, <1>5 DEF BorderNext

LEMMA BorderImplies == BInv => HeardAgain
<1> SUFFICES ASSUME BInv PROVE HeardAgain
  OBVIOUS
<1>1. BorderTypeOK
  BY DEF BInv, BorderTypes, Bounded, BorderTypeOK
<1>2. ASSUME NEW z \in Places, NEW f \in Beside[z] PROVE deaf[z][f] <= Expiry
  <2>1. /\ tick[z] \in Nat /\ kept[z][f] \in Copies /\ deaf[z][f] \in Nat /\ Bounded(z, f)
        /\ Expiry \in Nat
    BY BorderAssumption DEF BInv, BorderTypes
  <2>2. kept[z][f].at \in Nat
    BY <2>1 DEF Copies
  <2>3. CASE deaf[z][f] = 0
    BY <2>1, <2>3
  <2>4. CASE deaf[z][f] # 0
    <3>1. deaf[z][f] <= tick[z] - kept[z][f].at + 1 /\ tick[z] - kept[z][f].at < Expiry
      BY <2>1, <2>4 DEF Bounded
    <3> QED BY <2>1, <2>2, <3>1
  <2> QED BY <2>3, <2>4
<1> QED BY <1>1, <1>2 DEF HeardAgain

\* A zone that counts from zero again is turned down for Expiry ticks of a neighbour at
\* the most, for any zones, whatever is lost, delayed or reordered.
THEOREM ZoneIsHeardAgain == BorderSpec => []HeardAgain
<1> QED BY InitBorder, NextBorder, BorderImplies, PTL DEF BorderSpec

-----------------------------------------------------------------------------
(* The way of the desired state *)

Steps == {"none", "asking", "applied", "published"}

Settings == [step : Steps, node : Nodes \cup {None}, on : BOOLEAN]

MaintenanceType ==
  /\ store \in [Nodes -> BOOLEAN] /\ flag \in [Nodes -> BOOLEAN]
  /\ process \in [Nodes -> {"down", "starting", "ready"}]
  /\ fan \in [Nodes -> Seq(BOOLEAN)]
  /\ unsure \in [Nodes -> BOOLEAN]
  /\ setting \in [Consoles -> Settings]
  /\ \A c \in Consoles : setting[c].step = "none" <=> setting[c].node = None
  /\ \A n \in Nodes : process[n] # "ready" => fan[n] = <<>>

\* A request for the node is at the given step.
Pending(n, step) == \E c \in Consoles : setting[c].node = n /\ setting[c].step = step

\* The event that will reach the node last, or else its flag, is the desired state.
Carried(n) ==
  IF fan[n] = <<>> THEN flag[n] = store[n] ELSE fan[n][Len(fan[n])] = store[n]

\* The one request for the node carries the desired state; when it no longer has to
\* be applied, a node that starts has that state, and one that is ready has it or
\* will get it last, unless the event is still to be published.
Desired(n) ==
  /\ \A c, d \in Consoles : setting[c].node = n /\ setting[d].node = n => c = d
  /\ \A c \in Consoles : setting[c].node = n => setting[c].on = store[n]
  /\ process[n] = "starting" /\ ~Pending(n, "asking") => flag[n] = store[n]
  /\ process[n] = "ready" /\ ~Pending(n, "asking") /\ ~Pending(n, "applied") => Carried(n)

MaintenanceInv == MaintenanceType /\ \A n \in Nodes : ~unsure[n] => Desired(n)

LEMMA InitMaintenance == OpsInit => MaintenanceInv
<1> SUFFICES ASSUME OpsInit PROVE MaintenanceInv
  OBVIOUS
<1> USE OpsAssumption DEF OpsInit, NoSetting
<1>1. MaintenanceType
  BY DEF MaintenanceType, Settings, Steps
<1>2. ASSUME NEW n \in Nodes PROVE Desired(n)
  <2>1. Carried(n)
    BY DEF Carried
  <2> QED BY <2>1 DEF Desired
<1> QED BY <1>1, <1>2 DEF MaintenanceInv

\* A step that leaves the node and the requests for it alone.
LEMMA Elsewhere ==
  ASSUME NEW m \in Nodes, Desired(m),
         store'[m] = store[m], process'[m] = process[m], flag'[m] = flag[m],
         fan'[m] = fan[m],
         \A d \in Consoles : setting'[d].node = m \/ setting[d].node = m => setting'[d] = setting[d]
  PROVE  Desired(m)'
<1>1. Carried(m)' <=> Carried(m)
  BY DEF Carried
<1>2. /\ Pending(m, "asking")' <=> Pending(m, "asking")
      /\ Pending(m, "applied")' <=> Pending(m, "applied")
  BY DEF Pending
<1> QED BY <1>1, <1>2 DEF Desired

LEMMA WriteKeeps ==
  ASSUME MaintenanceInv, NEW c \in Consoles, NEW n \in Nodes, NEW on \in BOOLEAN,
         Write(c, n, on)
  PROVE  MaintenanceInv'
<1> USE OpsAssumption DEF MaintenanceInv, MaintenanceType, Write, Waits
<1>1. setting' \in [Consoles -> Settings]
  BY DEF Settings, Steps
<1>2. /\ \A d \in Consoles : d # c => setting'[d] = setting[d]
      /\ setting'[c].step = "asking" /\ setting'[c].node = n /\ setting'[c].on = on
      /\ setting[c].node = None
  BY DEF Settings
<1>3. MaintenanceType'
  BY <1>1, <1>2
<1>4. ASSUME NEW m \in Nodes, ~unsure'[m] PROVE Desired(m)'
  <2>1. CASE m = n
    <3>1. \A d \in Consoles : d # c => setting[d].node # n
      BY <1>2, <1>4, <2>1 DEF Overlaps
    <3>2. Pending(n, "asking")'
      BY <1>2 DEF Pending
    <3> QED BY <1>2, <1>3, <2>1, <3>1, <3>2 DEF Desired
  <2>2. CASE m # n
    BY <1>2, <1>4, <2>2, Elsewhere
  <2> QED BY <2>1, <2>2
<1> QED BY <1>3, <1>4

\* The console's request is for a node, and is the only one unless the node is unsure.
LEMMA TheRequest ==
  ASSUME MaintenanceInv, NEW c \in Consoles, ~Waits(c, "none")
  PROVE  /\ setting[c].node \in Nodes
         /\ ~unsure[setting[c].node] =>
              /\ setting[c].on = store[setting[c].node]
              /\ \A d \in Consoles : setting[d].node = setting[c].node => d = c
<1>1. setting[c].node \in Nodes
  <2>1. setting[c] \in Settings /\ setting[c].node # None
    BY DEF MaintenanceInv, MaintenanceType, Waits
  <2> QED BY <2>1 DEF Settings
<1>2. PICK n \in Nodes : n = setting[c].node
  BY <1>1
<1>3. ~unsure[n] => /\ setting[c].on = store[n]
                   /\ \A d \in Consoles : setting[d].node = n => d = c
  BY <1>2 DEF MaintenanceInv, Desired
<1> QED BY <1>2, <1>3

\* A console's request goes a step further.
LEMMA Further ==
  ASSUME MaintenanceInv, NEW c \in Consoles, ~Waits(c, "none"),
         NEW step \in Steps \ {"none"}, setting' = [setting EXCEPT ![c].step = step]
  PROVE  /\ setting' \in [Consoles -> Settings]
         /\ setting'[c].step = step /\ setting'[c].node = setting[c].node
         /\ setting'[c].on = setting[c].on
         /\ \A d \in Consoles : d # c => setting'[d] = setting[d]
         /\ \A d \in Consoles : setting'[d].step = "none" <=> setting'[d].node = None
<1>1. /\ setting \in [Consoles -> Settings] /\ setting[c].node # None
      /\ \A d \in Consoles : setting[d].step = "none" <=> setting[d].node = None
  BY DEF MaintenanceInv, MaintenanceType, Waits
<1>2. /\ setting' \in [Consoles -> Settings]
      /\ setting'[c].step = step /\ setting'[c].node = setting[c].node
      /\ setting'[c].on = setting[c].on
      /\ \A d \in Consoles : d # c => setting'[d] = setting[d]
  BY <1>1 DEF Settings
<1> QED BY <1>1, <1>2

LEMMA NodeAppliesKeeps ==
  ASSUME MaintenanceInv, NEW c \in Consoles, NodeApplies(c)
  PROVE  MaintenanceInv'
<1>0. PICK n \in Nodes : n = setting[c].node
  BY TheRequest DEF NodeApplies, Waits
<1>1. /\ ~Waits(c, "none") /\ setting' = [setting EXCEPT ![c].step = "applied"]
      /\ process[n] = "ready" /\ flag' = [flag EXCEPT ![n] = setting[c].on]
      /\ UNCHANGED <<store, process, fan, unsure>>
  BY <1>0 DEF NodeApplies, Waits
<1>2. /\ n \in Nodes
      /\ ~unsure[n] => /\ setting[c].on = store[n]
                       /\ \A d \in Consoles : setting[d].node = n => d = c
  BY <1>0, <1>1, TheRequest
<1>3. /\ setting' \in [Consoles -> Settings]
      /\ setting'[c].step = "applied" /\ setting'[c].node = n
      /\ setting'[c].on = setting[c].on
      /\ \A d \in Consoles : d # c => setting'[d] = setting[d]
      /\ \A d \in Consoles : setting'[d].step = "none" <=> setting'[d].node = None
  BY <1>0, <1>1, Further DEF Steps
<1>4. setting[c].on \in BOOLEAN
  BY DEF MaintenanceInv, MaintenanceType, Settings
<1>5. MaintenanceType'
  BY <1>1, <1>2, <1>3, <1>4 DEF MaintenanceInv, MaintenanceType
<1>6. ASSUME NEW m \in Nodes, ~unsure'[m] PROVE Desired(m)'
  <2>0. Desired(m)
    BY <1>1, <1>6 DEF MaintenanceInv
  <2>1. CASE m = n
    <3>1. Pending(n, "applied")'
      BY <1>3 DEF Pending
    <3> QED BY <1>1, <1>2, <1>3, <1>6, <2>0, <2>1, <3>1 DEF Desired
  <2>2. CASE m # n
    <3>1. flag'[m] = flag[m]
      BY <1>1, <2>2 DEF MaintenanceInv, MaintenanceType
    <3>2. setting[c].node = n
      BY <1>0
    <3> QED BY <1>1, <1>3, <2>0, <2>2, <3>1, <3>2, Elsewhere
  <2> QED BY <2>1, <2>2
<1> QED BY <1>5, <1>6 DEF MaintenanceInv

LEMMA PublishKeeps ==
  ASSUME MaintenanceInv, NEW c \in Consoles, Publish(c)
  PROVE  MaintenanceInv'
<1>0. PICK n \in Nodes : n = setting[c].node
  BY TheRequest DEF Publish, Waits
<1>1. /\ ~Waits(c, "none") /\ setting' = [setting EXCEPT ![c].step = "published"]
      /\ fan' = IF process[n] = "ready" THEN [fan EXCEPT ![n] = Append(@, setting[c].on)]
                ELSE fan
      /\ UNCHANGED <<store, process, flag, unsure>>
  BY <1>0 DEF Publish, Waits
<1>2. /\ n \in Nodes
      /\ ~unsure[n] => /\ setting[c].on = store[n]
                       /\ \A d \in Consoles : setting[d].node = n => d = c
  BY <1>0, <1>1, TheRequest
<1>3. /\ setting' \in [Consoles -> Settings]
      /\ setting'[c].step = "published" /\ setting'[c].node = n
      /\ setting'[c].on = setting[c].on
      /\ \A d \in Consoles : d # c => setting'[d] = setting[d]
      /\ \A d \in Consoles : setting'[d].step = "none" <=> setting'[d].node = None
  BY <1>0, <1>1, Further DEF Steps
<1>4. setting[c].on \in BOOLEAN /\ fan[n] \in Seq(BOOLEAN)
  BY <1>2 DEF MaintenanceInv, MaintenanceType, Settings
<1>5. setting[c].node = n
  BY <1>0
<1>6. /\ fan' \in [Nodes -> Seq(BOOLEAN)]
      /\ \A m \in Nodes : m # n \/ process[m] # "ready" => fan'[m] = fan[m]
      /\ process[n] = "ready" =>
           fan'[n] # <<>> /\ fan'[n][Len(fan'[n])] = setting[c].on
  <2>1. CASE process[n] = "ready"
    <3>1. fan' = [fan EXCEPT ![n] = Append(fan[n], setting[c].on)]
      BY <1>1, <2>1
    <3> QED BY <1>2, <1>4, <2>1, <3>1, AppendProperties DEF MaintenanceInv, MaintenanceType
  <2>2. CASE process[n] # "ready"
    BY <1>1, <2>2 DEF MaintenanceInv, MaintenanceType
  <2> QED BY <2>1, <2>2
<1>7. MaintenanceType'
  BY <1>1, <1>2, <1>3, <1>6 DEF MaintenanceInv, MaintenanceType
<1>8. ASSUME NEW m \in Nodes, ~unsure'[m] PROVE Desired(m)'
  <2>0. Desired(m)
    BY <1>1, <1>8 DEF MaintenanceInv
  <2>1. CASE m = n
    <3>1. ~Pending(n, "asking") /\ ~Pending(n, "asking")'
      BY <1>1, <1>2, <1>3, <1>5, <1>8, <2>1 DEF Pending, Publish, Waits
    <3>2. process'[n] = "ready" => Carried(n)'
      BY <1>1, <1>2, <1>6, <1>8, <2>1 DEF Carried
    <3> QED BY <1>1, <1>2, <1>3, <1>8, <2>0, <2>1, <3>1, <3>2 DEF Desired
  <2>2. CASE m # n
    BY <1>1, <1>3, <1>5, <1>6, <2>0, <2>2, Elsewhere
  <2> QED BY <2>1, <2>2
<1> QED BY <1>7, <1>8 DEF MaintenanceInv

\* A console's request is over.
LEMMA Over ==
  ASSUME MaintenanceInv, NEW c \in Consoles, setting' = [setting EXCEPT ![c] = NoSetting]
  PROVE  /\ setting' \in [Consoles -> Settings]
         /\ setting'[c].step = "none" /\ setting'[c].node = None
         /\ \A d \in Consoles : d # c => setting'[d] = setting[d]
         /\ \A d \in Consoles : setting'[d].step = "none" <=> setting'[d].node = None
BY DEF MaintenanceInv, MaintenanceType, Settings, Steps, NoSetting

LEMMA NodeUnavailableKeeps ==
  ASSUME MaintenanceInv, NEW c \in Consoles, NodeUnavailable(c)
  PROVE  MaintenanceInv'
<1>0. PICK n \in Nodes : n = setting[c].node
  BY TheRequest DEF NodeUnavailable, Waits
<1>1. /\ ~Waits(c, "none") /\ setting' = [setting EXCEPT ![c] = NoSetting]
      /\ unsure' = [unsure EXCEPT ![n] = @ \/ process[n] # "down"]
      /\ UNCHANGED <<store, process, flag, fan>>
  BY <1>0 DEF NodeUnavailable, Waits
<1>2. /\ setting' \in [Consoles -> Settings]
      /\ setting'[c].step = "none" /\ setting'[c].node = None
      /\ \A d \in Consoles : d # c => setting'[d] = setting[d]
      /\ \A d \in Consoles : setting'[d].step = "none" <=> setting'[d].node = None
  BY <1>1, Over
<1>3. MaintenanceType'
  BY <1>1, <1>2 DEF MaintenanceInv, MaintenanceType
<1>4. ASSUME NEW m \in Nodes, ~unsure'[m] PROVE Desired(m)'
  <2>1. ~unsure[m] /\ (m = n => process[m] = "down")
    BY <1>1, <1>4 DEF MaintenanceInv, MaintenanceType
  <2>2. Desired(m)
    BY <2>1 DEF MaintenanceInv
  <2>3. CASE m = n
    <3>1. process'[m] = "down"
      BY <1>1, <2>1, <2>3
    <3> QED BY <1>1, <1>2, <2>2, <2>3, <3>1, OpsAssumption DEF Desired
  <2>4. CASE m # n
    BY <1>0, <1>1, <1>2, <2>2, <2>4, OpsAssumption, Elsewhere
  <2> QED BY <2>3, <2>4
<1> QED BY <1>3, <1>4 DEF MaintenanceInv

LEMMA FinishKeeps ==
  ASSUME MaintenanceInv, NEW c \in Consoles, Finish(c)
  PROVE  MaintenanceInv'
<1>0. PICK n \in Nodes : n = setting[c].node
  BY TheRequest DEF Finish, Waits
<1>1. /\ setting[c].step = "published" /\ setting' = [setting EXCEPT ![c] = NoSetting]
      /\ UNCHANGED <<store, process, flag, fan, unsure>>
  BY DEF Finish, Waits
<1>2. /\ setting' \in [Consoles -> Settings]
      /\ setting'[c].step = "none" /\ setting'[c].node = None
      /\ \A d \in Consoles : d # c => setting'[d] = setting[d]
      /\ \A d \in Consoles : setting'[d].step = "none" <=> setting'[d].node = None
  BY <1>1, Over
<1>3. MaintenanceType'
  BY <1>1, <1>2 DEF MaintenanceInv, MaintenanceType
<1>4. ASSUME NEW m \in Nodes, ~unsure'[m] PROVE Desired(m)'
  <2>1. Desired(m)
    BY <1>1, <1>4 DEF MaintenanceInv
  <2>2. /\ Pending(m, "asking")' <=> Pending(m, "asking")
        /\ Pending(m, "applied")' <=> Pending(m, "applied")
    BY <1>1, <1>2, OpsAssumption DEF Pending
  <2>3. Carried(m)' <=> Carried(m)
    BY <1>1 DEF Carried
  <2> QED BY <1>1, <1>2, <2>1, <2>2, <2>3, OpsAssumption DEF Desired
<1> QED BY <1>3, <1>4 DEF MaintenanceInv

LEMMA HeadIsFirst ==
  ASSUME NEW S, NEW s \in Seq(S), s # <<>>
  PROVE  Head(s) = s[1] /\ (Tail(s) = <<>> => Len(s) = 1)
<1>1. Head(s) = s[1]
  OBVIOUS
<1>2. Len(Tail(s)) = Len(s) - 1 /\ Len(s) \in Nat
  BY HeadTailProperties
<1>3. Tail(s) = <<>> => Len(Tail(s)) = 0
  BY EmptySeq
<1> QED BY <1>1, <1>2, <1>3

LEMMA FanOutKeeps ==
  ASSUME MaintenanceInv, NEW n \in Nodes, FanOut(n)
  PROVE  MaintenanceInv'
<1>1. /\ process[n] = "ready" /\ fan[n] # <<>>
      /\ flag' = [flag EXCEPT ![n] = Head(fan[n])]
      /\ fan' = [fan EXCEPT ![n] = Tail(fan[n])]
      /\ UNCHANGED <<store, process, setting, unsure>>
  BY DEF FanOut
<1>2. /\ fan[n] \in Seq(BOOLEAN) /\ Head(fan[n]) \in BOOLEAN /\ Tail(fan[n]) \in Seq(BOOLEAN)
      /\ Len(Tail(fan[n])) = Len(fan[n]) - 1
      /\ \A i \in 1..Len(Tail(fan[n])) : Tail(fan[n])[i] = fan[n][i + 1]
  BY <1>1, HeadTailProperties DEF MaintenanceInv, MaintenanceType
<1>3. fan'[n] = Tail(fan[n]) /\ flag'[n] = Head(fan[n])
  BY <1>1 DEF MaintenanceInv, MaintenanceType
<1>4. MaintenanceType'
  BY <1>1, <1>2 DEF MaintenanceInv, MaintenanceType
<1>5. ASSUME NEW m \in Nodes, ~unsure'[m] PROVE Desired(m)'
  <2>1. Desired(m)
    BY <1>1, <1>5 DEF MaintenanceInv
  <2>2. CASE m = n
    <3>1. Carried(n) => Carried(n)'
      <4>1. CASE Tail(fan[n]) = <<>>
        <5>1. Len(fan[n]) = 1 /\ Head(fan[n]) = fan[n][1]
          BY <1>1, <1>2, <4>1, HeadIsFirst
        <5>2. Carried(n) => fan[n][1] = store[n]
          BY <1>1, <5>1 DEF Carried
        <5>3. fan'[n] = <<>> /\ store'[n] = store[n]
          BY <1>1, <1>3, <4>1
        <5>5. flag'[n] = fan[n][1]
          BY <1>3, <5>1, Zenon
        <5>4. Carried(n) => flag'[n] = store'[n]
          BY <5>2, <5>3, <5>5, Zenon
        <5> QED BY <5>3, <5>4 DEF Carried
      <4>2. CASE Tail(fan[n]) # <<>>
        <5>1. Tail(fan[n])[Len(Tail(fan[n]))] = fan[n][Len(fan[n])]
          BY <1>2, <4>2
        <5> QED BY <1>1, <1>3, <4>2, <5>1 DEF Carried
      <4> QED BY <4>1, <4>2
    <3>2. /\ Pending(m, "asking")' <=> Pending(m, "asking")
          /\ Pending(m, "applied")' <=> Pending(m, "applied")
      BY <1>1 DEF Pending
    <3> QED BY <1>1, <2>1, <2>2, <3>1, <3>2 DEF Desired
  <2>3. CASE m # n
    <3>1. fan'[m] = fan[m] /\ flag'[m] = flag[m]
      BY <1>1, <2>3 DEF MaintenanceInv, MaintenanceType
    <3> QED BY <1>1, <2>1, <3>1, Elsewhere
  <2> QED BY <2>2, <2>3
<1> QED BY <1>4, <1>5 DEF MaintenanceInv

LEMMA StopKeeps ==
  ASSUME MaintenanceInv, NEW n \in Nodes, Stop(n)
  PROVE  MaintenanceInv'
<1> USE DEF MaintenanceInv, MaintenanceType
<1>1. /\ process' = [process EXCEPT ![n] = "down"] /\ fan' = [fan EXCEPT ![n] = <<>>]
      /\ UNCHANGED <<store, flag, setting, unsure>>
  BY DEF Stop
<1>2. MaintenanceType'
  BY <1>1
<1>3. ASSUME NEW m \in Nodes, ~unsure'[m] PROVE Desired(m)'
  <2>1. Desired(m)
    BY <1>1, <1>3
  <2>2. CASE m = n
    BY <1>1, <2>1, <2>2 DEF Desired
  <2>3. CASE m # n
    BY <1>1, <2>1, <2>3, Elsewhere
  <2> QED BY <2>2, <2>3
<1> QED BY <1>2, <1>3

LEMMA StartKeeps ==
  ASSUME MaintenanceInv, NEW n \in Nodes, Start(n)
  PROVE  MaintenanceInv'
<1> USE DEF MaintenanceInv, MaintenanceType
<1>1. /\ process[n] = "down"
      /\ process' = [process EXCEPT ![n] = "starting"]
      /\ flag' = [flag EXCEPT ![n] = store[n]]
      /\ UNCHANGED <<store, fan, setting, unsure>>
  BY DEF Start
<1>2. MaintenanceType'
  BY <1>1
<1>3. ASSUME NEW m \in Nodes, ~unsure'[m] PROVE Desired(m)'
  <2>1. Desired(m)
    BY <1>1, <1>3
  <2>2. CASE m = n
    BY <1>1, <2>1, <2>2 DEF Desired
  <2>3. CASE m # n
    BY <1>1, <2>1, <2>3, Elsewhere
  <2> QED BY <2>2, <2>3
<1> QED BY <1>2, <1>3

\* A node that starts has read the desired state: it is ready with it, unless a
\* request has to apply another.
LEMMA ReadyKeeps ==
  ASSUME MaintenanceInv, NEW n \in Nodes, Ready(n)
  PROVE  MaintenanceInv'
<1> USE DEF MaintenanceInv, MaintenanceType
<1>1. /\ process[n] = "starting" /\ fan[n] = <<>>
      /\ process' = [process EXCEPT ![n] = "ready"]
      /\ UNCHANGED <<store, flag, fan, setting, unsure>>
  BY DEF Ready
<1>2. MaintenanceType'
  BY <1>1
<1>3. ASSUME NEW m \in Nodes, ~unsure'[m] PROVE Desired(m)'
  <2>1. Desired(m)
    BY <1>1, <1>3
  <2>2. CASE m = n
    <3>1. Carried(m)' <=> flag[m] = store[m]
      BY <1>1, <2>2 DEF Carried
    <3>2. Pending(m, "asking")' <=> Pending(m, "asking")
      BY <1>1 DEF Pending
    <3> QED BY <1>1, <2>1, <2>2, <3>1, <3>2 DEF Desired
  <2>3. CASE m # n
    BY <1>1, <2>1, <2>3, Elsewhere
  <2> QED BY <2>2, <2>3
<1> QED BY <1>2, <1>3

LEMMA NextMaintenance == MaintenanceInv /\ [OpsNext]_opsVars => MaintenanceInv'
<1> SUFFICES ASSUME MaintenanceInv, [OpsNext]_opsVars PROVE MaintenanceInv'
  OBVIOUS
<1>1. ASSUME UNCHANGED maintenanceVars PROVE MaintenanceInv'
  BY <1>1 DEF maintenanceVars, MaintenanceInv, MaintenanceType, Desired, Pending, Carried
<1>2. CASE MaintenanceStep
  BY <1>2, WriteKeeps, NodeAppliesKeeps, NodeUnavailableKeeps, PublishKeeps, FinishKeeps,
     FanOutKeeps DEF MaintenanceStep
<1>3. ASSUME NEW n \in Nodes, Stop(n) \/ Start(n) \/ Ready(n) PROVE MaintenanceInv'
  BY <1>3, StopKeeps, StartKeeps, ReadyKeeps
<1>4. ASSUME NEW n \in Nodes, Report(n) \/ Reported(n) \/ Expire(n) PROVE MaintenanceInv'
  BY <1>1, <1>4 DEF Report, Reported, Expire
<1>5. ASSUME NEW h \in Tellers, Tell(h) PROVE MaintenanceInv'
  BY <1>1, <1>5 DEF Tell
<1>6. ASSUME NEW w \in Watchers, Push(w) PROVE MaintenanceInv'
  BY <1>1, <1>6 DEF Push
<1>7. CASE Peers
  BY <1>1, <1>7 DEF Peers
<1>8. ASSUME NEW c \in Consoles, Watch(c) PROVE MaintenanceInv'
  BY <1>1, <1>8 DEF Watch
<1>9. CASE UNCHANGED opsVars
  BY <1>1, <1>9 DEF opsVars
<1> QED BY <1>2, <1>3, <1>4, <1>5, <1>6, <1>7, <1>8, <1>9 DEF OpsNext

LEMMA MaintenanceImplies == MaintenanceInv => MaintenanceSettles
<1> SUFFICES ASSUME MaintenanceInv PROVE MaintenanceSettles
  OBVIOUS
<1>1. OpsTypeOK
  BY DEF MaintenanceInv, MaintenanceType, OpsTypeOK
<1>2. ASSUME NEW n \in Nodes, process[n] = "ready", Quiet(n), ~unsure[n]
      PROVE  flag[n] = store[n]
  BY <1>2 DEF MaintenanceInv, Desired, Quiet, Pending, Carried
<1> QED BY <1>1, <1>2 DEF MaintenanceSettles

\* Whatever the order in which the request, the event and a restart bring the desired
\* state to a node, it is in that state when all of them are through, for any number
\* of nodes, consoles, requests and restarts.
THEOREM DesiredStateSettles == OpsSpec => []MaintenanceSettles
BY InitMaintenance, NextMaintenance, MaintenanceImplies, PTL DEF OpsSpec

-----------------------------------------------------------------------------
(* What the consoles are told *)

Views == [registered : BOOLEAN, connected : BOOLEAN, on : BOOLEAN, life : Nat]
Notes == [node : Nodes, view : Views]

ViewType ==
  /\ life \in [Nodes -> Nat]
  /\ reports \in [Nodes -> Seq([life : Nat, on : BOOLEAN])]
  /\ view \in [Nodes -> Views]
  /\ hand \in [Watchers -> Seq(Notes)]
  /\ queue \in Seq(Notes)
  /\ telling \in [Tellers -> Seq(Notes)]
  /\ seen \in [Consoles -> [Nodes -> Views]]
  /\ overtaken \in [Nodes -> BOOLEAN]

\* The handler of a request has published what it had when it starts another.
OneNote == \A c \in Consoles : setting[c].step # "none" => telling[c] = <<>>

\* A console believes in a node, or is about to be made to.
Believed(n) ==
  \/ \E c \in Consoles : seen[c][n].registered
  \/ \E told \in Waiting : told.node = n /\ told.view.registered

Remembered(n) == ~view[n].registered /\ ~overtaken[n] /\ Believed(n) => Losses(n, Waiting) # {}

ViewInv == ViewType /\ OneNote /\ \A n \in Nodes : Remembered(n)

\* A set listed as a sequence.
LEMMA Listed ==
  ASSUME NEW S, IsFiniteSet(S)
  PROVE  SetToSeq(S) \in Seq(S) /\ Range(SetToSeq(S)) \subseteq S
<1>1. Cardinality(S) \in Nat /\ ExistsBijection(1..Cardinality(S), S)
  BY FS_CardinalityType
<1>2. \E f \in [1..Cardinality(S) -> S] : IsInjective(f)
  BY <1>1 DEF ExistsBijection, Bijection, Injection
<1>3. SetToSeq(S) \in [1..Cardinality(S) -> S]
  BY <1>2 DEF SetToSeq
<1>4. SetToSeq(S) \in Seq(S)
  BY <1>1, <1>3
<1> QED BY <1>4, RangeOfSeq

LEMMA OneRange ==
  ASSUME NEW x
  PROVE  Range(<<x>>) = {x}
<1>1. DOMAIN <<x>> = {1} /\ <<x>>[1] = x
  OBVIOUS
<1> QED BY <1>1 DEF Range

LEMMA AppendRange ==
  ASSUME NEW S, NEW s \in Seq(S), NEW x \in S
  PROVE  Append(s, x) \in Seq(S) /\ Range(Append(s, x)) = Range(s) \cup {x}
<1>1. Append(s, x) = s \o <<x>> /\ <<x>> \in Seq(S)
  BY AppendIsConcat
<1>2. Range(<<x>>) = {x}
  BY OneRange
<1>3. Range(s \o <<x>>) = Range(s) \cup Range(<<x>>)
  BY <1>1, RangeConcatenation, ZenonT(60)
<1>4. Append(s, x) \in Seq(S)
  BY AppendProperties
<1> QED BY <1>1, <1>2, <1>3, <1>4, Zenon

LEMMA TailRange ==
  ASSUME NEW S, NEW s \in Seq(S), s # <<>>
  PROVE  Head(s) \in S /\ Tail(s) \in Seq(S) /\ Range(s) = {Head(s)} \cup Range(Tail(s))
<1>1. s = <<Head(s)>> \o Tail(s) /\ Head(s) \in S /\ Tail(s) \in Seq(S) /\ <<Head(s)>> \in Seq(S)
  BY HeadTailProperties
<1>2. Range(<<Head(s)>>) = {Head(s)}
  BY OneRange
<1>3. Range(<<Head(s)>> \o Tail(s)) = Range(<<Head(s)>>) \cup Range(Tail(s))
  BY <1>1, RangeConcatenation, ZenonT(60)
<1> QED BY <1>1, <1>2, <1>3, Zenon

\* What all hold when one of them holds something else.
LEMMA Together ==
  ASSUME NEW D, NEW f, DOMAIN f = D, NEW h \in D, NEW s, NEW g, g = [f EXCEPT ![h] = s]
  PROVE  /\ UNION {Range(g[k]) : k \in D} = Range(s) \cup UNION {Range(f[k]) : k \in D \ {h}}
         /\ UNION {Range(f[k]) : k \in D} = Range(f[h]) \cup UNION {Range(f[k]) : k \in D \ {h}}
<1>1. g[h] = s /\ \A k \in D \ {h} : g[k] = f[k]
  OBVIOUS
<1>2. UNION {Range(g[k]) : k \in D} = Range(g[h]) \cup UNION {Range(g[k]) : k \in D \ {h}}
  OBVIOUS
<1>3. UNION {Range(g[k]) : k \in D \ {h}} = UNION {Range(f[k]) : k \in D \ {h}}
  BY <1>1
<1>4. UNION {Range(f[k]) : k \in D} = Range(f[h]) \cup UNION {Range(f[k]) : k \in D \ {h}}
  OBVIOUS
<1> QED BY <1>1, <1>2, <1>3, <1>4

LEMMA InitView == OpsInit => ViewInv
<1> SUFFICES ASSUME OpsInit PROVE ViewInv
  OBVIOUS
<1>1. ViewType
  BY DEF OpsInit, ViewType, Unknown, Views
<1>2. OneNote
  BY DEF OpsInit, OneNote, NoSetting
<1>3. Range(<<>>) = {}
  BY DEF Range
<1>4. Waiting = {}
  BY <1>3 DEF OpsInit, Waiting
<1>5. ASSUME NEW n \in Nodes PROVE ~Believed(n)
  BY <1>4 DEF OpsInit, Unknown, Believed
<1> QED BY <1>1, <1>2, <1>5 DEF ViewInv, Remembered

\* Nothing the consoles are told is taken away, and what is added of the node is not
\* more hopeful than the view.
LEMMA Grown ==
  ASSUME NEW m \in Nodes, Remembered(m),
         \A c \in Consoles : seen'[c][m].registered =>
           seen[c][m].registered \/ view[m].registered,
         overtaken'[m] = overtaken[m],
         view[m].registered => view'[m].registered,
         Waiting \subseteq Waiting',
         \A x \in Waiting' : x.node = m /\ x.view.registered => x \in Waiting \/ view[m].registered
  PROVE  Remembered(m)'
<1> SUFFICES ASSUME ~view'[m].registered, ~overtaken'[m], Believed(m)'
             PROVE  Losses(m, Waiting') # {}
  BY DEF Remembered
<1>1. ~view[m].registered /\ ~overtaken[m]
  OBVIOUS
<1>2. Believed(m)
  BY <1>1 DEF Believed
<1>3. Losses(m, Waiting) # {}
  BY <1>1, <1>2 DEF Remembered
<1> QED BY <1>3 DEF Losses

\* Steps of a request before its notification.
LEMMA RequestKeepsView ==
  ASSUME MaintenanceInv, ViewInv, UNCHANGED viewVars, life' \in [Nodes -> Nat],
         \A c \in Consoles :
           setting'[c].step # "none" => setting[c].step # "none" \/ telling[c] = <<>>
  PROVE  ViewInv'
<1>1. UNCHANGED <<reports, view, hand, queue, telling, seen, overtaken>>
  BY DEF viewVars
<1>2. ViewType'
  BY <1>1 DEF ViewInv, ViewType
<1>3. OneNote'
  BY <1>1 DEF ViewInv, OneNote
<1>4. Waiting' = Waiting
  BY <1>1 DEF Waiting
<1>5. ASSUME NEW m \in Nodes PROVE Remembered(m)'
  BY <1>1, <1>4, Grown DEF ViewInv
<1> QED BY <1>2, <1>3, <1>5 DEF ViewInv

LEMMA MaintenanceKeepsView ==
  ASSUME MaintenanceInv, ViewInv,
         \/ \E c \in Consoles :
              \/ \E n \in Nodes, on \in BOOLEAN : Write(c, n, on)
              \/ NodeApplies(c) \/ NodeUnavailable(c) \/ Publish(c)
         \/ \E n \in Nodes : FanOut(n) \/ Stop(n) \/ Start(n) \/ Ready(n)
  PROVE  ViewInv'
<1> USE DEF ViewInv, ViewType
<1>0. setting \in [Consoles -> Settings]
  BY DEF MaintenanceInv, MaintenanceType
<1>1. ASSUME NEW c \in Consoles, NEW n \in Nodes, NEW on \in BOOLEAN, Write(c, n, on)
      PROVE  ViewInv'
  <2>1. \A d \in Consoles :
          setting'[d].step # "none" => setting[d].step # "none" \/ telling[d] = <<>>
    BY <1>0, <1>1 DEF Write
  <2>2. UNCHANGED viewVars /\ life' = life
    BY <1>1 DEF Write
  <2> QED BY <2>1, <2>2, RequestKeepsView
<1>2. ASSUME NEW c \in Consoles, NodeApplies(c) \/ NodeUnavailable(c) \/ Publish(c)
      PROVE  ViewInv'
  <2>1. \A d \in Consoles : d # c => setting'[d] = setting[d]
    BY <1>0, <1>2 DEF NodeApplies, NodeUnavailable, Publish
  <2>2. setting[c].step # "none"
    BY <1>2 DEF NodeApplies, NodeUnavailable, Publish, Waits
  <2>3. UNCHANGED viewVars /\ life' = life
    BY <1>2 DEF NodeApplies, NodeUnavailable, Publish
  <2> QED BY <2>1, <2>2, <2>3, RequestKeepsView
<1>3. ASSUME NEW n \in Nodes, FanOut(n) \/ Stop(n) \/ Start(n) \/ Ready(n)
      PROVE  ViewInv'
  <2>1. UNCHANGED viewVars /\ setting' = setting
    BY <1>3, Zenon DEF FanOut, Stop, Start, Ready
  <2>2. life' = life \/ life' = [life EXCEPT ![n] = life[n] + 1]
    BY <1>3, Zenon DEF FanOut, Stop, Start, Ready
  <2>3. life' \in [Nodes -> Nat]
    <3>1. CASE life' = life
      BY <3>1
    <3>2. CASE life' = [life EXCEPT ![n] = life[n] + 1]
      <4>1. life \in [Nodes -> Nat] /\ life[n] + 1 \in Nat
        OBVIOUS
      <4> QED BY <3>2, <4>1
    <3> QED BY <2>2, <3>1, <3>2
  <2> QED BY <2>1, <2>3, RequestKeepsView
<1> QED BY <1>1, <1>2, <1>3

LEMMA FinishKeepsView ==
  ASSUME MaintenanceInv, ViewInv, NEW c \in Consoles, Finish(c)
  PROVE  ViewInv'
<1>0. PICK n \in Nodes : n = setting[c].node
  BY TheRequest DEF Finish, Waits
<1> DEFINE new == [view[n] EXCEPT !.on = setting[c].on]
<1>1. setting[c].on \in BOOLEAN /\ view[n] \in Views /\ telling[c] = <<>> /\ c \in Tellers
  BY <1>0 DEF MaintenanceInv, MaintenanceType, Settings, ViewInv, ViewType, OneNote, Finish, Waits,
              Tellers
<1>2. new \in Views /\ new.registered = view[n].registered
  BY <1>1 DEF Views
<1>3. Note(n, new) \in Notes /\ Note(n, new).node = n /\ Note(n, new).view = new
  BY <1>2 DEF Note, Notes
<1>4. setting' = [setting EXCEPT ![c] = NoSetting] /\ setting \in [Consoles -> Settings]
  BY DEF Finish, MaintenanceInv, MaintenanceType
<1>5. UNCHANGED <<life, reports, hand, queue, seen, overtaken>>
  BY DEF Finish
<1>6. CASE view[n].life = 0
  <2>1. UNCHANGED <<view, telling>>
    BY <1>0, <1>6 DEF Finish
  <2>2. ViewType' /\ OneNote'
    BY <1>4, <1>5, <2>1 DEF ViewInv, ViewType, OneNote, NoSetting
  <2>3. Waiting' = Waiting
    BY <1>5, <2>1 DEF Waiting
  <2>4. ASSUME NEW m \in Nodes PROVE Remembered(m)'
    BY <1>5, <2>1, <2>3, Grown DEF ViewInv
  <2> QED BY <2>2, <2>4 DEF ViewInv
<1>7. CASE view[n].life # 0
  <2>1. view' = [view EXCEPT ![n] = new] /\ telling' = [telling EXCEPT ![c] = <<Note(n, new)>>]
    BY <1>0, <1>1, <1>7 DEF Finish, Views
  <2>2. <<Note(n, new)>> \in Seq(Notes) /\ Range(<<Note(n, new)>>) = {Note(n, new)}
    BY <1>3, OneRange
  <2> HIDE DEF new
  <2>3. ViewType'
    BY <1>1, <1>2, <1>5, <2>1, <2>2 DEF ViewInv, ViewType
  <2>4. OneNote'
    BY <1>1, <1>4, <2>1 DEF ViewInv, ViewType, OneNote, NoSetting
  <2>5. Range(<<>>) = {}
    BY DEF Range
  <2>6. Waiting' = Waiting \cup {Note(n, new)}
    <3>1. DOMAIN telling = Tellers
      BY DEF ViewInv, ViewType
    <3>2. UNION {Range(telling'[k]) : k \in Tellers}
            = {Note(n, new)} \cup UNION {Range(telling[k]) : k \in Tellers}
      BY <1>1, <2>1, <2>2, <2>5, <3>1, Together
    <3>3. UNION {Range(hand'[w]) : w \in Watchers} = UNION {Range(hand[w]) : w \in Watchers}
      BY <1>5
    <3> DEFINE T == UNION {Range(telling[k]) : k \in Tellers}
               U == UNION {Range(telling'[k]) : k \in Tellers}
               H == UNION {Range(hand[w]) : w \in Watchers}
    <3>4. Waiting = Range(queue) \cup H \cup T /\ Waiting' = Range(queue) \cup H \cup U
      BY <1>5, <3>3 DEF Waiting
    <3>5. U = {Note(n, new)} \cup T
      BY <3>2
    <3> HIDE DEF T, U, H
    <3> QED BY <3>4, <3>5
  <2>7. ASSUME NEW m \in Nodes PROVE Remembered(m)'
    <3>1. view'[m].registered = view[m].registered
      BY <1>2, <2>1 DEF ViewInv, ViewType
    <3> QED BY <1>2, <1>3, <1>5, <2>6, <3>1, Grown DEF ViewInv
  <2> QED BY <2>3, <2>4, <2>7 DEF ViewInv
<1> QED BY <1>6, <1>7

LEMMA ReportKeepsView ==
  ASSUME ViewInv, NEW n \in Nodes, MaintenanceInv, Report(n)
  PROVE  ViewInv'
<1>1. /\ reports' = [reports EXCEPT ![n] = Append(reports[n], [life |-> life[n], on |-> flag[n]])]
      /\ UNCHANGED <<setting, life, view, hand, queue, telling, seen, overtaken>>
  BY DEF Report, maintenanceVars
<1>2. [life |-> life[n], on |-> flag[n]] \in [life : Nat, on : BOOLEAN]
  BY DEF ViewInv, ViewType, MaintenanceInv, MaintenanceType
<1>3. reports[n] \in Seq([life : Nat, on : BOOLEAN])
  BY DEF ViewInv, ViewType
<1>4. Append(reports[n], [life |-> life[n], on |-> flag[n]]) \in Seq([life : Nat, on : BOOLEAN])
  BY <1>2, <1>3, AppendProperties
<1>5. ViewType' /\ OneNote'
  BY <1>1, <1>4 DEF ViewInv, ViewType, OneNote
<1>6. Waiting' = Waiting
  BY <1>1 DEF Waiting
<1>7. ASSUME NEW m \in Nodes PROVE Remembered(m)'
  BY <1>1, <1>6, Grown DEF ViewInv
<1> QED BY <1>5, <1>7 DEF ViewInv

\* The pending notifications go from the queue to the handler, with the report's.
LEMMA ReportedKeepsView ==
  ASSUME ViewInv, NEW n \in Nodes, Reported(n)
  PROVE  ViewInv'
<1> DEFINE r == Head(reports[n])
           v == [registered |-> TRUE, connected |-> <<n, r.life>> \in live,
                 on |-> r.on, life |-> r.life]
<1>1. /\ reports[n] # <<>> /\ telling[n] = <<>>
      /\ view' = [view EXCEPT ![n] = v]
      /\ telling' = [telling EXCEPT ![n] = Append(queue, Note(n, v))]
      /\ queue' = <<>> /\ reports' = [reports EXCEPT ![n] = Tail(reports[n])]
      /\ overtaken' = [overtaken EXCEPT ![n] = FALSE]
      /\ UNCHANGED <<setting, life, hand, seen>>
  BY DEF Reported, maintenanceVars
<1>2. r \in [life : Nat, on : BOOLEAN] /\ Tail(reports[n]) \in Seq([life : Nat, on : BOOLEAN])
  BY <1>1, HeadTailProperties DEF ViewInv, ViewType
<1>3. v \in Views /\ v.registered
  BY <1>2 DEF Views
<1>4. Note(n, v) \in Notes /\ Note(n, v).node = n
  BY <1>3 DEF Note, Notes
<1> HIDE DEF v, r
<1>5. /\ Append(queue, Note(n, v)) \in Seq(Notes)
      /\ Range(Append(queue, Note(n, v))) = Range(queue) \cup {Note(n, v)}
  BY <1>4, AppendRange DEF ViewInv, ViewType
<1>6. n \in Tellers /\ n \notin Consoles
  BY OpsAssumption DEF Tellers
<1>7. ViewType'
  BY <1>1, <1>2, <1>3, <1>5, EmptySeq DEF ViewInv, ViewType
<1>8. OneNote'
  BY <1>1, <1>6 DEF ViewInv, ViewType, OneNote
<1>9. Range(<<>>) = {}
  BY DEF Range
<1>10. Waiting' = Waiting \cup {Note(n, v)}
  <2>1. DOMAIN telling = Tellers
    BY DEF ViewInv, ViewType
  <2>2. UNION {Range(telling'[k]) : k \in Tellers}
          = Range(queue) \cup {Note(n, v)} \cup UNION {Range(telling[k]) : k \in Tellers}
    BY <1>1, <1>5, <1>6, <1>9, <2>1, Together
  <2> DEFINE T == UNION {Range(telling[k]) : k \in Tellers}
             U == UNION {Range(telling'[k]) : k \in Tellers}
             H == UNION {Range(hand[w]) : w \in Watchers}
  <2>3. Waiting = Range(queue) \cup H \cup T /\ Waiting' = {} \cup H \cup U
    BY <1>1, <1>9 DEF Waiting
  <2>4. U = Range(queue) \cup {Note(n, v)} \cup T
    BY <2>2
  <2> HIDE DEF T, U, H
  <2> QED BY <2>3, <2>4
<1>11. ASSUME NEW m \in Nodes PROVE Remembered(m)'
  <2>1. CASE m = n
    BY <1>1, <1>3, <2>1 DEF Remembered, ViewInv, ViewType
  <2>2. CASE m # n
    <3>1. view'[m] = view[m] /\ overtaken'[m] = overtaken[m]
      BY <1>1, <2>2 DEF ViewInv, ViewType
    <3> QED BY <1>1, <1>4, <1>10, <2>2, <3>1, Grown DEF ViewInv
  <2> QED BY <2>1, <2>2
<1> QED BY <1>7, <1>8, <1>11 DEF ViewInv

\* The first notification of the handler goes to the consoles.
LEMMA TellKeepsView ==
  ASSUME ViewInv, NEW h \in Tellers, Tell(h)
  PROVE  ViewInv'
<1>1. /\ telling[h] # <<>> /\ telling[h] \in Seq(Notes) /\ DOMAIN telling = Tellers
  BY DEF Tell, ViewInv, ViewType
<1>2. /\ Head(telling[h]) \in Notes /\ Tail(telling[h]) \in Seq(Notes)
      /\ Range(telling[h]) = {Head(telling[h])} \cup Range(Tail(telling[h]))
  BY <1>1, TailRange
<1>3. PICK told \in Notes : told = Head(telling[h])
  BY <1>2
<1>4. PICK n \in Nodes : n = told.node
  BY DEF Notes
<1>5. /\ telling' = [telling EXCEPT ![h] = Tail(telling[h])]
      /\ seen' = [c \in Consoles |-> [seen[c] EXCEPT ![n] = told.view]]
      /\ overtaken' = [overtaken EXCEPT ![n] = @ \/
           (~told.view.registered /\ \E late \in Waiting' : late.node = n /\ late.view.registered)]
      /\ UNCHANGED <<setting, life, reports, view, hand, queue>>
  BY <1>3, <1>4 DEF Tell, maintenanceVars
<1>6. told.view \in Views
  BY DEF Notes
<1>7. ViewType'
  BY <1>2, <1>5, <1>6 DEF ViewInv, ViewType
<1>8. OneNote'
  <2>1. ASSUME NEW c \in Consoles, telling[c] = <<>> PROVE telling'[c] = <<>>
    BY <1>1, <1>5, <2>1 DEF Tellers
  <2> QED BY <1>5, <2>1 DEF ViewInv, OneNote
<1>9. Waiting = Waiting' \cup {told}
  <2> DEFINE T == UNION {Range(telling[k]) : k \in Tellers}
             U == UNION {Range(telling'[k]) : k \in Tellers}
             R == UNION {Range(telling[k]) : k \in Tellers \ {h}}
             H == UNION {Range(hand[w]) : w \in Watchers}
  <2>1. Waiting = Range(queue) \cup H \cup T /\ Waiting' = Range(queue) \cup H \cup U
    BY <1>5 DEF Waiting
  <2>2. U = Range(Tail(telling[h])) \cup R /\ T = Range(telling[h]) \cup R
    BY <1>1, <1>5, Together
  <2> HIDE DEF T, U, R, H
  <2> QED BY <1>2, <1>3, <2>1, <2>2
<1>10. ASSUME NEW m \in Nodes PROVE Remembered(m)'
  <2> SUFFICES ASSUME ~view'[m].registered, ~overtaken'[m], Believed(m)'
               PROVE  Losses(m, Waiting') # {}
    BY DEF Remembered
  <2>1. ~view[m].registered /\ ~overtaken[m]
    BY <1>5 DEF ViewInv, ViewType
  <2>2. \A c \in Consoles : seen'[c][m] = IF m = n THEN told.view ELSE seen[c][m]
    BY <1>5 DEF ViewInv, ViewType
  <2>3. told.node = m => told.view.registered
    <3>1. SUFFICES ASSUME m = n, ~told.view.registered PROVE FALSE
      BY <1>4
    <3>2. ~\E late \in Waiting' : late.node = m /\ late.view.registered
      BY <1>5, <3>1 DEF ViewInv, ViewType
    <3> QED BY <2>2, <3>1, <3>2 DEF Believed
  <2>4. Believed(m)
    BY <1>4, <1>9, <2>2, <2>3 DEF Believed
  <2>5. PICK loss \in Waiting : loss.node = m /\ ~loss.view.registered
    BY <2>1, <2>4 DEF ViewInv, Remembered, Losses
  <2>6. loss \in Waiting'
    BY <1>9, <2>3, <2>5
  <2> QED BY <2>5, <2>6 DEF Losses
<1> QED BY <1>7, <1>8, <1>10 DEF ViewInv

LEMMA PushKeepsView ==
  ASSUME ViewInv, NEW w \in Watchers, Push(w)
  PROVE  ViewInv'
<1>1. /\ queue' = queue \o hand[w] /\ hand' = [hand EXCEPT ![w] = <<>>]
      /\ UNCHANGED <<setting, life, reports, view, telling, seen, overtaken>>
  BY DEF Push, maintenanceVars
<1>2. queue \in Seq(Notes) /\ hand[w] \in Seq(Notes) /\ DOMAIN hand = Watchers
  BY DEF ViewInv, ViewType
<1>3. queue \o hand[w] \in Seq(Notes)
  BY <1>2, ConcatProperties
<1>4. ViewType' /\ OneNote'
  BY <1>1, <1>3, EmptySeq DEF ViewInv, ViewType, OneNote
<1>5. Range(queue') = Range(queue) \cup Range(hand[w])
  BY <1>1, <1>2, RangeConcatenation
<1>6. Range(<<>>) = {}
  BY DEF Range
<1>7. Waiting' = Waiting
  <2> DEFINE T == UNION {Range(telling[k]) : k \in Tellers}
             H == UNION {Range(hand[k]) : k \in Watchers}
             G == UNION {Range(hand'[k]) : k \in Watchers}
             R == UNION {Range(hand[k]) : k \in Watchers \ {w}}
  <2>1. Waiting = Range(queue) \cup H \cup T /\ Waiting' = Range(queue') \cup G \cup T
    BY <1>1 DEF Waiting
  <2>2. G = Range(<<>>) \cup R /\ H = Range(hand[w]) \cup R
    BY <1>1, <1>2, Together
  <2> HIDE DEF T, H, G, R
  <2> QED BY <1>5, <1>6, <2>1, <2>2
<1>8. ASSUME NEW m \in Nodes PROVE Remembered(m)'
  BY <1>1, <1>7, Grown DEF ViewInv
<1> QED BY <1>4, <1>8 DEF ViewInv

\* A thread that had nothing in its hand takes some notes.
LEMMA Noticed ==
  ASSUME ViewInv, NEW w \in Watchers, hand[w] = <<>>, NEW notes \in Seq(Notes),
         hand' = [hand EXCEPT ![w] = notes], UNCHANGED <<queue, telling>>
  PROVE  Waiting' = Waiting \cup Range(notes)
<1>1. DOMAIN hand = Watchers
  BY DEF ViewInv, ViewType
<1>2. Range(<<>>) = {}
  BY DEF Range
<1> DEFINE T == UNION {Range(telling[k]) : k \in Tellers}
           H == UNION {Range(hand[k]) : k \in Watchers}
           G == UNION {Range(hand'[k]) : k \in Watchers}
           R == UNION {Range(hand[k]) : k \in Watchers \ {w}}
<1>3. Waiting = Range(queue) \cup H \cup T /\ Waiting' = Range(queue) \cup G \cup T
  BY DEF Waiting
<1>4. G = Range(notes) \cup R /\ H = Range(hand[w]) \cup R
  BY <1>1, Together
<1> HIDE DEF T, H, G, R
<1> QED BY <1>2, <1>3, <1>4

LEMMA ExpireKeepsView ==
  ASSUME ViewInv, NEW n \in Nodes, Expire(n)
  PROVE  ViewInv'
<1> DEFINE v == [view[n] EXCEPT !.registered = FALSE]
<1>1. /\ hand["worker"] = <<>> /\ view' = [view EXCEPT ![n] = v]
      /\ hand' = [hand EXCEPT !["worker"] = <<Note(n, v)>>]
      /\ UNCHANGED <<setting, life, reports, queue, telling, seen, overtaken>>
  BY DEF Expire, maintenanceVars
<1>2. v \in Views /\ ~v.registered
  BY DEF ViewInv, ViewType, Views
<1>3. Note(n, v) \in Notes /\ Note(n, v).node = n /\ Note(n, v).view = v
  BY <1>2 DEF Note, Notes
<1> HIDE DEF v
<1>4. <<Note(n, v)>> \in Seq(Notes) /\ Range(<<Note(n, v)>>) = {Note(n, v)}
  BY <1>3, OneRange
<1>5. ViewType' /\ OneNote'
  BY <1>1, <1>2, <1>4 DEF ViewInv, ViewType, OneNote
<1>6. Waiting' = Waiting \cup {Note(n, v)}
  BY <1>1, <1>4, Noticed DEF Watchers
<1>7. ASSUME NEW m \in Nodes PROVE Remembered(m)'
  <2>1. CASE m = n
    BY <1>2, <1>3, <1>6, <2>1 DEF Remembered, Losses
  <2>2. CASE m # n
    <3>1. view'[m] = view[m]
      BY <1>1, <2>2 DEF ViewInv, ViewType
    <3> QED BY <1>1, <1>3, <1>6, <2>2, <3>1, Grown DEF ViewInv
  <2> QED BY <2>1, <2>2
<1> QED BY <1>5, <1>7 DEF ViewInv

LEMMA PeersKeepsView ==
  ASSUME ViewInv, Peers
  PROVE  ViewInv'
<1> DEFINE told == {Note(n, Relinked(n)) : n \in Changed}
<1>1. /\ hand["observer"] = <<>>
      /\ view' = [n \in Nodes |-> IF n \in Changed THEN Relinked(n) ELSE view[n]]
      /\ hand' = [hand EXCEPT !["observer"] = SetToSeq(told)]
      /\ UNCHANGED <<setting, life, reports, queue, telling, seen, overtaken>>
  BY DEF Peers, maintenanceVars
<1>2. \A n \in Nodes : Relinked(n) \in Views /\ Relinked(n).registered = view[n].registered
  <2> SUFFICES ASSUME NEW n \in Nodes
               PROVE  Relinked(n) \in Views /\ Relinked(n).registered = view[n].registered
    OBVIOUS
  <2>1. view[n] \in Views
    BY DEF ViewInv, ViewType
  <2>2. Linked(n) \in BOOLEAN
    BY DEF Linked
  <2> QED BY <2>1, <2>2 DEF Views, Relinked
<1>3. Changed \subseteq Nodes
  BY DEF Changed
<1>4. \A x \in told : x \in Notes /\ x.view.registered = view[x.node].registered
  BY <1>2, <1>3 DEF Note, Notes
<1>5. IsFiniteSet(told)
  <2>1. IsFiniteSet(Changed)
    BY <1>3, OpsAssumption, FS_Subset
  <2> DEFINE f == [n \in Changed |-> Note(n, Relinked(n))]
  <2>2. f \in Surjection(Changed, told)
    BY DEF Surjection
  <2> QED BY <2>1, <2>2, FS_Surjection
<1> HIDE DEF told
<1>6. SetToSeq(told) \in Seq(Notes) /\ Range(SetToSeq(told)) \subseteq told
  <2>1. SetToSeq(told) \in Seq(told) /\ Range(SetToSeq(told)) \subseteq told
    BY <1>5, Listed
  <2> QED BY <1>4, <2>1, SeqMonotonic
<1>7. ViewType' /\ OneNote'
  BY <1>1, <1>2, <1>6 DEF ViewInv, ViewType, OneNote
<1>8. Waiting' = Waiting \cup Range(SetToSeq(told))
  BY <1>1, <1>6, Noticed DEF Watchers
<1>9. ASSUME NEW m \in Nodes PROVE Remembered(m)'
  <2>1. view'[m].registered = view[m].registered
    BY <1>1, <1>2
  <2>2. \A x \in Waiting' : x.node = m /\ x.view.registered => x \in Waiting \/ view[m].registered
    BY <1>4, <1>6, <1>8
  <2> QED BY <1>1, <1>8, <2>1, <2>2, Grown DEF ViewInv
<1> QED BY <1>7, <1>9 DEF ViewInv

LEMMA WatchKeepsView ==
  ASSUME ViewInv, NEW c \in Consoles, Watch(c)
  PROVE  ViewInv'
<1>1. /\ seen' = [seen EXCEPT ![c] = view]
      /\ UNCHANGED <<setting, life, reports, view, hand, queue, telling, overtaken>>
  BY DEF Watch, maintenanceVars
<1>2. ViewType' /\ OneNote'
  BY <1>1 DEF ViewInv, ViewType, OneNote
<1>3. Waiting' = Waiting
  BY <1>1 DEF Waiting
<1>4. ASSUME NEW m \in Nodes PROVE Remembered(m)'
  <2>1. \A d \in Consoles : seen'[d][m].registered => seen[d][m].registered \/ view[m].registered
    BY <1>1 DEF ViewInv, ViewType
  <2> QED BY <1>1, <1>3, <2>1, Grown DEF ViewInv
<1> QED BY <1>2, <1>4 DEF ViewInv

LEMMA NextView == MaintenanceInv /\ ViewInv /\ [OpsNext]_opsVars => ViewInv'
<1> SUFFICES ASSUME MaintenanceInv, ViewInv, [OpsNext]_opsVars PROVE ViewInv'
  OBVIOUS
<1>1. CASE MaintenanceStep
  BY <1>1, MaintenanceKeepsView, FinishKeepsView DEF MaintenanceStep
<1>2. ASSUME NEW n \in Nodes, Stop(n) \/ Start(n) \/ Ready(n) PROVE ViewInv'
  BY <1>2, MaintenanceKeepsView
<1>3. ASSUME NEW n \in Nodes, Report(n) \/ Reported(n) \/ Expire(n) PROVE ViewInv'
  BY <1>3, ReportKeepsView, ReportedKeepsView, ExpireKeepsView
<1>4. CASE UNCHANGED opsVars
  <2>1. UNCHANGED viewVars /\ setting' = setting /\ life' \in [Nodes -> Nat]
    BY <1>4 DEF opsVars, maintenanceVars, ViewInv, ViewType
  <2> QED BY <2>1, RequestKeepsView
<1> QED BY <1>1, <1>2, <1>3, <1>4, TellKeepsView, PushKeepsView, PeersKeepsView, WatchKeepsView
        DEF OpsNext

\* Ops does not forget the loss of a node, for any number of nodes and consoles,
\* whichever thread noticed it and whichever handlers publish at the same time.
THEOREM LossIsNotForgotten == OpsSpec => []LossIsTold
<1>1. ViewInv => LossIsTold
  BY DEF ViewInv, Remembered, Believed, LossIsTold
<1> QED BY InitMaintenance, NextMaintenance, InitView, NextView, <1>1, PTL DEF OpsSpec

\* With players and announcements above it, the maintenance of the nodes takes only
\* its own steps: what is proved of OpsSpec holds in the whole world.
THEOREM WorldKeepsOps == WorldSpec => OpsSpec
<1>1. [WorldNext]_<<opsVars, worldVars>> => [OpsNext]_opsVars
  <2> SUFFICES ASSUME [WorldNext]_<<opsVars, worldVars>> PROVE [OpsNext]_opsVars
    OBVIOUS
  <2>1. CASE PlayersNext
    BY <2>1 DEF PlayersNext, JoinWorld, EnterWorld, BotTick, OnActorJoin, FailJoin,
                OnLeaveActor, OnActorJoined, OnJoinCompleted, Move, UpdatePosition
  <2>2. CASE NewsNext
    BY <2>2 DEF NewsNext, AnnounceWorld, AnnounceNode, AnnounceZone, DeliverAnnounce
  <2>3. CASE MaintenanceStep
    BY <2>3 DEF OpsNext
  <2>4. CASE UNCHANGED <<opsVars, worldVars>>
    BY <2>4
  <2> QED BY <2>1, <2>2, <2>3, <2>4 DEF WorldNext
<1> QED BY <1>1, PTL DEF WorldSpec, OpsSpec

-----------------------------------------------------------------------------
(* How the zones are shared out *)

LEMMA ZonesFinite == IsFiniteSet(Zones)
<1>1. IsFiniteSet({"zone-nw"})
  BY FS_Singleton
<1>2. IsFiniteSet({"zone-nw"} \cup {"zone-ne"})
  BY <1>1, FS_AddElement
<1>3. IsFiniteSet(({"zone-nw"} \cup {"zone-ne"}) \cup {"zone-sw"})
  BY <1>2, FS_AddElement
<1>4. IsFiniteSet((({"zone-nw"} \cup {"zone-ne"}) \cup {"zone-sw"}) \cup {"zone-se"})
  BY <1>3, FS_AddElement
<1>5. Zones = (({"zone-nw"} \cup {"zone-ne"}) \cup {"zone-sw"}) \cup {"zone-se"}
  BY DEF Zones
<1> QED
  BY <1>4, <1>5

\* Who is no more than others can be put in one to one.
LEMMA FewerFit ==
  ASSUME NEW S, NEW T, IsFiniteSet(S), IsFiniteSet(T), Cardinality(S) <= Cardinality(T)
  PROVE  Injection(S, T) # {}
<1>1. Cardinality(S) \in Nat /\ Cardinality(T) \in Nat
  BY FS_CardinalityType
<1>2. PICK f \in Bijection(1 .. Cardinality(S), S) : TRUE
  BY FS_CardinalityType DEF ExistsBijection
<1>3. PICK g \in Bijection(1 .. Cardinality(T), T) : TRUE
  BY FS_CardinalityType DEF ExistsBijection
<1>4. \A i \in 1 .. Cardinality(S) : i \in 1 .. Cardinality(T)
  BY <1>1
<1> DEFINE of(x) == CHOOSE i \in 1 .. Cardinality(S) : f[i] = x
           h == [x \in S |-> g[of(x)]]
<1>5. \A x \in S : of(x) \in 1 .. Cardinality(S) /\ f[of(x)] = x
  BY <1>2 DEF Bijection, Surjection
<1>6. \A x \in S : of(x) \in 1 .. Cardinality(T)
  BY <1>4, <1>5
<1>7. g \in [1 .. Cardinality(T) -> T]
      /\ \A i, j \in 1 .. Cardinality(T) : g[i] = g[j] => i = j
  BY <1>3 DEF Bijection, Injection, IsInjective
<1> HIDE DEF of
<1>8. h \in [S -> T]
  BY <1>6, <1>7
<1>9. ASSUME NEW x \in S, NEW y \in S, h[x] = h[y] PROVE x = y
  <2>1. of(x) = of(y)
    BY <1>6, <1>7, <1>9
  <2> QED
    BY <1>5, <2>1
<1>10. h \in Injection(S, T)
  BY <1>8, <1>9 DEF Injection, IsInjective
<1> QED
  BY <1>10

Given(f, n) == {z \in Zones : f[z] = n}

\* Zones that f shares out and g places, on every node no fewer than f has: g places
\* them all, and as many on each node as f.
LEMMA AllPlaced ==
  ASSUME NEW N, NEW f \in [Zones -> N], NEW g,
         \A n \in N : Cardinality(Given(f, n)) <= Cardinality(Given(g, n))
  PROVE  /\ \A z \in Zones : g[z] \in N
         /\ \A n \in N : Cardinality(Given(f, n)) = Cardinality(Given(g, n))
<1> DEFINE F(n) == {z \in Zones : f[z] = n}
           G(n) == {z \in Zones : g[z] = n}
           into(n) == CHOOSE h \in Injection(F(n), G(n)) : TRUE
           H == [z \in Zones |-> into(f[z])[z]]
<1>1. \A n : IsFiniteSet(F(n)) /\ IsFiniteSet(G(n))
  BY ZonesFinite, FS_Subset
<1>2. \A n \in N : into(n) \in Injection(F(n), G(n))
  <2> SUFFICES ASSUME NEW n \in N PROVE Injection(F(n), G(n)) # {}
    OBVIOUS
  <2>1. Cardinality(F(n)) <= Cardinality(G(n))
    BY DEF Given
  <2> HIDE DEF F, G
  <2> QED
    BY <1>1, <2>1, FewerFit
<1>3. \A n \in N : /\ into(n) \in [F(n) -> G(n)]
                   /\ \A x, y \in F(n) : into(n)[x] = into(n)[y] => x = y
  BY <1>2 DEF Injection, IsInjective
<1> HIDE DEF into
<1>4. \A z \in Zones : H[z] \in G(f[z]) /\ f[z] \in N /\ z \in F(f[z])
  <2> SUFFICES ASSUME NEW z \in Zones PROVE H[z] \in G(f[z]) /\ f[z] \in N /\ z \in F(f[z])
    OBVIOUS
  <2>1. PICK n \in N : n = f[z]
    OBVIOUS
  <2>2. z \in F(n)
    BY <2>1
  <2>3. H[z] = into(n)[z]
    BY <2>1
  <2> HIDE DEF F, G, H
  <2> QED
    BY <1>3, <2>1, <2>2, <2>3
<1>5. H \in [Zones -> Zones] /\ \A z \in Zones : g[H[z]] = f[z]
  BY <1>4
<1>6. ASSUME NEW x \in Zones, NEW y \in Zones, H[x] = H[y] PROVE x = y
  <2>1. f[x] = f[y]
    BY <1>5, <1>6
  <2>2. PICK n \in N : n = f[x]
    OBVIOUS
  <2>3. x \in F(n) /\ y \in F(n) /\ into(n)[x] = into(n)[y]
    BY <1>6, <2>1, <2>2
  <2> HIDE DEF F
  <2> QED
    BY <1>3, <2>3
<1> HIDE DEF H
<1>7. H \in Injection(Zones, Zones)
  BY <1>5, <1>6 DEF Injection, IsInjective
<1>8. H \in Surjection(Zones, Zones)
  BY <1>7, ZonesFinite, FS_Injection
<1>9. \A w \in Zones : \E z \in Zones : H[z] = w
  BY <1>8 DEF Surjection
<1>10. \A w \in Zones : g[w] \in N
  BY <1>5, <1>9
<1>11. ASSUME NEW n \in N PROVE Cardinality(F(n)) = Cardinality(G(n))
  <2>1. \A w \in G(n) : \E z \in F(n) : into(n)[z] = w
    <3> SUFFICES ASSUME NEW w \in G(n) PROVE \E z \in F(n) : into(n)[z] = w
      OBVIOUS
    <3>1. PICK z \in Zones : H[z] = w
      BY <1>9
    <3>2. f[z] = n
      BY <1>5, <3>1
    <3>3. z \in F(n) /\ into(n)[z] = w
      BY <3>1, <3>2 DEF H
    <3> QED
      BY <3>3
  <2> HIDE DEF F, G
  <2>2. into(n) \in Surjection(F(n), G(n))
    BY <1>3, <2>1 DEF Surjection
  <2> QED
    BY <1>1, <1>2, <2>2, FS_Injection
<1> QED
  BY <1>10, <1>11 DEF Given

-----------------------------------------------------------------------------
(* The invariant of the zones' claims *)

NodeStates ==
  [step : {"down", "pass", "asked", "settled", "ready", "failed"}, spare : BOOLEAN,
   next : 1 .. 5, claimed : SUBSET Zones, attempt : Nat]

ClaimTypes ==
  /\ node \in [Nodes -> NodeStates]
  /\ zones \in [Nodes -> SUBSET Zones]
  /\ spot \in [Zones -> [at : Nodes \cup {None, Gone}, live : BOOLEAN]]
  /\ known \in [Nodes -> (SUBSET Zones) \cup {None}]
  /\ gateway \in [step : {"zones", "asked", "bots", "failed"}, next : 1 .. 4]
  /\ failures \in 0 .. MaxFailures /\ deaths \in Nat
  /\ \A n \in Nodes : At(n, "asked") => node[n].next <= 4

\* A replacement gives up only with a zone.
SparesGiveUp ==
  \A n \in Nodes : At(n, "failed") /\ node[n].spare => zones[n] # {}

\* What no death has disturbed: each zone is on one node and, when initialized, in the
\* list of that node, and no node has more than it may.
PlacedOn(n) == {z \in Zones : spot[z].at = n}

Full(n) == Cardinality(PlacedOn(n)) = Capacity[n]

Placed ==
  /\ \A z \in Zones : spot[z].at \in Nodes \cup {None} /\ (spot[z].live => spot[z].at \in Nodes)
  /\ \A n \in Nodes : zones[n] = {z \in Zones : spot[z].at = n /\ spot[z].live}
  /\ \A n \in Nodes : Cardinality(PlacedOn(n)) <= Capacity[n]

\* A pass leaves a zone behind when it is initialized, or when the node is full without it.
PassedBy(n, z) == spot[z].live \/ (Full(n) /\ spot[z].at # n)

\* Each pass that was in vain, and was not cut short by a new zone, met a failure.
Passing(n) ==
  /\ node[n].claimed \subseteq zones[n]
  /\ node[n].attempt = 0 \/ Cardinality(node[n].claimed) < Capacity[n]
  /\ \/ node[n].attempt + 1 <= failures + Cardinality(node[n].claimed)
     \/ /\ node[n].attempt <= failures + Cardinality(node[n].claimed)
        /\ \A j \in 1 .. 4 : j < node[n].next => PassedBy(n, ZoneOrder[j])

NodeInv(n) ==
  /\ ~node[n].spare /\ ~At(n, "failed")
  /\ At(n, "down") => node[n].next = 1 /\ node[n].claimed = {} /\ node[n].attempt = 0
  /\ At(n, "asked") => spot[ZoneOrder[node[n].next]].at \in Nodes
  /\ At(n, "pass") \/ At(n, "asked") => Passing(n)
  /\ At(n, "settled") \/ At(n, "ready") => Cardinality(zones[n]) = Capacity[n]
  /\ known[n] # None => known[n] \subseteq zones[n]
  /\ At(n, "ready") => known[n] = zones[n]

GatewayInv ==
  /\ gateway.step \in {"zones", "asked"} =>
       \A j \in 1 .. 4 : j < gateway.next => spot[ZoneOrder[j]].live
  /\ gateway.step = "asked" => spot[ZoneOrder[gateway.next]].at \in Nodes
  /\ gateway.step = "bots" => \A z \in Zones : spot[z].live

Undisturbed == Placed /\ GatewayInv /\ \A n \in Nodes : NodeInv(n)

ClaimsInv ==
  ClaimTypes /\ SparesGiveUp /\ (deaths = 0 => Undisturbed)

LEMMA OrderOfZones ==
  /\ Len(ZoneOrder) = 4 /\ \A j \in 1 .. 4 : ZoneOrder[j] \in Zones
  /\ \A z \in Zones : \E j \in 1 .. 4 : ZoneOrder[j] = z
<1>1. /\ ZoneOrder[1] = "zone-nw" /\ ZoneOrder[2] = "zone-ne" /\ ZoneOrder[3] = "zone-sw"
      /\ ZoneOrder[4] = "zone-se" /\ Len(ZoneOrder) = 4
  BY DEF ZoneOrder
<1>2. \A j \in 1 .. 4 : j = 1 \/ j = 2 \/ j = 3 \/ j = 4
  OBVIOUS
<1> QED
  BY <1>1, <1>2 DEF Zones

LEMMA CapacityType ==
  /\ \A n \in Nodes : Capacity[n] \in Nat /\ MaxFailures + Capacity[n] < RetryAttempts
  /\ MaxFailures \in Nat /\ RetryAttempts \in Nat /\ ReadyAttempts \in Nat
  /\ 1 < RetryAttempts /\ ReadyAttempts < RetryAttempts
  /\ None \notin Nodes /\ Gone \notin Nodes /\ Gone # None
  BY ClaimsAssumption, SharesAssumption, OpsAssumption

LEMMA InitClaims ==
  ASSUME ClaimsInit
  PROVE  ClaimsInv
<1> USE DEF ClaimsInit, Down, At
<1>1. MaxFailures \in Nat /\ 0 \in 0 .. MaxFailures
  BY CapacityType
<1>2. ClaimTypes
  BY <1>1 DEF ClaimTypes, NodeStates
<1>3. SparesGiveUp
  BY DEF SparesGiveUp
<1>4. \A n \in Nodes : PlacedOn(n) = {}
  BY CapacityType DEF PlacedOn
<1>5. Placed
  <2>1. \A n \in Nodes : Cardinality(PlacedOn(n)) <= Capacity[n]
    <3> SUFFICES ASSUME NEW n \in Nodes PROVE Cardinality(PlacedOn(n)) <= Capacity[n]
      OBVIOUS
    <3>1. Cardinality(PlacedOn(n)) = 0
      BY <1>4, FS_EmptySet
    <3>2. Capacity[n] \in Nat
      BY CapacityType
    <3> QED
      BY <3>1, <3>2
  <2>2. \A z \in Zones : spot[z].at = None /\ ~spot[z].live
    OBVIOUS
  <2> QED
    BY <2>1, <2>2 DEF Placed
<1>6. GatewayInv
  BY DEF GatewayInv
<1>7. \A n \in Nodes : NodeInv(n)
  BY DEF NodeInv
<1> QED
  BY <1>2, <1>3, <1>5, <1>6, <1>7 DEF ClaimsInv, Undisturbed

LEMMA StepClaimTypes ==
  ASSUME ClaimTypes, [ClaimsNext]_claimsVars
  PROVE  ClaimTypes'
<1> USE DEF ClaimTypes, At
<1>a. ASSUME NEW n \in Nodes, NEW x \in NodeStates, node' = [node EXCEPT ![n] = x],
             x.step = "asked" => x.next <= 4
      PROVE  /\ node' \in [Nodes -> NodeStates]
             /\ \A k \in Nodes : node'[k].step = "asked" => node'[k].next <= 4
  BY <1>a
<1>b. ASSUME NEW n \in Nodes, NEW step \in {"pass", "asked", "ready"}, Go(n, step),
             step = "asked" => node[n].next <= 4
      PROVE  /\ node' \in [Nodes -> NodeStates]
             /\ \A k \in Nodes : node'[k].step = "asked" => node'[k].next <= 4
  <2>1. PICK x : x = [node[n] EXCEPT !.step = step]
    OBVIOUS
  <2>2. x \in NodeStates /\ x.step = step /\ x.next = node[n].next
    BY <2>1 DEF NodeStates
  <2>3. node' = [node EXCEPT ![n] = x]
    BY <1>b, <2>1 DEF Go
  <2> QED
    BY <1>a, <1>b, <2>2, <2>3
<1>c. ASSUME NEW n \in Nodes, node[n].next <= 4, GoOn(n)
      PROVE  /\ node' \in [Nodes -> NodeStates]
             /\ \A k \in Nodes : node'[k].step = "asked" => node'[k].next <= 4
  <2>1. PICK x : x = [node[n] EXCEPT !.next = @ + 1, !.step = "pass"]
    OBVIOUS
  <2>2. x \in NodeStates /\ x.step = "pass"
    <3>1. node[n] \in NodeStates
      OBVIOUS
    <3>2. node[n].next + 1 \in 1 .. 5
      BY <1>c, <3>1 DEF NodeStates
    <3> QED
      BY <2>1, <3>1, <3>2 DEF NodeStates
  <2>3. node' = [node EXCEPT ![n] = x]
    BY <1>c, <2>1 DEF GoOn
  <2> QED
    BY <1>a, <2>2, <2>3
<1>d. ASSUME NEW n \in Nodes, node[n].step = "pass", Throws(n)
      PROVE  /\ node' \in [Nodes -> NodeStates]
             /\ \A k \in Nodes : node'[k].step = "asked" => node'[k].next <= 4
  <2>1. PICK x : x = [node[n] EXCEPT !.next = 5]
    OBVIOUS
  <2>2. x \in NodeStates /\ x.step = "pass"
    BY <1>d, <2>1 DEF NodeStates
  <2>3. node' = [node EXCEPT ![n] = x]
    BY <1>d, <2>1, OrderOfZones DEF Throws
  <2> QED
    BY <1>a, <2>2, <2>3
<1>1. ASSUME NEW z \in Zones, Claimed(z)
      PROVE  spot' \in [Zones -> [at : Nodes \cup {None, Gone}, live : BOOLEAN]]
  BY <1>1 DEF Claimed
<1>2. ASSUME NEW z, Unavailable(z)
      PROVE  spot' = spot /\ failures' \in 0 .. MaxFailures
  BY <1>2, CapacityType DEF Unavailable
<1>3. ASSUME NEW n \in Nodes, Boot(n) PROVE ClaimTypes'
  BY <1>b, <1>3 DEF Boot
<1>4. ASSUME NEW n \in Nodes, Ask(n) PROVE ClaimTypes'
  <2>1. node[n].next \in 1 .. 4
    BY <1>4, OrderOfZones DEF Ask, Goes, NodeStates
  <2>2. PICK z \in Zones : z = ZoneOrder[node[n].next]
    BY <2>1, OrderOfZones
  <2>3. GoOn(n) \/ Go(n, "asked") \/ Throws(n)
    BY <1>4, <2>2 DEF Ask
  <2>4. /\ node' \in [Nodes -> NodeStates]
        /\ \A k \in Nodes : node'[k].step = "asked" => node'[k].next <= 4
    <3>1. CASE Throws(n)
      BY <1>4, <3>1, <1>d DEF Ask, Goes
    <3> QED
      BY <1>b, <1>c, <2>1, <2>3, <3>1
  <2>5. /\ spot' \in [Zones -> [at : Nodes \cup {None, Gone}, live : BOOLEAN]]
        /\ failures' \in 0 .. MaxFailures
    <3>1. CASE Throws(n)
      BY <3>1, CapacityType DEF Throws
    <3> QED
      BY <1>1, <1>2, <1>4, <2>2, <3>1 DEF Ask
  <2> QED
    BY <1>4, <2>4, <2>5 DEF Ask
<1>5. ASSUME NEW n \in Nodes, Answered(n) PROVE ClaimTypes'
  BY <1>c, <1>5 DEF Answered
<1>6. ASSUME NEW n \in Nodes, Retry(n) PROVE ClaimTypes'
  <2>1. node[n] \in NodeStates /\ zones[n] \in SUBSET Zones
    OBVIOUS
  <2>2. PICK x \in {[node[n] EXCEPT !.step = "settled"], [node[n] EXCEPT !.step = "failed"],
                    [node[n] EXCEPT !.next = 1, !.claimed = zones[n], !.attempt = @ + 1]} :
          node' = [node EXCEPT ![n] = x]
    BY <1>6 DEF Retry
  <2>3. x \in NodeStates /\ x.step \in {"settled", "failed", "pass"}
    <3>1. node[n].step = "pass" /\ node[n].attempt + 1 \in Nat
      BY <1>6, <2>1 DEF NodeStates, Retry
    <3>2. CASE x = [node[n] EXCEPT !.step = "settled"]
      BY <2>1, <3>2 DEF NodeStates
    <3>3. CASE x = [node[n] EXCEPT !.step = "failed"]
      BY <2>1, <3>3 DEF NodeStates
    <3>4. CASE x = [node[n] EXCEPT !.next = 1, !.claimed = zones[n], !.attempt = @ + 1]
      <4>1. x = [step |-> "pass", spare |-> node[n].spare, next |-> 1, claimed |-> zones[n],
                 attempt |-> node[n].attempt + 1]
        BY <2>1, <3>1, <3>4 DEF NodeStates
      <4> QED
        BY <2>1, <3>1, <4>1 DEF NodeStates
    <3> QED
      BY <2>2, <3>2, <3>3, <3>4
  <2>4. x.step # "asked"
    BY <2>3
  <2> QED
    BY <1>6, <1>a, <2>2, <2>3, <2>4 DEF Retry
<1>7. ASSUME NEW n \in Nodes, PrintReady(n) \/ Periodic(n) \/ Unregister(n) PROVE ClaimTypes'
  <2>1. known' \in [Nodes -> (SUBSET Zones) \cup {None}]
    BY <1>7 DEF PrintReady, Periodic, Reports, Unregister
  <2>2. CASE PrintReady(n)
    BY <1>b, <2>1, <2>2 DEF PrintReady
  <2>3. CASE Periodic(n) \/ Unregister(n)
    BY <2>1, <2>3 DEF Periodic, Unregister
  <2> QED
    BY <1>7, <2>2, <2>3
<1>8. ASSUME NEW n \in Nodes, Die(n) PROVE ClaimTypes'
  <2>1. PICK x : x = Down(TRUE)
    OBVIOUS
  <2>2. x \in NodeStates /\ x.step = "down"
    BY <2>1 DEF Down, NodeStates
  <2>3. node' = [node EXCEPT ![n] = x]
    BY <1>8, <2>1 DEF Die
  <2>4. /\ node' \in [Nodes -> NodeStates]
        /\ \A k \in Nodes : node'[k].step = "asked" => node'[k].next <= 4
    BY <1>a, <2>2, <2>3
  <2>5. zones' \in [Nodes -> SUBSET Zones]
    BY <1>8 DEF Die
  <2>6. spot' \in [Zones -> [at : Nodes \cup {None, Gone}, live : BOOLEAN]]
    BY <1>8 DEF Die
  <2>7. deaths' \in Nat /\ known' = known /\ gateway' = gateway /\ failures' = failures
    BY <1>8 DEF Die
  <2> QED
    BY <2>4, <2>5, <2>6, <2>7
<1>9. ASSUME NEW z \in Zones, Initialize(z) PROVE ClaimTypes'
  BY <1>9, ZenonT(60) DEF Initialize
<1>10. CASE Forget
  BY <1>10 DEF Forget
<1>11. CASE Bootstrap
  <2>1. PICK z \in Zones : z = ZoneOrder[gateway.next]
    BY OrderOfZones
  <2>2. gateway' \in [step : {"zones", "asked", "bots", "failed"}, next : 1 .. 4]
    BY <1>11, OrderOfZones DEF Bootstrap, NextZone
  <2>3. /\ spot' \in [Zones -> [at : Nodes \cup {None, Gone}, live : BOOLEAN]]
        /\ failures' \in 0 .. MaxFailures
    BY <1>1, <1>2, <1>11, <2>1 DEF Bootstrap
  <2> QED
    BY <1>11, <2>2, <2>3 DEF Bootstrap
<1>12. CASE Bootstrapped
  <2>2. gateway' \in [step : {"zones", "asked", "bots", "failed"}, next : 1 .. 4]
    BY <1>12, OrderOfZones DEF Bootstrapped, NextZone
  <2> QED
    BY <1>12, <2>2 DEF Bootstrapped
<1>13. CASE UNCHANGED claimsVars
  BY <1>13 DEF claimsVars
<1> QED
  BY <1>3, <1>4, <1>5, <1>6, <1>7, <1>8, <1>9, <1>10, <1>11, <1>12, <1>13 DEF ClaimsNext

LEMMA StepSpares ==
  ASSUME ClaimTypes, SparesGiveUp, [ClaimsNext]_claimsVars
  PROVE  SparesGiveUp'
<1> SUFFICES ASSUME NEW n \in Nodes, node'[n].step = "failed", node'[n].spare
             PROVE  zones'[n] # {}
  BY DEF SparesGiveUp, At
<1> USE DEF ClaimTypes, At
<1>1. node[n].step = "failed" /\ node[n].spare => zones[n] # {}
  BY DEF SparesGiveUp
<1>2. CASE node'[n] = node[n] /\ zones[n] \subseteq zones'[n]
  BY <1>1, <1>2
<1>3. ASSUME NEW k \in Nodes, Boot(k) \/ Ask(k) \/ Answered(k) \/ PrintReady(k)
      PROVE  zones'[n] # {}
  <2>1. zones' = zones /\ (node'[n] = node[n] \/ node'[n].step # "failed")
    BY <1>3 DEF Boot, Ask, Goes, Throws, Answered, PrintReady, Go, GoOn, NodeStates
  <2> QED
    BY <1>1, <2>1
<1>4. ASSUME NEW k \in Nodes, Retry(k) PROVE zones'[n] # {}
  <2>1. zones' = zones
    BY <1>4 DEF Retry
  <2>2. CASE k # n
    BY <1>1, <1>4, <2>1, <2>2 DEF Retry
  <2>3. CASE k = n
    <3>1. node[n] \in NodeStates /\ node[n].step = "pass"
      BY <1>4, <2>3 DEF Retry
    <3>2. /\ node'[n] # [node[n] EXCEPT !.step = "settled"]
          /\ node'[n] # [node[n] EXCEPT !.next = 1, !.claimed = zones[n], !.attempt = @ + 1]
      BY <3>1, ZenonT(60) DEF NodeStates
    <3>3. /\ node[n].attempt + 1 >= RetryAttempts
          /\ ~(node[n].spare /\ zones[n] = {} /\ node[n].attempt >= ReadyAttempts)
          /\ node'[n] = [node[n] EXCEPT !.step = "failed"]
      BY <1>4, <2>3, <3>1, <3>2 DEF Retry
    <3>4. node[n].attempt \in Nat /\ node[n].spare
      BY <3>1, <3>3 DEF NodeStates
    <3> QED
      BY <2>1, <3>3, <3>4, CapacityType
  <2> QED
    BY <2>2, <2>3
<1>5. ASSUME NEW k \in Nodes, Periodic(k) \/ Unregister(k) PROVE zones'[n] # {}
  BY <1>2, <1>5 DEF Periodic, Unregister
<1>6. ASSUME NEW k \in Nodes, Die(k) PROVE zones'[n] # {}
  <2>1. k # n
    BY <1>6 DEF Die, Down
  <2> QED
    BY <1>2, <1>6, <2>1 DEF Die
<1>7. ASSUME NEW z \in Zones, Initialize(z) PROVE zones'[n] # {}
  BY <1>2, <1>7 DEF Initialize
<1>8. CASE Forget \/ Bootstrap \/ Bootstrapped
  BY <1>2, <1>8 DEF Forget, Bootstrap, Bootstrapped
<1>9. CASE UNCHANGED claimsVars
  BY <1>2, <1>9 DEF claimsVars
<1> QED
  BY <1>3, <1>4, <1>5, <1>6, <1>7, <1>8, <1>9 DEF ClaimsNext

\* What a step does to the zones as long as no node dies.
LEMMA SpotStep ==
  ASSUME ClaimTypes, Placed, deaths' = 0, [ClaimsNext]_claimsVars
  PROVE  \/ spot' = spot /\ zones' = zones
         \/ zones' = zones /\ \E z \in Zones : Claimed(z)
         \/ \E z \in Zones : Initialize(z)
<1> USE DEF ClaimTypes
<1>1. ASSUME NEW n \in Nodes, Ask(n)
      PROVE  zones' = zones /\ (spot' = spot \/ \E z \in Zones : Claimed(z))
  <2>1. node[n].next \in 1 .. 4
    BY <1>1, OrderOfZones DEF Ask, Goes, NodeStates
  <2>2. PICK z \in Zones : z = ZoneOrder[node[n].next]
    BY <2>1, OrderOfZones
  <2> QED
    BY <1>1, <2>2 DEF Ask, Unavailable, Throws
<1>2. ASSUME NEW n \in Nodes, \/ Boot(n) \/ Answered(n) \/ Retry(n)
                              \/ PrintReady(n) \/ Periodic(n) \/ Unregister(n)
      PROVE  spot' = spot /\ zones' = zones
  BY <1>2 DEF Boot, Answered, Retry, PrintReady, Periodic, Unregister
<1>3. ASSUME NEW n \in Nodes, Die(n) PROVE FALSE
  BY <1>3 DEF Die
<1>4. CASE Forget
  BY <1>4, CapacityType DEF Forget, Placed
<1>5. CASE Bootstrap
  <2>1. PICK z \in Zones : z = ZoneOrder[gateway.next]
    BY OrderOfZones
  <2> QED
    BY <1>5, <2>1 DEF Bootstrap, Unavailable
<1>6. CASE Bootstrapped \/ UNCHANGED claimsVars
  BY <1>6 DEF Bootstrapped, claimsVars
<1> QED
  BY <1>1, <1>2, <1>3, <1>4, <1>5, <1>6 DEF ClaimsNext

Grows ==
  /\ \A z \in Zones : spot[z].at \in Nodes => spot'[z].at = spot[z].at
  /\ \A z \in Zones : spot[z].live => spot'[z].live
  /\ \A n \in Nodes : zones[n] \subseteq zones'[n]

LEMMA StepPlaced ==
  ASSUME ClaimTypes, Placed, deaths' = 0, [ClaimsNext]_claimsVars
  PROVE  Placed' /\ Grows
<1> USE DEF ClaimTypes, Grows
<1>1. CASE spot' = spot /\ zones' = zones
  BY <1>1 DEF Placed, PlacedOn
<1>2. ASSUME NEW z \in Zones, Claimed(z), zones' = zones PROVE Placed' /\ Grows
  <2>1. CASE spot' = spot
    BY <1>1, <1>2, <2>1
  <2>2. CASE spot[z].at = None /\ spot' # spot
    <3>1. PICK n \in Nodes : Room(n) /\ spot' = [spot EXCEPT ![z].at = n]
      BY <1>2, <2>2 DEF Claimed
    <3>2. ~spot[z].live
      BY <2>2, CapacityType DEF Placed
    <3>3. /\ \A w \in Zones : w # z => spot'[w] = spot[w]
          /\ spot'[z].at = n /\ ~spot'[z].live
      BY <3>1, <3>2
    <3>4. \A k \in Nodes : zones'[k] = {w \in Zones : spot'[w].at = k /\ spot'[w].live}
      BY <1>2, <2>2, <3>2, <3>3 DEF Placed
    <3>5. ASSUME NEW k \in Nodes PROVE Cardinality(PlacedOn(k)') <= Capacity[k]
      <4>1. PlacedOn(k)' = IF k = n THEN PlacedOn(k) \cup {z} ELSE PlacedOn(k)
        BY <2>2, <3>3, CapacityType DEF PlacedOn
      <4>2. Cardinality(PlacedOn(k)) <= Capacity[k] /\ Capacity[k] \in Nat
        BY CapacityType DEF Placed
      <4>3. IsFiniteSet(PlacedOn(k))
        BY ZonesFinite, FS_Subset DEF PlacedOn
      <4>4. CASE k # n
        BY <4>1, <4>2, <4>4
      <4>5. CASE k = n
        <5>1. Cardinality(PlacedOn(k)) < Capacity[k]
          BY <3>1, <4>5 DEF Room, PlacedOn
        <5>2. z \notin PlacedOn(k)
          BY <2>2, CapacityType DEF PlacedOn
        <5>3. Cardinality(PlacedOn(k) \cup {z}) = Cardinality(PlacedOn(k)) + 1
          BY <4>3, <5>2, FS_AddElement
        <5>4. Cardinality(PlacedOn(k)) \in Nat
          BY <4>3, FS_CardinalityType
        <5> QED
          BY <4>1, <4>2, <4>5, <5>1, <5>3, <5>4
      <4> QED
        BY <4>4, <4>5
    <3>6. Grows
      <4>1. spot[z].at \notin Nodes
        BY <2>2, CapacityType
      <4>2. \A w \in Zones : w = z \/ spot'[w] = spot[w]
        BY <3>3
      <4> QED
        BY <1>2, <3>2, <4>1, <4>2
    <3>7. \A w \in Zones :
            spot'[w].at \in Nodes \cup {None} /\ (spot'[w].live => spot'[w].at \in Nodes)
      BY <3>3 DEF Placed
    <3> QED
      BY <3>4, <3>5, <3>6, <3>7 DEF Placed
  <2> QED
    BY <1>2, <2>1, <2>2 DEF Claimed
<1>3. ASSUME NEW z \in Zones, Initialize(z) PROVE Placed' /\ Grows
  <2>1. PICK n \in Nodes : n = spot[z].at
    BY <1>3 DEF Initialize
  <2>2. /\ zones' = [zones EXCEPT ![n] = zones[n] \cup {z}]
        /\ spot' = [spot EXCEPT ![z].live = TRUE]
    BY <1>3, <2>1 DEF Initialize
  <2>3. /\ \A w \in Zones : w # z => spot'[w] = spot[w]
        /\ spot'[z].at = n /\ spot'[z].live
    BY <2>1, <2>2
  <2>4. \A k \in Nodes : PlacedOn(k)' = PlacedOn(k)
    BY <2>1, <2>3 DEF PlacedOn
  <2>5. ASSUME NEW k \in Nodes
        PROVE  zones'[k] = {w \in Zones : spot'[w].at = k /\ spot'[w].live}
    <3>1. zones'[k] = IF k = n THEN zones[k] \cup {z} ELSE zones[k]
      BY <2>2
    <3>2. zones[k] = {w \in Zones : spot[w].at = k /\ spot[w].live}
      BY DEF Placed
    <3> QED
      BY <2>1, <2>3, <3>1, <3>2
  <2>6. \A w \in Zones :
          spot'[w].at \in Nodes \cup {None} /\ (spot'[w].live => spot'[w].at \in Nodes)
    BY <2>3 DEF Placed
  <2>7. Grows
    BY <2>1, <2>2, <2>3
  <2>8. \A k \in Nodes : Cardinality(PlacedOn(k)') <= Capacity[k]
    BY <2>4 DEF Placed
  <2> QED
    BY <2>5, <2>6, <2>7, <2>8 DEF Placed
<1> QED
  BY <1>1, <1>2, <1>3, SpotStep

\* A node that is full stays so, with the same zones.
LEMMA PassedStays ==
  ASSUME ClaimTypes, Placed, Placed', Grows, NEW n \in Nodes, NEW z \in Zones, PassedBy(n, z)
  PROVE  PassedBy(n, z)'
<1>1. CASE spot[z].live
  BY <1>1 DEF PassedBy, Grows
<1>2. CASE Full(n) /\ spot[z].at # n
  <2>1. PlacedOn(n) \subseteq PlacedOn(n)'
    BY DEF PlacedOn, Grows
  <2>2. IsFiniteSet(PlacedOn(n)')
    BY ZonesFinite, FS_Subset DEF PlacedOn
  <2>3. /\ Cardinality(PlacedOn(n)) \in Nat /\ Cardinality(PlacedOn(n)') \in Nat
        /\ Cardinality(PlacedOn(n)) <= Cardinality(PlacedOn(n)')
        /\ Cardinality(PlacedOn(n)) = Cardinality(PlacedOn(n)') => PlacedOn(n) = PlacedOn(n)'
    BY <2>1, <2>2, FS_Subset, FS_CardinalityType
  <2>4. Cardinality(PlacedOn(n)) = Capacity[n] /\ Cardinality(PlacedOn(n)') <= Capacity[n]
    BY <1>2 DEF Full, Placed
  <2>5. PlacedOn(n) = PlacedOn(n)'
    BY <2>3, <2>4
  <2>6. Full(n)' /\ spot'[z].at # n
    BY <1>2, <2>4, <2>5 DEF Full, PlacedOn
  <2> QED
    BY <2>6 DEF PassedBy
<1> QED
  BY <1>1, <1>2 DEF PassedBy

\* A pass that left all zones behind found the node its zones.
LEMMA PassedIsFull ==
  ASSUME ClaimTypes, Placed, NEW n \in Nodes, \A z \in Zones : PassedBy(n, z)
  PROVE  Cardinality(zones[n]) = Capacity[n]
<1>1. CASE Full(n)
  <2>1. \A z \in Zones : spot[z].at = n => spot[z].live
    BY DEF PassedBy
  <2>2. zones[n] = PlacedOn(n)
    BY <2>1 DEF Placed, PlacedOn
  <2> QED
    BY <1>1, <2>2 DEF Full
<1>2. CASE ~Full(n)
  <2>1. \A z \in Zones : spot[z].at \in Nodes
    BY <1>2 DEF PassedBy, Placed
  <2>2. PICK f : f = [z \in Zones |-> spot[z].at]
    OBVIOUS
  <2>3. f \in [Zones -> Nodes]
    BY <2>1, <2>2
  <2>4. PICK share \in [Zones -> Nodes] :
          \A k \in Nodes : Capacity[k] = Cardinality(Given(share, k))
    BY SharesAssumption DEF Given
  <2>5. \A k : Given(f, k) = PlacedOn(k)
    BY <2>2 DEF PlacedOn, Given
  <2>6. \A k \in Nodes : Cardinality(Given(f, k)) <= Cardinality(Given(share, k))
    BY <2>4, <2>5 DEF Placed
  <2>7. Cardinality(Given(f, n)) = Cardinality(Given(share, n))
    BY <2>3, <2>6, AllPlaced
  <2> QED
    BY <1>2, <2>4, <2>5, <2>7 DEF Full
<1> QED
  BY <1>1, <1>2

\* A node with its share gets no further zone.
LEMMA SharesStay ==
  ASSUME ClaimTypes, Placed', Grows, NEW n \in Nodes, Cardinality(zones[n]) = Capacity[n]
  PROVE  zones'[n] = zones[n]
<1>1. zones[n] \subseteq zones'[n] /\ zones'[n] \subseteq PlacedOn(n)'
  BY DEF Grows, Placed, PlacedOn
<1>2. IsFiniteSet(PlacedOn(n)')
  BY ZonesFinite, FS_Subset DEF PlacedOn
<1>3. IsFiniteSet(zones'[n])
  BY <1>1, <1>2, FS_Subset
<1>4. /\ Cardinality(zones'[n]) <= Cardinality(PlacedOn(n)')
      /\ Cardinality(zones'[n]) \in Nat /\ Cardinality(PlacedOn(n)') \in Nat
  BY <1>1, <1>2, <1>3, FS_Subset, FS_CardinalityType
<1>5. /\ Cardinality(zones[n]) <= Cardinality(zones'[n]) /\ Cardinality(zones[n]) \in Nat
      /\ Cardinality(zones[n]) = Cardinality(zones'[n]) => zones[n] = zones'[n]
  BY <1>1, <1>3, FS_Subset, FS_CardinalityType
<1>6. Cardinality(PlacedOn(n)') <= Capacity[n]
  BY DEF Placed
<1> QED
  BY <1>4, <1>5, <1>6

\* What others do leaves the invariant of a node as it is.
LEMMA NodeStays ==
  ASSUME ClaimTypes, Placed, Placed', Grows, NEW n \in Nodes, NodeInv(n),
         node'[n] = node[n], known'[n] = known[n], failures' \in Nat, failures <= failures'
  PROVE  NodeInv(n)'
<1>1. node[n] \in NodeStates /\ node[n].next \in 1 .. 5 /\ node[n].attempt \in Nat
  BY DEF ClaimTypes, NodeStates
<1>2. At(n, "asked") => spot'[ZoneOrder[node[n].next]].at \in Nodes
  <2> SUFFICES ASSUME At(n, "asked") PROVE spot'[ZoneOrder[node[n].next]].at \in Nodes
    OBVIOUS
  <2>1. node[n].next \in 1 .. 4
    BY <1>1 DEF ClaimTypes
  <2>2. PICK z \in Zones : z = ZoneOrder[node[n].next]
    BY <2>1, OrderOfZones
  <2> QED
    BY <2>2 DEF NodeInv, Grows
<1>3. Passing(n) => Passing(n)'
  <2> SUFFICES ASSUME Passing(n) PROVE Passing(n)'
    OBVIOUS
  <2>1. zones[n] \subseteq zones'[n]
    BY DEF Grows
  <2>2. node[n].claimed \subseteq Zones
    BY <1>1 DEF NodeStates
  <2>3. Cardinality(node[n].claimed) \in Nat
    BY <2>2, ZonesFinite, FS_Subset, FS_CardinalityType
  <2>4. failures \in Nat
    BY CapacityType DEF ClaimTypes
  <2>5. \A j \in 1 .. 4 : PassedBy(n, ZoneOrder[j]) => PassedBy(n, ZoneOrder[j])'
    <3> SUFFICES ASSUME NEW j \in 1 .. 4, PassedBy(n, ZoneOrder[j])
                 PROVE  PassedBy(n, ZoneOrder[j])'
      OBVIOUS
    <3>1. PICK z \in Zones : z = ZoneOrder[j]
      BY OrderOfZones
    <3>2. PassedBy(n, z)'
      BY <3>1, PassedStays
    <3> QED
      BY <3>1, <3>2 DEF PassedBy
  <2> QED
    BY <1>1, <2>1, <2>3, <2>4, <2>5 DEF Passing
<1>4. Cardinality(zones[n]) = Capacity[n] => zones'[n] = zones[n]
  BY SharesStay
<1>5. known[n] # None => known[n] \subseteq zones'[n]
  BY DEF NodeInv, Grows
<1> QED
  BY <1>2, <1>3, <1>4, <1>5 DEF NodeInv, At

\* A pass goes on to the next zone, which it left behind or met a failure for.
LEMMA PassGoesOn ==
  ASSUME ClaimTypes, Placed, Placed', Grows, NEW n \in Nodes, NodeInv(n), Passing(n),
         node[n].next \in 1 .. 4, NEW z \in Zones, z = ZoneOrder[node[n].next],
         GoOn(n), known' = known, failures' \in Nat,
         \/ failures + 1 <= failures'
         \/ failures <= failures' /\ PassedBy(n, z)'
  PROVE  NodeInv(n)'
<1>1. node[n] \in NodeStates /\ node[n].attempt \in Nat /\ node[n].claimed \subseteq Zones
  BY DEF ClaimTypes, NodeStates
<1>2. PICK x : x = [node[n] EXCEPT !.next = node[n].next + 1, !.step = "pass"]
  OBVIOUS
<1>3. node'[n] = x
  BY <1>2 DEF GoOn, ClaimTypes
<1>4. /\ x.step = "pass" /\ x.next = node[n].next + 1 /\ x.spare = node[n].spare
      /\ x.claimed = node[n].claimed /\ x.attempt = node[n].attempt
  BY <1>1, <1>2 DEF NodeStates
<1>5. Cardinality(node[n].claimed) \in Nat /\ failures \in Nat
  BY <1>1, ZonesFinite, FS_Subset, FS_CardinalityType, CapacityType DEF ClaimTypes
<1>6. node[n].claimed \subseteq zones'[n]
  BY DEF Passing, Grows
<1>7. ASSUME node[n].attempt + 1 <= failures' + Cardinality(node[n].claimed)
      PROVE  Passing(n)'
  <2>1. x.attempt + 1 <= failures' + Cardinality(x.claimed)
    BY <1>4, <1>7
  <2> QED
    BY <1>3, <1>4, <1>6, <2>1 DEF Passing
<1>8. ASSUME failures <= failures', PassedBy(n, z)',
             node[n].attempt <= failures + Cardinality(node[n].claimed),
             \A j \in 1 .. 4 : j < node[n].next => PassedBy(n, ZoneOrder[j])
      PROVE  Passing(n)'
  <2>1. ASSUME NEW j \in 1 .. 4, j < x.next PROVE PassedBy(n, ZoneOrder[j])'
    <3>1. j = node[n].next \/ j < node[n].next
      BY <1>4, <2>1
    <3>2. PICK w \in Zones : w = ZoneOrder[j]
      BY OrderOfZones
    <3>3. PassedBy(n, w)'
      BY <1>8, <3>1, <3>2, PassedStays
    <3> QED
      BY <3>2, <3>3 DEF PassedBy
  <2>2. x.attempt <= failures' + Cardinality(x.claimed)
    BY <1>1, <1>4, <1>5, <1>8
  <2> QED
    BY <1>3, <1>4, <1>6, <2>1, <2>2 DEF Passing
<1>9. Passing(n)'
  BY <1>1, <1>5, <1>7, <1>8 DEF Passing
<1>10. known[n] # None => known[n] \subseteq zones'[n]
  BY DEF NodeInv, Grows
<1> QED
  BY <1>3, <1>4, <1>9, <1>10 DEF NodeInv, At

\* A pass that an error ends has met a failure.
LEMMA PassEnds ==
  ASSUME ClaimTypes, Placed, Placed', Grows, NEW n \in Nodes, NodeInv(n), Passing(n),
         node[n].step = "pass", Throws(n), known' = known
  PROVE  NodeInv(n)'
<1>1. /\ node[n] \in NodeStates /\ node[n].attempt \in Nat /\ node[n].claimed \subseteq Zones
      /\ failures \in Nat /\ failures' = failures + 1
  BY CapacityType DEF ClaimTypes, NodeStates, Throws
<1>2. PICK x : x = [node[n] EXCEPT !.next = 5]
  OBVIOUS
<1>3. node'[n] = x
  BY <1>2, OrderOfZones DEF Throws, ClaimTypes
<1>4. /\ x.step = "pass" /\ x.spare = node[n].spare
      /\ x.claimed = node[n].claimed /\ x.attempt = node[n].attempt
  BY <1>1, <1>2 DEF NodeStates
<1>5. Cardinality(node[n].claimed) \in Nat
  BY <1>1, ZonesFinite, FS_Subset, FS_CardinalityType
<1>6. node[n].claimed \subseteq zones'[n]
  BY DEF Passing, Grows
<1>7. x.attempt + 1 <= failures' + Cardinality(x.claimed)
  BY <1>1, <1>4, <1>5 DEF Passing
<1>8. Passing(n)'
  BY <1>3, <1>4, <1>6, <1>7 DEF Passing
<1>9. known[n] # None => known[n] \subseteq zones'[n]
  BY DEF NodeInv, Grows
<1> QED
  BY <1>3, <1>4, <1>8, <1>9 DEF NodeInv, At

LEMMA StepAsk ==
  ASSUME ClaimTypes, ClaimTypes', Placed, Placed', Grows, NEW n \in Nodes, NodeInv(n), Ask(n)
  PROVE  NodeInv(n)'
<1>1. /\ node[n] \in NodeStates /\ node[n].step = "pass" /\ node[n].next \in 1 .. 4
      /\ failures \in Nat /\ failures' \in Nat /\ known' = known /\ zones' = zones
      /\ node \in [Nodes -> NodeStates]
  BY CapacityType, OrderOfZones DEF Ask, Goes, At, ClaimTypes, NodeStates
<1>2. PICK z \in Zones : z = ZoneOrder[node[n].next]
  BY <1>1, OrderOfZones
<1>3. Passing(n)
  BY <1>1 DEF NodeInv, At
<1>4. \/ Claimed(z) /\ (IF spot[z].live THEN GoOn(n) ELSE Go(n, "asked")) /\ failures' = failures
      \/ Unavailable(z) /\ GoOn(n)
      \/ Throws(n)
  BY <1>2 DEF Ask
<1>5. CASE Claimed(z) /\ spot[z].live /\ GoOn(n) /\ failures' = failures
  <2>1. spot'[z].live
    BY <1>5 DEF Grows
  <2>2. PassedBy(n, z)'
    BY <2>1 DEF PassedBy
  <2> QED
    BY <1>1, <1>2, <1>3, <1>5, <2>2, PassGoesOn
<1>6. CASE Claimed(z) /\ Go(n, "asked") /\ failures' = failures
  <2>1. PICK x : x = [node[n] EXCEPT !.step = "asked"]
    OBVIOUS
  <2>2. /\ node'[n] = x /\ x.step = "asked" /\ x.next = node[n].next /\ x.spare = node[n].spare
        /\ x.claimed = node[n].claimed /\ x.attempt = node[n].attempt
    BY <1>1, <1>6, <2>1 DEF Go, NodeStates
  <2>3. spot'[z].at \in Nodes
    BY <1>6 DEF Claimed, ClaimTypes
  <2>4. \A j \in 1 .. 4 : PassedBy(n, ZoneOrder[j]) => PassedBy(n, ZoneOrder[j])'
    <3> SUFFICES ASSUME NEW j \in 1 .. 4, PassedBy(n, ZoneOrder[j])
                 PROVE  PassedBy(n, ZoneOrder[j])'
      OBVIOUS
    <3>1. PICK w \in Zones : w = ZoneOrder[j]
      BY OrderOfZones
    <3>2. PassedBy(n, w)'
      BY <3>1, PassedStays
    <3> QED
      BY <3>1, <3>2 DEF PassedBy
  <2>5. Passing(n)'
    BY <1>1, <1>3, <1>6, <2>2, <2>4 DEF Passing
  <2> QED
    BY <1>1, <1>2, <2>2, <2>3, <2>5 DEF NodeInv, At
<1>7. CASE Unavailable(z) /\ GoOn(n) /\ failures' = failures + 1
  BY <1>1, <1>2, <1>3, <1>7, PassGoesOn
<1>8. CASE /\ Unavailable(z) /\ GoOn(n) /\ failures' = failures
           /\ spot[z].at = None /\ \A k \in Nodes : ~Room(k)
  <2>1. Up(n) /\ ~Room(n)
    BY <1>1, <1>8 DEF Up
  <2>2. ~(Cardinality(PlacedOn(n)) < Capacity[n])
    BY <2>1 DEF Room, PlacedOn
  <2>3. Cardinality(PlacedOn(n)) \in Nat
    BY ZonesFinite, FS_Subset, FS_CardinalityType DEF PlacedOn
  <2>4. Full(n)
    BY <2>2, <2>3, CapacityType DEF Full, Placed
  <2>5. PassedBy(n, z)
    BY <1>8, <2>4, CapacityType DEF PassedBy
  <2>6. PassedBy(n, z)'
    BY <2>5, PassedStays
  <2> QED
    BY <1>1, <1>2, <1>3, <1>8, <2>6, PassGoesOn
<1>9. spot[z].at # Gone
  BY CapacityType DEF Placed
<1>10. CASE Throws(n)
  BY <1>1, <1>3, <1>10, PassEnds
<1> QED
  BY <1>4, <1>5, <1>6, <1>7, <1>8, <1>9, <1>10 DEF Unavailable

LEMMA StepAnswered ==
  ASSUME ClaimTypes, Placed, Placed', Grows, NEW n \in Nodes, NodeInv(n), Answered(n)
  PROVE  NodeInv(n)'
<1>1. /\ node[n] \in NodeStates /\ node[n].step = "asked" /\ node[n].next \in 1 .. 4
      /\ failures \in Nat /\ failures' = failures /\ known' = known /\ GoOn(n)
  BY CapacityType DEF Answered, At, ClaimTypes, NodeStates
<1>2. PICK z \in Zones : z = ZoneOrder[node[n].next]
  BY <1>1, OrderOfZones
<1>3. Passing(n) /\ spot[z].at \in Nodes
  BY <1>1, <1>2 DEF NodeInv, At
<1>4. spot[z].live
  BY <1>2, <1>3 DEF Answered
<1>5. PassedBy(n, z)'
  BY <1>4 DEF PassedBy, Grows
<1> QED
  BY <1>1, <1>2, <1>3, <1>5, PassGoesOn

\* A round ends with the node's share, or with one attempt more for a failure or a new zone.
LEMMA StepRetry ==
  ASSUME ClaimTypes, Placed, NEW n \in Nodes, NodeInv(n), Retry(n)
  PROVE  NodeInv(n)'
<1>1. /\ node[n] \in NodeStates /\ node[n].step = "pass" /\ ~node[n].spare /\ ~Goes(n)
      /\ zones' = zones /\ spot' = spot /\ known' = known /\ failures' = failures
      /\ node \in [Nodes -> NodeStates] /\ zones[n] \subseteq Zones
  BY DEF Retry, At, NodeInv, ClaimTypes
<1>2. PICK c, a : c = node[n].claimed /\ a = node[n].attempt
  OBVIOUS
<1>3. /\ c \subseteq zones[n] /\ a \in Nat
      /\ a = 0 \/ Cardinality(c) < Capacity[n]
      /\ \/ a + 1 <= failures + Cardinality(c)
         \/ /\ a <= failures + Cardinality(c)
            /\ \A j \in 1 .. 4 : j < node[n].next => PassedBy(n, ZoneOrder[j])
  BY <1>1, <1>2 DEF NodeInv, At, Passing, NodeStates
<1>4. zones[n] \subseteq PlacedOn(n) /\ IsFiniteSet(PlacedOn(n)) /\ IsFiniteSet(zones[n])
  BY <1>1, ZonesFinite, FS_Subset DEF Placed, PlacedOn
<1>5. /\ Cardinality(zones[n]) <= Cardinality(PlacedOn(n))
      /\ Cardinality(PlacedOn(n)) \in Nat /\ Cardinality(zones[n]) \in Nat
  BY <1>4, FS_Subset, FS_CardinalityType
<1>6. /\ IsFiniteSet(c) /\ Cardinality(c) \in Nat /\ Cardinality(c) <= Cardinality(zones[n])
      /\ Cardinality(c) = Cardinality(zones[n]) => c = zones[n]
  BY <1>3, <1>4, FS_Subset, FS_CardinalityType
<1>7. Cardinality(zones[n]) <= Capacity[n] /\ Capacity[n] \in Nat
  BY <1>5, CapacityType DEF Placed
<1>8. failures \in Nat /\ failures <= MaxFailures /\ MaxFailures \in Nat
  BY CapacityType DEF ClaimTypes
<1>9. \/ Cardinality(zones[n]) = Capacity[n] /\ c = zones[n]
      \/ a + 1 <= failures + Cardinality(zones[n])
  <2>1. CASE a + 1 <= failures + Cardinality(c)
    BY <2>1, <1>3, <1>5, <1>6, <1>8
  <2>2. CASE c # zones[n] /\ a <= failures + Cardinality(c)
    BY <2>2, <1>3, <1>5, <1>6, <1>8
  <2>3. CASE /\ c = zones[n]
             /\ \A j \in 1 .. 4 : j < node[n].next => PassedBy(n, ZoneOrder[j])
    <3>1. node[n].next = 5
      BY <1>1, <1>2, <2>3, OrderOfZones DEF Goes, At, NodeStates
    <3>2. \A j \in 1 .. 4 : PassedBy(n, ZoneOrder[j])
      BY <2>3, <3>1
    <3>3. \A z \in Zones : PassedBy(n, z)
      BY <3>2, OrderOfZones
    <3> QED
      BY <2>3, <3>3, PassedIsFull
  <2> QED
    BY <1>3, <2>1, <2>2, <2>3
<1>10. ~(a + 1 >= RetryAttempts)
  <2>1. CASE Cardinality(zones[n]) = Capacity[n] /\ c = zones[n]
    BY <2>1, <1>3, <1>7, CapacityType
  <2>2. CASE a + 1 <= failures + Cardinality(zones[n])
    BY <2>2, <1>3, <1>5, <1>7, <1>8, CapacityType
  <2> QED
    BY <1>9, <2>1, <2>2
<1>11. CASE Cardinality(zones[n]) = Capacity[n]
  <2>1. PICK x : x = [node[n] EXCEPT !.step = "settled"]
    OBVIOUS
  <2>2. x.step = "settled" /\ x.spare = node[n].spare
    BY <1>1, <2>1 DEF NodeStates
  <2>3. node'[n] = x
    BY <1>1, <1>2, <1>10, <1>11, <2>1 DEF Retry
  <2> QED
    BY <1>1, <1>11, <2>2, <2>3 DEF NodeInv, At
<1>12. CASE Cardinality(zones[n]) # Capacity[n]
  <2>1. PICK x : x = [node[n] EXCEPT !.next = 1, !.claimed = zones[n], !.attempt = a + 1]
    OBVIOUS
  <2>2. /\ x.step = "pass" /\ x.spare = node[n].spare /\ x.next = 1 /\ x.claimed = zones[n]
        /\ x.attempt = a + 1
    BY <1>1, <2>1 DEF NodeStates
  <2>3. node'[n] = x
    BY <1>1, <1>2, <1>10, <1>12, <2>1 DEF Retry
  <2>4. a + 1 <= failures + Cardinality(zones[n]) /\ Cardinality(zones[n]) < Capacity[n]
    BY <1>5, <1>7, <1>9, <1>12
  <2>5. \A j \in 1 .. 4 : ~(j < 1)
    OBVIOUS
  <2>6. Passing(n)'
    BY <1>1, <2>2, <2>3, <2>4, <2>5 DEF Passing
  <2> QED
    BY <1>1, <2>2, <2>3, <2>6 DEF NodeInv, At
<1> QED
  BY <1>11, <1>12

LEMMA StepNodes ==
  ASSUME ClaimTypes, ClaimTypes', Placed, Placed', Grows, deaths' = 0,
         [ClaimsNext]_claimsVars, NEW n \in Nodes, NodeInv(n)
  PROVE  NodeInv(n)'
<1> USE DEF At
<1>1. failures \in Nat /\ failures' \in Nat /\ node \in [Nodes -> NodeStates]
  BY CapacityType DEF ClaimTypes
<1>2. CASE node'[n] = node[n] /\ known'[n] = known[n] /\ failures <= failures'
  BY <1>1, <1>2, NodeStays
<1>3. ASSUME NEW k \in Nodes, Boot(k) PROVE NodeInv(n)'
  <2>1. failures' = failures /\ known' = known /\ zones' = zones /\ spot' = spot
    BY <1>3 DEF Boot
  <2>2. CASE k # n
    BY <1>1, <1>2, <1>3, <2>1, <2>2 DEF Boot, Go
  <2>3. CASE k = n
    <3>1. PICK x : x = [node[n] EXCEPT !.step = "pass"]
      OBVIOUS
    <3>2. /\ node[n] \in NodeStates /\ node[n].step = "down" /\ node[n].next = 1
          /\ node[n].claimed = {} /\ node[n].attempt = 0
      BY <1>1, <1>3, <2>3 DEF Boot, NodeInv
    <3>3. /\ node'[n] = x /\ x.step = "pass" /\ x.next = 1 /\ x.claimed = {}
          /\ x.attempt = 0 /\ x.spare = node[n].spare
      BY <1>1, <1>3, <2>3, <3>1, <3>2 DEF Boot, Go, NodeStates
    <3>4. Cardinality({}) = 0 /\ \A j \in 1 .. 4 : ~(j < 1)
      BY FS_EmptySet
    <3>5. Passing(n)'
      BY <1>1, <2>1, <3>3, <3>4 DEF Passing
    <3> QED
      BY <2>1, <3>3, <3>5 DEF NodeInv
  <2> QED
    BY <2>2, <2>3
<1>4. ASSUME NEW k \in Nodes, Ask(k) PROVE NodeInv(n)'
  <2>1. known' = known /\ failures <= failures'
    BY <1>1, <1>4 DEF Ask, Unavailable, Throws
  <2>2. CASE k # n
    BY <1>1, <1>2, <1>4, <2>1, <2>2 DEF Ask, Go, GoOn, Throws
  <2> QED
    BY <1>4, <2>2, StepAsk
<1>5. ASSUME NEW k \in Nodes, Answered(k) PROVE NodeInv(n)'
  <2>1. CASE k # n
    BY <1>1, <1>2, <1>5, <2>1 DEF Answered, GoOn
  <2> QED
    BY <1>5, <2>1, StepAnswered
<1>6. ASSUME NEW k \in Nodes, Retry(k) PROVE NodeInv(n)'
  <2>1. CASE k # n
    BY <1>1, <1>2, <1>6, <2>1 DEF Retry
  <2> QED
    BY <1>6, <2>1, StepRetry
<1>7. ASSUME NEW k \in Nodes, PrintReady(k) PROVE NodeInv(n)'
  <2>1. /\ failures' = failures /\ zones' = zones /\ spot' = spot
        /\ known' = [known EXCEPT ![k] = zones[k]]
    BY <1>7 DEF PrintReady, Reports
  <2>2. CASE k # n
    <3>1. node'[n] = node[n] /\ known'[n] = known[n]
      BY <1>1, <1>7, <2>1, <2>2 DEF PrintReady, Go, ClaimTypes
    <3> QED
      BY <1>1, <1>2, <2>1, <3>1
  <2>3. CASE k = n
    <3>1. PICK x : x = [node[n] EXCEPT !.step = "ready"]
      OBVIOUS
    <3>2. node'[n] = x /\ x.step = "ready" /\ x.spare = node[n].spare
      BY <1>1, <1>7, <2>3, <3>1 DEF PrintReady, Go, NodeStates
    <3>3. known'[n] = zones[n] /\ Cardinality(zones[n]) = Capacity[n]
      BY <1>7, <2>1, <2>3 DEF PrintReady, NodeInv, ClaimTypes
    <3> QED
      BY <2>1, <3>2, <3>3 DEF NodeInv
  <2> QED
    BY <2>2, <2>3
<1>8. ASSUME NEW k \in Nodes, Periodic(k) PROVE NodeInv(n)'
  <2>1. /\ failures' = failures /\ node' = node /\ zones' = zones /\ spot' = spot
        /\ known' = [known EXCEPT ![k] = zones[k]]
    BY <1>8 DEF Periodic, Reports
  <2>2. CASE k # n
    BY <1>1, <1>2, <2>1, <2>2 DEF ClaimTypes
  <2>3. CASE k = n
    <3>1. known'[n] = zones[n]
      BY <2>1, <2>3 DEF ClaimTypes
    <3> QED
      BY <2>1, <3>1 DEF NodeInv, Passing, PassedBy, Full, PlacedOn
  <2> QED
    BY <2>2, <2>3
<1>9. ASSUME NEW k \in Nodes, Unregister(k) PROVE NodeInv(n)'
  <2>1. /\ failures' = failures /\ node' = node /\ zones' = zones /\ spot' = spot
        /\ known' = [known EXCEPT ![k] = None] /\ node[k].step = "down"
    BY <1>9 DEF Unregister, Up
  <2>2. CASE k # n
    BY <1>1, <1>2, <2>1, <2>2 DEF ClaimTypes
  <2>3. CASE k = n
    <3>1. known'[n] = None
      BY <2>1, <2>3 DEF ClaimTypes
    <3> QED
      BY <2>1, <2>3, <3>1 DEF NodeInv
  <2> QED
    BY <2>2, <2>3
<1>10. ASSUME NEW k \in Nodes, Die(k) PROVE FALSE
  BY <1>10 DEF Die, ClaimTypes
<1>11. ASSUME NEW z \in Zones, Initialize(z) PROVE NodeInv(n)'
  BY <1>1, <1>2, <1>11 DEF Initialize
<1>12. CASE Forget \/ Bootstrap \/ Bootstrapped
  BY <1>1, <1>2, <1>12 DEF Forget, Bootstrap, Bootstrapped, Unavailable
<1>13. CASE UNCHANGED claimsVars
  BY <1>1, <1>2, <1>13 DEF claimsVars
<1> QED
  BY <1>3, <1>4, <1>5, <1>6, <1>7, <1>8, <1>9, <1>10, <1>11, <1>12, <1>13 DEF ClaimsNext

LEMMA StepGateway ==
  ASSUME ClaimTypes, Placed, Grows, GatewayInv, deaths' = 0, [ClaimsNext]_claimsVars
  PROVE  GatewayInv'
<1>1. gateway \in [step : {"zones", "asked", "bots", "failed"}, next : 1 .. 4]
  BY DEF ClaimTypes
<1>2. CASE gateway' = gateway
  <2>1. \A j \in 1 .. 4 : /\ spot[ZoneOrder[j]].live => spot'[ZoneOrder[j]].live
                          /\ spot[ZoneOrder[j]].at \in Nodes => spot'[ZoneOrder[j]].at \in Nodes
    BY OrderOfZones DEF Grows
  <2>2. spot[ZoneOrder[gateway.next]].at \in Nodes => spot'[ZoneOrder[gateway.next]].at \in Nodes
    BY <1>1, <2>1
  <2> QED
    BY <1>2, <2>1, <2>2 DEF GatewayInv, Grows
<1>3. ASSUME gateway.step \in {"zones", "asked"}, NextZone,
             spot[ZoneOrder[gateway.next]].live
      PROVE  GatewayInv'
  <2>1. \A j \in 1 .. 4 : j <= gateway.next => spot'[ZoneOrder[j]].live
    <3> SUFFICES ASSUME NEW j \in 1 .. 4, j <= gateway.next PROVE spot'[ZoneOrder[j]].live
      OBVIOUS
    <3>1. j < gateway.next \/ j = gateway.next
      BY <1>1
    <3>2. spot[ZoneOrder[j]].live
      BY <1>3, <3>1 DEF GatewayInv
    <3> QED
      BY <3>2, OrderOfZones DEF Grows
  <2>2. CASE gateway.next = 4
    <3>1. gateway'.step = "bots"
      BY <1>1, <1>3, <2>2, OrderOfZones DEF NextZone
    <3>2. \A j \in 1 .. 4 : spot'[ZoneOrder[j]].live
      BY <2>1, <2>2
    <3>3. \A z \in Zones : spot'[z].live
      BY <3>2, OrderOfZones
    <3> QED
      BY <3>1, <3>3 DEF GatewayInv
  <2>3. CASE gateway.next # 4
    <3>1. gateway'.step = "zones" /\ gateway'.next = gateway.next + 1
      BY <1>1, <1>3, <2>3, OrderOfZones DEF NextZone
    <3>2. \A j \in 1 .. 4 : j < gateway'.next => spot'[ZoneOrder[j]].live
      BY <1>1, <2>1, <3>1
    <3> QED
      BY <3>1, <3>2 DEF GatewayInv
  <2> QED
    BY <2>2, <2>3
<1>4. CASE gateway' = [gateway EXCEPT !.step = "failed"]
  <2>1. gateway'.step = "failed"
    BY <1>1, <1>4
  <2> QED
    BY <2>1 DEF GatewayInv
<1>5. CASE Bootstrap
  <2>1. PICK z \in Zones : z = ZoneOrder[gateway.next]
    BY <1>1, OrderOfZones
  <2>2. CASE Claimed(z) /\ ~spot[z].live /\ gateway' = [gateway EXCEPT !.step = "asked"]
    <3>1. spot'[z].at \in Nodes
      BY <2>2 DEF Claimed, ClaimTypes
    <3>2. gateway'.step = "asked" /\ gateway'.next = gateway.next
      BY <1>1, <2>2
    <3>3. \A j \in 1 .. 4 : j < gateway.next => spot'[ZoneOrder[j]].live
      BY <1>5, OrderOfZones DEF GatewayInv, Grows, Bootstrap
    <3> QED
      BY <2>1, <3>1, <3>2, <3>3 DEF GatewayInv
  <2> QED
    BY <1>3, <1>4, <1>5, <2>1, <2>2 DEF Bootstrap
<1>6. CASE Bootstrapped
  BY <1>3, <1>4, <1>6 DEF Bootstrapped
<1>7. CASE \E n \in Nodes : \/ Boot(n) \/ Ask(n) \/ Answered(n) \/ Retry(n)
                            \/ PrintReady(n) \/ Periodic(n) \/ Die(n) \/ Unregister(n)
  BY <1>2, <1>7 DEF Boot, Ask, Answered, Retry, PrintReady, Periodic, Die, Unregister
<1>8. CASE \/ \E z \in Zones : Initialize(z)
           \/ Forget \/ UNCHANGED claimsVars
  BY <1>2, <1>8 DEF Initialize, Forget, claimsVars
<1> QED
  BY <1>5, <1>6, <1>7, <1>8 DEF ClaimsNext

LEMMA StepClaims ==
  ASSUME ClaimsInv, [ClaimsNext]_claimsVars
  PROVE  ClaimsInv'
<1>1. ClaimTypes /\ ClaimTypes' /\ SparesGiveUp'
  BY StepClaimTypes, StepSpares DEF ClaimsInv
<1>2. ASSUME deaths' = 0 PROVE Undisturbed'
  <2>1. deaths = 0
    <3>1. deaths \in Nat /\ (deaths' = deaths \/ deaths' = deaths + 1)
      BY <1>1 DEF ClaimTypes, ClaimsNext, Boot, Ask, Answered, Retry, PrintReady, Periodic, Die,
                  Unregister, Initialize, Forget, Bootstrap, Bootstrapped, claimsVars
    <3> QED
      BY <1>2, <3>1
  <2>2. Placed /\ GatewayInv /\ \A n \in Nodes : NodeInv(n)
    BY <2>1 DEF ClaimsInv, Undisturbed
  <2>3. Placed' /\ Grows
    BY <1>1, <1>2, <2>2, StepPlaced
  <2>4. GatewayInv'
    BY <1>1, <1>2, <2>2, <2>3, StepGateway
  <2>5. \A n \in Nodes : NodeInv(n)'
    BY <1>1, <1>2, <2>2, <2>3, StepNodes
  <2> QED
    BY <2>3, <2>4, <2>5 DEF Undisturbed
<1> QED
  BY <1>1, <1>2 DEF ClaimsInv

\* Where all nodes are ready, they list all zones, and not one node all of them: going
\* around the world one comes from a zone of one to a zone of another.
LEMMA PairIsThere ==
  ASSUME ClaimTypes, Undisturbed, \A n \in Nodes : At(n, "ready")
  PROVE  \E n, m \in Nodes, z, w \in Zones : RelocationPair(n, z, m, w)
<1>1. PICK share \in [Zones -> Nodes] :
        /\ \A n \in Nodes : Capacity[n] = Cardinality(Given(share, n))
        /\ \E z, w \in Zones : share[z] # share[w]
  BY SharesAssumption DEF Given
<1>2. PICK g : g = [z \in Zones |-> spot[z].at]
  OBVIOUS
<1>3. \A n : Given(g, n) = PlacedOn(n)
  BY <1>2 DEF Given, PlacedOn
<1>4. ASSUME NEW n \in Nodes
      PROVE  /\ Cardinality(zones[n]) = Capacity[n] /\ known[n] = zones[n]
             /\ zones[n] \subseteq PlacedOn(n)
             /\ Cardinality(PlacedOn(n)) = Capacity[n]
  <2>1. NodeInv(n) /\ At(n, "ready") /\ Placed
    BY DEF Undisturbed
  <2>2. Cardinality(zones[n]) = Capacity[n] /\ known[n] = zones[n]
    BY <2>1 DEF NodeInv
  <2>3. zones[n] \subseteq PlacedOn(n) /\ IsFiniteSet(PlacedOn(n))
    BY <2>1, ZonesFinite, FS_Subset DEF Placed, PlacedOn
  <2>4. /\ Cardinality(zones[n]) <= Cardinality(PlacedOn(n))
        /\ Cardinality(PlacedOn(n)) \in Nat /\ Cardinality(zones[n]) \in Nat
    BY <2>3, FS_Subset, FS_CardinalityType
  <2>5. Cardinality(PlacedOn(n)) <= Capacity[n]
    BY <2>1 DEF Placed
  <2> QED
    BY <2>2, <2>3, <2>4, <2>5
<1>5. \A n \in Nodes : zones[n] = PlacedOn(n) /\ known[n] = PlacedOn(n)
  <2> SUFFICES ASSUME NEW n \in Nodes PROVE zones[n] = PlacedOn(n)
    BY <1>4
  <2>1. IsFiniteSet(PlacedOn(n))
    BY ZonesFinite, FS_Subset DEF PlacedOn
  <2> QED
    BY <1>4, <2>1, FS_Subset
<1>6. \A n \in Nodes : Cardinality(Given(share, n)) = Cardinality(Given(g, n))
  BY <1>1, <1>3, <1>4
<1>7. \A n \in Nodes : Cardinality(Given(share, n)) \in Nat
  BY <1>1, CapacityType
<1>8. \A z \in Zones : g[z] \in Nodes
  <2>1. \A n \in Nodes : Cardinality(Given(share, n)) <= Cardinality(Given(g, n))
    BY <1>6, <1>7
  <2> QED
    BY <2>1, AllPlaced
<1>9. \A z \in Zones : spot[z].at \in Nodes
  BY <1>2, <1>8
<1>10. \A z \in Zones : Lists(spot[z].at, z)
  <2> SUFFICES ASSUME NEW z \in Zones PROVE Lists(spot[z].at, z)
    OBVIOUS
  <2>1. PICK n \in Nodes : n = spot[z].at
    BY <1>9
  <2>2. z \in known[n] /\ known[n] # None
    <3>1. z \in known[n]
      BY <1>5, <2>1 DEF PlacedOn
    <3>2. At(n, "ready") /\ NodeInv(n)
      BY DEF Undisturbed
    <3> QED
      BY <1>4, <3>1, <3>2, ClaimsAssumption DEF ClaimTypes
  <2> QED
    BY <2>1, <2>2 DEF Lists
<1>11. \A y \in Zones : \E z \in Zones : spot[z].at = share[y]
  <2> SUFFICES ASSUME NEW y \in Zones PROVE \E z \in Zones : spot[z].at = share[y]
    OBVIOUS
  <2>1. y \in Given(share, share[y]) /\ share[y] \in Nodes
    BY DEF Given
  <2>2. IsFiniteSet(Given(share, share[y]))
    BY ZonesFinite, FS_Subset DEF Given
  <2>3. Cardinality(Given(share, share[y])) # 0
    BY <2>1, <2>2, FS_EmptySet
  <2>4. Given(g, share[y]) # {}
    BY <1>6, <2>1, <2>3, FS_EmptySet
  <2> QED
    BY <1>3, <2>4 DEF PlacedOn
<1>12. \E x, y \in Zones : spot[x].at # spot[y].at
  BY <1>1, <1>11
<1>13. \E z, w \in Zones : w \in Adjacent(z) /\ spot[z].at # spot[w].at
  <2>1. SUFFICES ASSUME \A z, w \in Zones : w \in Adjacent(z) => spot[z].at = spot[w].at
                 PROVE  FALSE
    OBVIOUS
  <2>2. /\ spot["zone-nw"].at = spot["zone-ne"].at /\ spot["zone-nw"].at = spot["zone-sw"].at
        /\ spot["zone-se"].at = spot["zone-ne"].at
    BY <2>1 DEF Zones, Adjacent
  <2> QED
    BY <1>12, <2>2 DEF Zones
<1> QED
  BY <1>9, <1>10, <1>13 DEF RelocationPair

\* While no node dies, the nodes share out the zones whatever order they start in, however
\* their passes and the gateway's run into each other and whichever requests fail: nobody
\* gives up, the bots come to zones that are there, and relocation_pair names two zones
\* that are where Ops believes them to be; there is one once all are ready.
THEOREM ClaimsDoSettle == ClaimsSpec => []ClaimsSettle
<1>1. ClaimsInit => ClaimsInv
  BY InitClaims
<1>2. ClaimsInv /\ [ClaimsNext]_claimsVars => ClaimsInv'
  BY StepClaims
<1>3. ClaimsInv => ClaimsSettle
  <2> SUFFICES ASSUME ClaimsInv PROVE ClaimsSettle
    OBVIOUS
  <2>1. ClaimTypes /\ SparesGiveUp /\ (deaths = 0 => Undisturbed)
    BY DEF ClaimsInv
  <2>2. NobodyGivesUp
    BY <2>1 DEF NobodyGivesUp, SparesGiveUp, Undisturbed, NodeInv, ClaimTypes
  <2>3. ASSUME deaths = 0 PROVE PairIsTrue
    <3>1. \A n \in Nodes, z \in Zones : Lists(n, z) => spot[z].at = n
      BY <2>1, <2>3 DEF Lists, Undisturbed, NodeInv, Placed
    <3> QED
      BY <3>1 DEF PairIsTrue, RelocationPair
  <2>4. deaths = 0 /\ gateway.step = "bots" => \A z \in Zones : spot[z].live
    BY <2>1 DEF Undisturbed, GatewayInv
  <2>5. deaths = 0 /\ (\A n \in Nodes : At(n, "ready")) =>
          \E n, m \in Nodes, z, w \in Zones : RelocationPair(n, z, m, w)
    BY <2>1, PairIsThere
  <2> QED
    BY <2>2, <2>3, <2>4, <2>5 DEF ClaimsSettle
<1> QED
  BY <1>1, <1>2, <1>3, PTL DEF ClaimsSpec

=============================================================================
