------------------------------ MODULE ZoneBorder ------------------------------
(***************************************************************************)
(* What a zone of ZoneWorld shows of its neighbours (zone_spot_t of        *)
(* samples/ZoneWorld/Server/ZoneNode/main.cpp): each tick publishes the    *)
(* players near the border to the adjacent zones, an event is kept when    *)
(* its tick is later than that of the event kept before, and an event that *)
(* was not renewed for Expiry ticks is dropped.  A zone that is created    *)
(* again counts its ticks from zero.                                       *)
(*                                                                         *)
(* The fan-out (external) loses, delays and reorders events.  The players  *)
(* an event lists are left out: which event is kept does not depend on     *)
(* them.                                                                   *)
(*                                                                         *)
(* Bounds: MaxTicks ticks of each zone, MaxOnWay events on their way,      *)
(* MaxCreated creations of a zone.                                         *)
(***************************************************************************)
EXTENDS Naturals, FiniteSets

CONSTANTS Places, Beside, Expiry, MaxTicks, MaxOnWay, MaxCreated

ASSUME BorderAssumption ==
  /\ Beside \in [Places -> SUBSET Places]
  /\ \A z \in Places : \A f \in Beside[z] : z \in Beside[f]
  /\ Expiry \in Nat \ {0} /\ MaxTicks \in Nat /\ MaxOnWay \in Nat /\ MaxCreated \in Nat

VARIABLES
  tick,      \* zone_spot_t::_tick
  kept,      \* zone_spot_t::_borders: the event kept from each neighbour, or none
  onWay,     \* zone_border_event_t on their way
  created,   \* creations of the zone
  deaf       \* history: own ticks since an event was turned down for the one that is kept

borderVars == <<tick, kept, onWay, created, deaf>>

Nothing == [tick |-> 0, at |-> 0, kept |-> FALSE]

BorderInit ==
  /\ tick = [z \in Places |-> 0]
  /\ kept = [z \in Places |-> [f \in Beside[z] |-> Nothing]]
  /\ onWay = {}
  /\ created = [z \in Places |-> 0]
  /\ deaf = [z \in Places |-> [f \in Beside[z] |-> 0]]

Event(z, to, t) == [from |-> z, to |-> to, tick |-> t]

Expired(z, f, t) == kept[z][f].kept /\ t - kept[z][f].at >= Expiry

\* zone_spot_t::tick
Tick(z) ==
  LET t == tick[z] + 1
      left == [f \in Beside[z] |-> IF Expired(z, f, t) THEN Nothing ELSE kept[z][f]]
  IN
  /\ tick[z] < MaxTicks
  /\ tick' = [tick EXCEPT ![z] = t]
  /\ onWay' = onWay \cup {Event(z, to, t) : to \in Beside[z]}
  /\ Cardinality(onWay') <= MaxOnWay
  /\ kept' = [kept EXCEPT ![z] = left]
  /\ deaf' = [deaf EXCEPT ![z] = [f \in Beside[z] |-> 
                  IF @[f] = 0 \/ Expired(z, f, t) THEN 0 ELSE @[f] + 1]]
  /\ UNCHANGED created

\* Mutant: an event that is turned down renews the one that is kept.
MutBorder(e) ==
  LET k == kept[e.to][e.from]
      later == ~k.kept \/ e.tick > k.tick
  IN
  /\ e \in onWay
  /\ onWay' = onWay \ {e}
  /\ kept' = IF later
             THEN [kept EXCEPT ![e.to][e.from] =
                    [tick |-> e.tick, at |-> tick[e.to], kept |-> TRUE]]
             ELSE [kept EXCEPT ![e.to][e.from].at = tick[e.to]]
  /\ deaf' = [deaf EXCEPT ![e.to][e.from] = IF later THEN 0 ELSE IF @ = 0 THEN 1 ELSE @]
  /\ UNCHANGED <<tick, created>>

\* zone_spot_t::border
Border(e) ==
  LET k == kept[e.to][e.from]
      later == ~k.kept \/ e.tick > k.tick
  IN
  /\ e \in onWay
  /\ onWay' = onWay \ {e}
  /\ kept' = IF later
             THEN [kept EXCEPT ![e.to][e.from] =
                    [tick |-> e.tick, at |-> tick[e.to], kept |-> TRUE]]
             ELSE kept
  /\ deaf' = [deaf EXCEPT ![e.to][e.from] = IF later THEN 0 ELSE IF @ = 0 THEN 1 ELSE @]
  /\ UNCHANGED <<tick, created>>

Lose(e) ==
  /\ e \in onWay
  /\ onWay' = onWay \ {e}
  /\ UNCHANGED <<tick, kept, created, deaf>>

\* The node is gone and get_or_create makes the zone anew elsewhere.
Recreate(z) ==
  /\ created[z] < MaxCreated
  /\ created' = [created EXCEPT ![z] = @ + 1]
  /\ tick' = [tick EXCEPT ![z] = 0]
  /\ kept' = [kept EXCEPT ![z] = [f \in Beside[z] |-> Nothing]]
  /\ deaf' = [deaf EXCEPT ![z] = [f \in Beside[z] |-> 0]]
  /\ UNCHANGED onWay

BorderNext ==
  \/ \E z \in Places : Tick(z) \/ Recreate(z)
  \/ \E e \in onWay : Border(e) \/ Lose(e)

BorderSpec == BorderInit /\ [][BorderNext]_borderVars

-----------------------------------------------------------------------------
(* Properties *)

BorderTypeOK ==
  /\ tick \in [Places -> 0 .. MaxTicks]
  /\ \A z \in Places : \A f \in Beside[z] : kept[z][f].at <= tick[z]

\* A zone created again starts to count from zero while its neighbours still keep an
\* event with a late tick: they turn its events down for Expiry of their ticks at the
\* most, whatever is lost, delayed or reordered.
HeardAgain == BorderTypeOK /\ \A z \in Places : \A f \in Beside[z] : deaf[z][f] <= Expiry

=============================================================================
