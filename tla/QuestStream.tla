------------------------------ MODULE QuestStream ------------------------------
(***************************************************************************)
(* The event stream of one player in GameQuest                             *)
(* (samples/GameQuest/Server/QuestMission/main.cpp, quest_event_store_t):  *)
(* the rule of a gameplay fact, what a fact appends, and the replay that   *)
(* makes a projection of a stream.                                         *)
(*                                                                         *)
(* A fact is a record [id, type, value, count], a stored event a record    *)
(* [source, quest, type, count].  A projection maps the quests it shows to *)
(* their count and status.                                                 *)
(***************************************************************************)
EXTENDS Naturals, Sequences, FiniteSets

Quests == {"first_hunt", "herb_gathering", "visit_ruins"}

Required(q) ==
  IF q = "first_hunt" THEN 3 ELSE IF q = "herb_gathering" THEN 5 ELSE 1

\* quest_rule_for: the quest a fact is counted for, none for other facts.
RuledBy(fact, q) ==
  \/ q = "first_hunt" /\ fact.type = "MonsterKilled" /\ fact.value = "wolf"
  \/ q = "first_hunt" /\ fact.type = "SnapshotKillCount"
  \/ q = "herb_gathering" /\ fact.type = "ItemCollected" /\ fact.value = "healing-herb"
  \/ q = "visit_ruins" /\ fact.type = "AreaEntered" /\ fact.value = "ruins"

Delta(fact) == IF fact.type = "AreaEntered" THEN 1 ELSE fact.count

Counting == {"progressed", "reconciled"}
Settling == {"completed", "reward_granted"}

-----------------------------------------------------------------------------
(* The replay of a stream *)

LastOf(stream, q, types) ==
  {i \in DOMAIN stream :
     /\ stream[i].quest = q /\ stream[i].type \in types
     /\ \A j \in i + 1 .. Len(stream) :
          ~(stream[j].quest = q /\ stream[j].type \in types)}

CountOf(stream, q) ==
  IF LastOf(stream, q, Counting) = {} THEN 0
  ELSE stream[CHOOSE i \in LastOf(stream, q, Counting) : TRUE].count

StatusOf(stream, q) ==
  IF LastOf(stream, q, Settling) = {} THEN "active"
  ELSE stream[CHOOSE i \in LastOf(stream, q, Settling) : TRUE].type

Started(stream) == {stream[i].quest : i \in DOMAIN stream}

\* replay_unlocked
Replay(stream) ==
  [q \in Started(stream) |->
     [count |-> CountOf(stream, q), status |-> StatusOf(stream, q)]]

-----------------------------------------------------------------------------
(* quest_event_store_t::apply *)

Applied(stream, fact) == \E i \in DOMAIN stream : stream[i].source = fact.id

LesserOf(a, b) == IF a < b THEN a ELSE b
GreaterOf(a, b) == IF a < b THEN b ELSE a

Reconciles(fact) == fact.type = "SnapshotKillCount"

\* Mutant: a snapshot is added to the count.
MutNextCount(stream, fact, q) ==
  IF Reconciles(fact) THEN CountOf(stream, q) + fact.count
  ELSE LesserOf(CountOf(stream, q) + Delta(fact), Required(q))

NextCount(stream, fact, q) ==
  IF Reconciles(fact) THEN GreaterOf(CountOf(stream, q), fact.count)
  ELSE LesserOf(CountOf(stream, q) + Delta(fact), Required(q))

\* The fact changes the player's progress on q.
Advances(stream, fact, q) ==
  /\ ~Applied(stream, fact)
  /\ RuledBy(fact, q)
  /\ Reconciles(fact) \/ StatusOf(stream, q) # "reward_granted"
  /\ NextCount(stream, fact, q) # CountOf(stream, q)

\* Mutant: the reward is granted whenever the count is reached.
MutCompletes(stream, fact, q) == NextCount(stream, fact, q) >= Required(q)

Completes(stream, fact, q) ==
  NextCount(stream, fact, q) >= Required(q) /\ StatusOf(stream, q) = "active"

Event(stream, fact, q, type) ==
  [source |-> fact.id, quest |-> q, type |-> type, count |-> NextCount(stream, fact, q)]

\* append_unlocked, once or three times
Append3(stream, fact, q) ==
  stream \o <<Event(stream, fact, q, IF Reconciles(fact) THEN "reconciled" ELSE "progressed")>>
         \o IF Completes(stream, fact, q)
            THEN <<Event(stream, fact, q, "completed"), Event(stream, fact, q, "reward_granted")>>
            ELSE <<>>

-----------------------------------------------------------------------------
(* What a stream is, however facts are repeated, reordered or reconciled *)

\* A fact is counted once.
SourcesOnce(stream) ==
  \A i, j \in DOMAIN stream :
    stream[i].source = stream[j].source /\ stream[i].type \in Counting
      /\ stream[j].type \in Counting => i = j

\* The count of a quest only grows.
CountsRise(stream) ==
  \A i, j \in DOMAIN stream :
    /\ i < j /\ stream[i].quest = stream[j].quest
    /\ stream[i].type \in Counting /\ stream[j].type \in Counting
    => stream[i].count < stream[j].count

\* A quest is completed and rewarded once, when its count is first reached.
RewardsOnce(stream) ==
  \A q \in Quests :
    LET ends == {i \in DOMAIN stream : stream[i].quest = q /\ stream[i].type = "reward_granted"}
    IN  /\ Cardinality(ends) <= 1
        /\ ends # {} <=> CountOf(stream, q) >= Required(q)
        /\ \A i \in ends : i > 2 /\ stream[i - 1].type = "completed" /\ stream[i - 1].quest = q

StreamLegal(stream) == SourcesOnce(stream) /\ CountsRise(stream) /\ RewardsOnce(stream)

=============================================================================
