---------------------------- MODULE GameQuestProofs ---------------------------
(***************************************************************************)
(* Proofs about GameQuest, for any players, sessions, API and mission      *)
(* processes, facts and limits.  A stream that is legal stays so with each *)
(* fact that is applied; a completion on its way to a player spends a      *)
(* mission process; a fact leaves the wire only for the owner's stream;    *)
(* and the kills ahead of a snapshot pay for what it says.  The client's   *)
(* scenario takes no step but these.                                       *)
(***************************************************************************)
EXTENDS GameQuestScenario, FiniteSetTheorems, SequenceTheorems, TLAPS

-----------------------------------------------------------------------------
(* Streams *)

\* Where stored events come from: a client's fact or a snapshot of its kills.
Sources == {f.id : f \in Facts} \cup {<<"snapshot", n>> : n \in Nat}

Events == [source : Sources, quest : Quests, type : Counting \cup Settling, count : Nat]

\* The last of the counts of q is the greatest, and q is rewarded with its completion.
StreamInv(s) ==
  /\ s \in Seq(Events)
  /\ SourcesOnce(s) /\ CountsRise(s) /\ RewardsOnce(s)
  /\ \A i \in DOMAIN s : s[i].type \in Counting => s[i].count <= CountOf(s, s[i].quest)
  /\ \A q \in Quests :
       StatusOf(s, q) = IF CountOf(s, q) < Required(q) THEN "active" ELSE "reward_granted"

\* There is one last event of a kind.
LEMMA LastIsOne ==
  ASSUME NEW s \in Seq(Events), NEW q, NEW T, NEW i \in LastOf(s, q, T)
  PROVE  LastOf(s, q, T) = {i}
<1>1. Len(s) \in Nat /\ DOMAIN s = 1..Len(s)
  BY LenProperties
<1>2. ASSUME NEW j \in LastOf(s, q, T), NEW k \in LastOf(s, q, T), j < k PROVE FALSE
  <2>1. j \in 1..Len(s) /\ k \in 1..Len(s) /\ k \in j + 1..Len(s)
    BY <1>1, <1>2 DEF LastOf
  <2> QED
    BY <2>1 DEF LastOf
<1>3. ASSUME NEW j \in LastOf(s, q, T) PROVE j = i
  <2>1. i \in Nat /\ j \in Nat
    BY <1>1 DEF LastOf
  <2> QED
    BY <2>1, <1>2
<1> QED
  BY <1>3

\* CountOf and StatusOf read that event.
LEMMA CountIs ==
  ASSUME NEW s \in Seq(Events), NEW q, NEW i \in LastOf(s, q, Counting)
  PROVE  CountOf(s, q) = s[i].count
BY LastIsOne DEF CountOf

LEMMA StatusIs ==
  ASSUME NEW s \in Seq(Events), NEW q, NEW i \in LastOf(s, q, Settling)
  PROVE  StatusOf(s, q) = s[i].type
BY LastIsOne DEF StatusOf

LEMMA CountType ==
  ASSUME NEW s \in Seq(Events), NEW q
  PROVE  CountOf(s, q) \in Nat
<1>1. CASE LastOf(s, q, Counting) = {}
  BY <1>1 DEF CountOf
<1>2. CASE LastOf(s, q, Counting) # {}
  <2>1. PICK i \in LastOf(s, q, Counting) : TRUE
    BY <1>2
  <2>2. s[i] \in Events
    BY <2>1 DEF LastOf
  <2> QED
    BY <2>1, <2>2, CountIs DEF Events
<1> QED
  BY <1>1, <1>2

LEMMA StatusType ==
  ASSUME NEW s \in Seq(Events), NEW q
  PROVE  StatusOf(s, q) \in {"active"} \cup Settling
<1>1. CASE LastOf(s, q, Settling) = {}
  BY <1>1 DEF StatusOf
<1>2. CASE LastOf(s, q, Settling) # {}
  <2>1. PICK i \in LastOf(s, q, Settling) : TRUE
    BY <1>2
  <2>2. s[i].type \in Settling
    BY <2>1 DEF LastOf
  <2> QED
    BY <2>1, <2>2, StatusIs
<1> QED
  BY <1>1, <1>2

\* t continues s without an event of the kind.
LEMMA LastIsKept ==
  ASSUME NEW s \in Seq(Events), NEW t \in Seq(Events), NEW q, NEW T, Len(s) <= Len(t),
         \A i \in 1..Len(s) : t[i] = s[i],
         \A i \in Len(s) + 1..Len(t) : ~(t[i].quest = q /\ t[i].type \in T)
  PROVE  LastOf(t, q, T) = LastOf(s, q, T)
<1>1. /\ Len(s) \in Nat /\ DOMAIN s = 1..Len(s)
      /\ Len(t) \in Nat /\ DOMAIN t = 1..Len(t)
  BY LenProperties
<1>2. ASSUME NEW i \in LastOf(t, q, T) PROVE i \in LastOf(s, q, T)
  <2>1. i \in 1..Len(t) /\ t[i].quest = q /\ t[i].type \in T
    BY <1>1 DEF LastOf
  <2>2. i \in 1..Len(s)
    BY <2>1, <1>1
  <2>3. \A j \in i + 1..Len(s) : j \in i + 1..Len(t) /\ t[j] = s[j]
    BY <2>2, <1>1
  <2> QED
    BY <2>1, <2>2, <2>3, <1>1 DEF LastOf
<1>3. ASSUME NEW i \in LastOf(s, q, T) PROVE i \in LastOf(t, q, T)
  <2>1. i \in 1..Len(s) /\ s[i].quest = q /\ s[i].type \in T /\ i \in 1..Len(t) /\ t[i] = s[i]
    BY <1>1 DEF LastOf
  <2>2. ASSUME NEW j \in i + 1..Len(t) PROVE ~(t[j].quest = q /\ t[j].type \in T)
    <3>1. CASE j <= Len(s)
      <4>1. j \in i + 1..Len(s) /\ t[j] = s[j]
        BY <3>1, <2>1, <1>1
      <4> QED
        BY <4>1 DEF LastOf
    <3>2. CASE j > Len(s)
      BY <3>2, <1>1, <2>1
    <3> QED
      BY <3>1, <3>2, <1>1, <2>1
  <2> QED
    BY <2>1, <2>2, <1>1 DEF LastOf
<1> QED
  BY <1>2, <1>3

-----------------------------------------------------------------------------
(* What a fact appends *)

IsFact(f) == f.id \in Sources /\ f.count \in Nat

LEMMA NextCountType ==
  ASSUME NEW s \in Seq(Events), NEW f, IsFact(f), NEW q \in Quests
  PROVE  NextCount(s, f, q) \in Nat /\ Required(q) \in Nat \ {0}
<1>1. CountOf(s, q) \in Nat /\ Required(q) \in Nat \ {0} /\ Delta(f) \in Nat
  BY CountType DEF IsFact, Delta, Required, Quests
<1>2. GreaterOf(CountOf(s, q), f.count) \in Nat
  BY <1>1 DEF GreaterOf, IsFact
<1>3. LesserOf(CountOf(s, q) + Delta(f), Required(q)) \in Nat
  BY <1>1 DEF LesserOf
<1> QED
  BY <1>1, <1>2, <1>3 DEF NextCount

\* A count that changes rises.
LEMMA CountGrows ==
  ASSUME NEW s, StreamInv(s), NEW f, IsFact(f), NEW q \in Quests, Advances(s, f, q)
  PROVE  NextCount(s, f, q) > CountOf(s, q)
<1>1. /\ s \in Seq(Events)
      /\ StatusOf(s, q) = IF CountOf(s, q) < Required(q) THEN "active" ELSE "reward_granted"
  BY DEF StreamInv
<1>2. CountOf(s, q) \in Nat /\ NextCount(s, f, q) \in Nat /\ Required(q) \in Nat
  BY <1>1, CountType, NextCountType
<1>3. NextCount(s, f, q) # CountOf(s, q) /\ (Reconciles(f) \/ CountOf(s, q) < Required(q))
  BY <1>1, <1>2 DEF Advances
<1>4. CASE Reconciles(f)
  <2>1. f.count \in Nat /\ NextCount(s, f, q) = GreaterOf(CountOf(s, q), f.count)
    BY <1>4 DEF NextCount, IsFact
  <2> QED
    BY <2>1, <1>2, <1>3 DEF GreaterOf
<1>5. CASE ~Reconciles(f)
  <2>1. Delta(f) \in Nat /\ NextCount(s, f, q) = LesserOf(CountOf(s, q) + Delta(f), Required(q))
    BY <1>5 DEF NextCount, IsFact, Delta
  <2> QED
    BY <2>1, <1>2, <1>3, <1>5 DEF LesserOf
<1> QED
  BY <1>4, <1>5

LEMMA Append3Shape ==
  ASSUME NEW s \in Seq(Events), NEW f, IsFact(f), NEW q \in Quests
  PROVE  LET t == Append3(s, f, q)
             n == Len(s)
             counted == Event(s, f, q, IF Reconciles(f) THEN "reconciled" ELSE "progressed")
         IN  /\ t \in Seq(Events)
             /\ Len(t) = IF Completes(s, f, q) THEN n + 3 ELSE n + 1
             /\ \A i \in 1..n : t[i] = s[i]
             /\ t[n + 1] = counted
             /\ Completes(s, f, q) =>
                  /\ t[n + 2] = Event(s, f, q, "completed")
                  /\ t[n + 3] = Event(s, f, q, "reward_granted")
<1> DEFINE counted == Event(s, f, q, IF Reconciles(f) THEN "reconciled" ELSE "progressed")
           one == Event(s, f, q, "completed")
           two == Event(s, f, q, "reward_granted")
<1>1. NextCount(s, f, q) \in Nat /\ f.id \in Sources
  BY NextCountType DEF IsFact
<1>2. counted \in Events /\ one \in Events /\ two \in Events
  BY <1>1 DEF Events, Event, Counting, Settling
<1>3. Append3(s, f, q) = (s \o <<counted>>) \o (IF Completes(s, f, q) THEN <<one, two>> ELSE <<>>)
  BY DEF Append3
<1> HIDE DEF counted, one, two
<1>4. <<counted>> \in Seq(Events) /\ <<one, two>> \in Seq(Events) /\ <<>> \in Seq(Events)
  BY <1>2
<1>5. /\ s \o <<counted>> \in Seq(Events) /\ Len(s \o <<counted>>) = Len(s) + 1
      /\ \A i \in 1..Len(s) : (s \o <<counted>>)[i] = s[i]
      /\ (s \o <<counted>>)[Len(s) + 1] = counted
  BY <1>2, <1>4
<1> DEFINE u == s \o <<counted>>
<1>6. u \in Seq(Events) /\ Len(u) = Len(s) + 1 /\ Len(s) \in Nat
      /\ \A i \in 1..Len(s) : u[i] = s[i]
  BY <1>5
<1>7. u[Len(s) + 1] = counted
  BY <1>5
<1> HIDE DEF u
<1>8. CASE Completes(s, f, q)
  <2>1. Append3(s, f, q) = u \o <<one, two>>
    BY <1>3, <1>8 DEF u
  <2>2. /\ u \o <<one, two>> \in Seq(Events) /\ Len(u \o <<one, two>>) = Len(s) + 3
        /\ \A i \in 1..Len(s) + 1 : (u \o <<one, two>>)[i] = u[i]
        /\ (u \o <<one, two>>)[Len(s) + 2] = one
        /\ (u \o <<one, two>>)[Len(s) + 3] = two
    BY <1>2, <1>4, <1>6
  <2>3. \A i \in 1..Len(s) : i \in 1..Len(s) + 1
    BY <1>6
  <2>4. Len(s) + 1 \in 1..Len(s) + 1
    BY <1>6
  <2> QED
    BY <2>1, <2>2, <2>3, <2>4, <1>6, <1>7, <1>8 DEF counted, one, two
<1>9. CASE ~Completes(s, f, q)
  <2>1. Append3(s, f, q) = u
    BY <1>3, <1>6, <1>9 DEF u
  <2> QED
    BY <2>1, <1>6, <1>7, <1>9 DEF counted
<1> QED
  BY <1>8, <1>9

\* After a fact, its quest has the new count and is rewarded when that is enough;
\* the other quests are as before.
LEMMA AppendCounts ==
  ASSUME NEW s, StreamInv(s), NEW f, IsFact(f), NEW q \in Quests, Advances(s, f, q),
         NEW t, t = Append3(s, f, q)
  PROVE  /\ CountOf(t, q) = NextCount(s, f, q)
         /\ StatusOf(t, q) = IF CountOf(t, q) < Required(q) THEN "active" ELSE "reward_granted"
         /\ \A r \in Quests \ {q} :
              CountOf(t, r) = CountOf(s, r) /\ StatusOf(t, r) = StatusOf(s, r)
<1> DEFINE n == Len(s)
<1>1. /\ s \in Seq(Events) /\ n \in Nat /\ DOMAIN s = 1..n
      /\ StatusOf(s, q) = IF CountOf(s, q) < Required(q) THEN "active" ELSE "reward_granted"
  BY LenProperties DEF StreamInv
<1>2. /\ t \in Seq(Events) /\ DOMAIN t = 1..Len(t)
      /\ Len(t) = IF Completes(s, f, q) THEN n + 3 ELSE n + 1
      /\ \A i \in 1..n : t[i] = s[i]
      /\ t[n + 1] = Event(s, f, q, IF Reconciles(f) THEN "reconciled" ELSE "progressed")
      /\ Completes(s, f, q) =>
           /\ t[n + 2] = Event(s, f, q, "completed")
           /\ t[n + 3] = Event(s, f, q, "reward_granted")
  BY <1>1, Append3Shape, LenProperties
<1>3. /\ t[n + 1].quest = q /\ t[n + 1].type \in Counting /\ t[n + 1].type \notin Settling
      /\ t[n + 1].count = NextCount(s, f, q)
  BY <1>2 DEF Event, Counting, Settling
<1>4. Completes(s, f, q) =>
        /\ t[n + 2].quest = q /\ t[n + 2].type = "completed"
        /\ t[n + 3].quest = q /\ t[n + 3].type = "reward_granted"
  BY <1>2 DEF Event
<1>5. \A i \in n + 1..Len(t) :
        i = n + 1 \/ (Completes(s, f, q) /\ (i = n + 2 \/ i = n + 3))
  BY <1>1, <1>2
<1>6. NextCount(s, f, q) \in Nat /\ CountOf(s, q) \in Nat /\ Required(q) \in Nat
      /\ NextCount(s, f, q) > CountOf(s, q)
  BY <1>1, NextCountType, CountType, CountGrows
<1> HIDE DEF n
<1>7. CountOf(t, q) = NextCount(s, f, q)
  <2>1. \A i \in n + 2..Len(t) : t[i].type \notin Counting
    BY <1>1, <1>4, <1>5 DEF Counting
  <2>2. n + 1 \in DOMAIN t
    BY <1>1, <1>2
  <2>3. n + 1 \in LastOf(t, q, Counting)
    BY <2>1, <2>2, <1>1, <1>2, <1>3 DEF LastOf
  <2> QED
    BY <2>3, <1>2, <1>3, CountIs
<1>8. StatusOf(t, q) = IF CountOf(t, q) < Required(q) THEN "active" ELSE "reward_granted"
  <2>1. CASE Completes(s, f, q)
    <3>1. n + 3 \in LastOf(t, q, Settling)
      BY <2>1, <1>1, <1>2, <1>4 DEF LastOf, Settling
    <3>2. StatusOf(t, q) = "reward_granted"
      BY <3>1, <2>1, <1>2, <1>4, StatusIs
    <3> QED
      BY <3>2, <2>1, <1>6, <1>7 DEF Completes
  <2>2. CASE ~Completes(s, f, q)
    <3>1. \A i \in n + 1..Len(t) : ~(t[i].quest = q /\ t[i].type \in Settling)
      BY <2>2, <1>3, <1>5
    <3>2. Len(s) <= Len(t)
      BY <1>1, <1>2 DEF n
    <3>3. LastOf(t, q, Settling) = LastOf(s, q, Settling)
      BY <3>1, <3>2, <1>1, <1>2, LastIsKept DEF n
    <3>4. \A i \in LastOf(s, q, Settling) : i \in 1..n /\ t[i] = s[i]
      BY <1>1, <1>2 DEF LastOf
    <3>5. StatusOf(t, q) = StatusOf(s, q)
      <4>1. CASE LastOf(s, q, Settling) = {}
        BY <4>1, <3>3 DEF StatusOf
      <4>2. CASE LastOf(s, q, Settling) # {}
        <5>1. PICK i \in LastOf(s, q, Settling) : TRUE
          BY <4>2
        <5> QED
          BY <5>1, <3>3, <3>4, <1>1, <1>2, StatusIs
      <4> QED
        BY <4>1, <4>2
    <3> QED
      BY <3>5, <2>2, <1>1, <1>6, <1>7 DEF Completes
  <2> QED
    BY <2>1, <2>2
<1>9. ASSUME NEW r \in Quests \ {q}
      PROVE  CountOf(t, r) = CountOf(s, r) /\ StatusOf(t, r) = StatusOf(s, r)
  <2>1. \A i \in n + 1..Len(t) : t[i].quest # r
    BY <1>3, <1>4, <1>5
  <2>2. Len(s) <= Len(t)
    BY <1>1, <1>2 DEF n
  <2>3. LastOf(t, r, Settling) = LastOf(s, r, Settling)
    BY <2>1, <2>2, <1>1, <1>2, LastIsKept DEF n
  <2>4. LastOf(t, r, Counting) = LastOf(s, r, Counting)
    BY <2>1, <2>2, <1>1, <1>2, LastIsKept DEF n
  <2>5. \A T : \A i \in LastOf(s, r, T) : t[i] = s[i]
    BY <1>1, <1>2 DEF LastOf
  <2>6. CountOf(t, r) = CountOf(s, r)
    <3>1. CASE LastOf(s, r, Counting) = {}
      BY <3>1, <2>4 DEF CountOf
    <3>2. CASE LastOf(s, r, Counting) # {}
      <4>1. PICK i \in LastOf(s, r, Counting) : TRUE
        BY <3>2
      <4> QED
        BY <4>1, <2>4, <2>5, <1>1, <1>2, CountIs
    <3> QED
      BY <3>1, <3>2
  <2>7. StatusOf(t, r) = StatusOf(s, r)
    <3>1. CASE LastOf(s, r, Settling) = {}
      BY <3>1, <2>3 DEF StatusOf
    <3>2. CASE LastOf(s, r, Settling) # {}
      <4>1. PICK i \in LastOf(s, r, Settling) : TRUE
        BY <3>2
      <4> QED
        BY <4>1, <2>3, <2>5, <1>1, <1>2, StatusIs
    <3> QED
      BY <3>1, <3>2
  <2> QED
    BY <2>6, <2>7
<1> QED
  BY <1>7, <1>8, <1>9

Granted(s, q) == \E i \in DOMAIN s : s[i].quest = q /\ s[i].type = "reward_granted"

\* A rewarded quest has the count it needs.
LEMMA RewardedCount ==
  ASSUME NEW s, StreamInv(s), NEW q \in Quests
  PROVE  Granted(s, q) <=> CountOf(s, q) >= Required(q)
<1> DEFINE ends == {i \in DOMAIN s : s[i].quest = q /\ s[i].type = "reward_granted"}
<1>1. ends # {} <=> CountOf(s, q) >= Required(q)
  BY DEF StreamInv, RewardsOnce
<1>2. Granted(s, q) <=> ends # {}
  BY DEF Granted
<1> QED
  BY <1>1, <1>2

\* A fact that advances a quest of a legal stream leaves a legal stream.
LEMMA AppendLegal ==
  ASSUME NEW s, StreamInv(s), NEW f, IsFact(f), NEW q \in Quests, Advances(s, f, q),
         NEW t, t = Append3(s, f, q)
  PROVE  /\ StreamInv(t)
         /\ Applied(t, f)
         /\ \A g : Applied(s, g) => Applied(t, g)
         /\ \A r : Granted(s, r) => Granted(t, r)
         /\ Completes(s, f, q) => ~Granted(s, q) /\ Granted(t, q)
<1> DEFINE n == Len(s)
<1>1. /\ s \in Seq(Events) /\ n \in Nat /\ DOMAIN s = 1..n
      /\ \A r \in Quests :
           StatusOf(s, r) = IF CountOf(s, r) < Required(r) THEN "active" ELSE "reward_granted"
      /\ SourcesOnce(s) /\ CountsRise(s) /\ RewardsOnce(s)
      /\ \A i \in DOMAIN s : s[i].type \in Counting => s[i].count <= CountOf(s, s[i].quest)
  BY LenProperties DEF StreamInv
<1>2. /\ t \in Seq(Events) /\ DOMAIN t = 1..Len(t)
      /\ Len(t) = IF Completes(s, f, q) THEN n + 3 ELSE n + 1
      /\ \A i \in 1..n : t[i] = s[i]
      /\ t[n + 1] = Event(s, f, q, IF Reconciles(f) THEN "reconciled" ELSE "progressed")
      /\ Completes(s, f, q) =>
           /\ t[n + 2] = Event(s, f, q, "completed")
           /\ t[n + 3] = Event(s, f, q, "reward_granted")
  BY <1>1, Append3Shape, LenProperties
<1>3. /\ t[n + 1].quest = q /\ t[n + 1].type \in Counting /\ t[n + 1].type # "reward_granted"
      /\ t[n + 1].count = NextCount(s, f, q) /\ t[n + 1].source = f.id
  BY <1>2 DEF Event, Counting
<1>4. Completes(s, f, q) =>
        /\ t[n + 2].quest = q /\ t[n + 2].type = "completed"
        /\ t[n + 3].quest = q /\ t[n + 3].type = "reward_granted"
  BY <1>2 DEF Event
<1>5. \A i \in DOMAIN t :
        i \in 1..n \/ i = n + 1 \/ (Completes(s, f, q) /\ (i = n + 2 \/ i = n + 3))
  BY <1>1, <1>2
<1>6. /\ NextCount(s, f, q) \in Nat /\ CountOf(s, q) \in Nat /\ Required(q) \in Nat \ {0}
      /\ NextCount(s, f, q) > CountOf(s, q)
  BY <1>1, NextCountType, CountType, CountGrows
<1>7. /\ CountOf(t, q) = NextCount(s, f, q)
      /\ StatusOf(t, q) = IF CountOf(t, q) < Required(q) THEN "active" ELSE "reward_granted"
      /\ \A r \in Quests \ {q} :
           CountOf(t, r) = CountOf(s, r) /\ StatusOf(t, r) = StatusOf(s, r)
  BY AppendCounts
<1>8. \A i \in 1..n : s[i].quest \in Quests /\ s[i].count \in Nat /\ i \in DOMAIN t
  <2> SUFFICES ASSUME NEW i \in 1..n
               PROVE  s[i].quest \in Quests /\ s[i].count \in Nat /\ i \in DOMAIN t
    OBVIOUS
  <2>1. s[i] \in Events
    BY <1>1
  <2>2. i \in DOMAIN t
    BY <1>1, <1>2
  <2> QED
    BY <2>1, <2>2 DEF Events
<1>9. n + 1 \in DOMAIN t
  BY <1>1, <1>2
<1>10. \A i \in DOMAIN t : t[i].type \in Counting => i \in 1..n \/ i = n + 1
  BY <1>4, <1>5 DEF Counting
<1> HIDE DEF n
<1>11. SourcesOnce(t)
  <2>1. \A i \in 1..n : s[i].source # f.id
    BY <1>1 DEF Advances, Applied
  <2>2. ASSUME NEW i \in DOMAIN t, NEW j \in DOMAIN t, t[i].source = t[j].source,
               t[i].type \in Counting, t[j].type \in Counting
        PROVE  i = j
    <3>1. (i \in 1..n \/ i = n + 1) /\ (j \in 1..n \/ j = n + 1)
      BY <2>2, <1>10
    <3>2. CASE i \in 1..n /\ j \in 1..n
      BY <3>2, <2>2, <1>1, <1>2 DEF SourcesOnce
    <3>3. CASE i \in 1..n /\ j = n + 1
      BY <3>3, <2>1, <2>2, <1>2, <1>3
    <3>4. CASE i = n + 1 /\ j \in 1..n
      BY <3>4, <2>1, <2>2, <1>2, <1>3
    <3> QED
      BY <3>1, <3>2, <3>3, <3>4
  <2> QED
    BY <2>2 DEF SourcesOnce
<1>12. CountsRise(t)
  <2>1. ASSUME NEW i \in DOMAIN t, NEW j \in DOMAIN t, i < j, t[i].quest = t[j].quest,
               t[i].type \in Counting, t[j].type \in Counting
        PROVE  t[i].count < t[j].count
    <3>1. (i \in 1..n \/ i = n + 1) /\ (j \in 1..n \/ j = n + 1)
      BY <2>1, <1>10
    <3>2. CASE i \in 1..n /\ j \in 1..n
      BY <3>2, <2>1, <1>1, <1>2 DEF CountsRise
    <3>3. CASE i \in 1..n /\ j = n + 1
      <4>1. t[i] = s[i] /\ s[i].quest = q /\ s[i].type \in Counting
        BY <3>3, <2>1, <1>2, <1>3
      <4>2. s[i].count <= CountOf(s, q) /\ s[i].count \in Nat
        BY <4>1, <3>3, <1>1, <1>8
      <4> QED
        BY <4>1, <4>2, <3>3, <1>3, <1>6
    <3>4. CASE i = n + 1
      BY <3>4, <3>1, <2>1, <1>1
    <3> QED
      BY <3>1, <3>2, <3>3, <3>4
  <2> QED
    BY <2>1 DEF CountsRise
<1>13. \A i \in DOMAIN t : t[i].type \in Counting => t[i].count <= CountOf(t, t[i].quest)
  <2>1. ASSUME NEW i \in 1..n, s[i].type \in Counting PROVE s[i].count <= CountOf(t, s[i].quest)
    <3>1. s[i].count <= CountOf(s, s[i].quest) /\ s[i].count \in Nat /\ s[i].quest \in Quests
      BY <2>1, <1>1, <1>8
    <3>2. CASE s[i].quest = q
      BY <3>1, <3>2, <1>6, <1>7
    <3>3. CASE s[i].quest # q
      BY <3>1, <3>3, <1>7
    <3> QED
      BY <3>2, <3>3
  <2>2. t[n + 1].count <= CountOf(t, t[n + 1].quest)
    BY <1>3, <1>6, <1>7
  <2> QED
    BY <2>1, <2>2, <1>2, <1>10
<1>14. Completes(s, f, q) => ~Granted(s, q) /\ CountOf(t, q) >= Required(q)
  <2>1. Completes(s, f, q) => CountOf(s, q) < Required(q)
    BY <1>1, <1>6 DEF Completes
  <2> QED
    BY <2>1, <1>6, <1>7, RewardedCount DEF Completes
<1>15. ~Completes(s, f, q) => (CountOf(t, q) >= Required(q) <=> CountOf(s, q) >= Required(q))
  BY <1>1, <1>6, <1>7 DEF Completes
<1>16. RewardsOnce(t)
  <2> SUFFICES ASSUME NEW r \in Quests
               PROVE  LET ends == {i \in DOMAIN t : t[i].quest = r /\ t[i].type = "reward_granted"}
                      IN  /\ Cardinality(ends) <= 1
                          /\ ends # {} <=> CountOf(t, r) >= Required(r)
                          /\ \A i \in ends :
                               i > 2 /\ t[i - 1].type = "completed" /\ t[i - 1].quest = r
    BY DEF RewardsOnce
  <2> DEFINE old == {i \in DOMAIN s : s[i].quest = r /\ s[i].type = "reward_granted"}
             ends == {i \in DOMAIN t : t[i].quest = r /\ t[i].type = "reward_granted"}
  <2>1. /\ Cardinality(old) <= 1
        /\ old # {} <=> CountOf(s, r) >= Required(r)
        /\ \A i \in old : i > 2 /\ s[i - 1].type = "completed" /\ s[i - 1].quest = r
    BY <1>1 DEF RewardsOnce
  <2>2. CASE ~(r = q /\ Completes(s, f, q))
    <3>1. ends = old
      <4>1. \A i \in DOMAIN t :
              t[i].quest = r /\ t[i].type = "reward_granted" => i \in 1..n
        BY <2>2, <1>3, <1>4, <1>5
      <4> QED
        BY <4>1, <1>1, <1>2, <1>8
    <3>2. CountOf(s, r) >= Required(r) <=> CountOf(t, r) >= Required(r)
      BY <2>2, <1>7, <1>15
    <3>3. ASSUME NEW i \in ends
          PROVE i > 2 /\ t[i - 1].type = "completed" /\ t[i - 1].quest = r
      <4>1. i \in 1..n /\ i > 2 /\ s[i - 1].type = "completed" /\ s[i - 1].quest = r
        BY <3>1, <3>3, <2>1, <1>1
      <4>2. i - 1 \in 1..n
        BY <4>1, <1>1
      <4> QED
        BY <4>1, <4>2, <1>2
    <3> QED
      BY <3>1, <3>2, <3>3, <2>1
  <2>3. CASE r = q /\ Completes(s, f, q)
    <3>1. old = {}
      BY <2>3, <1>14 DEF Granted
    <3>2. n + 3 \in DOMAIN t
      BY <2>3, <1>1, <1>2
    <3>3. ends = {n + 3}
      <4>1. n + 3 \in ends
        BY <3>2, <2>3, <1>4
      <4>2. \A i \in 1..n : t[i].quest = r => t[i].type # "reward_granted"
        BY <3>1, <1>1, <1>2
      <4>3. \A i \in ends : i = n + 3
        BY <4>2, <2>3, <1>3, <1>4, <1>5
      <4> QED
        BY <4>1, <4>3
    <3>4. Cardinality(ends) = 1
      BY <3>3, FS_Singleton
    <3>5. n + 3 > 2 /\ (n + 3) - 1 = n + 2
      BY <1>1
    <3> QED
      BY <3>3, <3>4, <3>5, <2>3, <1>4, <1>14
  <2> QED
    BY <2>2, <2>3
<1>17. \A r \in Quests :
         StatusOf(t, r) = IF CountOf(t, r) < Required(r) THEN "active" ELSE "reward_granted"
  BY <1>1, <1>7
<1>18. StreamInv(t)
  BY <1>2, <1>11, <1>12, <1>13, <1>16, <1>17 DEF StreamInv
<1>19. Applied(t, f)
  BY <1>3, <1>9 DEF Applied
<1>20. \A g : Applied(s, g) => Applied(t, g)
  BY <1>1, <1>2, <1>8 DEF Applied
<1>21. \A r : Granted(s, r) => Granted(t, r)
  BY <1>1, <1>2, <1>8 DEF Granted
<1> QED
  BY <1>14, <1>18, <1>19, <1>20, <1>21, RewardedCount

\* A fact is counted for one quest.
LEMMA OneRule ==
  ASSUME NEW f, NEW q \in Quests, RuledBy(f, q), NEW r \in Quests, RuledBy(f, r)
  PROVE  q = r
BY DEF RuledBy, Quests

LEMMA ReplayType ==
  ASSUME NEW s \in Seq(Events)
  PROVE  Replay(s) \in Projections /\ DOMAIN Replay(s) = Started(s)
<1>1. Started(s) \subseteq Quests
  <2>1. \A i \in DOMAIN s : s[i] \in Events
    OBVIOUS
  <2>2. \A i \in DOMAIN s : s[i].quest \in Quests
    BY <2>1 DEF Events
  <2> QED
    BY <2>2 DEF Started
<1>2. \A q \in Started(s) :
        [count |-> CountOf(s, q), status |-> StatusOf(s, q)]
          \in [count : Nat, status : {"active"} \cup Settling]
  BY CountType, StatusType
<1>3. Replay(s) \in [Started(s) -> [count : Nat, status : {"active"} \cup Settling]]
  BY <1>2 DEF Replay
<1> QED
  BY <1>1, <1>3 DEF Projections

-----------------------------------------------------------------------------
(* Steps, whatever the bounds on how many packets there are and what they ask *)

AnyOperation == {"rebuild", "deactivate"} \cup Quests

AnyPacket(s, p) ==
  \/ Join(s, p) \/ Sync(s, p) \/ AskClose(s, p)
  \/ \E f \in Facts : Play(s, p, f)
  \/ \E n \in Nat : KillUnpublished(s, p, n)
  \/ \E op \in AnyOperation : Admin(s, p, op)

Asking == \E s \in Sessions, p \in Players : AnyPacket(s, p)

AnyStep == Asking \/ ServersNext

LEMMA NextIsAnyStep == [Next]_vars => [AnyStep]_vars
<1>1. ASSUME NEW s \in Sessions, NEW p \in Players, ClientPacket(s, p, Facts)
      PROVE  AnyPacket(s, p)
  BY <1>1, GameQuestAssumption DEF ClientPacket, AnyPacket, AnyOperation
<1> QED
  BY <1>1 DEF Next, Client, AnyStep, Asking

-----------------------------------------------------------------------------
(* Types *)

Messages == [kind : {"event"}, fact : Facts] \cup [kind : {"sync"}, from : Sessions, kills : Nat]
            \cup [kind : {"admin"}, from : Sessions, op : AnyOperation] \cup [kind : {"close"}]

Notices == [projection : Projections, completed : Quests \cup {None}]

SessionStates ==
  [doing : {"idle", "joining", "syncing", "recording", "admin"}, player : Players \cup {None},
   of : Players \cup {None}, fact : Facts \cup {None}, reply : Projections \cup {None}]

PlaceTypes ==
  /\ up \subseteq Missions /\ owner \in [Players -> Missions \cup {None, Gone}]
  /\ home \in [Players -> Apis \cup {None}] /\ bound \in [Players -> Sessions \cup {None}]
  /\ homes \in [Players -> SUBSET Missions] /\ \A p \in Players : IsFiniteSet(homes[p])

CountTypes ==
  /\ recorded \in [Apis -> [Players -> SUBSET Facts]]
  /\ \A a \in Apis, p \in Players : IsFiniteSet(recorded[a][p])
  /\ unpublished \in [Apis -> [Players -> Nat]]
  /\ told \in [Players -> [Quests -> Nat]]

StreamTypes ==
  /\ stream \in [Missions -> [Players -> Seq(Events)]]
  /\ cache \in [Missions -> [Players -> Projections]]
  /\ \A m \in Missions, p \in Players : StreamInv(stream[m][p])

WireTypes == wire \in [Apis -> [Players -> Seq(Messages)]]

NoteTypes == notes \in [Missions -> [Players -> Seq(Notices)]]

SessionTypes ==
  /\ session \in [Sessions -> SessionStates]
  /\ \A s \in Sessions :
       /\ session[s].doing # "idle" => session[s].of \in Players
       /\ session[s].doing = "recording" => session[s].fact \in Facts

Types == PlaceTypes /\ CountTypes /\ StreamTypes /\ WireTypes /\ NoteTypes /\ SessionTypes

LEMMA FactTypes ==
  /\ \A f \in Facts : IsFact(f)
  /\ \A n \in Nat : IsFact(SnapshotFact(n))
BY GameQuestAssumption DEF IsFact, Sources, SnapshotFact

LEMMA MessageTypes ==
  /\ \A f \in Facts : EventMsg(f) \in Messages
  /\ \A s \in Sessions, n \in Nat : SyncMsg(s, n) \in Messages
  /\ \A s \in Sessions : \A op \in AnyOperation : AdminMsg(s, op) \in Messages
  /\ CloseMsg \in Messages
BY DEF Messages, EventMsg, SyncMsg, AdminMsg, CloseMsg

\* What a message of each kind carries.
LEMMA MessageParts ==
  ASSUME NEW msg \in Messages
  PROVE  /\ msg.kind = "event" => msg = EventMsg(msg.fact) /\ msg.fact \in Facts
         /\ msg.kind = "sync" => msg.from \in Sessions /\ msg.kills \in Nat
         /\ msg.kind = "admin" => msg.from \in Sessions /\ msg.op \in AnyOperation
BY DEF Messages, EventMsg

LEMMA SnapshotType ==
  ASSUME CountTypes, NEW a \in Apis, NEW p \in Players
  PROVE  Snapshot(a, p) \in Nat
<1>1. IsFiniteSet({f \in recorded[a][p] : f.type = "MonsterKilled"})
  BY FS_Subset DEF CountTypes
<1>2. KillsOf(recorded[a][p]) \in Nat
  BY <1>1, FS_CardinalityType DEF KillsOf
<1> QED
  BY <1>2 DEF Snapshot, CountTypes

LEMMA ApiOf == \A s \in Sessions : SessionApi[s] \in Apis
BY GameQuestAssumption

-----------------------------------------------------------------------------
(* The store *)

\* What apply does to the stream and the projection of p on m.
LEMMA StoredStep ==
  ASSUME StreamTypes, NEW m \in Missions, NEW p \in Players, NEW f, IsFact(f),
         Stored(m, p, f), Cached(m, p, f)
  PROVE  \E t, c :
           /\ stream' = [stream EXCEPT ![m][p] = t] /\ StreamInv(t)
           /\ cache' = [cache EXCEPT ![m][p] = c] /\ c \in Projections
           /\ c = Replay(t) \/ (t = stream[m][p] /\ c = cache[m][p])
           /\ \A g : Applied(stream[m][p], g) => Applied(t, g)
           /\ \A q : Granted(stream[m][p], q) => Granted(t, q)
           /\ \A q \in Completed(m, p, f) :
                /\ Completed(m, p, f) = {q}
                /\ ~Granted(stream[m][p], q) /\ Granted(t, q)
           /\ (\E q \in Quests : Advances(stream[m][p], f, q)) => Applied(t, f)
<1>1. stream[m][p] \in Seq(Events) /\ StreamInv(stream[m][p]) /\ cache[m][p] \in Projections
  BY DEF StreamTypes
<1>2. CASE ~ \E q \in Quests : Advances(stream[m][p], f, q)
  <2>1. stream' = [stream EXCEPT ![m][p] = stream[m][p]]
    <3>1. stream' = stream
      BY <1>2 DEF Stored
    <3> QED
      BY <3>1 DEF StreamTypes
  <2>2. cache' = [cache EXCEPT ![m][p] = cache[m][p]]
    <3>1. cache' = cache
      BY <1>2 DEF Cached
    <3> QED
      BY <3>1 DEF StreamTypes
  <2>3. Completed(m, p, f) = {}
    BY <1>2 DEF Completed
  <2> QED
    BY <1>1, <1>2, <2>1, <2>2, <2>3
<1>3. CASE \E q \in Quests : Advances(stream[m][p], f, q)
  <2>1. PICK q \in Quests : Advances(stream[m][p], f, q)
    BY <1>3
  <2>2. RuledBy(f, q)
    BY <2>1 DEF Advances
  <2>3. q = CHOOSE r \in Quests : RuledBy(f, r)
    BY <2>2, OneRule
  <2>4. PICK t : t = Append3(stream[m][p], f, q)
    OBVIOUS
  <2>5. stream' = [stream EXCEPT ![m][p] = t]
    BY <1>3, <2>3, <2>4 DEF Stored
  <2>6. /\ StreamInv(t) /\ Applied(t, f)
        /\ \A g : Applied(stream[m][p], g) => Applied(t, g)
        /\ \A r : Granted(stream[m][p], r) => Granted(t, r)
        /\ Completes(stream[m][p], f, q) => ~Granted(stream[m][p], q) /\ Granted(t, q)
    BY <1>1, <2>1, <2>4, AppendLegal
  <2>7. stream'[m][p] = t
    BY <2>5 DEF StreamTypes
  <2>8. cache' = [cache EXCEPT ![m][p] = Replay(t)]
    BY <1>3, <2>7 DEF Cached
  <2>9. Replay(t) \in Projections
    BY <2>6, ReplayType DEF StreamInv
  <2>10. ASSUME NEW r \in Completed(m, p, f)
         PROVE Completed(m, p, f) = {r} /\ ~Granted(stream[m][p], r) /\ Granted(t, r)
    <3>1. \A x \in Completed(m, p, f) : x = q
      BY <2>2, OneRule DEF Completed, Advances
    <3>2. Completes(stream[m][p], f, q)
      BY <2>10, <3>1 DEF Completed
    <3> QED
      BY <2>6, <2>10, <3>1, <3>2
  <2> QED
    BY <2>5, <2>6, <2>8, <2>9, <2>10
<1> QED
  BY <1>2, <1>3

\* A client's fact is counted, unless it was, or its quest is rewarded.
LEMMA FactCounts ==
  ASSUME NEW s, StreamInv(s), NEW f \in Facts, NEW q \in Quests, RuledBy(f, q)
  PROVE  Advances(s, f, q) \/ Applied(s, f) \/ Granted(s, q)
<1>1. /\ s \in Seq(Events)
      /\ StatusOf(s, q) = IF CountOf(s, q) < Required(q) THEN "active" ELSE "reward_granted"
  BY DEF StreamInv
<1>2. ~Reconciles(f) /\ Delta(f) \in Nat \ {0} /\ IsFact(f)
  BY GameQuestAssumption, FactTypes DEF Reconciles, Delta
<1>3. CountOf(s, q) \in Nat /\ Required(q) \in Nat
  BY <1>1, <1>2, CountType, NextCountType
<1>4. NextCount(s, f, q) = LesserOf(CountOf(s, q) + Delta(f), Required(q))
  BY <1>2 DEF NextCount
<1>5. CASE CountOf(s, q) >= Required(q)
  BY <1>5, RewardedCount
<1>6. CASE CountOf(s, q) < Required(q)
  <2>1. NextCount(s, f, q) # CountOf(s, q)
    BY <1>2, <1>3, <1>4, <1>6 DEF LesserOf
  <2>2. StatusOf(s, q) = "active"
    BY <1>1, <1>6
  <2> QED
    BY <2>1, <2>2 DEF Advances
<1> QED
  BY <1>3, <1>5, <1>6

LEMMA EmptyLegal == StreamInv(<<>>) /\ Empty \in Projections
<1> DEFINE e == <<>>
<1>1. e \in Seq(Events) /\ Len(e) = 0 /\ DOMAIN e = {}
  OBVIOUS
<1> HIDE DEF e
<1>2. \A q, T : LastOf(e, q, T) = {}
  BY <1>1 DEF LastOf
<1>3. \A q : CountOf(e, q) = 0 /\ StatusOf(e, q) = "active"
  BY <1>2 DEF CountOf, StatusOf
<1>4. \A q \in Quests : Required(q) > 0
  BY DEF Required
<1>5. SourcesOnce(e) /\ CountsRise(e)
  BY <1>1 DEF SourcesOnce, CountsRise
<1>6. RewardsOnce(e)
  <2> SUFFICES ASSUME NEW q \in Quests
               PROVE  LET ends == {i \in DOMAIN e : e[i].quest = q /\ e[i].type = "reward_granted"}
                      IN  /\ Cardinality(ends) <= 1
                          /\ ends # {} <=> CountOf(e, q) >= Required(q)
                          /\ \A i \in ends :
                               i > 2 /\ e[i - 1].type = "completed" /\ e[i - 1].quest = q
    BY DEF RewardsOnce
  <2> DEFINE ends == {i \in DOMAIN e : e[i].quest = q /\ e[i].type = "reward_granted"}
  <2>1. ends = {} /\ Cardinality({}) = 0
    BY <1>1, FS_EmptySet
  <2>2. ~(0 >= Required(q))
    BY DEF Required
  <2> HIDE DEF ends
  <2>3. Cardinality(ends) <= 1
    BY <2>1
  <2> QED
    BY <2>1, <2>2, <2>3, <1>3 DEF ends
<1>7. StreamInv(e)
  BY <1>1, <1>3, <1>4, <1>5, <1>6 DEF StreamInv
<1>8. Empty \in [{} -> [count : Nat, status : {"active"} \cup Settling]]
  BY DEF Empty
<1> QED
  BY <1>7, <1>8 DEF e, Projections

LEMMA InitTypes == Init => Types
<1> SUFFICES ASSUME Init PROVE Types
  OBVIOUS
<1>1. PlaceTypes
  BY FS_EmptySet DEF Init, PlaceTypes
<1>2. CountTypes
  BY FS_EmptySet DEF Init, CountTypes
<1>3. StreamTypes
  <2>1. stream \in [Missions -> [Players -> Seq(Events)]]
    BY EmptyLegal DEF Init, StreamInv
  <2>2. cache \in [Missions -> [Players -> Projections]]
    BY EmptyLegal DEF Init
  <2>3. \A m \in Missions, p \in Players : stream[m][p] = <<>>
    BY DEF Init
  <2> QED
    BY <2>1, <2>2, <2>3, EmptyLegal DEF StreamTypes
<1>4. WireTypes /\ NoteTypes
  BY DEF Init, WireTypes, NoteTypes
<1>5. SessionTypes
  BY DEF Init, SessionTypes, SessionStates, Idle
<1> QED
  BY <1>1, <1>2, <1>3, <1>4, <1>5 DEF Types

\* One player's stream and projection on m are replaced.
LEMMA StreamUpdate ==
  ASSUME StreamTypes, NEW m \in Missions, NEW p \in Players, NEW t, StreamInv(t),
         NEW c \in Projections,
         stream' = [stream EXCEPT ![m][p] = t], cache' = [cache EXCEPT ![m][p] = c]
  PROVE  StreamTypes'
<1>1. t \in Seq(Events)
  BY DEF StreamInv
<1>2. /\ stream' \in [Missions -> [Players -> Seq(Events)]]
      /\ cache' \in [Missions -> [Players -> Projections]]
  BY <1>1 DEF StreamTypes
<1>3. ASSUME NEW k \in Missions, NEW r \in Players PROVE StreamInv(stream'[k][r])
  <2>1. CASE k = m /\ r = p
    <3>1. stream'[k][r] = t
      BY <2>1 DEF StreamTypes
    <3> QED
      BY <3>1
  <2>2. CASE ~(k = m /\ r = p)
    <3>1. stream'[k][r] = stream[k][r]
      BY <2>2 DEF StreamTypes
    <3> QED
      BY <3>1 DEF StreamTypes
  <2> QED
    BY <2>1, <2>2
<1> QED
  BY <1>2, <1>3 DEF StreamTypes

\* The head of a queue of messages, and the queue without it.
LEMMA ArrivedTypes ==
  ASSUME WireTypes, NEW a \in Apis, NEW p \in Players, wire[a][p] # <<>>
  PROVE  /\ Head(wire[a][p]) \in Messages
         /\ wire' = [wire EXCEPT ![a][p] = Tail(@)] => WireTypes'
<1>1. wire[a][p] \in Seq(Messages)
  BY DEF WireTypes
<1>2. Head(wire[a][p]) \in Messages /\ Tail(wire[a][p]) \in Seq(Messages)
  BY <1>1, HeadTailProperties
<1>3. PICK u : u = Tail(wire[a][p])
  OBVIOUS
<1>4. wire' = [wire EXCEPT ![a][p] = u] => WireTypes'
  BY <1>2, <1>3 DEF WireTypes
<1> QED
  BY <1>2, <1>3, <1>4

LEMMA StreamsKeepTypes ==
  ASSUME Types, [AnyStep]_vars
  PROVE  StreamTypes'
<1> USE DEF Types
<1>1. CASE UNCHANGED <<stream, cache>>
  BY <1>1 DEF StreamTypes
<1>2. ASSUME NEW p \in Players, NEW m \in Missions, Activate(p, m) PROVE StreamTypes'
  <2>1. Replay(stream[m][p]) \in Projections /\ StreamInv(stream[m][p])
    BY ReplayType DEF StreamTypes
  <2>2. stream' = [stream EXCEPT ![m][p] = stream[m][p]]
    BY <1>2 DEF Activate, StreamTypes
  <2>3. cache' = [cache EXCEPT ![m][p] = Replay(stream[m][p])]
    BY <1>2 DEF Activate
  <2> QED
    BY <2>1, <2>2, <2>3, StreamUpdate
<1>3. ASSUME NEW a \in Apis, NEW p \in Players, NEW m \in Missions, Apply(a, p, m)
      PROVE  StreamTypes'
  <2>1. PICK f : f = Head(wire[a][p]).fact
    OBVIOUS
  <2>2. wire[a][p] # <<>> /\ Head(wire[a][p]).kind = "event"
    BY <1>3 DEF Apply, Arrived
  <2>3. f \in Facts
    BY <2>1, <2>2, ArrivedTypes, MessageParts
  <2>4. Stored(m, p, f) /\ Cached(m, p, f)
    BY <1>3, <2>1 DEF Apply
  <2> QED
    BY <2>3, <2>4, FactTypes, StoredStep, StreamUpdate
<1>4. ASSUME NEW a \in Apis, NEW p \in Players, NEW m \in Missions, Reconcile(a, p, m)
      PROVE  StreamTypes'
  <2>1. wire[a][p] # <<>> /\ Head(wire[a][p]).kind = "sync"
    BY <1>4 DEF Reconcile, Arrived
  <2>2. PICK f : f = SnapshotFact(Head(wire[a][p]).kills)
    OBVIOUS
  <2>3. IsFact(f)
    BY <2>1, <2>2, ArrivedTypes, MessageParts, FactTypes
  <2>4. (Stored(m, p, f) /\ Cached(m, p, f)) \/ UNCHANGED <<stream, cache>>
    BY <1>4, <2>2 DEF Reconcile
  <2> QED
    BY <2>3, <2>4, <1>1, StoredStep, StreamUpdate
<1>5. ASSUME NEW a \in Apis, NEW p \in Players, NEW m \in Missions, Maintain(a, p, m)
      PROVE  StreamTypes'
  <2>1. stream[m][p] \in Seq(Events) /\ StreamInv(stream[m][p]) /\ cache[m][p] \in Projections
    BY DEF StreamTypes
  <2>2. PICK c : c = LET msg == Head(wire[a][p]) IN
                     IF msg.op \in Quests
                     THEN [q \in DOMAIN cache[m][p] \ {msg.op} |-> cache[m][p][q]]
                     ELSE IF msg.op = "rebuild" THEN Replay(stream[m][p]) ELSE cache[m][p]
    OBVIOUS
  <2>3. cache' = [cache EXCEPT ![m][p] = c] /\ stream' = stream
    BY <1>5, <2>2 DEF Maintain
  <2>4. ASSUME NEW x PROVE [q \in DOMAIN cache[m][p] \ {x} |-> cache[m][p][q]] \in Projections
    <3>1. PICK qs \in SUBSET Quests :
            cache[m][p] \in [qs -> [count : Nat, status : {"active"} \cup Settling]]
      BY <2>1 DEF Projections
    <3>2. [q \in DOMAIN cache[m][p] \ {x} |-> cache[m][p][q]]
            \in [qs \ {x} -> [count : Nat, status : {"active"} \cup Settling]]
      BY <3>1
    <3>3. qs \ {x} \in SUBSET Quests
      BY <3>1
    <3> QED
      BY <3>2, <3>3 DEF Projections
  <2>5. c \in Projections
    BY <2>1, <2>2, <2>4, ReplayType
  <2>6. stream' = [stream EXCEPT ![m][p] = stream[m][p]]
    BY <2>3 DEF StreamTypes
  <2> QED
    BY <2>1, <2>3, <2>5, <2>6, StreamUpdate
<1>6. ASSUME NEW m \in Missions, Crash(m) PROVE StreamTypes'
  <2>1. /\ stream' = [stream EXCEPT ![m] = [p \in Players |-> <<>>]]
        /\ cache' = [cache EXCEPT ![m] = [p \in Players |-> Empty]]
    BY <1>6 DEF Crash
  <2>2. [p \in Players |-> <<>>] \in [Players -> Seq(Events)]
    BY EmptyLegal DEF StreamInv
  <2>3. [p \in Players |-> Empty] \in [Players -> Projections]
    BY EmptyLegal
  <2>4. \A k \in Missions, p \in Players :
          stream'[k][p] = IF k = m THEN <<>> ELSE stream[k][p]
    BY <2>1 DEF StreamTypes
  <2>5. \A k \in Missions, p \in Players : StreamInv(stream'[k][p])
    BY <2>4, EmptyLegal DEF StreamTypes
  <2> QED
    BY <2>1, <2>2, <2>3, <2>5 DEF StreamTypes
<1>7. ASSUME Asking PROVE UNCHANGED missionVars
  <2>1. PICK s \in Sessions, p \in Players : AnyPacket(s, p)
    BY <1>7 DEF Asking
  <2>2. ASSUME NEW f, Play(s, p, f) PROVE UNCHANGED missionVars
    BY <2>2 DEF Play
  <2>3. ASSUME NEW n, KillUnpublished(s, p, n) PROVE UNCHANGED missionVars
    BY <2>3 DEF KillUnpublished
  <2>4. ASSUME NEW op, Admin(s, p, op) PROVE UNCHANGED missionVars
    BY <2>4 DEF Admin
  <2>5. CASE Join(s, p) \/ Sync(s, p) \/ AskClose(s, p)
    BY <2>5 DEF Join, Sync, AskClose
  <2> QED
    BY <2>1, <2>2, <2>3, <2>4, <2>5 DEF AnyPacket
<1>8. ASSUME NEW s \in Sessions, Handler(s) \/ Disconnect(s) PROVE UNCHANGED <<stream, cache>>
  BY <1>8 DEF Handler, Synced, Record, Disconnect, missionVars
<1>9. ASSUME NEW p \in Players, NEW m \in Missions, NEW a \in Apis, Close(a, p, m)
      PROVE  UNCHANGED <<stream, cache>>
  BY <1>9 DEF Close
<1>11. ASSUME NEW p \in Players, NEW a \in Apis, CloseDropped(a, p)
       PROVE  UNCHANGED <<stream, cache>>
  BY <1>11 DEF CloseDropped, missionVars
<1>12. ASSUME NEW p \in Players, NEW m \in Missions, Notified(m, p)
       PROVE  UNCHANGED <<stream, cache>>
  BY <1>12 DEF Notified, missionVars
<1>13. ASSUME NEW p \in Players, Expire(p) PROVE UNCHANGED <<stream, cache>>
  BY <1>13 DEF Expire
<1>14. UNCHANGED missionVars => UNCHANGED <<stream, cache>>
  BY DEF missionVars
<1>10. CASE UNCHANGED vars
  BY <1>10, <1>1 DEF vars, missionVars
<1> QED
  BY <1>1, <1>2, <1>3, <1>4, <1>5, <1>6, <1>7, <1>8, <1>9, <1>10,
     <1>11, <1>12, <1>13, <1>14
  DEF AnyStep, ServersNext, OwnerStep

\* A message is put behind those under way.
LEMMA PostTypes ==
  ASSUME WireTypes, NEW s \in Sessions, NEW p \in Players, NEW msg \in Messages, Post(s, p, msg)
  PROVE  WireTypes'
<1>1. PICK a \in Apis : a = SessionApi[s]
  BY ApiOf
<1>2. PICK u : u = Append(wire[a][p], msg)
  OBVIOUS
<1>3. wire[a][p] \in Seq(Messages)
  BY DEF WireTypes
<1>4. u \in Seq(Messages)
  BY <1>2, <1>3, AppendProperties
<1>5. wire' = [wire EXCEPT ![a][p] = u]
  BY <1>1, <1>2 DEF Post
<1> QED
  BY <1>4, <1>5 DEF WireTypes

LEMMA WireKeepsTypes ==
  ASSUME Types, [AnyStep]_vars
  PROVE  WireTypes'
<1> USE DEF Types
<1>1. CASE UNCHANGED wire
  BY <1>1 DEF WireTypes
<1>2. ASSUME Asking PROVE WireTypes'
  <2>1. PICK s \in Sessions, p \in Players : AnyPacket(s, p)
    BY <1>2 DEF Asking
  <2>2. Snapshot(SessionApi[s], p) \in Nat
    BY ApiOf, SnapshotType
  <2>3. CASE Join(s, p)
    <3>1. Post(s, p, SyncMsg(s, Snapshot(SessionApi[s], p))) \/ UNCHANGED wire
      BY <2>3 DEF Join
    <3> QED
      BY <3>1, <2>2, <1>1, MessageTypes, PostTypes
  <2>4. CASE Sync(s, p)
    <3>1. Post(s, p, SyncMsg(s, Snapshot(SessionApi[s], p)))
      BY <2>4 DEF Sync
    <3> QED
      BY <3>1, <2>2, MessageTypes, PostTypes
  <2>5. CASE AskClose(s, p)
    <3>1. Post(s, p, CloseMsg)
      BY <2>5 DEF AskClose
    <3> QED
      BY <3>1, MessageTypes, PostTypes
  <2>6. ASSUME NEW f \in Facts, Play(s, p, f) PROVE WireTypes'
    <3>1. Post(s, p, EventMsg(f))
      BY <2>6 DEF Play
    <3> QED
      BY <3>1, MessageTypes, PostTypes
  <2>7. ASSUME NEW op \in AnyOperation, Admin(s, p, op) PROVE WireTypes'
    <3>1. Post(s, p, AdminMsg(s, op))
      BY <2>7 DEF Admin
    <3> QED
      BY <3>1, MessageTypes, PostTypes
  <2>8. ASSUME NEW n, KillUnpublished(s, p, n) PROVE WireTypes'
    BY <2>8, <1>1 DEF KillUnpublished
  <2> QED
    BY <2>1, <2>3, <2>4, <2>5, <2>6, <2>7, <2>8 DEF AnyPacket
<1>3. ASSUME NEW a \in Apis, NEW p \in Players, wire[a][p] # <<>>,
             wire' = [wire EXCEPT ![a][p] = Tail(@)]
      PROVE  WireTypes'
  BY <1>3, ArrivedTypes
<1>4. ASSUME NEW a \in Apis, NEW p \in Players, NEW m \in Missions,
             Apply(a, p, m) \/ Reconcile(a, p, m) \/ Maintain(a, p, m) \/ Close(a, p, m)
      PROVE  WireTypes'
  BY <1>3, <1>4 DEF Apply, Reconcile, Maintain, Close, Arrived
<1>5. ASSUME NEW a \in Apis, NEW p \in Players, CloseDropped(a, p) PROVE WireTypes'
  BY <1>3, <1>5 DEF CloseDropped
<1>6. ASSUME NEW m \in Missions, Crash(m) PROVE WireTypes'
  <2>1. wire' = [a \in Apis |-> [p \in Players |-> IF owner[p] = m THEN <<>> ELSE wire[a][p]]]
    BY <1>6 DEF Crash
  <2>2. \A a \in Apis, p \in Players :
          (IF owner[p] = m THEN <<>> ELSE wire[a][p]) \in Seq(Messages)
    BY DEF WireTypes
  <2> QED
    BY <2>1, <2>2 DEF WireTypes
<1>7. ASSUME NEW s \in Sessions, Handler(s) \/ Disconnect(s) PROVE WireTypes'
  BY <1>7, <1>1 DEF Handler, Synced, Record, Disconnect
<1>8. ASSUME NEW p \in Players, NEW m \in Missions, Notified(m, p) \/ Activate(p, m)
      PROVE  WireTypes'
  BY <1>8, <1>1 DEF Notified, Activate
<1>9. ASSUME NEW p \in Players, Expire(p) PROVE WireTypes'
  BY <1>9, <1>1 DEF Expire
<1>10. CASE UNCHANGED vars
  BY <1>10, <1>1 DEF vars
<1> QED
  BY <1>2, <1>4, <1>5, <1>6, <1>7, <1>8, <1>9, <1>10 DEF AnyStep, ServersNext, OwnerStep

\* The note of a fact names a quest it completes.
LEMMA NoteType ==
  ASSUME StreamTypes, StreamTypes', NEW m \in Missions, NEW p \in Players, NEW f
  PROVE  /\ NoteOf(m, p, f) \in Notices
         /\ \A q \in Quests :
              NoteOf(m, p, f).completed = q => q \in Completed(m, p, f)
<1>1. stream[m][p] \in Seq(Events)
  BY DEF StreamTypes
<1>2. cache'[m][p] \in Projections
  BY DEF StreamTypes
<1>3. Returned(m, p, f) \in Projections
  BY <1>1, <1>2, ReplayType DEF Returned
<1>4. PICK none : none = None
  OBVIOUS
<1>5. none \notin Quests
  BY <1>4, GameQuestAssumption
<1>6. \A q \in Completed(m, p, f) : q \in Quests
  BY DEF Completed
<1> DEFINE c == IF Completed(m, p, f) = {} THEN None
                ELSE CHOOSE q \in Completed(m, p, f) : TRUE
<1>7. c = None \/ c \in Completed(m, p, f)
  OBVIOUS
<1>8. NoteOf(m, p, f) = [projection |-> Returned(m, p, f), completed |-> c]
  BY DEF NoteOf
<1> HIDE DEF c
<1> QED
  BY <1>3, <1>4, <1>5, <1>6, <1>7, <1>8 DEF Notices

LEMMA NotesKeepTypes ==
  ASSUME Types, StreamTypes', [AnyStep]_vars
  PROVE  NoteTypes'
<1> USE DEF Types
<1>1. CASE UNCHANGED notes
  BY <1>1 DEF NoteTypes
<1>2. ASSUME NEW a \in Apis, NEW p \in Players, NEW m \in Missions, Apply(a, p, m)
      PROVE  NoteTypes'
  <2>1. PICK f : f = Head(wire[a][p]).fact
    OBVIOUS
  <2>2. Notify(m, p, f)
    BY <1>2, <2>1 DEF Apply
  <2>3. CASE notes' # notes
    <3>1. PICK note : note = NoteOf(m, p, f)
      OBVIOUS
    <3>2. note \in Notices
      BY <3>1, NoteType
    <3>3. PICK u : u = Append(notes[m][p], note)
      OBVIOUS
    <3>4. u \in Seq(Notices)
      BY <3>2, <3>3, AppendProperties DEF NoteTypes
    <3>5. notes' = [notes EXCEPT ![m][p] = u]
      BY <2>2, <2>3, <3>1, <3>3 DEF Notify
    <3> QED
      BY <3>4, <3>5 DEF NoteTypes
  <2> QED
    BY <2>3, <1>1
<1>3. ASSUME NEW p \in Players, NEW m \in Missions, Notified(m, p) PROVE NoteTypes'
  <2>1. notes[m][p] \in Seq(Notices) /\ notes[m][p] # <<>>
    BY <1>3 DEF Notified, NoteTypes
  <2>2. PICK u : u = Tail(notes[m][p])
    OBVIOUS
  <2>3. u \in Seq(Notices)
    BY <2>1, <2>2, HeadTailProperties
  <2>4. notes' = [notes EXCEPT ![m][p] = u]
    BY <1>3, <2>2 DEF Notified
  <2> QED
    BY <2>3, <2>4 DEF NoteTypes
<1>4. ASSUME Asking PROVE UNCHANGED notes
  <2>1. PICK s \in Sessions, p \in Players : AnyPacket(s, p)
    BY <1>4 DEF Asking
  <2>2. ASSUME NEW f, Play(s, p, f) PROVE UNCHANGED notes
    BY <2>2 DEF Play
  <2>3. ASSUME NEW n, KillUnpublished(s, p, n) PROVE UNCHANGED notes
    BY <2>3 DEF KillUnpublished
  <2>4. ASSUME NEW op, Admin(s, p, op) PROVE UNCHANGED notes
    BY <2>4 DEF Admin
  <2>5. CASE Join(s, p) \/ Sync(s, p) \/ AskClose(s, p)
    BY <2>5 DEF Join, Sync, AskClose
  <2> QED
    BY <2>1, <2>2, <2>3, <2>4, <2>5 DEF AnyPacket
<1>5. ASSUME NEW s \in Sessions, Handler(s) \/ Disconnect(s) PROVE UNCHANGED notes
  BY <1>5 DEF Handler, Synced, Record, Disconnect
<1>6. ASSUME NEW a \in Apis, NEW p \in Players, NEW m \in Missions,
             Reconcile(a, p, m) \/ Maintain(a, p, m) \/ Close(a, p, m) \/ Activate(p, m)
      PROVE  UNCHANGED notes
  BY <1>6 DEF Reconcile, Maintain, Close, Activate
<1>7. ASSUME NEW a \in Apis, NEW p \in Players, CloseDropped(a, p) PROVE UNCHANGED notes
  BY <1>7 DEF CloseDropped
<1>8. ASSUME NEW p \in Players, NEW m \in Missions, Activate(p, m) PROVE UNCHANGED notes
  BY <1>8 DEF Activate
<1>9. ASSUME NEW p \in Players, Expire(p) PROVE UNCHANGED notes
  BY <1>9 DEF Expire
<1>10. ASSUME NEW m \in Missions, Crash(m) PROVE UNCHANGED notes
  BY <1>10 DEF Crash
<1>11. CASE UNCHANGED vars
  BY <1>11, <1>1 DEF vars
<1> QED
  BY <1>1, <1>2, <1>3, <1>4, <1>5, <1>6, <1>7, <1>8, <1>9, <1>10, <1>11
  DEF AnyStep, ServersNext, OwnerStep

\* A session is replaced by another state of a session.
SessionState(x) ==
  /\ x \in SessionStates
  /\ x.doing # "idle" => x.of \in Players
  /\ x.doing = "recording" => x.fact \in Facts

LEMMA SessionUpdate ==
  ASSUME SessionTypes, NEW s \in Sessions, NEW x, SessionState(x),
         session' = [session EXCEPT ![s] = x]
  PROVE  SessionTypes'
BY DEF SessionTypes, SessionState

LEMMA DoingState ==
  ASSUME SessionTypes, NEW s \in Sessions, NEW p \in Players,
         NEW what \in {"joining", "syncing", "admin"}
  PROVE  SessionState(Doing(s, what, p))
<1>1. session[s] \in SessionStates
  BY DEF SessionTypes
<1> QED
  BY <1>1 DEF Doing, SessionState, SessionStates

LEMMA IdleState ==
  /\ SessionState(Idle)
  /\ \A p \in Players \cup {None} : SessionState([Idle EXCEPT !.player = p])
BY DEF Idle, SessionState, SessionStates

LEMMA FreedTypes ==
  ASSUME SessionTypes, NEW s \in Sessions
  PROVE  /\ session' = Freed(s) => SessionTypes'
         /\ SessionState(Freed(s)[s])
<1>1. session[s] \in SessionStates
  BY DEF SessionTypes
<1>2. PICK x : x = [Idle EXCEPT !.player = session[s].player]
  OBVIOUS
<1>3. SessionState(x)
  BY <1>1, <1>2, IdleState DEF SessionStates
<1>4. Freed(s) = [session EXCEPT ![s] = x]
  BY <1>2 DEF Freed
<1>5. Freed(s)[s] = x
  BY <1>4 DEF SessionTypes
<1> QED
  BY <1>3, <1>4, <1>5, SessionUpdate

LEMMA ReplyTypes ==
  ASSUME SessionTypes, NEW s \in Sessions, NEW y \in Projections, Reply(s, y)
  PROVE  SessionTypes'
<1>1. PICK x : x = [session[s] EXCEPT !.reply = y]
  OBVIOUS
<1>2. SessionState(session[s])
  BY DEF SessionTypes, SessionState
<1>3. SessionState(x)
  BY <1>1, <1>2 DEF SessionState, SessionStates
<1>4. session' = [session EXCEPT ![s] = x]
  BY <1>1 DEF Reply
<1> QED
  BY <1>3, <1>4, SessionUpdate

LEMMA SessionsKeepTypes ==
  ASSUME Types, StreamTypes', [AnyStep]_vars
  PROVE  SessionTypes'
<1> USE DEF Types
<1>1. CASE UNCHANGED session
  BY <1>1 DEF SessionTypes
<1>2. ASSUME Asking PROVE SessionTypes'
  <2>1. PICK s \in Sessions, p \in Players : AnyPacket(s, p)
    BY <1>2 DEF Asking
  <2>2. CASE Join(s, p)
    <3>1. PICK y : y = IF Reachable(p) THEN Doing(s, "joining", p) ELSE Idle
      OBVIOUS
    <3>2. SessionState(y)
      BY <3>1, DoingState, IdleState
    <3>3. PICK x : x = [y EXCEPT !.player = p]
      OBVIOUS
    <3>4. SessionState(x)
      BY <3>2, <3>3 DEF SessionState, SessionStates
    <3>5. session' = [session EXCEPT ![s] = x]
      BY <2>2, <3>1, <3>3 DEF Join
    <3> QED
      BY <3>4, <3>5, SessionUpdate
  <2>3. CASE Sync(s, p)
    <3>1. session' = [session EXCEPT ![s] = Doing(s, "syncing", p)]
      BY <2>3 DEF Sync
    <3>2. SessionState(Doing(s, "syncing", p))
      BY DoingState
    <3> QED
      BY <3>1, <3>2, SessionUpdate
  <2>4. ASSUME NEW op, Admin(s, p, op) PROVE SessionTypes'
    <3>1. session' = [session EXCEPT ![s] = Doing(s, "admin", p)]
      BY <2>4 DEF Admin
    <3>2. SessionState(Doing(s, "admin", p))
      BY DoingState
    <3> QED
      BY <3>1, <3>2, SessionUpdate
  <2>5. ASSUME NEW f \in Facts, Play(s, p, f) PROVE SessionTypes'
    <3>1. session[s] \in SessionStates
      BY DEF SessionTypes
    <3>2. PICK x : x = [Doing(s, "recording", p) EXCEPT !.fact = f]
      OBVIOUS
    <3>3. SessionState(x)
      BY <3>1, <3>2 DEF Doing, SessionState, SessionStates
    <3>4. session' = [session EXCEPT ![s] = x]
      BY <2>5, <3>2 DEF Play
    <3> QED
      BY <3>3, <3>4, SessionUpdate
  <2>6. CASE AskClose(s, p)
    BY <2>6, <1>1 DEF AskClose
  <2>7. ASSUME NEW n, KillUnpublished(s, p, n) PROVE SessionTypes'
    BY <2>7, <1>1 DEF KillUnpublished
  <2> QED
    BY <2>1, <2>2, <2>3, <2>4, <2>5, <2>6, <2>7 DEF AnyPacket
<1>3. ASSUME NEW s \in Sessions, Handler(s) PROVE SessionTypes'
  <2>1. session' = Freed(s)
    BY <1>3 DEF Handler, Synced, Record
  <2> QED
    BY <2>1, FreedTypes
<1>4. ASSUME NEW s \in Sessions, Disconnect(s) PROVE SessionTypes'
  <2>1. session' = [session EXCEPT ![s] = Idle]
    BY <1>4 DEF Disconnect
  <2> QED
    BY <2>1, IdleState, SessionUpdate
<1>5. ASSUME NEW a \in Apis, NEW p \in Players, NEW m \in Missions, Reconcile(a, p, m)
      PROVE  SessionTypes'
  <2>1. wire[a][p] # <<>> /\ Head(wire[a][p]).kind = "sync"
    BY <1>5 DEF Reconcile, Arrived
  <2>2. PICK s : s = Head(wire[a][p]).from
    OBVIOUS
  <2>3. s \in Sessions
    BY <2>1, <2>2, ArrivedTypes, MessageParts
  <2>4. cache[m][p] \in Projections
    BY DEF StreamTypes
  <2>5. PICK y : y = cache'[m][p]
    OBVIOUS
  <2>6. y \in Projections
    BY <2>5 DEF StreamTypes
  <2>7. Reply(s, cache[m][p]) \/ Reply(s, y)
    BY <1>5, <2>2, <2>5 DEF Reconcile
  <2> QED
    BY <2>3, <2>4, <2>6, <2>7, ReplyTypes
<1>6. ASSUME NEW a \in Apis, NEW p \in Players, NEW m \in Missions, Maintain(a, p, m)
      PROVE  SessionTypes'
  <2>1. wire[a][p] # <<>> /\ Head(wire[a][p]).kind = "admin"
    BY <1>6 DEF Maintain, Arrived
  <2>2. PICK s : s = Head(wire[a][p]).from
    OBVIOUS
  <2>3. s \in Sessions
    BY <2>1, <2>2, ArrivedTypes, MessageParts
  <2>4. session' = Freed(s)
    BY <1>6, <2>2 DEF Maintain
  <2> QED
    BY <2>3, <2>4, FreedTypes
<1>7. ASSUME NEW m \in Missions, Crash(m) PROVE SessionTypes'
  <2>1. \A s \in Sessions : SessionState(session[s]) /\ SessionState(Freed(s)[s])
    BY FreedTypes DEF SessionTypes, SessionState
  <2>2. \A s \in Sessions : session'[s] = session[s] \/ session'[s] = Freed(s)[s]
    BY <1>7 DEF Crash
  <2>3. \A s \in Sessions : SessionState(session'[s])
    BY <2>1, <2>2
  <2>4. session' = [s \in Sessions |-> session'[s]]
    BY <1>7 DEF Crash
  <2> QED
    BY <2>3, <2>4 DEF SessionTypes, SessionState
<1>8. ASSUME NEW a \in Apis, NEW p \in Players, NEW m \in Missions,
             Apply(a, p, m) \/ Close(a, p, m)
      PROVE  UNCHANGED session
  BY <1>8 DEF Apply, Close
<1>9. ASSUME NEW a \in Apis, NEW p \in Players, CloseDropped(a, p) PROVE UNCHANGED session
  BY <1>9 DEF CloseDropped
<1>10. ASSUME NEW p \in Players, NEW m \in Missions, Activate(p, m) \/ Notified(m, p)
       PROVE  UNCHANGED session
  BY <1>10 DEF Activate, Notified
<1>11. ASSUME NEW p \in Players, Expire(p) PROVE UNCHANGED session
  BY <1>11 DEF Expire
<1>12. CASE UNCHANGED vars
  BY <1>12, <1>1 DEF vars
<1> QED
  BY <1>1, <1>2, <1>3, <1>4, <1>5, <1>6, <1>7, <1>8, <1>9, <1>10, <1>11, <1>12
  DEF AnyStep, ServersNext, OwnerStep

LEMMA PlacesKeepTypes ==
  ASSUME Types, [AnyStep]_vars
  PROVE  PlaceTypes'
<1> USE DEF Types
<1>1. CASE UNCHANGED <<up, owner, home, bound, homes>>
  BY <1>1 DEF PlaceTypes
<1>2. ASSUME Asking PROVE PlaceTypes'
  <2>1. PICK s \in Sessions, p \in Players : AnyPacket(s, p)
    BY <1>2 DEF Asking
  <2>2. CASE Join(s, p)
    <3>1. /\ home' = [home EXCEPT ![p] = IF @ = None THEN SessionApi[s] ELSE @]
          /\ bound' = [bound EXCEPT ![p] = s]
          /\ UNCHANGED <<up, owner, homes>>
      BY <2>2 DEF Join, missionVars
    <3>2. home' \in [Players -> Apis \cup {None}] /\ bound' \in [Players -> Sessions \cup {None}]
      BY <3>1, ApiOf DEF PlaceTypes
    <3> QED
      BY <3>1, <3>2 DEF PlaceTypes
  <2>3. ASSUME NEW f, Play(s, p, f) PROVE PlaceTypes'
    BY <2>3, <1>1 DEF Play, missionVars, apiVars
  <2>4. ASSUME NEW n, KillUnpublished(s, p, n) PROVE PlaceTypes'
    BY <2>4, <1>1 DEF KillUnpublished, missionVars
  <2>5. ASSUME NEW op, Admin(s, p, op) PROVE PlaceTypes'
    BY <2>5, <1>1 DEF Admin, missionVars, apiVars
  <2>6. CASE Sync(s, p) \/ AskClose(s, p)
    BY <2>6, <1>1 DEF Sync, AskClose, missionVars, apiVars
  <2> QED
    BY <2>1, <2>2, <2>3, <2>4, <2>5, <2>6 DEF AnyPacket
<1>3. ASSUME NEW s \in Sessions, Handler(s) PROVE PlaceTypes'
  BY <1>3, <1>1 DEF Handler, Synced, Record, missionVars
<1>4. ASSUME NEW s \in Sessions, Disconnect(s) PROVE PlaceTypes'
  <2>1. /\ bound' = [bound EXCEPT ![session[s].player] = IF @ = s THEN None ELSE @]
        /\ UNCHANGED <<up, owner, home, homes>>
    BY <1>4 DEF Disconnect, missionVars
  <2>2. bound' \in [Players -> Sessions \cup {None}]
    BY <2>1 DEF PlaceTypes
  <2> QED
    BY <2>1, <2>2 DEF PlaceTypes
<1>5. ASSUME NEW p \in Players, NEW m \in Missions, Activate(p, m) PROVE PlaceTypes'
  <2>1. /\ owner' = [owner EXCEPT ![p] = m]
        /\ homes' = [homes EXCEPT ![p] = @ \cup {m}]
        /\ UNCHANGED <<up, home, bound>>
    BY <1>5 DEF Activate, apiVars
  <2>2. IsFiniteSet(homes[p] \cup {m})
    BY FS_AddElement DEF PlaceTypes
  <2> QED
    BY <2>1, <2>2 DEF PlaceTypes
<1>6. ASSUME NEW p \in Players, NEW x \in {None, Gone}, owner' = [owner EXCEPT ![p] = x],
             UNCHANGED <<up, home, bound, homes>>
      PROVE  PlaceTypes'
  BY <1>6 DEF PlaceTypes
<1>7. ASSUME NEW a \in Apis, NEW p \in Players, NEW m \in Missions, Maintain(a, p, m)
      PROVE  PlaceTypes'
  <2>1. /\ owner' = [owner EXCEPT ![p] = IF Head(wire[a][p]).op = "deactivate" THEN None ELSE @]
        /\ UNCHANGED <<up, home, bound, homes>>
    BY <1>7 DEF Maintain, apiVars
  <2> QED
    BY <2>1 DEF PlaceTypes
<1>8. ASSUME NEW a \in Apis, NEW p \in Players, NEW m \in Missions, Close(a, p, m)
      PROVE  PlaceTypes'
  BY <1>8, <1>6 DEF Close, apiVars
<1>9. ASSUME NEW p \in Players, Expire(p) PROVE PlaceTypes'
  BY <1>9, <1>6 DEF Expire, apiVars
<1>10. ASSUME NEW m \in Missions, Crash(m) PROVE PlaceTypes'
  <2>1. /\ up' = up \ {m}
        /\ owner' = [p \in Players |-> IF owner[p] = m THEN Gone ELSE owner[p]]
        /\ UNCHANGED <<home, bound, homes>>
    BY <1>10 DEF Crash, apiVars
  <2> QED
    BY <2>1 DEF PlaceTypes
<1>11. ASSUME NEW a \in Apis, NEW p \in Players, NEW m \in Missions,
             Apply(a, p, m) \/ Reconcile(a, p, m)
      PROVE  PlaceTypes'
  BY <1>11, <1>1 DEF Apply, Reconcile, apiVars
<1>12. ASSUME NEW a \in Apis, NEW p \in Players, CloseDropped(a, p) PROVE PlaceTypes'
  BY <1>12, <1>1 DEF CloseDropped, missionVars, apiVars
<1>13. ASSUME NEW p \in Players, NEW m \in Missions, Notified(m, p) PROVE PlaceTypes'
  BY <1>13, <1>1 DEF Notified, missionVars
<1>14. CASE UNCHANGED vars
  BY <1>14, <1>1 DEF vars, missionVars, apiVars
<1> QED
  BY <1>2, <1>3, <1>4, <1>5, <1>7, <1>8, <1>9, <1>10, <1>11, <1>12, <1>13, <1>14
  DEF AnyStep, ServersNext, OwnerStep

LEMMA CountsKeepTypes ==
  ASSUME Types, [AnyStep]_vars
  PROVE  CountTypes'
<1> USE DEF Types
<1>1. CASE UNCHANGED <<recorded, unpublished, told>>
  BY <1>1 DEF CountTypes
<1>2. ASSUME Asking PROVE CountTypes'
  <2>1. PICK s \in Sessions, p \in Players : AnyPacket(s, p)
    BY <1>2 DEF Asking
  <2>2. ASSUME NEW n \in Nat, KillUnpublished(s, p, n) PROVE CountTypes'
    <3>1. PICK a \in Apis : a = SessionApi[s]
      BY ApiOf
    <3>2. n \in Nat
      BY GameQuestAssumption
    <3>3. unpublished' = [unpublished EXCEPT ![a][p] = @ + n] /\ UNCHANGED <<recorded, told>>
      BY <2>2, <3>1 DEF KillUnpublished
    <3>4. PICK x : x = unpublished[a][p] + n
      OBVIOUS
    <3>5. x \in Nat
      BY <3>2, <3>4 DEF CountTypes
    <3>6. unpublished' = [unpublished EXCEPT ![a][p] = x]
      BY <3>3, <3>4
    <3>7. unpublished' \in [Apis -> [Players -> Nat]]
      BY <3>5, <3>6 DEF CountTypes
    <3> QED
      BY <3>3, <3>7 DEF CountTypes
  <2>3. ASSUME NEW f, Play(s, p, f) PROVE CountTypes'
    BY <2>3, <1>1 DEF Play, apiVars
  <2>4. ASSUME NEW op, Admin(s, p, op) PROVE CountTypes'
    BY <2>4, <1>1 DEF Admin, apiVars
  <2>5. CASE Sync(s, p) \/ AskClose(s, p) \/ Join(s, p)
    BY <2>5, <1>1 DEF Sync, AskClose, Join, apiVars
  <2> QED
    BY <2>1, <2>2, <2>3, <2>4, <2>5 DEF AnyPacket
<1>3. ASSUME NEW s \in Sessions, Record(s) PROVE CountTypes'
  <2>1. PICK a \in Apis : a = SessionApi[s]
    BY ApiOf
  <2>2. PICK p \in Players : p = session[s].of
    BY <1>3 DEF Record, SessionTypes
  <2>3. session[s].fact \in Facts
    BY <1>3 DEF Record, SessionTypes
  <2>4. PICK x : x = recorded[a][p] \cup {session[s].fact}
    OBVIOUS
  <2>5. x \in SUBSET Facts /\ IsFiniteSet(x)
    <3>1. recorded[a][p] \in SUBSET Facts /\ IsFiniteSet(recorded[a][p])
      BY DEF CountTypes
    <3> QED
      BY <3>1, <2>3, <2>4, FS_AddElement
  <2>6. recorded' = [recorded EXCEPT ![a][p] = x] /\ UNCHANGED <<unpublished, told>>
    BY <1>3, <2>1, <2>2, <2>4 DEF Record
  <2>7. recorded' \in [Apis -> [Players -> SUBSET Facts]]
    BY <2>5, <2>6 DEF CountTypes
  <2>8. \A b \in Apis, r \in Players : recorded'[b][r] = x \/ recorded'[b][r] = recorded[b][r]
    BY <2>6 DEF CountTypes
  <2>9. \A b \in Apis, r \in Players : IsFiniteSet(recorded'[b][r])
    BY <2>5, <2>8 DEF CountTypes
  <2> QED
    BY <2>6, <2>7, <2>9 DEF CountTypes
<1>4. ASSUME NEW s \in Sessions, Synced(s) \/ Disconnect(s) PROVE CountTypes'
  BY <1>4, <1>1 DEF Synced, Disconnect
<1>5. ASSUME NEW p \in Players, NEW m \in Missions, Notified(m, p) PROVE CountTypes'
  <2>1. UNCHANGED <<recorded, unpublished>>
    BY <1>5 DEF Notified
  <2>2. PICK q : q = Head(notes[m][p]).completed
    OBVIOUS
  <2>3. told' = told \/ (q # None /\ told' = [told EXCEPT ![p][q] = @ + 1])
    BY <1>5, <2>2 DEF Notified
  <2>4. q \in Quests \cup {None}
    <3>1. notes[m][p] # <<>> /\ notes[m][p] \in Seq(Notices)
      BY <1>5 DEF Notified, NoteTypes
    <3>2. Head(notes[m][p]) \in Notices
      BY <3>1, HeadTailProperties
    <3> QED
      BY <2>2, <3>2 DEF Notices
  <2>5. told' \in [Players -> [Quests -> Nat]]
    <3>1. CASE told' = told
      BY <3>1 DEF CountTypes
    <3>2. CASE q # None /\ told' = [told EXCEPT ![p][q] = @ + 1]
      <4>1. q \in Quests
        BY <3>2, <2>4
      <4>2. PICK x : x = told[p][q] + 1
        OBVIOUS
      <4>3. x \in Nat /\ told' = [told EXCEPT ![p][q] = x]
        BY <3>2, <4>1, <4>2 DEF CountTypes
      <4> QED
        BY <4>1, <4>3 DEF CountTypes
    <3> QED
      BY <2>3, <3>1, <3>2
  <2> QED
    BY <2>1, <2>5 DEF CountTypes
<1>6. ASSUME NEW a \in Apis, NEW p \in Players, NEW m \in Missions,
             \/ Apply(a, p, m) \/ Reconcile(a, p, m) \/ Maintain(a, p, m)
             \/ Close(a, p, m)
      PROVE  CountTypes'
  BY <1>6, <1>1 DEF Apply, Reconcile, Maintain, Close, apiVars
<1>7. ASSUME NEW a \in Apis, NEW p \in Players, CloseDropped(a, p) PROVE CountTypes'
  BY <1>7, <1>1 DEF CloseDropped, apiVars
<1>8. ASSUME NEW p \in Players, NEW m \in Missions, Activate(p, m) PROVE CountTypes'
  BY <1>8, <1>1 DEF Activate, apiVars
<1>9. ASSUME NEW p \in Players, Expire(p) PROVE CountTypes'
  BY <1>9, <1>1 DEF Expire, apiVars
<1>10. ASSUME NEW m \in Missions, Crash(m) PROVE CountTypes'
  BY <1>10, <1>1 DEF Crash, apiVars
<1>11. CASE UNCHANGED vars
  BY <1>11, <1>1 DEF vars, apiVars
<1> QED
  BY <1>2, <1>3, <1>4, <1>5, <1>6, <1>7, <1>8, <1>9, <1>10, <1>11
  DEF AnyStep, ServersNext, OwnerStep, Handler

LEMMA StepTypes ==
  ASSUME Types, [AnyStep]_vars
  PROVE  Types'
BY StreamsKeepTypes, WireKeepsTypes, NotesKeepTypes, SessionsKeepTypes, PlacesKeepTypes,
   CountsKeepTypes DEF Types

-----------------------------------------------------------------------------
(* Steps that leave the missions alone *)

LEMMA ClientQuiet == Asking => UNCHANGED <<missionVars, notes, homes, told>>
<1> SUFFICES ASSUME Asking PROVE UNCHANGED <<missionVars, notes, homes, told>>
  OBVIOUS
<1>1. PICK s \in Sessions, p \in Players : AnyPacket(s, p)
  BY DEF Asking
<1>2. CASE Join(s, p) \/ Sync(s, p) \/ AskClose(s, p)
  BY <1>2 DEF Join, Sync, AskClose
<1>3. ASSUME NEW f, Play(s, p, f) PROVE UNCHANGED <<missionVars, notes, homes, told>>
  BY <1>3 DEF Play
<1>4. ASSUME NEW n, KillUnpublished(s, p, n)
      PROVE  UNCHANGED <<missionVars, notes, homes, told>>
  BY <1>4 DEF KillUnpublished
<1>5. ASSUME NEW op, Admin(s, p, op) PROVE UNCHANGED <<missionVars, notes, homes, told>>
  BY <1>5 DEF Admin
<1> QED
  BY <1>1, <1>2, <1>3, <1>4, <1>5 DEF AnyPacket

LEMMA SessionQuiet ==
  ASSUME NEW s \in Sessions, Handler(s) \/ Disconnect(s)
  PROVE  UNCHANGED <<missionVars, wire, notes, homes, told, home>>
BY DEF Handler, Synced, Record, Disconnect

\* Streams only grow, except on a process that dies.
LEMMA StreamsGrow ==
  ASSUME Types, [AnyStep]_vars
  PROVE  \/ \E m \in Missions : Crash(m)
         \/ \A k \in Missions, r \in Players :
              /\ \A g : Applied(stream[k][r], g) => Applied(stream'[k][r], g)
              /\ \A q : Granted(stream[k][r], q) => Granted(stream'[k][r], q)
<1> DEFINE Grow ==
      \A k \in Missions, r \in Players :
        /\ \A g : Applied(stream[k][r], g) => Applied(stream'[k][r], g)
        /\ \A q : Granted(stream[k][r], q) => Granted(stream'[k][r], q)
<1>1. stream' = stream => Grow
  OBVIOUS
<1>2. ASSUME NEW m \in Missions, NEW p \in Players, NEW f, IsFact(f),
             Stored(m, p, f), Cached(m, p, f)
      PROVE  Grow
  <2>1. PICK t : /\ stream' = [stream EXCEPT ![m][p] = t]
                 /\ \A g : Applied(stream[m][p], g) => Applied(t, g)
                 /\ \A q : Granted(stream[m][p], q) => Granted(t, q)
    BY <1>2, StoredStep DEF Types
  <2>2. \A k \in Missions, r \in Players :
          stream'[k][r] = stream[k][r] \/ (k = m /\ r = p /\ stream'[k][r] = t)
    BY <2>1 DEF Types, StreamTypes
  <2> QED
    BY <2>1, <2>2
<1> HIDE DEF Grow
<1>3. ASSUME NEW a \in Apis, NEW p \in Players, NEW m \in Missions, Apply(a, p, m) PROVE Grow
  <2>1. PICK f : f = Head(wire[a][p]).fact
    OBVIOUS
  <2>2. wire[a][p] # <<>> /\ Head(wire[a][p]).kind = "event" /\ Stored(m, p, f) /\ Cached(m, p, f)
    BY <1>3, <2>1 DEF Apply, Arrived
  <2> QED
    BY <2>1, <2>2, <1>2, ArrivedTypes, MessageParts, FactTypes DEF Types
<1>4. ASSUME NEW a \in Apis, NEW p \in Players, NEW m \in Missions, Reconcile(a, p, m)
      PROVE  Grow
  <2>1. PICK f : f = SnapshotFact(Head(wire[a][p]).kills)
    OBVIOUS
  <2>2. /\ wire[a][p] # <<>> /\ Head(wire[a][p]).kind = "sync"
        /\ (Stored(m, p, f) /\ Cached(m, p, f)) \/ stream' = stream
    BY <1>4, <2>1 DEF Reconcile, Arrived
  <2> QED
    BY <2>1, <2>2, <1>1, <1>2, ArrivedTypes, MessageParts, FactTypes DEF Types
<1>5. ASSUME NEW a \in Apis, NEW p \in Players, NEW m \in Missions,
             Maintain(a, p, m) \/ Close(a, p, m) \/ Activate(p, m)
      PROVE  stream' = stream
  BY <1>5 DEF Maintain, Close, Activate
<1>6. ASSUME NEW p \in Players, NEW m \in Missions, Activate(p, m) PROVE stream' = stream
  BY <1>6 DEF Activate
<1>7. ASSUME NEW a \in Apis, NEW p \in Players, CloseDropped(a, p) PROVE stream' = stream
  BY <1>7 DEF CloseDropped, missionVars
<1>8. ASSUME NEW p \in Players, Expire(p) PROVE stream' = stream
  BY <1>8 DEF Expire
<1>9. ASSUME NEW p \in Players, NEW m \in Missions, Notified(m, p) PROVE stream' = stream
  BY <1>9 DEF Notified, missionVars
<1>10. Asking \/ (\E s \in Sessions : Handler(s) \/ Disconnect(s)) => stream' = stream
  BY ClientQuiet, SessionQuiet DEF missionVars
<1>11. UNCHANGED vars => stream' = stream
  BY DEF vars, missionVars
<1>12. Grow \/ \E m \in Missions : Crash(m)
  BY <1>1, <1>3, <1>4, <1>5, <1>6, <1>7, <1>8, <1>9, <1>10, <1>11
  DEF AnyStep, ServersNext, OwnerStep
<1> QED
  BY <1>12 DEF Grow

\* A stream changes by a message that its owner handles, or is lost.
LEMMA StreamStep ==
  ASSUME Types, [AnyStep]_vars, NEW m \in Missions, NEW p \in Players
  PROVE  \/ stream'[m][p] = stream[m][p]
         \/ Crash(m) /\ stream'[m][p] = <<>>
         \/ owner[p] = m /\ \E a \in Apis : Apply(a, p, m) \/ Reconcile(a, p, m)
<1> DEFINE Same == stream'[m][p] = stream[m][p]
<1>1. ASSUME NEW k \in Missions, NEW r \in Players, NEW f, Stored(k, r, f), ~(k = m /\ r = p)
      PROVE  Same
  <2>1. PICK t : stream' = stream \/ stream' = [stream EXCEPT ![k][r] = t]
    BY <1>1 DEF Stored
  <2> QED
    BY <2>1, <1>1, ZenonT(60) DEF Types, StreamTypes
<1>2. ASSUME NEW a \in Apis, NEW r \in Players, NEW k \in Missions,
             Apply(a, r, k) \/ Reconcile(a, r, k)
      PROVE  Same \/ (owner[p] = m /\ \E b \in Apis : Apply(b, p, m) \/ Reconcile(b, p, m))
  <2>1. owner[r] = k /\ (stream' = stream \/ \E f : Stored(k, r, f))
    BY <1>2 DEF Apply, Reconcile, Arrived
  <2>2. CASE k = m /\ r = p
    BY <2>1, <2>2, <1>2
  <2>3. CASE ~(k = m /\ r = p)
    BY <2>1, <2>3, <1>1
  <2> QED
    BY <2>2, <2>3
<1>3. ASSUME NEW k \in Missions, Crash(k) PROVE Same \/ (Crash(m) /\ stream'[m][p] = <<>>)
  <2>1. stream' = [stream EXCEPT ![k] = [r \in Players |-> <<>>]]
    BY <1>3 DEF Crash
  <2> QED
    BY <2>1, <1>3 DEF Types, StreamTypes
<1>4. ASSUME NEW a \in Apis, NEW r \in Players, NEW k \in Missions,
             Maintain(a, r, k) \/ Close(a, r, k) \/ Activate(r, k)
      PROVE  stream' = stream
  BY <1>4 DEF Maintain, Close, Activate
<1>5. ASSUME NEW r \in Players, NEW k \in Missions, Activate(r, k) PROVE stream' = stream
  BY <1>5 DEF Activate
<1>6. ASSUME NEW a \in Apis, NEW r \in Players, CloseDropped(a, r) PROVE stream' = stream
  BY <1>6 DEF CloseDropped, missionVars
<1>7. ASSUME NEW r \in Players, Expire(r) PROVE stream' = stream
  BY <1>7 DEF Expire
<1>8. ASSUME NEW r \in Players, NEW k \in Missions, Notified(k, r) PROVE stream' = stream
  BY <1>8 DEF Notified, missionVars
<1>9. Asking \/ (\E s \in Sessions : Handler(s) \/ Disconnect(s)) => stream' = stream
  BY ClientQuiet, SessionQuiet DEF missionVars
<1>10. UNCHANGED vars => stream' = stream
  BY DEF vars, missionVars
<1>11. stream' = stream => Same
  OBVIOUS
<1> HIDE DEF Same
<1>12. Same \/ (Crash(m) /\ stream'[m][p] = <<>>)
       \/ (owner[p] = m /\ \E b \in Apis : Apply(b, p, m) \/ Reconcile(b, p, m))
  BY <1>2, <1>3, <1>4, <1>5, <1>6, <1>7, <1>8, <1>9, <1>10, <1>11
  DEF AnyStep, ServersNext, OwnerStep
<1> QED
  BY <1>12 DEF Same

LEMMA UpLoses ==
  ASSUME [AnyStep]_vars
  PROVE  up' = up \/ \E k \in Missions : Crash(k)
<1>1. ASSUME NEW r \in Players, NEW k \in Missions, Activate(r, k) PROVE up' = up
  BY <1>1 DEF Activate
<1>2. ASSUME NEW a \in Apis, NEW r \in Players, NEW k \in Missions,
             \/ Apply(a, r, k) \/ Reconcile(a, r, k) \/ Maintain(a, r, k)
             \/ Close(a, r, k)
      PROVE  up' = up
  BY <1>2 DEF Apply, Reconcile, Maintain, Close
<1>3. ASSUME NEW a \in Apis, NEW r \in Players, CloseDropped(a, r) PROVE up' = up
  BY <1>3 DEF CloseDropped, missionVars
<1>4. ASSUME NEW r \in Players, Expire(r) PROVE up' = up
  BY <1>4 DEF Expire
<1>5. ASSUME NEW r \in Players, NEW k \in Missions, Notified(k, r) PROVE up' = up
  BY <1>5 DEF Notified, missionVars
<1>6. Asking \/ (\E s \in Sessions : Handler(s) \/ Disconnect(s)) => up' = up
  BY ClientQuiet, SessionQuiet DEF missionVars
<1>7. UNCHANGED vars => up' = up
  BY DEF vars, missionVars
<1> QED
  BY <1>1, <1>2, <1>3, <1>4, <1>5, <1>6, <1>7 DEF AnyStep, ServersNext, OwnerStep

LEMMA UpShrinks == [AnyStep]_vars => up' \subseteq up
BY UpLoses DEF Crash

\* The processes that owned a player are remembered.
LEMMA HomesGrow ==
  ASSUME Types, [AnyStep]_vars, NEW p \in Players
  PROVE  \A m \in Missions : m \in homes[p] => m \in homes'[p]
<1>1. ASSUME NEW r \in Players, NEW k \in Missions, Activate(r, k)
      PROVE  \A m \in Missions : m \in homes[p] => m \in homes'[p]
  BY <1>1 DEF Activate, Types, PlaceTypes
<1>2. ASSUME NEW a \in Apis, NEW r \in Players, NEW k \in Missions,
             \/ Apply(a, r, k) \/ Reconcile(a, r, k) \/ Maintain(a, r, k)
             \/ Close(a, r, k)
      PROVE  homes' = homes
  BY <1>2 DEF Apply, Reconcile, Maintain, Close
<1>3. ASSUME NEW a \in Apis, NEW r \in Players, CloseDropped(a, r) PROVE homes' = homes
  BY <1>3 DEF CloseDropped
<1>4. ASSUME NEW r \in Players, Expire(r) PROVE homes' = homes
  BY <1>4 DEF Expire
<1>5. ASSUME NEW r \in Players, NEW k \in Missions, Notified(k, r) PROVE homes' = homes
  BY <1>5 DEF Notified
<1>6. ASSUME NEW k \in Missions, Crash(k) PROVE homes' = homes
  BY <1>6 DEF Crash
<1>7. Asking \/ (\E s \in Sessions : Handler(s) \/ Disconnect(s)) => homes' = homes
  BY ClientQuiet, SessionQuiet
<1>8. UNCHANGED vars => homes' = homes
  BY DEF vars
<1> QED
  BY <1>1, <1>2, <1>3, <1>4, <1>5, <1>6, <1>7, <1>8 DEF AnyStep, ServersNext, OwnerStep

-----------------------------------------------------------------------------
(* The owners, and the actors that hear of facts *)

Owned ==
  \A p \in Players : owner[p] \in Missions => owner[p] \in up /\ owner[p] \in homes[p]

Heard ==
  \A m \in Missions, p \in Players : notes[m][p] # <<>> => home[p] \in Apis

LEMMA StepOwned ==
  ASSUME Types, Owned, [AnyStep]_vars
  PROVE  Owned'
<1> USE GameQuestAssumption DEF Types, PlaceTypes
<1>1. UNCHANGED <<up, owner, homes>> => Owned'
  BY DEF Owned
<1>2. ASSUME NEW p \in Players, NEW m \in Missions, Activate(p, m) PROVE Owned'
  <2>1. /\ m \in up /\ up' = up
        /\ owner' = [owner EXCEPT ![p] = m] /\ homes' = [homes EXCEPT ![p] = @ \cup {m}]
    BY <1>2 DEF Activate
  <2> QED
    BY <2>1 DEF Owned
<1>3. ASSUME NEW p \in Players, owner' = [owner EXCEPT ![p] = None] \/ owner' = owner,
             UNCHANGED <<up, homes>>
      PROVE  Owned'
  BY <1>3 DEF Owned
<1>4. ASSUME NEW a \in Apis, NEW p \in Players, NEW m \in Missions, Maintain(a, p, m)
      PROVE  Owned'
  <2>1. /\ owner' = [owner EXCEPT ![p] = IF Head(wire[a][p]).op = "deactivate" THEN None ELSE @]
        /\ UNCHANGED <<up, homes>>
    BY <1>4 DEF Maintain
  <2>2. owner' = [owner EXCEPT ![p] = None] \/ owner' = owner
    BY <2>1
  <2> QED
    BY <2>1, <2>2, <1>3
<1>5. ASSUME NEW a \in Apis, NEW p \in Players, NEW m \in Missions, Close(a, p, m)
      PROVE  Owned'
  BY <1>5, <1>3 DEF Close
<1>6. ASSUME NEW p \in Players, Expire(p) PROVE Owned'
  BY <1>6, <1>3 DEF Expire
<1>7. ASSUME NEW m \in Missions, Crash(m) PROVE Owned'
  <2>1. /\ up' = up \ {m} /\ homes' = homes
        /\ owner' = [p \in Players |-> IF owner[p] = m THEN Gone ELSE owner[p]]
    BY <1>7 DEF Crash
  <2> QED
    BY <2>1 DEF Owned
<1>8. ASSUME NEW a \in Apis, NEW p \in Players, NEW m \in Missions,
             Apply(a, p, m) \/ Reconcile(a, p, m)
      PROVE  Owned'
  BY <1>8, <1>1 DEF Apply, Reconcile
<1>9. ASSUME NEW a \in Apis, NEW p \in Players, CloseDropped(a, p) PROVE Owned'
  BY <1>9, <1>1 DEF CloseDropped, missionVars
<1>10. ASSUME NEW p \in Players, NEW m \in Missions, Notified(m, p) PROVE Owned'
  BY <1>10, <1>1 DEF Notified, missionVars
<1>11. Asking \/ (\E s \in Sessions : Handler(s) \/ Disconnect(s)) => Owned'
  BY ClientQuiet, SessionQuiet, <1>1 DEF missionVars
<1>12. UNCHANGED vars => Owned'
  BY <1>1 DEF vars, missionVars
<1> QED
  BY <1>2, <1>4, <1>5, <1>6, <1>7, <1>8, <1>9, <1>10, <1>11, <1>12
  DEF AnyStep, ServersNext, OwnerStep

LEMMA StepHeard ==
  ASSUME Types, Heard, [AnyStep]_vars
  PROVE  Heard'
<1> USE GameQuestAssumption DEF Types
<1>1. UNCHANGED <<notes, home>> => Heard'
  BY DEF Heard
<1>2. ASSUME NEW a \in Apis, NEW p \in Players, NEW m \in Missions, Apply(a, p, m)
      PROVE  Heard'
  <2>1. home' = home /\ (notes' = notes \/ home[p] # None)
    BY <1>2 DEF Apply, Notify, apiVars
  <2>2. PICK x : x = Append(notes[m][p], NoteOf(m, p, Head(wire[a][p]).fact))
    OBVIOUS
  <2>3. notes' = notes \/ notes' = [notes EXCEPT ![m][p] = x]
    BY <1>2, <2>2 DEF Apply, Notify
  <2>4. CASE notes' = notes
    BY <2>1, <2>4, <1>1
  <2>5. CASE home[p] # None /\ notes' = [notes EXCEPT ![m][p] = x]
    <3>1. home[p] \in Apis
      BY <2>5 DEF PlaceTypes
    <3>2. \A k \in Missions, r \in Players : r = p \/ notes'[k][r] = notes[k][r]
      BY <2>5 DEF NoteTypes
    <3> QED
      BY <3>1, <3>2, <2>1 DEF Heard
  <2> QED
    BY <2>1, <2>3, <2>4, <2>5
<1>3. ASSUME NEW p \in Players, NEW m \in Missions, Notified(m, p) PROVE Heard'
  <2>1. notes[m][p] # <<>> /\ home' = home
    BY <1>3 DEF Notified
  <2>2. PICK x : x = Tail(notes[m][p])
    OBVIOUS
  <2>3. notes' = [notes EXCEPT ![m][p] = x]
    BY <1>3, <2>2 DEF Notified
  <2>4. \A k \in Missions, r \in Players : (k = m /\ r = p) \/ notes'[k][r] = notes[k][r]
    BY <2>3 DEF NoteTypes
  <2> QED
    BY <2>1, <2>4 DEF Heard
<1>4. ASSUME Asking PROVE Heard'
  <2>1. notes' = notes
    BY <1>4, ClientQuiet
  <2>2. PICK s \in Sessions, p \in Players : AnyPacket(s, p)
    BY <1>4 DEF Asking
  <2>3. CASE Join(s, p)
    <3>1. home' = [home EXCEPT ![p] = IF @ = None THEN SessionApi[s] ELSE @]
      BY <2>3 DEF Join
    <3>2. \A r \in Players : home[r] \in Apis => home'[r] \in Apis
      BY <3>1, ApiOf DEF PlaceTypes
    <3> QED
      BY <3>2, <2>1 DEF Heard
  <2>4. CASE Sync(s, p) \/ AskClose(s, p)
    BY <2>4, <1>1 DEF Sync, AskClose, apiVars
  <2>5. ASSUME NEW f, Play(s, p, f) PROVE Heard'
    BY <2>5, <1>1 DEF Play, apiVars
  <2>6. ASSUME NEW n, KillUnpublished(s, p, n) PROVE Heard'
    BY <2>6, <1>1 DEF KillUnpublished
  <2>7. ASSUME NEW op, Admin(s, p, op) PROVE Heard'
    BY <2>7, <1>1 DEF Admin, apiVars
  <2> QED
    BY <2>2, <2>3, <2>4, <2>5, <2>6, <2>7 DEF AnyPacket
<1>5. ASSUME NEW a \in Apis, NEW p \in Players, NEW m \in Missions,
             Reconcile(a, p, m) \/ Maintain(a, p, m) \/ Close(a, p, m)
      PROVE  Heard'
  BY <1>5, <1>1 DEF Reconcile, Maintain, Close, apiVars
<1>6. ASSUME NEW a \in Apis, NEW p \in Players, CloseDropped(a, p) PROVE Heard'
  BY <1>6, <1>1 DEF CloseDropped, apiVars
<1>7. ASSUME NEW p \in Players, NEW m \in Missions, Activate(p, m) PROVE Heard'
  BY <1>7, <1>1 DEF Activate, apiVars
<1>8. ASSUME NEW p \in Players, Expire(p) PROVE Heard'
  BY <1>8, <1>1 DEF Expire, apiVars
<1>9. ASSUME NEW m \in Missions, Crash(m) PROVE Heard'
  BY <1>9, <1>1 DEF Crash, apiVars
<1>10. (\E s \in Sessions : Handler(s) \/ Disconnect(s)) => Heard'
  BY SessionQuiet, <1>1
<1>11. UNCHANGED vars => Heard'
  BY <1>1 DEF vars, apiVars
<1> QED
  BY <1>2, <1>3, <1>4, <1>5, <1>6, <1>7, <1>8, <1>9, <1>10, <1>11
  DEF AnyStep, ServersNext, OwnerStep

\* Only a process that owned the player has a stream of it, until it dies.
Fresh ==
  \A m \in Missions, p \in Players : m \notin homes[p] \/ m \notin up => stream[m][p] = <<>>

LEMMA StepFresh ==
  ASSUME Types, Owned, Fresh, [AnyStep]_vars
  PROVE  Fresh'
<1> SUFFICES ASSUME NEW m \in Missions, NEW p \in Players, m \notin homes'[p] \/ m \notin up'
             PROVE  stream'[m][p] = <<>>
  BY DEF Fresh
<1>1. m \in homes[p] => m \in homes'[p]
  BY HomesGrow
<1>2. CASE m \notin homes[p] \/ m \notin up
  <2>1. stream[m][p] = <<>> /\ owner[p] # m
    BY <1>2 DEF Fresh, Owned
  <2> QED
    BY <2>1, StreamStep
<1>3. CASE m \in up /\ m \notin up'
  <2>1. PICK k \in Missions : Crash(k)
    BY <1>3, UpLoses
  <2> k = m
    BY <2>1, <1>3 DEF Crash
  <2>2. stream' = [stream EXCEPT ![m] = [r \in Players |-> <<>>]]
    BY <2>1 DEF Crash
  <2> QED
    BY <2>2 DEF Types, StreamTypes
<1> QED
  BY <1>1, <1>2, <1>3

-----------------------------------------------------------------------------
(* The projections *)

LEMMA StepCached ==
  ASSUME Types, CacheIsReplayed, [AnyStep]_vars
  PROVE  CacheIsReplayed'
<1> DEFINE Fits(c, s) ==
      \A q \in DOMAIN c : q \in Started(s) /\ c[q] = Replay(s)[q]
<1>1. ASSUME NEW s \in Seq(Events) PROVE Fits(Replay(s), s)
  BY ReplayType
<1>2. \A m \in Missions, p \in Players : Fits(cache[m][p], stream[m][p])
  BY DEF CacheIsReplayed
<1>3. (\A m \in Missions, p \in Players : Fits(cache'[m][p], stream'[m][p])) => CacheIsReplayed'
  BY DEF CacheIsReplayed
<1>4. \A m \in Missions, p \in Players : stream[m][p] \in Seq(Events)
  BY DEF Types, StreamTypes
<1> HIDE DEF Fits
<1>5. ASSUME NEW m \in Missions, NEW p \in Players, NEW t, NEW c, Fits(c, t),
             stream' = [stream EXCEPT ![m][p] = t], cache' = [cache EXCEPT ![m][p] = c]
      PROVE  CacheIsReplayed'
  <2>1. ASSUME NEW k \in Missions, NEW r \in Players PROVE Fits(cache'[k][r], stream'[k][r])
    <3>1. CASE k = m /\ r = p
      <4>1. stream'[k][r] = t /\ cache'[k][r] = c
        BY <1>5, <3>1 DEF Types, StreamTypes
      <4> QED
        BY <4>1, <1>5
    <3>2. CASE ~(k = m /\ r = p)
      <4>1. stream'[k][r] = stream[k][r] /\ cache'[k][r] = cache[k][r]
        BY <1>5, <3>2 DEF Types, StreamTypes
      <4> QED
        BY <4>1, <1>2
    <3> QED
      BY <3>1, <3>2
  <2> QED
    BY <2>1, <1>3
<1>6. UNCHANGED <<stream, cache>> => CacheIsReplayed'
  BY DEF CacheIsReplayed
<1>7. ASSUME NEW m \in Missions, NEW p \in Players, NEW f, IsFact(f),
             Stored(m, p, f), Cached(m, p, f)
      PROVE  CacheIsReplayed'
  <2>1. PICK t, c : /\ stream' = [stream EXCEPT ![m][p] = t] /\ StreamInv(t)
                    /\ cache' = [cache EXCEPT ![m][p] = c]
                    /\ c = Replay(t) \/ (t = stream[m][p] /\ c = cache[m][p])
    BY <1>7, StoredStep DEF Types
  <2>2. Fits(c, t)
    BY <2>1, <1>1, <1>2 DEF StreamInv
  <2> QED
    BY <2>1, <2>2, <1>5
<1>8. ASSUME NEW a \in Apis, NEW p \in Players, NEW m \in Missions, Apply(a, p, m)
      PROVE  CacheIsReplayed'
  <2>1. PICK f : f = Head(wire[a][p]).fact
    OBVIOUS
  <2>2. wire[a][p] # <<>> /\ Head(wire[a][p]).kind = "event" /\ Stored(m, p, f) /\ Cached(m, p, f)
    BY <1>8, <2>1 DEF Apply, Arrived
  <2> QED
    BY <2>1, <2>2, <1>7, ArrivedTypes, MessageParts, FactTypes DEF Types
<1>9. ASSUME NEW a \in Apis, NEW p \in Players, NEW m \in Missions, Reconcile(a, p, m)
      PROVE  CacheIsReplayed'
  <2>1. PICK f : f = SnapshotFact(Head(wire[a][p]).kills)
    OBVIOUS
  <2>2. /\ wire[a][p] # <<>> /\ Head(wire[a][p]).kind = "sync"
        /\ (Stored(m, p, f) /\ Cached(m, p, f)) \/ UNCHANGED <<stream, cache>>
    BY <1>9, <2>1 DEF Reconcile, Arrived
  <2> QED
    BY <2>1, <2>2, <1>6, <1>7, ArrivedTypes, MessageParts, FactTypes DEF Types
<1>10. ASSUME NEW a \in Apis, NEW p \in Players, NEW m \in Missions, Maintain(a, p, m)
       PROVE  CacheIsReplayed'
  <2>1. PICK c : c = LET msg == Head(wire[a][p]) IN
                     IF msg.op \in Quests
                     THEN [q \in DOMAIN cache[m][p] \ {msg.op} |-> cache[m][p][q]]
                     ELSE IF msg.op = "rebuild" THEN Replay(stream[m][p]) ELSE cache[m][p]
    OBVIOUS
  <2>2. cache' = [cache EXCEPT ![m][p] = c] /\ stream' = stream
    BY <1>10, <2>1 DEF Maintain
  <2>3. stream' = [stream EXCEPT ![m][p] = stream[m][p]]
    BY <2>2 DEF Types, StreamTypes
  <2>4. \A x : Fits([q \in DOMAIN cache[m][p] \ {x} |-> cache[m][p][q]], stream[m][p])
    BY <1>2 DEF Fits
  <2>5. Fits(c, stream[m][p])
    BY <2>1, <2>4, <1>1, <1>2, <1>4
  <2> QED
    BY <2>2, <2>3, <2>5, <1>5
<1>11. ASSUME NEW p \in Players, NEW m \in Missions, Activate(p, m) PROVE CacheIsReplayed'
  <2>1. /\ cache' = [cache EXCEPT ![m][p] = Replay(stream[m][p])] /\ stream' = stream
    BY <1>11 DEF Activate
  <2>2. stream' = [stream EXCEPT ![m][p] = stream[m][p]]
    BY <2>1 DEF Types, StreamTypes
  <2> QED
    BY <2>1, <2>2, <1>1, <1>4, <1>5
<1>12. ASSUME NEW m \in Missions, Crash(m) PROVE CacheIsReplayed'
  <2>1. /\ stream' = [stream EXCEPT ![m] = [p \in Players |-> <<>>]]
        /\ cache' = [cache EXCEPT ![m] = [p \in Players |-> Empty]]
    BY <1>12 DEF Crash
  <2>2. ASSUME NEW k \in Missions, NEW r \in Players PROVE Fits(cache'[k][r], stream'[k][r])
    <3>1. CASE k = m
      <4>1. cache'[k][r] = Empty
        BY <2>1, <3>1 DEF Types, StreamTypes
      <4> QED
        BY <4>1 DEF Empty, Fits
    <3>2. CASE k # m
      BY <3>2, <2>1, <1>2 DEF Types, StreamTypes
    <3> QED
      BY <3>1, <3>2
  <2> QED
    BY <2>2, <1>3
<1>13. ASSUME NEW a \in Apis, NEW p \in Players, NEW m \in Missions, Close(a, p, m)
       PROVE  CacheIsReplayed'
  BY <1>13, <1>6 DEF Close
<1>14. ASSUME NEW a \in Apis, NEW p \in Players, CloseDropped(a, p) PROVE CacheIsReplayed'
  BY <1>14, <1>6 DEF CloseDropped, missionVars
<1>15. ASSUME NEW p \in Players, Expire(p) PROVE CacheIsReplayed'
  BY <1>15, <1>6 DEF Expire
<1>16. ASSUME NEW p \in Players, NEW m \in Missions, Notified(m, p) PROVE CacheIsReplayed'
  BY <1>16, <1>6 DEF Notified, missionVars
<1>17. Asking \/ (\E s \in Sessions : Handler(s) \/ Disconnect(s)) => CacheIsReplayed'
  BY ClientQuiet, SessionQuiet, <1>6 DEF missionVars
<1>18. UNCHANGED vars => CacheIsReplayed'
  BY <1>6 DEF vars, missionVars
<1> QED
  BY <1>8, <1>9, <1>10, <1>11, <1>12, <1>13, <1>14, <1>15, <1>16, <1>17, <1>18
  DEF AnyStep, ServersNext, OwnerStep

-----------------------------------------------------------------------------
(* Completions that are told *)

\* The missions that can complete q for p no more.
Spent(p, q) == {m \in homes[p] : m \notin up \/ Granted(stream[m][p], q)}

\* The missions whose completion of q is on its way to p.
Telling(p, q) ==
  {m \in Missions : \E i \in DOMAIN notes[m][p] : notes[m][p][i].completed = q}

\* Each completion that was told or is on its way spends a mission.
Told(p, q) ==
  /\ Telling(p, q) \subseteq Spent(p, q)
  /\ told[p][q] + Cardinality(Telling(p, q)) <= Cardinality(Spent(p, q))
  /\ \A m \in Missions : \A i, j \in DOMAIN notes[m][p] :
       notes[m][p][i].completed = q /\ notes[m][p][j].completed = q => i = j

TellInv == \A p \in Players, q \in Quests : Told(p, q)

LEMMA SpentFinite ==
  ASSUME PlaceTypes, NEW p \in Players, NEW q
  PROVE  IsFiniteSet(Spent(p, q)) /\ Cardinality(Spent(p, q)) <= Cardinality(homes[p])
         /\ Cardinality(Spent(p, q)) \in Nat /\ Cardinality(homes[p]) \in Nat
<1>1. IsFiniteSet(homes[p]) /\ Spent(p, q) \subseteq homes[p]
  BY DEF PlaceTypes, Spent
<1> QED
  BY <1>1, FS_Subset, FS_CardinalityType

LEMMA SpentFiniteNext ==
  ASSUME PlaceTypes', NEW p \in Players, NEW q
  PROVE  IsFiniteSet(Spent(p, q)') /\ Cardinality(Spent(p, q)') \in Nat
<1>1. IsFiniteSet(homes'[p]) /\ Spent(p, q)' \subseteq homes'[p]
  BY DEF PlaceTypes, Spent
<1> QED
  BY <1>1, FS_Subset, FS_CardinalityType

\* A process that died stays dead.
\* A mission that is spent stays so.
LEMMA SpentGrows ==
  ASSUME Types, [AnyStep]_vars, NEW p \in Players, NEW q
  PROVE  Spent(p, q) \subseteq Spent(p, q)'
<1>1. \A m \in Missions : m \in homes[p] => m \in homes'[p]
  BY HomesGrow
<1>2. up' \subseteq up
  BY UpShrinks
<1>3. ASSUME NEW m \in Missions
      PROVE  Granted(stream[m][p], q) => m \notin up' \/ Granted(stream'[m][p], q)
  <2>1. ASSUME NEW k \in Missions, Crash(k)
        PROVE  m \notin up' \/ stream'[m][p] = stream[m][p]
    <3>1. up' = up \ {k} /\ stream' = [stream EXCEPT ![k] = [r \in Players |-> <<>>]]
      BY <2>1 DEF Crash
    <3> QED
      BY <3>1 DEF Types, StreamTypes
  <2> QED
    BY <2>1, StreamsGrow
<1>4. homes[p] \subseteq Missions
  BY DEF Types, PlaceTypes
<1> QED
  BY <1>1, <1>2, <1>3, <1>4 DEF Spent

\* Nothing is heard of q.
LEMMA ToldFrame ==
  ASSUME Types, Types', [AnyStep]_vars, NEW p \in Players, NEW q \in Quests, Told(p, q),
         \A m \in Missions : notes'[m][p] = notes[m][p], told'[p][q] = told[p][q]
  PROVE  Told(p, q)'
<1>1. Telling(p, q)' = Telling(p, q)
  BY DEF Telling
<1>2. Spent(p, q) \subseteq Spent(p, q)'
  BY SpentGrows
<1>3. /\ IsFiniteSet(Spent(p, q)') /\ IsFiniteSet(Spent(p, q))
      /\ Cardinality(Spent(p, q)) \in Nat /\ Cardinality(Spent(p, q)') \in Nat
  BY SpentFinite, SpentFiniteNext DEF Types
<1>4. Cardinality(Spent(p, q)) <= Cardinality(Spent(p, q)')
  BY <1>2, <1>3, FS_Subset
<1>5. Telling(p, q) \subseteq Spent(p, q) /\ Cardinality(Telling(p, q)) \in Nat
  BY <1>3, FS_Subset, FS_CardinalityType DEF Told
<1>6. told[p][q] \in Nat
  BY DEF Types, CountTypes
<1>7. PICK n : n = Cardinality(Spent(p, q)')
  OBVIOUS
<1>8. told[p][q] + Cardinality(Telling(p, q)) <= n
  BY <1>3, <1>4, <1>5, <1>6, <1>7 DEF Told
<1>9. told'[p][q] + Cardinality(Telling(p, q)') <= Cardinality(Spent(p, q)')
  BY <1>1, <1>7, <1>8
<1>10. \A m \in Missions : \A i, j \in DOMAIN notes'[m][p] :
         notes'[m][p][i].completed = q /\ notes'[m][p][j].completed = q => i = j
  BY DEF Told
<1> QED
  BY <1>1, <1>2, <1>5, <1>9, <1>10 DEF Told

LEMMA ApplyTold ==
  ASSUME Types, Types', Owned, NEW a \in Apis, NEW r \in Players, NEW m \in Missions,
         Apply(a, r, m), NEW p \in Players, NEW q \in Quests, Told(p, q)
  PROVE  Told(p, q)'
<1>1. [AnyStep]_vars
  BY DEF AnyStep, ServersNext, OwnerStep
<1>2. PICK f : f = Head(wire[a][r]).fact
  OBVIOUS
<1>3. /\ wire[a][r] # <<>> /\ Head(wire[a][r]).kind = "event" /\ owner[r] = m
      /\ Stored(m, r, f) /\ Cached(m, r, f) /\ Notify(m, r, f)
      /\ UNCHANGED <<up, homes, told>>
  BY <1>2 DEF Apply, Arrived
<1>4. f \in Facts /\ IsFact(f)
  BY <1>2, <1>3, ArrivedTypes, MessageParts, FactTypes DEF Types
<1>5. PICK note : note = NoteOf(m, r, f)
  OBVIOUS
<1>6. note \in Notices /\ (note.completed = q => q \in Completed(m, r, f))
  BY <1>5, NoteType DEF Types
<1>7. PICK u : u = Append(notes[m][r], note)
  OBVIOUS
<1>8. notes' = notes \/ notes' = [notes EXCEPT ![m][r] = u]
  BY <1>3, <1>5, <1>7 DEF Notify
<1>9. notes[m][r] \in Seq(Notices)
  BY DEF Types, NoteTypes
<1>10. /\ DOMAIN notes[m][r] = 1..Len(notes[m][r]) /\ Len(notes[m][r]) \in Nat
       /\ DOMAIN u = 1..Len(notes[m][r]) + 1
       /\ \A i \in 1..Len(notes[m][r]) : u[i] = notes[m][r][i]
       /\ u[Len(notes[m][r]) + 1] = note
  BY <1>6, <1>7, <1>9, LenProperties, AppendProperties
<1>11. \A k \in Missions : notes'[k][p] = notes[k][p] \/ (k = m /\ p = r /\ notes'[k][p] = u)
  BY <1>8 DEF Types, NoteTypes
<1>12. CASE \A k \in Missions : notes'[k][p] = notes[k][p]
  BY <1>1, <1>3, <1>12, ToldFrame
<1>13. CASE p = r /\ notes'[m][r] = u
  <2>1. \A k \in Missions \ {m} : notes'[k][r] = notes[k][r]
    BY <1>11, <1>13
  <2>2. CASE note.completed # q
    <3>1. \A i \in DOMAIN u : u[i].completed = q =>
            i \in DOMAIN notes[m][r] /\ u[i] = notes[m][r][i]
      BY <2>2, <1>10
    <3>2. \A i \in DOMAIN notes[m][r] : i \in DOMAIN u /\ u[i] = notes[m][r][i]
      BY <1>10
    <3>3. Telling(p, q)' = Telling(p, q)
      BY <3>1, <3>2, <2>1, <1>13 DEF Telling
    <3>4. \A k \in Missions : \A i, j \in DOMAIN notes'[k][p] :
            notes'[k][p][i].completed = q /\ notes'[k][p][j].completed = q => i = j
      <4>1. \A i, j \in DOMAIN u : u[i].completed = q /\ u[j].completed = q => i = j
        BY <3>1, <1>13 DEF Told
      <4> QED
        BY <4>1, <2>1, <1>13 DEF Told
    <3>5. Spent(p, q) \subseteq Spent(p, q)'
      BY <1>1, SpentGrows
    <3>6. /\ IsFiniteSet(Spent(p, q)') /\ IsFiniteSet(Spent(p, q))
          /\ Cardinality(Spent(p, q)) \in Nat /\ Cardinality(Spent(p, q)') \in Nat
      BY SpentFinite, SpentFiniteNext DEF Types
    <3>7. Cardinality(Spent(p, q)) <= Cardinality(Spent(p, q)')
      BY <3>5, <3>6, FS_Subset
    <3>8. Telling(p, q) \subseteq Spent(p, q) /\ Cardinality(Telling(p, q)) \in Nat
      BY <3>6, FS_Subset, FS_CardinalityType DEF Told
    <3>9. told[p][q] \in Nat /\ told'[p][q] = told[p][q]
      BY <1>3 DEF Types, CountTypes
    <3>10. PICK n : n = Cardinality(Spent(p, q)')
      OBVIOUS
    <3>11. told[p][q] + Cardinality(Telling(p, q)) <= n
      BY <3>6, <3>7, <3>8, <3>9, <3>10 DEF Told
    <3>12. told'[p][q] + Cardinality(Telling(p, q)') <= Cardinality(Spent(p, q)')
      BY <3>3, <3>9, <3>10, <3>11
    <3> QED
      BY <3>3, <3>4, <3>5, <3>8, <3>12 DEF Told
  <2>3. CASE note.completed = q
    <3>1. q \in Completed(m, r, f)
      BY <2>3, <1>6
    <3>2. PICK t : /\ stream' = [stream EXCEPT ![m][r] = t]
                   /\ ~Granted(stream[m][r], q) /\ Granted(t, q)
      BY <3>1, <1>3, <1>4, StoredStep DEF Types
    <3>3. stream'[m][r] = t
      BY <3>2 DEF Types, StreamTypes
    <3>4. m \in up /\ m \in homes[r]
      BY <1>3 DEF Owned
    <3>5. m \notin Spent(p, q)
      BY <3>2, <3>4, <1>13 DEF Spent
    <3>6. m \in Spent(p, q)'
      BY <3>2, <3>3, <3>4, <1>3, <1>13 DEF Spent
    <3>7. m \notin Telling(p, q)
      BY <3>5 DEF Told
    <3>8. \A i \in DOMAIN notes[m][r] : notes[m][r][i].completed # q
      BY <3>7, <1>13 DEF Telling
    <3>9. Len(notes[m][r]) + 1 \in DOMAIN u
      BY <1>10
    <3>10. Telling(p, q)' = Telling(p, q) \cup {m}
      BY <3>9, <2>1, <2>3, <1>10, <1>13 DEF Telling
    <3>11. \A i, j \in DOMAIN u : u[i].completed = q /\ u[j].completed = q => i = j
      BY <3>8, <1>10
    <3>12. \A k \in Missions : \A i, j \in DOMAIN notes'[k][p] :
             notes'[k][p][i].completed = q /\ notes'[k][p][j].completed = q => i = j
      BY <3>11, <2>1, <1>13 DEF Told
    <3>13. Spent(p, q) \cup {m} \subseteq Spent(p, q)'
      BY <1>1, <3>6, SpentGrows
    <3>14. /\ IsFiniteSet(Spent(p, q)') /\ IsFiniteSet(Spent(p, q))
           /\ Cardinality(Spent(p, q)) \in Nat /\ Cardinality(Spent(p, q)') \in Nat
      BY SpentFinite, SpentFiniteNext DEF Types
    <3>15. /\ IsFiniteSet(Spent(p, q) \cup {m})
           /\ Cardinality(Spent(p, q) \cup {m}) = Cardinality(Spent(p, q)) + 1
      BY <3>5, <3>14, FS_AddElement
    <3>16. Cardinality(Spent(p, q) \cup {m}) <= Cardinality(Spent(p, q)')
      BY <3>13, <3>14, FS_Subset
    <3>17. /\ Telling(p, q) \subseteq Spent(p, q) /\ IsFiniteSet(Telling(p, q))
           /\ Cardinality(Telling(p, q)) \in Nat
      BY <3>14, FS_Subset, FS_CardinalityType DEF Told
    <3>18. Cardinality(Telling(p, q) \cup {m}) = Cardinality(Telling(p, q)) + 1
      BY <3>7, <3>17, FS_AddElement
    <3>19. told[p][q] \in Nat /\ told'[p][q] = told[p][q]
      BY <1>3 DEF Types, CountTypes
    <3>20. PICK n : n = Cardinality(Spent(p, q)')
      OBVIOUS
    <3>21. told[p][q] + Cardinality(Telling(p, q)) <= Cardinality(Spent(p, q))
      BY DEF Told
    <3>22. told[p][q] + (Cardinality(Telling(p, q)) + 1) <= n
      BY <3>14, <3>15, <3>16, <3>17, <3>19, <3>20, <3>21
    <3>23. told'[p][q] + Cardinality(Telling(p, q)') <= Cardinality(Spent(p, q)')
      BY <3>10, <3>18, <3>19, <3>20, <3>22
    <3>24. Telling(p, q)' \subseteq Spent(p, q)'
      BY <3>10, <3>13, <3>17
    <3> QED
      BY <3>12, <3>23, <3>24 DEF Told
  <2> QED
    BY <2>2, <2>3
<1> QED
  BY <1>11, <1>12, <1>13

LEMMA NotifiedTold ==
  ASSUME Types, Types', NEW r \in Players, NEW m \in Missions, Notified(m, r),
         NEW p \in Players, NEW q \in Quests, Told(p, q)
  PROVE  Told(p, q)'
<1>1. [AnyStep]_vars
  BY DEF AnyStep, ServersNext
<1>2. notes[m][r] \in Seq(Notices) /\ notes[m][r] # <<>>
  BY DEF Notified, Types, NoteTypes
<1>3. PICK u : u = Tail(notes[m][r])
  OBVIOUS
<1>4. PICK c : c = Head(notes[m][r]).completed
  OBVIOUS
<1>5. /\ notes' = [notes EXCEPT ![m][r] = u]
      /\ told' = told \/ (c # None /\ told' = [told EXCEPT ![r][c] = @ + 1])
      /\ UNCHANGED <<up, homes, stream>>
  BY <1>3, <1>4 DEF Notified, missionVars
<1>6. c \in Quests \cup {None}
  <2>1. Head(notes[m][r]) \in Notices
    BY <1>2, HeadTailProperties
  <2> QED
    BY <2>1, <1>4 DEF Notices
<1>7. \A k \in Missions, x \in Players :
        notes'[k][x] = IF k = m /\ x = r THEN u ELSE notes[k][x]
  BY <1>5 DEF Types, NoteTypes
<1>8. told'[p][q] = told[p][q] \/ (p = r /\ q = c /\ told'[p][q] = told[p][q] + 1)
  BY <1>5, <1>6 DEF Types, CountTypes
<1>9. /\ Len(notes[m][r]) \in Nat \ {0} /\ DOMAIN notes[m][r] = 1..Len(notes[m][r])
      /\ DOMAIN u = 1..Len(notes[m][r]) - 1
      /\ \A i \in 1..Len(notes[m][r]) - 1 : u[i] = notes[m][r][i + 1]
      /\ Head(notes[m][r]) = notes[m][r][1]
  BY <1>2, <1>3, LenProperties, HeadTailProperties, EmptySeq
<1>10. CASE p # r
  BY <1>1, <1>7, <1>8, <1>10, ToldFrame
<1>11. CASE p = r
  <2>1. /\ \A k \in Missions \ {m} : notes'[k][p] = notes[k][p]
        /\ notes'[m][p] = u
    BY <1>7, <1>11
  <2>2. \A i \in DOMAIN u : i + 1 \in DOMAIN notes[m][p] /\ u[i] = notes[m][p][i + 1]
    BY <1>9, <1>11
  <2>3. \A k \in Missions : \A i, j \in DOMAIN notes'[k][p] :
          notes'[k][p][i].completed = q /\ notes'[k][p][j].completed = q => i = j
    <3>1. ASSUME NEW i \in DOMAIN u, NEW j \in DOMAIN u, u[i].completed = q, u[j].completed = q
          PROVE  i = j
      <4>1. i + 1 = j + 1
        BY <3>1, <2>2 DEF Told
      <4>2. i \in Nat /\ j \in Nat
        BY <3>1, <1>9
      <4> QED
        BY <4>1, <4>2
    <3> QED
      BY <3>1, <2>1 DEF Told
  <2>4. Spent(p, q)' = Spent(p, q)
    BY <1>5 DEF Spent
  <2>5. /\ IsFiniteSet(Telling(p, q)) /\ Cardinality(Telling(p, q)) \in Nat
        /\ Cardinality(Spent(p, q)) \in Nat /\ told[p][q] \in Nat
        /\ Telling(p, q) \subseteq Spent(p, q)
    BY SpentFinite, FS_Subset, FS_CardinalityType DEF Told, Types, CountTypes
  <2>6. 1 \in DOMAIN notes[m][p] /\ notes[m][p][1].completed = c
    BY <1>4, <1>9, <1>11
  <2>7. CASE c = q
    <3>1. m \in Telling(p, q)
      BY <2>6, <2>7 DEF Telling
    <3>2. \A i \in DOMAIN u : u[i].completed # q
      <4>1. ASSUME NEW i \in DOMAIN u, u[i].completed = q PROVE FALSE
        <5>1. i + 1 = 1
          BY <4>1, <2>2, <2>6, <2>7 DEF Told
        <5>2. i \in Nat \ {0}
          BY <4>1, <1>9
        <5> QED
          BY <5>1, <5>2
      <4> QED
        BY <4>1
    <3>3. Telling(p, q)' = Telling(p, q) \ {m}
      BY <3>2, <2>1 DEF Telling
    <3>4. Cardinality(Telling(p, q) \ {m}) = Cardinality(Telling(p, q)) - 1
      BY <3>1, <2>5, FS_RemoveElement
    <3>5. told'[p][q] <= told[p][q] + 1 /\ told'[p][q] \in Nat
      BY <2>5, <1>8
    <3>6. told[p][q] + Cardinality(Telling(p, q)) <= Cardinality(Spent(p, q))
      BY DEF Told
    <3>7. told'[p][q] + (Cardinality(Telling(p, q)) - 1) <= Cardinality(Spent(p, q))
      BY <3>5, <3>6, <2>5
    <3>8. told'[p][q] + Cardinality(Telling(p, q)') <= Cardinality(Spent(p, q)')
      BY <3>3, <3>4, <3>7, <2>4
    <3>9. Telling(p, q)' \subseteq Spent(p, q)'
      BY <3>3, <2>4, <2>5
    <3> QED
      BY <3>8, <3>9, <2>3 DEF Told
  <2>8. CASE c # q
    <3>1. \A i \in DOMAIN notes[m][p] : notes[m][p][i].completed = q =>
            \E j \in DOMAIN u : u[j] = notes[m][p][i]
      <4>1. ASSUME NEW i \in DOMAIN notes[m][p], notes[m][p][i].completed = q
            PROVE  \E j \in DOMAIN u : u[j] = notes[m][p][i]
        <5>1. i # 1 /\ i \in 1..Len(notes[m][r])
          BY <4>1, <2>6, <2>8, <1>9, <1>11
        <5>2. i - 1 \in DOMAIN u /\ (i - 1) + 1 = i
          BY <5>1, <1>9
        <5> QED
          BY <5>2, <2>2
      <4> QED
        BY <4>1
    <3>2. Telling(p, q)' = Telling(p, q)
      BY <3>1, <2>1, <2>2 DEF Telling
    <3>3. told'[p][q] = told[p][q]
      BY <2>8, <1>8
    <3> QED
      BY <3>2, <3>3, <2>3, <2>4 DEF Told
  <2> QED
    BY <2>7, <2>8
<1> QED
  BY <1>10, <1>11

LEMMA StepTold ==
  ASSUME Types, Types', Owned, TellInv, [AnyStep]_vars
  PROVE  TellInv'
<1> SUFFICES ASSUME NEW p \in Players, NEW q \in Quests PROVE Told(p, q)'
  BY DEF TellInv
<1>1. Told(p, q)
  BY DEF TellInv
<1>2. UNCHANGED <<notes, told>> => Told(p, q)'
  BY <1>1, ToldFrame
<1>3. ASSUME NEW a \in Apis, NEW r \in Players, NEW m \in Missions, Apply(a, r, m)
      PROVE  Told(p, q)'
  BY <1>1, <1>3, ApplyTold
<1>4. ASSUME NEW r \in Players, NEW m \in Missions, Notified(m, r)
      PROVE  Told(p, q)'
  BY <1>1, <1>4, NotifiedTold
<1>5. ASSUME NEW a \in Apis, NEW r \in Players, NEW m \in Missions,
             Reconcile(a, r, m) \/ Maintain(a, r, m) \/ Close(a, r, m)
      PROVE  Told(p, q)'
  BY <1>5, <1>2 DEF Reconcile, Maintain, Close
<1>6. ASSUME NEW a \in Apis, NEW r \in Players, CloseDropped(a, r) PROVE Told(p, q)'
  BY <1>6, <1>2 DEF CloseDropped
<1>7. ASSUME NEW r \in Players, NEW m \in Missions, Activate(r, m) PROVE Told(p, q)'
  BY <1>7, <1>2 DEF Activate
<1>8. ASSUME NEW r \in Players, Expire(r) PROVE Told(p, q)'
  BY <1>8, <1>2 DEF Expire
<1>9. ASSUME NEW m \in Missions, Crash(m) PROVE Told(p, q)'
  BY <1>9, <1>2 DEF Crash
<1>10. Asking \/ (\E s \in Sessions : Handler(s) \/ Disconnect(s)) => Told(p, q)'
  BY ClientQuiet, SessionQuiet, <1>2
<1>11. UNCHANGED vars => Told(p, q)'
  BY <1>2 DEF vars
<1> QED
  BY <1>3, <1>4, <1>5, <1>6, <1>7, <1>8, <1>9, <1>10, <1>11 DEF AnyStep, ServersNext, OwnerStep

-----------------------------------------------------------------------------
(* Facts that are kept *)

\* An API process has f of p, or its handler is about to record it.
Known(a, p, f) ==
  \/ f \in recorded[a][p]
  \/ \E s \in Sessions : /\ session[s].doing = "recording" /\ session[s].fact = f
                         /\ SessionApi[s] = a /\ session[s].of = p

UnderWay(a, p, f) == \E i \in DOMAIN wire[a][p] : wire[a][p][i] = EventMsg(f)

Counted(p, f, q) ==
  \E m \in Missions : Applied(stream[m][p], f) \/ Granted(stream[m][p], q)

\* No process that owned p has died.
Alive(p) == homes[p] \subseteq up

KeepInv ==
  \A a \in Apis, p \in Players : \A f \in Facts, q \in Quests :
    Known(a, p, f) /\ RuledBy(f, q) /\ Alive(p) => UnderWay(a, p, f) \/ Counted(p, f, q)

LEMMA PostKeeps ==
  ASSUME WireTypes, NEW s \in Sessions, NEW r \in Players, NEW msg, Post(s, r, msg),
         NEW a \in Apis, NEW p \in Players, NEW f
  PROVE  /\ UnderWay(a, p, f) => UnderWay(a, p, f)'
         /\ a = SessionApi[s] /\ p = r /\ msg = EventMsg(f) => UnderWay(a, p, f)'
<1>1. PICK b \in Apis : b = SessionApi[s]
  BY ApiOf
<1>2. PICK u : u = Append(wire[b][r], msg)
  OBVIOUS
<1>3. wire[b][r] \in Seq(Messages)
  BY DEF WireTypes
<1>4. /\ Len(wire[b][r]) \in Nat /\ DOMAIN wire[b][r] = 1..Len(wire[b][r])
      /\ DOMAIN u = 1..Len(wire[b][r]) + 1
      /\ \A i \in 1..Len(wire[b][r]) : u[i] = wire[b][r][i]
      /\ u[Len(wire[b][r]) + 1] = msg
  BY <1>2, <1>3, LenProperties
<1>5. wire' = [wire EXCEPT ![b][r] = u]
  BY <1>1, <1>2 DEF Post
<1>6. wire'[a][p] = IF a = b /\ p = r THEN u ELSE wire[a][p]
  BY <1>5 DEF WireTypes
<1>7. CASE ~(a = b /\ p = r)
  BY <1>7, <1>6, <1>1 DEF UnderWay
<1>8. CASE a = b /\ p = r
  <2>1. wire'[a][p] = u /\ Len(wire[b][r]) + 1 \in DOMAIN u
    BY <1>4, <1>6, <1>8
  <2>2. \A i \in DOMAIN wire[a][p] : i \in DOMAIN u /\ u[i] = wire[a][p][i]
    BY <1>4, <1>8
  <2> QED
    BY <2>1, <2>2, <1>1, <1>4, <1>8 DEF UnderWay
<1> QED
  BY <1>7, <1>8

\* Only the owner that handles it takes a fact off the wire.
LEMMA TakeKeeps ==
  ASSUME WireTypes, NEW b \in Apis, NEW r \in Players, wire[b][r] # <<>>,
         wire' = [wire EXCEPT ![b][r] = Tail(@)],
         NEW a \in Apis, NEW p \in Players, NEW f, UnderWay(a, p, f)
  PROVE  UnderWay(a, p, f)' \/ (a = b /\ p = r /\ Head(wire[b][r]) = EventMsg(f))
<1>1. PICK u : u = Tail(wire[b][r])
  OBVIOUS
<1>2. wire[b][r] \in Seq(Messages)
  BY DEF WireTypes
<1>3. /\ Len(wire[b][r]) \in Nat \ {0} /\ DOMAIN wire[b][r] = 1..Len(wire[b][r])
      /\ DOMAIN u = 1..Len(wire[b][r]) - 1
      /\ \A i \in 1..Len(wire[b][r]) - 1 : u[i] = wire[b][r][i + 1]
      /\ Head(wire[b][r]) = wire[b][r][1]
  BY <1>1, <1>2, LenProperties, HeadTailProperties, EmptySeq
<1>4. wire'[a][p] = IF a = b /\ p = r THEN u ELSE wire[a][p]
  BY <1>1 DEF WireTypes
<1>5. CASE ~(a = b /\ p = r)
  BY <1>5, <1>4 DEF UnderWay
<1>6. CASE a = b /\ p = r
  <2>1. PICK i \in DOMAIN wire[a][p] : wire[a][p][i] = EventMsg(f)
    BY DEF UnderWay
  <2>2. CASE i = 1
    BY <2>1, <2>2, <1>3, <1>6
  <2>3. CASE i # 1
    <3>1. i - 1 \in DOMAIN u /\ u[i - 1] = wire[a][p][i]
      BY <2>1, <2>3, <1>3, <1>6
    <3> QED
      BY <3>1, <2>1, <1>4, <1>6 DEF UnderWay
  <2> QED
    BY <2>2, <2>3
<1> QED
  BY <1>5, <1>6

\* What is alive was so before, and what a process that dies loses is not of p.
LEMMA AliveBefore ==
  ASSUME Types, Owned, Fresh, [AnyStep]_vars, NEW p \in Players, Alive(p)'
  PROVE  /\ Alive(p)
         /\ \A k \in Missions : Crash(k) => k \notin homes[p] /\ owner[p] # k /\ stream[k][p] = <<>>
<1>1. homes[p] \subseteq homes'[p] /\ up' \subseteq up
  BY HomesGrow, UpShrinks DEF Types, PlaceTypes
<1>2. Alive(p)
  BY <1>1 DEF Alive
<1>3. ASSUME NEW k \in Missions, Crash(k)
      PROVE  k \notin homes[p] /\ owner[p] # k /\ stream[k][p] = <<>>
  <2>1. k \notin up'
    BY <1>3 DEF Crash
  <2>2. k \notin homes[p]
    BY <2>1, <1>1 DEF Alive
  <2> QED
    BY <2>2 DEF Owned, Fresh
<1> QED
  BY <1>2, <1>3

LEMMA CountedStays ==
  ASSUME Types, Owned, Fresh, [AnyStep]_vars, NEW p \in Players, Alive(p)'
  PROVE  \A m \in Missions :
           /\ \A f : Applied(stream[m][p], f) => Applied(stream'[m][p], f)
           /\ \A q : Granted(stream[m][p], q) => Granted(stream'[m][p], q)
<1> SUFFICES ASSUME NEW m \in Missions
             PROVE  /\ \A f : Applied(stream[m][p], f) => Applied(stream'[m][p], f)
                    /\ \A q : Granted(stream[m][p], q) => Granted(stream'[m][p], q)
  OBVIOUS
<1>1. ASSUME NEW k \in Missions, Crash(k) PROVE stream'[m][p] = stream[m][p]
  <2>1. stream' = [stream EXCEPT ![k] = [r \in Players |-> <<>>]]
    BY <1>1 DEF Crash
  <2>2. stream[k][p] = <<>>
    BY <1>1, AliveBefore
  <2> QED
    BY <2>1, <2>2 DEF Types, StreamTypes
<1> QED
  BY <1>1, StreamsGrow

\* A fact becomes known with the packet that sends it.
LEMMA KnownBefore ==
  ASSUME Types, [AnyStep]_vars, NEW a \in Apis, NEW p \in Players, NEW f \in Facts,
         Known(a, p, f)'
  PROVE  Known(a, p, f) \/ UnderWay(a, p, f)'
<1> USE DEF Types
<1> DEFINE Records(s) ==
      /\ session[s].doing = "recording" /\ session[s].fact = f
      /\ SessionApi[s] = a /\ session[s].of = p
<1>1. session \in [Sessions -> SessionStates]
  BY DEF SessionTypes
<1>2. ASSUME UNCHANGED recorded, \A s \in Sessions : Records(s)' => Records(s)
      PROVE  Known(a, p, f)
  BY <1>2 DEF Known
<1>3. UNCHANGED <<recorded, session>> => Known(a, p, f)
  BY DEF Known
<1>4. ASSUME NEW s \in Sessions, NEW x \in SessionStates, x.doing # "recording",
             session' = [session EXCEPT ![s] = x]
      PROVE  \A k \in Sessions : Records(k)' => Records(k)
  <2>1. \A k \in Sessions : (k = s /\ session'[k] = x) \/ session'[k] = session[k]
    BY <1>1, <1>4
  <2> QED
    BY <2>1, <1>4
<1>5. ASSUME NEW s \in Sessions, session' = Freed(s)
      PROVE  \A k \in Sessions : Records(k)' => Records(k)
  <2>1. PICK x : x = [Idle EXCEPT !.player = session[s].player]
    OBVIOUS
  <2>2. x \in SessionStates /\ x.doing # "recording"
    BY <2>1, <1>1 DEF SessionStates, Idle
  <2>3. session' = [session EXCEPT ![s] = x]
    BY <1>5, <2>1 DEF Freed
  <2> QED
    BY <2>2, <2>3, <1>4
<1>6. ASSUME NEW s \in Sessions, NEW r \in Players, NEW what \in {"joining", "syncing", "admin"}
      PROVE  Doing(s, what, r) \in SessionStates /\ Doing(s, what, r).doing = what
  BY <1>1 DEF Doing, SessionStates
<1>8. ASSUME Asking PROVE Known(a, p, f) \/ UnderWay(a, p, f)'
  <2>1. PICK s \in Sessions, r \in Players : AnyPacket(s, r)
    BY <1>8 DEF Asking
  <2>2. CASE Join(s, r)
    <3>1. PICK y : y = IF Reachable(r) THEN Doing(s, "joining", r) ELSE Idle
      OBVIOUS
    <3>2. y \in SessionStates /\ y.doing # "recording"
      BY <3>1, <1>6 DEF Idle, SessionStates
    <3>3. PICK x : x = [y EXCEPT !.player = r]
      OBVIOUS
    <3>4. x \in SessionStates /\ x.doing # "recording"
      BY <3>2, <3>3 DEF SessionStates
    <3>5. session' = [session EXCEPT ![s] = x] /\ UNCHANGED recorded
      BY <2>2, <3>1, <3>3 DEF Join
    <3>6. \A k \in Sessions : Records(k)' => Records(k)
      BY <3>4, <3>5, <1>4
    <3> QED
      BY <3>5, <3>6, <1>2
  <2>3. CASE Sync(s, r)
    <3>1. session' = [session EXCEPT ![s] = Doing(s, "syncing", r)] /\ UNCHANGED recorded
      BY <2>3 DEF Sync, apiVars
    <3>2. \A k \in Sessions : Records(k)' => Records(k)
      BY <3>1, <1>4, <1>6
    <3> QED
      BY <3>1, <3>2, <1>2
  <2>4. ASSUME NEW op, Admin(s, r, op) PROVE Known(a, p, f)
    <3>1. session' = [session EXCEPT ![s] = Doing(s, "admin", r)] /\ UNCHANGED recorded
      BY <2>4 DEF Admin, apiVars
    <3>2. \A k \in Sessions : Records(k)' => Records(k)
      BY <3>1, <1>4, <1>6
    <3> QED
      BY <3>1, <3>2, <1>2
  <2>5. ASSUME NEW g \in Facts, Play(s, r, g) PROVE Known(a, p, f) \/ UnderWay(a, p, f)'
    <3>1. PICK x : x = [Doing(s, "recording", r) EXCEPT !.fact = g]
      OBVIOUS
    <3>2. x.fact = g /\ x.of = r
      BY <3>1, <1>1 DEF Doing, SessionStates
    <3>3. session' = [session EXCEPT ![s] = x] /\ UNCHANGED recorded /\ Post(s, r, EventMsg(g))
      BY <2>5, <3>1 DEF Play, apiVars
    <3>4. \A k \in Sessions : (k = s /\ session'[k] = x) \/ session'[k] = session[k]
      BY <1>1, <3>3
    <3>5. CASE g = f /\ SessionApi[s] = a /\ r = p
      BY <3>3, <3>5, PostKeeps
    <3>6. CASE ~(g = f /\ SessionApi[s] = a /\ r = p)
      <4>1. \A k \in Sessions : Records(k)' => Records(k)
        BY <3>2, <3>4, <3>6
      <4> QED
        BY <4>1, <3>3, <1>2
    <3> QED
      BY <3>5, <3>6
  <2>6. ASSUME NEW n, KillUnpublished(s, r, n) PROVE Known(a, p, f)
    BY <2>6, <1>3 DEF KillUnpublished
  <2>7. CASE AskClose(s, r)
    BY <2>7, <1>3 DEF AskClose, apiVars
  <2> QED
    BY <2>1, <2>2, <2>3, <2>4, <2>5, <2>6, <2>7 DEF AnyPacket
<1>9. ASSUME NEW s \in Sessions, Synced(s) PROVE Known(a, p, f)
  <2>1. session' = Freed(s) /\ UNCHANGED recorded
    BY <1>9 DEF Synced
  <2> QED
    BY <2>1, <1>2, <1>5
<1>10. ASSUME NEW s \in Sessions, Record(s) PROVE Known(a, p, f)
  <2>1. /\ session[s].doing = "recording" /\ session' = Freed(s)
        /\ recorded' = [recorded EXCEPT ![SessionApi[s]][session[s].of] = @ \cup {session[s].fact}]
    BY <1>10 DEF Record
  <2>2. \A k \in Sessions : Records(k)' => Records(k)
    BY <2>1, <1>5
  <2>3. f \in recorded'[a][p] =>
          f \in recorded[a][p] \/ (SessionApi[s] = a /\ session[s].of = p /\ session[s].fact = f)
    BY <2>1 DEF CountTypes
  <2> QED
    BY <2>1, <2>2, <2>3 DEF Known
<1>11. ASSUME NEW s \in Sessions, Disconnect(s) PROVE Known(a, p, f)
  <2>1. session' = [session EXCEPT ![s] = Idle] /\ UNCHANGED recorded
    BY <1>11 DEF Disconnect
  <2>2. Idle \in SessionStates /\ Idle.doing # "recording"
    BY DEF Idle, SessionStates
  <2>3. \A k \in Sessions : Records(k)' => Records(k)
    BY <2>1, <2>2, <1>4
  <2> QED
    BY <2>1, <2>3, <1>2
<1>12. ASSUME NEW b \in Apis, NEW r \in Players, NEW m \in Missions, Reconcile(b, r, m)
       PROVE  Known(a, p, f)
  <2>1. wire[b][r] # <<>> /\ Head(wire[b][r]).kind = "sync"
    BY <1>12 DEF Reconcile, Arrived
  <2>2. PICK s \in Sessions : s = Head(wire[b][r]).from
    BY <2>1, ArrivedTypes, MessageParts
  <2>3. PICK y : Reply(s, y)
    BY <1>12, <2>2 DEF Reconcile
  <2>4. PICK x : x = [session[s] EXCEPT !.reply = y]
    OBVIOUS
  <2>5. session[s] \in SessionStates
    BY <1>1
  <2>6. x.doing = session[s].doing /\ x.fact = session[s].fact /\ x.of = session[s].of
    BY <2>4, <2>5 DEF SessionStates
  <2>7. session' = [session EXCEPT ![s] = x]
    BY <2>3, <2>4 DEF Reply
  <2>8. \A k \in Sessions : (k = s /\ session'[k] = x) \/ session'[k] = session[k]
    BY <1>1, <2>7
  <2>9. \A k \in Sessions : Records(k)' => Records(k)
    BY <2>6, <2>8
  <2>10. UNCHANGED recorded
    BY <1>12 DEF Reconcile, apiVars
  <2> QED
    BY <2>9, <2>10, <1>2
<1>13. ASSUME NEW b \in Apis, NEW r \in Players, NEW m \in Missions, Maintain(b, r, m)
       PROVE  Known(a, p, f)
  <2>1. wire[b][r] # <<>> /\ Head(wire[b][r]).kind = "admin"
    BY <1>13 DEF Maintain, Arrived
  <2>2. PICK s \in Sessions : s = Head(wire[b][r]).from
    BY <2>1, ArrivedTypes, MessageParts
  <2>3. session' = Freed(s) /\ UNCHANGED recorded
    BY <1>13, <2>2 DEF Maintain, apiVars
  <2> QED
    BY <2>3, <1>2, <1>5
<1>14. ASSUME NEW m \in Missions, Crash(m) PROVE Known(a, p, f)
  <2>1. ASSUME NEW s \in Sessions PROVE Freed(s)[s].doing # "recording"
    BY <1>1 DEF Freed, Idle
  <2>2. \A s \in Sessions : session'[s] = session[s] \/ session'[s] = Freed(s)[s]
    BY <1>14 DEF Crash
  <2>3. \A k \in Sessions : Records(k)' => Records(k)
    BY <2>1, <2>2
  <2>4. UNCHANGED recorded
    BY <1>14 DEF Crash, apiVars
  <2> QED
    BY <2>3, <2>4, <1>2
<1>15. ASSUME NEW b \in Apis, NEW r \in Players, NEW m \in Missions,
              Apply(b, r, m) \/ Close(b, r, m)
       PROVE  Known(a, p, f)
  BY <1>15, <1>3 DEF Apply, Close, apiVars
<1>16. ASSUME NEW b \in Apis, NEW r \in Players, CloseDropped(b, r) PROVE Known(a, p, f)
  BY <1>16, <1>3 DEF CloseDropped, apiVars
<1>17. ASSUME NEW r \in Players, NEW m \in Missions, Activate(r, m) \/ Notified(m, r)
       PROVE  Known(a, p, f)
  BY <1>17, <1>3 DEF Activate, Notified, apiVars
<1>18. ASSUME NEW r \in Players, Expire(r) PROVE Known(a, p, f)
  BY <1>18, <1>3 DEF Expire, apiVars
<1>19. UNCHANGED vars => Known(a, p, f)
  BY <1>3 DEF vars, apiVars
<1> HIDE DEF Records
<1> QED
  BY <1>8, <1>9, <1>10, <1>11, <1>12, <1>13, <1>14, <1>15, <1>16, <1>17, <1>18, <1>19
  DEF AnyStep, ServersNext, OwnerStep, Handler

LEMMA StepKept ==
  ASSUME Types, Owned, Fresh, KeepInv, [AnyStep]_vars
  PROVE  KeepInv'
<1> USE DEF Types
<1> SUFFICES ASSUME NEW a \in Apis, NEW p \in Players, NEW f \in Facts, NEW q \in Quests,
                    Known(a, p, f)', RuledBy(f, q), Alive(p)'
             PROVE  UnderWay(a, p, f)' \/ Counted(p, f, q)'
  BY DEF KeepInv
<1> DEFINE Safe == UnderWay(a, p, f)' \/ Counted(p, f, q)'
<1>1. Alive(p)
  BY AliveBefore
<1>2. UnderWay(a, p, f) \/ Counted(p, f, q) \/ UnderWay(a, p, f)'
  BY <1>1, KnownBefore DEF KeepInv
<1>3. Counted(p, f, q) => Counted(p, f, q)'
  BY CountedStays DEF Counted
<1>4. SUFFICES ASSUME UnderWay(a, p, f) PROVE Safe
  BY <1>2, <1>3
<1>5. UNCHANGED wire => Safe
  BY <1>4 DEF UnderWay
<1>6. ASSUME Asking PROVE Safe
  <2>1. PICK s \in Sessions, r \in Players : AnyPacket(s, r)
    BY <1>6 DEF Asking
  <2>2. ASSUME NEW msg, Post(s, r, msg) PROVE Safe
    BY <2>2, <1>4, PostKeeps
  <2>3. CASE Join(s, r)
    <3>1. Post(s, r, SyncMsg(s, Snapshot(SessionApi[s], r))) \/ UNCHANGED wire
      BY <2>3 DEF Join
    <3> QED
      BY <3>1, <2>2, <1>5
  <2>4. CASE Sync(s, r)
    <3>1. Post(s, r, SyncMsg(s, Snapshot(SessionApi[s], r)))
      BY <2>4 DEF Sync
    <3> QED
      BY <3>1, <2>2
  <2>5. CASE AskClose(s, r)
    <3>1. Post(s, r, CloseMsg)
      BY <2>5 DEF AskClose
    <3> QED
      BY <3>1, <2>2
  <2>6. ASSUME NEW g, Play(s, r, g) PROVE Safe
    <3>1. Post(s, r, EventMsg(g))
      BY <2>6 DEF Play
    <3> QED
      BY <3>1, <2>2
  <2>7. ASSUME NEW op, Admin(s, r, op) PROVE Safe
    <3>1. Post(s, r, AdminMsg(s, op))
      BY <2>7 DEF Admin
    <3> QED
      BY <3>1, <2>2
  <2>8. ASSUME NEW n, KillUnpublished(s, r, n) PROVE Safe
    BY <2>8, <1>5 DEF KillUnpublished
  <2> QED
    BY <2>1, <2>3, <2>4, <2>5, <2>6, <2>7, <2>8 DEF AnyPacket
<1>7. EventMsg(f).kind = "event"
  BY DEF EventMsg
<1>8. ASSUME NEW b \in Apis, NEW r \in Players, wire[b][r] # <<>>,
             wire' = [wire EXCEPT ![b][r] = Tail(@)], Head(wire[b][r]).kind # "event"
      PROVE  Safe
  <2>1. Head(wire[b][r]) # EventMsg(f)
    BY <1>7, <1>8
  <2> QED
    BY <2>1, <1>4, <1>8, TakeKeeps
<1>9. ASSUME NEW b \in Apis, NEW r \in Players, NEW m \in Missions, Apply(b, r, m) PROVE Safe
  <2>1. PICK g : g = Head(wire[b][r]).fact
    OBVIOUS
  <2>2. /\ wire[b][r] # <<>> /\ wire' = [wire EXCEPT ![b][r] = Tail(@)]
        /\ Stored(m, r, g) /\ Cached(m, r, g)
    BY <1>9, <2>1 DEF Apply, Arrived
  <2>3. CASE p = r /\ Head(wire[b][r]) = EventMsg(f)
    <3>1. g = f
      BY <2>1, <2>3 DEF EventMsg
    <3>2. IsFact(g) /\ StreamInv(stream[m][r])
      BY <3>1, FactTypes DEF StreamTypes
    <3>3. PICK t : /\ stream' = [stream EXCEPT ![m][r] = t]
                   /\ \A x : Applied(stream[m][r], x) => Applied(t, x)
                   /\ \A x : Granted(stream[m][r], x) => Granted(t, x)
                   /\ (\E x \in Quests : Advances(stream[m][r], g, x)) => Applied(t, g)
      BY <2>2, <3>2, StoredStep
    <3>4. Applied(t, f) \/ Granted(t, q)
      BY <3>1, <3>2, <3>3, FactCounts
    <3>5. stream'[m][p] = t
      BY <2>3, <3>3 DEF StreamTypes
    <3> QED
      BY <3>4, <3>5 DEF Counted
  <2> QED
    BY <2>2, <2>3, <1>4, TakeKeeps
<1>10. ASSUME NEW b \in Apis, NEW r \in Players, NEW m \in Missions, Reconcile(b, r, m)
       PROVE  Safe
  BY <1>8, <1>10 DEF Reconcile, Arrived
<1>11. ASSUME NEW b \in Apis, NEW r \in Players, NEW m \in Missions, Maintain(b, r, m)
       PROVE  Safe
  BY <1>8, <1>11 DEF Maintain, Arrived
<1>12. ASSUME NEW b \in Apis, NEW r \in Players, NEW m \in Missions, Close(b, r, m)
       PROVE  Safe
  BY <1>8, <1>12 DEF Close, Arrived
<1>13. ASSUME NEW b \in Apis, NEW r \in Players, CloseDropped(b, r) PROVE Safe
  BY <1>8, <1>13 DEF CloseDropped
<1>14. ASSUME NEW m \in Missions, Crash(m) PROVE Safe
  <2>1. owner[p] # m
    BY <1>14, AliveBefore
  <2>2. wire'[a][p] = wire[a][p]
    BY <1>14, <2>1 DEF Crash
  <2> QED
    BY <2>2, <1>4 DEF UnderWay
<1>15. ASSUME NEW r \in Players, NEW m \in Missions, Activate(r, m) \/ Notified(m, r)
       PROVE  Safe
  BY <1>15, <1>5 DEF Activate, Notified
<1>16. ASSUME NEW r \in Players, Expire(r) PROVE Safe
  BY <1>16, <1>5 DEF Expire
<1>17. (\E s \in Sessions : Handler(s) \/ Disconnect(s)) => Safe
  BY SessionQuiet, <1>5
<1>18. UNCHANGED vars => Safe
  BY <1>5 DEF vars
<1> HIDE DEF Safe
<1> QED
  BY <1>6, <1>9, <1>10, <1>11, <1>12, <1>13, <1>14, <1>15, <1>16, <1>17, <1>18
  DEF AnyStep, ServersNext, OwnerStep

-----------------------------------------------------------------------------
(* What a step does to the wire of one API process and player *)

LEMMA PostWire ==
  ASSUME WireTypes, NEW s \in Sessions, NEW r \in Players, NEW msg, Post(s, r, msg),
         NEW a \in Apis, NEW p \in Players
  PROVE  wire'[a][p] = IF a = SessionApi[s] /\ p = r THEN Append(wire[a][p], msg)
                       ELSE wire[a][p]
<1>1. PICK b \in Apis : b = SessionApi[s]
  BY ApiOf
<1>2. PICK u : u = Append(wire[b][r], msg)
  OBVIOUS
<1>3. wire' = [wire EXCEPT ![b][r] = u]
  BY <1>1, <1>2 DEF Post
<1> QED
  BY <1>1, <1>2, <1>3 DEF WireTypes

LEMMA TakeWire ==
  ASSUME WireTypes, NEW b \in Apis, NEW r \in Players, wire' = [wire EXCEPT ![b][r] = Tail(@)],
         NEW a \in Apis, NEW p \in Players
  PROVE  wire'[a][p] = IF a = b /\ p = r THEN Tail(wire[a][p]) ELSE wire[a][p]
<1>1. PICK u : u = Tail(wire[b][r])
  OBVIOUS
<1>2. wire' = [wire EXCEPT ![b][r] = u]
  BY <1>1
<1> QED
  BY <1>1, <1>2 DEF WireTypes

\* What the session waits for that sends a message and awaits the reply.
Awaits(msg) ==
  IF msg.kind = "admin" THEN {"admin"} ELSE {"joining", "syncing"}

Waits(x, p, msg) == x.of = p /\ x.reply = None /\ x.doing \in Awaits(msg)

\* The packet of a session puts msg on the wire.
Dispatches(a, p, msg) ==
  /\ UNCHANGED <<stream, recorded, unpublished>>
  /\ msg.kind = "event" => \E s \in Sessions, f \in Facts : Play(s, p, f) /\ msg = EventMsg(f)
  /\ msg.kind = "sync" => msg.kills = Snapshot(a, p)
  /\ msg.kind \in {"sync", "admin"} =>
       /\ msg.from \in Sessions /\ SessionApi[msg.from] = a /\ Packet(msg.from)
       /\ Waits(session'[msg.from], p, msg)

\* The owner takes a message: a fact is applied.
Takes(a, p) ==
  /\ wire[a][p] # <<>>
  /\ Head(wire[a][p]).kind = "event" => \E m \in Missions : Apply(a, p, m)

LEMMA ClientWire ==
  ASSUME Types, Asking, NEW a \in Apis, NEW p \in Players
  PROVE  \/ wire'[a][p] = wire[a][p]
         \/ \E msg : wire'[a][p] = Append(wire[a][p], msg) /\ Dispatches(a, p, msg)
<1> DEFINE Same == wire'[a][p] = wire[a][p]
           Sent == \E msg : wire'[a][p] = Append(wire[a][p], msg) /\ Dispatches(a, p, msg)
<1> USE DEF Types
<1>1. PICK s \in Sessions, r \in Players : AnyPacket(s, r)
  BY DEF Asking
<1>2. ASSUME NEW msg, Post(s, r, msg), Dispatches(a, p, msg) \/ a # SessionApi[s] \/ p # r
      PROVE  Same \/ Sent
  <2>1. wire'[a][p] = IF a = SessionApi[s] /\ p = r THEN Append(wire[a][p], msg)
                       ELSE wire[a][p]
    BY <1>2, PostWire
  <2>4. wire'[a][p] = Append(wire[a][p], msg) \/ Same
    BY <2>1
  <2>2. CASE Dispatches(a, p, msg)
    BY <2>4, <2>2
  <2>3. CASE a # SessionApi[s] \/ p # r
    <3>1. Same
      BY <2>1, <2>3
    <3> QED
      BY <3>1
  <2> QED
    BY <1>2, <2>2, <2>3
<1>3. ASSUME NEW k \in Sessions, NEW x, session' = [session EXCEPT ![k] = x]
      PROVE  session'[k] = x
  BY <1>3 DEF SessionTypes
<1>4. ASSUME NEW what \in {"joining", "syncing", "admin"}
      PROVE  /\ Doing(s, what, p).of = p /\ Doing(s, what, p).reply = None
             /\ Doing(s, what, p).doing = what
  BY DEF Doing, SessionTypes, SessionStates
<1>5. /\ \A n : SyncMsg(s, n).kind = "sync" /\ SyncMsg(s, n).from = s /\ SyncMsg(s, n).kills = n
      /\ \A op : AdminMsg(s, op).kind = "admin" /\ AdminMsg(s, op).from = s
      /\ CloseMsg.kind = "close"
      /\ \A f : EventMsg(f).kind = "event"
  BY DEF SyncMsg, AdminMsg, CloseMsg, EventMsg
<1> HIDE DEF Same, Sent
<1>6. ASSUME Join(s, r) PROVE Same \/ Sent
  <2>1. CASE ~Reachable(r)
    BY <1>6, <2>1 DEF Join, Same
  <2>2. CASE Reachable(r)
    <3>1. PICK msg : msg = SyncMsg(s, Snapshot(SessionApi[s], r))
      OBVIOUS
    <3>2. PICK x : x = [Doing(s, "joining", r) EXCEPT !.player = r]
      OBVIOUS
    <3>3. Post(s, r, msg) /\ session' = [session EXCEPT ![s] = x] /\ Packet(s)
          /\ UNCHANGED <<stream, recorded, unpublished>>
      BY <1>6, <2>2, <3>1, <3>2 DEF Join, missionVars
    <3>4. p = r => x.of = p /\ x.reply = None /\ x.doing = "joining"
      BY <3>2, <1>4 DEF Doing, SessionTypes, SessionStates
    <3>5. session'[s] = x
      BY <3>3, <1>3
    <3>6. msg.kind = "sync" /\ msg.from = s /\ msg.kills = Snapshot(SessionApi[s], r)
      BY <3>1, <1>5
    <3>7. Dispatches(a, p, msg) \/ a # SessionApi[s] \/ p # r
      BY <3>3, <3>4, <3>5, <3>6 DEF Dispatches, Waits, Awaits
    <3> QED
      BY <3>3, <3>7, <1>2
  <2> QED
    BY <2>1, <2>2
<1>7. ASSUME Sync(s, r) PROVE Same \/ Sent
  <2>1. PICK msg : msg = SyncMsg(s, Snapshot(SessionApi[s], r))
    OBVIOUS
  <2>2. Post(s, r, msg) /\ session' = [session EXCEPT ![s] = Doing(s, "syncing", r)] /\ Packet(s)
        /\ UNCHANGED <<stream, recorded, unpublished>>
    BY <1>7, <2>1 DEF Sync, missionVars, apiVars
  <2>3. session'[s] = Doing(s, "syncing", r)
    BY <2>2, <1>3
  <2>4. msg.kind = "sync" /\ msg.from = s /\ msg.kills = Snapshot(SessionApi[s], r)
    BY <2>1, <1>5
  <2>5. Dispatches(a, p, msg) \/ a # SessionApi[s] \/ p # r
    BY <2>2, <2>3, <2>4, <1>4 DEF Dispatches, Waits, Awaits
  <2> QED
    BY <2>2, <2>5, <1>2
<1>8. ASSUME AskClose(s, r) PROVE Same \/ Sent
  <2>1. Post(s, r, CloseMsg) /\ UNCHANGED <<stream, recorded, unpublished>>
    BY <1>8 DEF AskClose, missionVars, apiVars
  <2>2. Dispatches(a, p, CloseMsg)
    BY <2>1, <1>5 DEF Dispatches
  <2> QED
    BY <2>1, <2>2, <1>2
<1>9. ASSUME NEW f \in Facts, Play(s, r, f) PROVE Same \/ Sent
  <2>1. Post(s, r, EventMsg(f)) /\ UNCHANGED <<stream, recorded, unpublished>>
    BY <1>9 DEF Play, missionVars, apiVars
  <2>2. Dispatches(a, p, EventMsg(f)) \/ a # SessionApi[s] \/ p # r
    BY <2>1, <1>5, <1>9 DEF Dispatches
  <2> QED
    BY <2>1, <2>2, <1>2
<1>10. ASSUME NEW op, Admin(s, r, op) PROVE Same \/ Sent
  <2>1. PICK msg : msg = AdminMsg(s, op)
    OBVIOUS
  <2>2. Post(s, r, msg) /\ session' = [session EXCEPT ![s] = Doing(s, "admin", r)] /\ Packet(s)
        /\ UNCHANGED <<stream, recorded, unpublished>>
    BY <1>10, <2>1 DEF Admin, missionVars, apiVars
  <2>3. session'[s] = Doing(s, "admin", r)
    BY <2>2, <1>3
  <2>4. msg.kind = "admin" /\ msg.from = s
    BY <2>1, <1>5
  <2>5. Dispatches(a, p, msg) \/ a # SessionApi[s] \/ p # r
    BY <2>2, <2>3, <2>4, <1>4 DEF Dispatches, Waits, Awaits
  <2> QED
    BY <2>2, <2>5, <1>2
<1>11. ASSUME NEW n, KillUnpublished(s, r, n) PROVE Same
  BY <1>11 DEF KillUnpublished, Same
<1>12. Same \/ Sent
  BY <1>1, <1>6, <1>7, <1>8, <1>9, <1>10, <1>11 DEF AnyPacket
<1> QED
  BY <1>12 DEF Same, Sent

LEMMA WireStep ==
  ASSUME Types, [AnyStep]_vars, NEW a \in Apis, NEW p \in Players
  PROVE  \/ wire'[a][p] = wire[a][p]
         \/ wire'[a][p] = <<>> /\ \E m \in Missions : Crash(m) /\ owner[p] = m
         \/ wire'[a][p] = Tail(wire[a][p]) /\ Takes(a, p)
         \/ \E msg : wire'[a][p] = Append(wire[a][p], msg) /\ Dispatches(a, p, msg)
<1> DEFINE Same == wire'[a][p] = wire[a][p]
           Lost == wire'[a][p] = <<>> /\ \E m \in Missions : Crash(m) /\ owner[p] = m
           Taken == wire'[a][p] = Tail(wire[a][p]) /\ Takes(a, p)
           Sent == \E msg : wire'[a][p] = Append(wire[a][p], msg) /\ Dispatches(a, p, msg)
<1> USE DEF Types
<1>1. Asking => Same \/ Sent
  BY ClientWire
<1>2. ASSUME NEW b \in Apis, NEW r \in Players, wire[b][r] # <<>>,
             wire' = [wire EXCEPT ![b][r] = Tail(@)],
             Head(wire[b][r]).kind = "event" => \E m \in Missions : Apply(b, r, m)
      PROVE  Same \/ Taken
  BY <1>2, TakeWire DEF Takes
<1>3. UNCHANGED wire => Same
  OBVIOUS
<1>4. ASSUME NEW m \in Missions, Crash(m) PROVE Same \/ Lost
  <2>1. wire'[a][p] = IF owner[p] = m THEN <<>> ELSE wire[a][p]
    BY <1>4 DEF Crash
  <2> QED
    BY <2>1, <1>4
<1> HIDE DEF Same, Lost, Taken, Sent
<1>5. ASSUME NEW b \in Apis, NEW r \in Players, NEW m \in Missions, Apply(b, r, m)
      PROVE  Same \/ Taken
  BY <1>5, <1>2 DEF Apply, Arrived
<1>6. ASSUME NEW b \in Apis, NEW r \in Players, NEW m \in Missions,
             Reconcile(b, r, m) \/ Maintain(b, r, m) \/ Close(b, r, m)
      PROVE  Same \/ Taken
  BY <1>6, <1>2 DEF Reconcile, Maintain, Close, Arrived
<1>7. ASSUME NEW b \in Apis, NEW r \in Players, CloseDropped(b, r) PROVE Same \/ Taken
  BY <1>7, <1>2 DEF CloseDropped
<1>8. ASSUME NEW r \in Players, NEW m \in Missions, Activate(r, m) \/ Notified(m, r)
      PROVE  Same
  BY <1>8, <1>3 DEF Activate, Notified
<1>9. ASSUME NEW r \in Players, Expire(r) PROVE Same
  BY <1>9, <1>3 DEF Expire
<1>10. (\E s \in Sessions : Handler(s) \/ Disconnect(s)) => Same
  BY SessionQuiet, <1>3
<1>11. UNCHANGED vars => Same
  BY <1>3 DEF vars
<1>12. Same \/ Lost \/ Taken \/ Sent
  BY <1>1, <1>4, <1>5, <1>6, <1>7, <1>8, <1>9, <1>10, <1>11 DEF AnyStep, ServersNext, OwnerStep
<1> QED
  BY <1>12 DEF Same, Lost, Taken, Sent

-----------------------------------------------------------------------------
(* What a player did, in units *)

\* n units of x.
LEMMA UnitsOfOne ==
  ASSUME NEW x, NEW n \in Nat
  PROVE  IsFiniteSet({x} \X (1 .. n)) /\ Cardinality({x} \X (1 .. n)) = n
<1>1. IsFiniteSet({x}) /\ Cardinality({x}) = 1
  BY FS_Singleton
<1>2. IsFiniteSet(1 .. n) /\ Cardinality(1 .. n) = n
  BY FS_Interval
<1>3. /\ IsFiniteSet({x} \X (1 .. n))
      /\ Cardinality({x} \X (1 .. n)) = Cardinality({x}) * Cardinality(1 .. n)
  BY <1>1, <1>2, FS_Product
<1> QED
  BY <1>1, <1>2, <1>3

\* The greater of two finite sets has the greater cardinality.
LEMMA SubsetCounts ==
  ASSUME NEW S, NEW T, IsFiniteSet(T), S \subseteq T
  PROVE  /\ IsFiniteSet(S)
         /\ Cardinality(S) \in Nat /\ Cardinality(T) \in Nat /\ Cardinality(S) <= Cardinality(T)
<1>1. IsFiniteSet(S) /\ Cardinality(S) <= Cardinality(T)
  BY FS_Subset
<1> QED
  BY <1>1, FS_CardinalityType

LEMMA DeltaType == \A f \in Facts : Delta(f) \in Nat \ {0}
BY GameQuestAssumption DEF Delta

LEMMA UnitsFinite ==
  ASSUME NEW S \in SUBSET Facts, IsFiniteSet(S)
  PROVE  IsFiniteSet(Units(S))
<1> DEFINE T == {{f} \X (1 .. Delta(f)) : f \in S}
           g == [f \in S |-> {f} \X (1 .. Delta(f))]
<1>1. g \in Surjection(S, T)
  BY DEF Surjection
<1>2. IsFiniteSet(T)
  BY <1>1, FS_Surjection
<1>3. ASSUME NEW U \in T PROVE IsFiniteSet(U)
  <2>1. PICK f \in S : U = {f} \X (1 .. Delta(f))
    OBVIOUS
  <2>2. Delta(f) \in Nat
    BY DeltaType
  <2> QED
    BY <2>1, <2>2, UnitsOfOne
<1>4. IsFiniteSet(UNION T)
  BY <1>2, <1>3, FS_UNION
<1> QED
  BY <1>4 DEF Units

\* A fact more is as many units more as it counts for.
LEMMA UnitsAdd ==
  ASSUME NEW S \in SUBSET Facts, NEW T \in SUBSET Facts, IsFiniteSet(T), S \subseteq T,
         NEW f \in T, f \notin S
  PROVE  /\ Cardinality(Units(S)) \in Nat /\ Cardinality(Units(T)) \in Nat
         /\ Cardinality(Units(S)) + Delta(f) <= Cardinality(Units(T))
<1> DEFINE one == {f} \X (1 .. Delta(f))
<1>1. IsFiniteSet(S) /\ IsFiniteSet(Units(S)) /\ IsFiniteSet(Units(T))
  BY FS_Subset, UnitsFinite
<1>2. IsFiniteSet(one) /\ Cardinality(one) = Delta(f) /\ Delta(f) \in Nat
  BY UnitsOfOne, DeltaType
<1>3. Units(S) \cap one = {} /\ Units(S) \cup one \subseteq Units(T)
  BY DEF Units
<1> HIDE DEF one
<1>4. /\ IsFiniteSet(Units(S) \cup one)
      /\ Cardinality(Units(S) \cup one) = Cardinality(Units(S)) + Delta(f) - Cardinality({})
  BY <1>1, <1>2, <1>3, FS_Union
<1>5. Cardinality({}) = 0
  BY FS_EmptySet
<1>6. Cardinality(Units(S)) \in Nat
  BY <1>1, FS_CardinalityType
<1>7. Cardinality(Units(S) \cup one) <= Cardinality(Units(T)) /\ Cardinality(Units(T)) \in Nat
  BY <1>1, <1>3, SubsetCounts
<1> QED
  BY <1>2, <1>4, <1>5, <1>6, <1>7

LEMMA UnitsGrow ==
  ASSUME NEW S \in SUBSET Facts, NEW T \in SUBSET Facts, IsFiniteSet(T), S \subseteq T
  PROVE  /\ Cardinality(Units(S)) \in Nat /\ Cardinality(Units(T)) \in Nat
         /\ Cardinality(Units(S)) <= Cardinality(Units(T))
<1>1. IsFiniteSet(Units(T)) /\ Units(S) \subseteq Units(T)
  BY UnitsFinite DEF Units
<1> QED
  BY <1>1, SubsetCounts

DoneTypes ==
  /\ sent \in [Players -> [Facts -> Nat]]
  /\ \A p \in Players : IsFiniteSet(Done(p)) /\ IsFiniteSet(Unpublished(p))

LEMMA SentStep ==
  ASSUME [AnyStep]_vars
  PROVE  sent' = sent \/ \E s \in Sessions, r \in Players, f \in Facts : Play(s, r, f)
<1>1. ASSUME Asking
      PROVE  sent' = sent \/ \E s \in Sessions, r \in Players, f \in Facts : Play(s, r, f)
  <2>1. PICK s \in Sessions, r \in Players : AnyPacket(s, r)
    BY <1>1 DEF Asking
  <2>2. CASE Join(s, r) \/ Sync(s, r) \/ AskClose(s, r)
    BY <2>2 DEF Join, Sync, AskClose
  <2>3. ASSUME NEW n, KillUnpublished(s, r, n) PROVE sent' = sent
    BY <2>3 DEF KillUnpublished
  <2>4. ASSUME NEW op, Admin(s, r, op) PROVE sent' = sent
    BY <2>4 DEF Admin
  <2> QED
    BY <2>1, <2>2, <2>3, <2>4 DEF AnyPacket
<1>2. ASSUME NEW s \in Sessions, Handler(s) \/ Disconnect(s) PROVE sent' = sent
  BY <1>2 DEF Handler, Synced, Record, Disconnect
<1>3. ASSUME NEW r \in Players, NEW k \in Missions, Notified(k, r) \/ Activate(r, k)
      PROVE  sent' = sent
  BY <1>3 DEF Notified, Activate
<1>4. ASSUME NEW a \in Apis, NEW r \in Players, NEW k \in Missions,
             \/ Apply(a, r, k) \/ Reconcile(a, r, k) \/ Maintain(a, r, k)
             \/ Close(a, r, k)
      PROVE  sent' = sent
  BY <1>4 DEF Apply, Reconcile, Maintain, Close
<1>5. ASSUME NEW a \in Apis, NEW r \in Players, CloseDropped(a, r) PROVE sent' = sent
  BY <1>5 DEF CloseDropped
<1>6. ASSUME NEW r \in Players, Expire(r) PROVE sent' = sent
  BY <1>6 DEF Expire
<1>7. ASSUME NEW k \in Missions, Crash(k) PROVE sent' = sent
  BY <1>7 DEF Crash
<1>8. UNCHANGED vars => sent' = sent
  BY DEF vars
<1> QED
  BY <1>1, <1>2, <1>3, <1>4, <1>5, <1>6, <1>7, <1>8 DEF AnyStep, ServersNext, OwnerStep

LEMMA UnpublishedStep ==
  ASSUME [AnyStep]_vars
  PROVE  \/ unpublished' = unpublished
         \/ \E s \in Sessions, r \in Players, n \in Nat : KillUnpublished(s, r, n)
<1>1. ASSUME Asking
      PROVE  \/ unpublished' = unpublished
             \/ \E s \in Sessions, r \in Players, n \in Nat : KillUnpublished(s, r, n)
  <2>1. PICK s \in Sessions, r \in Players : AnyPacket(s, r)
    BY <1>1 DEF Asking
  <2>2. CASE Join(s, r) \/ Sync(s, r) \/ AskClose(s, r)
    BY <2>2 DEF Join, Sync, AskClose, apiVars
  <2>3. ASSUME NEW f, Play(s, r, f) PROVE unpublished' = unpublished
    BY <2>3 DEF Play, apiVars
  <2>4. ASSUME NEW op, Admin(s, r, op) PROVE unpublished' = unpublished
    BY <2>4 DEF Admin, apiVars
  <2> QED
    BY <2>1, <2>2, <2>3, <2>4 DEF AnyPacket
<1>2. ASSUME NEW s \in Sessions, Handler(s) \/ Disconnect(s) PROVE unpublished' = unpublished
  BY <1>2 DEF Handler, Synced, Record, Disconnect
<1>3. ASSUME NEW r \in Players, NEW k \in Missions, Notified(k, r) \/ Activate(r, k)
      PROVE  unpublished' = unpublished
  BY <1>3 DEF Notified, Activate, apiVars
<1>4. ASSUME NEW a \in Apis, NEW r \in Players, NEW k \in Missions,
             \/ Apply(a, r, k) \/ Reconcile(a, r, k) \/ Maintain(a, r, k)
             \/ Close(a, r, k)
      PROVE  unpublished' = unpublished
  BY <1>4 DEF Apply, Reconcile, Maintain, Close, apiVars
<1>5. ASSUME NEW a \in Apis, NEW r \in Players, CloseDropped(a, r)
      PROVE  unpublished' = unpublished
  BY <1>5 DEF CloseDropped, apiVars
<1>6. ASSUME NEW r \in Players, Expire(r) PROVE unpublished' = unpublished
  BY <1>6 DEF Expire, apiVars
<1>7. ASSUME NEW k \in Missions, Crash(k) PROVE unpublished' = unpublished
  BY <1>7 DEF Crash, apiVars
<1>8. UNCHANGED vars => unpublished' = unpublished
  BY DEF vars, apiVars
<1> QED
  BY <1>1, <1>2, <1>3, <1>4, <1>5, <1>6, <1>7, <1>8 DEF AnyStep, ServersNext, OwnerStep

\* What was done stays done.
LEMMA DoneGrows ==
  ASSUME Types, DoneTypes, [AnyStep]_vars
  PROVE  /\ sent' \in [Players -> [Facts -> Nat]]
         /\ \A p \in Players : IsFiniteSet(Done(p)') /\ Done(p) \subseteq Done(p)'
         /\ \A s \in Sessions, p \in Players, f \in Facts : Play(s, p, f) => f \in Done(p)'
<1>1. CASE sent' = sent
  <2>1. \A p \in Players : Done(p)' = Done(p)
    BY <1>1 DEF Done
  <2>2. ASSUME NEW s \in Sessions, NEW p \in Players, NEW f \in Facts, Play(s, p, f)
        PROVE  FALSE
    <3>1. sent'[p][f] = sent[p][f] + 1 /\ sent[p][f] \in Nat
      BY <2>2 DEF Play, DoneTypes
    <3> QED
      BY <3>1, <1>1
  <2> QED
    BY <1>1, <2>1, <2>2 DEF DoneTypes
<1>2. ASSUME NEW s \in Sessions, NEW r \in Players, NEW f \in Facts, Play(s, r, f)
      PROVE  /\ sent' \in [Players -> [Facts -> Nat]] /\ f \in Done(r)'
             /\ \A p \in Players : IsFiniteSet(Done(p)') /\ Done(p) \subseteq Done(p)'
  <2>1. PICK n \in Nat : n = sent[r][f]
    BY DEF DoneTypes
  <2>2. sent' = [sent EXCEPT ![r][f] = n + 1]
    BY <1>2, <2>1 DEF Play
  <2>3. sent' \in [Players -> [Facts -> Nat]]
    BY <2>2 DEF DoneTypes
  <2>4. \A p \in Players, g \in Facts :
          sent'[p][g] = IF p = r /\ g = f THEN n + 1 ELSE sent[p][g]
    BY <2>2 DEF DoneTypes
  <2>5. ASSUME NEW p \in Players PROVE IsFiniteSet(Done(p)') /\ Done(p) \subseteq Done(p)'
    <3>1. Done(p)' \subseteq Done(p) \cup {f} /\ Done(p) \subseteq Done(p)'
      BY <2>1, <2>4 DEF Done
    <3>2. IsFiniteSet(Done(p) \cup {f})
      BY FS_AddElement DEF DoneTypes
    <3> QED
      BY <3>1, <3>2, FS_Subset
  <2>6. f \in Done(r)'
    BY <2>4 DEF Done
  <2> QED
    BY <2>3, <2>5, <2>6
<1>3. CASE \E s \in Sessions, r \in Players, f \in Facts : Play(s, r, f)
  BY <1>2, <1>3
<1> QED
  BY <1>1, <1>3, SentStep

LEMMA UnpublishedGrows ==
  ASSUME Types, DoneTypes, [AnyStep]_vars, NEW p \in Players
  PROVE  /\ IsFiniteSet(Unpublished(p)') /\ Unpublished(p) \subseteq Unpublished(p)'
         /\ \A a \in Apis : unpublished[a][p] <= unpublished'[a][p]
<1> USE DEF Types
<1>1. CASE unpublished' = unpublished
  <2>1. Unpublished(p)' = Unpublished(p)
    BY <1>1 DEF Unpublished
  <2>2. \A a \in Apis : unpublished[a][p] \in Nat
    BY DEF CountTypes
  <2> QED
    BY <1>1, <2>1, <2>2 DEF DoneTypes
<1>2. ASSUME NEW s \in Sessions, NEW r \in Players, NEW n \in Nat, KillUnpublished(s, r, n)
      PROVE  /\ IsFiniteSet(Unpublished(p)') /\ Unpublished(p) \subseteq Unpublished(p)'
             /\ \A a \in Apis : unpublished[a][p] <= unpublished'[a][p]
  <2>1. PICK b \in Apis : b = SessionApi[s]
    BY ApiOf
  <2>2. PICK u \in Nat : u = unpublished[b][r]
    BY DEF CountTypes
  <2>3. unpublished' = [unpublished EXCEPT ![b][r] = u + n]
    BY <1>2, <2>1, <2>2 DEF KillUnpublished
  <2>4. \A a \in Apis : /\ unpublished[a][p] \in Nat
                        /\ unpublished'[a][p] = IF a = b /\ p = r THEN u + n ELSE unpublished[a][p]
    BY <2>3 DEF CountTypes
  <2>5. \A a \in Apis : unpublished[a][p] <= unpublished'[a][p] /\ unpublished'[a][p] \in Nat
    BY <2>2, <2>4
  <2>6. Unpublished(p) \subseteq Unpublished(p)'
    <3>1. \A a \in Apis : 1 .. unpublished[a][p] \subseteq 1 .. unpublished'[a][p]
      BY <2>4, <2>5
    <3> QED
      BY <3>1 DEF Unpublished
  <2>7. Unpublished(p)' \subseteq Unpublished(p) \cup ({b} \X (1 .. u + n))
    BY <2>4 DEF Unpublished
  <2>8. IsFiniteSet(Unpublished(p) \cup ({b} \X (1 .. u + n)))
    <3>1. u + n \in Nat
      OBVIOUS
    <3>2. IsFiniteSet({b} \X (1 .. u + n))
      BY <3>1, UnitsOfOne
    <3>3. IsFiniteSet(Unpublished(p))
      BY DEF DoneTypes
    <3> QED
      BY <3>2, <3>3, FS_Union
  <2> QED
    BY <2>5, <2>6, <2>7, <2>8, FS_Subset
<1>3. CASE \E s \in Sessions, r \in Players, n \in Nat : KillUnpublished(s, r, n)
  BY <1>2, <1>3
<1> QED
  BY <1>1, <1>3, UnpublishedStep

LEMMA StepDone ==
  ASSUME Types, DoneTypes, [AnyStep]_vars
  PROVE  DoneTypes'
BY DoneGrows, UnpublishedGrows DEF DoneTypes

\* What an API process does not publish of p counts as such.
LEMMA UnpublishedOne ==
  ASSUME Types, DoneTypes, NEW a \in Apis, NEW p \in Players
  PROVE  /\ unpublished[a][p] \in Nat /\ Cardinality(Unpublished(p)) \in Nat
         /\ unpublished[a][p] <= Cardinality(Unpublished(p))
<1>1. unpublished[a][p] \in Nat
  BY DEF Types, CountTypes
<1>2. {a} \X (1 .. unpublished[a][p]) \subseteq Unpublished(p)
  BY DEF Unpublished
<1>3. Cardinality({a} \X (1 .. unpublished[a][p])) = unpublished[a][p]
  BY <1>1, UnitsOfOne
<1> QED
  BY <1>1, <1>2, <1>3, SubsetCounts DEF DoneTypes

\* Nothing that was earned is lost.
LEMMA EarnedGrows ==
  ASSUME Types, DoneTypes, [AnyStep]_vars, NEW p \in Players, NEW q
  PROVE  Earned(p, q) \in Nat /\ Earned(p, q)' \in Nat /\ Earned(p, q) <= Earned(p, q)'
<1> DEFINE Hunts(F) == {f \in F : f.type = "MonsterKilled"}
           Ruled(F) == {f \in F : RuledBy(f, q)}
<1>1. IsFiniteSet(Done(p)') /\ Done(p) \subseteq Done(p)' /\ Done(p)' \in SUBSET Facts
  BY DoneGrows DEF Done
<1>2. Hunts(Done(p)) \subseteq Hunts(Done(p)') /\ IsFiniteSet(Hunts(Done(p)'))
  BY <1>1, FS_Subset
<1>3. /\ KillsOf(Done(p)) = Cardinality(Hunts(Done(p)))
      /\ KillsOf(Done(p))' = Cardinality(Hunts(Done(p)'))
  BY DEF KillsOf
<1>4. /\ KillsOf(Done(p)) \in Nat /\ KillsOf(Done(p))' \in Nat
      /\ KillsOf(Done(p)) <= KillsOf(Done(p))'
  BY <1>2, <1>3, SubsetCounts
<1>5. /\ Cardinality(Unpublished(p)) \in Nat /\ Cardinality(Unpublished(p))' \in Nat
      /\ Cardinality(Unpublished(p)) <= Cardinality(Unpublished(p))'
  BY UnpublishedGrows, SubsetCounts
<1>6. /\ Ruled(Done(p)) \subseteq Ruled(Done(p)') /\ IsFiniteSet(Ruled(Done(p)'))
      /\ Ruled(Done(p)) \in SUBSET Facts /\ Ruled(Done(p)') \in SUBSET Facts
  BY <1>1, FS_Subset
<1> HIDE DEF Ruled
<1>7. /\ Cardinality(Units(Ruled(Done(p)))) \in Nat /\ Cardinality(Units(Ruled(Done(p)'))) \in Nat
      /\ Cardinality(Units(Ruled(Done(p)))) <= Cardinality(Units(Ruled(Done(p)')))
  BY <1>6, UnitsGrow
<1>8. Cardinality(Units(Ruled(Done(p))))' = Cardinality(Units(Ruled(Done(p)')))
  BY DEF Ruled, Units
<1> QED
  BY <1>4, <1>5, <1>7, <1>8 DEF Earned, Ruled

-----------------------------------------------------------------------------
(* What is under way was played, and who asks waits for the answer *)

LEMMA AppendParts ==
  ASSUME NEW w \in Seq(Messages), NEW msg
  PROVE  /\ DOMAIN w = 1 .. Len(w) /\ Len(w) \in Nat
         /\ DOMAIN Append(w, msg) = 1 .. Len(w) + 1 /\ Len(Append(w, msg)) = Len(w) + 1
         /\ \A i \in 1 .. Len(w) : Append(w, msg)[i] = w[i]
         /\ Append(w, msg)[Len(w) + 1] = msg
BY LenProperties

LEMMA TailParts ==
  ASSUME NEW w \in Seq(Messages), w # <<>>
  PROVE  /\ DOMAIN w = 1 .. Len(w) /\ Len(w) \in Nat \ {0} /\ 1 \in DOMAIN w /\ Head(w) = w[1]
         /\ DOMAIN Tail(w) = 1 .. Len(w) - 1 /\ Len(Tail(w)) = Len(w) - 1
         /\ \A i \in 1 .. Len(w) - 1 : Tail(w)[i] = w[i + 1] /\ i + 1 \in DOMAIN w
BY LenProperties, HeadTailProperties, EmptySeq

\* What is under way or known was played.
SentInv ==
  \A a \in Apis, p \in Players, f \in Facts :
    UnderWay(a, p, f) \/ Known(a, p, f) => f \in Done(p)

LEMMA UnderWayBefore ==
  ASSUME Types, DoneTypes, [AnyStep]_vars, NEW a \in Apis, NEW p \in Players, NEW f \in Facts,
         UnderWay(a, p, f)'
  PROVE  UnderWay(a, p, f) \/ f \in Done(p)'
<1>1. wire[a][p] \in Seq(Messages)
  BY DEF Types, WireTypes
<1>2. PICK i \in DOMAIN wire'[a][p] : wire'[a][p][i] = EventMsg(f)
  BY DEF UnderWay
<1>3. CASE wire'[a][p] = wire[a][p]
  BY <1>2, <1>3 DEF UnderWay
<1>4. CASE wire'[a][p] = <<>>
  BY <1>2, <1>4
<1>5. CASE wire'[a][p] = Tail(wire[a][p]) /\ Takes(a, p)
  <2>1. wire[a][p] # <<>>
    BY <1>5 DEF Takes
  <2>2. wire[a][p][i + 1] = EventMsg(f) /\ i + 1 \in DOMAIN wire[a][p]
    BY <2>1, <1>1, <1>2, <1>5, TailParts
  <2> QED
    BY <2>2 DEF UnderWay
<1>6. ASSUME NEW msg, wire'[a][p] = Append(wire[a][p], msg), Dispatches(a, p, msg)
      PROVE  UnderWay(a, p, f) \/ f \in Done(p)'
  <2>1. CASE i \in DOMAIN wire[a][p]
    <3>1. wire[a][p][i] = EventMsg(f)
      BY <2>1, <1>1, <1>2, <1>6, AppendParts
    <3> QED
      BY <2>1, <3>1 DEF UnderWay
  <2>2. CASE i \notin DOMAIN wire[a][p]
    <3>1. msg = EventMsg(f)
      BY <2>2, <1>1, <1>2, <1>6, AppendParts
    <3>2. PICK s \in Sessions, g \in Facts : Play(s, p, g) /\ msg = EventMsg(g)
      BY <3>1, <1>6 DEF Dispatches, EventMsg
    <3>3. g = f
      BY <3>1, <3>2 DEF EventMsg
    <3> QED
      BY <3>2, <3>3, DoneGrows
  <2> QED
    BY <2>1, <2>2
<1> QED
  BY <1>3, <1>4, <1>5, <1>6, WireStep

LEMMA StepSent ==
  ASSUME Types, DoneTypes, SentInv, [AnyStep]_vars
  PROVE  SentInv'
<1> SUFFICES ASSUME NEW a \in Apis, NEW p \in Players, NEW f \in Facts,
                    UnderWay(a, p, f)' \/ Known(a, p, f)'
             PROVE  f \in Done(p)'
  BY DEF SentInv
<1>1. Known(a, p, f) \/ UnderWay(a, p, f) => f \in Done(p)'
  BY DoneGrows DEF SentInv
<1>2. UnderWay(a, p, f)' => f \in Done(p)'
  BY <1>1, UnderWayBefore
<1> QED
  BY <1>1, <1>2, KnownBefore

\* The session that asks by msg.
AskedBy(msg, s) == msg.kind \in {"sync", "admin"} /\ msg.from = s

\* A session whose message is under way waits for the answer to that one.
Asked ==
  \A a \in Apis, p \in Players, s \in Sessions : \A i \in DOMAIN wire[a][p] :
    AskedBy(wire[a][p][i], s) =>
      /\ SessionApi[s] = a /\ Waits(session[s], p, wire[a][p][i])
      /\ \A j \in DOMAIN wire[a][p] : AskedBy(wire[a][p][j], s) => j = i

\* A session that waits is left alone, until its answer comes or the owner dies.
LEMMA SessionStep ==
  ASSUME Types, [AnyStep]_vars, NEW s \in Sessions
  PROVE  \/ session'[s] = session[s]
         \/ session[s].doing \in {"idle", "recording"} \/ session[s].reply # None
         \/ \E b \in Apis, r \in Players :
              /\ wire[b][r] # <<>> /\ AskedBy(Head(wire[b][r]), s)
              /\ wire' = [wire EXCEPT ![b][r] = Tail(@)]
         \/ \E k \in Missions : Crash(k) /\ owner[session[s].of] = k
<1> DEFINE Same == session'[s] = session[s]
           Vacant == session[s].doing \in {"idle", "recording"} \/ session[s].reply # None
           Heads(b, r) ==
             /\ wire[b][r] # <<>> /\ AskedBy(Head(wire[b][r]), s)
             /\ wire' = [wire EXCEPT ![b][r] = Tail(@)]
           Dies == \E k \in Missions : Crash(k) /\ owner[session[s].of] = k
<1> USE DEF Types
<1>1. session \in [Sessions -> SessionStates]
  BY DEF SessionTypes
<1>2. ASSUME NEW k \in Sessions, NEW x, session' = [session EXCEPT ![k] = x], k # s PROVE Same
  BY <1>1, <1>2
<1>3. UNCHANGED session => Same
  OBVIOUS
<1>4. ASSUME Asking PROVE Same \/ Vacant
  <2>1. PICK k \in Sessions, r \in Players : AnyPacket(k, r)
    BY <1>4 DEF Asking
  <2>2. CASE Join(k, r)
    <3>1. PICK x : session' = [session EXCEPT ![k] = x]
      BY <2>2 DEF Join
    <3> QED
      BY <2>2, <3>1, <1>2 DEF Join, Packet
  <2>3. CASE Sync(k, r)
    <3>1. session' = [session EXCEPT ![k] = Doing(k, "syncing", r)] /\ Packet(k)
      BY <2>3 DEF Sync
    <3> QED
      BY <3>1, <1>2 DEF Packet
  <2>4. CASE AskClose(k, r)
    BY <2>4 DEF AskClose
  <2>5. ASSUME NEW f, Play(k, r, f) PROVE Same \/ Vacant
    <3>1. PICK x : session' = [session EXCEPT ![k] = x]
      BY <2>5 DEF Play
    <3> QED
      BY <2>5, <3>1, <1>2 DEF Play, Packet
  <2>6. ASSUME NEW op, Admin(k, r, op) PROVE Same \/ Vacant
    <3>1. session' = [session EXCEPT ![k] = Doing(k, "admin", r)] /\ Packet(k)
      BY <2>6 DEF Admin
    <3> QED
      BY <3>1, <1>2 DEF Packet
  <2>7. ASSUME NEW n, KillUnpublished(k, r, n) PROVE Same
    BY <2>7 DEF KillUnpublished
  <2> QED
    BY <2>1, <2>2, <2>3, <2>4, <2>5, <2>6, <2>7 DEF AnyPacket
<1>5. ASSUME NEW k \in Sessions, session' = Freed(k), k # s PROVE Same
  BY <1>5, <1>2 DEF Freed
<1>6. ASSUME NEW k \in Sessions, Synced(k) \/ Record(k) PROVE Same \/ Vacant
  <2>1. session' = Freed(k)
    BY <1>6 DEF Synced, Record
  <2>2. session[k].doing = "recording" \/ session[k].reply # None
    BY <1>6 DEF Synced, Record
  <2> QED
    BY <2>1, <2>2, <1>5
<1>7. ASSUME NEW k \in Sessions, Disconnect(k) PROVE Same \/ Vacant
  <2>1. session[k].doing = "idle" /\ session' = [session EXCEPT ![k] = Idle]
    BY <1>7 DEF Disconnect
  <2> QED
    BY <2>1, <1>2
<1>8. ASSUME NEW b \in Apis, NEW r \in Players, NEW m \in Missions,
             Reconcile(b, r, m) \/ Maintain(b, r, m)
      PROVE  Same \/ Heads(b, r)
  <2>1. /\ wire[b][r] # <<>> /\ Head(wire[b][r]).kind \in {"sync", "admin"}
        /\ wire' = [wire EXCEPT ![b][r] = Tail(@)]
    BY <1>8 DEF Reconcile, Maintain, Arrived
  <2>2. PICK k \in Sessions : k = Head(wire[b][r]).from
    BY <2>1, ArrivedTypes, MessageParts
  <2>3. CASE k = s
    BY <2>1, <2>2, <2>3 DEF AskedBy
  <2>4. CASE k # s
    <3>1. CASE Reconcile(b, r, m)
      <4>1. PICK y : Reply(k, y)
        BY <2>2, <3>1 DEF Reconcile
      <4>2. PICK x : x = [session[k] EXCEPT !.reply = y]
        OBVIOUS
      <4>3. session' = [session EXCEPT ![k] = x]
        BY <4>1, <4>2 DEF Reply
      <4> QED
        BY <2>4, <4>3, <1>2
    <3>2. CASE Maintain(b, r, m)
      <4>1. session' = Freed(k)
        BY <2>2, <3>2 DEF Maintain
      <4> QED
        BY <2>4, <4>1, <1>5
    <3> QED
      BY <1>8, <3>1, <3>2
  <2> QED
    BY <2>3, <2>4
<1>9. ASSUME NEW b \in Apis, NEW r \in Players, NEW m \in Missions,
             Apply(b, r, m) \/ Close(b, r, m)
      PROVE  Same
  BY <1>9 DEF Apply, Close
<1>10. ASSUME NEW b \in Apis, NEW r \in Players, CloseDropped(b, r) PROVE Same
  BY <1>10 DEF CloseDropped
<1>11. ASSUME NEW r \in Players, NEW m \in Missions, Activate(r, m) \/ Notified(m, r)
       PROVE  Same
  BY <1>11 DEF Activate, Notified
<1>12. ASSUME NEW r \in Players, Expire(r) PROVE Same
  BY <1>12 DEF Expire
<1>13. ASSUME NEW k \in Missions, Crash(k) PROVE Same \/ Dies
  BY <1>13 DEF Crash
<1>14. UNCHANGED vars => Same
  BY DEF vars
<1> HIDE DEF Same, Vacant, Heads, Dies
<1>15. Same \/ Vacant \/ Dies \/ \E b \in Apis, r \in Players : Heads(b, r)
  BY <1>4, <1>6, <1>7, <1>8, <1>9, <1>10, <1>11, <1>12, <1>13, <1>14
  DEF AnyStep, ServersNext, OwnerStep, Handler
<1> QED
  BY <1>15 DEF Same, Vacant, Heads, Dies

\* While its message stays on the wire, the session goes on to wait.
LEMMA WaitsOn ==
  ASSUME Types, Asked, [AnyStep]_vars, NEW a \in Apis, NEW p \in Players, NEW s \in Sessions,
         NEW i \in DOMAIN wire[a][p], AskedBy(wire[a][p][i], s), wire'[a][p] # <<>>,
         wire'[a][p] # Tail(wire[a][p]) \/ i # 1
  PROVE  SessionApi[s] = a /\ Waits(session[s], p, wire[a][p][i]) /\ session'[s] = session[s]
<1>1. /\ SessionApi[s] = a /\ Waits(session[s], p, wire[a][p][i])
      /\ \A j \in DOMAIN wire[a][p] : AskedBy(wire[a][p][j], s) => j = i
  BY DEF Asked
<1>2. session[s].doing \notin {"idle", "recording"} /\ session[s].reply = None
  BY <1>1 DEF Waits, Awaits
<1>3. ASSUME NEW b \in Apis, NEW r \in Players, wire[b][r] # <<>>,
             AskedBy(Head(wire[b][r]), s), wire' = [wire EXCEPT ![b][r] = Tail(@)]
      PROVE  FALSE
  <2>1. wire[b][r] \in Seq(Messages)
    BY DEF Types, WireTypes
  <2>2. 1 \in DOMAIN wire[b][r] /\ AskedBy(wire[b][r][1], s)
    BY <2>1, <1>3, TailParts
  <2>3. SessionApi[s] = b /\ Waits(session[s], r, wire[b][r][1])
    BY <2>2 DEF Asked
  <2>4. b = a /\ r = p
    BY <2>3, <1>1 DEF Waits
  <2>5. i = 1
    BY <2>2, <2>4, <1>1
  <2>6. wire'[a][p] = Tail(wire[a][p])
    <3>1. PICK u : u = Tail(wire[a][p])
      OBVIOUS
    <3>2. wire' = [wire EXCEPT ![a][p] = u]
      BY <1>3, <2>4, <3>1
    <3> QED
      BY <3>1, <3>2 DEF Types, WireTypes
  <2> QED
    BY <2>5, <2>6
<1>4. ASSUME NEW k \in Missions, Crash(k), owner[session[s].of] = k PROVE FALSE
  <2>1. owner[p] = k
    BY <1>1, <1>4 DEF Waits
  <2>2. wire'[a][p] = <<>>
    BY <2>1, <1>4 DEF Crash
  <2> QED
    BY <2>2
<1>5. session'[s] = session[s]
  BY <1>2, <1>3, <1>4, SessionStep
<1> QED
  BY <1>1, <1>5

LEMMA StepAsked ==
  ASSUME Types, Asked, [AnyStep]_vars
  PROVE  Asked'
<1> SUFFICES ASSUME NEW a \in Apis, NEW p \in Players, NEW s \in Sessions,
                    NEW i \in DOMAIN wire'[a][p], AskedBy(wire'[a][p][i], s)
             PROVE  /\ SessionApi[s] = a /\ Waits(session'[s], p, wire'[a][p][i])
                    /\ \A j \in DOMAIN wire'[a][p] : AskedBy(wire'[a][p][j], s) => j = i
  BY DEF Asked
<1> DEFINE Fine == /\ SessionApi[s] = a /\ Waits(session'[s], p, wire'[a][p][i])
                   /\ \A j \in DOMAIN wire'[a][p] : AskedBy(wire'[a][p][j], s) => j = i
<1>1. wire[a][p] \in Seq(Messages)
  BY DEF Types, WireTypes
<1>2. \A j \in DOMAIN wire[a][p] : AskedBy(wire[a][p][j], s) =>
        /\ Waits(session[s], p, wire[a][p][j])
        /\ \A k \in DOMAIN wire[a][p] : AskedBy(wire[a][p][k], s) => k = j
  BY DEF Asked
<1>3. wire'[a][p] # <<>>
  OBVIOUS
<1>4. ASSUME wire'[a][p] = wire[a][p] PROVE Fine
  <2>1. i \in DOMAIN wire[a][p] /\ AskedBy(wire[a][p][i], s)
    BY <1>4
  <2>2. wire'[a][p] # Tail(wire[a][p])
    <3>1. wire[a][p] # <<>>
      BY <1>3, <1>4
    <3>2. PICK n \in Nat : n = Len(wire[a][p]) /\ Len(Tail(wire[a][p])) = n - 1
      BY <1>1, <3>1, TailParts
    <3>3. Len(wire'[a][p]) = n
      BY <3>2, <1>4
    <3>4. n # n - 1
      BY <3>2
    <3> QED
      BY <3>2, <3>3, <3>4
  <2>3. SessionApi[s] = a /\ Waits(session[s], p, wire[a][p][i]) /\ session'[s] = session[s]
    BY <2>1, <2>2, <1>3, WaitsOn
  <2> QED
    BY <2>1, <2>3, <1>2, <1>4
<1>5. ASSUME wire'[a][p] = Tail(wire[a][p]), Takes(a, p) PROVE Fine
  <2>1. wire[a][p] # <<>>
    BY <1>5 DEF Takes
  <2>2. /\ DOMAIN wire'[a][p] = 1 .. Len(wire[a][p]) - 1 /\ Len(wire[a][p]) \in Nat
        /\ \A j \in 1 .. Len(wire[a][p]) - 1 :
             wire'[a][p][j] = wire[a][p][j + 1] /\ j + 1 \in DOMAIN wire[a][p]
    BY <2>1, <1>1, <1>5, TailParts
  <2>3. i + 1 \in DOMAIN wire[a][p] /\ AskedBy(wire[a][p][i + 1], s) /\ i + 1 # 1
    BY <2>2
  <2>4. SessionApi[s] = a /\ Waits(session[s], p, wire[a][p][i + 1]) /\ session'[s] = session[s]
    BY <2>3, <1>3, WaitsOn
  <2>5. ASSUME NEW j \in DOMAIN wire'[a][p], AskedBy(wire'[a][p][j], s) PROVE j = i
    <3>1. j + 1 \in DOMAIN wire[a][p] /\ AskedBy(wire[a][p][j + 1], s)
      BY <2>2, <2>5
    <3>2. j + 1 = i + 1
      BY <3>1, <2>3, <1>2
    <3> QED
      BY <3>2, <2>2
  <2> QED
    BY <2>2, <2>4, <2>5
<1>6. ASSUME NEW msg, wire'[a][p] = Append(wire[a][p], msg), Dispatches(a, p, msg) PROVE Fine
  <2>1. /\ DOMAIN wire[a][p] = 1 .. Len(wire[a][p]) /\ Len(wire[a][p]) \in Nat
        /\ DOMAIN wire'[a][p] = 1 .. Len(wire[a][p]) + 1
        /\ \A j \in 1 .. Len(wire[a][p]) : wire'[a][p][j] = wire[a][p][j]
        /\ wire'[a][p][Len(wire[a][p]) + 1] = msg
    BY <1>1, <1>6, AppendParts
  <2>2. ASSUME AskedBy(msg, s)
        PROVE  /\ SessionApi[s] = a /\ session[s].doing = "idle" /\ Waits(session'[s], p, msg)
               /\ \A j \in DOMAIN wire[a][p] : ~AskedBy(wire[a][p][j], s)
    <3>1. SessionApi[s] = a /\ session[s].doing = "idle" /\ Waits(session'[s], p, msg)
      BY <2>2, <1>6 DEF Dispatches, AskedBy, Packet
    <3>2. \A j \in DOMAIN wire[a][p] : ~Waits(session[s], p, wire[a][p][j])
      BY <3>1 DEF Waits, Awaits
    <3> QED
      BY <3>1, <3>2, <1>2
  <2>3. CASE i \in DOMAIN wire[a][p]
    <3>1. AskedBy(wire[a][p][i], s)
      BY <2>1, <2>3
    <3>2. ~AskedBy(msg, s)
      BY <2>2, <2>3, <3>1
    <3>3. wire'[a][p] # Tail(wire[a][p])
      <4>1. wire[a][p] # <<>>
        BY <2>3
      <4>2. PICK n \in Nat : n = Len(wire[a][p]) /\ Len(Tail(wire[a][p])) = n - 1
        BY <1>1, <4>1, TailParts
      <4>3. Len(wire'[a][p]) = n + 1
        BY <4>2, <1>1, <1>6, AppendParts
      <4>4. n + 1 # n - 1
        BY <4>2
      <4> QED
        BY <4>2, <4>3, <4>4
    <3>4. SessionApi[s] = a /\ Waits(session[s], p, wire[a][p][i]) /\ session'[s] = session[s]
      BY <2>3, <3>1, <3>3, <1>3, WaitsOn
    <3>5. ASSUME NEW j \in DOMAIN wire'[a][p], AskedBy(wire'[a][p][j], s) PROVE j = i
      <4>1. j \in DOMAIN wire[a][p] /\ AskedBy(wire[a][p][j], s)
        BY <3>2, <3>5, <2>1, SMTT(30)
      <4> QED
        BY <4>1, <3>1, <2>3, <1>2
    <3> QED
      BY <2>1, <2>3, <3>4, <3>5
  <2>4. CASE i \notin DOMAIN wire[a][p]
    <3>1. i = Len(wire[a][p]) + 1 /\ AskedBy(msg, s)
      BY <2>1, <2>4
    <3>2. ASSUME NEW j \in DOMAIN wire'[a][p], AskedBy(wire'[a][p][j], s) PROVE j = i
      BY <3>1, <3>2, <2>1, <2>2
    <3> QED
      BY <3>1, <3>2, <2>1, <2>2
  <2> QED
    BY <2>3, <2>4
<1> HIDE DEF Fine
<1>7. Fine
  BY <1>3, <1>4, <1>5, <1>6, WireStep
<1> QED
  BY <1>7 DEF Fine

-----------------------------------------------------------------------------
(* How the count of a quest changes *)

LEMMA EmptyCounts ==
  /\ \A q : CountOf(<<>>, q) = 0 /\ ~Granted(<<>>, q)
  /\ \A f : ~Applied(<<>>, f)
<1> DEFINE e == <<>>
<1>1. DOMAIN e = {}
  OBVIOUS
<1> HIDE DEF e
<1>2. \A q, T : LastOf(e, q, T) = {}
  BY <1>1 DEF LastOf
<1>3. \A q : CountOf(e, q) = 0 /\ ~Granted(e, q)
  BY <1>1, <1>2 DEF CountOf, Granted
<1>4. \A f : ~Applied(e, f)
  BY <1>1 DEF Applied
<1> QED
  BY <1>3, <1>4 DEF e

\* What apply does to a count.
LEMMA StoredCount ==
  ASSUME StreamTypes, NEW m \in Missions, NEW p \in Players, NEW f, IsFact(f), Stored(m, p, f),
         NEW q \in Quests
  PROVE  \/ CountOf(stream'[m][p], q) = CountOf(stream[m][p], q)
         \/ /\ Advances(stream[m][p], f, q) /\ Applied(stream'[m][p], f)
            /\ CountOf(stream'[m][p], q) = NextCount(stream[m][p], f, q)
<1>1. CASE ~ \E r \in Quests : Advances(stream[m][p], f, r)
  BY <1>1 DEF Stored
<1>2. CASE \E r \in Quests : Advances(stream[m][p], f, r)
  <2>1. PICK r \in Quests : Advances(stream[m][p], f, r)
    BY <1>2
  <2>2. r = CHOOSE x \in Quests : RuledBy(f, x)
    BY <2>1, OneRule DEF Advances
  <2>3. PICK t : t = Append3(stream[m][p], f, r)
    OBVIOUS
  <2>4. stream' = [stream EXCEPT ![m][p] = t]
    BY <1>2, <2>2, <2>3 DEF Stored
  <2>5. stream'[m][p] = t /\ StreamInv(stream[m][p])
    BY <2>4 DEF StreamTypes
  <2>6. Applied(t, f)
    BY <2>1, <2>3, <2>5, AppendLegal
  <2>7. /\ CountOf(t, r) = NextCount(stream[m][p], f, r)
        /\ \A x \in Quests \ {r} : CountOf(t, x) = CountOf(stream[m][p], x)
    BY <2>1, <2>3, <2>5, AppendCounts
  <2> QED
    BY <2>1, <2>5, <2>6, <2>7
<1> QED
  BY <1>1, <1>2

\* A fact adds what it counts for at most; a snapshot raises the count to its kills.
LEMMA NextBound ==
  ASSUME NEW s \in Seq(Events), NEW q \in Quests
  PROVE  /\ \A f \in Facts : NextCount(s, f, q) <= CountOf(s, q) + Delta(f)
         /\ \A n \in Nat : \/ NextCount(s, SnapshotFact(n), q) <= n
                           \/ NextCount(s, SnapshotFact(n), q) = CountOf(s, q)
<1>1. CountOf(s, q) \in Nat /\ Required(q) \in Nat
  BY CountType DEF Required
<1>2. ASSUME NEW f \in Facts PROVE NextCount(s, f, q) <= CountOf(s, q) + Delta(f)
  <2>1. ~Reconciles(f) /\ Delta(f) \in Nat
    BY GameQuestAssumption, DeltaType DEF Reconciles
  <2> QED
    BY <2>1, <1>1 DEF NextCount, LesserOf
<1>3. ASSUME NEW n \in Nat
      PROVE  \/ NextCount(s, SnapshotFact(n), q) <= n
             \/ NextCount(s, SnapshotFact(n), q) = CountOf(s, q)
  BY <1>1 DEF NextCount, Reconciles, GreaterOf, SnapshotFact
<1> QED
  BY <1>2, <1>3

Hunt == "first_hunt"

\* A count rises by a fact that is under way, or to the kills of a snapshot.
RisesBy(m, p, q, f) ==
  /\ \E a \in Apis : UnderWay(a, p, f)
  /\ Advances(stream[m][p], f, q) /\ Applied(stream'[m][p], f)
  /\ CountOf(stream'[m][p], q) <= CountOf(stream[m][p], q) + Delta(f)

RisesTo(a, m, p) ==
  /\ wire[a][p] # <<>> /\ Head(wire[a][p]).kind = "sync"
  /\ CountOf(stream'[m][p], Hunt) <= Head(wire[a][p]).kills

LEMMA CountStep ==
  ASSUME Types, [AnyStep]_vars, NEW m \in Missions, NEW p \in Players, NEW q \in Quests
  PROVE  \/ CountOf(stream'[m][p], q) <= CountOf(stream[m][p], q)
         \/ owner[p] = m /\ \E f \in Facts : RisesBy(m, p, q, f)
         \/ owner[p] = m /\ q = Hunt /\ \E a \in Apis : RisesTo(a, m, p)
<1>1. StreamTypes /\ StreamInv(stream[m][p]) /\ stream[m][p] \in Seq(Events)
  BY DEF Types, StreamTypes
<1>2. CountOf(stream[m][p], q) \in Nat
  BY <1>1, CountType
<1>3. CASE stream'[m][p] = stream[m][p]
  BY <1>2, <1>3
<1>4. CASE stream'[m][p] = <<>>
  BY <1>2, <1>4, EmptyCounts
<1>5. ASSUME NEW a \in Apis, Apply(a, p, m), owner[p] = m
      PROVE  \/ CountOf(stream'[m][p], q) <= CountOf(stream[m][p], q)
             \/ \E f \in Facts : RisesBy(m, p, q, f)
  <2>1. PICK f : f = Head(wire[a][p]).fact
    OBVIOUS
  <2>2. wire[a][p] # <<>> /\ Head(wire[a][p]).kind = "event" /\ Stored(m, p, f)
    BY <1>5, <2>1 DEF Apply, Arrived
  <2>3. f \in Facts /\ Head(wire[a][p]) = EventMsg(f) /\ wire[a][p] \in Seq(Messages)
    BY <2>1, <2>2, ArrivedTypes, MessageParts DEF Types, WireTypes
  <2>4. UnderWay(a, p, f)
    BY <2>2, <2>3, TailParts DEF UnderWay
  <2>5. IsFact(f)
    BY <2>3, FactTypes
  <2>6. \/ CountOf(stream'[m][p], q) = CountOf(stream[m][p], q)
        \/ /\ Advances(stream[m][p], f, q) /\ Applied(stream'[m][p], f)
           /\ CountOf(stream'[m][p], q) = NextCount(stream[m][p], f, q)
    BY <2>2, <2>5, <1>1, StoredCount
  <2>7. NextCount(stream[m][p], f, q) <= CountOf(stream[m][p], q) + Delta(f)
    BY <2>3, <1>1, NextBound
  <2> QED
    BY <2>3, <2>4, <2>6, <2>7, <1>2 DEF RisesBy
<1>6. ASSUME NEW a \in Apis, Reconcile(a, p, m), owner[p] = m
      PROVE  \/ CountOf(stream'[m][p], q) <= CountOf(stream[m][p], q)
             \/ q = Hunt /\ RisesTo(a, m, p)
  <2>1. PICK n : n = Head(wire[a][p]).kills
    OBVIOUS
  <2>2. PICK f : f = SnapshotFact(n)
    OBVIOUS
  <2>3. /\ wire[a][p] # <<>> /\ Head(wire[a][p]).kind = "sync"
        /\ Stored(m, p, f) \/ stream' = stream
    BY <1>6, <2>1, <2>2 DEF Reconcile, Arrived
  <2>4. n \in Nat
    BY <2>1, <2>3, ArrivedTypes, MessageParts DEF Types
  <2>5. IsFact(f)
    BY <2>2, <2>4, FactTypes
  <2>6. CASE stream' = stream
    BY <2>6, <1>2
  <2>7. CASE Stored(m, p, f)
    <3>1. \/ CountOf(stream'[m][p], q) = CountOf(stream[m][p], q)
          \/ /\ Advances(stream[m][p], f, q) /\ Applied(stream'[m][p], f)
             /\ CountOf(stream'[m][p], q) = NextCount(stream[m][p], f, q)
      BY <2>5, <2>7, <1>1, StoredCount
    <3>2. \/ NextCount(stream[m][p], f, q) <= n
          \/ NextCount(stream[m][p], f, q) = CountOf(stream[m][p], q)
      BY <2>2, <2>4, <1>1, NextBound
    <3>3. Advances(stream[m][p], f, q) => q = Hunt
      BY <2>2 DEF Advances, RuledBy, SnapshotFact, Hunt
    <3>4. CASE CountOf(stream'[m][p], q) = CountOf(stream[m][p], q)
      BY <3>4, <1>2
    <3>5. CASE /\ Advances(stream[m][p], f, q)
               /\ CountOf(stream'[m][p], q) = NextCount(stream[m][p], f, q)
      BY <3>2, <3>3, <3>5, <2>1, <2>3, <1>2 DEF RisesTo
    <3> QED
      BY <3>1, <3>4, <3>5
  <2> QED
    BY <2>3, <2>6, <2>7
<1> QED
  BY <1>3, <1>4, <1>5, <1>6, StreamStep

\* The process of a player's one home is the only one that has a stream of it.
OneHome(p) == \A m, k \in homes[p] : m = k

LEMMA OneHomeBefore ==
  ASSUME Types, [AnyStep]_vars, NEW p \in Players, OneHome(p)'
  PROVE  OneHome(p)
<1>1. homes[p] \subseteq homes'[p]
  BY HomesGrow DEF Types, PlaceTypes
<1> QED
  BY <1>1 DEF OneHome

LEMMA OnlyHome ==
  ASSUME Types, Owned, Fresh, NEW p \in Players, OneHome(p), NEW m \in Missions, owner[p] = m
  PROVE  \A k \in Missions : k = m \/ stream[k][p] = <<>>
<1>1. m \in homes[p]
  BY DEF Owned
<1> QED
  BY <1>1 DEF OneHome, Fresh

LEMMA AppliedStays ==
  ASSUME Types, [AnyStep]_vars, NEW m \in Missions, NEW p \in Players
  PROVE  stream'[m][p] = <<>> \/ \A f : Applied(stream[m][p], f) => Applied(stream'[m][p], f)
<1>1. ASSUME NEW k \in Missions, Crash(k)
      PROVE  stream'[m][p] = <<>> \/ stream'[m][p] = stream[m][p]
  BY <1>1 DEF Crash, Types, StreamTypes
<1> QED
  BY <1>1, StreamsGrow

-----------------------------------------------------------------------------
(* The quests that only facts count for *)

\* The facts of p that count for q on m.
Got(m, p, q) == {f \in Done(p) : RuledBy(f, q) /\ Applied(stream[m][p], f)}

Collected ==
  \A m \in Missions, p \in Players, q \in Quests \ {Hunt} :
    CountOf(stream[m][p], q) <= Cardinality(Units(Got(m, p, q)))

LEMMA StepCollected ==
  ASSUME Types, DoneTypes, SentInv, Collected, [AnyStep]_vars
  PROVE  Collected'
<1> SUFFICES ASSUME NEW m \in Missions, NEW p \in Players, NEW q \in Quests \ {Hunt}
             PROVE  CountOf(stream'[m][p], q) <= Cardinality(Units(Got(m, p, q)'))
  BY DEF Collected, Units
<1>1. StreamTypes /\ StreamTypes'
  BY StepTypes DEF Types
<1>2. CountOf(stream[m][p], q) \in Nat /\ CountOf(stream'[m][p], q) \in Nat
  BY <1>1, CountType DEF StreamTypes
<1>3. /\ IsFiniteSet(Done(p)') /\ Done(p) \subseteq Done(p)'
      /\ Done(p) \in SUBSET Facts /\ Done(p)' \in SUBSET Facts
  BY DoneGrows DEF Done
<1>4. /\ Got(m, p, q) \in SUBSET Facts /\ Got(m, p, q)' \in SUBSET Facts
      /\ IsFiniteSet(Got(m, p, q)')
  BY <1>3, FS_Subset DEF Got
<1>5. Cardinality(Units(Got(m, p, q)')) \in Nat
  BY <1>4, UnitsGrow
<1>6. CASE stream'[m][p] = <<>>
  BY <1>5, <1>6, EmptyCounts
<1>7. CASE \A f : Applied(stream[m][p], f) => Applied(stream'[m][p], f)
  <2>1. Got(m, p, q) \subseteq Got(m, p, q)'
    BY <1>3, <1>7 DEF Got
  <2>2. /\ Cardinality(Units(Got(m, p, q))) \in Nat
        /\ Cardinality(Units(Got(m, p, q))) <= Cardinality(Units(Got(m, p, q)'))
    BY <2>1, <1>4, UnitsGrow
  <2>3. CountOf(stream[m][p], q) <= Cardinality(Units(Got(m, p, q)))
    BY DEF Collected
  <2>4. CASE CountOf(stream'[m][p], q) <= CountOf(stream[m][p], q)
    BY <2>2, <2>3, <2>4, <1>2, <1>5
  <2>5. ASSUME NEW f \in Facts, RisesBy(m, p, q, f)
        PROVE  CountOf(stream'[m][p], q) <= Cardinality(Units(Got(m, p, q)'))
    <3>1. f \in Done(p)
      BY <2>5 DEF RisesBy, SentInv
    <3>2. f \in Got(m, p, q)' /\ f \notin Got(m, p, q)
      BY <3>1, <2>5, <1>3 DEF RisesBy, Advances, Got
    <3>3. Cardinality(Units(Got(m, p, q))) + Delta(f) <= Cardinality(Units(Got(m, p, q)'))
      BY <3>2, <2>1, <1>4, UnitsAdd
    <3>4. Delta(f) \in Nat
      BY DeltaType
    <3>5. CountOf(stream'[m][p], q) <= CountOf(stream[m][p], q) + Delta(f)
      BY <2>5 DEF RisesBy
    <3> QED
      BY <3>3, <3>4, <3>5, <2>2, <2>3, <1>2, <1>5
  <2> QED
    BY <2>4, <2>5, CountStep
<1> QED
  BY <1>6, <1>7, AppliedStays

-----------------------------------------------------------------------------
(* The hunt *)

\* The kills of p that its stream has, or does not count apart.
Seen(p) ==
  {f \in Done(p) : /\ f.type = "MonsterKilled"
                   /\ RuledBy(f, Hunt) => \E m \in Missions : Applied(stream[m][p], f)}

\* The kills that reach the owner of p before the message at i does.
Ahead(a, p, i) ==
  {f \in Done(p) : /\ f.type = "MonsterKilled"
                   /\ \E j \in DOMAIN wire[a][p] : j < i /\ wire[a][p][j] = EventMsg(f)}

Hunted(p) == Cardinality(Seen(p)) + Cardinality(Unpublished(p))

HuntOver(p) == \E m \in Missions : Granted(stream[m][p], Hunt)

\* While p hunts on its one process, the kills it has seen pay for the count, and those
\* ahead of a snapshot for what the snapshot says.
Hunting(p) ==
  OneHome(p) /\ Alive(p) /\ ~HuntOver(p) =>
    /\ \A m \in Missions : CountOf(stream[m][p], Hunt) <= Hunted(p)
    /\ \A a \in Apis : \A i \in DOMAIN wire[a][p] :
         wire[a][p][i].kind = "sync" =>
           wire[a][p][i].kills <= Cardinality(Seen(p) \cup Ahead(a, p, i)) + unpublished[a][p]

LEMMA SeenGrows ==
  ASSUME Types, Owned, Fresh, DoneTypes, [AnyStep]_vars, NEW p \in Players, Alive(p)'
  PROVE  /\ Seen(p) \subseteq Seen(p)'
         /\ IsFiniteSet(Seen(p)) /\ IsFiniteSet(Seen(p)')
         /\ Hunted(p) \in Nat /\ Hunted(p)' \in Nat /\ Hunted(p) <= Hunted(p)'
         /\ HuntOver(p) => HuntOver(p)'
<1>1. IsFiniteSet(Done(p)) /\ IsFiniteSet(Done(p)') /\ Done(p) \subseteq Done(p)'
  BY DoneGrows DEF DoneTypes
<1>2. /\ \A m \in Missions, f \in Facts : Applied(stream[m][p], f) => Applied(stream'[m][p], f)
      /\ HuntOver(p) => HuntOver(p)'
  BY CountedStays DEF HuntOver
<1>3. Seen(p) \subseteq Seen(p)'
  <2>1. \A f \in Done(p) : f \in Facts
    BY DEF Done
  <2> QED
    BY <2>1, <1>1, <1>2 DEF Seen
<1>4. Seen(p) \subseteq Done(p) /\ Seen(p)' \subseteq Done(p)'
  BY DEF Seen
<1>5. IsFiniteSet(Seen(p)) /\ IsFiniteSet(Seen(p)')
  BY <1>1, <1>4, FS_Subset
<1>6. /\ Cardinality(Seen(p)) \in Nat /\ Cardinality(Seen(p)') \in Nat
      /\ Cardinality(Seen(p)) <= Cardinality(Seen(p)')
  BY <1>3, <1>5, SubsetCounts
<1>7. /\ Cardinality(Unpublished(p)) \in Nat /\ Cardinality(Unpublished(p)') \in Nat
      /\ Cardinality(Unpublished(p)) <= Cardinality(Unpublished(p)')
  BY UnpublishedGrows, SubsetCounts
<1>8. Hunted(p)' = Cardinality(Seen(p)') + Cardinality(Unpublished(p)')
  BY DEF Hunted
<1>9. Hunted(p) \in Nat /\ Hunted(p)' \in Nat /\ Hunted(p) <= Hunted(p)'
  BY <1>6, <1>7, <1>8 DEF Hunted
<1> QED
  BY <1>2, <1>3, <1>5, <1>9

\* The count of the hunt is paid for, until it is over.
LEMMA HuntStep ==
  ASSUME Types, Owned, Fresh, DoneTypes, SentInv, [AnyStep]_vars, NEW p \in Players, Hunting(p),
         OneHome(p)', Alive(p)', ~HuntOver(p), NEW m \in Missions
  PROVE  CountOf(stream'[m][p], Hunt) <= Hunted(p)'
<1>1. OneHome(p) /\ Alive(p)
  BY OneHomeBefore, AliveBefore
<1>2. /\ CountOf(stream[m][p], Hunt) <= Hunted(p)
      /\ \A a \in Apis : \A i \in DOMAIN wire[a][p] :
           wire[a][p][i].kind = "sync" =>
             wire[a][p][i].kills <= Cardinality(Seen(p) \cup Ahead(a, p, i)) + unpublished[a][p]
  BY <1>1 DEF Hunting
<1>3. /\ Hunted(p) \in Nat /\ Hunted(p)' \in Nat /\ Hunted(p) <= Hunted(p)'
      /\ Seen(p) \subseteq Seen(p)' /\ IsFiniteSet(Seen(p)) /\ IsFiniteSet(Seen(p)')
  BY SeenGrows
<1>4. StreamTypes /\ StreamTypes'
  BY StepTypes DEF Types
<1>5. CountOf(stream[m][p], Hunt) \in Nat /\ CountOf(stream'[m][p], Hunt) \in Nat
  BY <1>4, CountType DEF StreamTypes
<1>6. CASE CountOf(stream'[m][p], Hunt) <= CountOf(stream[m][p], Hunt)
  BY <1>2, <1>3, <1>5, <1>6
<1>7. ASSUME NEW f \in Facts, owner[p] = m, RisesBy(m, p, Hunt, f)
      PROVE  CountOf(stream'[m][p], Hunt) <= Hunted(p)'
  <2>1. RuledBy(f, Hunt) /\ ~Applied(stream[m][p], f) /\ Applied(stream'[m][p], f)
    BY <1>7 DEF RisesBy, Advances
  <2>2. f.type = "MonsterKilled" /\ Delta(f) = 1
    BY <2>1, GameQuestAssumption DEF RuledBy, Hunt, Delta
  <2>3. \A k \in Missions : ~Applied(stream[k][p], f)
    BY <2>1, <1>1, <1>7, OnlyHome, EmptyCounts
  <2>4. f \in Done(p)' /\ f \notin Seen(p)
    BY <2>1, <2>3, <1>7, DoneGrows DEF RisesBy, SentInv, Seen
  <2>5. f \in Seen(p)'
    BY <2>1, <2>2, <2>4 DEF Seen
  <2>6. /\ IsFiniteSet(Seen(p) \cup {f})
        /\ Cardinality(Seen(p) \cup {f}) = Cardinality(Seen(p)) + 1
    BY <2>4, <1>3, FS_AddElement
  <2>7. Seen(p) \cup {f} \subseteq Seen(p)'
    BY <2>5, <1>3
  <2>8. Cardinality(Seen(p) \cup {f}) <= Cardinality(Seen(p)') /\ Cardinality(Seen(p)') \in Nat
    BY <2>7, <1>3, SubsetCounts
  <2>9. /\ Cardinality(Unpublished(p)) \in Nat /\ Cardinality(Unpublished(p)') \in Nat
        /\ Cardinality(Unpublished(p)) <= Cardinality(Unpublished(p)')
    BY UnpublishedGrows, SubsetCounts
  <2>10. Hunted(p)' = Cardinality(Seen(p)') + Cardinality(Unpublished(p)')
    BY DEF Hunted
  <2>11. Hunted(p) + 1 <= Hunted(p)'
    <3>1. Cardinality(Seen(p)) \in Nat
      BY <1>3, FS_CardinalityType
    <3> QED
      BY <3>1, <2>6, <2>8, <2>9, <2>10 DEF Hunted
  <2>12. CountOf(stream'[m][p], Hunt) <= CountOf(stream[m][p], Hunt) + 1
    BY <2>2, <1>7 DEF RisesBy
  <2> QED
    BY <2>11, <2>12, <1>2, <1>3, <1>5
<1>8. ASSUME NEW a \in Apis, RisesTo(a, m, p) PROVE CountOf(stream'[m][p], Hunt) <= Hunted(p)'
  <2>1. wire[a][p] # <<>> /\ wire[a][p] \in Seq(Messages) /\ Head(wire[a][p]).kind = "sync"
    BY <1>8 DEF RisesTo, Types, WireTypes
  <2>2. PICK msg \in Messages : msg = Head(wire[a][p])
    BY <2>1, ArrivedTypes DEF Types
  <2>3. 1 \in DOMAIN wire[a][p] /\ wire[a][p][1] = msg /\ DOMAIN wire[a][p] = 1 .. Len(wire[a][p])
    BY <2>1, <2>2, TailParts
  <2>4. msg.kind = "sync" /\ msg.kills \in Nat
    BY <2>1, <2>2, MessageParts
  <2>5. msg.kills <= Cardinality(Seen(p) \cup Ahead(a, p, 1)) + unpublished[a][p]
    BY <2>3, <2>4, <1>2
  <2>6. Ahead(a, p, 1) = {}
    BY <2>3 DEF Ahead
  <2>7. Seen(p) \cup Ahead(a, p, 1) = Seen(p)
    BY <2>6
  <2>8. /\ unpublished[a][p] \in Nat /\ Cardinality(Unpublished(p)) \in Nat
        /\ unpublished[a][p] <= Cardinality(Unpublished(p))
    BY UnpublishedOne
  <2>9. Cardinality(Seen(p)) \in Nat
    BY <1>3, FS_CardinalityType
  <2>10. msg.kills <= Hunted(p)
    <3>1. msg.kills <= Cardinality(Seen(p)) + unpublished[a][p]
      BY <2>5, <2>7
    <3>2. Hunted(p) = Cardinality(Seen(p)) + Cardinality(Unpublished(p))
      BY DEF Hunted
    <3> QED
      BY <3>1, <3>2, <2>4, <2>8, <2>9
  <2>11. CountOf(stream'[m][p], Hunt) <= msg.kills
    BY <2>2, <1>8 DEF RisesTo
  <2> QED
    BY <2>4, <2>10, <2>11, <1>3, <1>5
<1>9. Hunt \in Quests
  BY DEF Hunt, Quests
<1> QED
  BY <1>6, <1>7, <1>8, <1>9, CountStep

\* A fact that the owner takes is applied, unless its quest is rewarded.
LEMMA TakenApplied ==
  ASSUME Types, NEW a \in Apis, NEW p \in Players, NEW m \in Missions, Apply(a, p, m),
         NEW f \in Facts, Head(wire[a][p]) = EventMsg(f), NEW q \in Quests, RuledBy(f, q)
  PROVE  Applied(stream'[m][p], f) \/ Granted(stream[m][p], q)
<1>1. StreamTypes /\ StreamInv(stream[m][p]) /\ IsFact(f)
  BY FactTypes DEF Types, StreamTypes
<1>2. Stored(m, p, f) /\ Cached(m, p, f)
  BY DEF Apply, EventMsg
<1>3. PICK t : /\ stream' = [stream EXCEPT ![m][p] = t]
               /\ \A g : Applied(stream[m][p], g) => Applied(t, g)
               /\ (\E r \in Quests : Advances(stream[m][p], f, r)) => Applied(t, f)
  BY <1>1, <1>2, StoredStep
<1>4. Applied(t, f) \/ Granted(stream[m][p], q)
  BY <1>1, <1>3, FactCounts
<1>5. stream'[m][p] = t
  BY <1>1, <1>3 DEF StreamTypes
<1> QED
  BY <1>4, <1>5

\* The kills that an API process has recorded.
RecordedKills(a, p) == {f \in recorded[a][p] : f.type = "MonsterKilled"}

LEMMA SnapshotIs ==
  ASSUME Types, SentInv, NEW a \in Apis, NEW p \in Players
  PROVE  /\ Snapshot(a, p) = Cardinality(RecordedKills(a, p)) + unpublished[a][p]
         /\ RecordedKills(a, p) \subseteq Done(p)
<1>1. recorded[a][p] \subseteq Facts
  BY DEF Types, CountTypes
<1>2. recorded[a][p] \subseteq Done(p)
  BY <1>1 DEF SentInv, Known
<1> QED
  BY <1>2 DEF Snapshot, KillsOf, RecordedKills

\* A snapshot says no more than was earned.
LEMMA SnapshotEarned ==
  ASSUME Types, DoneTypes, SentInv, NEW a \in Apis, NEW p \in Players
  PROVE  Snapshot(a, p) \in Nat /\ Snapshot(a, p) <= Earned(p, Hunt)
<1> DEFINE Hunts == {f \in Done(p) : f.type = "MonsterKilled"}
<1>1. IsFiniteSet(Hunts)
  BY FS_Subset DEF DoneTypes
<1>2. RecordedKills(a, p) \subseteq Hunts
  BY SnapshotIs DEF RecordedKills
<1>3. /\ Cardinality(RecordedKills(a, p)) \in Nat /\ Cardinality(Hunts) \in Nat
      /\ Cardinality(RecordedKills(a, p)) <= Cardinality(Hunts)
  BY <1>1, <1>2, SubsetCounts
<1>4. /\ unpublished[a][p] \in Nat /\ Cardinality(Unpublished(p)) \in Nat
      /\ unpublished[a][p] <= Cardinality(Unpublished(p))
  BY UnpublishedOne
<1>5. Earned(p, Hunt) = Cardinality(Hunts) + Cardinality(Unpublished(p))
  BY DEF Earned, Hunt, KillsOf
<1>6. Snapshot(a, p) = Cardinality(RecordedKills(a, p)) + unpublished[a][p]
  BY SnapshotIs
<1> HIDE DEF Hunts
<1> QED
  BY <1>3, <1>4, <1>5, <1>6

\* What the kills of S and u unpublished ones pay for, more kills pay for.
LEMMA PaysMore ==
  ASSUME NEW S, NEW T, IsFiniteSet(T), S \subseteq T, NEW u \in Nat, NEW v \in Nat, u <= v,
         NEW n \in Nat, n <= Cardinality(S) + u
  PROVE  n <= Cardinality(T) + v
<1>1. Cardinality(S) \in Nat /\ Cardinality(T) \in Nat /\ Cardinality(S) <= Cardinality(T)
  BY SubsetCounts
<1> QED
  BY <1>1

LEMMA StepHunting ==
  ASSUME Types, Owned, Fresh, DoneTypes, SentInv, KeepInv, [AnyStep]_vars, NEW p \in Players,
         Hunting(p)
  PROVE  Hunting(p)'
<1> SUFFICES ASSUME OneHome(p)', Alive(p)', ~HuntOver(p)'
             PROVE  /\ \A m \in Missions : CountOf(stream'[m][p], Hunt) <= Hunted(p)'
                    /\ \A a \in Apis : \A i \in DOMAIN wire'[a][p] :
                         wire'[a][p][i].kind = "sync" =>
                           wire'[a][p][i].kills
                             <= Cardinality(Seen(p)' \cup Ahead(a, p, i)') + unpublished'[a][p]
  BY DEF Hunting
<1>1. OneHome(p) /\ Alive(p) /\ ~HuntOver(p) /\ Seen(p) \subseteq Seen(p)'
  BY OneHomeBefore, AliveBefore, SeenGrows
<1>2. \A m \in Missions : CountOf(stream'[m][p], Hunt) <= Hunted(p)'
  BY <1>1, HuntStep
<1>3. ASSUME NEW a \in Apis, NEW i \in DOMAIN wire'[a][p], wire'[a][p][i].kind = "sync"
      PROVE  wire'[a][p][i].kills
               <= Cardinality(Seen(p)' \cup Ahead(a, p, i)') + unpublished'[a][p]
  <2> DEFINE Paid == wire'[a][p][i].kills
                       <= Cardinality(Seen(p)' \cup Ahead(a, p, i)') + unpublished'[a][p]
  <2>1. /\ wire[a][p] \in Seq(Messages) /\ wire'[a][p] \in Seq(Messages)
        /\ unpublished[a][p] \in Nat /\ unpublished'[a][p] \in Nat
    BY StepTypes DEF Types, WireTypes, CountTypes
  <2>2. wire'[a][p][i] \in Messages
    BY <2>1
  <2>3. wire'[a][p][i].kills \in Nat
    BY <2>2, <1>3, MessageParts
  <2>4. unpublished[a][p] <= unpublished'[a][p]
    BY UnpublishedGrows
  <2>5. IsFiniteSet(Done(p)') /\ Done(p) \subseteq Done(p)' /\ Done(p) \subseteq Facts
    BY DoneGrows DEF Done
  <2>6. IsFiniteSet(Seen(p)' \cup Ahead(a, p, i)')
    <3>1. Seen(p)' \cup Ahead(a, p, i)' \subseteq Done(p)'
      BY DEF Seen, Ahead
    <3> QED
      BY <3>1, <2>5, FS_Subset
  <2>7. ASSUME NEW S, S \subseteq Seen(p)' \cup Ahead(a, p, i)',
               wire'[a][p][i].kills <= Cardinality(S) + unpublished[a][p]
        PROVE  Paid
    BY <2>1, <2>3, <2>4, <2>6, <2>7, PaysMore
  <2>8. \A j \in DOMAIN wire[a][p] :
          wire[a][p][j].kind = "sync" =>
            wire[a][p][j].kills <= Cardinality(Seen(p) \cup Ahead(a, p, j)) + unpublished[a][p]
    BY <1>1 DEF Hunting
  <2> HIDE DEF Paid
  <2>9. ASSUME i \in DOMAIN wire[a][p], wire'[a][p][i] = wire[a][p][i],
               \A j \in DOMAIN wire[a][p] : j < i =>
                 j \in DOMAIN wire'[a][p] /\ wire'[a][p][j] = wire[a][p][j]
        PROVE  Paid
    <3>1. Ahead(a, p, i) \subseteq Ahead(a, p, i)'
      BY <2>5, <2>9 DEF Ahead
    <3>2. Seen(p) \cup Ahead(a, p, i) \subseteq Seen(p)' \cup Ahead(a, p, i)'
      BY <3>1, <1>1
    <3>3. wire'[a][p][i].kills <= Cardinality(Seen(p) \cup Ahead(a, p, i)) + unpublished[a][p]
      BY <2>8, <2>9, <1>3
    <3> QED
      BY <3>2, <3>3, <2>7
  <2>10. CASE wire'[a][p] = wire[a][p]
    <3>1. Paid
      BY <2>9, <2>10
    <3> QED
      BY <3>1 DEF Paid
  <2>11. CASE wire'[a][p] = <<>>
    BY <2>11, <1>3
  <2>12. CASE wire'[a][p] = Tail(wire[a][p]) /\ Takes(a, p)
    <3>1. wire[a][p] # <<>>
      BY <2>12 DEF Takes
    <3>2. /\ DOMAIN wire[a][p] = 1 .. Len(wire[a][p]) /\ Len(wire[a][p]) \in Nat \ {0}
          /\ Head(wire[a][p]) = wire[a][p][1]
          /\ DOMAIN wire'[a][p] = 1 .. Len(wire[a][p]) - 1
          /\ \A j \in 1 .. Len(wire[a][p]) - 1 :
               wire'[a][p][j] = wire[a][p][j + 1] /\ j + 1 \in DOMAIN wire[a][p]
      BY <3>1, <2>1, <2>12, TailParts
    <3>3. ASSUME NEW f \in Ahead(a, p, i + 1) PROVE f \in Seen(p)' \cup Ahead(a, p, i)'
      <4>1. PICK j \in DOMAIN wire[a][p] : j < i + 1 /\ wire[a][p][j] = EventMsg(f)
        BY DEF Ahead
      <4>2. f \in Done(p)' /\ f \in Facts /\ f.type = "MonsterKilled"
        BY <2>5 DEF Ahead
      <4>3. CASE j = 1
        <5>1. Head(wire[a][p]) = EventMsg(f)
          BY <4>1, <4>3, <3>2
        <5>2. PICK m \in Missions : Apply(a, p, m)
          BY <5>1, <2>12 DEF Takes, EventMsg
        <5>3. ASSUME RuledBy(f, Hunt) PROVE Applied(stream'[m][p], f)
          <6>1. Hunt \in Quests
            BY DEF Hunt, Quests
          <6>2. Applied(stream'[m][p], f) \/ Granted(stream[m][p], Hunt)
            BY <6>1, <5>1, <5>2, <5>3, <4>2, TakenApplied
          <6> QED
            BY <6>2, <1>1 DEF HuntOver
        <5> QED
          BY <5>3, <4>2 DEF Seen
      <4>4. CASE j # 1
        <5>1. j - 1 \in DOMAIN wire'[a][p] /\ wire'[a][p][j - 1] = EventMsg(f) /\ j - 1 < i
          BY <4>1, <4>4, <3>2, SMTT(30)
        <5> QED
          BY <5>1, <4>2 DEF Ahead
      <4> QED
        BY <4>3, <4>4
    <3>4. Seen(p) \cup Ahead(a, p, i + 1) \subseteq Seen(p)' \cup Ahead(a, p, i)'
      BY <3>3, <1>1
    <3>5. wire'[a][p][i].kills <= Cardinality(Seen(p) \cup Ahead(a, p, i + 1)) + unpublished[a][p]
      BY <2>8, <3>2, <1>3
    <3>6. Paid
      BY <3>4, <3>5, <2>7
    <3> QED
      BY <3>6 DEF Paid
  <2>13. ASSUME NEW msg, wire'[a][p] = Append(wire[a][p], msg), Dispatches(a, p, msg) PROVE Paid
    <3>1. /\ DOMAIN wire[a][p] = 1 .. Len(wire[a][p]) /\ Len(wire[a][p]) \in Nat
          /\ DOMAIN wire'[a][p] = 1 .. Len(wire[a][p]) + 1
          /\ \A j \in 1 .. Len(wire[a][p]) : wire'[a][p][j] = wire[a][p][j]
          /\ wire'[a][p][Len(wire[a][p]) + 1] = msg
      BY <2>1, <2>13, AppendParts
    <3>2. CASE i \in DOMAIN wire[a][p]
      BY <3>1, <3>2, <2>9
    <3>3. CASE i \notin DOMAIN wire[a][p]
      <4>1. i = Len(wire[a][p]) + 1 /\ wire'[a][p][i] = msg /\ msg.kind = "sync"
        BY <3>1, <3>3, <1>3
      <4>2. msg.kills = Snapshot(a, p)
        BY <4>1, <2>13 DEF Dispatches
      <4>3. ASSUME NEW f \in RecordedKills(a, p) PROVE f \in Seen(p)' \cup Ahead(a, p, i)'
        <5>1. f \in Done(p) /\ f \in Done(p)' /\ f \in Facts /\ f.type = "MonsterKilled"
          BY SnapshotIs, <2>5 DEF RecordedKills
        <5>2. Known(a, p, f)
          BY DEF Known, RecordedKills
        <5>3. CASE ~RuledBy(f, Hunt)
          BY <5>1, <5>3 DEF Seen
        <5>4. CASE RuledBy(f, Hunt)
          <6>1. Hunt \in Quests
            BY DEF Hunt, Quests
          <6>2. UnderWay(a, p, f) \/ Counted(p, f, Hunt)
            BY <6>1, <5>1, <5>2, <5>4, <1>1 DEF KeepInv
          <6>3. CASE Counted(p, f, Hunt)
            <7>1. \E m \in Missions : Applied(stream[m][p], f)
              BY <6>3, <1>1 DEF Counted, HuntOver
            <7>2. f \in Seen(p)
              BY <7>1, <5>1 DEF Seen
            <7> QED
              BY <7>2, <1>1
          <6>4. CASE UnderWay(a, p, f)
            <7>1. PICK j \in DOMAIN wire[a][p] : wire[a][p][j] = EventMsg(f)
              BY <6>4 DEF UnderWay
            <7>2. j \in DOMAIN wire'[a][p] /\ wire'[a][p][j] = EventMsg(f) /\ j < i
              BY <7>1, <4>1, <3>1
            <7> QED
              BY <7>2, <5>1 DEF Ahead
          <6> QED
            BY <6>2, <6>3, <6>4
        <5> QED
          BY <5>3, <5>4
      <4>4. msg.kills <= Cardinality(RecordedKills(a, p)) + unpublished[a][p]
        <5>1. msg.kills = Cardinality(RecordedKills(a, p)) + unpublished[a][p]
          BY <4>2, SnapshotIs
        <5>2. msg.kills \in Nat
          BY <4>1, <2>3
        <5> QED
          BY <5>1, <5>2
      <4>5. RecordedKills(a, p) \subseteq Seen(p)' \cup Ahead(a, p, i)'
        BY <4>3
      <4> QED
        BY <4>1, <4>4, <4>5, <2>7
    <3> QED
      BY <3>2, <3>3
  <2>14. Paid
    BY <2>10, <2>11, <2>12, <2>13, WireStep DEF Paid
  <2> QED
    BY <2>14 DEF Paid
<1> QED
  BY <1>2, <1>3

-----------------------------------------------------------------------------
(* Counts and snapshots stay below what was earned *)

AsksTrue(p) ==
  \A a \in Apis : \A i \in DOMAIN wire[a][p] :
    wire[a][p][i].kind = "sync" => wire[a][p][i].kills <= Earned(p, Hunt)

CountsTrue(p) ==
  OneHome(p) => \A m \in Missions, q \in Quests : CountOf(stream[m][p], q) <= Earned(p, q)

LEMMA StepAsksTrue ==
  ASSUME Types, DoneTypes, SentInv, [AnyStep]_vars, NEW p \in Players, AsksTrue(p)
  PROVE  AsksTrue(p)'
<1> SUFFICES ASSUME NEW a \in Apis, NEW i \in DOMAIN wire'[a][p], wire'[a][p][i].kind = "sync"
             PROVE  wire'[a][p][i].kills <= Earned(p, Hunt)'
  BY DEF AsksTrue
<1>1. wire[a][p] \in Seq(Messages) /\ wire'[a][p] \in Seq(Messages)
  BY StepTypes DEF Types, WireTypes
<1>2. wire'[a][p][i] \in Messages
  BY <1>1
<1>3. wire'[a][p][i].kills \in Nat
  BY <1>2, MessageParts
<1>4. Earned(p, Hunt) \in Nat /\ Earned(p, Hunt)' \in Nat /\ Earned(p, Hunt) <= Earned(p, Hunt)'
  BY EarnedGrows
<1>5. ASSUME NEW j \in DOMAIN wire[a][p], wire'[a][p][i] = wire[a][p][j]
      PROVE  wire'[a][p][i].kills <= Earned(p, Hunt)'
  <2>1. wire'[a][p][i].kills <= Earned(p, Hunt)
    BY <1>5 DEF AsksTrue
  <2> QED
    BY <2>1, <1>3, <1>4
<1>6. CASE wire'[a][p] = wire[a][p]
  BY <1>5, <1>6
<1>7. CASE wire'[a][p] = <<>>
  BY <1>7
<1>8. CASE wire'[a][p] = Tail(wire[a][p]) /\ Takes(a, p)
  <2>1. wire[a][p] # <<>>
    BY <1>8 DEF Takes
  <2>2. wire'[a][p][i] = wire[a][p][i + 1] /\ i + 1 \in DOMAIN wire[a][p]
    BY <2>1, <1>1, <1>8, TailParts
  <2> QED
    BY <2>2, <1>5
<1>9. ASSUME NEW msg, wire'[a][p] = Append(wire[a][p], msg), Dispatches(a, p, msg)
      PROVE  wire'[a][p][i].kills <= Earned(p, Hunt)'
  <2>1. CASE i \in DOMAIN wire[a][p]
    <3>1. wire'[a][p][i] = wire[a][p][i]
      BY <2>1, <1>1, <1>9, AppendParts
    <3> QED
      BY <2>1, <3>1, <1>5
  <2>2. CASE i \notin DOMAIN wire[a][p]
    <3>1. wire'[a][p][i] = msg
      BY <2>2, <1>1, <1>9, AppendParts
    <3>2. wire'[a][p][i].kills = Snapshot(a, p)
      BY <3>1, <1>9 DEF Dispatches
    <3>3. Snapshot(a, p) \in Nat /\ Snapshot(a, p) <= Earned(p, Hunt)
      BY SnapshotEarned
    <3> QED
      BY <3>2, <3>3, <1>4
  <2> QED
    BY <2>1, <2>2
<1> QED
  BY <1>6, <1>7, <1>8, <1>9, WireStep

LEMMA StepCountsTrue ==
  ASSUME Types, Owned, Fresh, Fresh', DoneTypes, SentInv, Collected', [AnyStep]_vars,
         NEW p \in Players, Hunting(p), AsksTrue(p), CountsTrue(p)
  PROVE  CountsTrue(p)'
<1> SUFFICES ASSUME OneHome(p)', NEW m \in Missions, NEW q \in Quests
             PROVE  CountOf(stream'[m][p], q) <= Earned(p, q)'
  BY DEF CountsTrue
<1>1. OneHome(p)
  BY OneHomeBefore
<1>2. StreamTypes /\ StreamTypes'
  BY StepTypes DEF Types
<1>3. /\ CountOf(stream[m][p], q) \in Nat /\ CountOf(stream'[m][p], q) \in Nat
      /\ stream[m][p] \in Seq(Events) /\ StreamInv(stream[m][p])
  BY <1>2, CountType DEF StreamTypes
<1>4. Earned(p, q) \in Nat /\ Earned(p, q)' \in Nat /\ Earned(p, q) <= Earned(p, q)'
  BY EarnedGrows
<1>5. CountOf(stream[m][p], q) <= Earned(p, q)
  BY <1>1 DEF CountsTrue
<1>6. IsFiniteSet(Done(p)') /\ Done(p)' \subseteq Facts
  BY DoneGrows DEF Done
<1>7. CASE q # Hunt
  <2>1. PICK D : D = {f \in Done(p)' : RuledBy(f, q)}
    OBVIOUS
  <2>2. PICK G : G = Got(m, p, q)'
    OBVIOUS
  <2>3. IsFiniteSet(D) /\ D \in SUBSET Facts
    BY <2>1, <1>6, FS_Subset
  <2>4. G \subseteq D /\ G \in SUBSET Facts
    BY <2>1, <2>2, <2>3 DEF Got
  <2>5. /\ Cardinality(Units(G)) \in Nat /\ Cardinality(Units(D)) \in Nat
        /\ Cardinality(Units(G)) <= Cardinality(Units(D))
    BY <2>3, <2>4, UnitsGrow
  <2>6. CountOf(stream'[m][p], q) <= Cardinality(Units(G))
    BY <2>2, <1>7 DEF Collected, Units
  <2>7. Earned(p, q)' = Cardinality(Units(D))
    BY <2>1, <1>7 DEF Earned, Hunt, Units
  <2> QED
    BY <2>5, <2>6, <2>7, <1>3
<1>8. CASE q = Hunt /\ ~Alive(p)'
  <2>1. m \notin homes'[p] \/ m \notin up'
    BY <1>8 DEF Alive, OneHome
  <2>2. stream'[m][p] = <<>>
    BY <2>1 DEF Fresh
  <2> QED
    BY <2>2, <1>4, EmptyCounts
<1>9. CASE q = Hunt /\ Alive(p)' /\ ~HuntOver(p)
  <2>1. CountOf(stream'[m][p], Hunt) <= Hunted(p)'
    BY <1>9, HuntStep
  <2>2. PICK K : K = {f \in Done(p)' : f.type = "MonsterKilled"}
    OBVIOUS
  <2>3. Seen(p)' \subseteq K /\ IsFiniteSet(K)
    BY <2>2, <1>6, FS_Subset DEF Seen
  <2>4. /\ Cardinality(Seen(p)') \in Nat /\ Cardinality(K) \in Nat
        /\ Cardinality(Seen(p)') <= Cardinality(K)
    BY <2>3, SubsetCounts
  <2>5. Cardinality(Unpublished(p)') \in Nat
    BY UnpublishedGrows, FS_CardinalityType
  <2>6. Hunted(p)' = Cardinality(Seen(p)') + Cardinality(Unpublished(p)')
    BY DEF Hunted
  <2>7. Earned(p, Hunt)' = Cardinality(K) + Cardinality(Unpublished(p)')
    BY <2>2 DEF Earned, Hunt, KillsOf
  <2>8. Hunted(p)' <= Earned(p, Hunt)' /\ Hunted(p)' \in Nat /\ Earned(p, Hunt)' \in Nat
    BY <2>4, <2>5, <2>6, <2>7
  <2> QED
    BY <2>1, <2>8, <1>3, <1>9
<1>10. CASE q = Hunt /\ Alive(p)' /\ HuntOver(p)
  <2>1. CASE CountOf(stream'[m][p], q) <= CountOf(stream[m][p], q)
    BY <2>1, <1>3, <1>4, <1>5
  <2>2. ASSUME NEW f \in Facts, owner[p] = m, RisesBy(m, p, q, f) PROVE FALSE
    <3>1. PICK k \in Missions : Granted(stream[k][p], Hunt)
      BY <1>10 DEF HuntOver
    <3>2. k = m
      BY <3>1, <2>2, <1>1, OnlyHome, EmptyCounts
    <3>3. CountOf(stream[m][p], q) >= Required(q)
      BY <3>1, <3>2, <1>3, <1>10, RewardedCount
    <3>4. Required(q) \in Nat
      BY DEF Required
    <3>5. StatusOf(stream[m][p], q) = "reward_granted"
      BY <3>3, <3>4, <1>3 DEF StreamInv
    <3>6. ~Reconciles(f)
      BY GameQuestAssumption DEF Reconciles
    <3> QED
      BY <3>5, <3>6, <2>2 DEF RisesBy, Advances
  <2>3. ASSUME NEW a \in Apis, RisesTo(a, m, p) PROVE CountOf(stream'[m][p], q) <= Earned(p, q)'
    <3>1. wire[a][p] # <<>> /\ wire[a][p] \in Seq(Messages) /\ Head(wire[a][p]).kind = "sync"
      BY <2>3 DEF RisesTo, Types, WireTypes
    <3>2. PICK msg \in Messages : msg = Head(wire[a][p])
      BY <3>1, ArrivedTypes DEF Types
    <3>3. 1 \in DOMAIN wire[a][p] /\ wire[a][p][1] = msg
      BY <3>1, <3>2, TailParts
    <3>4. msg.kind = "sync" /\ msg.kills \in Nat
      BY <3>1, <3>2, MessageParts
    <3>5. msg.kills <= Earned(p, Hunt)
      BY <3>3, <3>4 DEF AsksTrue
    <3>6. CountOf(stream'[m][p], Hunt) <= msg.kills
      BY <3>2, <2>3 DEF RisesTo
    <3> QED
      BY <3>4, <3>5, <3>6, <1>3, <1>4, <1>10
  <2> QED
    BY <2>1, <2>2, <2>3, CountStep
<1> QED
  BY <1>7, <1>8, <1>9, <1>10

-----------------------------------------------------------------------------
(* What the API processes are told and show *)

ShownTypes == shown \in [Apis -> [Players -> Projections]]

LEMMA ShownStep ==
  ASSUME Types, Heard, ShownTypes, [AnyStep]_vars
  PROVE  /\ ShownTypes'
         /\ \A a \in Apis, p \in Players :
              \/ shown'[a][p] = shown[a][p]
              \/ \E s \in Sessions : /\ session[s].of = p /\ session[s].reply # None
                                     /\ shown'[a][p] = session[s].reply
              \/ \E m \in Missions : /\ notes[m][p] # <<>>
                                     /\ shown'[a][p] = Head(notes[m][p]).projection
<1> DEFINE Kept(a, p) ==
      \/ shown'[a][p] = shown[a][p]
      \/ \E s \in Sessions : /\ session[s].of = p /\ session[s].reply # None
                             /\ shown'[a][p] = session[s].reply
      \/ \E m \in Missions : notes[m][p] # <<>> /\ shown'[a][p] = Head(notes[m][p]).projection
    Fine == ShownTypes' /\ \A a \in Apis, p \in Players : Kept(a, p)
<1>1. shown' = shown => Fine
  BY DEF ShownTypes
<1>2. ASSUME NEW b \in Apis, NEW r \in Players, NEW x \in Projections,
             shown' = [shown EXCEPT ![b][r] = x]
      PROVE  /\ ShownTypes'
             /\ \A a \in Apis, p \in Players :
                  shown'[a][p] = shown[a][p] \/ (a = b /\ p = r /\ shown'[a][p] = x)
  BY <1>2 DEF ShownTypes
<1>3. ASSUME NEW s \in Sessions, Synced(s) PROVE Fine
  <2>1. PICK b \in Apis : b = SessionApi[s]
    BY ApiOf
  <2>2. session[s] \in SessionStates /\ session[s].doing # "idle" /\ session[s].reply # None
    BY <1>3 DEF Synced, Types, SessionTypes
  <2>3. PICK r \in Players : r = session[s].of
    BY <2>2 DEF Types, SessionTypes
  <2>4. PICK x \in Projections : x = session[s].reply
    BY <2>2 DEF SessionStates
  <2>5. shown' = [shown EXCEPT ![b][r] = x]
    BY <1>3, <2>1, <2>3, <2>4 DEF Synced
  <2>6. \A a \in Apis, p \in Players :
          shown'[a][p] = shown[a][p] \/ (p = r /\ shown'[a][p] = x)
    BY <2>5, <1>2
  <2>7. ShownTypes'
    BY <2>5, <1>2
  <2>8. \A a \in Apis, p \in Players : Kept(a, p)
    BY <2>2, <2>3, <2>4, <2>6
  <2> QED
    BY <2>7, <2>8
<1>4. ASSUME NEW r \in Players, NEW k \in Missions, Notified(k, r) PROVE Fine
  <2>1. notes[k][r] # <<>> /\ notes[k][r] \in Seq(Notices)
    BY <1>4 DEF Notified, Types, NoteTypes
  <2>2. Head(notes[k][r]) \in Notices
    BY <2>1, HeadTailProperties
  <2>3. PICK x \in Projections : x = Head(notes[k][r]).projection
    BY <2>2 DEF Notices
  <2>4. PICK b \in Apis : b = home[r]
    BY <2>1 DEF Heard
  <2>5. shown' = [shown EXCEPT ![b][r] = x]
    BY <1>4, <2>3, <2>4 DEF Notified
  <2>6. \A a \in Apis, p \in Players :
          shown'[a][p] = shown[a][p] \/ (p = r /\ shown'[a][p] = x)
    BY <2>5, <1>2
  <2>7. ShownTypes'
    BY <2>5, <1>2
  <2>8. \A a \in Apis, p \in Players : Kept(a, p)
    BY <2>1, <2>3, <2>6
  <2> QED
    BY <2>7, <2>8
<1> HIDE DEF Fine
<1>5. ASSUME Asking PROVE Fine
  <2>1. PICK s \in Sessions, r \in Players : AnyPacket(s, r)
    BY <1>5 DEF Asking
  <2>2. CASE Join(s, r) \/ Sync(s, r) \/ AskClose(s, r)
    <3>1. Fine
      BY <2>2, <1>1 DEF Join, Sync, AskClose, apiVars
    <3> QED
      BY <3>1 DEF Fine
  <2>3. ASSUME NEW f, Play(s, r, f) PROVE Fine
    BY <2>3, <1>1 DEF Play, apiVars
  <2>4. ASSUME NEW op, Admin(s, r, op) PROVE Fine
    BY <2>4, <1>1 DEF Admin, apiVars
  <2>5. ASSUME NEW n, KillUnpublished(s, r, n) PROVE Fine
    BY <2>5, <1>1 DEF KillUnpublished
  <2> QED
    BY <2>1, <2>2, <2>3, <2>4, <2>5 DEF AnyPacket
<1>6. ASSUME NEW s \in Sessions, Record(s) \/ Disconnect(s) PROVE Fine
  BY <1>6, <1>1 DEF Record, Disconnect
<1>7. ASSUME NEW a \in Apis, NEW r \in Players, NEW k \in Missions,
             \/ Apply(a, r, k) \/ Reconcile(a, r, k) \/ Maintain(a, r, k)
             \/ Close(a, r, k)
      PROVE  Fine
  BY <1>7, <1>1 DEF Apply, Reconcile, Maintain, Close, apiVars
<1>8. ASSUME NEW a \in Apis, NEW r \in Players, CloseDropped(a, r) PROVE Fine
  BY <1>8, <1>1 DEF CloseDropped, apiVars
<1>9. ASSUME NEW r \in Players, NEW k \in Missions, Activate(r, k) PROVE Fine
  BY <1>9, <1>1 DEF Activate, apiVars
<1>10. ASSUME NEW r \in Players, Expire(r) PROVE Fine
  BY <1>10, <1>1 DEF Expire, apiVars
<1>11. ASSUME NEW k \in Missions, Crash(k) PROVE Fine
  BY <1>11, <1>1 DEF Crash, apiVars
<1>12. UNCHANGED vars => Fine
  BY <1>1 DEF vars, apiVars
<1>13. Fine
  BY <1>3, <1>4, <1>5, <1>6, <1>7, <1>8, <1>9, <1>10, <1>11, <1>12
  DEF AnyStep, ServersNext, OwnerStep, Handler
<1> QED
  BY <1>13 DEF Fine

\* A note says what the stream's projection was or is.
LEMMA NotesStep ==
  ASSUME Types, [AnyStep]_vars, NEW m \in Missions, NEW p \in Players, NEW i \in DOMAIN notes'[m][p]
  PROVE  \/ \E j \in DOMAIN notes[m][p] : notes'[m][p][i] = notes[m][p][j]
         \/ notes'[m][p][i].projection \in {Replay(stream[m][p]), cache'[m][p]}
<1> DEFINE Old == \E j \in DOMAIN notes[m][p] : notes'[m][p][i] = notes[m][p][j]
           New == notes'[m][p][i].projection \in {Replay(stream[m][p]), cache'[m][p]}
<1>1. notes'[m][p] = notes[m][p] => Old
  OBVIOUS
<1>2. notes[m][p] \in Seq(Notices) /\ notes \in [Missions -> [Players -> Seq(Notices)]]
  BY DEF Types, NoteTypes
<1>3. ASSUME NEW a \in Apis, NEW r \in Players, NEW k \in Missions, Apply(a, r, k)
      PROVE  Old \/ New
  <2>1. PICK f : Notify(k, r, f)
    BY <1>3 DEF Apply
  <2>2. PICK n : n = NoteOf(k, r, f)
    OBVIOUS
  <2>3. PICK u : u = Append(notes[k][r], n)
    OBVIOUS
  <2>4. notes' = notes \/ notes' = [notes EXCEPT ![k][r] = u]
    BY <2>1, <2>2, <2>3 DEF Notify
  <2>5. CASE notes' = notes \/ ~(k = m /\ r = p)
    BY <2>4, <2>5, <1>1, <1>2
  <2>6. CASE notes' = [notes EXCEPT ![k][r] = u] /\ k = m /\ r = p
    <3>1. notes'[m][p] = Append(notes[m][p], n)
      BY <2>3, <2>6, <1>2
    <3>2. /\ DOMAIN notes[m][p] = 1 .. Len(notes[m][p])
          /\ DOMAIN Append(notes[m][p], n) = 1 .. Len(notes[m][p]) + 1
          /\ \A j \in 1 .. Len(notes[m][p]) : Append(notes[m][p], n)[j] = notes[m][p][j]
          /\ Append(notes[m][p], n)[Len(notes[m][p]) + 1] = n
          /\ Len(notes[m][p]) \in Nat
      BY <1>2, LenProperties
    <3>3. n.projection \in {Replay(stream[m][p]), cache'[m][p]}
      BY <2>2, <2>6 DEF NoteOf, Returned
    <3>4. i \in 1 .. Len(notes[m][p]) \/ i = Len(notes[m][p]) + 1
      BY <3>1, <3>2
    <3> QED
      BY <3>1, <3>2, <3>3, <3>4
  <2> QED
    BY <2>4, <2>5, <2>6
<1>4. ASSUME NEW r \in Players, NEW k \in Missions, Notified(k, r) PROVE Old
  <2>1. PICK u : u = Tail(notes[k][r])
    OBVIOUS
  <2>2. notes' = [notes EXCEPT ![k][r] = u] /\ notes[k][r] # <<>>
    BY <1>4, <2>1 DEF Notified
  <2>3. CASE ~(k = m /\ r = p)
    BY <2>2, <2>3, <1>1, <1>2
  <2>4. CASE k = m /\ r = p
    <3>1. notes'[m][p] = Tail(notes[m][p]) /\ notes[m][p] # <<>>
      BY <2>1, <2>2, <2>4, <1>2
    <3>2. /\ DOMAIN notes[m][p] = 1 .. Len(notes[m][p]) /\ Len(notes[m][p]) \in Nat
          /\ DOMAIN Tail(notes[m][p]) = 1 .. Len(notes[m][p]) - 1
          /\ \A j \in 1 .. Len(notes[m][p]) - 1 : Tail(notes[m][p])[j] = notes[m][p][j + 1]
      BY <3>1, <1>2, LenProperties, HeadTailProperties, EmptySeq
    <3>3. i + 1 \in DOMAIN notes[m][p] /\ notes'[m][p][i] = notes[m][p][i + 1]
      BY <3>1, <3>2
    <3> QED
      BY <3>3
  <2> QED
    BY <2>3, <2>4
<1> HIDE DEF Old, New
<1>5. ASSUME NEW a \in Apis, NEW r \in Players, NEW k \in Missions,
             \/ Reconcile(a, r, k) \/ Maintain(a, r, k) \/ Close(a, r, k)
      PROVE  Old
  BY <1>5, <1>1 DEF Reconcile, Maintain, Close
<1>6. ASSUME NEW a \in Apis, NEW r \in Players, CloseDropped(a, r) PROVE Old
  BY <1>6, <1>1 DEF CloseDropped
<1>7. ASSUME NEW r \in Players, NEW k \in Missions, Activate(r, k) PROVE Old
  BY <1>7, <1>1 DEF Activate
<1>8. ASSUME NEW r \in Players, Expire(r) PROVE Old
  BY <1>8, <1>1 DEF Expire
<1>9. ASSUME NEW k \in Missions, Crash(k) PROVE Old
  BY <1>9, <1>1 DEF Crash
<1>10. Asking \/ (\E s \in Sessions : Handler(s) \/ Disconnect(s)) => Old
  BY ClientQuiet, SessionQuiet, <1>1
<1>11. UNCHANGED vars => Old
  BY <1>1 DEF vars
<1>12. Old \/ New
  BY <1>3, <1>4, <1>5, <1>6, <1>7, <1>8, <1>9, <1>10, <1>11 DEF AnyStep, ServersNext, OwnerStep
<1> QED
  BY <1>12 DEF Old, New

\* An answer says what the projection of the player who asked was or is.
LEMMA ReplyStep ==
  ASSUME Types, Asked, [AnyStep]_vars, NEW s \in Sessions, session'[s].reply # None
  PROVE  \/ session'[s].reply = session[s].reply /\ session'[s].of = session[s].of
         \/ \E m \in Missions, p \in Players :
              session'[s].of = p /\ session'[s].reply \in {cache[m][p], cache'[m][p]}
<1> DEFINE Old == session'[s].reply = session[s].reply /\ session'[s].of = session[s].of
           New == \E m \in Missions, p \in Players :
                    session'[s].of = p /\ session'[s].reply \in {cache[m][p], cache'[m][p]}
<1>1. session \in [Sessions -> SessionStates]
  BY DEF Types, SessionTypes
<1>2. session'[s] = session[s] => Old
  OBVIOUS
<1>3. ASSUME NEW k \in Sessions, NEW x, session' = [session EXCEPT ![k] = x], x.reply = None
      PROVE  Old
  <2>1. session'[s] = IF s = k THEN x ELSE session[s]
    BY <1>1, <1>3
  <2> QED
    BY <2>1, <1>3
<1>4. ASSUME NEW k \in Sessions
      PROVE  /\ Freed(k)[k].reply = None
             /\ session' = Freed(k) => Old
  <2>1. PICK x : x = [Idle EXCEPT !.player = session[k].player]
    OBVIOUS
  <2>2. x.reply = None
    BY <2>1 DEF Idle
  <2>3. Freed(k) = [session EXCEPT ![k] = x]
    BY <2>1 DEF Freed
  <2> QED
    BY <2>2, <2>3, <1>1, <1>3
<1>5. ASSUME NEW a \in Apis, NEW r \in Players, NEW m \in Missions, Reconcile(a, r, m)
      PROVE  Old \/ New
  <2>1. /\ wire[a][r] # <<>> /\ Head(wire[a][r]).kind = "sync" /\ wire[a][r] \in Seq(Messages)
    BY <1>5 DEF Reconcile, Arrived, Types, WireTypes
  <2>2. PICK k \in Sessions : k = Head(wire[a][r]).from
    BY <2>1, ArrivedTypes, MessageParts DEF Types
  <2>3. 1 \in DOMAIN wire[a][r] /\ AskedBy(wire[a][r][1], k)
    BY <2>1, <2>2, TailParts DEF AskedBy
  <2>4. session[k].of = r
    BY <2>3 DEF Asked, Waits
  <2>5. PICK y \in {cache[m][r], cache'[m][r]} : Reply(k, y)
    BY <1>5, <2>2 DEF Reconcile
  <2>6. PICK x : x = [session[k] EXCEPT !.reply = y]
    OBVIOUS
  <2>7. session[k] \in SessionStates
    BY <1>1
  <2>8. x.reply = y /\ x.of = r
    BY <2>4, <2>6, <2>7 DEF SessionStates
  <2>9. session' = [session EXCEPT ![k] = x]
    BY <2>5, <2>6 DEF Reply
  <2>10. session'[s] = IF s = k THEN x ELSE session[s]
    BY <2>9, <1>1
  <2>11. CASE s = k
    <3>1. session'[s].of = r /\ session'[s].reply = y
      BY <2>8, <2>10, <2>11
    <3>2. New
      BY <3>1, <2>5
    <3> QED
      BY <3>2
  <2>12. CASE s # k
    BY <2>10, <2>12
  <2> QED
    BY <2>11, <2>12
<1> HIDE DEF Old, New
<1>6. ASSUME Asking PROVE Old
  <2>1. PICK k \in Sessions, r \in Players : AnyPacket(k, r)
    BY <1>6 DEF Asking
  <2>2. session[k] \in SessionStates
    BY <1>1
  <2>3. ASSUME Join(k, r) PROVE Old
    <3>1. PICK y : y = IF Reachable(r) THEN Doing(k, "joining", r) ELSE Idle
      OBVIOUS
    <3>2. y.reply = None
      BY <3>1, <2>2 DEF Doing, Idle, SessionStates
    <3>3. PICK x : x = [y EXCEPT !.player = r]
      OBVIOUS
    <3>4. x.reply = None
      <4>1. CASE Reachable(r)
        BY <4>1, <3>1, <3>3, <2>2 DEF Doing, SessionStates
      <4>2. CASE ~Reachable(r)
        BY <4>2, <3>1, <3>3 DEF Idle
      <4> QED
        BY <4>1, <4>2
    <3>5. session' = [session EXCEPT ![k] = x]
      BY <2>3, <3>1, <3>3 DEF Join
    <3> QED
      BY <3>4, <3>5, <1>3
  <2>4. ASSUME Sync(k, r) PROVE Old
    <3>1. session' = [session EXCEPT ![k] = Doing(k, "syncing", r)]
      BY <2>4 DEF Sync
    <3>2. Doing(k, "syncing", r).reply = None
      BY <2>2 DEF Doing, SessionStates
    <3> QED
      BY <3>1, <3>2, <1>3
  <2>5. ASSUME AskClose(k, r) PROVE Old
    BY <2>5, <1>2 DEF AskClose
  <2>6. ASSUME NEW f \in Facts, Play(k, r, f) PROVE Old
    <3>1. PICK x : x = [Doing(k, "recording", r) EXCEPT !.fact = f]
      OBVIOUS
    <3>2. x.reply = None
      BY <3>1, <2>2 DEF Doing, SessionStates
    <3>3. session' = [session EXCEPT ![k] = x]
      BY <2>6, <3>1 DEF Play
    <3> QED
      BY <3>2, <3>3, <1>3
  <2>7. ASSUME NEW op, Admin(k, r, op) PROVE Old
    <3>1. session' = [session EXCEPT ![k] = Doing(k, "admin", r)]
      BY <2>7 DEF Admin
    <3>2. Doing(k, "admin", r).reply = None
      BY <2>2 DEF Doing, SessionStates
    <3> QED
      BY <3>1, <3>2, <1>3
  <2>8. ASSUME NEW n, KillUnpublished(k, r, n) PROVE Old
    BY <2>8, <1>2 DEF KillUnpublished
  <2> QED
    BY <2>1, <2>3, <2>4, <2>5, <2>6, <2>7, <2>8 DEF AnyPacket
<1>7. ASSUME NEW k \in Sessions, Synced(k) \/ Record(k) PROVE Old
  <2>1. session' = Freed(k)
    BY <1>7 DEF Synced, Record
  <2> QED
    BY <2>1, <1>4
<1>8. ASSUME NEW k \in Sessions, Disconnect(k) PROVE Old
  <2>1. session' = [session EXCEPT ![k] = Idle] /\ Idle.reply = None
    BY <1>8 DEF Disconnect, Idle
  <2> QED
    BY <2>1, <1>3
<1>9. ASSUME NEW a \in Apis, NEW r \in Players, NEW m \in Missions, Maintain(a, r, m)
      PROVE  Old
  <2>1. wire[a][r] # <<>> /\ Head(wire[a][r]).kind = "admin"
    BY <1>9 DEF Maintain, Arrived
  <2>2. PICK k \in Sessions : k = Head(wire[a][r]).from
    BY <2>1, ArrivedTypes, MessageParts DEF Types
  <2>3. session' = Freed(k)
    BY <1>9, <2>2 DEF Maintain
  <2> QED
    BY <2>3, <1>4
<1>10. ASSUME NEW k \in Missions, Crash(k) PROVE Old
  <2>1. session'[s] = session[s] \/ session'[s] = Freed(s)[s]
    BY <1>10 DEF Crash
  <2> QED
    BY <2>1, <1>2, <1>4
<1>11. ASSUME NEW a \in Apis, NEW r \in Players, NEW m \in Missions,
              Apply(a, r, m) \/ Close(a, r, m)
       PROVE  Old
  BY <1>11, <1>2 DEF Apply, Close
<1>12. ASSUME NEW a \in Apis, NEW r \in Players, CloseDropped(a, r) PROVE Old
  BY <1>12, <1>2 DEF CloseDropped
<1>13. ASSUME NEW r \in Players, NEW m \in Missions, Activate(r, m) \/ Notified(m, r)
       PROVE  Old
  BY <1>13, <1>2 DEF Activate, Notified
<1>14. ASSUME NEW r \in Players, Expire(r) PROVE Old
  BY <1>14, <1>2 DEF Expire
<1>15. UNCHANGED vars => Old
  BY <1>2 DEF vars
<1>16. Old \/ New
  BY <1>5, <1>6, <1>7, <1>8, <1>9, <1>10, <1>11, <1>12, <1>13, <1>14, <1>15
  DEF AnyStep, ServersNext, OwnerStep, Handler
<1> QED
  BY <1>16 DEF Old, New

-----------------------------------------------------------------------------
(* Nothing that is told or shown is more than was earned *)

Paid(x, p) == \A q \in DOMAIN x : x[q].count <= Earned(p, q)

NotesTrue(p) ==
  OneHome(p) => \A m \in Missions : \A i \in DOMAIN notes[m][p] :
                  Paid(notes[m][p][i].projection, p)

RepliesTrue(p) ==
  OneHome(p) => \A s \in Sessions :
                  session[s].of = p /\ session[s].reply # None => Paid(session[s].reply, p)

ShownTrue(p) == OneHome(p) => \A a \in Apis : Paid(shown[a][p], p)

\* What was paid for stays paid for.
LEMMA StaysPaid ==
  ASSUME Types, DoneTypes, [AnyStep]_vars, NEW p \in Players, NEW x \in Projections, Paid(x, p)
  PROVE  \A q \in DOMAIN x : x[q].count <= Earned(p, q)'
<1> SUFFICES ASSUME NEW q \in DOMAIN x PROVE x[q].count <= Earned(p, q)'
  OBVIOUS
<1>1. x[q].count \in Nat
  BY DEF Projections
<1>2. x[q].count <= Earned(p, q)
  BY DEF Paid
<1>3. Earned(p, q) \in Nat /\ Earned(p, q)' \in Nat /\ Earned(p, q) <= Earned(p, q)'
  BY EarnedGrows
<1> QED
  BY <1>1, <1>2, <1>3

\* The counts of a projection that agrees with the replay are those of the stream.
LEMMA ReplayCounts ==
  ASSUME NEW s \in Seq(Events), NEW c,
         \A q \in DOMAIN c : q \in Started(s) /\ c[q] = Replay(s)[q]
  PROVE  \A q \in DOMAIN c : q \in Quests /\ c[q].count = CountOf(s, q)
<1>1. \A i \in DOMAIN s : s[i] \in Events
  OBVIOUS
<1>2. Started(s) \subseteq Quests
  BY <1>1 DEF Started, Events
<1> SUFFICES ASSUME NEW q \in DOMAIN c PROVE q \in Quests /\ c[q].count = CountOf(s, q)
  OBVIOUS
<1>3. q \in Started(s) /\ c[q] = [count |-> CountOf(s, q), status |-> StatusOf(s, q)]
  BY DEF Replay
<1> QED
  BY <1>2, <1>3

\* The projection a mission process keeps, or would replay, is paid for.
LEMMA CacheIsPaid ==
  ASSUME StreamTypes, CacheIsReplayed, NEW p \in Players, OneHome(p), CountsTrue(p),
         NEW m \in Missions
  PROVE  Paid(cache[m][p], p) /\ Paid(Replay(stream[m][p]), p)
<1>1. stream[m][p] \in Seq(Events)
  BY DEF StreamTypes
<1>2. \A q \in DOMAIN Replay(stream[m][p]) : q \in Started(stream[m][p])
  BY DEF Replay
<1> QED
  BY <1>1, <1>2, ReplayCounts DEF Paid, CacheIsReplayed, CountsTrue

LEMMA NewCacheIsPaid ==
  ASSUME StreamTypes', CacheIsReplayed', NEW p \in Players, OneHome(p)', CountsTrue(p)',
         NEW m \in Missions
  PROVE  \A q \in DOMAIN cache'[m][p] : cache'[m][p][q].count <= Earned(p, q)'
<1>1. stream'[m][p] \in Seq(Events)
  BY DEF StreamTypes
<1> QED
  BY <1>1, ReplayCounts DEF CacheIsReplayed, CountsTrue

LEMMA StepNotesTrue ==
  ASSUME Types, DoneTypes, CacheIsReplayed, CacheIsReplayed', [AnyStep]_vars, NEW p \in Players,
         CountsTrue(p), CountsTrue(p)', NotesTrue(p)
  PROVE  NotesTrue(p)'
<1> SUFFICES ASSUME OneHome(p)', NEW m \in Missions, NEW i \in DOMAIN notes'[m][p],
                    NEW q \in DOMAIN notes'[m][p][i].projection
             PROVE  notes'[m][p][i].projection[q].count <= Earned(p, q)'
  BY DEF NotesTrue, Paid
<1>1. OneHome(p)
  BY OneHomeBefore
<1>2. StreamTypes /\ StreamTypes' /\ NoteTypes
  BY StepTypes DEF Types
<1>3. PICK x : x = notes'[m][p][i].projection
  OBVIOUS
<1>4. CASE \E j \in DOMAIN notes[m][p] : notes'[m][p][i] = notes[m][p][j]
  <2>1. PICK j \in DOMAIN notes[m][p] : notes'[m][p][i] = notes[m][p][j]
    BY <1>4
  <2>2. x = notes[m][p][j].projection /\ notes[m][p][j] \in Notices
    BY <1>2, <1>3, <2>1 DEF NoteTypes
  <2>3. x \in Projections /\ Paid(x, p)
    BY <1>1, <2>2 DEF NotesTrue, Notices
  <2> QED
    BY <1>3, <2>3, StaysPaid
<1>5. CASE x = Replay(stream[m][p])
  <2>1. x \in Projections
    BY <1>2, <1>5, ReplayType DEF StreamTypes
  <2>2. Paid(x, p)
    BY <1>1, <1>2, <1>5, CacheIsPaid
  <2> QED
    BY <1>3, <2>1, <2>2, StaysPaid
<1>6. CASE x = cache'[m][p]
  BY <1>2, <1>3, <1>6, NewCacheIsPaid
<1> QED
  BY <1>3, <1>4, <1>5, <1>6, NotesStep

LEMMA StepRepliesTrue ==
  ASSUME Types, DoneTypes, Asked, CacheIsReplayed, CacheIsReplayed', [AnyStep]_vars,
         NEW p \in Players, CountsTrue(p), CountsTrue(p)', RepliesTrue(p)
  PROVE  RepliesTrue(p)'
<1> SUFFICES ASSUME OneHome(p)', NEW s \in Sessions, session'[s].of = p,
                    session'[s].reply # None, NEW q \in DOMAIN session'[s].reply
             PROVE  session'[s].reply[q].count <= Earned(p, q)'
  BY DEF RepliesTrue, Paid
<1>1. OneHome(p)
  BY OneHomeBefore
<1>2. StreamTypes /\ StreamTypes' /\ SessionTypes
  BY StepTypes DEF Types
<1>3. PICK x : x = session'[s].reply
  OBVIOUS
<1>4. CASE x = session[s].reply /\ session[s].of = p
  <2>1. session[s] \in SessionStates
    BY <1>2 DEF SessionTypes
  <2>2. x \in Projections
    BY <2>1, <1>3, <1>4 DEF SessionStates
  <2>3. Paid(x, p)
    BY <1>1, <1>3, <1>4 DEF RepliesTrue
  <2> QED
    BY <1>3, <2>2, <2>3, StaysPaid
<1>5. ASSUME NEW m \in Missions, x = cache[m][p]
      PROVE  session'[s].reply[q].count <= Earned(p, q)'
  <2>1. x \in Projections
    BY <1>2, <1>5 DEF StreamTypes
  <2>2. Paid(x, p)
    BY <1>1, <1>2, <1>5, CacheIsPaid
  <2> QED
    BY <1>3, <2>1, <2>2, StaysPaid
<1>6. ASSUME NEW m \in Missions, x = cache'[m][p]
      PROVE  session'[s].reply[q].count <= Earned(p, q)'
  BY <1>2, <1>3, <1>6, NewCacheIsPaid
<1> QED
  BY <1>3, <1>4, <1>5, <1>6, ReplyStep

LEMMA StepShownTrue ==
  ASSUME Types, Heard, DoneTypes, ShownTypes, [AnyStep]_vars, NEW p \in Players,
         NotesTrue(p), RepliesTrue(p), ShownTrue(p)
  PROVE  ShownTrue(p)'
<1> SUFFICES ASSUME OneHome(p)', NEW a \in Apis, NEW q \in DOMAIN shown'[a][p]
             PROVE  shown'[a][p][q].count <= Earned(p, q)'
  BY DEF ShownTrue, Paid
<1>1. OneHome(p)
  BY OneHomeBefore
<1>2. PICK x : x = shown'[a][p]
  OBVIOUS
<1>3. x \in Projections
  BY <1>2, ShownStep DEF ShownTypes
<1>4. CASE x = shown[a][p]
  BY <1>1, <1>2, <1>3, <1>4, StaysPaid DEF ShownTrue
<1>5. ASSUME NEW s \in Sessions, session[s].of = p, session[s].reply # None,
             x = session[s].reply
      PROVE  shown'[a][p][q].count <= Earned(p, q)'
  <2>1. Paid(x, p)
    BY <1>1, <1>5 DEF RepliesTrue
  <2> QED
    BY <2>1, <1>2, <1>3, StaysPaid
<1>6. ASSUME NEW m \in Missions, notes[m][p] # <<>>, x = Head(notes[m][p]).projection
      PROVE  shown'[a][p][q].count <= Earned(p, q)'
  <2>1. notes[m][p] \in Seq(Notices)
    BY DEF Types, NoteTypes
  <2>2. 1 \in DOMAIN notes[m][p] /\ Head(notes[m][p]) = notes[m][p][1]
    BY <1>6, <2>1
  <2>3. Paid(x, p)
    BY <1>1, <1>6, <2>2 DEF NotesTrue
  <2> QED
    BY <2>3, <1>2, <1>3, StaysPaid
<1> QED
  BY <1>2, <1>4, <1>5, <1>6, ShownStep

-----------------------------------------------------------------------------
(* The inductive invariant, and what follows from it *)

IInv == Types /\ Owned /\ Heard /\ Fresh /\ CacheIsReplayed /\ TellInv /\ KeepInv

LEMMA InitIInv == Init => IInv
<1> SUFFICES ASSUME Init PROVE IInv
  OBVIOUS
<1>1. Types
  BY InitTypes
<1>2. Owned
  BY GameQuestAssumption DEF Init, Owned
<1>3. Heard
  BY DEF Init, Heard
<1>7. Fresh
  BY DEF Init, Fresh
<1>4. CacheIsReplayed
  BY DEF Init, CacheIsReplayed, Empty
<1>5. ASSUME NEW p \in Players, NEW q \in Quests PROVE Told(p, q)
  <2>1. \A m \in Missions : notes[m][p] = <<>>
    BY DEF Init
  <2>2. Telling(p, q) = {} /\ told[p][q] = 0 /\ homes[p] = {}
    BY <2>1 DEF Init, Telling
  <2>3. Spent(p, q) = {}
    BY <2>2 DEF Spent
  <2> QED
    BY <2>1, <2>2, <2>3, FS_EmptySet DEF Told
<1>6. KeepInv
  BY DEF Init, KeepInv, Known, Idle
<1> QED
  BY <1>1, <1>2, <1>3, <1>4, <1>5, <1>6, <1>7 DEF IInv, TellInv

LEMMA StepIInv == IInv /\ [AnyStep]_vars => IInv'
BY StepTypes, StepOwned, StepHeard, StepFresh, StepCached, StepTold, StepKept DEF IInv

LEMMA InvLegal == IInv => StreamsLegal
<1> SUFFICES ASSUME IInv PROVE StreamsLegal
  OBVIOUS
<1> USE DEF IInv, Types
<1>1. \A m \in Missions, p \in Players : StreamLegal(stream[m][p])
  BY DEF StreamTypes, StreamInv, StreamLegal
<1>2. ASSUME NEW m \in Missions, NEW p \in Players
      PROVE  /\ \A i \in DOMAIN stream[m][p] :
                  /\ stream[m][p][i].quest \in Quests
                  /\ stream[m][p][i].type \in Counting \cup Settling
             /\ DOMAIN cache[m][p] \subseteq Quests
  <2>1. stream[m][p] \in Seq(Events) /\ cache[m][p] \in Projections
    BY DEF StreamTypes
  <2>2. \A i \in DOMAIN stream[m][p] : stream[m][p][i] \in Events
    BY <2>1
  <2> QED
    BY <2>1, <2>2 DEF Events, Projections
<1>3. \A s \in Sessions :
        /\ session[s].doing \in {"idle", "joining", "syncing", "recording", "admin"}
        /\ session[s].doing # "idle" => session[s].of \in Players
  BY DEF SessionTypes, SessionStates
<1>4. TypeOK
  BY <1>2, <1>3 DEF TypeOK, PlaceTypes, CountTypes, Heard
<1> QED
  BY <1>1, <1>4 DEF StreamsLegal

LEMMA InvTold == IInv => ToldOnce
<1> SUFFICES ASSUME IInv, NEW p \in Players, NEW q \in Quests
             PROVE  told[p][q] <= Cardinality(homes[p])
  BY DEF ToldOnce
<1> USE DEF IInv, Types
<1>1. /\ IsFiniteSet(Spent(p, q)) /\ Cardinality(Spent(p, q)) <= Cardinality(homes[p])
      /\ Cardinality(Spent(p, q)) \in Nat /\ Cardinality(homes[p]) \in Nat
  BY SpentFinite
<1>2. Told(p, q)
  BY DEF TellInv
<1>3. Cardinality(Telling(p, q)) \in Nat
  BY <1>1, <1>2, FS_Subset, FS_CardinalityType DEF Told
<1>4. told[p][q] + Cardinality(Telling(p, q)) <= Cardinality(Spent(p, q))
  BY <1>2 DEF Told
<1>5. told[p][q] \in Nat
  BY DEF CountTypes
<1> QED
  BY <1>1, <1>3, <1>4, <1>5

LEMMA InvKept == IInv => FactsKept
<1> SUFFICES ASSUME IInv, NEW a \in Apis, NEW p \in Players, NEW f \in recorded[a][p],
                    NEW q \in Quests, RuledBy(f, q), homes[p] \subseteq up
             PROVE  \/ \E i \in DOMAIN wire[a][p] : wire[a][p][i] = EventMsg(f)
                    \/ \E m \in Missions :
                         \/ Applied(stream[m][p], f)
                         \/ StatusOf(stream[m][p], q) = "reward_granted"
  BY DEF FactsKept
<1> USE DEF IInv, Types
<1>1. f \in Facts
  BY DEF CountTypes
<1>2. UnderWay(a, p, f) \/ Counted(p, f, q)
  BY <1>1 DEF KeepInv, Known, Alive
<1>3. ASSUME NEW m \in Missions, Granted(stream[m][p], q)
      PROVE  StatusOf(stream[m][p], q) = "reward_granted"
  <2>1. StreamInv(stream[m][p])
    BY DEF StreamTypes
  <2>2. CountOf(stream[m][p], q) >= Required(q) /\ stream[m][p] \in Seq(Events)
    BY <1>3, <2>1, RewardedCount DEF StreamInv
  <2>3. CountOf(stream[m][p], q) \in Nat /\ Required(q) \in Nat
    BY <2>2, CountType DEF Required
  <2> QED
    BY <2>1, <2>2, <2>3 DEF StreamInv
<1> QED
  BY <1>2, <1>3 DEF UnderWay, Counted

-----------------------------------------------------------------------------
(* The inductive invariant of what is earned *)

PlayerEarned(p) ==
  Hunting(p) /\ AsksTrue(p) /\ CountsTrue(p) /\ NotesTrue(p) /\ RepliesTrue(p) /\ ShownTrue(p)

EarnedInv ==
  /\ IInv /\ DoneTypes /\ SentInv /\ Asked /\ Collected /\ ShownTypes
  /\ \A p \in Players : PlayerEarned(p)

LEMMA InitEarned ==
  ASSUME Init, IInv
  PROVE  EarnedInv
<1> USE DEF IInv
<1>1. \A p \in Players : Done(p) = {} /\ Unpublished(p) = {}
  BY DEF Init, Done, Unpublished
<1>2. DoneTypes
  BY <1>1, FS_EmptySet DEF DoneTypes, Init
<1>3. \A a \in Apis, p \in Players : DOMAIN wire[a][p] = {}
  BY DEF Init
<1>4. \A m \in Missions, p \in Players : DOMAIN notes[m][p] = {}
  BY DEF Init
<1>5. SentInv
  BY <1>3 DEF SentInv, UnderWay, Known, Init, Idle
<1>6. Asked
  BY <1>3 DEF Asked
<1>7. Empty \in Projections /\ DOMAIN Empty = {}
  BY EmptyLegal DEF Empty
<1>8. ShownTypes
  BY <1>7 DEF ShownTypes, Init
<1>9. \A m \in Missions, p \in Players : stream[m][p] = <<>>
  BY DEF Init
<1>10. \A m \in Missions, p \in Players : \A q : CountOf(stream[m][p], q) = 0
  BY <1>9, EmptyCounts
<1>11. \A m \in Missions, p \in Players, q \in Quests :
         /\ IsFiniteSet(Units(Got(m, p, q)))
         /\ Cardinality(Units(Got(m, p, q))) \in Nat
  <2> SUFFICES ASSUME NEW m \in Missions, NEW p \in Players, NEW q \in Quests
               PROVE  /\ IsFiniteSet(Units(Got(m, p, q)))
                      /\ Cardinality(Units(Got(m, p, q))) \in Nat
    OBVIOUS
  <2>1. Got(m, p, q) = {}
    BY <1>1 DEF Got
  <2>2. Units(Got(m, p, q)) = {}
    BY <2>1 DEF Units
  <2> QED
    BY <2>2, FS_EmptySet
<1>12. Collected
  BY <1>10, <1>11 DEF Collected
<1>13. ASSUME NEW p \in Players PROVE PlayerEarned(p)
  <2>1. \A q : Earned(p, q) \in Nat
    <3> SUFFICES ASSUME NEW q PROVE Earned(p, q) \in Nat
      OBVIOUS
    <3>1. /\ {f \in Done(p) : f.type = "MonsterKilled"} = {}
          /\ {f \in Done(p) : RuledBy(f, q)} = {}
      BY <1>1
    <3>2. Units({f \in Done(p) : RuledBy(f, q)}) = {}
      BY <3>1 DEF Units
    <3>3. KillsOf(Done(p)) = 0 /\ Cardinality(Units({f \in Done(p) : RuledBy(f, q)})) = 0
      BY <3>1, <3>2, FS_EmptySet DEF KillsOf
    <3>4. Cardinality(Unpublished(p)) = 0
      BY <1>1, FS_EmptySet
    <3> QED
      BY <3>3, <3>4 DEF Earned
  <2>2. Hunted(p) \in Nat
    <3>1. Seen(p) = {}
      BY <1>1 DEF Seen
    <3> QED
      BY <1>1, <3>1, FS_EmptySet DEF Hunted
  <2>3. Hunting(p)
    BY <1>3, <1>10, <2>2 DEF Hunting
  <2>4. AsksTrue(p) /\ CountsTrue(p)
    BY <1>3, <1>10, <2>1 DEF AsksTrue, CountsTrue
  <2>5. NotesTrue(p)
    BY <1>4 DEF NotesTrue
  <2>6. \A s \in Sessions : session[s].reply = None
    BY DEF Init, Idle
  <2>7. RepliesTrue(p)
    BY <2>6 DEF RepliesTrue
  <2>8. \A a \in Apis : DOMAIN shown[a][p] = {}
    BY <1>7 DEF Init
  <2>9. ShownTrue(p)
    BY <2>8 DEF ShownTrue, Paid
  <2> QED
    BY <2>3, <2>4, <2>5, <2>7, <2>9 DEF PlayerEarned
<1> QED
  BY <1>2, <1>5, <1>6, <1>8, <1>12, <1>13 DEF EarnedInv

LEMMA StepEarned ==
  ASSUME EarnedInv, IInv', [AnyStep]_vars
  PROVE  EarnedInv'
<1>1. /\ Types /\ Owned /\ Heard /\ Fresh /\ CacheIsReplayed /\ KeepInv
      /\ DoneTypes /\ SentInv /\ Asked /\ Collected /\ ShownTypes
  BY DEF EarnedInv, IInv
<1>2. Fresh' /\ CacheIsReplayed'
  BY DEF IInv
<1>3. DoneTypes' /\ SentInv' /\ Asked' /\ Collected' /\ ShownTypes'
  BY <1>1, StepDone, StepSent, StepAsked, StepCollected, ShownStep
<1>4. ASSUME NEW p \in Players PROVE PlayerEarned(p)'
  <2>1. /\ Hunting(p) /\ AsksTrue(p) /\ CountsTrue(p)
        /\ NotesTrue(p) /\ RepliesTrue(p) /\ ShownTrue(p)
    BY DEF EarnedInv, PlayerEarned
  <2>2. Hunting(p)'
    BY <1>1, <2>1, StepHunting
  <2>3. AsksTrue(p)'
    BY <1>1, <2>1, StepAsksTrue
  <2>4. CountsTrue(p)'
    BY <1>1, <1>2, <1>3, <2>1, StepCountsTrue
  <2>5. NotesTrue(p)'
    BY <1>1, <1>2, <2>1, <2>4, StepNotesTrue
  <2>6. RepliesTrue(p)'
    BY <1>1, <1>2, <2>1, <2>4, StepRepliesTrue
  <2>7. ShownTrue(p)'
    BY <1>1, <2>1, StepShownTrue
  <2> QED
    BY <2>2, <2>3, <2>4, <2>5, <2>6, <2>7 DEF PlayerEarned
<1> QED
  BY <1>3, <1>4 DEF EarnedInv

\* Who has one element has no other.
LEMMA AtMostOne ==
  ASSUME NEW S, IsFiniteSet(S), Cardinality(S) <= 1
  PROVE  \A x, y \in S : x = y
<1> SUFFICES ASSUME NEW x \in S, NEW y \in S, x # y PROVE FALSE
  OBVIOUS
<1>1. IsFiniteSet({x}) /\ Cardinality({x}) = 1
  BY FS_Singleton
<1>2. Cardinality({x} \cup {y}) = 2
  BY <1>1, FS_AddElement, SMTT(30)
<1>3. Cardinality({x} \cup {y}) <= Cardinality(S)
  BY FS_Subset
<1>4. Cardinality(S) \in Nat
  BY FS_CardinalityType
<1> QED
  BY <1>2, <1>3, <1>4

LEMMA InvEarned == EarnedInv => ProgressEarned
<1> SUFFICES ASSUME EarnedInv, NEW p \in Players, Cardinality(homes[p]) <= 1,
                    NEW q \in Quests
             PROVE  /\ \A m \in Missions : CountOf(stream[m][p], q) <= Earned(p, q)
                    /\ \A a \in Apis : q \in DOMAIN shown[a][p] =>
                                         shown[a][p][q].count <= Earned(p, q)
  BY DEF ProgressEarned
<1>1. IsFiniteSet(homes[p])
  BY DEF EarnedInv, IInv, Types, PlaceTypes
<1>2. OneHome(p)
  BY <1>1, AtMostOne DEF OneHome
<1> QED
  BY <1>2 DEF EarnedInv, PlayerEarned, CountsTrue, ShownTrue, Paid

-----------------------------------------------------------------------------
(* The theorems *)

\* Any number of packets, whatever they ask.
AnySpec == Init /\ [][AnyStep]_vars

LEMMA AnyRunIsSafe ==
  AnySpec => [](StreamsLegal /\ ToldOnce /\ FactsKept /\ ProgressEarned)
<1>1. Init => EarnedInv
  BY InitIInv, InitEarned
<1>2. EarnedInv /\ [AnyStep]_vars => EarnedInv'
  BY StepIInv, StepEarned DEF EarnedInv
<1>3. EarnedInv => StreamsLegal /\ ToldOnce /\ FactsKept /\ ProgressEarned
  BY InvLegal, InvTold, InvKept, InvEarned DEF EarnedInv
<1> QED
  BY <1>1, <1>2, <1>3, PTL DEF AnySpec

LEMMA BoundedRun == Spec => AnySpec
BY NextIsAnyStep, PTL DEF Spec, AnySpec

\* Whatever the players, API and mission processes, and however their facts are
\* repeated, overtaken or reconciled: the streams of quest_event_store_t count a fact
\* once, their counts rise, a quest is completed and rewarded once, when its count is
\* reached, and the projections kept beside them agree with them.
THEOREM StreamsStayLegal == Spec => []StreamsLegal
BY BoundedRun, AnyRunIsSafe, PTL

\* The actor of a player pushes the completion of a quest at most once for each
\* mission process that ever owned the player.
THEOREM CompletionToldOnce == Spec => []ToldOnce
BY BoundedRun, AnyRunIsSafe, PTL

\* As long as no process that owned the player dies, a fact that an API process has
\* recorded is on its way to the owner or counted, unless the quest is rewarded.
THEOREM FactsAreKept == Spec => []FactsKept
BY BoundedRun, AnyRunIsSafe, PTL

\* A player whose owner stayed on one mission process is never credited with, nor shown
\* by any API process, more than it did: the facts and the snapshots of the kills, in
\* whatever order they reach quest_event_store_t::apply, count each kill once.
THEOREM ProgressIsEarned == Spec => []ProgressEarned
BY BoundedRun, AnyRunIsSafe, PTL

-----------------------------------------------------------------------------
(* The client's scenario *)

Streams == {OnA, OnB, Again}
Names == {Alice, Bob}

Pushes == [on : Streams, of : Names, quests : SUBSET Quests, count : Nat]

Steps ==
  [do : {"join", "joined", "sync", "done", "unpublished", "close", "closed", "killed",
         "unavailable", "assert"}, on : Streams, of : Names]
  \cup [do : {"shown", "polled"}, on : Streams, quest : Quests, count : Nat]
  \cup [do : {"hidden"}, on : Streams, quest : Quests]
  \cup [do : {"request", "send"}, on : Streams, of : Names, fact : ScriptFacts]
  \cup [do : {"admin", "administered"}, on : Streams, of : Names, op : AnyOperation]
  \cup [do : {"await", "hear"}, what : Pushes]

LEMMA PlayerSteps ==
  ASSUME NEW s \in Streams, NEW p \in Names
  PROVE  /\ \A op \in {"unpublished", "close", "closed", "killed", "unavailable", "assert"} :
              AStep(op, s, p) \in Steps
         /\ Asks(s, p) \in Steps
         /\ Joins(s, p) \in Seq(Steps)
         /\ \A n \in 1 .. 3 : Kills(s, p, n) \in Seq(Steps)
         /\ \A f \in ScriptFacts : Sends(s, p, f) \in Steps
         /\ \A op \in AnyOperation : Admins(s, p, op) \in Seq(Steps)
<1>1. \A op \in {"join", "joined", "sync", "done", "unpublished", "close", "closed", "killed",
                 "unavailable", "assert"} : AStep(op, s, p) \in Steps
  BY DEF AStep, Steps
<1>2. Asks(s, p) \in Steps
  BY <1>1 DEF Asks
<1>3. Joins(s, p) \in Seq(Steps)
  <2>1. AStep("join", s, p) \in Steps /\ AStep("joined", s, p) \in Steps
    BY <1>1
  <2> QED
    BY <2>1 DEF Joins
<1>4. ASSUME NEW f \in ScriptFacts
      PROVE  /\ Sends(s, p, f) \in Steps
             /\ [do |-> "request", on |-> s, of |-> p, fact |-> f] \in Steps
  BY DEF Sends, Steps
<1>5. ASSUME NEW n \in 1 .. 3 PROVE Kills(s, p, n) \in Seq(Steps)
  <2>1. Kill(n) \in ScriptFacts
    BY DEF ScriptFacts
  <2>2. /\ [do |-> "request", on |-> s, of |-> p, fact |-> Kill(n)] \in Steps
        /\ AStep("done", s, p) \in Steps
    BY <2>1, <1>4, <1>1
  <2> QED
    BY <2>2 DEF Kills
<1>6. ASSUME NEW op \in AnyOperation PROVE Admins(s, p, op) \in Seq(Steps)
  <2>1. /\ [do |-> "admin", on |-> s, of |-> p, op |-> op] \in Steps
        /\ [do |-> "administered", on |-> s, of |-> p, op |-> op] \in Steps
    BY DEF Steps
  <2> QED
    BY <2>1 DEF Admins
<1> QED
  BY <1>1, <1>2, <1>3, <1>4, <1>5, <1>6

LEMMA ViewSteps ==
  ASSUME NEW s \in Streams, NEW q \in Quests
  PROVE  /\ \A n \in Nat : Shown(s, q, n) \in Steps /\ Polled(s, q, n) \in Steps
         /\ Hidden(s, q) \in Steps
         /\ \A p \in Names, qs \in SUBSET Quests, n \in Nat :
              Await(Push(s, p, qs, n)) \in Steps /\ Hears(Push(s, p, qs, n)) \in Steps
<1>1. ASSUME NEW n \in Nat PROVE Shown(s, q, n) \in Steps /\ Polled(s, q, n) \in Steps
  BY DEF Shown, Polled, Steps
<1>2. Hidden(s, q) \in Steps
  BY DEF Hidden, Steps
<1>3. ASSUME NEW p \in Names, NEW qs \in SUBSET Quests, NEW n \in Nat
      PROVE  Await(Push(s, p, qs, n)) \in Steps /\ Hears(Push(s, p, qs, n)) \in Steps
  <2>1. PICK w : w = Push(s, p, qs, n)
    OBVIOUS
  <2>2. w \in Pushes
    BY <2>1 DEF Push, Pushes
  <2>3. Await(w) \in Steps /\ Hears(w) \in Steps
    BY <2>2 DEF Await, Hears, Steps
  <2> QED
    BY <2>1, <2>3
<1> QED
  BY <1>1, <1>2, <1>3

\* Each part of the scenario is a sequence of steps by its players on their streams.
LEMMA PartSteps == Parts \subseteq Seq(Steps)
<1> USE DEF Streams, Names
<1>1. /\ "first_hunt" \in Quests /\ "herb_gathering" \in Quests /\ "visit_ruins" \in Quests
      /\ {"first_hunt"} \in SUBSET Quests /\ {"herb_gathering"} \in SUBSET Quests
      /\ {"visit_ruins"} \in SUBSET Quests
  BY DEF Quests
<1>2. ASSUME NEW x \in Steps, NEW y \in Steps, NEW z \in Steps
      PROVE  <<x>> \in Seq(Steps) /\ <<x, y>> \in Seq(Steps) /\ <<x, y, z>> \in Seq(Steps)
  OBVIOUS
<1>3. ASSUME NEW x \in Seq(Steps), NEW y \in Seq(Steps) PROVE x \o y \in Seq(Steps)
  BY ConcatProperties
<1>4. /\ Herbs(1, 1) \in ScriptFacts /\ Herbs(2, 4) \in ScriptFacts /\ Ruins \in ScriptFacts
  BY DEF ScriptFacts
<1>5. FirstHunt \in Seq(Steps)
  <2> DEFINE first == Push(OnA, Alice, {"first_hunt"}, 1)
             completed == Push(OnA, Alice, {"first_hunt"}, 0)
  <2>1. /\ Await(first) \in Steps /\ Hears(first) \in Steps
        /\ Await(completed) \in Steps /\ Hears(completed) \in Steps
    BY <1>1, ViewSteps
  <2>2. /\ Joins(OnA, Alice) \in Seq(Steps) /\ Kills(OnA, Alice, 1) \in Seq(Steps)
        /\ Kills(OnA, Alice, 2) \in Seq(Steps) /\ Kills(OnA, Alice, 3) \in Seq(Steps)
    BY PlayerSteps
  <2>3. FirstHunt =
          Joins(OnA, Alice) \o <<Await(first)>> \o Kills(OnA, Alice, 1) \o <<Hears(first)>>
            \o <<Await(completed)>> \o Kills(OnA, Alice, 2) \o Kills(OnA, Alice, 3)
            \o <<Hears(completed)>> \o Kills(OnA, Alice, 3)
    BY DEF FirstHunt
  <2> HIDE DEF first, completed
  <2> QED
    BY <2>1, <2>2, <2>3, <1>2, <1>3
<1>6. HerbGathering \in Seq(Steps)
  <2> DEFINE completed == Push(OnB, Bob, {"herb_gathering"}, 0)
  <2>1. /\ Await(completed) \in Steps /\ Hears(completed) \in Steps
        /\ Polled(OnB, "herb_gathering", 1) \in Steps
    BY <1>1, ViewSteps
  <2>2. /\ Joins(OnB, Bob) \in Seq(Steps) /\ Asks(OnB, Bob) \in Steps
        /\ Sends(OnA, Bob, Herbs(1, 1)) \in Steps /\ Sends(OnB, Bob, Herbs(2, 4)) \in Steps
    BY <1>4, PlayerSteps
  <2>3. HerbGathering =
          <<Sends(OnA, Bob, Herbs(1, 1))>> \o Joins(OnB, Bob)
            \o <<Asks(OnB, Bob), Polled(OnB, "herb_gathering", 1),
                 Await(completed), Sends(OnB, Bob, Herbs(2, 4)), Hears(completed)>>
    BY DEF HerbGathering
  <2> HIDE DEF completed
  <2>4. <<Asks(OnB, Bob), Polled(OnB, "herb_gathering", 1), Await(completed),
          Sends(OnB, Bob, Herbs(2, 4)), Hears(completed)>> \in Seq(Steps)
    BY <2>1, <2>2
  <2> QED
    BY <2>2, <2>3, <2>4, <1>2, <1>3
<1>7. Projection \in Seq(Steps)
  <2>1. /\ Admins(OnB, Bob, "herb_gathering") \in Seq(Steps)
        /\ Admins(OnB, Bob, "rebuild") \in Seq(Steps) /\ Asks(OnB, Bob) \in Steps
    BY <1>1, PlayerSteps DEF AnyOperation
  <2>2. Hidden(OnB, "herb_gathering") \in Steps
    BY <1>1, ViewSteps
  <2> QED
    BY <2>1, <2>2, <1>2, <1>3 DEF Projection
<1>8. Idempotency \in Seq(Steps) /\ Reconciliation \in Seq(Steps)
  <2>1. /\ Kills(OnA, Alice, 3) \in Seq(Steps) /\ Asks(OnA, Alice) \in Steps
        /\ AStep("unpublished", OnA, Alice) \in Steps
    BY PlayerSteps
  <2>2. Shown(OnA, "first_hunt", 3) \in Steps /\ Shown(OnA, "first_hunt", 4) \in Steps
    BY <1>1, ViewSteps
  <2> QED
    BY <2>1, <2>2, <1>2, <1>3 DEF Idempotency, Reconciliation
<1>9. Reconnect \in Seq(Steps)
  <2> DEFINE completed == Push(Again, Alice, {"visit_ruins"}, 0)
  <2>1. Await(completed) \in Steps /\ Hears(completed) \in Steps
    BY <1>1, ViewSteps
  <2>2. Joins(Again, Alice) \in Seq(Steps) /\ Sends(Again, Alice, Ruins) \in Steps
    BY <1>4, PlayerSteps
  <2>3. Reconnect = Joins(Again, Alice)
          \o <<Await(completed), Sends(Again, Alice, Ruins), Hears(completed)>>
    BY DEF Reconnect
  <2> HIDE DEF completed
  <2> QED
    BY <2>1, <2>2, <2>3, <1>2, <1>3
<1>10. CloseAndReplay \in Seq(Steps)
  <2>1. /\ AStep("close", Again, Alice) \in Steps /\ AStep("closed", Again, Alice) \in Steps
        /\ Asks(Again, Alice) \in Steps
    BY PlayerSteps
  <2>2. Shown(Again, "first_hunt", 4) \in Steps
    BY <1>1, ViewSteps
  <2> QED
    BY <2>1, <2>2 DEF CloseAndReplay
<1>11. ScaleOut \in Seq(Steps)
  <2> DEFINE a == Push(OnA, Alice, Quests, 1)
             b == Push(OnB, Bob, Quests, 1)
  <2>1. /\ Await(a) \in Steps /\ Await(b) \in Steps /\ Hears(a) \in Steps /\ Hears(b) \in Steps
    BY <1>1, ViewSteps
  <2>2. /\ Joins(OnA, Alice) \in Seq(Steps) /\ Joins(OnB, Bob) \in Seq(Steps)
        /\ Kills(OnA, Alice, 1) \in Seq(Steps) /\ Sends(OnB, Bob, Herbs(1, 1)) \in Steps
    BY <1>4, PlayerSteps
  <2>3. ScaleOut = Joins(OnA, Alice) \o Joins(OnB, Bob) \o <<Await(a), Await(b)>>
          \o Kills(OnA, Alice, 1) \o <<Sends(OnB, Bob, Herbs(1, 1)), Hears(a), Hears(b)>>
    BY DEF ScaleOut
  <2> HIDE DEF a, b
  <2> QED
    BY <2>1, <2>2, <2>3, <1>2, <1>3
<1>12. OwnerLoss \in Seq(Steps)
  <2> DEFINE first == Push(OnB, Alice, {"first_hunt"}, 1)
  <2>1. Await(first) \in Steps /\ Hears(first) \in Steps
    BY <1>1, ViewSteps
  <2>2. /\ Joins(OnB, Alice) \in Seq(Steps) /\ Kills(OnB, Alice, 1) \in Seq(Steps)
        /\ AStep("killed", OnB, Alice) \in Steps /\ AStep("unavailable", OnB, Alice) \in Steps
    BY PlayerSteps
  <2>3. OwnerLoss = Joins(OnB, Alice) \o <<Await(first)>> \o Kills(OnB, Alice, 1)
          \o <<Hears(first), AStep("killed", OnB, Alice), AStep("unavailable", OnB, Alice)>>
    BY DEF OwnerLoss
  <2> HIDE DEF first
  <2> QED
    BY <2>1, <2>2, <2>3, <1>2, <1>3
<1>13. <<AStep("assert", OnA, Alice), AStep("assert", OnB, Alice)>> \in Seq(Steps)
  <2>1. AStep("assert", OnA, Alice) \in Steps /\ AStep("assert", OnB, Alice) \in Steps
    BY PlayerSteps
  <2> QED
    BY <2>1
<1> QED
  BY <1>3, <1>5, <1>6, <1>7, <1>8, <1>9, <1>10, <1>11, <1>12, <1>13 DEF Parts

\* What is in the mail are facts of the script, and processes that run are missions.
Letters == [of : Names, fact : ScriptFacts]

Scripted ==
  /\ part \in Parts /\ up \subseteq Missions
  /\ mail \in [Sessions -> Seq(Letters)]

LEMMA StepTaken ==
  ASSUME Scripted, NEW op, Now(op)
  PROVE  Step \in Steps /\ Step.do = op
<1>1. part \in Seq(Steps)
  BY PartSteps DEF Scripted
<1> QED
  BY <1>1, ElementOfSeq DEF Now, Step

\* A request is a packet, whatever it asks.
LEMMA RequestIsPacket ==
  ASSUME Scripted, Request
  PROVE  Asking
<1> USE CastAssumption DEF Streams, Names
<1>1. ASSUME NEW op \in {"join", "sync", "close", "unpublished"}, Now(op)
      PROVE  Step.on \in Sessions /\ Step.of \in Players
  BY <1>1, StepTaken DEF Steps
<1>2. ASSUME Now("request") PROVE Step.on \in Sessions /\ Step.of \in Players /\ Step.fact \in Facts
  BY <1>2, StepTaken DEF Steps
<1>3. ASSUME Now("admin")
      PROVE  Step.on \in Sessions /\ Step.of \in Players /\ Step.op \in AnyOperation
  BY <1>3, StepTaken DEF Steps
<1>4. CASE Now("request") /\ Play(Step.on, Step.of, Step.fact)
  BY <1>2, <1>4 DEF Asking, AnyPacket
<1>5. CASE Now("admin") /\ Admin(Step.on, Step.of, Step.op)
  BY <1>3, <1>5 DEF Asking, AnyPacket
<1>6. CASE \/ Now("join") /\ Join(Step.on, Step.of)
           \/ Now("sync") /\ Sync(Step.on, Step.of)
           \/ Now("close") /\ AskClose(Step.on, Step.of)
           \/ Now("unpublished") /\ KillUnpublished(Step.on, Step.of, 1)
  BY <1>1, <1>6 DEF Asking, AnyPacket
<1> QED
  BY <1>4, <1>5, <1>6 DEF Request

LEMMA AnswerIsServed ==
  ASSUME Scripted, Answer
  PROVE  ServersNext
<1> USE CastAssumption DEF Streams, Names
<1>1. ASSUME NEW op \in {"joined", "shown", "hidden", "polled"}, Now(op)
      PROVE  Step.on \in Sessions
  BY <1>1, StepTaken DEF Steps
<1>2. ASSUME Now("administered") PROVE Step.of \in Players
  BY <1>2, StepTaken DEF Steps
<1>3. CASE Now("administered") /\ \E a \in Apis, m \in Missions : Maintain(a, Step.of, m)
  BY <1>2, <1>3 DEF ServersNext, OwnerStep
<1>4. CASE \E op \in {"joined", "shown", "hidden", "polled"} : Now(op) /\ Synced(Step.on)
  BY <1>1, <1>4 DEF ServersNext, Handler
<1> QED
  BY <1>3, <1>4 DEF Answer

LEMMA ActIsAnyStep ==
  ASSUME Scripted, Act
  PROVE  [AnyStep]_vars
<1>1. CASE Request
  BY <1>1, RequestIsPacket DEF AnyStep
<1>2. CASE Answer
  BY <1>2, AnswerIsServed DEF AnyStep
<1>3. CASE Crash(owner[Step.of])
  <2>1. owner[Step.of] \in Missions
    BY <1>3 DEF Crash, Scripted
  <2> QED
    BY <1>3, <2>1 DEF AnyStep, ServersNext
<1>4. CASE UNCHANGED vars
  BY <1>4
<1> QED
  BY <1>1, <1>2, <1>3, <1>4 DEF Act

LEMMA ArriveIsPacket ==
  ASSUME Scripted, NEW s \in Sessions, Arrive(s)
  PROVE  Asking
<1>1. mail[s] \in Seq(Letters) /\ mail[s] # <<>>
  BY DEF Scripted, Arrive
<1>2. Head(mail[s]) \in Letters
  BY <1>1
<1>3. Head(mail[s]).of \in Players /\ Head(mail[s]).fact \in Facts
  BY <1>2, CastAssumption DEF Letters, Names
<1> QED
  BY <1>3 DEF Arrive, Asking, AnyPacket

LEMMA ScenarioIsAnyStep ==
  ASSUME Scripted, [ScenarioStep]_<<vars, scriptVars>>
  PROVE  [AnyStep]_vars
<1>1. CASE Act
  BY <1>1, ActIsAnyStep
<1>2. ASSUME NEW s \in Sessions, Arrive(s) PROVE AnyStep
  BY <1>2, ArriveIsPacket DEF AnyStep
<1>3. CASE Serve
  BY <1>3 DEF Serve, AnyStep, ServersNext, OwnerStep, Handler
<1>4. ASSUME NEW m \in Missions, NEW p \in Players, Pushed(m, p) PROVE AnyStep
  BY <1>4 DEF Pushed, AnyStep, ServersNext
<1> QED
  BY <1>1, <1>2, <1>3, <1>4 DEF ScenarioStep

LEMMA StaysScripted ==
  ASSUME Scripted, [ScenarioStep]_<<vars, scriptVars>>
  PROVE  Scripted'
<1>1. up' \subseteq Missions
  BY ScenarioIsAnyStep, UpShrinks DEF Scripted
<1>2. part' = part
  BY DEF ScenarioStep, Act, Serve, Arrive, Pushed, scriptVars
<1>3. mail' \in [Sessions -> Seq(Letters)]
  <2>1. CASE mail' = mail
    BY <2>1 DEF Scripted
  <2>2. ASSUME Now("send"),
               mail' = [mail EXCEPT ![Step.on] = Append(@, [of |-> Step.of, fact |-> Step.fact])]
        PROVE  mail' \in [Sessions -> Seq(Letters)]
    <3>1. Step.on \in Sessions /\ Step.of \in Names /\ Step.fact \in ScriptFacts
      BY <2>2, StepTaken, CastAssumption DEF Steps, Streams
    <3>2. [of |-> Step.of, fact |-> Step.fact] \in Letters
      BY <3>1 DEF Letters
    <3> QED
      BY <2>2, <3>1, <3>2 DEF Scripted
  <2>3. ASSUME NEW s \in Sessions, mail[s] # <<>>, mail' = [mail EXCEPT ![s] = Tail(@)]
        PROVE  mail' \in [Sessions -> Seq(Letters)]
    <3>1. Tail(mail[s]) \in Seq(Letters)
      BY <2>3 DEF Scripted
    <3> QED
      BY <2>3, <3>1 DEF Scripted
  <2> QED
    BY <2>1, <2>2, <2>3 DEF ScenarioStep, Act, Serve, Arrive, Pushed, scriptVars
<1> QED
  BY <1>1, <1>2, <1>3 DEF Scripted

\* The scenario of gamequest_client_scenario.hpp takes only steps of the clients, the API
\* and the mission processes: what is proved of the quests holds while it is played.
THEOREM ScenarioIsSafe ==
  ScenarioSpec => [](StreamsLegal /\ ToldOnce /\ FactsKept /\ ProgressEarned)
<1>1. Init /\ ScenarioInit(Parts) => Scripted
  BY DEF Init, ScenarioInit, Scripted
<1>2. ScenarioSpec => AnySpec
  BY <1>1, ScenarioIsAnyStep, StaysScripted, PTL DEF ScenarioSpec, AnySpec
<1> QED
  BY <1>2, AnyRunIsSafe, PTL
==============================================================================
