--------------------------- MODULE SupportChatProofs ---------------------------
(***************************************************************************)
(* Proofs about SupportChat.  The assignment service: the counts of the    *)
(* directory agree with the reservations and no agent is overbooked, for   *)
(* any number of agents and conversations and any capacity.  The           *)
(* conversations use it only as AgentAssignment allows, so the directory   *)
(* is safe, and each open conversation holds the reservation of the agent  *)
(* it shows.  Under its clients' sessions SupportChat takes only its own   *)
(* steps, and a joined session knows every message of its conversation.    *)
(***************************************************************************)
EXTENDS SupportScenario, FiniteSetTheorems, SequenceTheorems, TLAPS

-----------------------------------------------------------------------------
(* Lists of a set's elements *)

\* s lists the elements of S, each once.
Lists(s, S) ==
  /\ \A i \in DOMAIN s : s[i] \in S
  /\ \A x \in S : \E i \in DOMAIN s : s[i] = x
  /\ \A i, j \in DOMAIN s : s[i] = s[j] => i = j

\* What Drop leaves: a sequence over the same set, one element shorter.
LEMMA DropType ==
  ASSUME NEW S, NEW s \in Seq(S), NEW i \in 1..Len(s)
  PROVE  /\ Drop(s, i) \in Seq(S)
         /\ Len(Drop(s, i)) = Len(s) - 1
         /\ \A j \in 1..Len(s) - 1 :
              Drop(s, i)[j] = IF j < i THEN s[j] ELSE s[j + 1]
<1>1. Len(s) \in Nat /\ Len(s) - 1 \in Nat
  BY LenProperties
<1>2. \A j \in 1..Len(s) - 1 : j \in 1..Len(s) /\ j + 1 \in 1..Len(s)
  BY <1>1
<1>3. \A j \in 1..Len(s) : s[j] \in S
  BY LenProperties
<1>4. Drop(s, i) \in [1..Len(s) - 1 -> S]
  BY <1>2, <1>3 DEF Drop
<1>5. Drop(s, i) \in Seq(S) /\ Len(Drop(s, i)) = Len(s) - 1
  BY <1>1, <1>4
<1> QED
  BY <1>5 DEF Drop

\* Without its i-th element a list lists the other elements.
LEMMA DropLists ==
  ASSUME NEW S, NEW T, NEW s \in Seq(T), Lists(s, S), NEW i \in DOMAIN s
  PROVE  Lists(Drop(s, i), S \ {s[i]})
<1> DEFINE d == Drop(s, i)
<1>1. DOMAIN s = 1..Len(s) /\ Len(s) \in Nat
  BY LenProperties
<1>2. /\ DOMAIN d = 1..Len(s) - 1
      /\ \A j \in 1..Len(s) - 1 : d[j] = IF j < i THEN s[j] ELSE s[j + 1]
  BY <1>1 DEF Drop
<1> HIDE DEF d
<1>3. \A j \in DOMAIN d : d[j] \in S \ {s[i]}
  BY <1>1, <1>2, SMTT(30) DEF Lists
<1>4. ASSUME NEW x \in S \ {s[i]} PROVE \E j \in DOMAIN d : d[j] = x
  <2>1. PICK k \in 1..Len(s) : s[k] = x /\ k # i
    BY <1>1 DEF Lists
  <2>2. CASE k < i
    BY <2>1, <2>2, <1>1, <1>2
  <2>3. CASE k > i
    <3>1. k - 1 \in DOMAIN d /\ d[k - 1] = x
      BY <2>1, <2>3, <1>1, <1>2
    <3> QED BY <3>1
  <2> QED BY <2>1, <2>2, <2>3, <1>1
<1>5. ASSUME NEW j \in DOMAIN d, NEW k \in DOMAIN d, d[j] = d[k]
      PROVE  j = k
  <2>1. PICK p \in 1..Len(s) : p = (IF j < i THEN j ELSE j + 1) /\ s[p] = d[j]
    BY <1>1, <1>2
  <2>2. PICK q \in 1..Len(s) : q = (IF k < i THEN k ELSE k + 1) /\ s[q] = d[k]
    BY <1>1, <1>2
  <2>3. p = q
    BY <1>1, <1>5, <2>1, <2>2 DEF Lists
  <2> QED
    BY <1>1, <1>2, <2>1, <2>2, <2>3
<1> QED
  BY <1>3, <1>4, <1>5 DEF Lists, d

\* With a new element at its end a list lists one element more.
LEMMA AppendLists ==
  ASSUME NEW S, NEW T, NEW s \in Seq(T), Lists(s, S), NEW x \in T, x \notin S
  PROVE  Lists(Append(s, x), S \cup {x})
<1> DEFINE t == Append(s, x)
<1>1. DOMAIN s = 1..Len(s) /\ Len(s) \in Nat
  BY LenProperties
<1>2. /\ t \in Seq(T) /\ Len(t) = Len(s) + 1
      /\ \A i \in 1..Len(s) : t[i] = s[i]
      /\ t[Len(s) + 1] = x
  BY AppendProperties
<1>3. DOMAIN t = 1..Len(s) + 1
  BY <1>2, LenProperties
<1> HIDE DEF t
<1>4. \A i \in DOMAIN t : t[i] \in S \cup {x}
  BY <1>1, <1>2, <1>3 DEF Lists
<1>5. ASSUME NEW y \in S \cup {x} PROVE \E i \in DOMAIN t : t[i] = y
  BY <1>1, <1>2, <1>3 DEF Lists
<1>6. ASSUME NEW i \in DOMAIN t, NEW j \in DOMAIN t, t[i] = t[j] PROVE i = j
  BY <1>1, <1>2, <1>3, <1>6 DEF Lists
<1> QED
  BY <1>4, <1>5, <1>6 DEF Lists, t

-----------------------------------------------------------------------------
(* The inductive invariant *)

\* A count is a number of reservations only for agents that are available;
\* that they are those in the order ties assign's choice to such a count.
IInv ==
  /\ AssignmentTypeOK
  /\ OrderIsRoster
  /\ CountsAgree
  /\ NotOverbooked

LEMMA ReservedFinite ==
  ASSUME NEW a
  PROVE  IsFiniteSet(ReservedBy(a)) /\ Cardinality(ReservedBy(a)) \in Nat
<1>1. ReservedBy(a) \in SUBSET Conversations
  BY DEF ReservedBy
<1> QED
  BY <1>1, FS_Subset, FS_CardinalityType, AssignmentAssumption

LEMMA RosterIsList == OrderIsRoster <=> Lists(order, available)
BY DEF OrderIsRoster, Lists

LEMMA InitIInv == AssignmentInit => IInv
<1> SUFFICES ASSUME AssignmentInit PROVE IInv
  OBVIOUS
<1> USE DEF AssignmentInit
<1>1. AssignmentTypeOK
  BY DEF AssignmentTypeOK
<1>2. OrderIsRoster
  BY DEF OrderIsRoster
<1>3. CountsAgree
  BY DEF CountsAgree
<1>4. \A a \in Agents : ReservedBy(a) = {}
  BY AssignmentAssumption DEF ReservedBy
<1>5. NotOverbooked
  BY <1>4, FS_EmptySet, AssignmentAssumption DEF NotOverbooked
<1> QED
  BY <1>1, <1>2, <1>3, <1>5 DEF IInv

\* A step that leaves the reservations alone leaves their numbers alone.
LEMMA SameReservations ==
  ASSUME UNCHANGED reserved, NEW a
  PROVE  ReservedBy(a)' = ReservedBy(a)
BY DEF ReservedBy

LEMMA SetAvailableIInv ==
  ASSUME IInv, NEW a \in Agents, SetAvailable(a)
  PROVE  IInv'
<1> USE DEF IInv, SetAvailable
<1>1. AssignmentTypeOK'
  <2>1. Cardinality(ReservedBy(a)) \in Nat
    BY ReservedFinite
  <2>2. order' \in Seq(Agents)
    BY AppendProperties DEF AssignmentTypeOK
  <2> QED
    BY <2>1, <2>2 DEF AssignmentTypeOK
<1>2. OrderIsRoster'
  <2>1. Lists(order, available)
    BY RosterIsList
  <2>2. Lists(order', available')
    <3>1. CASE a \in available
      BY <2>1, <3>1 DEF Lists
    <3>2. CASE a \notin available
      BY <2>1, <3>2, AppendLists DEF AssignmentTypeOK
    <3> QED
      BY <3>1, <3>2
  <2> QED
    BY <2>2 DEF Lists, OrderIsRoster
<1>3. \A b : ReservedBy(b)' = ReservedBy(b)
  BY SameReservations
<1>4. CountsAgree'
  BY <1>3 DEF CountsAgree, AssignmentTypeOK
<1>5. NotOverbooked'
  BY <1>3 DEF NotOverbooked
<1> QED
  BY <1>1, <1>2, <1>4, <1>5

LEMMA SetUnavailableIInv ==
  ASSUME IInv, NEW a \in Agents, SetUnavailable(a)
  PROVE  IInv'
<1> USE DEF IInv
<1> DEFINE i == CHOOSE i \in DOMAIN order : order[i] = a
<1>1. Lists(order, available) /\ order \in Seq(Agents)
  BY RosterIsList DEF AssignmentTypeOK
<1>2. order' \in Seq(Agents) /\ Lists(order', available')
  <2>1. CASE \E k \in DOMAIN order : order[k] = a
    <3>1. i \in DOMAIN order /\ order[i] = a /\ order' = Drop(order, i)
      BY <2>1 DEF SetUnavailable
    <3>2. DOMAIN order = 1..Len(order)
      BY <1>1, LenProperties
    <3>3. order' \in Seq(Agents)
      BY <1>1, <3>1, <3>2, DropType
    <3> QED
      BY <1>1, <3>1, <3>3, DropLists DEF SetUnavailable
  <2>2. CASE ~ \E k \in DOMAIN order : order[k] = a
    <3>1. order' = order
      BY <2>2 DEF SetUnavailable
    <3>2. available' = available
      BY <1>1, <2>2 DEF Lists, SetUnavailable
    <3> QED
      BY <3>1, <3>2, <1>1
  <2> QED
    BY <2>1, <2>2
<1>3. AssignmentTypeOK'
  BY <1>2 DEF SetUnavailable, AssignmentTypeOK
<1>4. OrderIsRoster'
  BY <1>2 DEF Lists, OrderIsRoster
<1>5. \A b : ReservedBy(b)' = ReservedBy(b)
  BY SameReservations DEF SetUnavailable
<1>6. CountsAgree'
  BY <1>5 DEF SetUnavailable, CountsAgree, AssignmentTypeOK
<1>7. NotOverbooked'
  BY <1>5 DEF NotOverbooked
<1> QED
  BY <1>3, <1>4, <1>6, <1>7

\* What assign chooses: an available agent with room, if anything.
LEMMA ChosenAgent ==
  ASSUME IInv, NEW c \in Conversations, Chosen(c) # None
  PROVE  \E i \in DOMAIN order :
           /\ i = CHOOSE j \in DOMAIN order : IsNext(j)
           /\ order[i] \in available
           /\ active[order[i]] < Capacity
           /\ reserved[c] = None
<1>1. reserved[c] = None /\ \E j \in DOMAIN order : IsNext(j)
  BY DEF Chosen
<1> DEFINE i == CHOOSE j \in DOMAIN order : IsNext(j)
<1>2. i \in DOMAIN order /\ IsNext(i)
  BY <1>1
<1>3. order[i] \in available
  BY <1>2 DEF IInv, OrderIsRoster
<1>4. active[order[i]] < Capacity
  BY <1>2 DEF IsNext, HasRoom
<1> QED
  BY <1>1, <1>2, <1>3, <1>4

LEMMA AssignIInv ==
  ASSUME IInv, NEW c \in Conversations, Assign(c)
  PROVE  IInv'
<1>1. CASE Chosen(c) = None
  <2>1. UNCHANGED assignmentVars
    BY <1>1 DEF Assign
  <2> QED
    BY <2>1 DEF IInv, AssignmentTypeOK, OrderIsRoster, CountsAgree,
                NotOverbooked, ReservedBy, assignmentVars
<1>2. CASE Chosen(c) # None
  <2>1. PICK i \in DOMAIN order :
          /\ i = CHOOSE j \in DOMAIN order : IsNext(j)
          /\ order[i] \in available
          /\ active[order[i]] < Capacity
          /\ reserved[c] = None
    BY <1>2, ChosenAgent
  <2> PICK a : a = order[i]
    OBVIOUS
  <2>2. /\ active' = [active EXCEPT ![a] = @ + 1]
        /\ order' = Append(Drop(order, i), a)
        /\ reserved' = [reserved EXCEPT ![c] = a]
        /\ available' = available
    BY <1>2, <2>1 DEF Assign
  <2>3. a \in Agents /\ a \in available /\ a # None
    BY <2>1, AssignmentAssumption DEF IInv, AssignmentTypeOK
  <2>4. Lists(order, available) /\ order \in Seq(Agents) /\ DOMAIN order = 1..Len(order)
    BY RosterIsList, LenProperties DEF IInv, AssignmentTypeOK
  <2>5. Drop(order, i) \in Seq(Agents) /\ Lists(Drop(order, i), available \ {a})
    BY <2>4, DropType, DropLists
  <2>6. order' \in Seq(Agents)
    BY <2>2, <2>3, <2>5, AppendProperties
  <2>7. Lists(order', (available \ {a}) \cup {a})
    BY <2>2, <2>3, <2>5, AppendLists
  <2>8. AssignmentTypeOK'
    BY <2>2, <2>3, <2>6 DEF IInv, AssignmentTypeOK
  <2>9. OrderIsRoster'
    <3>1. (available \ {a}) \cup {a} = available'
      BY <2>2, <2>3
    <3> QED
      BY <3>1, <2>7 DEF Lists, OrderIsRoster
  <2>10. ReservedBy(a)' = ReservedBy(a) \cup {c} /\ c \notin ReservedBy(a)
    BY <2>1, <2>2, <2>3 DEF ReservedBy, IInv, AssignmentTypeOK
  <2>11. \A b \in Agents : b # a => ReservedBy(b)' = ReservedBy(b)
    BY <2>1, <2>2, AssignmentAssumption DEF ReservedBy, IInv, AssignmentTypeOK
  <2>12. Cardinality(ReservedBy(a))' = Cardinality(ReservedBy(a)) + 1
    BY <2>10, ReservedFinite, FS_AddElement
  <2>13. active[a] = Cardinality(ReservedBy(a)) /\ active[a] < Capacity
    BY <2>1, <2>3 DEF IInv, CountsAgree
  <2>14. CountsAgree'
    <3> SUFFICES ASSUME NEW b \in available'
                 PROVE  active'[b] = Cardinality(ReservedBy(b))'
      BY DEF CountsAgree
    <3>1. b \in Agents /\ b \in available
      BY <2>2 DEF IInv, AssignmentTypeOK
    <3>2. CASE b = a
      BY <3>2, <2>2, <2>3, <2>12, <2>13 DEF IInv, AssignmentTypeOK
    <3>3. CASE b # a
      BY <3>1, <3>3, <2>2, <2>11 DEF IInv, AssignmentTypeOK, CountsAgree
    <3> QED
      BY <3>2, <3>3
  <2>15. NotOverbooked'
    <3> SUFFICES ASSUME NEW b \in Agents
                 PROVE  Cardinality(ReservedBy(b))' <= Capacity
      BY DEF NotOverbooked
    <3>1. CASE b = a
      BY <3>1, <2>12, <2>13, ReservedFinite, AssignmentAssumption
    <3>2. CASE b # a
      BY <3>2, <2>11 DEF IInv, NotOverbooked
    <3> QED
      BY <3>1, <3>2
  <2> QED
    BY <2>8, <2>9, <2>14, <2>15 DEF IInv
<1> QED
  BY <1>1, <1>2

LEMMA ReleaseIInv ==
  ASSUME IInv, NEW c \in Conversations, Release(c)
  PROVE  IInv'
<1>1. CASE reserved[c] = None
  <2>1. UNCHANGED assignmentVars
    BY <1>1 DEF Release
  <2> QED
    BY <2>1 DEF IInv, AssignmentTypeOK, OrderIsRoster, CountsAgree,
                NotOverbooked, ReservedBy, assignmentVars
<1>2. CASE reserved[c] # None
  <2> PICK a : a = reserved[c]
    OBVIOUS
  <2>1. /\ active' = IF a \in available /\ active[a] > 0
                     THEN [active EXCEPT ![a] = @ - 1] ELSE active
        /\ reserved' = [reserved EXCEPT ![c] = None]
        /\ available' = available /\ order' = order
    BY <1>2 DEF Release
  <2>2. a \in Agents /\ a # None
    BY <1>2 DEF IInv, AssignmentTypeOK
  <2>3. ReservedBy(a)' = ReservedBy(a) \ {c} /\ c \in ReservedBy(a)
    BY <2>1, <2>2 DEF ReservedBy, IInv, AssignmentTypeOK
  <2>4. \A b \in Agents : b # a => ReservedBy(b)' = ReservedBy(b)
    BY <2>1, <2>2, AssignmentAssumption DEF ReservedBy, IInv, AssignmentTypeOK
  <2>5. Cardinality(ReservedBy(a))' = Cardinality(ReservedBy(a)) - 1
    BY <2>3, ReservedFinite, FS_RemoveElement
  <2>6. Cardinality(ReservedBy(a))' \in Nat /\ Cardinality(ReservedBy(a)) \in Nat
    <3>1. Cardinality(ReservedBy(a) \ {c}) \in Nat
      BY ReservedFinite, FS_RemoveElement, FS_CardinalityType
    <3> QED
      BY <3>1, <2>3, ReservedFinite
  <2>7. AssignmentTypeOK'
    BY <2>1, <2>2 DEF IInv, AssignmentTypeOK
  <2>8. OrderIsRoster'
    BY <2>1 DEF IInv, OrderIsRoster
  <2>9. CountsAgree'
    <3> SUFFICES ASSUME NEW b \in available'
                 PROVE  active'[b] = Cardinality(ReservedBy(b))'
      BY DEF CountsAgree
    <3>1. b \in Agents /\ b \in available
      BY <2>1 DEF IInv, AssignmentTypeOK
    <3>2. active[b] = Cardinality(ReservedBy(b))
      BY <3>1 DEF IInv, CountsAgree
    <3>3. CASE b = a
      BY <3>1, <3>2, <3>3, <2>1, <2>5, <2>6 DEF IInv, AssignmentTypeOK
    <3>4. CASE b # a
      BY <3>1, <3>2, <3>4, <2>1, <2>4 DEF IInv, AssignmentTypeOK
    <3> QED
      BY <3>3, <3>4
  <2>10. NotOverbooked'
    <3> SUFFICES ASSUME NEW b \in Agents
                 PROVE  Cardinality(ReservedBy(b))' <= Capacity
      BY DEF NotOverbooked
    <3>1. Cardinality(ReservedBy(b)) <= Capacity
      BY DEF IInv, NotOverbooked
    <3>2. CASE b = a
      BY <3>1, <3>2, <2>5, <2>6, AssignmentAssumption
    <3>3. CASE b # a
      BY <3>1, <3>3, <2>4
    <3> QED
      BY <3>2, <3>3
  <2> QED
    BY <2>7, <2>8, <2>9, <2>10 DEF IInv
<1> QED
  BY <1>1, <1>2

LEMMA StutterIInv ==
  ASSUME IInv, UNCHANGED assignmentVars
  PROVE  IInv'
BY DEF IInv, AssignmentTypeOK, OrderIsRoster, CountsAgree, NotOverbooked,
       ReservedBy, assignmentVars

LEMMA NextIInv == IInv /\ [AssignmentNext]_assignmentVars => IInv'
<1> SUFFICES ASSUME IInv, [AssignmentNext]_assignmentVars PROVE IInv'
  OBVIOUS
<1>1. ASSUME NEW a \in Agents, SetAvailable(a) PROVE IInv'
  BY <1>1, SetAvailableIInv
<1>2. ASSUME NEW a \in Agents, SetUnavailable(a) PROVE IInv'
  BY <1>2, SetUnavailableIInv
<1>3. ASSUME NEW c \in Conversations, Assign(c) PROVE IInv'
  BY <1>3, AssignIInv
<1>4. ASSUME NEW c \in Conversations, Release(c) PROVE IInv'
  BY <1>4, ReleaseIInv
<1>5. CASE UNCHANGED assignmentVars
  BY <1>5, StutterIInv
<1> QED
  BY <1>1, <1>2, <1>3, <1>4, <1>5 DEF AssignmentNext

-----------------------------------------------------------------------------
\* The directory's counts agree with the service's reservations, its order is
\* a list of its agents, and no agent is ever overbooked: the assignment is
\* safe by itself, whatever the conversations do with it.
THEOREM AssignmentIsSafe ==
  AssignmentSpec => []DirectorySafe
<1>1. IInv => DirectorySafe
  BY DEF IInv, DirectorySafe
<1> QED
  BY <1>1, InitIInv, NextIInv, PTL DEF AssignmentSpec

-----------------------------------------------------------------------------
(* The assignment service *)

\* What the customer's admission does to the reservations.
LEMMA AssignReserves ==
  ASSUME AssignmentTypeOK, NEW c \in Conversations, Assign(c)
  PROVE  /\ Chosen(c) \in Agents \cup {None}
         /\ reserved[c] # None => Chosen(c) = None
         /\ reserved' = [reserved EXCEPT ![c] = IF Chosen(c) = None THEN @ ELSE Chosen(c)]
<1>1. CASE reserved[c] = None /\ \E i \in DOMAIN order : IsNext(i)
  <2> DEFINE i == CHOOSE i \in DOMAIN order : IsNext(i)
  <2>1. i \in DOMAIN order
    BY <1>1
  <2>2. Chosen(c) = order[i]
    BY <1>1 DEF Chosen
  <2> HIDE DEF i
  <2>3. order[i] \in Agents
    BY <2>1, LenProperties DEF AssignmentTypeOK
  <2>4. Chosen(c) # None
    BY <2>2, <2>3, AssignmentAssumption
  <2> QED
    BY <1>1, <2>2, <2>3, <2>4 DEF Assign, i
<1>2. CASE ~(reserved[c] = None /\ \E i \in DOMAIN order : IsNext(i))
  <2>1. Chosen(c) = None
    BY <1>2 DEF Chosen
  <2> QED
    BY <2>1 DEF Assign, assignmentVars, AssignmentTypeOK
<1> QED
  BY <1>1, <1>2

\* What the end of a conversation does to them.
LEMMA ReleaseFrees ==
  ASSUME AssignmentTypeOK, NEW c \in Conversations, Release(c)
  PROVE  reserved' = [reserved EXCEPT ![c] = None]
BY DEF Release, assignmentVars, AssignmentTypeOK

-----------------------------------------------------------------------------
(* Every handler performs at most one operation of the assignment service *)

LEMMA StepRefines ==
  ASSUME [Next]_vars
  PROVE  [AssignmentNext]_assignmentVars
<1>1. CASE UNCHANGED vars
  BY <1>1 DEF vars, assignmentVars
<1>2. ASSUME NEW a \in Agents, GoOnline(a) \/ GoOffline(a)
      PROVE  AssignmentNext
  BY <1>2 DEF GoOnline, GoOffline, AssignmentNext
<1>3. ASSUME NEW c \in Conversations, CustomerStep(c)
      PROVE  [AssignmentNext]_assignmentVars
  BY <1>3 DEF CustomerStep, Create, Opened, CustomerAdmitted, CustomerLost,
              CustomerAsks, CustomerArrives, AssignmentNext
<1>4. ASSUME NEW c \in Conversations, Talk(c)
      PROVE  [AssignmentNext]_assignmentVars
  BY <1>4 DEF Talk, SendMessage, CloseConversation, AssignmentNext
<1>5. ASSUME NEW c \in Conversations, Timer(c) \/ TimePasses(c)
      PROVE  [AssignmentNext]_assignmentVars
  BY <1>5 DEF Timer, IdleTick, CloseTick, TimePasses, AssignmentNext
<1>6. ASSUME NEW c \in Conversations, NEW a \in Agents, AgentStep(c, a)
      PROVE  [AssignmentNext]_assignmentVars
  BY <1>6 DEF AgentStep, AgentAsks, AgentAdmitted, AgentRefused, AgentArrives,
              AgentRejoins
<1> QED
  BY <1>1, <1>2, <1>3, <1>4, <1>5, <1>6 DEF Next

\* Whatever conversations, joins and timers do, the counts kept beside the
\* reservations agree with them and nobody is overbooked.
THEOREM DirectoryIsSafe == Spec => []DirectorySafe
<1>1. Init => IInv
  BY InitIInv DEF Init
<1>2. IInv /\ [Next]_vars => IInv'
  BY StepRefines, NextIInv
<1>3. IInv => DirectorySafe
  BY DEF IInv, DirectorySafe
<1> QED
  BY <1>1, <1>2, <1>3, PTL DEF Spec

-----------------------------------------------------------------------------
(* The inductive invariant *)

\* The variables of the conversations have their types.
ConversationTypes ==
  /\ conv \in [Conversations -> Conversation]
  /\ customer \in [Conversations -> Joining \cup {"opening", "lost"}]
  /\ pending \in [Conversations -> Agents \cup {None}]
  /\ told \in [Conversations -> SUBSET Agents]
  /\ agent \in [Conversations -> [Agents -> Joining]]
  /\ rejoins \in [Conversations -> Nat]

\* Nothing has happened to a conversation nobody has created, and no agent is
\* reserved or notified before its customer is admitted.
Fresh(c) ==
  /\ conv[c].status = "none" =>
       /\ conv[c].agent = None /\ told[c] = {} /\ customer[c] = "none"
       /\ pending[c] = None
  /\ customer[c] = "opening" => reserved[c] = None /\ pending[c] = None
  /\ customer[c] \in Coming \cup {"opening"} => told[c] = {} /\ conv[c].agent = None

\* An agent comes only after it was notified, hence after the customer came,
\* and it holds the reservation as long as the conversation is open.
Notified(c) ==
  /\ \A a \in Agents : agent[c][a] # "none" => a \in told[c]
  /\ told[c] # {} => customer[c] = "joined"
  /\ customer[c] = "joined" => Customer \in conv[c].people
  /\ Open(c) => \A a \in told[c] : reserved[c] = a

\* The invariants of SupportChat for one conversation.
Holding(c) ==
  /\ reserved[c] # None => Open(c)
  /\ Open(c) =>
       /\ conv[c].agent # None => reserved[c] = conv[c].agent
       /\ customer[c] \in Coming => reserved[c] = pending[c]
  /\ conv[c].status \in {"active", "waitingForClose"} =>
       /\ customer[c] = "joined"
       /\ conv[c].agent \in Agents
       /\ conv[c].agent \in conv[c].people
       /\ agent[c][conv[c].agent] = "joined"

Sound(c) == Fresh(c) /\ Notified(c) /\ Holding(c)

SInv == ConversationTypes /\ \A c \in Conversations : Sound(c)

\* What the other conversations see of a step of c.
OnlyAt(c) ==
  \A d \in Conversations \ {c} :
    /\ conv'[d] = conv[d] /\ customer'[d] = customer[d]
    /\ pending'[d] = pending[d] /\ told'[d] = told[d]
    /\ agent'[d] = agent[d] /\ reserved'[d] = reserved[d]

\* It is enough to look at the conversation a step is about.
LEMMA Elsewhere ==
  ASSUME SInv, NEW c \in Conversations, ConversationTypes', OnlyAt(c), Sound(c)'
  PROVE  SInv'
<1>1. ASSUME NEW d \in Conversations, d # c PROVE Sound(d)'
  <2>1. Sound(d)
    BY DEF SInv
  <2>2. /\ conv'[d] = conv[d] /\ customer'[d] = customer[d]
        /\ pending'[d] = pending[d] /\ told'[d] = told[d]
        /\ agent'[d] = agent[d] /\ reserved'[d] = reserved[d]
    BY <1>1 DEF OnlyAt
  <2> QED
    BY <2>1, <2>2 DEF Sound, Fresh, Notified, Holding, Open, Coming
<1> QED
  BY <1>1 DEF SInv

LEMMA InitSInv == Init => SInv
<1> SUFFICES ASSUME Init PROVE SInv
  OBVIOUS
<1> USE DEF Init, AssignmentInit
<1>1. NewConversation \in Conversation
  BY DEF NewConversation, Conversation
<1>2. ConversationTypes
  BY <1>1 DEF ConversationTypes, Joining
<1>3. ASSUME NEW c \in Conversations PROVE Sound(c)
  BY <1>3 DEF Sound, Fresh, Notified, Holding, Open, Coming, NewConversation
<1> QED
  BY <1>2, <1>3 DEF SInv

-----------------------------------------------------------------------------
(* What the methods of conversation_t leave alone *)

LEMMA WaitingType ==
  ASSUME NEW v \in Conversation
  PROVE  LET w == [v EXCEPT !.status = "waiting"]
         IN  /\ w \in Conversation /\ w.status = "waiting"
             /\ w.agent = v.agent /\ w.people = v.people
BY DEF Conversation

LEMMA JoinCustomerType ==
  ASSUME NEW v \in Conversation
  PROVE  /\ JoinCustomer(v) \in Conversation
         /\ JoinCustomer(v).status = v.status
         /\ JoinCustomer(v).agent = v.agent
         /\ JoinCustomer(v).people = v.people \cup {Customer}
BY DEF Conversation, JoinCustomer, People

LEMMA AssignAgentType ==
  ASSUME NEW v \in Conversation, NEW a \in Agents
  PROVE  /\ AssignAgent(v, a) \in Conversation
         /\ AssignAgent(v, a).status = v.status
         /\ AssignAgent(v, a).agent = a
         /\ AssignAgent(v, a).people = v.people
BY DEF Conversation, AssignAgent

LEMMA JoinAgentType ==
  ASSUME NEW v \in Conversation, NEW a \in Agents
  PROVE  /\ JoinAgent(v, a) \in Conversation
         /\ JoinAgent(v, a).status = "active"
         /\ JoinAgent(v, a).agent = a
         /\ JoinAgent(v, a).people = v.people \cup {a}
BY DEF Conversation, JoinAgent, People

LEMMA WriteType ==
  ASSUME NEW v \in Conversation
  PROVE  /\ Write(v) \in Conversation
         /\ Write(v).status = IF v.status = "waitingForClose" THEN "active"
                             ELSE v.status
         /\ Write(v).agent = v.agent
         /\ Write(v).people = v.people
<1>1. v.seq + 1 \in Nat
  BY DEF Conversation
<1> QED
  BY <1>1 DEF Conversation, Write

LEMMA TurnIdleType ==
  ASSUME NEW v \in Conversation
  PROVE  /\ TurnIdle(v) \in Conversation
         /\ TurnIdle(v).status = "waitingForClose"
         /\ TurnIdle(v).agent = v.agent
         /\ TurnIdle(v).people = v.people
BY DEF Conversation, TurnIdle

LEMMA ClosedType ==
  ASSUME NEW v \in Conversation
  PROVE  /\ Closed(v) \in Conversation
         /\ Closed(v).status = "closed"
         /\ Closed(v).agent = v.agent
         /\ Closed(v).people = v.people
BY DEF Conversation, Closed

LEMMA DueType ==
  ASSUME NEW v \in Conversation,
         NEW w \in {[v EXCEPT !.idle = "due"], [v EXCEPT !.close = "due"]}
  PROVE  /\ w \in Conversation /\ w.status = v.status
         /\ w.agent = v.agent /\ w.people = v.people
BY DEF Conversation

-----------------------------------------------------------------------------
(* The customer's steps *)

LEMMA CustomerStepSound ==
  ASSUME SInv, AssignmentTypeOK, NEW c \in Conversations, CustomerStep(c)
  PROVE  SInv'
<1> USE DEF ConversationTypes, OnlyAt
<1>0. ConversationTypes /\ Sound(c)
  BY DEF SInv
<1>1. CASE Create(c)
  <2> DEFINE v == [conv[c] EXCEPT !.status = "waiting"]
  <2>1. v \in Conversation
    BY <1>0, WaitingType
  <2>2. conv' = [conv EXCEPT ![c] = v]
    BY <1>1 DEF Create
  <2>3. v.status = "waiting" /\ v.agent = conv[c].agent /\ v.people = conv[c].people
    BY <1>0, WaitingType
  <2> HIDE DEF v
  <2>4. ConversationTypes' /\ OnlyAt(c)
    BY <1>0, <1>1, <2>1, <2>2, ZenonT(60) DEF Create, assignmentVars
  <2>5. Sound(c)'
    BY <1>0, <1>1, <2>2, <2>3
       DEF Create, assignmentVars, Sound, Fresh, Notified, Holding, Open, Coming
  <2> QED
    BY <2>4, <2>5, Elsewhere
<1>2. CASE Opened(c)
  <2>1. ConversationTypes' /\ OnlyAt(c)
    BY <1>0, <1>2 DEF Opened, assignmentVars, Joining
  <2>2. Sound(c)'
    BY <1>0, <1>2 DEF Opened, assignmentVars, Sound, Fresh, Notified, Holding, Open, Coming
  <2> QED
    BY <2>1, <2>2, Elsewhere
<1>3. CASE CustomerAdmitted(c)
  <2>1. reserved[c] = pending[c]
    BY <1>0, <1>3 DEF CustomerAdmitted, Sound, Holding, Coming
  <2>2. /\ Chosen(c) \in Agents \cup {None}
        /\ reserved' = [reserved EXCEPT ![c] = IF Chosen(c) = None THEN @ ELSE Chosen(c)]
    BY <1>3, AssignReserves DEF CustomerAdmitted
  <2>3. ConversationTypes' /\ OnlyAt(c)
    BY <1>0, <1>3, <2>2 DEF CustomerAdmitted, Joining, AssignmentTypeOK
  <2>4. Sound(c)'
    BY <1>0, <1>3, <2>1, <2>2
       DEF CustomerAdmitted, Sound, Fresh, Notified, Holding, Open, Coming, AssignmentTypeOK
  <2> QED
    BY <2>3, <2>4, Elsewhere
<1>4. CASE CustomerLost(c)
  <2>1. ConversationTypes' /\ OnlyAt(c)
    BY <1>0, <1>4 DEF CustomerLost, assignmentVars, Joining
  <2>2. Sound(c)'
    BY <1>0, <1>4
       DEF CustomerLost, assignmentVars, Sound, Fresh, Notified, Holding, Open, Coming
  <2> QED
    BY <2>1, <2>2, Elsewhere
<1>5. CASE CustomerArrives(c)
  <2> DEFINE a == pending[c]
             v == IF a = None THEN JoinCustomer(conv[c])
                  ELSE AssignAgent(JoinCustomer(conv[c]), a)
  <2>1. v \in Conversation
    BY <1>0, JoinCustomerType, AssignAgentType
  <2>2. conv' = [conv EXCEPT ![c] = v]
    BY <1>5 DEF CustomerArrives
  <2>3. /\ v.status = conv[c].status /\ v.people = conv[c].people \cup {Customer}
        /\ v.agent = IF a = None THEN conv[c].agent ELSE a
    BY <1>0, JoinCustomerType, AssignAgentType
  <2> HIDE DEF v
  <2>4. reserved[c] = a /\ a \in Agents \cup {None} /\ told[c] = {}
    BY <1>0, <1>5 DEF CustomerArrives, Sound, Fresh, Notified, Holding, Coming
  <2>5. told'[c] \subseteq (IF a = None THEN {} ELSE {a})
    BY <1>0, <1>5, <2>4 DEF CustomerArrives
  <2>6. ConversationTypes' /\ OnlyAt(c)
    BY <1>0, <1>5, <2>1, <2>2 DEF CustomerArrives, assignmentVars, Joining
  <2>7. Fresh(c)' /\ Notified(c)'
    BY <1>0, <1>5, <2>2, <2>3, <2>4, <2>5
       DEF CustomerArrives, assignmentVars, Sound, Fresh, Notified, Open, Coming
  <2>8. Holding(c)'
    BY <1>0, <1>5, <2>2, <2>3, <2>4
       DEF CustomerArrives, assignmentVars, Sound, Holding, Open, Coming
  <2> QED
    BY <2>6, <2>7, <2>8, Elsewhere DEF Sound
<1>6. CASE CustomerAsks(c)
  <2>1. ConversationTypes' /\ OnlyAt(c)
    BY <1>0, <1>6 DEF CustomerAsks, assignmentVars, Joining
  <2>2. Sound(c)'
    BY <1>0, <1>6
       DEF CustomerAsks, assignmentVars, Sound, Fresh, Notified, Holding, Open, Coming
  <2> QED
    BY <2>1, <2>2, Elsewhere
<1> QED
  BY <1>1, <1>2, <1>3, <1>4, <1>5, <1>6 DEF CustomerStep

-----------------------------------------------------------------------------
(* The agents' steps *)

LEMMA AgentStepSound ==
  ASSUME SInv, NEW c \in Conversations, NEW a \in Agents, AgentStep(c, a)
  PROVE  SInv'
<1> USE DEF ConversationTypes, OnlyAt
<1>0. ConversationTypes /\ Sound(c)
  BY DEF SInv
<1>1. CASE AgentAsks(c, a)
  <2>1. ConversationTypes' /\ OnlyAt(c)
    BY <1>0, <1>1 DEF AgentAsks, assignmentVars, Joining
  <2>2. Sound(c)'
    BY <1>0, <1>1
       DEF AgentAsks, assignmentVars, Sound, Fresh, Notified, Holding, Open, Coming
  <2> QED
    BY <2>1, <2>2, Elsewhere
<1>2. CASE AgentAdmitted(c, a)
  <2>1. ConversationTypes' /\ OnlyAt(c)
    BY <1>0, <1>2 DEF AgentAdmitted, assignmentVars, Joining
  <2>2. Sound(c)'
    BY <1>0, <1>2
       DEF AgentAdmitted, assignmentVars, Sound, Fresh, Notified, Holding, Open, Coming
  <2> QED
    BY <2>1, <2>2, Elsewhere
<1>3. CASE AgentRefused(c, a)
  <2>1. ConversationTypes' /\ OnlyAt(c)
    BY <1>0, <1>3 DEF AgentRefused, assignmentVars, Joining
  <2>2. Sound(c)'
    BY <1>0, <1>3
       DEF AgentRefused, assignmentVars, Sound, Fresh, Notified, Holding, Open, Coming
  <2> QED
    BY <2>1, <2>2, Elsewhere
<1>4. CASE AgentArrives(c, a)
  <2>1. agent' = [agent EXCEPT ![c][a] = "joined"] /\ a \in told[c]
    BY <1>0, <1>4 DEF AgentArrives, Sound, Notified
  <2>2. CASE Open(c)
    <3> DEFINE v == JoinAgent(conv[c], a)
    <3>1. v \in Conversation /\ v.status = "active" /\ v.agent = a
      BY <1>0, JoinAgentType
    <3>2. v.people = conv[c].people \cup {a}
      BY <1>0, JoinAgentType
    <3>3. conv' = [conv EXCEPT ![c] = v]
      BY <1>4, <2>2 DEF AgentArrives
    <3> HIDE DEF v
    <3>4. ConversationTypes' /\ OnlyAt(c)
      BY <1>0, <1>4, <3>1, <3>3 DEF AgentArrives, assignmentVars, Joining
    <3>5. Sound(c)'
      BY <1>0, <1>4, <2>1, <2>2, <3>1, <3>2, <3>3
         DEF AgentArrives, assignmentVars, Sound, Fresh, Notified, Holding, Open, Coming
    <3> QED
      BY <3>4, <3>5, Elsewhere
  <2>3. CASE ~Open(c)
    <3>1. ConversationTypes' /\ OnlyAt(c)
      BY <1>0, <1>4, <2>3 DEF AgentArrives, assignmentVars, Joining
    <3>2. Sound(c)'
      BY <1>0, <1>4, <2>1, <2>3
         DEF AgentArrives, assignmentVars, Sound, Fresh, Notified, Holding, Open, Coming
    <3> QED
      BY <3>1, <3>2, Elsewhere
  <2> QED
    BY <2>2, <2>3
<1>5. CASE AgentRejoins(c, a)
  <2> DEFINE v == JoinAgent(conv[c], a)
  <2>1. v \in Conversation /\ v.status = "active" /\ v.agent = a
    BY <1>0, JoinAgentType
  <2>2. v.people = conv[c].people \cup {a}
    BY <1>0, JoinAgentType
  <2>3. conv' = [conv EXCEPT ![c] = v]
    BY <1>5 DEF AgentRejoins
  <2> HIDE DEF v
  <2>4. ConversationTypes' /\ OnlyAt(c)
    BY <1>0, <1>5, <2>1, <2>3 DEF AgentRejoins, assignmentVars
  <2>5. Sound(c)'
    BY <1>0, <1>5, <2>1, <2>2, <2>3
       DEF AgentRejoins, assignmentVars, Sound, Fresh, Notified, Holding, Open, Coming
  <2> QED
    BY <2>4, <2>5, Elsewhere
<1> QED
  BY <1>1, <1>2, <1>3, <1>4, <1>5 DEF AgentStep

-----------------------------------------------------------------------------
(* Messages, closes and the timer *)

\* A step that changes only a conversation, and leaves its people and its
\* agent alone.
LEMMA ConversationOnly ==
  ASSUME SInv, NEW c \in Conversations, NEW v \in Conversation,
         conv' = [conv EXCEPT ![c] = v],
         v.agent = conv[c].agent, v.people = conv[c].people,
         v.status = conv[c].status \/ (Open(c) /\ v.status = "active" /\ conv[c].status = "waitingForClose")
         \/ (v.status = "waitingForClose" /\ conv[c].status = "active"),
         UNCHANGED <<reserved, customer, pending, told, agent, rejoins>>
  PROVE  SInv'
<1>1. ConversationTypes /\ Sound(c)
  BY DEF SInv
<1>2. ConversationTypes' /\ OnlyAt(c)
  BY <1>1 DEF ConversationTypes, OnlyAt
<1>3. conv'[c] = v
  BY <1>1 DEF ConversationTypes
<1>4. Sound(c)'
  BY <1>1, <1>3 DEF Sound, Fresh, Notified, Holding, Open, Coming
<1> QED
  BY <1>2, <1>4, Elsewhere

\* A step that closes a conversation and gives its reservation back.
LEMMA CloseSound ==
  ASSUME SInv, AssignmentTypeOK, NEW c \in Conversations, Open(c), Release(c),
         conv' = [conv EXCEPT ![c] = Closed(@)],
         UNCHANGED <<customer, pending, told, agent, rejoins>>
  PROVE  SInv'
<1> DEFINE v == Closed(conv[c])
<1>1. ConversationTypes /\ Sound(c)
  BY DEF SInv
<1>2. /\ v \in Conversation /\ v.status = "closed"
      /\ v.agent = conv[c].agent /\ v.people = conv[c].people
  BY <1>1, ClosedType DEF ConversationTypes
<1>3. conv' = [conv EXCEPT ![c] = v]
  OBVIOUS
<1> HIDE DEF v
<1>4. reserved' = [reserved EXCEPT ![c] = None]
  BY ReleaseFrees
<1>5. ConversationTypes' /\ OnlyAt(c)
  BY <1>1, <1>2, <1>3, <1>4 DEF ConversationTypes, OnlyAt, AssignmentTypeOK
<1>6. conv'[c] = v /\ reserved'[c] = None
  BY <1>1, <1>3, <1>4 DEF ConversationTypes, AssignmentTypeOK
<1>7. Sound(c)'
  BY <1>1, <1>2, <1>6 DEF Sound, Fresh, Notified, Holding, Open, Coming
<1> QED
  BY <1>5, <1>7, Elsewhere

LEMMA TalkSound ==
  ASSUME SInv, AssignmentTypeOK, NEW c \in Conversations, Talk(c)
  PROVE  SInv'
<1>0. conv[c] \in Conversation
  BY DEF SInv, ConversationTypes
<1>1. ASSUME NEW p \in People, SendMessage(c, p) PROVE SInv'
  <2>1. conv' = [conv EXCEPT ![c] = Write(conv[c])]
    BY <1>1 DEF SendMessage
  <2> QED
    BY <1>0, <1>1, <2>1, WriteType, ConversationOnly
       DEF SendMessage, assignmentVars, Open
<1>2. ASSUME NEW p \in People, CloseConversation(c, p) PROVE SInv'
  BY <1>2, CloseSound DEF CloseConversation
<1> QED
  BY <1>1, <1>2 DEF Talk

LEMMA TimerSound ==
  ASSUME SInv, AssignmentTypeOK, NEW c \in Conversations,
         Timer(c) \/ TimePasses(c)
  PROVE  SInv'
<1>0. conv[c] \in Conversation
  BY DEF SInv, ConversationTypes
<1>1. CASE IdleTick(c)
  <2>1. conv' = [conv EXCEPT ![c] = TurnIdle(conv[c])] /\ conv[c].status = "active"
    BY <1>1 DEF IdleTick, TurnsIdle
  <2> QED
    BY <1>0, <1>1, <2>1, TurnIdleType, ConversationOnly DEF IdleTick, assignmentVars
<1>2. CASE CloseTick(c)
  <2>1. Open(c)
    BY <1>2 DEF CloseTick, TurnsClosed, Open
  <2> QED
    BY <1>2, <2>1, CloseSound DEF CloseTick
<1>3. CASE TimePasses(c)
  <2>1. PICK w \in {[conv[c] EXCEPT !.idle = "due"], [conv[c] EXCEPT !.close = "due"]} :
          conv' = [conv EXCEPT ![c] = w]
    BY <1>3 DEF TimePasses
  <2> QED
    BY <1>0, <1>3, <2>1, DueType, ConversationOnly DEF TimePasses, assignmentVars
<1> QED
  BY <1>1, <1>2, <1>3 DEF Timer

-----------------------------------------------------------------------------
(* The invariants *)

LEMMA NextSInv ==
  ASSUME SInv, AssignmentTypeOK, [Next]_vars
  PROVE  SInv'
<1>1. CASE UNCHANGED vars
  BY <1>1 DEF vars, assignmentVars, SInv, ConversationTypes, Sound, Fresh,
              Notified, Holding, Open
<1>2. ASSUME NEW a \in Agents, GoOnline(a) \/ GoOffline(a)
      PROVE  SInv'
  <2>1. UNCHANGED <<reserved, conv, customer, pending, told, agent, rejoins>>
    BY <1>2 DEF GoOnline, GoOffline, SetAvailable, SetUnavailable
  <2> QED
    BY <2>1 DEF SInv, ConversationTypes, Sound, Fresh, Notified, Holding, Open, Coming
<1> QED
  BY <1>1, <1>2, CustomerStepSound, AgentStepSound, TalkSound, TimerSound DEF Next

LEMMA SInvHolds == Spec => [](SInv /\ AssignmentTypeOK)
<1>1. Spec => []AssignmentTypeOK
  <2>1. DirectorySafe => AssignmentTypeOK
    BY DEF DirectorySafe
  <2> QED
    BY <2>1, DirectoryIsSafe, PTL
<1>2. SInv /\ AssignmentTypeOK /\ AssignmentTypeOK' /\ [Next]_vars => SInv'
  BY NextSInv
<1> QED
  BY <1>1, <1>2, InitSInv, PTL DEF Spec

\* Every variable keeps its type.
THEOREM TypeCorrect == Spec => []TypeOK
<1>1. SInv /\ AssignmentTypeOK => TypeOK
  BY DEF SInv, ConversationTypes, TypeOK
<1> QED
  BY <1>1, SInvHolds, PTL

\* An open conversation holds the reservation of the agent it shows, a closed
\* one holds none, and an active one has its customer and its agent in it,
\* however joins, disconnects, closes and the timer interleave.
THEOREM ReservationsAreHeld ==
  Spec => []ReservationsHeld
<1>1. SInv => ReservedIsOpen
  BY DEF SInv, Sound, Holding, ReservedIsOpen
<1>2. SInv => AssignedIsReserved
  BY DEF SInv, Sound, Holding, AssignedIsReserved
<1>3. SInv => Attended
  BY DEF SInv, Sound, Notified, Holding, Attended
<1>4. SInv => ReservationsHeld
  BY <1>1, <1>2, <1>3 DEF ReservationsHeld
<1> QED
  BY <1>4, SInvHolds, PTL

-----------------------------------------------------------------------------
(* Closed conversations *)

LEMMA ClosedKept ==
  ASSUME ConversationTypes, [Next]_vars, NEW c \in Conversations,
         conv[c].status = "closed"
  PROVE  conv'[c] = conv[c]
<1> USE DEF ConversationTypes
<1>1. CASE UNCHANGED vars
  BY <1>1 DEF vars
<1>2. ASSUME NEW a \in Agents, GoOnline(a) \/ GoOffline(a)
      PROVE  conv'[c] = conv[c]
  BY <1>2 DEF GoOnline, GoOffline
<1>3. ASSUME NEW d \in Conversations, CustomerStep(d)
      PROVE  conv'[c] = conv[c]
  BY <1>3 DEF CustomerStep, Create, Opened, CustomerAdmitted, CustomerLost,
              CustomerAsks, CustomerArrives, Open
<1>4. ASSUME NEW d \in Conversations, Talk(d)
      PROVE  conv'[c] = conv[c]
  BY <1>4 DEF Talk, SendMessage, CanWrite, CloseConversation, Open
<1>5. ASSUME NEW d \in Conversations, Timer(d) \/ TimePasses(d)
      PROVE  conv'[c] = conv[c]
  BY <1>5 DEF Timer, IdleTick, TurnsIdle, CloseTick, TurnsClosed, TimePasses, Open
<1>6. ASSUME NEW d \in Conversations, NEW a \in Agents, AgentStep(d, a)
      PROVE  conv'[c] = conv[c]
  BY <1>6 DEF AgentStep, AgentAsks, AgentAdmitted, AgentRefused, AgentArrives,
              AgentRejoins, Open
<1> QED
  BY <1>1, <1>2, <1>3, <1>4, <1>5, <1>6 DEF Next

\* No join, message, close or timer changes a conversation that is closed.
THEOREM ClosedIsFinal == Spec => ClosedStays
<1>1. SInv /\ [Next]_vars
        => [\A c \in Conversations :
              conv[c].status = "closed" => conv'[c] = conv[c]]_conv
  BY ClosedKept DEF SInv
<1> QED
  BY <1>1, SInvHolds, PTL DEF Spec, ClosedStays

-----------------------------------------------------------------------------
(* What a step of the conversations leaves alone *)

\* An agent is notified of the conversation that shows it, and messages come
\* after the customer.
Named ==
  \A c \in Conversations :
    /\ told[c] \subseteq {conv[c].agent}
    /\ customer[c] # "joined" => conv[c].seq = 0

\* Whoever is in a Spot stays there.
Stays == \A c \in Conversations, p \in People : InSpot(c, p) => InSpot(c, p)'

SameSeq == \A c \in Conversations : conv'[c].seq = conv[c].seq

LEMMA MethodsKeepSeq ==
  ASSUME NEW v \in Conversation, NEW a \in Agents
  PROVE  /\ v.seq \in Nat
         /\ [v EXCEPT !.status = "waiting"].seq = v.seq
         /\ JoinCustomer(v).seq = v.seq /\ JoinCustomer(v) \in Conversation
         /\ AssignAgent(v, a).seq = v.seq
         /\ JoinAgent(v, a).seq = v.seq /\ JoinAgent(v, a).agent = a
         /\ Write(v).seq = v.seq + 1 /\ Write(v).agent = v.agent
         /\ TurnIdle(v).seq = v.seq /\ TurnIdle(v).agent = v.agent
         /\ Closed(v).seq = v.seq /\ Closed(v).agent = v.agent
         /\ [v EXCEPT !.idle = "due"].seq = v.seq
         /\ [v EXCEPT !.close = "due"].seq = v.seq
BY DEF Conversation, JoinCustomer, AssignAgent, JoinAgent, Write, TurnIdle, Closed,
       People

\* A step of the customer's join.
LEMMA CustomerStepNamed ==
  ASSUME SInv, Named, NEW c \in Conversations, CustomerStep(c)
  PROVE  Named' /\ Stays /\ SameSeq
<1> USE DEF ConversationTypes
<1>0. ConversationTypes /\ Sound(c) /\ conv[c] \in Conversation
  BY DEF SInv
<1>1. CASE Create(c)
  <2> DEFINE v == [conv[c] EXCEPT !.status = "waiting"]
  <2>1. v.seq = conv[c].seq /\ v.agent = conv[c].agent
    BY <1>0, WaitingType DEF Conversation
  <2>2. conv' = [conv EXCEPT ![c] = v] /\ customer' = [customer EXCEPT ![c] = "opening"]
    BY <1>1 DEF Create
  <2> HIDE DEF v
  <2>3. told' = told /\ agent' = agent /\ customer[c] # "joined"
    BY <1>0, <1>1 DEF Create, Sound, Fresh
  <2> QED
    BY <1>0, <2>1, <2>2, <2>3 DEF Named, Stays, SameSeq, InSpot
<1>2. CASE Opened(c) \/ CustomerAdmitted(c) \/ CustomerLost(c) \/ CustomerAsks(c)
  <2>1. /\ conv' = conv /\ told' = told /\ agent' = agent
        /\ customer[c] # "joined"
        /\ \E x : x # "joined" /\ customer' = [customer EXCEPT ![c] = x]
    BY <1>2 DEF Opened, CustomerAdmitted, CustomerLost, CustomerAsks
  <2> QED
    BY <1>0, <2>1 DEF Named, Stays, SameSeq, InSpot
<1>3. CASE CustomerArrives(c)
  <2> DEFINE a == pending[c]
             v == IF a = None THEN JoinCustomer(conv[c])
                  ELSE AssignAgent(JoinCustomer(conv[c]), a)
  <2>1. a \in Agents \cup {None} /\ told[c] = {}
    BY <1>0, <1>3 DEF CustomerArrives, Sound, Fresh, Coming
  <2>2. v.seq = conv[c].seq /\ (a # None => v.agent = a)
    <3>1. JoinCustomer(conv[c]) \in Conversation
      BY <1>0, JoinCustomerType
    <3>2. JoinCustomer(conv[c]).seq = conv[c].seq
      BY <1>0 DEF Conversation, JoinCustomer
    <3>3. CASE a = None
      BY <3>2, <3>3
    <3>4. CASE a \in Agents
      <4>1. a # None
        BY <3>4, AssignmentAssumption
      <4> QED
        BY <3>1, <3>2, <3>4, <4>1, MethodsKeepSeq, AssignAgentType
    <3> QED
      BY <2>1, <3>3, <3>4
  <2>3. /\ conv' = [conv EXCEPT ![c] = v] /\ agent' = agent
        /\ customer' = [customer EXCEPT ![c] = "joined"]
        /\ told' \in {told, IF a = None THEN told ELSE [told EXCEPT ![c] = @ \cup {a}]}
    BY <1>3 DEF CustomerArrives
  <2> HIDE DEF v, a
  <2>4. told'[c] \subseteq {v.agent} /\ (\A d \in Conversations : d # c => told'[d] = told[d])
    BY <1>0, <2>1, <2>2, <2>3
  <2> QED
    BY <1>0, <2>2, <2>3, <2>4 DEF Named, Stays, SameSeq, InSpot
<1> QED
  BY <1>1, <1>2, <1>3 DEF CustomerStep

\* A step of an agent's join.
LEMMA AgentStepNamed ==
  ASSUME SInv, Named, NEW c \in Conversations, NEW a \in Agents, AgentStep(c, a)
  PROVE  Named' /\ Stays /\ SameSeq
<1> USE DEF ConversationTypes
<1>0. ConversationTypes /\ Sound(c) /\ conv[c] \in Conversation
  BY DEF SInv
<1>1. told' = told /\ customer' = customer
  BY DEF AgentStep, AgentAsks, AgentAdmitted, AgentRefused, AgentArrives, AgentRejoins
<1>2. \/ conv' = conv
      \/ conv' = [conv EXCEPT ![c] = JoinAgent(conv[c], a)] /\ agent[c][a] # "none"
  BY DEF AgentStep, AgentAsks, AgentAdmitted, AgentRefused, AgentArrives, AgentRejoins
<1>3. \/ agent' = agent
      \/ \E x \in Joining : /\ agent' = [agent EXCEPT ![c][a] = x]
                            /\ agent[c][a] # "joined"
  BY DEF AgentStep, AgentAsks, AgentAdmitted, AgentRefused, AgentArrives, AgentRejoins,
         Joining
<1>4. Stays
  BY <1>0, <1>1, <1>3 DEF Stays, InSpot, People
<1>5. CASE conv' = conv
  BY <1>1, <1>4, <1>5 DEF Named, SameSeq
<1>6. CASE conv' = [conv EXCEPT ![c] = JoinAgent(conv[c], a)] /\ agent[c][a] # "none"
  <2> DEFINE v == JoinAgent(conv[c], a)
  <2>1. v.seq = conv[c].seq /\ v.agent = a
    BY <1>0, MethodsKeepSeq
  <2> HIDE DEF v
  <2>2. conv' = [conv EXCEPT ![c] = v]
    BY <1>6 DEF v
  <2>3. a \in told[c]
    BY <1>0, <1>6 DEF Sound, Notified
  <2>4. told[c] \subseteq {v.agent}
    BY <2>1, <2>3 DEF Named
  <2> QED
    BY <1>0, <1>1, <1>4, <2>1, <2>2, <2>4 DEF Named, SameSeq
<1> QED
  BY <1>2, <1>5, <1>6

\* A step that changes no more than a conversation's state or its messages.
LEMMA MethodNamed ==
  ASSUME SInv, Named, NEW c \in Conversations, NEW v,
         conv' = [conv EXCEPT ![c] = v], v.agent = conv[c].agent,
         v.seq = conv[c].seq \/ customer[c] = "joined",
         UNCHANGED <<customer, told, agent>>
  PROVE  Named' /\ Stays
<1>1. ConversationTypes
  BY DEF SInv
<1> QED
  BY <1>1 DEF Named, Stays, InSpot, ConversationTypes

LEMMA QuietNamed ==
  ASSUME SInv, Named, NEW c \in Conversations,
         Timer(c) \/ TimePasses(c) \/ \E p \in People : CloseConversation(c, p)
  PROVE  Named' /\ Stays /\ SameSeq
<1>0. ConversationTypes /\ conv[c] \in Conversation
  BY DEF SInv, ConversationTypes
<1>1. UNCHANGED <<customer, told, agent>>
  BY DEF Timer, IdleTick, CloseTick, TimePasses, CloseConversation
<1>2. PICK v \in {TurnIdle(conv[c]), Closed(conv[c]), [conv[c] EXCEPT !.idle = "due"],
                  [conv[c] EXCEPT !.close = "due"]} :
        conv' = [conv EXCEPT ![c] = v]
  BY DEF Timer, IdleTick, CloseTick, TimePasses, CloseConversation
<1>3. v.agent = conv[c].agent /\ v.seq = conv[c].seq
  BY <1>0, <1>2 DEF Conversation, TurnIdle, Closed
<1>4. Named' /\ Stays
  BY <1>1, <1>2, <1>3, MethodNamed
<1>5. SameSeq
  BY <1>0, <1>2, <1>3 DEF SameSeq, ConversationTypes
<1> QED
  BY <1>4, <1>5

\* Only participants that are in the Spot write, and then the customer is.
LEMMA MessageNamed ==
  ASSUME SInv, Named, NEW c \in Conversations, NEW p \in People, SendMessage(c, p)
  PROVE  /\ Named' /\ Stays
         /\ conv[c].seq \in Nat /\ conv'[c].seq = conv[c].seq + 1
         /\ \A d \in Conversations : d # c => conv'[d].seq = conv[d].seq
<1> DEFINE v == Write(conv[c])
<1>0. ConversationTypes /\ Sound(c) /\ conv[c] \in Conversation
  BY DEF SInv, ConversationTypes
<1>1. v.agent = conv[c].agent /\ v.seq = conv[c].seq + 1 /\ conv[c].seq \in Nat
  BY <1>0, WriteType DEF Conversation, Write
<1>2. conv' = [conv EXCEPT ![c] = v] /\ UNCHANGED <<customer, told, agent>>
  BY DEF SendMessage
<1> HIDE DEF v
<1>3. customer[c] = "joined"
  <2>1. CASE p = Customer
    BY <2>1 DEF SendMessage, InSpot
  <2>2. CASE p \in Agents /\ p # Customer
    BY <1>0, <2>2 DEF SendMessage, InSpot, Sound, Notified
  <2> QED
    BY <2>1, <2>2 DEF People
<1>4. Named' /\ Stays
  BY <1>1, <1>2, <1>3, MethodNamed
<1> QED
  BY <1>0, <1>1, <1>2, <1>4 DEF ConversationTypes

LEMMA RosterNamed ==
  ASSUME Named, UNCHANGED <<conv, customer, told, agent>>
  PROVE  Named' /\ Stays /\ SameSeq
BY DEF Named, Stays, SameSeq, InSpot
-----------------------------------------------------------------------------
(* The sessions' steps are steps of the conversations *)

LEMMA SessionsStep == [SessionsNext]_chatVars => [Next]_vars
<1> SUFFICES ASSUME [SessionsNext]_chatVars PROVE Next \/ UNCHANGED vars
  OBVIOUS
<1>1. CASE UNCHANGED chatVars
  BY <1>1 DEF chatVars
<1>2. ASSUME NEW x \in Clients, Authenticate(x) \/ Disconnect(x)
      PROVE  UNCHANGED vars
  BY <1>2 DEF Authenticate, Disconnect
<1>3. ASSUME NEW a \in Agents, RosterLeft(a) \/ \E is \in BOOLEAN : Available(a, is)
      PROVE  Next \/ UNCHANGED vars
  BY <1>3 DEF RosterLeft, Available, Next
<1>4. ASSUME NEW c \in Conversations,
             \/ OpenConversation(c) \/ Underway(c) \/ Arrives(c) \/ Tick(c) \/ Clock(c)
             \/ \E a \in Agents : Comes(c, a) \/ Bind(c, a) \/ Refused(c, a)
      PROVE  Next \/ UNCHANGED vars
  <2>1. CASE OpenConversation(c) \/ Underway(c) \/ Arrives(c)
    BY <2>1 DEF OpenConversation, Underway, Arrives, Next, CustomerStep, AgentStep
  <2>2. CASE Tick(c) \/ Clock(c)
    BY <2>2 DEF Tick, Clock, Next, Timer
  <2>3. ASSUME NEW a \in Agents, Comes(c, a) \/ Bind(c, a) \/ Refused(c, a)
        PROVE  Next \/ UNCHANGED vars
    BY <2>3 DEF Comes, Bind, Refused, Next, AgentStep
  <2> QED
    BY <1>4, <2>1, <2>2, <2>3
<1>5. ASSUME NEW c \in Conversations, NEW p \in People,
             \/ Ask(c, p) \/ Reply(c, p) \/ JoinClosed(c, p)
             \/ Schedule(c, p) \/ JoinAgain(c, p)
      PROVE  Next \/ UNCHANGED vars
  <2>1. CASE Ask(c, p) \/ Reply(c, p) \/ JoinClosed(c, p)
    BY <2>1 DEF Ask, Reply, JoinClosed
  <2>2. p = Customer \/ p \in Agents
    BY DEF People
  <2>3. CASE Schedule(c, p)
    <3>1. IF p = Customer THEN CustomerAsks(c) ELSE AgentAsks(c, p)
      BY <2>3 DEF Schedule
    <3> QED
      BY <2>2, <3>1 DEF Next, CustomerStep, AgentStep
  <2>4. CASE JoinAgain(c, p)
    <3>1. IF p = Customer THEN UNCHANGED vars ELSE AgentRejoins(c, p)
      BY <2>4 DEF JoinAgain
    <3> QED
      BY <2>2, <3>1 DEF Next, AgentStep
  <2> QED
    BY <1>5, <2>1, <2>3, <2>4
<1>6. ASSUME NEW c \in Conversations, NEW p \in People, Say(c, p) \/ Shut(c, p)
      PROVE  Next
  BY <1>6 DEF Say, Shut, Next, Talk
<1> QED
  BY <1>1, <1>2, <1>3, <1>4, <1>5, <1>6 DEF SessionsNext, Serve

\* What the clients see of the conversations is what they do by themselves.
THEOREM SessionsServe == SessionsSpec => Spec
<1>1. SessionsInit => Init
  BY DEF SessionsInit
<1> QED
  BY <1>1, SessionsStep, PTL DEF SessionsSpec, Spec

-----------------------------------------------------------------------------
(* What a session knows *)

Calls ==
  [at : {"none", "sent", "bound", "answered"}, scheduled : BOOLEAN, seq : Nat]

SessionTypes ==
  /\ call \in [Conversations -> [People -> Calls]]
  /\ known \in [Conversations -> [People -> SUBSET Nat]]
  /\ ready \in [Conversations -> [People -> BOOLEAN]]

\* A session that has joined, or whose join is on the way from the binding of
\* its actor on, has its actor bound; what the answer to the join shows and
\* what the actor has pushed since make up every message.
Informed(c, p) ==
  LET answer == call[c][p]
      all == 1..conv[c].seq
  IN  /\ known[c][p] \subseteq all
      /\ ready[c][p] => InSpot(c, p) /\ ActorOf(c, p) \in bound /\ known[c][p] = all
      /\ answer.at \in {"bound", "answered"} => ActorOf(c, p) \in bound
      /\ answer.at = "answered" /\ ~answer.scheduled =>
           /\ InSpot(c, p)
           /\ 1..answer.seq \subseteq all
           /\ all \subseteq known[c][p] \cup 1..answer.seq

KInv ==
  /\ Named /\ SessionTypes
  /\ \A c \in Conversations, p \in People : Informed(c, p)

\* A step that leaves what a session has and waits for alone.
LEMMA UntouchedInformed ==
  ASSUME NEW c \in Conversations, NEW p \in People, Informed(c, p),
         conv'[c].seq = conv[c].seq, InSpot(c, p) => InSpot(c, p)',
         ActorOf(c, p) \in bound => ActorOf(c, p) \in bound',
         call'[c][p] = call[c][p], known'[c][p] = known[c][p],
         ready'[c][p] = ready[c][p]
  PROVE  Informed(c, p)'
BY DEF Informed, ActorOf

LEMMA UntouchedKInv ==
  ASSUME KInv, Named', Stays, SameSeq, bound \subseteq bound',
         UNCHANGED <<call, known, ready>>
  PROVE  KInv'
<1>1. ASSUME NEW c \in Conversations, NEW p \in People PROVE Informed(c, p)'
  <2>1. Informed(c, p) /\ conv'[c].seq = conv[c].seq /\ (InSpot(c, p) => InSpot(c, p)')
    BY DEF KInv, Stays, SameSeq
  <2> QED
    BY <2>1, UntouchedInformed
<1> QED
  BY <1>1 DEF KInv, SessionTypes

LEMMA InitKInv == SessionsInit => KInv
<1> SUFFICES ASSUME SessionsInit PROVE KInv
  OBVIOUS
<1> USE DEF SessionsInit, Init, NewConversation, NoCall
<1>1. Named
  BY DEF Named
<1>2. SessionTypes
  BY DEF SessionTypes, Calls
<1>3. ASSUME NEW c \in Conversations, NEW p \in People PROVE Informed(c, p)
  BY DEF Informed
<1> QED
  BY <1>1, <1>2, <1>3 DEF KInv

LEMMA SameVarsNamed ==
  ASSUME Named, UNCHANGED vars
  PROVE  Named' /\ Stays /\ SameSeq
BY RosterNamed DEF vars

LEMMA RosterKInv ==
  ASSUME KInv, NEW x \in Clients, Authenticate(x)
  PROVE  KInv'
BY SameVarsNamed, UntouchedKInv DEF KInv, Authenticate

\* The end of a session takes its actors and all it knew.
LEMMA DisconnectKInv ==
  ASSUME KInv, NEW x \in Clients, Disconnect(x)
  PROVE  KInv'
<1>1. Named' /\ Stays /\ SameSeq
  BY SameVarsNamed DEF KInv, Disconnect
<1>2. SessionTypes'
  BY DEF KInv, SessionTypes, Disconnect, NoCall, Calls
<1>3. ASSUME NEW c \in Conversations, NEW p \in People PROVE Informed(c, p)'
  <2>1. CASE ClientOf(c, p) = x
    BY <2>1 DEF Disconnect, Informed, NoCall
  <2>2. CASE ClientOf(c, p) # x
    <3>1. /\ call'[c][p] = call[c][p] /\ known'[c][p] = known[c][p]
          /\ ready'[c][p] = ready[c][p] /\ bound' = bound \ ActorsOf(x)
      BY <2>2 DEF Disconnect
    <3>2. ActorOf(c, p) \notin ActorsOf(x)
      <4>1. CASE p = Customer
        BY <2>2, <4>1, SessionsAssumption DEF ActorOf, ActorsOf, ClientOf
      <4>2. CASE p \in Agents /\ p # Customer
        BY <2>2, <4>2, SessionsAssumption DEF ActorOf, ActorsOf, ClientOf, Clients
      <4> QED
        BY <4>1, <4>2 DEF People
    <3>3. Informed(c, p) /\ conv'[c].seq = conv[c].seq /\ (InSpot(c, p) => InSpot(c, p)')
      BY <1>1 DEF KInv, Stays, SameSeq
    <3> QED
      BY <3>1, <3>2, <3>3, UntouchedInformed
  <2> QED
    BY <2>1, <2>2
<1> QED
  BY <1>1, <1>2, <1>3 DEF KInv

\* A step of one participant's join.
LEMMA CallKInv ==
  ASSUME KInv, Named', Stays, SameSeq, SessionTypes',
         NEW c \in Conversations, NEW p \in People, Informed(c, p)',
         bound \subseteq bound',
         \A d \in Conversations, q \in People : <<d, q>> # <<c, p>> =>
           /\ call'[d][q] = call[d][q] /\ known'[d][q] = known[d][q]
           /\ ready'[d][q] = ready[d][q]
  PROVE  KInv'
<1>1. ASSUME NEW d \in Conversations, NEW q \in People, <<d, q>> # <<c, p>>
      PROVE  Informed(d, q)'
  <2>1. Informed(d, q) /\ conv'[d].seq = conv[d].seq /\ (InSpot(d, q) => InSpot(d, q)')
    BY DEF KInv, Stays, SameSeq
  <2>2. /\ call'[d][q] = call[d][q] /\ known'[d][q] = known[d][q]
        /\ ready'[d][q] = ready[d][q]
    BY <1>1
  <2> QED
    BY <2>1, <2>2, UntouchedInformed
<1> QED
  BY <1>1 DEF KInv

\* A join goes from the client to the room.
LEMMA AskKInv ==
  ASSUME KInv, NEW c \in Conversations, NEW p \in People, Ask(c, p)
  PROVE  KInv'
<1>1. Named' /\ Stays /\ SameSeq
  BY SameVarsNamed DEF KInv, Ask
<1>3. Informed(c, p) /\ SessionTypes
  BY DEF KInv
<1>2. SessionTypes'
  <2> DEFINE x == [call[c][p] EXCEPT !.at = IF p = Customer THEN "bound" ELSE "sent"]
  <2>0. call[c][p] \in Calls
    BY <1>3 DEF SessionTypes
  <2>1. x \in Calls
    BY <2>0 DEF Calls
  <2>2. call' = [call EXCEPT ![c][p] = x] /\ known' = known /\ ready' = ready
    BY <1>3 DEF Ask, SessionTypes
  <2> HIDE DEF x
  <2> QED
    BY <1>3, <2>1, <2>2 DEF SessionTypes
<1>4. call'[c][p].at = IF p = Customer THEN "bound" ELSE "sent"
  BY <1>3 DEF Ask, SessionTypes
<1>5. p = Customer => ActorOf(c, p) \in bound
  BY DEF Ask, ActorOf, ClientOf
<1>6. UNCHANGED <<vars, bound, known, ready>>
  BY DEF Ask
<1>7. conv' = conv /\ customer' = customer /\ agent' = agent
  BY <1>6 DEF vars
<1>8. Informed(c, p)'
  BY <1>3, <1>4, <1>5, <1>6, <1>7 DEF Informed, InSpot, ActorOf
<1> QED
  BY <1>1, <1>2, <1>3, <1>6, <1>8, CallKInv DEF Ask, SessionTypes

LEMMA BindKInv ==
  ASSUME KInv, NEW c \in Conversations, NEW a \in Agents, Bind(c, a)
  PROVE  KInv'
<1>0. a \in People /\ a # Customer
  BY SupportAssumption DEF People
<1>1. Named' /\ Stays /\ SameSeq
  BY SameVarsNamed DEF KInv, Bind
<1>3. Informed(c, a) /\ SessionTypes
  BY <1>0 DEF KInv
<1>2. SessionTypes'
  <2> DEFINE x == [call[c][a] EXCEPT !.at = "bound"]
  <2>0. call[c][a] \in Calls
    BY <1>0, <1>3 DEF SessionTypes
  <2>1. x \in Calls
    BY <2>0 DEF Calls
  <2>2. call' = [call EXCEPT ![c][a] = x] /\ known' = known /\ ready' = ready
    BY <1>0, <1>3 DEF Bind, SessionTypes
  <2> HIDE DEF x
  <2> QED
    BY <1>0, <1>3, <2>1, <2>2 DEF SessionTypes
<1>4. call'[c][a].at = "bound" /\ ActorOf(c, a) \in bound'
  BY <1>0, <1>3 DEF Bind, SessionTypes, ActorOf
<1>6. UNCHANGED <<vars, known, ready>>
  BY DEF Bind
<1>7. conv' = conv /\ customer' = customer /\ agent' = agent
  BY <1>6 DEF vars
<1>8. Informed(c, a)'
  BY <1>3, <1>4, <1>6, <1>7 DEF Informed, InSpot, ActorOf
<1> QED
  BY <1>0, <1>1, <1>2, <1>3, <1>6, <1>8, CallKInv DEF Bind, SessionTypes

LEMMA JoinClosedKInv ==
  ASSUME KInv, NEW c \in Conversations, NEW p \in People, JoinClosed(c, p)
  PROVE  KInv'
<1>1. Named' /\ Stays /\ SameSeq
  BY SameVarsNamed DEF KInv, JoinClosed
<1>2. SessionTypes'
  BY DEF KInv, SessionTypes, JoinClosed, NoCall, Calls
<1>3. Informed(c, p) /\ SessionTypes
  BY DEF KInv
<1>4. call'[c][p].at = "none"
  BY <1>3 DEF JoinClosed, SessionTypes, NoCall
<1>6. UNCHANGED <<vars, bound, known, ready>>
  BY DEF JoinClosed
<1>7. conv' = conv /\ customer' = customer /\ agent' = agent
  BY <1>6 DEF vars
<1>8. Informed(c, p)'
  BY <1>3, <1>4, <1>6, <1>7 DEF Informed, InSpot, ActorOf
<1> QED
  BY <1>1, <1>2, <1>3, <1>6, <1>8, CallKInv DEF JoinClosed, SessionTypes

\* A scheduled join is answered at once; what it shows is no news.
LEMMA ScheduleKInv ==
  ASSUME KInv, SInv, NEW c \in Conversations, NEW p \in People, Schedule(c, p)
  PROVE  KInv'
<1>1. IF p = Customer THEN CustomerAsks(c) ELSE p \in Agents /\ AgentAsks(c, p)
  BY DEF Schedule, People
<1>2. Named' /\ Stays /\ SameSeq
  <2>1. Named
    BY DEF KInv
  <2>2. CASE CustomerAsks(c)
    BY <2>1, <2>2, CustomerStepNamed DEF CustomerStep
  <2>3. CASE p \in Agents /\ AgentAsks(c, p)
    BY <2>1, <2>3, AgentStepNamed DEF AgentStep
  <2> QED
    BY <1>1, <2>2, <2>3
<1>3. Informed(c, p) /\ SessionTypes /\ call[c][p].at = "bound" /\ conv[c].seq \in Nat
  BY DEF KInv, Schedule, Relayed, SInv, ConversationTypes, Conversation
<1>4. SessionTypes'
  BY <1>3 DEF SessionTypes, Schedule, Answered, Calls
<1>5. call'[c][p].at = "answered" /\ call'[c][p].scheduled
  BY <1>3 DEF Schedule, Answered, SessionTypes
<1>6. UNCHANGED <<bound, known, ready>>
  BY DEF Schedule
<1>7. conv'[c].seq = conv[c].seq /\ (InSpot(c, p) => InSpot(c, p)')
  BY <1>2 DEF Stays, SameSeq
<1>8. Informed(c, p)'
  BY <1>3, <1>5, <1>6, <1>7 DEF Informed, ActorOf
<1> QED
  BY <1>2, <1>3, <1>4, <1>6, <1>8, CallKInv DEF Schedule, Answered, SessionTypes

\* The reply adds what came before it to what was pushed since.
LEMMA ReplyKInv ==
  ASSUME KInv, SInv, NEW c \in Conversations, NEW p \in People, Reply(c, p)
  PROVE  KInv'
<1>1. Named' /\ Stays /\ SameSeq
  BY SameVarsNamed DEF KInv, Reply
<1>2. Informed(c, p) /\ SessionTypes /\ call[c][p].at = "answered"
  BY DEF KInv, Reply
<1>3. 1..call[c][p].seq \subseteq Nat
  BY <1>2 DEF SessionTypes
<1>4. SessionTypes'
  <2>1. call' = [call EXCEPT ![c][p] = NoCall]
        /\ (UNCHANGED <<known, ready>>
            \/ /\ known' = [known EXCEPT ![c][p] = known[c][p] \cup 1..call[c][p].seq]
               /\ ready' = [ready EXCEPT ![c][p] = TRUE])
    BY DEF Reply
  <2>2. call' \in [Conversations -> [People -> Calls]]
    BY <1>2, <2>1 DEF SessionTypes, NoCall, Calls
  <2>3. known[c][p] \cup 1..call[c][p].seq \in SUBSET Nat
    BY <1>2, <1>3 DEF SessionTypes
  <2>4. CASE UNCHANGED <<known, ready>>
    BY <1>2, <2>2, <2>4 DEF SessionTypes
  <2>5. CASE /\ known' = [known EXCEPT ![c][p] = known[c][p] \cup 1..call[c][p].seq]
             /\ ready' = [ready EXCEPT ![c][p] = TRUE]
    <3>1. known' \in [Conversations -> [People -> SUBSET Nat]]
      BY <1>2, <2>3, <2>5 DEF SessionTypes
    <3>2. ready' \in [Conversations -> [People -> BOOLEAN]]
      BY <1>2, <2>5 DEF SessionTypes
    <3> QED
      BY <2>2, <3>1, <3>2 DEF SessionTypes
  <2> QED
    BY <2>1, <2>4, <2>5
<1>5. UNCHANGED <<vars, bound>> /\ call'[c][p].at = "none"
  BY <1>2 DEF Reply, SessionTypes, NoCall
<1>6. conv' = conv /\ customer' = customer /\ agent' = agent
  BY <1>5 DEF vars
<1>7. CASE call[c][p].scheduled
  <2>1. known' = known /\ ready' = ready
    BY <1>7 DEF Reply
  <2>2. Informed(c, p)'
    BY <1>2, <1>5, <1>6, <2>1 DEF Informed, InSpot, ActorOf
  <2> QED
    BY <1>1, <1>2, <1>4, <1>5, <2>1, <2>2, CallKInv DEF Reply, SessionTypes
<1>8. CASE ~call[c][p].scheduled
  <2>1. /\ known' = [known EXCEPT ![c][p] = known[c][p] \cup 1..call[c][p].seq]
        /\ ready' = [ready EXCEPT ![c][p] = TRUE]
    BY <1>8 DEF Reply
  <2>2. known'[c][p] = 1..conv[c].seq /\ InSpot(c, p) /\ ActorOf(c, p) \in bound
    BY <1>2, <1>8, <2>1 DEF Informed, SessionTypes
  <2>3. Informed(c, p)'
    BY <1>5, <1>6, <2>2 DEF Informed, InSpot, ActorOf
  <2>4. \A d \in Conversations, q \in People : <<d, q>> # <<c, p>> =>
           known'[d][q] = known[d][q] /\ ready'[d][q] = ready[d][q]
    BY <1>2, <2>1 DEF SessionTypes
  <2>5. \A d \in Conversations, q \in People : <<d, q>> # <<c, p>> =>
           call'[d][q] = call[d][q]
    BY <1>2 DEF SessionTypes, Reply
  <2> QED
    BY <1>1, <1>4, <1>5, <2>3, <2>4, <2>5, CallKInv
<1> QED
  BY <1>7, <1>8

-----------------------------------------------------------------------------
(* What is pushed *)

\* Whoever is in a Spot is addressed by its notices.
LEMMA Addressed ==
  ASSUME SInv, Named, NEW c \in Conversations, NEW p \in People, InSpot(c, p)
  PROVE  p \in Everyone(conv[c])
<1>1. CASE p = Customer
  BY <1>1 DEF Everyone
<1>2. CASE p \in Agents /\ p # Customer
  <2>1. p \in told[c]
    BY <1>2 DEF SInv, Sound, Notified, InSpot
  <2> QED
    BY <1>2, <2>1, AssignmentAssumption DEF Named, Everyone
<1> QED
  BY <1>1, <1>2 DEF People

LEMMA LearnType ==
  ASSUME SessionTypes, NEW c \in Conversations, NEW S, NEW m \in SUBSET Nat, Learn(c, S, m)
  PROVE  /\ known' \in [Conversations -> [People -> SUBSET Nat]]
         /\ \A d \in Conversations : d # c => known'[d] = known[d]
         /\ \A p \in People :
              known'[c][p] = IF p \in S /\ ActorOf(c, p) \in bound
                             THEN known[c][p] \cup m ELSE known[c][p]
<1> DEFINE f == [p \in People |-> IF p \in S /\ ActorOf(c, p) \in bound
                                THEN known[c][p] \cup m ELSE known[c][p]]
<1>1. known[c] \in [People -> SUBSET Nat]
  BY DEF SessionTypes
<1>2. ASSUME NEW p \in People PROVE f[p] \in SUBSET Nat
  <2>1. known[c][p] \subseteq Nat
    BY <1>1
  <2> QED
    BY <2>1
<1>3. f \in [People -> SUBSET Nat]
  BY <1>2
<1>4. known' = [known EXCEPT ![c] = f]
  BY DEF Learn
<1>5. \A p \in People : f[p] = IF p \in S /\ ActorOf(c, p) \in bound
                               THEN known[c][p] \cup m ELSE known[c][p]
  OBVIOUS
<1> HIDE DEF f
<1> QED
  BY <1>3, <1>4, <1>5 DEF SessionTypes

\* Steps that change neither what sessions know nor what they wait for.
LEMMA QuietKInv ==
  ASSUME KInv, SInv, NEW c \in Conversations,
         \/ OpenConversation(c) \/ Underway(c) \/ Tick(c) \/ Clock(c)
         \/ \E a \in Agents : Refused(c, a)
         \/ \E p \in People : Shut(c, p)
  PROVE  KInv'
<1>1. UNCHANGED <<bound, call, known, ready>>
  BY DEF OpenConversation, Underway, Tick, Clock, Refused, Shut, sessionVars
<1>2. Named
  BY DEF KInv
<1>3. \/ CustomerStep(c) \/ (\E a \in Agents : AgentStep(c, a))
      \/ Timer(c) \/ TimePasses(c) \/ \E p \in People : CloseConversation(c, p)
  BY DEF OpenConversation, Underway, Tick, Clock, Refused, Shut, CustomerStep, AgentStep,
         Timer
<1>4. Named' /\ Stays /\ SameSeq
  BY <1>2, <1>3, CustomerStepNamed, AgentStepNamed, QuietNamed
<1> QED
  BY <1>1, <1>4, UntouchedKInv

LEMMA AgentsKInv ==
  ASSUME KInv, NEW a \in Agents,
         RosterLeft(a) \/ \E is \in BOOLEAN : Available(a, is)
  PROVE  KInv'
<1>1. UNCHANGED <<bound, call, known, ready, conv, customer, told, agent>>
  BY DEF RosterLeft, Available, GoOnline, GoOffline, vars, sessionVars
<1> QED
  BY <1>1, RosterNamed, UntouchedKInv DEF KInv

\* The customer that arrives finds no messages.
LEMMA ArrivesKInv ==
  ASSUME KInv, SInv, NEW c \in Conversations, Arrives(c)
  PROVE  KInv'
<1>0. Customer \in People
  BY DEF People
<1>1. CustomerArrives(c) /\ UNCHANGED <<bound, call, known>>
      /\ ready' = [ready EXCEPT ![c][Customer] = c \in bound]
  BY DEF Arrives
<1>2. Named' /\ Stays /\ SameSeq
  BY <1>1, CustomerStepNamed DEF KInv, CustomerStep
<1>3. SessionTypes /\ Informed(c, Customer) /\ Named /\ ConversationTypes
  BY <1>0 DEF KInv, SInv
<1>4. SessionTypes'
  BY <1>0, <1>1, <1>3 DEF SessionTypes
<1>5. conv[c].seq = 0 /\ customer'[c] = "joined"
  BY <1>1, <1>3 DEF Named, CustomerArrives, ConversationTypes
<1>6. known[c][Customer] = 1..conv[c].seq
  BY <1>3, <1>5 DEF Informed
<1>7. ready'[c][Customer] <=> c \in bound
  BY <1>0, <1>1, <1>3, Zenon DEF SessionTypes
<1>8. InSpot(c, Customer)' /\ conv'[c].seq = conv[c].seq
  BY <1>2, <1>5 DEF InSpot, SameSeq
<1>9. Informed(c, Customer)'
  BY <1>1, <1>2, <1>3, <1>6, <1>7, <1>8, <1>0 DEF Informed, ActorOf, Stays
<1>10. \A d \in Conversations, q \in People : <<d, q>> # <<c, Customer>> =>
           ready'[d][q] = ready[d][q]
  BY <1>1, <1>3 DEF SessionTypes
<1> QED
  BY <1>0, <1>1, <1>2, <1>4, <1>9, <1>10, CallKInv

\* A step that pushes what has been said so far to some of those at c.
LEMMA WelcomeInformed ==
  ASSUME KInv, SInv, NEW c \in Conversations, NEW p \in People, NEW q \in People,
         conv'[c].seq = conv[c].seq, Stays,
         known'[c][q] \in {known[c][q], known[c][q] \cup 1..conv[c].seq},
         call'[c][q] = call[c][q], ready'[c][q] = ready[c][q], bound' = bound
  PROVE  Informed(c, q)'
<1>1. Informed(c, q) /\ (InSpot(c, q) => InSpot(c, q)')
  BY DEF KInv, Stays
<1> QED
  BY <1>1 DEF Informed, ActorOf

LEMMA ComesKInv ==
  ASSUME KInv, SInv, NEW c \in Conversations, NEW a \in Agents, Comes(c, a)
  PROVE  KInv'
<1>0. a \in People /\ a # Customer
  BY SupportAssumption DEF People
<1>1. AgentArrives(c, a) /\ UNCHANGED <<bound, call>>
  BY DEF Comes
<1>2. Named' /\ Stays /\ SameSeq
  BY <1>1, AgentStepNamed DEF KInv, AgentStep
<1>3. CASE ~Open(c)
  BY <1>1, <1>2, <1>3, UntouchedKInv DEF Comes
<1>4. CASE Open(c)
  <2>1. /\ Learn(c, Everyone(conv'[c]), 1..conv[c].seq)
        /\ ready' = [ready EXCEPT ![c][a] = <<c, a>> \in bound]
    BY <1>4 DEF Comes, Welcome
  <2>2. SessionTypes /\ ConversationTypes /\ Informed(c, a)
    BY <1>0 DEF KInv, SInv
  <2>3. conv' = [conv EXCEPT ![c] = JoinAgent(conv[c], a)]
        /\ agent' = [agent EXCEPT ![c][a] = "joined"]
    BY <1>1, <1>4 DEF AgentArrives
  <2>4. conv'[c].agent = a /\ agent'[c][a] = "joined"
    <3>1. conv[c] \in Conversation /\ conv'[c] = JoinAgent(conv[c], a)
      BY <2>2, <2>3 DEF ConversationTypes
    <3>2. agent'[c][a] = "joined"
      BY <2>2, <2>3 DEF ConversationTypes
    <3> QED
      BY <3>1, <3>2, JoinAgentType
  <2>5. a \in Everyone(conv'[c])
    BY <1>0, <2>4, AssignmentAssumption DEF Everyone
  <2>6. 1..conv[c].seq \in SUBSET Nat
    BY <2>2 DEF ConversationTypes, Conversation
  <2>7. /\ known' \in [Conversations -> [People -> SUBSET Nat]]
        /\ \A d \in Conversations : d # c => known'[d] = known[d]
        /\ \A q \in People :
             known'[c][q] = IF q \in Everyone(conv'[c]) /\ ActorOf(c, q) \in bound
                            THEN known[c][q] \cup 1..conv[c].seq ELSE known[c][q]
    BY <2>1, <2>2, <2>6, LearnType
  <2>8. (ready'[c][a] <=> <<c, a>> \in bound) /\ ActorOf(c, a) = <<c, a>>
    BY <1>0, <2>1, <2>2, Zenon DEF SessionTypes, ActorOf
  <2>9. ready' \in [Conversations -> [People -> BOOLEAN]]
    BY <1>0, <2>1, <2>2 DEF SessionTypes
  <2>10. \A d \in Conversations, q \in People : <<d, q>> # <<c, a>> =>
           ready'[d][q] = ready[d][q]
    BY <2>1, <2>2 DEF SessionTypes
  <2>11. InSpot(c, a)' /\ conv'[c].seq = conv[c].seq
    BY <1>0, <1>2, <2>4 DEF InSpot, SameSeq
  <2>12. Informed(c, a)'
    <3>1. known'[c][a] = IF <<c, a>> \in bound THEN known[c][a] \cup 1..conv[c].seq
                         ELSE known[c][a]
      BY <1>0, <2>5, <2>7, <2>8
    <3> QED
      BY <1>1, <2>2, <2>8, <2>11, <3>1 DEF Informed, ActorOf
  <2>13. ASSUME NEW q \in People, q # a PROVE Informed(c, q)'
    <3>1. known'[c][q] \in {known[c][q], known[c][q] \cup 1..conv[c].seq}
      BY <2>7
    <3> QED
      BY <1>1, <1>2, <2>10, <2>11, <2>13, <3>1, WelcomeInformed
  <2>14. ASSUME NEW d \in Conversations, NEW q \in People, d # c PROVE Informed(d, q)'
    <3>1. Informed(d, q) /\ conv'[d].seq = conv[d].seq /\ (InSpot(d, q) => InSpot(d, q)')
      BY <1>2 DEF KInv, Stays, SameSeq
    <3> QED
      BY <1>1, <2>7, <2>10, <2>14, <3>1, UntouchedInformed
  <2>15. SessionTypes'
    BY <1>1, <2>2, <2>7, <2>9 DEF SessionTypes
  <2> QED
    BY <1>2, <2>12, <2>13, <2>14, <2>15 DEF KInv
<1> QED
  BY <1>3, <1>4

\* A join of an actor that is in the Spot shows its client every message.
LEMMA JoinAgainKInv ==
  ASSUME KInv, SInv, NEW c \in Conversations, NEW p \in People, JoinAgain(c, p)
  PROVE  KInv'
<1>1. /\ InSpot(c, p) /\ call[c][p].at = "bound" /\ UNCHANGED <<bound, ready>>
      /\ call' = [call EXCEPT ![c][p] =
                     [at |-> "answered", scheduled |-> FALSE, seq |-> conv[c].seq]]
  BY DEF JoinAgain, Relayed, Answered
<1>2. SessionTypes /\ ConversationTypes /\ Named /\ Informed(c, p)
  BY DEF KInv, SInv
<1>3. conv[c].seq \in Nat
  BY <1>2 DEF ConversationTypes, Conversation
<1>4. /\ Named' /\ Stays /\ SameSeq
      /\ known' \in [Conversations -> [People -> SUBSET Nat]]
      /\ \A d \in Conversations : d # c => known'[d] = known[d]
      /\ \A q \in People : known'[c][q] \in {known[c][q], known[c][q] \cup 1..conv[c].seq}
  <2>1. CASE p = Customer
    <3>1. UNCHANGED <<vars, known>>
      BY <2>1 DEF JoinAgain
    <3> QED
      BY <1>2, <3>1, SameVarsNamed DEF SessionTypes
  <2>2. CASE p # Customer
    <3>1. AgentRejoins(c, p) /\ Learn(c, Everyone(conv'[c]), 1..conv[c].seq) /\ p \in Agents
      BY <2>2 DEF JoinAgain, Welcome, People
    <3>2. Named' /\ Stays /\ SameSeq
      BY <1>2, <3>1, AgentStepNamed DEF AgentStep
    <3>3. 1..conv[c].seq \in SUBSET Nat
      BY <1>3
    <3> QED
      BY <1>2, <3>1, <3>2, <3>3, LearnType
  <2> QED
    BY <2>1, <2>2
<1>5. call' \in [Conversations -> [People -> Calls]]
  BY <1>1, <1>2, <1>3 DEF SessionTypes, Calls
<1>6. /\ call'[c][p].at = "answered" /\ ~call'[c][p].scheduled
      /\ call'[c][p].seq = conv[c].seq
      /\ \A d \in Conversations, q \in People : <<d, q>> # <<c, p>> =>
           call'[d][q] = call[d][q]
  BY <1>1, <1>2 DEF SessionTypes
<1>7. conv'[c].seq = conv[c].seq /\ InSpot(c, p)'
  BY <1>1, <1>4 DEF SameSeq, Stays
<1>8. Informed(c, p)'
  <2>1. known'[c][p] \in {known[c][p], known[c][p] \cup 1..conv[c].seq}
    BY <1>4
  <2> QED
    BY <1>1, <1>2, <1>6, <1>7, <2>1 DEF Informed, ActorOf
<1>9. ASSUME NEW q \in People, q # p PROVE Informed(c, q)'
  <2>1. known'[c][q] \in {known[c][q], known[c][q] \cup 1..conv[c].seq}
    BY <1>4
  <2> QED
    BY <1>1, <1>4, <1>6, <1>7, <1>9, <2>1, WelcomeInformed
<1>10. ASSUME NEW d \in Conversations, NEW q \in People, d # c PROVE Informed(d, q)'
  <2>1. Informed(d, q) /\ conv'[d].seq = conv[d].seq /\ (InSpot(d, q) => InSpot(d, q)')
    BY <1>4 DEF KInv, Stays, SameSeq
  <2> QED
    BY <1>1, <1>4, <1>6, <1>10, <2>1, UntouchedInformed
<1>11. SessionTypes'
  BY <1>1, <1>2, <1>4, <1>5 DEF SessionTypes
<1> QED
  BY <1>4, <1>8, <1>9, <1>10, <1>11 DEF KInv

LEMMA OneMore ==
  ASSUME NEW n \in Nat
  PROVE  1..n + 1 = (1..n) \cup {n + 1}
OBVIOUS

\* A message is pushed to all that are in the Spot, so those that know every
\* earlier one know every one.
LEMMA SayKInv ==
  ASSUME KInv, SInv, NEW c \in Conversations, NEW p \in People, Say(c, p)
  PROVE  KInv'
<1> DEFINE n == conv[c].seq
           S == Everyone(conv[c]) \cup {p}
<1>1. /\ SendMessage(c, p) /\ UNCHANGED <<bound, call, ready>>
      /\ Learn(c, S, {conv'[c].seq})
  BY DEF Say
<1>2. SessionTypes /\ Named
  BY DEF KInv
<1>3. /\ Named' /\ Stays
      /\ n \in Nat /\ conv'[c].seq = n + 1
      /\ \A d \in Conversations : d # c => conv'[d].seq = conv[d].seq
  BY <1>1, <1>2, MessageNamed
<1>4. {conv'[c].seq} \in SUBSET Nat
  BY <1>3
<1>5. /\ known' \in [Conversations -> [People -> SUBSET Nat]]
      /\ \A d \in Conversations : d # c => known'[d] = known[d]
      /\ \A q \in People :
           known'[c][q] = IF q \in S /\ ActorOf(c, q) \in bound
                          THEN known[c][q] \cup {conv'[c].seq} ELSE known[c][q]
  <2> HIDE DEF S
  <2> QED
    BY <1>1, <1>2, <1>4, LearnType
<1>6. ASSUME NEW q \in People PROVE Informed(c, q)'
  <2>1. Informed(c, q) /\ (InSpot(c, q) => InSpot(c, q)')
    BY <1>3 DEF KInv, Stays
  <2>2. InSpot(c, q) => q \in S
    BY <1>2, Addressed
  <2>3. conv'[c].seq = n + 1 /\ 1..n + 1 = (1..n) \cup {n + 1}
    BY <1>3, OneMore
  <2>4. known'[c][q] = IF q \in S /\ ActorOf(c, q) \in bound
                       THEN known[c][q] \cup {n + 1} ELSE known[c][q]
    BY <1>5, <2>3
  <2>5. call'[c][q] = call[c][q] /\ ready'[c][q] = ready[c][q]
    BY <1>1
  <2> HIDE DEF S
  <2> QED
    BY <1>1, <2>1, <2>2, <2>3, <2>4, <2>5 DEF Informed, ActorOf
<1>7. ASSUME NEW d \in Conversations, NEW q \in People, d # c PROVE Informed(d, q)'
  <2>1. Informed(d, q) /\ conv'[d].seq = conv[d].seq /\ (InSpot(d, q) => InSpot(d, q)')
    BY <1>3, <1>7 DEF KInv, Stays
  <2> QED
    BY <1>1, <1>5, <1>7, <2>1, UntouchedInformed
<1>8. SessionTypes'
  BY <1>1, <1>2, <1>5 DEF SessionTypes
<1> QED
  BY <1>3, <1>6, <1>7, <1>8 DEF KInv

-----------------------------------------------------------------------------
LEMMA NextKInv ==
  ASSUME KInv, SInv, [SessionsNext]_chatVars
  PROVE  KInv'
<1>1. CASE UNCHANGED chatVars
  BY <1>1, SameVarsNamed, UntouchedKInv DEF chatVars, sessionVars, KInv
<1>2. ASSUME NEW x \in Clients, Authenticate(x) \/ Disconnect(x)
      PROVE  KInv'
  BY <1>2, RosterKInv, DisconnectKInv
<1>3. ASSUME NEW a \in Agents, RosterLeft(a) \/ \E is \in BOOLEAN : Available(a, is)
      PROVE  KInv'
  BY <1>3, AgentsKInv
<1>4. ASSUME NEW c \in Conversations,
             \/ OpenConversation(c) \/ Underway(c) \/ Arrives(c) \/ Tick(c) \/ Clock(c)
             \/ \E a \in Agents : Comes(c, a) \/ Bind(c, a) \/ Refused(c, a)
      PROVE  KInv'
  BY <1>4, QuietKInv, ArrivesKInv, ComesKInv, BindKInv
<1>5. ASSUME NEW c \in Conversations, NEW p \in People,
             \/ Ask(c, p) \/ Reply(c, p) \/ JoinClosed(c, p)
             \/ Schedule(c, p) \/ JoinAgain(c, p)
      PROVE  KInv'
  BY <1>5, AskKInv, ReplyKInv, JoinClosedKInv, ScheduleKInv, JoinAgainKInv
<1>6. ASSUME NEW c \in Conversations, NEW p \in People, Say(c, p) \/ Shut(c, p)
      PROVE  KInv'
  BY <1>6, SayKInv, QuietKInv
<1> QED
  BY <1>1, <1>2, <1>3, <1>4, <1>5, <1>6 DEF SessionsNext, Serve

\* A session that has joined a conversation knows of every message in it,
\* however sign-ins, disconnects, joins, their replies and messages interleave.
THEOREM NothingIsMissed == SessionsSpec => []InTheKnow
<1>1. SessionsSpec => []SInv
  BY SessionsServe, SInvHolds, PTL
<1>2. SInv /\ KInv /\ [SessionsNext]_chatVars => KInv'
  BY NextKInv
<1>3. KInv => InTheKnow
  BY DEF KInv, Informed, InTheKnow
<1> QED
  BY <1>1, <1>2, <1>3, InitKInv, PTL DEF SessionsSpec
-----------------------------------------------------------------------------
(* The client's scenario *)

Kinds == {"assigned", "joined", "chat", "typing", "idle", "closed"}
Statuses == {"waiting", "active", "waitingForClose", "closed"}
Waits == (Clients \cup (Conversations \X Agents)) \X Kinds \X Conversations

\* The steps a script may have.
Steps ==
  [do : {"sign in", "leave"}, who : Clients]
  \cup [do : {"set"}, who : Clients, is : BOOLEAN, accepted : BOOLEAN]
  \cup [do : {"open"}, conv : Conversations]
  \cup [do : {"join", "cannot say", "shut", "cannot shut", "type"}, conv : Conversations, by : People]
  \cup [do : {"joined"}, conv : Conversations, by : People, scheduled : BOOLEAN, seq : Nat]
  \cup [do : {"say"}, conv : Conversations, by : People, seq : Nat]
  \cup [do : {"await", "quiet"}, what : SUBSET Waits]
  \cup [do : {"hear"}, what : Waits, status : Statuses, seq : Nat]

\* A list of steps of a script.
LEMMA StepLists ==
  ASSUME NEW a \in Steps, NEW b \in Steps, NEW c \in Steps, NEW d \in Steps,
         NEW e \in Steps, NEW f \in Steps, NEW g \in Steps
  PROVE  /\ <<a, b, c>> \in Seq(Steps) /\ <<a, b, c, d>> \in Seq(Steps)
         /\ <<a, b, c, d, e>> \in Seq(Steps) /\ <<a, b, c, d, e, f, g>> \in Seq(Steps)
OBVIOUS

LEMMA Cast ==
  /\ First \in Conversations /\ Second \in Conversations /\ Third \in Conversations
  /\ Desk \in Agents /\ Desk \in People /\ Customer \in People
BY ScenarioAssumption DEF People

LEMMA ClientSteps ==
  ASSUME NEW x \in Clients
  PROVE  /\ SignIn(x) \in Steps /\ Leave(x) \in Steps
         /\ Sets(x, TRUE, TRUE) \in Steps /\ Sets(x, TRUE, FALSE) \in Steps
         /\ Sets(x, FALSE, TRUE) \in Steps
<1>1. SignIn(x) \in Steps /\ Leave(x) \in Steps
  BY DEF Steps, SignIn, Leave
<1>2. /\ Sets(x, TRUE, TRUE) \in Steps /\ Sets(x, TRUE, FALSE) \in Steps
      /\ Sets(x, FALSE, TRUE) \in Steps
  BY DEF Steps, Sets
<1> QED
  BY <1>1, <1>2

LEMMA TalkSteps ==
  ASSUME NEW c \in Conversations, NEW p \in People
  PROVE  /\ Opens(c) \in Steps /\ Joins(c, p) \in Steps
         /\ CannotSay(c, p) \in Steps /\ Shuts(c, p) \in Steps
         /\ CannotShut(c, p) \in Steps /\ Types(c, p) \in Steps
         /\ \A seq \in Nat : Says(c, p, seq) \in Steps
         /\ \A seq \in Nat : Joined(c, p, TRUE, seq) \in Steps /\ Joined(c, p, FALSE, seq) \in Steps
<1>1. Opens(c) \in Steps
  BY DEF Steps, Opens
<1>2. /\ Joins(c, p) \in Steps /\ CannotSay(c, p) \in Steps /\ Shuts(c, p) \in Steps
      /\ CannotShut(c, p) \in Steps /\ Types(c, p) \in Steps
  BY DEF Steps, Joins, CannotSay, Shuts, CannotShut, Types
<1>3. ASSUME NEW seq \in Nat PROVE Says(c, p, seq) \in Steps
  BY DEF Steps, Says
<1>4. ASSUME NEW seq \in Nat
      PROVE  Joined(c, p, TRUE, seq) \in Steps /\ Joined(c, p, FALSE, seq) \in Steps
  BY DEF Steps, Joined
<1> QED
  BY <1>1, <1>2, <1>3, <1>4

LEMMA WaitTypes ==
  ASSUME NEW c \in Conversations, NEW kind \in Kinds
  PROVE  /\ <<Desk, kind, c>> \in Waits
         /\ To(Customer, kind, c) \in Waits /\ To(Desk, kind, c) \in Waits
         /\ Both(kind, c) \in SUBSET Waits /\ TypingToDesk \in SUBSET Waits
<1>1. Desk \in Agents /\ Desk # Customer /\ Desk \in Clients /\ Conversations \subseteq Clients
  BY Cast, SupportAssumption DEF Clients
<1>2. ASSUME NEW d \in Conversations, NEW k \in Kinds
      PROVE  <<Desk, k, d>> \in Waits /\ To(Customer, k, d) \in Waits /\ To(Desk, k, d) \in Waits
  BY <1>1 DEF Waits, To, ActorOf
<1>3. "typing" \in Kinds
  BY DEF Kinds
<1> QED
  BY <1>2, <1>3 DEF Both, TypingToDesk

LEMMA WaitSteps ==
  /\ \A what \in SUBSET Waits : Await(what) \in Steps /\ Quiet(what) \in Steps
  /\ \A what \in Waits, status \in Statuses, seq \in Nat : Hears(what, status, seq) \in Steps
<1>1. ASSUME NEW what \in SUBSET Waits PROVE Await(what) \in Steps /\ Quiet(what) \in Steps
  BY DEF Steps, Await, Quiet
<1>2. ASSUME NEW what \in Waits, NEW status \in Statuses, NEW seq \in Nat
      PROVE  Hears(what, status, seq) \in Steps
  BY DEF Steps, Hears
<1> QED
  BY <1>1, <1>2

LEMMA PartSteps ==
  ASSUME NEW c \in Conversations
  PROVE  /\ Assignment(c) \in Seq(Steps) /\ AgentJoins(c) \in Seq(Steps)
         /\ \A p \in {Customer, Desk}, seq \in Nat : Message(c, p, seq) \in Seq(Steps)
<1>1. Assignment(c) \in Seq(Steps)
  <2>1. <<Desk, "assigned", c>> \in Waits
    BY WaitTypes DEF Kinds
  <2>2. /\ Await({<<Desk, "assigned", c>>}) \in Steps /\ Opens(c) \in Steps
        /\ Hears(<<Desk, "assigned", c>>, "waiting", 0) \in Steps
    BY <2>1, Cast, WaitSteps, TalkSteps DEF Statuses
  <2> QED
    BY <2>2 DEF Assignment
<1>2. AgentJoins(c) \in Seq(Steps)
  <2>1. /\ Both("joined", c) \in SUBSET Waits
        /\ To(Customer, "joined", c) \in Waits /\ To(Desk, "joined", c) \in Waits
    BY WaitTypes DEF Kinds
  <2>2. /\ Await(Both("joined", c)) \in Steps
        /\ Hears(To(Customer, "joined", c), "active", 0) \in Steps
        /\ Hears(To(Desk, "joined", c), "active", 0) \in Steps
    BY <2>1, WaitSteps DEF Statuses
  <2>3. Joins(c, Desk) \in Steps /\ Joined(c, Desk, TRUE, 0) \in Steps
    BY Cast, TalkSteps
  <2> QED
    BY <2>2, <2>3, StepLists, Zenon DEF AgentJoins
<1>3. ASSUME NEW p \in {Customer, Desk}, NEW seq \in Nat PROVE Message(c, p, seq) \in Seq(Steps)
  <2>1. Peer(p) \in {Customer, Desk} /\ "chat" \in Kinds /\ p \in People
    BY Cast DEF Peer, Kinds
  <2>2. To(Peer(p), "chat", c) \in Waits
    BY <2>1, WaitTypes
  <2>3. /\ Await({To(Peer(p), "chat", c)}) \in Steps /\ Says(c, p, seq) \in Steps
        /\ Hears(To(Peer(p), "chat", c), "active", seq) \in Steps
    BY <2>1, <2>2, WaitSteps, TalkSteps DEF Statuses
  <2> QED
    BY <2>3 DEF Message
<1> QED
  BY <1>1, <1>2, <1>3

LEMMA ScriptSteps == Script \in Seq(Steps)
<1>1. /\ First \in Clients /\ Second \in Clients /\ Third \in Clients /\ Desk \in Clients
  BY Cast DEF Clients
<1>2. ASSUME NEW c \in {First, Second}, NEW kind \in Kinds
      PROVE  /\ To(Customer, kind, c) \in Waits /\ To(Desk, kind, c) \in Waits
             /\ Both(kind, c) \in SUBSET Waits /\ TypingToDesk \in SUBSET Waits
  BY Cast, WaitTypes
<1>3. Authentication \in Seq(Steps)
  BY <1>1, ClientSteps, StepLists, Zenon DEF Authentication
<1>4. SecondConversation \in Seq(Steps)
  <2>1. SignIn(Second) \in Steps
    BY <1>1, ClientSteps, Zenon
  <2>2. <<SignIn(Second)>> \in Seq(Steps)
    BY <2>1
  <2> QED
    BY <2>2, Cast, PartSteps, ConcatProperties DEF SecondConversation
<1>5. Typing \in Seq(Steps)
  <2>1. /\ To(Customer, "typing", First) \in Waits /\ TypingToDesk \in SUBSET Waits
    BY <1>2 DEF Kinds
  <2>2. /\ Await({To(Customer, "typing", First)} \cup TypingToDesk) \in Steps
        /\ Hears(To(Customer, "typing", First), "active", 2) \in Steps /\ Quiet(TypingToDesk) \in Steps
        /\ Types(First, Desk) \in Steps
    BY <2>1, Cast, WaitSteps, TalkSteps DEF Statuses
  <2> QED
    BY <2>2 DEF Typing
<1>6. CustomerReconnects \in Seq(Steps)
  <2>1. 3 \in Nat
    OBVIOUS
  <2> QED
    BY <2>1, <1>1, Cast, ClientSteps, TalkSteps, StepLists, Zenon DEF CustomerReconnects
<1>7. AgentReconnects \in Seq(Steps)
  <2>1. 2 \in Nat /\ 3 \in Nat
    OBVIOUS
  <2>2. /\ Joins(First, Desk) \in Steps /\ Joined(First, Desk, FALSE, 3) \in Steps
        /\ Joins(Second, Desk) \in Steps /\ Joined(Second, Desk, FALSE, 2) \in Steps
    BY <2>1, Cast, TalkSteps, Zenon
  <2> QED
    BY <2>2, <1>1, ClientSteps, StepLists, Zenon DEF AgentReconnects
<1>8. ExplicitClose \in Seq(Steps)
  <2>1. /\ Both("idle", First) \in SUBSET Waits /\ Both("closed", Second) \in SUBSET Waits
        /\ To(Desk, "closed", Second) \in Waits /\ To(Customer, "closed", Second) \in Waits
        /\ TypingToDesk \in SUBSET Waits
    BY <1>2 DEF Kinds
  <2>2. /\ Await(Both("idle", First)) \in Steps /\ Await(Both("closed", Second)) \in Steps
        /\ Hears(To(Desk, "closed", Second), "closed", 2) \in Steps
        /\ Hears(To(Customer, "closed", Second), "closed", 2) \in Steps
        /\ Await(TypingToDesk) \in Steps /\ Quiet(TypingToDesk) \in Steps
    BY <2>1, WaitSteps DEF Statuses
  <2>3. /\ Shuts(Second, Desk) \in Steps /\ CannotShut(Second, Customer) \in Steps
        /\ CannotSay(Second, Customer) \in Steps /\ Types(Second, Customer) \in Steps
    BY Cast, TalkSteps
  <2> QED
    BY <2>2, <2>3 DEF ExplicitClose
<1>9. IdleResume \in Seq(Steps) /\ IdleClose \in Seq(Steps)
  <2>1. /\ Both("idle", First) \in SUBSET Waits /\ Both("closed", First) \in SUBSET Waits
        /\ To(Desk, "closed", First) \in Waits /\ To(Customer, "closed", First) \in Waits
        /\ To(Desk, "idle", First) \in Waits /\ To(Customer, "idle", First) \in Waits
    BY <1>2 DEF Kinds
  <2>2. ASSUME NEW seq \in Nat
        PROVE  /\ Hears(To(Customer, "idle", First), "waitingForClose", seq) \in Steps
               /\ Hears(To(Desk, "idle", First), "waitingForClose", seq) \in Steps
               /\ Hears(To(Customer, "closed", First), "closed", seq) \in Steps
               /\ Hears(To(Desk, "closed", First), "closed", seq) \in Steps
    BY <2>1, WaitSteps DEF Statuses
  <2>3. /\ Await(Both("idle", First)) \in Steps /\ Await(Both("closed", First)) \in Steps
        /\ CannotSay(First, Customer) \in Steps /\ Message(First, Customer, 4) \in Seq(Steps)
    BY <2>1, Cast, WaitSteps, TalkSteps, PartSteps
  <2>4. <<Hears(To(Customer, "idle", First), "waitingForClose", 3),
          Hears(To(Desk, "idle", First), "waitingForClose", 3)>> \in Seq(Steps)
    BY <2>2
  <2> QED
    BY <2>2, <2>3, <2>4, ConcatProperties DEF IdleResume, IdleClose
<1>10. NoAgent \in Seq(Steps)
  BY <1>1, Cast, ClientSteps, TalkSteps, StepLists, Zenon DEF NoAgent
<1>11. /\ Assignment(First) \in Seq(Steps) /\ AgentJoins(First) \in Seq(Steps)
       /\ Message(First, Desk, 1) \in Seq(Steps) /\ Message(First, Customer, 2) \in Seq(Steps)
       /\ Message(First, Customer, 3) \in Seq(Steps)
  BY Cast, PartSteps
<1> QED
  BY <1>3, <1>4, <1>5, <1>6, <1>7, <1>8, <1>9, <1>10, <1>11, ConcatProperties DEF Script

LEMMA ActStep == Act => [Next]_vars
<1> SUFFICES ASSUME Act PROVE Next \/ UNCHANGED vars
  OBVIOUS
<1>1. ASSUME NEW op, Doing(op) PROVE Step \in Steps /\ Step.do = op
  BY <1>1, ScriptSteps, ElementOfSeq DEF Doing, Step
<1>2. CASE Session
  BY <1>2 DEF Session, Authenticate, Disconnect, Available, chatVars, Next
<1>3. CASE Doing("open") /\ OpenConversation(Step.conv)
  <2>1. Step \in Steps /\ Step.do = "open"
    BY <1>1, <1>3
  <2>2. Step.conv \in Conversations
    BY <2>1 DEF Steps
  <2> QED
    BY <1>3, <2>2 DEF OpenConversation, Next, CustomerStep
<1>4. CASE (Doing("say") /\ Say(Step.conv, Step.by)) \/ (Doing("shut") /\ Shut(Step.conv, Step.by))
  <2>1. Step \in Steps /\ Step.do \in {"say", "shut"}
    BY <1>1, <1>4
  <2>2. Step.conv \in Conversations /\ Step.by \in People
    BY <2>1 DEF Steps
  <2> QED
    BY <1>4, <2>2 DEF Say, Shut, Next, Talk
<1>5. CASE UNCHANGED chatVars \/ SetTyping(Step.conv, Step.by)
  BY <1>5 DEF chatVars, SetTyping
<1>6. CASE Join \/ Waiting
  BY <1>6 DEF Join, Waiting, Ask, Reply
<1>7. Request => \/ Doing("open") /\ OpenConversation(Step.conv)
                 \/ Doing("say") /\ Say(Step.conv, Step.by)
                 \/ Doing("shut") /\ Shut(Step.conv, Step.by)
                 \/ UNCHANGED chatVars \/ SetTyping(Step.conv, Step.by)
  BY DEF Request
<1> QED
  BY <1>2, <1>3, <1>4, <1>5, <1>6, <1>7 DEF Act

\* The client's scenario asks of the conversations only what people may: all that is
\* proved of SupportChat holds while it is played.
THEOREM ScenarioServes == ScenarioSpec => Spec
<1>1. [ScenarioNext]_<<chatVars, at>> => [Next]_vars
  <2> SUFFICES ASSUME [ScenarioNext]_<<chatVars, at>> PROVE [Next]_vars
    OBVIOUS
  <2>1. CASE Servers
    BY <2>1, SessionsStep DEF Servers, SessionsNext
  <2>2. ASSUME NEW c \in Conversations, SlowClock(c) PROVE [Next]_vars
    BY <2>2, SessionsStep DEF SlowClock, SessionsNext
  <2>3. CASE UNCHANGED <<chatVars, at>>
    BY <2>3 DEF chatVars
  <2> QED
    BY <2>1, <2>2, <2>3, ActStep DEF ScenarioNext
<1> QED
  BY <1>1, PTL DEF ScenarioSpec, SessionsInit, Spec
=============================================================================
