---------------------------- MODULE AgentAssignment ----------------------------
(***************************************************************************)
(* agent_assignment_service_t and agent_availability_directory_t           *)
(* (samples/SupportChat/Server/Support/Application/ConversationAssignment/ *)
(* agent_assignment_service.hpp): the agents that take conversations, how  *)
(* many each has, the order in which they are asked, and the reservations. *)
(* The runtime's mutex makes each operation one step.                      *)
(***************************************************************************)
EXTENDS Integers, Sequences, FiniteSets

CONSTANTS
  Agents,         \* roster actor ids
  Conversations,
  Capacity,       \* conversations of one agent (three in the code)
  None

ASSUME AssignmentAssumption ==
  /\ None \notin Agents
  /\ IsFiniteSet(Conversations)
  /\ Capacity \in Nat

VARIABLES
  available,  \* the keys of the directory's _agents
  active,     \* their active_conversations; 0 for the others
  order,      \* the directory's _order
  reserved    \* the service's _reservations, None for no reservation

assignmentVars == <<available, active, order, reserved>>

AssignmentInit ==
  /\ available = {}
  /\ active = [a \in Agents |-> 0]
  /\ order = <<>>
  /\ reserved = [c \in Conversations |-> None]

\* The conversations reserved for an agent.
ReservedBy(a) == {c \in Conversations : reserved[c] = a}

\* A sequence without its i-th element.
Drop(s, i) == [j \in 1..Len(s) - 1 |-> IF j < i THEN s[j] ELSE s[j + 1]]

\* Mutant: a returning agent starts from nothing.
MutSetAvailable(a) ==
  /\ available' = available \cup {a}
  /\ active' = [active EXCEPT ![a] = 0]
  /\ order' = IF a \in available THEN order ELSE Append(order, a)
  /\ UNCHANGED reserved

SetAvailable(a) ==
  /\ available' = available \cup {a}
  /\ active' = [active EXCEPT ![a] = Cardinality(ReservedBy(a))]
  /\ order' = IF a \in available THEN order ELSE Append(order, a)
  /\ UNCHANGED reserved

SetUnavailable(a) ==
  /\ available' = available \ {a}
  /\ active' = [active EXCEPT ![a] = 0]
  /\ IF \E i \in DOMAIN order : order[i] = a
     THEN order' = Drop(order, CHOOSE i \in DOMAIN order : order[i] = a)
     ELSE UNCHANGED order
  /\ UNCHANGED reserved

HasRoom(a) == active[a] < Capacity

\* The first agent in the order that has room.
IsNext(i) ==
  /\ i \in DOMAIN order
  /\ HasRoom(order[i])
  /\ \A j \in DOMAIN order : j < i => ~HasRoom(order[j])

\* The agent that assign_for_conversation returns, None for std::nullopt.
Chosen(c) ==
  IF reserved[c] = None /\ \E i \in DOMAIN order : IsNext(i)
  THEN order[CHOOSE i \in DOMAIN order : IsNext(i)]
  ELSE None

\* assign_for_conversation: the chosen agent goes to the end of the order.
Assign(c) ==
  IF Chosen(c) = None
  THEN UNCHANGED assignmentVars
  ELSE LET i == CHOOSE i \in DOMAIN order : IsNext(i)
           a == order[i]
       IN  /\ active' = [active EXCEPT ![a] = @ + 1]
           /\ order' = Append(Drop(order, i), a)
           /\ reserved' = [reserved EXCEPT ![c] = a]
           /\ UNCHANGED available

\* release_conversation
Release(c) ==
  IF reserved[c] = None
  THEN UNCHANGED assignmentVars
  ELSE LET a == reserved[c]
       IN  /\ active' = IF a \in available /\ active[a] > 0
                        THEN [active EXCEPT ![a] = @ - 1]
                        ELSE active
           /\ reserved' = [reserved EXCEPT ![c] = None]
           /\ UNCHANGED <<available, order>>

AssignmentNext ==
  \/ \E a \in Agents : SetAvailable(a) \/ SetUnavailable(a)
  \/ \E c \in Conversations : Assign(c) \/ Release(c)

AssignmentSpec == AssignmentInit /\ [][AssignmentNext]_assignmentVars

-----------------------------------------------------------------------------
AssignmentTypeOK ==
  /\ available \subseteq Agents
  /\ active \in [Agents -> Nat]
  /\ order \in Seq(Agents)
  /\ reserved \in [Conversations -> Agents \cup {None}]

\* The order is a list of the available agents, each once: assign() finds
\* every id of _order in _agents and no agent is asked twice in a round.
OrderIsRoster ==
  /\ \A i \in DOMAIN order : order[i] \in available
  /\ \A a \in available : \E i \in DOMAIN order : order[i] = a
  /\ \A i, j \in DOMAIN order : order[i] = order[j] => i = j

\* The directory's count of an available agent is the number of its
\* reservations, however often it left and came back in between.
CountsAgree == \A a \in available : active[a] = Cardinality(ReservedBy(a))

\* No agent has more conversations reserved than its capacity, also across
\* leaving and coming back.
NotOverbooked == \A a \in Agents : Cardinality(ReservedBy(a)) <= Capacity

\* The directory's two containers and its counts agree with each other and
\* with the service's reservations, and with them every agent keeps within
\* its capacity.
DirectorySafe == AssignmentTypeOK /\ OrderIsRoster /\ CountsAgree /\ NotOverbooked
=============================================================================
