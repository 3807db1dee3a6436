----------------------------- MODULE MCSupportChat -----------------------------
(* TLC instance of the SupportChat modules.  focus is chosen once: "agents"   *)
(* has two conversations and two agents, "rooms" three conversations that     *)
(* compete for the two rooms of one agent, "sessions" a customer and an agent *)
(* whose streams break and are opened again, and "scenario" the client's      *)
(* script.                                                                    *)
EXTENDS SupportScenario, TLC

CONSTANTS a1, a2, c1, c2, c3

VARIABLE focus

MCVars == <<chatVars, at, focus>>

MCInit ==
  /\ SessionsInit
  /\ focus \in {"agents", "rooms", "sessions", "scenario"}
  /\ at = IF focus = "scenario" THEN 1 ELSE Failed

MCNext ==
  /\ UNCHANGED focus
  /\ \/ /\ focus = "agents" /\ Next /\ UNCHANGED <<sessionVars, at>>
        /\ conv'[c3] = NewConversation /\ rejoins'[c2] = 0
        /\ conv'[c1].seq <= 2 /\ conv'[c2].seq <= 1
     \/ /\ focus = "rooms" /\ Next /\ UNCHANGED <<sessionVars, at>>
        /\ a2 \notin available' /\ \A c \in Conversations : rejoins'[c] = 0 /\ conv'[c].seq = 0
     \/ /\ focus = "sessions" /\ SessionsNext /\ UNCHANGED at
        /\ a2 \notin bound' /\ c2 \notin bound' /\ c3 \notin bound' /\ conv'[c1].seq <= 2
     \/ focus = "scenario" /\ ScenarioNext

\* The clock and the Spots' 500 ms timers go on, and the servers and the client
\* of the scenario; people promise nothing.
Time(c) ==
  /\ \/ focus \in {"agents", "rooms"} /\ (Timer(c) \/ TimePasses(c)) /\ UNCHANGED sessionVars
     \/ focus = "sessions" /\ (Tick(c) \/ Clock(c))
  /\ UNCHANGED <<at, focus>>

MCFairness ==
  /\ \A c \in Conversations : WF_MCVars(Time(c))
  /\ WF_MCVars(focus = "scenario" /\ ScenarioNext /\ UNCHANGED focus)

MCSpec == MCInit /\ [][MCNext]_MCVars /\ MCFairness
=============================================================================
