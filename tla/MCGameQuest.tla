------------------------------ MODULE MCGameQuest ------------------------------
(***************************************************************************)
(* An instance of GameQuest for TLC.  focus is chosen once: "free" lets one *)
(* player do anything on a session of each API process, with a kill and    *)
(* the area that completes a quest; "script" plays the client's scenario.  *)
(***************************************************************************)
EXTENDS GameQuestScenario, TLC

CONSTANTS s1, s2, s3, a1, a2

VARIABLE focus

MCSessionApi == (s1 :> a1) @@ (s2 :> a2) @@ (s3 :> a2)

FreeFacts == {Kill(1), Ruins}

\* Mission processes are interchangeable.
Alike == Permutations(Missions)

MCInit ==
  /\ Init
  /\ \/ focus = "free" /\ ScenarioInit({<<>>})
     \/ focus = "script" /\ ScenarioInit(Parts)

FreeNext ==
  \/ /\ requests < MaxRequests /\ requests' = requests + 1
     /\ \E s \in {s1, s2} : ClientPacket(s, Alice, FreeFacts)
  \/ ServersNext

MCNext ==
  /\ UNCHANGED focus
  /\ \/ focus = "free" /\ FreeNext /\ UNCHANGED scriptVars
     \/ focus = "script" /\ ScenarioStep

MCSpec == MCInit /\ [][MCNext]_<<vars, scriptVars, focus>>
=============================================================================
