----------------------------- MODULE MCZoneWorld -----------------------------
(* TLC instance of ZoneWorld's parts.  focus is chosen once: a behaviour of  *)
(* the instance exercises one part, with the maintenance of the nodes under  *)
(* the players and one packet less, and no repeated completion, under an     *)
(* announcement.  Only n1 expires, gone or late.  Where zones are claimed, a *)
(* node dies, or reports out of turn, only once all are ready; 5 attempts are*)
(* the fewest that do for a node of 3 zones and a request that fails.        *)
EXTENDS ZoneClaims, ZoneBorder

CONSTANTS n1, n2, c1, c2, p, b

VARIABLE focus

MCNodes == {n1, n2}
MCConsoles == {c1, c2}
MCHumans == {p}
MCBots == {b}
MCSpawn == <<1, 1>>
MCFixtures == {<<<<1, 2>>, 0, -1>>, <<<<2, 1>>, -1, 0>>}
MCNodeOf == [z \in Zones |-> IF z \in {"zone-nw", "zone-ne"} THEN n1 ELSE n2]
MCPlaces == {"zone-nw", "zone-ne"}
MCBeside == [z \in MCPlaces |-> MCPlaces \ {z}]

MCCapacity == (n1 :> 1) @@ (n2 :> 3)

vars == <<opsVars, worldVars, borderVars, claimsVars, focus>>

Init ==
  /\ focus \in {"maintenance", "consoles", "humans", "bots", "news", "border", "claims"}
  /\ OpsInit /\ WorldInit /\ BorderInit /\ ClaimsInit

Players(who) ==
  \/ \E a \in who :
       \/ JoinWorld(a) \/ EnterWorld(a) \/ BotTick(a)
       \/ OnActorJoin(a) \/ FailJoin(a) \/ OnLeaveActor(a) \/ OnActorJoined(a)
       \/ OnJoinCompleted(a)
       \/ \E to \in Reach : Move(a, to)
  \/ \E z \in Zones : UpdatePosition(z)

OpsPart == UNCHANGED <<worldVars, borderVars, claimsVars, focus>>

Lifecycle == \E n \in Nodes : Stop(n) \/ Start(n) \/ Ready(n)
Reporting ==
  \/ \E n \in Nodes : Report(n) \/ Reported(n)
  \/ \E h \in Tellers : Tell(h)
Watching == Peers \/ (\E w \in Watchers : Push(w)) \/ Expire(n1)

AllReady == \A n \in Nodes : At(n, "ready") \/ node[n].spare

Next ==
  \/ /\ focus = "maintenance" /\ OpsPart
     /\ MaintenanceStep \/ Lifecycle \/ (Reporting /\ reported' + 1 < MaxReports)
  \/ /\ focus = "consoles" /\ OpsPart
     /\ Lifecycle \/ Reporting \/ Watching \/ Watch(c1)
     /\ process'[n2] = "ready"
  \/ /\ focus \in {"humans", "bots"} /\ UNCHANGED <<borderVars, claimsVars, focus>>
     /\ \/ Players(IF focus = "humans" THEN Humans ELSE Bots)
        \/ UNCHANGED worldVars /\ MaintenanceStep /\ setting'[c2] = setting[c2]
           /\ settings' < MaxSettings
           /\ (settings' # settings => store' # store)
  \/ /\ focus = "news" /\ UNCHANGED <<borderVars, claimsVars, focus>>
     /\ NewsNext \/ (Players(Humans) /\ deeds' < MaxDeeds /\ repeats' = 0)
  \/ /\ focus = "border" /\ UNCHANGED <<opsVars, worldVars, claimsVars, focus>>
     /\ BorderNext
  \/ /\ focus = "claims" /\ UNCHANGED <<opsVars, worldVars, borderVars, focus>>
     /\ ClaimsNext
     /\ (known' # known /\ node' = node) \/ deaths' # deaths => AllReady

Spec == Init /\ [][Next]_vars
=============================================================================
