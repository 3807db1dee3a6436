------------------------------- MODULE ZoneClaims -------------------------------
(***************************************************************************)
(* How ZoneWorld's zones find their nodes (samples/ZoneWorld/Server): a    *)
(* zone node asks for every zone in turn, again and again, until it holds  *)
(* as many as it may; the framework places a zone nobody has on some node  *)
(* with room; the gateway asks for all of them once more before it brings  *)
(* in the bots; and Ops answers, from the nodes' reports, two adjacent     *)
(* zones on different nodes.                                               *)
(*                                                                         *)
(* A node that died is started again as a spare, which asks for nothing    *)
(* (run_sample.sh).  Its zones cannot be reached until their claims expire.*)
(*                                                                         *)
(* Bounds: MaxFailures requests that fail for no reason here, MaxDeaths    *)
(* nodes that die, RetryAttempts and ReadyAttempts for the code's 120 and 8.*)
(***************************************************************************)
EXTENDS ZoneWorld

CONSTANTS Capacity, RetryAttempts, ReadyAttempts, MaxFailures, MaxDeaths, Gone

ASSUME ClaimsAssumption ==
  /\ Capacity \in [Nodes -> Nat] /\ Gone \notin Nodes \cup {None}
  /\ \A S \in SUBSET Zones : None # S
  /\ ReadyAttempts \in Nat /\ RetryAttempts \in Nat /\ MaxFailures \in Nat /\ MaxDeaths \in Nat

\* How the runner sets the nodes up: their capacities share out the zones, not all to one,
\* and fewer requests fail than a node has attempts to spare.
ASSUME SharesAssumption ==
  /\ \E share \in [Zones -> Nodes] :
       /\ \A n \in Nodes : Capacity[n] = Cardinality({z \in Zones : share[z] = n})
       /\ \E z, w \in Zones : share[z] # share[w]
  /\ 1 < RetryAttempts /\ ReadyAttempts < RetryAttempts
  /\ \A n \in Nodes : MaxFailures + Capacity[n] < RetryAttempts

VARIABLES
  node,       \* zone_bootstrap_service_t of each node
  zones,      \* node_state_t::zones
  spot,       \* each zone: the node that claimed it, and whether it is initialized
  known,      \* ops_state_t: what Ops knows of each node's zones, or None
  gateway,    \* world_bootstrap_handler_t
  failures, deaths

claimsVars == <<node, zones, spot, known, gateway, failures, deaths>>

\* all_zones
ZoneOrder == <<"zone-nw", "zone-ne", "zone-sw", "zone-se">>

\* A node process before it runs, and as it starts.
Down(spare) == [step |-> "down", spare |-> spare, next |-> 1, claimed |-> {}, attempt |-> 0]

ClaimsInit ==
  /\ node = [n \in Nodes |-> Down(FALSE)]
  /\ zones = [n \in Nodes |-> {}]
  /\ spot = [z \in Zones |-> [at |-> None, live |-> FALSE]]
  /\ known = [n \in Nodes |-> None]
  /\ gateway = [step |-> "zones", next |-> 1]
  /\ failures = 0 /\ deaths = 0

Up(n) == node[n].step # "down"
At(n, step) == node[n].step = step
Go(n, step) == node' = [node EXCEPT ![n].step = step]

-----------------------------------------------------------------------------
(* get_or_create of a zone (external) *)

Room(n) == Up(n) /\ Cardinality({z \in Zones : spot[z].at = n}) < Capacity[n]

\* The zone is there, or is placed on a node with room.
Claimed(z) ==
  \/ spot[z].at \in Nodes /\ UNCHANGED spot
  \/ /\ spot[z].at = None
     /\ \E n \in Nodes : Room(n) /\ spot' = [spot EXCEPT ![z].at = n]

\* Nobody has room, the owner died, or the request fails for a reason of its own.
Unavailable(z) ==
  /\ \/ spot[z].at = Gone /\ UNCHANGED failures
     \/ spot[z].at = None /\ (\A n \in Nodes : ~Room(n)) /\ UNCHANGED failures
     \/ failures < MaxFailures /\ failures' = failures + 1
  /\ UNCHANGED spot

-----------------------------------------------------------------------------
(* zone_bootstrap_service_t *)

\* The first claimed set of run_bootstrap is empty.
Boot(n) ==
  /\ At(n, "down") /\ Go(n, "pass")
  /\ UNCHANGED <<zones, spot, known, gateway, failures, deaths>>

\* bootstrap goes on as long as its own zones are the ones it started with.
Goes(n) ==
  /\ At(n, "pass") /\ ~node[n].spare
  /\ node[n].next <= Len(ZoneOrder) /\ zones[n] = node[n].claimed

GoOn(n) == node' = [node EXCEPT ![n].next = @ + 1, ![n].step = "pass"]

\* bootstrap catches only unavailable and deadline_exceeded: another error ends the pass.
Throws(n) ==
  /\ failures < MaxFailures /\ failures' = failures + 1
  /\ node' = [node EXCEPT ![n].next = Len(ZoneOrder) + 1]
  /\ UNCHANGED spot

\* A zone that is placed is answered for when its on_initialize is over.
Ask(n) ==
  /\ Goes(n)
  /\ LET z == ZoneOrder[node[n].next] IN
     \/ Claimed(z) /\ (IF spot[z].live THEN GoOn(n) ELSE Go(n, "asked")) /\ UNCHANGED failures
     \/ Unavailable(z) /\ GoOn(n)
     \/ Throws(n)
  /\ UNCHANGED <<zones, known, gateway, deaths>>

\* ... or its node died.
Answered(n) ==
  LET s == spot[ZoneOrder[node[n].next]] IN
  /\ At(n, "asked") /\ (s.live \/ s.at \notin Nodes)
  /\ GoOn(n)
  /\ UNCHANGED <<zones, spot, known, gateway, failures, deaths>>

\* The end of run_bootstrap's loop, and the head of its next round: a spare without
\* zones is ready after some rounds, a node that is full is; everybody gives up some time.
Retry(n) ==
  /\ At(n, "pass") /\ ~Goes(n)
  /\ LET me == node[n]
         full == Cardinality(zones[n]) = Capacity[n]
     IN
     node' = [node EXCEPT ![n] =
       IF me.spare /\ zones[n] = {} /\ me.attempt >= ReadyAttempts
       THEN [me EXCEPT !.step = "settled"]
       ELSE IF me.attempt + 1 >= RetryAttempts THEN [me EXCEPT !.step = "failed"]
       ELSE IF ~me.spare /\ full THEN [me EXCEPT !.step = "settled"]
       ELSE [me EXCEPT !.next = 1, !.claimed = zones[n], !.attempt = @ + 1]]
  /\ UNCHANGED <<zones, spot, known, gateway, failures, deaths>>

\* report_now; ZoneOps has the report's way to Ops.
Reports(n) == known' = [known EXCEPT ![n] = zones[n]]

\* report_now and print_ready, once run_bootstrap returned its zones.
PrintReady(n) ==
  /\ At(n, "settled") /\ Reports(n) /\ Go(n, "ready")
  /\ UNCHANGED <<zones, spot, gateway, failures, deaths>>

\* node_report_service_t's periodic report.
Periodic(n) ==
  /\ Up(n) /\ known[n] # zones[n] /\ Reports(n)
  /\ UNCHANGED <<node, zones, spot, gateway, failures, deaths>>

\* zone_spot_t::on_initialize
Initialize(z) ==
  LET n == spot[z].at IN
  /\ n \in Nodes /\ ~spot[z].live
  /\ zones' = [zones EXCEPT ![n] = @ \cup {z}]
  /\ spot' = [spot EXCEPT ![z].live = TRUE]
  /\ UNCHANGED <<node, known, gateway, failures, deaths>>

\* A node dies with its zones.
Die(n) ==
  /\ Up(n) /\ deaths < MaxDeaths /\ deaths' = deaths + 1
  /\ node' = [node EXCEPT ![n] = Down(TRUE)]
  /\ zones' = [zones EXCEPT ![n] = {}]
  /\ spot' = [z \in Zones |->
       IF spot[z].at = n THEN [at |-> Gone, live |-> FALSE] ELSE spot[z]]
  /\ UNCHANGED <<known, gateway, failures>>

\* The claims of a node that died expire.
Forget ==
  /\ \E z \in Zones : spot[z].at = Gone
  /\ spot' = [z \in Zones |-> IF spot[z].at = Gone THEN [spot[z] EXCEPT !.at = None] ELSE spot[z]]
  /\ UNCHANGED <<node, zones, known, gateway, failures, deaths>>

-----------------------------------------------------------------------------
(* Ops, and the gateway *)

\* expire_reports
Unregister(n) ==
  /\ ~Up(n) /\ known[n] # None
  /\ known' = [known EXCEPT ![n] = None]
  /\ UNCHANGED <<node, zones, spot, gateway, failures, deaths>>

\* relocation_pair: adjacent zones that two registered nodes reported.
Lists(n, z) == known[n] # None /\ z \in known[n]

RelocationPair(n, z, m, w) ==
  n # m /\ Lists(n, z) /\ Lists(m, w) /\ w \in Adjacent(z)

\* world_bootstrap_handler_t: every zone in turn, and then the bots; an error ends it.
NextZone ==
  gateway' = IF gateway.next = Len(ZoneOrder) THEN [gateway EXCEPT !.step = "bots"]
             ELSE [step |-> "zones", next |-> gateway.next + 1]

\* Mutant: the next zone is asked for before the last one answered.
MutBootstrap ==
  /\ gateway.step = "zones"
  /\ \/ Claimed(ZoneOrder[gateway.next]) /\ UNCHANGED failures /\ NextZone
     \/ Unavailable(ZoneOrder[gateway.next]) /\ gateway' = [gateway EXCEPT !.step = "failed"]
  /\ UNCHANGED <<node, zones, known, deaths>>

Bootstrap ==
  LET z == ZoneOrder[gateway.next] IN
  /\ gateway.step = "zones"
  /\ \/ /\ Claimed(z) /\ UNCHANGED failures
        /\ IF spot[z].live THEN NextZone ELSE gateway' = [gateway EXCEPT !.step = "asked"]
     \/ Unavailable(z) /\ gateway' = [gateway EXCEPT !.step = "failed"]
  /\ UNCHANGED <<node, zones, known, deaths>>

Bootstrapped ==
  LET s == spot[ZoneOrder[gateway.next]] IN
  /\ gateway.step = "asked"
  /\ \/ s.at \notin Nodes /\ gateway' = [gateway EXCEPT !.step = "failed"]
     \/ s.live /\ NextZone
  /\ UNCHANGED <<node, zones, spot, known, failures, deaths>>

ClaimsNext ==
  \/ \E n \in Nodes :
       \/ Boot(n) \/ Ask(n) \/ Answered(n) \/ Retry(n)
       \/ PrintReady(n) \/ Periodic(n) \/ Die(n) \/ Unregister(n)
  \/ \E z \in Zones : Initialize(z)
  \/ Forget \/ Bootstrap \/ Bootstrapped

ClaimsSpec == ClaimsInit /\ [][ClaimsNext]_claimsVars

-----------------------------------------------------------------------------
(* Properties *)

\* No node gives up while nobody dies; a spare does only if it was given a zone.
NobodyGivesUp ==
  \A n \in Nodes : At(n, "failed") =>
    IF node[n].spare THEN zones[n] # {} ELSE deaths > 0

\* The two zones Ops names are on two different nodes.
PairIsTrue ==
  \A n, m \in Nodes, z, w \in Zones :
    RelocationPair(n, z, m, w) => spot[z].at = n /\ spot[w].at = m

\* As long as no node dies, the nodes share out the zones among them, whatever the order
\* they start in, with the passes of the nodes and of the gateway running into each
\* other: each is ready with its share, within its attempts, and Ops then has a pair of
\* adjacent zones on two nodes, and never a wrong one.
ClaimsSettle ==
  /\ NobodyGivesUp
  /\ deaths = 0 =>
       /\ PairIsTrue
       /\ gateway.step = "bots" => \A z \in Zones : spot[z].live
       /\ (\A n \in Nodes : At(n, "ready")) =>
            \E n, m \in Nodes, z, w \in Zones : RelocationPair(n, z, m, w)
=============================================================================
