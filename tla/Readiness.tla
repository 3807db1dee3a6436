------------------------------- MODULE Readiness -------------------------------
(***************************************************************************)
(* How the servers of the samples tell that they are ready (host_support,  *)
(* sample_readiness): a hosted service watches the peers of its node in a  *)
(* mesh and prints one line once all the peers it waits for are ready; the *)
(* runner (run_sample.sh) starts the client when it has seen every line.   *)
(* Two threads of the service look: the callback of the mesh's             *)
(* observation and a worker that polls, so that a change that happens      *)
(* while the observation is registered, or an event that is not retained,  *)
(* is not missed.  Every sample has its own copy of the class; they differ *)
(* in the peers and in that Bingo's route_mesh_readiness_service_t looks   *)
(* once instead of polling.                                                *)
(*                                                                         *)
(* External: the mesh, whose peers become ready and may be lost again, and *)
(* the buffer of an observation, which drops its oldest event, and any     *)
(* event at all if the mesh is lossy.                                      *)
(*                                                                         *)
(* Bounds: MaxEvents buffered events (64 in the code), MaxLosses losses of *)
(* a peer, MaxStops hosts that stop.                                       *)
(***************************************************************************)
EXTENDS Naturals, Sequences, FiniteSets

CONSTANTS Services, MaxEvents, MaxLosses, MaxStops

\* A service: [node, targets, polls].
Polling(node, targets) == [node |-> node, targets |-> targets, polls |-> TRUE]
LookingOnce(node, targets) == [node |-> node, targets |-> targets, polls |-> FALSE]

\* TicTacToe: a Play node waits for the other one, an API node for both.
PlayRoute(node, peer) == Polling(node, {peer})
ApiSpotRoute(node, peers) == Polling(node, peers)
\* Bingo
PlayPeerRoute(node, peer) == Polling(node, {peer})
RouteMesh(node, peers) == LookingOnce(node, peers)
\* DeliveryDispatch
RouteReady(node, peers) == Polling(node, peers)
ActorRouteReady(node, peer) == Polling(node, {peer})
\* ShoppingMall, GameQuest, SupportChat
ObjectRoute(node, peer) == Polling(node, {peer})
SpotRoute(node, peers) == Polling(node, peers)
SupportRoute(node, support) == Polling(node, {support})

ASSUME ReadinessAssumption ==
  /\ \A s \in Services : s.polls \in BOOLEAN /\ s.targets # {}
  /\ MaxEvents \in Nat \ {0} /\ MaxLosses \in Nat /\ MaxStops \in Nat

Nodes == UNION {{s.node} \cup s.targets : s \in Services}

VARIABLES
  links,     \* the mesh: <<n, m>> when m is a ready peer of n
  losses,    \* peers lost so far
  lossy,     \* whether the observation may lose events
  life,      \* each service: "new", "observing", "running", "stopping", "stopped"
  events,    \* each service's observation: the snapshots not handled yet
  callback,  \* the observation's thread: "idle" or "printing"
  worker,    \* the worker: "none", "looking", "holding", "printing" or "done"
  held,      \* the snapshot the worker holds
  reported,  \* the services whose state_t::reported is set
  lines,     \* the lines each service printed
  proven,    \* history: the services whose targets were all ready at one time since they started
  client     \* whether the runner started the client

threads == <<life, callback, worker, held, reported, lines>>
vars == <<links, losses, lossy, events, threads, proven, client>>

\* mesh_node_snapshot_t: the peers of the node that are ready
View(s) == {m \in Nodes : <<s.node, m>> \in links}

\* Mutant: any of the peers will do.
MutReady(s, snapshot) == s.targets \cap snapshot # {}

Ready(s, snapshot) == s.targets \subseteq snapshot
Stopping(s) == life[s] \in {"stopping", "stopped"}

Init ==
  /\ links = {} /\ losses = 0 /\ lossy \in BOOLEAN
  /\ life = [s \in Services |-> "new"]
  /\ events = [s \in Services |-> <<>>] /\ callback = [s \in Services |-> "idle"]
  /\ worker = [s \in Services |-> "none"] /\ held = [s \in Services |-> {}]
  /\ reported = {} /\ lines = [s \in Services |-> 0]
  /\ proven = {} /\ client = FALSE

-----------------------------------------------------------------------------
(* The mesh *)

Buffered(queue, snapshot) ==
  Append(IF Len(queue) = MaxEvents THEN Tail(queue) ELSE queue, snapshot)

\* A change of the mesh is an event for every observation of the node.
Change(n, new) ==
  LET now(s) == {m \in Nodes : <<s.node, m>> \in new} IN
  /\ links' = new
  /\ \E lost \in IF lossy THEN BOOLEAN ELSE {FALSE} :
       events' = [s \in Services |->
         IF s.node = n /\ life[s] \in {"observing", "running"} /\ ~lost
         THEN Buffered(events[s], now(s)) ELSE events[s]]
  /\ proven' = proven \cup {s \in Services : life[s] # "new" /\ s.targets \subseteq now(s)}
  /\ UNCHANGED <<lossy, threads, client>>

PeerReady(n, m) ==
  /\ <<n, m>> \notin links
  /\ Change(n, links \cup {<<n, m>>}) /\ UNCHANGED losses

PeerLost(n, m) ==
  /\ <<n, m>> \in links /\ losses < MaxLosses
  /\ losses' = losses + 1
  /\ Change(n, links \ {<<n, m>>})

-----------------------------------------------------------------------------
(* A service *)

\* start, up to the registered observation
Start(s) ==
  /\ life[s] = "new"
  /\ life' = [life EXCEPT ![s] = "observing"]
  /\ proven' = IF s.targets \subseteq View(s) THEN proven \cup {s} ELSE proven
  /\ UNCHANGED <<links, losses, lossy, events, callback, worker, held, reported, lines, client>>

\* start, its rest: the worker's thread, or the one look at the mesh
StartWorker(s) ==
  /\ life[s] = "observing"
  /\ life' = [life EXCEPT ![s] = "running"]
  /\ worker' = [worker EXCEPT ![s] = IF s.polls THEN "looking" ELSE "holding"]
  /\ held' = IF s.polls THEN held ELSE [held EXCEPT ![s] = View(s)]
  /\ UNCHANGED <<links, losses, lossy, events, callback, reported, lines, proven, client>>

\* Mutant: the flag is read and set in two steps of two threads.
MutMayReport(s, snapshot) == Ready(s, snapshot) /\ lines[s] = 0

\* report_if_ready, up to the exchange of the flag
MayReport(s, snapshot) == Ready(s, snapshot) /\ s \notin reported

\* The worker's loop: the flag that stops it, the snapshot, ...
Look(s) ==
  /\ worker[s] = "looking"
  /\ IF Stopping(s)
     THEN worker' = [worker EXCEPT ![s] = "done"] /\ UNCHANGED held
     ELSE worker' = [worker EXCEPT ![s] = "holding"] /\ held' = [held EXCEPT ![s] = View(s)]
  /\ UNCHANGED <<links, losses, lossy, events, life, callback, reported, lines, proven, client>>

\* Mutant: a worker that does not find the peers ends.
MutAgain(s) == FALSE

\* whether it goes round again
Again(s) == s.polls /\ s \notin reported

\* ... the report, and whether it ends.
Report(s) ==
  /\ worker[s] = "holding"
  /\ IF MayReport(s, held[s])
     THEN worker' = [worker EXCEPT ![s] = "printing"] /\ reported' = reported \cup {s}
     ELSE /\ worker' = [worker EXCEPT ![s] = IF Again(s) THEN "looking" ELSE "done"]
          /\ UNCHANGED reported
  /\ UNCHANGED <<links, losses, lossy, events, life, callback, held, lines, proven, client>>

\* The observation's callback, one event after the other
OnObserved(s) ==
  /\ events[s] # <<>> /\ callback[s] = "idle"
  /\ events' = [events EXCEPT ![s] = Tail(@)]
  /\ IF MayReport(s, Head(events[s]))
     THEN callback' = [callback EXCEPT ![s] = "printing"]
          /\ reported' = reported \cup {s}
     ELSE UNCHANGED <<callback, reported>>
  /\ UNCHANGED <<links, losses, lossy, life, worker, held, lines, proven, client>>

\* The line, by the thread that set the flag
PrintLine(s) ==
  /\ \/ /\ worker[s] = "printing"
        /\ worker' = [worker EXCEPT ![s] = "done"] /\ UNCHANGED callback
     \/ /\ callback[s] = "printing"
        /\ callback' = [callback EXCEPT ![s] = "idle"] /\ UNCHANGED worker
  /\ lines' = [lines EXCEPT ![s] = @ + 1]
  /\ UNCHANGED <<links, losses, lossy, events, life, held, reported, proven, client>>

\* request_stop: the flag, and the observation is closed.
RequestStop(s) ==
  /\ life[s] = "running" /\ (s.polls \/ worker[s] = "done")
  /\ Cardinality({t \in Services : Stopping(t)}) < MaxStops
  /\ life' = [life EXCEPT ![s] = "stopping"]
  /\ events' = [events EXCEPT ![s] = <<>>]
  /\ UNCHANGED <<links, losses, lossy, callback, worker, held, reported, lines, proven, client>>

Joined(s) == worker[s] = "done"

\* stop: the worker is joined.
Stop(s) ==
  /\ life[s] = "stopping" /\ Joined(s)
  /\ life' = [life EXCEPT ![s] = "stopped"]
  /\ UNCHANGED <<links, losses, lossy, events, callback, worker, held, reported, lines, proven,
                 client>>

\* run_sample.sh: the client after every line
StartClient ==
  /\ ~client /\ \A s \in Services : lines[s] > 0
  /\ client' = TRUE
  /\ UNCHANGED <<links, losses, lossy, events, threads, proven>>

Next ==
  \/ \E s \in Services : \E m \in s.targets : PeerReady(s.node, m) \/ PeerLost(s.node, m)
  \/ \E s \in Services :
       \/ Start(s) \/ StartWorker(s) \/ Look(s) \/ Report(s) \/ OnObserved(s) \/ PrintLine(s)
       \/ RequestStop(s) \/ Stop(s)
  \/ StartClient

\* The threads of a service run, and the host goes on with stop after request_stop.
Fairness ==
  \A s \in Services : WF_vars(Look(s)) /\ WF_vars(Report(s)) /\ WF_vars(OnObserved(s))
                      /\ WF_vars(PrintLine(s)) /\ WF_vars(Stop(s))

Spec == Init /\ [][Next]_vars /\ Fairness

-----------------------------------------------------------------------------
(* Properties *)

TypeOK ==
  /\ links \subseteq Nodes \X Nodes /\ losses \in 0 .. MaxLosses
  /\ life \in [Services -> {"new", "observing", "running", "stopping", "stopped"}]
  /\ callback \in [Services -> {"idle", "printing"}]
  /\ worker \in [Services -> {"none", "looking", "holding", "printing", "done"}]
  /\ held \in [Services -> SUBSET Nodes] /\ reported \subseteq Services
  /\ \A s \in Services :
       /\ Len(events[s]) <= MaxEvents
       /\ life[s] \in {"new", "observing"} <=> worker[s] = "none"
       /\ life[s] = "stopped" => worker[s] = "done"

AllUp(s) == s.targets \subseteq View(s)

One(b) == IF b THEN 1 ELSE 0

\* Of the lines of a service each is printed or in the hands of one thread.
OneLine(s) ==
  lines[s] + One(callback[s] = "printing") + One(worker[s] = "printing") = One(s \in reported)

\* A service prints its line once, whichever of its threads sees the peers first, and
\* only after all the peers it names were ready at the same time; so the client starts
\* when every route was up, and is up unless a peer was lost since.
LineProven ==
  /\ TypeOK
  /\ \A s \in Services : OneLine(s) /\ (s \in reported => s \in proven)
  /\ client /\ losses = 0 => \A s \in Services : AllUp(s)

\* Peers that stay ready are told of: by the worker even if every event of the mesh is
\* lost, by the observation alone if none is; and the host's stop comes to its end.
ReadyIsTold ==
  \A s \in Services :
    /\ (life[s] = "running" /\ AllUp(s) /\ (s.polls \/ ~lossy)
         ~> lines[s] > 0 \/ Stopping(s) \/ ~AllUp(s))
    /\ (Stopping(s) ~> life[s] = "stopped")

=============================================================================
