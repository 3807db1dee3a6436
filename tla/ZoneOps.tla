-------------------------------- MODULE ZoneOps --------------------------------
(***************************************************************************)
(* ZoneWorld's operations (samples/ZoneWorld/Server): the Ops process, its *)
(* consoles, the desired maintenance state in Redis, and the two ways that *)
(* state reaches a zone node -- a request of Ops and an event fanned out   *)
(* after it -- with the nodes' status reports and the view Ops keeps.      *)
(*                                                                         *)
(* Requests and reports are separate links; the fan-out delivers to a node *)
(* in the order it was published.  A node that stops loses what was on its *)
(* way; one that starts reads Redis before it can be reached.              *)
(*                                                                         *)
(* Bounds: MaxSettings maintenance requests, MaxReports status reports,    *)
(* MaxRestarts starts of a node beyond the first.                          *)
(***************************************************************************)
EXTENDS Naturals, Sequences, FiniteSets, SequencesExt

CONSTANTS Nodes, Consoles, MaxSettings, MaxReports, MaxRestarts, None

ASSUME OpsAssumption ==
  /\ IsFiniteSet(Nodes) /\ None \notin Nodes /\ Nodes \cap Consoles = {}
  /\ MaxSettings \in Nat /\ MaxReports \in Nat /\ MaxRestarts \in Nat

VARIABLES
  store,      \* Redis: the desired maintenance state
  process,    \* each node: "down", "starting" or "ready"
  life,       \* the incarnation of a node, its routing id
  flag,       \* node_state_t::maintenance
  fan,        \* maintenance events on their way to each node
  setting,    \* the maintenance request each console waits for
  settings,   \* requests so far
  unsure,     \* history: requests for the node overlapped or failed
  reports,    \* status reports on their way to Ops
  reported,   \* reports so far
  view,       \* ops_state_t: what Ops knows of a node
  live,       \* _live_rids
  hand,       \* what the two threads that watch the nodes have still to queue
  queue,      \* ops_notification_queue_t
  telling,    \* what the handlers of a node's report and of a console have to publish
  seen,       \* what each console was told of a node last
  overtaken   \* history: the loss of the node was told before an earlier notification

maintenanceVars == <<store, process, life, flag, fan, setting, settings, unsure>>
viewVars == <<reports, reported, view, live, hand, queue, telling, seen, overtaken>>
opsVars == <<maintenanceVars, viewVars>>

Watchers == {"observer", "worker"}
Tellers == Nodes \cup Consoles

NoSetting == [step |-> "none", node |-> None, on |-> FALSE]
Unknown == [registered |-> FALSE, connected |-> FALSE, on |-> FALSE, life |-> 0]

OpsInit ==
  /\ store = [n \in Nodes |-> FALSE]
  /\ process = [n \in Nodes |-> "ready"]
  /\ life = [n \in Nodes |-> 1]
  /\ flag = [n \in Nodes |-> FALSE]
  /\ fan = [n \in Nodes |-> <<>>]
  /\ setting = [c \in Consoles |-> NoSetting]
  /\ settings = 0
  /\ unsure = [n \in Nodes |-> FALSE]
  /\ reports = [n \in Nodes |-> <<>>]
  /\ reported = 0
  /\ view = [n \in Nodes |-> Unknown]
  /\ live = {}
  /\ queue = <<>>
  /\ hand = [w \in Watchers |-> <<>>]
  /\ telling = [h \in Tellers |-> <<>>]
  /\ seen = [c \in Consoles |-> [n \in Nodes |-> Unknown]]
  /\ overtaken = [n \in Nodes |-> FALSE]

-----------------------------------------------------------------------------
(* SetMaintenanceReq: write Redis, ask the node, publish, update the view *)

Waits(c, step) == setting[c].step = step

Note(n, v) == [node |-> n, view |-> v]

Overlaps(c, n) == \E d \in Consoles \ {c} : setting[d].node = n /\ ~Waits(d, "none")

\* Mutant: Redis is written only when the node has applied the state.
MutWrite(c, n, on) ==
  /\ Waits(c, "none") /\ telling[c] = <<>> /\ settings < MaxSettings
  /\ settings' = settings + 1
  /\ store' = [store EXCEPT ![n] = IF process[n] = "ready" THEN on ELSE @]
  /\ setting' = [setting EXCEPT ![c] = [step |-> "asking", node |-> n, on |-> on]]
  /\ unsure' = [unsure EXCEPT ![n] = @ \/ Overlaps(c, n)]
  /\ UNCHANGED <<process, life, flag, fan, viewVars>>

\* maintenance_store_t::write
Write(c, n, on) ==
  /\ Waits(c, "none") /\ telling[c] = <<>> /\ settings < MaxSettings
  /\ settings' = settings + 1
  /\ store' = [store EXCEPT ![n] = on]
  /\ setting' = [setting EXCEPT ![c] = [step |-> "asking", node |-> n, on |-> on]]
  /\ unsure' = [unsure EXCEPT ![n] = @ \/ Overlaps(c, n)]
  /\ UNCHANGED <<process, life, flag, fan, viewVars>>

\* apply_maintenance_handler_t
NodeApplies(c) ==
  LET n == setting[c].node IN
  /\ Waits(c, "asking") /\ process[n] = "ready"
  /\ flag' = [flag EXCEPT ![n] = setting[c].on]
  /\ setting' = [setting EXCEPT ![c].step = "applied"]
  /\ UNCHANGED <<store, process, life, fan, settings, unsure, viewVars>>

\* The node cannot be reached, or the request, its reply or the event is lost.
NodeUnavailable(c) ==
  LET n == setting[c].node IN
  /\ Waits(c, "asking") \/ Waits(c, "applied")
  /\ setting' = [setting EXCEPT ![c] = NoSetting]
  /\ unsure' = [unsure EXCEPT ![n] = @ \/ process[n] # "down"]
  /\ UNCHANGED <<store, process, life, flag, fan, settings, viewVars>>

\* The event is fanned out to the nodes; the one it names keeps it.
Publish(c) ==
  LET n == setting[c].node IN
  /\ Waits(c, "applied")
  /\ fan' = IF process[n] = "ready" THEN [fan EXCEPT ![n] = Append(@, setting[c].on)] ELSE fan
  /\ setting' = [setting EXCEPT ![c].step = "published"]
  /\ UNCHANGED <<store, process, life, flag, settings, unsure, viewVars>>

\* set_maintenance, and the notification it returns.
Finish(c) ==
  LET n == setting[c].node
      new == [view[n] EXCEPT !.on = setting[c].on]
  IN
  /\ Waits(c, "published")
  /\ IF view[n].life > 0
     THEN view' = [view EXCEPT ![n] = new] /\ telling' = [telling EXCEPT ![c] = <<Note(n, new)>>]
     ELSE UNCHANGED <<view, telling>>
  /\ setting' = [setting EXCEPT ![c] = NoSetting]
  /\ UNCHANGED <<store, process, life, flag, fan, settings, unsure, reports, reported, live,
                 hand, queue, seen, overtaken>>

\* maintenance_fanout_handler_t
FanOut(n) ==
  /\ process[n] = "ready" /\ fan[n] # <<>>
  /\ flag' = [flag EXCEPT ![n] = Head(fan[n])]
  /\ fan' = [fan EXCEPT ![n] = Tail(@)]
  /\ UNCHANGED <<store, process, life, setting, settings, unsure, viewVars>>

MaintenanceStep ==
  \/ \E c \in Consoles :
       \/ \E n \in Nodes, on \in BOOLEAN : Write(c, n, on)
       \/ NodeApplies(c) \/ NodeUnavailable(c) \/ Publish(c) \/ Finish(c)
  \/ \E n \in Nodes : FanOut(n)

-----------------------------------------------------------------------------
(* The node process *)

Stop(n) ==
  /\ process[n] # "down" /\ life[n] <= MaxRestarts
  /\ process' = [process EXCEPT ![n] = "down"]
  /\ fan' = [fan EXCEPT ![n] = <<>>]
  /\ UNCHANGED <<store, life, flag, setting, settings, unsure, viewVars>>

\* main reads the desired state before the node joins the mesh.
Start(n) ==
  /\ process[n] = "down"
  /\ process' = [process EXCEPT ![n] = "starting"]
  /\ life' = [life EXCEPT ![n] = @ + 1]
  /\ flag' = [flag EXCEPT ![n] = store[n]]
  /\ UNCHANGED <<store, fan, setting, settings, unsure, viewVars>>

Ready(n) ==
  /\ process[n] = "starting"
  /\ process' = [process EXCEPT ![n] = "ready"]
  /\ UNCHANGED <<store, life, flag, fan, setting, settings, unsure, viewVars>>

\* node_report_service_t::report_now
Report(n) ==
  /\ process[n] = "ready" /\ reported < MaxReports
  /\ reports' = [reports EXCEPT ![n] = Append(@, [life |-> life[n], on |-> flag[n]])]
  /\ reported' = reported + 1
  /\ UNCHANGED <<maintenanceVars, view, live, hand, queue, telling, seen, overtaken>>

-----------------------------------------------------------------------------
(* What Ops knows, and tells its consoles *)

Losses(n, notes) == {told \in notes : told.node = n /\ ~told.view.registered}

\* Notifications that are noticed, queued or in the hands of a handler.
Waiting ==
  Range(queue) \cup (UNION {Range(hand[w]) : w \in Watchers})
               \cup (UNION {Range(telling[h]) : h \in Tellers})

\* report_node_status_handler_t takes the pending notifications with the report
\* and then publishes them one at a time.
Reported(n) ==
  /\ reports[n] # <<>> /\ telling[n] = <<>>
  /\ LET r == Head(reports[n])
         v == [registered |-> TRUE, connected |-> <<n, r.life>> \in live,
               on |-> r.on, life |-> r.life]
     IN  /\ view' = [view EXCEPT ![n] = v]
         /\ telling' = [telling EXCEPT ![n] = Append(queue, Note(n, v))]
  /\ queue' = <<>>
  /\ reports' = [reports EXCEPT ![n] = Tail(@)]
  /\ overtaken' = [overtaken EXCEPT ![n] = FALSE]
  /\ UNCHANGED <<maintenanceVars, reported, live, hand, seen>>

\* ops_console_registry_t::publish
Tell(h) ==
  /\ telling[h] # <<>>
  /\ UNCHANGED <<maintenanceVars, reports, reported, view, live, hand, queue>>
  /\ LET told == Head(telling[h])  n == told.node IN
     /\ telling' = [telling EXCEPT ![h] = Tail(@)]
     /\ seen' = [c \in Consoles |-> [seen[c] EXCEPT ![n] = told.view]]
     /\ overtaken' = [overtaken EXCEPT ![n] = @ \/
          (~told.view.registered /\ \E late \in Waiting' : late.node = n /\ late.view.registered)]

\* WatchNodesReq
Watch(c) ==
  /\ seen[c] # view
  /\ seen' = [seen EXCEPT ![c] = view]
  /\ UNCHANGED <<maintenanceVars, reports, reported, view, live, hand, queue, telling, overtaken>>

Links == {<<n, life[n]>> : n \in {m \in Nodes : process[m] = "ready"}}

\* Mutant: what a thread queues replaces what was queued before.
MutPush(w) ==
  /\ hand[w] # <<>>
  /\ queue' = hand[w]
  /\ hand' = [hand EXCEPT ![w] = <<>>]
  /\ UNCHANGED <<maintenanceVars, reports, reported, view, live, telling, seen, overtaken>>

\* A thread queues what it noticed, after it gave the state's lock back.
Push(w) ==
  /\ hand[w] # <<>>
  /\ queue' = queue \o hand[w]
  /\ hand' = [hand EXCEPT ![w] = <<>>]
  /\ UNCHANGED <<maintenanceVars, reports, reported, view, live, telling, seen, overtaken>>

Linked(n) == <<n, view[n].life>> \in Links
Relinked(n) == [view[n] EXCEPT !.connected = Linked(n)]
Changed == {n \in Nodes : view[n].life > 0 /\ Linked(n) # view[n].connected}

\* apply_live_rids, on a snapshot of the mesh's peers.
Peers ==
  /\ live # Links /\ hand["observer"] = <<>>
  /\ live' = Links
  /\ view' = [n \in Nodes |-> IF n \in Changed THEN Relinked(n) ELSE view[n]]
  /\ hand' = [hand EXCEPT !["observer"] = SetToSeq({Note(n, Relinked(n)) : n \in Changed})]
  /\ UNCHANGED <<maintenanceVars, reports, reported, queue, telling, seen, overtaken>>

\* expire_reports: a node that was not heard for the report's time to live, be it
\* gone or only late; that time outlasts the handler of its last report.
Expire(n) ==
  /\ view[n].registered /\ telling[n] = <<>> /\ hand["worker"] = <<>>
  /\ LET v == [view[n] EXCEPT !.registered = FALSE] IN
     /\ view' = [view EXCEPT ![n] = v]
     /\ hand' = [hand EXCEPT !["worker"] = <<Note(n, v)>>]
  /\ UNCHANGED <<maintenanceVars, reports, reported, live, queue, telling, seen, overtaken>>

OpsNext ==
  \/ MaintenanceStep
  \/ Peers
  \/ \E w \in Watchers : Push(w)
  \/ \E n \in Nodes :
       Stop(n) \/ Start(n) \/ Ready(n) \/ Report(n) \/ Reported(n) \/ Expire(n)
  \/ \E h \in Tellers : Tell(h)
  \/ \E c \in Consoles : Watch(c)

OpsSpec == OpsInit /\ [][OpsNext]_opsVars

-----------------------------------------------------------------------------
(* Properties *)

OpsTypeOK ==
  /\ store \in [Nodes -> BOOLEAN] /\ flag \in [Nodes -> BOOLEAN]
  /\ process \in [Nodes -> {"down", "starting", "ready"}]
  /\ \A c \in Consoles : setting[c].step = "none" <=> setting[c].node = None
  /\ \A n \in Nodes : process[n] # "ready" => fan[n] = <<>>

Quiet(n) == fan[n] = <<>> /\ \A c \in Consoles : setting[c].node # n

\* Two paths and a restart carry the desired state to a node: once nothing is on
\* its way, a node that can be reached is in the state Redis keeps, unless two
\* consoles set it at once or a request failed while the node was not down.
MaintenanceSettles ==
  OpsTypeOK /\ \A n \in Nodes :
    process[n] = "ready" /\ Quiet(n) /\ ~unsure[n] => flag[n] = store[n]

\* What Ops noticed of a node that is gone is not forgotten: as long as a console
\* believes in the node, word of the loss waits with a thread, in the queue or with a
\* handler -- unless it was told ahead of an older notification about the node, which
\* then stays with the console.
LossIsTold ==
  \A n \in Nodes, c \in Consoles :
    ~view[n].registered /\ seen[c][n].registered /\ ~overtaken[n] => Losses(n, Waiting) # {}

=============================================================================
