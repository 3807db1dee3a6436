--------------------------- MODULE PlannedRelocation ---------------------------
(***************************************************************************)
(* Planned maintenance of a workflow process of ShoppingMall               *)
(* (samples/ShoppingMall/Server/OrderWorkflow/main.cpp): a request writes  *)
(* a plan for an order into the document and creates a fixture Spot; the   *)
(* process that has the fixture relocates its Spots when the fixture is    *)
(* ready; and the fixture, recreated on another process, replays the       *)
(* order's stream and takes the order to its end.                          *)
(*                                                                         *)
(* The framework (external) creates the fixture on any process, moves it   *)
(* when it has signalled that it is ready, and initializes it on another   *)
(* process with the same object generation, again if it has to, until the  *)
(* relocation is over.  A Spot that is created anew has a new generation.  *)
(*                                                                         *)
(* Bounds: MaxRequests relocation requests, MaxFaults faults.              *)
(***************************************************************************)
EXTENDS OrderWorkflow

CONSTANTS Processes, MaxRequests, MaxFaults

ASSUME RelocationAssumption ==
  MaxRequests \in Nat /\ MaxFaults \in Nat /\ None \notin Processes

VARIABLES
  plan,       \* per order: testHooks.plannedRelocation of the document
  active,     \* the orders in testHooks.activeWorkflowSpots
  creating,   \* per order: requests between their update and get_or_create
  fixture,    \* per order: the fixture Spot
  worker,     \* per process: where its relocation thread is, and with which order
  requests, faults,
  generation, \* per order: fixtures created
  replays,    \* history, per order: runs of the workflow by a fixture
  due         \* history: orders whose relocation was asked for once, with no hook and no fault since

relocationVars ==
  <<plan, active, creating, fixture, worker, requests, faults, generation, replays>>

NoPlan == [op |-> "none", source |-> None, generation |-> 0, replayed |-> FALSE]

NoFixture == [at |-> None, phase |-> "none", timer |-> FALSE, ready |-> FALSE, generation |-> 0]

Looking == [pc |-> "looking", order |-> 0]

RelocationInit ==
  /\ Init
  /\ plan = [o \in Orders |-> NoPlan]
  /\ active = {}
  /\ creating = [o \in Orders |-> 0]
  /\ fixture = [o \in Orders |-> NoFixture]
  /\ worker = [n \in Processes |-> Looking]
  /\ requests = [o \in Orders |-> 0] /\ faults = 0
  /\ generation = [o \in Orders |-> 0]
  /\ replays = [o \in Orders |-> 0]
  /\ due = {}

-----------------------------------------------------------------------------
(* The request *)

\* planned_relocation_handler_t::handle, its update.
Plans(o) ==
  /\ lock = Free /\ o \in active /\ requests[o] < MaxRequests
  /\ plan' = [plan EXCEPT ![o] = [NoPlan EXCEPT !.op = "requested"]]
  /\ creating' = [creating EXCEPT ![o] = @ + 1]
  /\ requests' = [requests EXCEPT ![o] = @ + 1]
  /\ UNCHANGED <<vars, active, fixture, worker, faults, generation, replays>>

\* get_or_create: an existing fixture is not initialized again.
CreateFixture(o) ==
  /\ creating[o] > 0
  /\ creating' = [creating EXCEPT ![o] = @ - 1]
  /\ \/ /\ fixture[o].at # None
        /\ UNCHANGED <<fixture, generation>>
     \/ /\ fixture[o].at = None
        /\ generation' = [generation EXCEPT ![o] = @ + 1]
        /\ \E n \in Processes :
             fixture' = [fixture EXCEPT ![o] =
               [NoFixture EXCEPT !.at = n, !.phase = "new", !.generation = generation'[o]]]
  /\ UNCHANGED <<vars, plan, active, worker, requests, faults, replays>>

-----------------------------------------------------------------------------
(* The fixture Spot *)

\* Mutant: that the order was replayed is not looked at.
MutIsTarget(o) ==
  /\ plan[o].generation = fixture[o].generation
  /\ plan[o].source # fixture[o].at

IsSource(o) == plan[o].op # "none" /\ plan[o].generation = 0

\* The fixture is there again, on another process, and nobody has replayed.
IsTarget(o) ==
  /\ plan[o].generation = fixture[o].generation
  /\ plan[o].source # fixture[o].at /\ ~plan[o].replayed

\* on_initialize, its first update: which role does this process have?
Initialize(o) ==
  /\ fixture[o].phase = "new" /\ lock = Free
  /\ \/ /\ IsSource(o)
        /\ plan' = [plan EXCEPT ![o].source = fixture[o].at,
                                ![o].generation = fixture[o].generation]
        /\ fixture' = [fixture EXCEPT ![o].phase = "idle", ![o].timer = TRUE]
     \/ /\ ~IsSource(o) /\ IsTarget(o)
        /\ plan' = [plan EXCEPT ![o].replayed = TRUE]
        /\ fixture' = [fixture EXCEPT ![o].phase = "replay"]
     \/ /\ ~IsSource(o) /\ ~IsTarget(o)
        /\ fixture' = [fixture EXCEPT ![o].phase = "idle"]
        /\ UNCHANGED plan
  /\ UNCHANGED <<vars, active, creating, worker, requests, faults, generation, replays>>

Stops(d, o) ==
  d.events[o] = <<>> \/ Terminal(Status(d.events[o])) \/ StopHookReached(d, o)

Advanced(d, o, cmd) ==
  IF Stops(d, o) THEN d ELSE SaveProjection(NextStep(d, o, cmd), o)

\* run_workflow without a start command: sixteen steps are more than there are,
\* since four lead from the first event of a stream to its last.
Ran(d, o, cmd) ==
  LET next == [e \in Docs |-> Advanced(e, o, cmd)]
  IN  SaveProjection(IF AlreadyApplied(d, o, cmd) THEN d ELSE next[next[next[next[d]]]], o)

\* on_initialize, its second update.
Replay(o) ==
  /\ fixture[o].phase = "replay" /\ lock = Free
  /\ doc' = Ran(doc, o, RelocationCommand)
  /\ fixture' = [fixture EXCEPT ![o].phase = "idle"]
  /\ replays' = [replays EXCEPT ![o] = @ + 1]
  /\ UNCHANGED <<lock, draft, spot, calls, msgs, plan, active, creating, worker, requests, faults,
                 generation>>

\* check_relocation_readiness; while the plan does not say so the timer is set again.
CheckReadiness(o) ==
  /\ fixture[o].timer
  /\ plan[o].source = fixture[o].at /\ plan[o].op = "ready-for-defer"
  /\ fixture' = [fixture EXCEPT ![o].timer = FALSE, ![o].ready = TRUE]
  /\ UNCHANGED <<vars, plan, active, creating, worker, requests, faults, generation, replays>>

-----------------------------------------------------------------------------
(* The relocation thread of a process *)

Goes(n, pc, o) == worker' = [worker EXCEPT ![n] = [pc |-> pc, order |-> o]]

\* planned_relocation_service_t::run finds a plan for its process.
Claim(n, o) ==
  /\ worker[n].pc = "looking" /\ lock = Free
  /\ plan[o].source = n /\ plan[o].op = "requested"
  /\ plan' = [plan EXCEPT ![o].op = "starting"]
  /\ Goes(n, "starting", o)
  /\ UNCHANGED <<vars, active, creating, fixture, requests, faults, generation, replays>>

\* A peer is ready and the process relocates; the plan says it is ready to be moved.
Signal(n) ==
  LET o == worker[n].order IN
  /\ worker[n].pc = "starting" /\ lock = Free
  /\ plan' = [plan EXCEPT ![o].op = "ready-for-defer"]
  /\ Goes(n, "relocating", o)
  /\ UNCHANGED <<vars, active, creating, fixture, requests, faults, generation, replays>>

\* External: the fixture is recreated on another process, which initializes it.
Relocate(o) ==
  LET n == fixture[o].at IN
  /\ fixture[o].ready /\ worker[n].pc = "relocating"
  /\ \E m \in Processes \ {n} :
       fixture' = [fixture EXCEPT ![o].at = m, ![o].phase = "new", ![o].ready = FALSE]
  /\ UNCHANGED <<vars, plan, active, creating, worker, requests, faults, generation, replays>>

\* The thread ends with the result of the relocation, or with its failure.
Ends(n) ==
  LET o == worker[n].order IN
  /\ worker[n].pc = "relocating" /\ fixture[o].at # n /\ fixture[o].phase = "idle"
  /\ Goes(n, "ended", o)
  /\ UNCHANGED <<vars, plan, active, creating, fixture, requests, faults, generation, replays>>

-----------------------------------------------------------------------------
(* Faults *)

Fault == faults < MaxFaults /\ faults' = faults + 1

\* No peer, no readiness in time, or a deadline that passes: the thread ends.
GivesUp(n) ==
  /\ Fault
  /\ worker[n].pc \in {"starting", "relocating"}
  /\ Goes(n, "ended", worker[n].order)
  /\ UNCHANGED <<vars, plan, active, creating, fixture, requests, generation, replays>>

\* External: before the relocation is over the fixture is initialized again somewhere.
InitializedAgain(o) ==
  /\ Fault
  /\ \E n \in Processes : /\ worker[n] = [pc |-> "relocating", order |-> o]
                         /\ fixture[o].at \notin {n, None}
  /\ \E m \in Processes :
       fixture' = [fixture EXCEPT ![o].at = m, ![o].phase = "new", ![o].timer = FALSE]
  /\ UNCHANGED <<vars, plan, active, creating, worker, requests, generation, replays>>

\* The process that has the fixture ends and starts again.
FixtureLost(o) ==
  /\ Fault
  /\ fixture[o].at # None
  /\ fixture' = [fixture EXCEPT ![o] = NoFixture]
  /\ worker' = [worker EXCEPT ![fixture[o].at] = Looking]
  /\ UNCHANGED <<vars, plan, active, creating, requests, generation, replays>>

-----------------------------------------------------------------------------
\* on_initialize of the order's own Spot leaves a mark that nothing removes.
Activates == active' = active \cup {o \in Orders : spot'[o].phase # "closed"}

RelocationStep(o) ==
  \/ CreateFixture(o) \/ Initialize(o) \/ Replay(o) \/ CheckReadiness(o) \/ Relocate(o)

WorkerStep(n) == (\E o \in Orders : Claim(n, o)) \/ Signal(n) \/ Ends(n)

RelocationFault ==
  \/ \E n \in Processes : GivesUp(n)
  \/ \E o \in Orders : InitializedAgain(o) \/ FixtureLost(o)

\* What is due: a first request with no hook; a hook, a fault or another request ends that.
Due ==
  due' = IF faults' # faults THEN {}
         ELSE {o \in Orders \ doc'.stopAt :
                 \/ requests[o] = 0 /\ requests'[o] = 1
                 \/ o \in due /\ requests'[o] = requests[o]}

\* A step of OrderWorkflow.
OnlyOrders ==
  /\ Activates
  /\ UNCHANGED <<plan, creating, fixture, worker, requests, faults, generation, replays>>

RelocationNext ==
  /\ \/ Normal /\ OnlyOrders
     \/ \E o \in Orders : Plans(o) \/ RelocationStep(o)
     \/ \E n \in Processes : WorkerStep(n)
     \/ RelocationFault
  /\ Due

\* The processes keep polling: timers, queues and handlers, the framework its
\* relocation, each process its thread.  Every chain of these steps is finite, so
\* it is enough that something is done while something can be.
Progress ==
  /\ \/ /\ \/ \E c \in Calls : ApiStep(c)
           \/ \E o \in Orders : SpotStep(o)
           \/ \E m \in msgs : TakeRequest(m)
        /\ OnlyOrders
     \/ \E o \in Orders : RelocationStep(o)
     \/ \E n \in Processes : WorkerStep(n)
  /\ Due

RelocationFairness == WF_<<vars, relocationVars, due>>(Progress)

RelocationSpec ==
  RelocationInit /\ [][RelocationNext]_<<vars, relocationVars, due>> /\ RelocationFairness

-----------------------------------------------------------------------------
(* Properties *)

\* A relocation that was asked for once replays the order at most once, however
\* often the fixture is created and initialized, and never on the process that
\* was to be relieved of it.
ReplayedOnce ==
  \A o \in Orders :
    /\ replays[o] <= requests[o]
    /\ fixture[o].phase = "replay" /\ requests[o] = 1 => fixture[o].at # plan[o].source

\* The relocated fixture finishes the order itself: the order of a relocation that
\* nothing disturbs ends although nobody continues it.
RelocatedOrdersEnd ==
  \A o \in Orders :
    (o \in due /\ doc.events[o] # <<>>) ~> (o \notin due \/ Terminal(Status(doc.events[o])))

\* Orders end: one that no hook ever holds, and one that was held and is relocated.
EveryOrderEnds == OrdersEnd /\ RelocatedOrdersEnd
=============================================================================
