# TLA+ models of the zlink C++ samples

The repository holds seven multi-process sample systems written against the
zlink framework (`samples/`), a tutorial and a quickstart. The framework itself
is a prebuilt library: what it does is modelled only from how the samples use
it (`external` in the map). This directory holds TLA+ models of the samples' server logic, the TLC runs
that check them on small instances, and TLAPS proofs of the results that should
hold for every instance.

Run the tools in this directory: `tlc -workers 2 -config X.cfg M` checks a run
of the table in section 4, `tlapm MProofs.tla` checks the proofs of a module.

## 1. Inventory

### 1.1 The framework, as the samples use it

* **Spots** are single-threaded objects: one handler at a time
  (`tutorial/Server/spots/match_queue.hpp:32`). A handler that uses `.yield`
  lets other handlers of the Spot run until its answer is there; one that uses
  `.async` in a sweeper thread or coroutine has no such protection.
* **Instance Spots** come into being with their first message and may be closed
  and recreated, possibly on another process. **Entry Spots** own the actors
  that belong to no room.
* **Actors** move between Spots by *deferred joins*: the target admits
  (`on_actor_join`), later hears of the arrival (`on_actor_joined`), and the
  actor hears of the end (`on_join_completed`), a message that may be repeated.
* **Sessions** are client connections bound to actors; **channels** carry
  requests (with timeouts) and one-way messages (which may be lost).

### 1.2 Components

| System and part | State it keeps | Operations | Hard behaviour | What makes it correct |
|---|---|---|---|---|
| **ShoppingMall** document store (`Common/store.hpp`) | one JSON document in Redis; a lock key with a 30 s lease | update (lock, load, change, save, unlock), read | crashes between the steps, failed unlocks, a holder slower than its lease | updates look like atomic read-modify-writes |
| ShoppingMall order workflow (`CommerceApi`, `OrderWorkflow`, `Common/workflow_logic.hpp`) | in the document: idempotency map, event streams, read models, reservations, payments, releases, inventory, stop hooks; per order an Instance Spot with a timer; per HTTP request a coroutine | start, continue, rebuild, delete the projection, create pending, prepare; the saga's steps; scheduled continuation; planned relocation | a crash between any two steps, lost replies and repeated starts, several processes on one document | streams are runs of the saga; effects and read model agree with them; one order per key; started orders end |
| **DeliveryDispatch** worker (`Dispatch/main.cpp`) | offer table, queues filled by handlers, coroutines | create, admit assignment or decision, sweep, publish, offer, close | decisions race expiries; coroutines overlap sweeps; exceptions are swallowed | a delivery goes to the courier that accepted the offer that is open; one coroutine per delivery; it ends |
| DeliveryDispatch couriers, tracking (`CourierActorNode`, `CourierSession`, `Tracking`) | last attempt per courier and delivery; a status log | notify an offer, relay a decision, append a status | one-way messages lost or late | statuses follow the delivery's course; the server's self-check passes |
| DeliveryDispatch customer gateway (`CustomerGateway`) | subscriptions per customer actor | subscribe, push, unsubscribe on disconnect | a newer session's subscriptions dropped by an older one's end | a subscriber gets each later status |
| **TicTacToe** match (`tictactoe_match.hpp`) | board, seats, turn deadline, outcome | join, place, tick, leave | timeout against the last move | turns alternate, the outcome fits the board, and it is final |
| TicTacToe room and actors (`Play/Infrastructure`) | admissions, members, win counts; per actor pending rooms and processed operations | authenticate, join, place, tick, leave, destroy, relocate | admission and arrival are two events; repeated completions | players keep their seats; failures name the right room; leavers are destroyed |
| **SupportChat** assignment (`agent_assignment_service.hpp`) | available agents in order, counts, reservations | set available or not, assign, release | counts beside reservations, agents that come and go | counts agree, nobody is overbooked |
| SupportChat conversations (`Support/main.cpp`, `conversation.hpp`) | conversation status, people, deadlines; pending joins | open, join, assign, message, close, timer | reservation at admission, assignment at arrival, close against the timer | open conversations hold their reservations, closed ones none; idle ones are closed |
| **Bingo** matchmaking (`redis_bingo_match_reservation_store.hpp`) | per level and mode the current room and who reserved a seat | reserve (one Lua script) | seats are never given back; a finished room may be handed out again | at most two actors per room; the same actor gets the same room while it is current |
| Bingo room (`BingoRoomSpot`, `Domain/Bingo`) | players, cards, draws, winners; members, observers, pending joins | admit, arrive, submit card, draw, leave, observe | joins and leaves yield in the middle; the timer runs in between; observers arrive after the end | a full round is drawn once, every result is reported once, the reward is announced once per observer, the room closes |
| **GameQuest** missions (`QuestMission/main.cpp`) | per process: quest streams and projections of players | apply event, sync, rebuild, delete, close | repeated events, reconciliation with the API's count while events are under way, an owner recreated elsewhere | an event counts once, a reward is granted once, the projection is the fold of the stream |
| GameQuest API (`GameApi/main.cpp`) | sessions' bindings, projections shown, events recorded | kill, collect, enter, sync, notify | one-way events, two API processes | what is shown is a projection of the owner's stream |
| **ZoneWorld** zones and actors (`ZoneNode/main.cpp`) | players per zone, pending entries, border events; per actor position, pending zone change | enter, move, change zone (with relocation), tick, border event, maintenance | deferred zone changes against further moves; events of neighbours expire | an actor is in one zone, its own idea of it included; rejected moves leave it where it was |
| ZoneWorld Ops (`Ops/main.cpp`, `maintenance_store.hpp`) | desired maintenance in Redis, view of nodes, consoles | set maintenance, announce, node reports, peers, expiry | request and fan-out both write the node's flag | flag, store and view converge |
| ZoneWorld claims and gateway (`ZoneNode/main.cpp`, `Gateway/main.cpp`) | which node has which zone, a node's passes and attempts | ask for zones in turn, be given one, print ready, bring in the bots, die | passes of the nodes and of the gateway run into each other; a zone of a dead node stays claimed for a while | every node gets its share and says that it is ready |
| **Readiness** of all servers (`host_support.hpp`, `*_readiness*`) | links of the mesh, per service two threads and the line | observe, poll, print, stop | the callback's thread and the worker may both see the peers, or neither | each line is printed once and is true, and it is printed in the end |
| **Client scenarios** (`*_client_scenario.hpp`) | the script's position, what each stream has received | send, wait, expect, disconnect and come again | every interleaving of the servers between two steps of the script | the script never fails and never waits in vain |
| tutorial, quickstart | a queue, a room | the steps of the book | none beyond the framework's | not modelled |

The parts interact by one-way sends, request/reply routes, actors moving
between Spots, sessions bound to actors, and Redis documents. No part of one
sample talks to another sample.

## 2. Plan: what is done, what is left

The order was: the systems with durable state first (ShoppingMall,
DeliveryDispatch), then those with actors that move (TicTacToe, SupportChat,
GameQuest, ZoneWorld, Bingo), then the client scripts played against the servers,
and the proofs along the way. All of that is done except:

1. The composition of Bingo's and ShoppingMall's client scripts with their
   servers (their calls are the environment of the models as they are).
2. Bingo's room that says it is ready to be relocated.

How the modules build on each other (`A <- B`: B extends A; the module of
proofs of each sample extends all of it that is proved about):

```
OrderStream <- OrderWorkflow <- PlannedRelocation
OrderSaga   <~ OrderWorkflow                               (<~ refinement)
AtomicStore <~ LeasedStore
               PlannedRelocation, LeasedStore <- OrderWorkflowProofs
DeliveryDispatch <- CustomerGateway <- DeliveryDispatchProofs
TicTacToeMatch <- TicTacToeRoom <- TicTacToeScenario <- TicTacToeRoomProofs
AgentAssignment <- SupportChat <- SupportSessions <- SupportScenario <- SupportChatProofs
QuestStream <- GameQuest <- GameQuestScenario <- GameQuestProofs
ZoneOps <- ZoneWorld <- ZoneClaims,  ZoneBorder
               ZoneClaims, ZoneBorder <- ZoneWorldProofs
BingoGame <- Bingo <- BingoProofs
Readiness <- ReadinessProofs
```

Modules are written to be proved about: parameters are constants with named
assumptions, invariants are conjunctions of named parts, one action stands for
one handler, and no module declares a RECURSIVE operator.

## 3. What is modelled

### ShoppingMall document store: `AtomicStore`, `LeasedStore`

`redis_state_store_t::update` (`store.hpp:36`) is `BeginUpdate`, `Acquire`, `Load`,
`Save`, `Unlock` of a writer; the SET of the lock with NX and a 30 s lease is the guard and
effect of `Acquire`, `Expire` is Redis dropping the lease, `WriterCrash` a process
ending anywhere, `UpdateThrows` an exception in the callback, and a failed
unlock leaves the lease to expire. `saved` is the sequence of updates in the
document, `copy` what a process loaded. The lease may run out under a live holder
too, which then is `Late`: the SET of the document (`store.hpp:159`) does not look
at the lease, so it may write over its successor's update, and the successor over
its. `exposed` is a history variable: the updates under way that had a late one
beside them. `AtomicStore` is the promise: an update is one append to what all
earlier updates left, unless it is exposed; and an update that begins when no late
one is under way is not. `LeasedStore` implements it with `applied <- saved`.

### ShoppingMall order workflow: `OrderStream`, `OrderSaga`, `OrderWorkflow`, `PlannedRelocation`

`OrderStream` defines documents and what the code does to one: `Status` is the
fold of a stream (`workflow_logic.hpp:93`), `Projection` the read model,
`NextStep` one `advance_once` with its reservation, payment or release,
`AlreadyApplied` the check for a repeated command. `OrderWorkflow` runs them:

| Action | Code |
|---|---|
| `StartOrder`, `PlanPrepared`, `PollFound`, `PollExhausted`, `SendStart` | `start_order`: the key is mapped to an order and marked started in one update, then polled, and sent if no read model appears |
| `Prepare`, `CreatePending`, `Forward`, `WatchReached` | the other HTTP handlers |
| `Abandon` | a request or watch that times out; the owner goes on |
| `TakeRequest`, `TakeTimer` | an owner takes a message or its scheduled continuation |
| `AcquireLock`, `LockTimeout`, `Advance`, `Commit`, `RebuildRefused`, `Finish` | one `update` of the owner: the loop of `run_workflow` works on the copy (`draft`), which is saved in one step; then timers are set and a finished owner closes |
| `Crash` | the owner goes, with its timer and its lock after the lease |
| `DeleteProjection` | the projection is deleted |

The document lock is taken as exclusive, which `LeasedStore` is proved to be as
long as nobody is late, with the 10 s wait as `LockTimeout`. HTTP handlers make one
update each, so they are single steps.

`OrderSaga` is what all this promises, with none of it: a key places one order
(`Place`); an order goes one of three courses, `Sold`, `Refused` (reserved, not
paid, released) or `NoStock`, chosen by the stock there is when it is reserved and
by its payment method (`Goes`); it has its lines from the reservation to the release
(`Has`); while a hook holds it it is not charged (`Advance`). `OrderWorkflow`
implements it with `history <- ` the event types of the saved streams, `request <- `
what their first events say, `stock <- doc.inventory`, `held <- doc.stopAt`: the
`Commit` of an owner is one `Place` or one `Advance` by any number of events, the
API's updates are `Hold`, `LetGo` or nothing, and so is all else.

`PlannedRelocation` adds the maintenance of a workflow process: `Plans` and
`CreateFixture` are the request, `CheckReadiness` the fixture's timer, `Claim`,
`Signal`, `Relocate`, `Ends` and `GivesUp` the relocation thread of a process,
`Initialize` and `Replay` the fixture on its new process, `InitializedAgain` and
`FixtureLost` what the framework may do to it in between.

### DeliveryDispatch: `DeliveryDispatch`, `CustomerGateway`

Handlers only fill queues (`AdmitAssign`, `AdmitResult`). The sweeper thread
takes them (`TakePending`), starts a coroutine per assignment
(`StartAssignment`), applies decisions (`SettleDecision`) and expires offers
(`ExpireOffers`). A coroutine is a record in `tasks`: the status it is
publishing is its position, `Track` is Tracking's handler, `PublishNext`,
`RecordOffer`, `SendOffer` and `Close` what follows. Coroutines are not held by
the sweeper's lock, so they interleave with later sweeps. `PublishFails`,
`OfferFails`, `LoseAssign`, `LoseResult`, `LoseOffer` are the lost messages and
swallowed exceptions. A courier's client answers any notification at any time
(`Decide`); the actor adds the attempt it saw last.

`CustomerGateway` adds the sessions of the customer: `Subscribe`, `Bind`,
`Relay` and `Register` are the parts of one packet between its awaits, of which
each may fail (`SubscribeFails`) or find the stream disconnected,
`TrackAndTell` is `Track` with its one-way message to the customer's actor,
`StatusUpdated` the push, `LoseUpdate` the loss of the message.

### TicTacToe: `TicTacToeMatch`, `TicTacToeRoom`, `TicTacToeScenario`

`TicTacToeMatch` has one function per method of `tictactoe_match_t`; the
deadline is none, armed or due. `TicTacToeRoom` is the room's Spot, the Entry
Spot and the actors: `JoinGame` (a deferred join, of which an actor may ask for
several before any is over), `Admit`, `Arrive`, `JoinFails` at any point before the
arrival, `JoinCompleted` (each end reported in its turn, and any of them again at any
time, in the process the actor was carried to as well), `PlaceMark`, `GameTick`,
`LeaveGame`, `Leave`, `Destroy`. The framework carries the waiting joins of an actor
out one at a time, in their order, also when the first of them has brought it into
the room; what waits is `asked`, what ended `over`, what the actor was told of
`reported`, and the actor's own queue of rooms is beside them, with nothing that ties
it to them but the order. Two actors may be admitted before either arrives. The
`disconnected` mark is left out: nothing reads it, and a disconnected player is
one that does nothing more.

`TicTacToeScenario` adds what is pushed to the bound streams, the observers of
milestones, and the client's script: X and O play X's last win before the
milestone, a Watcher is told, X reconnects, both leave. The script is data
(`Script`), `Act` takes its next step.

### SupportChat: `AgentAssignment`, `SupportChat`, `SupportSessions`, `SupportScenario`

`AgentAssignment` is `agent_assignment_service_t` with its directory:
`available` and `order` are the directory's agents and the order in which they
are asked, `active` their counts, `reserved` the reservations; each method is
one action, since all run under the service's mutex.
`SupportChat` extends it with `conversation_t` and its Spot. The reservation is
made at the customer's admission (`CustomerAdmitted`), the assignment at its
arrival (`CustomerArrives`), and everything else may happen in between. Joins
may be given up at any point (`CustomerLost`, `AgentRefused`) and asked for again.
`SupportSessions` adds the session server and the notices: which stream an actor
is bound to, `Push` (what reaches a bound stream, what is lost), and, in `known`,
what each client has heard. A reconnected agent has one actor per room to bind
again. `SupportScenario` is the client's script over it.

### GameQuest: `QuestStream`, `GameQuest`, `GameQuestScenario`

`QuestStream` has the rule of a fact, what it appends, and the replay.
`GameQuest` has the API's sessions (`Join`, `Sync`, `Play`, `Disconnect`, the
administrator's requests), the owner Spot's handlers (`Apply`, `Reconcile`,
`Maintain`, `Close`), each with the whole chain store, cache, return, complete,
notify, and activation, a mission process that dies, and the expiry of an owner
it had. `GameQuestScenario` is the client's script.

### ZoneWorld: `ZoneOps`, `ZoneWorld`, `ZoneBorder`, `ZoneClaims`

`ZoneOps` has the maintenance of the nodes: `Write` to Redis, the request
(`NodeApplies`, `NodeUnavailable`), `Publish` and `FanOut`, and a node that reads
Redis as it starts; and Ops' view: `Report`, `Reported`, `Expire` (of a node that is
gone, or only late), `Peers`, the
queue of notifications and the handler that happens to tell them (`Tell`,
`Push`). `ZoneWorld` has the players: moves that their own actor checks, deferred
joins (admission, arrival and leave in either order, completion, repeated
completion, failure at any point), the admission under maintenance, and an
announcement's way to every human. `ZoneBorder` is the exchange of border events.
`ZoneClaims` is how zones come to nodes: each node's passes with their attempts, a
claim that fails (`Unavailable`) or whose error ends the pass (`Throws`),
the gateway's bootstrap, ready lines, a node that dies, a spare, and Ops'
answer of a pair of adjacent zones.

### Bingo: `BingoGame`, `Bingo`

`BingoGame` has cards, draws and winners as functions. `Bingo` has the matchmaker's
script (`Reserve`), the API's match, the room's admission, arrival (`OnActorJoined`
yields for the record, `Resume` looks again, `FetchFails` leaves the actor in the room
without a seat), cards, draws (`DrawTick`), the
clean-up that awaits one report per player (`ReportResult`, `Left`, `Closed`), and
an observer's subscription, snapshot and events. `OnRewardAcquired` is the observer's
handler, which drops what comes before it has joined, and remembers of a reward
only the draw it fell on: should the next game of a room that was made again
end on the same draw, its reward is taken for the one already announced
(`Swallowed`). Cards and the draw order decide whether that happens, and no comment
of the code says that it may not; `FinishedOnce` allows it by name.

### Readiness of the servers: `Readiness`

One record per hosted service (`ApiSpotRoute`, `PlayPeerRoute`, `RouteMesh` and
the other classes of the samples), the mesh's links, each service's buffer of
events, and its two threads: `OnObserved` and `Look` with `Report`, which
meet in `PrintLine`; `RequestStop`, `Stop`, and `StartClient` of the runner.

## 4. Runs

Every passing run checks all properties in one instance. Where an instance has
several parts, a variable `focus` (or its like) is chosen in the initial state and
a behaviour exercises one part: the parts share the definitions, not the state
space.

| Run | Instance | What it shows |
|---|---|---|
| `OrderWorkflow` | 2 keys, 2 HTTP requests of any kind, one unit of stock, both payment outcomes, any crash and timeout | `StreamsLegal`: streams are runs of the saga; `EffectsMatchStream`: effects are exactly those recorded; `ReadModelFresh`; `OneSalePerKey`: a key has one order, whose start is applied once, stock is conserved; `SagaSpec`: it implements `OrderSaga` |
| `OrderWorkflow_live` | 1 key; two calls without failures, or one call, two relocation requests and one fault | `EveryOrderEnds`; `ReplayedOnce`: a relocation replays the order at most once, and never on the process to be relieved |
| `OrderWorkflow_reply` | 1 key, 3 requests | *violated* `StartReplyIsStarted`, see below |
| `LeasedStore` | 3 processes, 2 updates each, any lease may run out at any time | `SerializedUpdates`: it implements `AtomicStore` through slow holders, crashes, exceptions and failed unlocks |
| `DeliveryDispatch` | one delivery with every loss, two without, and one with the customer's two sessions | `CourseLegal`: the log is a course and the self-check reads it right; `DrivenOnce`: one driver, and only the offered courier accepts; `SubscriberIsTold`; `DeliveriesEnd` |
| `DeliveryDispatch_lost` | one delivery | *violated* `SettledIsFollowedUp`, see below |
| `TicTacToeRoom` | 3 players, overlapping admissions, one rejoin; up to 3 joins of an actor waiting, failing, repeated, carried along; every game of two players on a small board; a player in its second life; the client's script | `GameIsFair`: moves, ticks and rejoins cannot spoil the outcome, a win counts once; `PlayersStay`; `ToldTruly`: failures name the room of their own join, seats are as told; `GamesPlayOut`: games end, leavers are destroyed, the script comes to its end |
| `SupportChat` | 2 conversations and 2 agents; 3 conversations for one agent's 2 rooms; a customer and an agent that reconnect; the client's script | `DirectorySafe`, `ReservationsHeld`, `ClosedStays`; `InTheKnow`: who has joined misses no message; `ConversationsEnd`; `ScenarioHolds` |
| `GameQuest` | one player, 2 API and 2 mission processes of which one may die; the client's script | `StreamsLegal`: a fact counts once, the cache is the replay; `ProgressEarned`; `ToldOnce`; `FactsKept`; `ScenarioHolds` |
| `ZoneWorld` | 2 nodes, 2 consoles, 4 zones, one human, one bot, in seven parts | `MaintenanceSettles`, `LossIsTold`, `InOneZone`, `StepsLegal`, `ToldOnce`, `HeardAgain`, `ClaimsSettle` |
| `Bingo` | 3 players with 3 matches; or 2 players who may play twice in one room (4 matches) while an observer watches, or once while the observer comes back | `TwoPerRoom`; `FinishedOnce`: one result per player and game, and an observer is told of the game it found alive and of each later one of its room, of none twice in a row; `PlayedOut` |
| `Readiness` | a service that polls and one that looks once, 2 peers each, one lost event, peer and host | `LineProven`: a line is printed once and is true; `ReadyIsTold` |

Deadlock checking is off in every run: clients are bounded, so all systems
really stop.

**Bounds.** Two of everything is where the races are: two keys for one unit of
stock, two HTTP requests for a start and the request it races with (three for the
`_reply` run: continue, start, start), two couriers for one reassignment and
the end of the list, three players for two seats, three joins of an actor (one over,
one under way, one waiting), three conversations for two
rooms of one agent, two API and two mission processes for an owner that is made
again elsewhere. The lease needs three processes for a successor's successor.
TicTacToe's board has the five cells and four lines of `MCLines`, on which games
end in a win of either player, a draw or a timeout; the script wins there in five
moves. Bingo draws 15 numbers, with cards that win at the third and at the fifth
and one that is refused. ZoneWorld's map is 4 x 4 with steps of 1, where each
zone is 2 x 2, so that a border is never more than two steps away; 5 attempts are the fewest
that a node of three zones needs with one failing request (120 in the code).
Constants that only bound the state space are named in the modules (`MaxSequence`,
`MaxJoins`, `MaxMessages`, `MaxSessions`, `MaxDeeds`, ...). Where the code only
compares with a number it is smaller here: stock 1 for 100, milestone 2 for 100,
event buffers 1 for 64. Keys, calls and mission processes are interchangeable
and symmetric in runs without liveness properties.

**What is assumed in a run**, beside its bounds:

* Holders of the document lock finish within its 30 s lease (`OrderWorkflow`; in
  `LeasedStore` they need not).
* No delivery id is posted twice (`DeliveryDispatch`); `SubscriberIsTold` speaks
  of sessions of the customer that follow one another (the next connects when the
  last is disconnected and no subscribe of it goes on): two at once share one
  binding, and the first to go takes the other's subscriptions with it.
* The hook `create_pending` (`CommerceApi/main.cpp:128`) is called for a key nobody
  used, as the runner does: it overwrites the mapping without a look.
* `ToldTruly` compares the seat shown in an accepted join only where admissions
  do not overlap; with overlap both are shown the X seat. Of the framework it is
  assumed that it carries out an actor's joins in their order and first reports
  their ends in that order. A join that is carried out in the room brings the wins
  of the time it was asked for, and so may take back a win: `WinCountedOnce` claims
  the count for actors that arrived once. In the part that plays every game players
  have been told before they move, to keep the instance small; the proof has no such
  restriction.
* Agents of SupportChat join only conversations they were notified of, as the client
  does: `join_conversation` (`Support/main.cpp:754`) lets any agent in, and one that
  was not reserved would hold no slot. That a rejoining agent cannot keep a
  conversation from being closed holds for finitely many returns (`MaxRejoins`).
* In ZoneWorld the time to live of a report outlasts the handler of that report, and
  a client's requests for maintenance are compared with the store where those of one
  node neither overlap nor fail (`unsure`): the code repairs neither.
* A closed quest owner is activated where its stream is (`AtHome`); progress and
  notices are claimed per mission process that owned the player, since a
  stream lives in one process's memory.
* A node of ZoneWorld dies, or reports out of turn, only once all are ready, and one
  node only, dead or late, expires from Ops' view. An
  older notification in another thread's hand may overtake the loss of a node,
  and stays with the console (`LossIsTold` excludes it). An announcement is
  claimed to be heard once by humans that enter no zone meanwhile.
* In the scripts the servers fail nothing and the client is registered for a
  notice before it asks for what causes it, as the code does; in TicTacToe's
  no turn times out, in SupportChat's deadlines pass only while the client waits
  for them.

**Fairness.** Weak fairness of the runtime's own work: an HTTP coroutine that
can go on, an owner's queue, loop and timer, the relocation's threads
(`OrderWorkflow_live`); the handlers, the sweeper thread, which loops until
shutdown, the coroutines, and the passing of an offer's deadline
(`DeliveryDispatch`); the turn timer, time, and the framework's completion of a
started join, or its failure (`TicTacToeRoom`); the idle timer and time (`SupportChat`); the
room's timer, the API's answers and the closing (`Bingo`); the threads of a
service and the host that goes on from `request_stop` to `stop` (`Readiness`).
Clients promise nothing: they may stop at any point; only a script is
a client that goes on. Where a failure is not recovered from, the liveness
property names it (`lost` in `DeliveriesEnd`, `due` in `EveryOrderEnds`).

**What the violated runs say.**
* `OrderWorkflow_reply`: a continue that overtakes the start makes
  `workflow_logic.hpp:475` save a projection for an order without events; a
  repeated start answers with it, where `CommerceApi/main.cpp:29` says that a
  new order's reply is Created.
* `DeliveryDispatch_lost`: `Dispatch/main.cpp:462` says the sweeper will come
  again after a swallowed failure; it skips settled offers, so it does not.

## 5. Proofs

Each theorem holds for arbitrary constants: any sets of keys, orders, processes,
couriers, players, agents, conversations, nodes, zones, services, any capacities,
boards, cards, facts and bounds. What is assumed of them is named in the modules
(`...Assumption`), evaluated by TLC in every run, and only says what the code
takes for granted: names of different things differ (`None` is no actor, an
agent's actor in a room is not an agent, humans are not bots), neighbourhood of
zones is symmetric, a board is finite and has no empty line, a fact counts for
something, a script's people are among the players, agents and customers. Two
hypotheses are stated in the theorems that need them: `Distinct` (no
delivery id is posted twice), and in `TimelyStoreIsLossless` that no live holder
outlives its lease.

Most invariants that the runs check are not inductive. What had to be added is
always of one kind: what a message, an answer or a handler that waits carries
agrees with the state it was made from, or has become harmless. Wherever a step
is about one order, delivery, conversation, actor, zone or room, the invariant is
said of one of them, a lemma says that a step leaves the others alone
(`Elsewhere`, `Untouched`, `SameOffer`, ...), and each action is looked at once.

### ShoppingMall: `OrderWorkflowProofs`

* `TypeCorrect`, `StreamsAreLegal`, `EffectsAreRecorded`, `ReadModelIsFresh`. The
  invariant `IInv` says that *both* the saved document and the draft in the
  hands of the lock's holder are sound (legal streams, effects that match, fresh
  read models), and that every start under way is a known one. The draft is
  needed because `Commit` makes it the document; soundness as a predicate on
  documents lets every operator of `OrderStream` be proved once, as a lemma.
* `SavedIsKept`, an action property: whoever runs holds the lock, and its draft
  extends the saved streams, has the same hooks and has charged no hooked order
  (`DraftFollows`); every other writer needs the lock free and leaves streams and
  payments alone (`Quiet`).
* `KeysSellOnce` states `OneSalePerKey`. `KInv` adds that whatever says "start"
  on its way to an owner is of an order its key was mapped to before (`Keyed`),
  and that an owner that may still advance for a start has an empty stream before
  it (`DraftKeyed`), so a repeated start takes no step. Stock is a sum over the
  orders that hold some; the library's induction takes an operator as a parameter,
  so the few facts about sums (one term more, one less, equal terms) are proved
  from the well-foundedness of the subset order: a least set that breaks the fact
  has a smaller one that breaks it too.
* `WorkflowIsSaga` (`Spec => SagaSpec`, the refinement). The relation between the
  saved document and the draft of its holder is `Carried`: but for one order they
  are the same, and that order is where it was, placed, or further along one course
  that was open to it in the saved document, with just the stock between that the
  course takes there (`Further`). One `advance_once` is one such step (`StepFurther`:
  on its course an order is where its status says), two of them make one, because
  two courses that agree on a stream have taken the same for it (`SameCourse`,
  `CarriedFurther`), and the save of a carried order is a step of the saga
  (`CarriedStep`). The invariant adds that every started order is on a course its
  payment method allows (`Coursed`), and that only the owner of a start places one
  (`DraftCarried`); `KInv` gives that the placed order's key has no other.
* `RelocationReplaysOnce` states `ReplayedOnce`: replays done, under way and
  still allowed by the plan are together at most the requests (`RelocationSound`).
  `RelocationKeepsOrders`: composed with relocation, every step is a step of the
  order workflow or leaves it alone, so all of the above holds there;
  `RelocationIsSaga`: a replay carries its order as an owner does (`RanCarried`).
* `StoreTypeCorrect`, `HolderIsCurrent`, `StoreIsAtomic` (`StoreSpec =>
  SerializedUpdates`, the refinement, of holders as slow as they like). While one
  is late every update under way is exposed; whoever is not has the lease, so at
  most one is, and its copy is the saved document (`HolderCurrent`). That makes its
  `Save` an append to `saved`. `TimelyStoreIsLossless`: if no holder is ever late,
  nobody is ever exposed, and every save appends to all that was saved before.

### DeliveryDispatch: `DeliveryDispatchProofs`

* `TypeCorrect`; under `Distinct`, `DeliveryIsDrivenOnce` and `CoursesAreLegal`.
  `Sound(r)` speaks of one request: at most one message, coroutine or live offer
  drives it (`Alone`); an offer on its way to a courier, in its actor or in a
  decision on its way back is of an attempt not later than the one in the
  table, and of that courier if it is the same (`Remembered`); the driver
  stands where the log ends, so that whatever it publishes is a legal step
  (`OnCourse`); and what nobody drives is not posted, has ended or lost a
  message (`Settled`). `Remembered` is what makes late answers harmless. The
  sweep expires several offers at once and is proved per request.
* The other half of `CourseLegal` is that the server's self-check reads a log
  right. Its scan is a recursive function over the log; what it has matched so far
  is determined by the last entry of a legal course (`ReadAs`), and that is
  followed while the log grows, one entry per step.
* `GatewayKeepsDispatch`: with the customer gateway the service implements the
  dispatch. `CustomerIsTold` states `SubscriberIsTold`: as long as the customer's
  sessions follow one another, the one that is connected and was answered has the
  binding and its subscriptions (`OneByOne`).

### TicTacToe: `TicTacToeRoomProofs`

`GameStaysFair`, `PlayersDoStay`, `PlayersHearTheTruth`. The match has an
invariant of its own (`Fair`): who is to move follows from how many marks there
are, and a line that is complete is the winner's. Of an actor the invariant says
where it is and how often it was made (`LifeInv`), that until the end whoever
has a seat is a member (`SeatInv`), that the seat an admission showed stays free
until its actor comes, unless admissions overlap (`TellInv`), and that its queue holds the
rooms of exactly those joins whose ends were not reported to it yet, in their order,
while the processed operations are the ends that were (`QueueInv`). So an end that is
reported again is never taken for the next one, and the head of the queue is the room
of the join whose end comes first, however many wait behind it; in the process an
actor was carried to the queue is empty, and notices name no room.

`ScenarioKeepsRoom` (`ScenarioSpec => Spec`): the client's script, with its sessions,
pushes and observers, asks of the room only what players may. Every step of the
script is typed once (`ScriptSteps`), and then each action maps to one of the room's
or leaves it alone.

### SupportChat: `SupportChatProofs`

* `AssignmentIsSafe`: counts agree with the reservations, the order lists the
  available agents once each, and nobody is above capacity; each needs the others.
  Every handler performs at most one operation of the service (`StepRefines`), so the
  same invariant holds of the composed system (`DirectoryIsSafe`).
* `TypeCorrect`, `ReservationsAreHeld`, `ClosedIsFinal`. Nobody is reserved or
  notified before the customer is admitted (`Fresh`), agents come only after they
  were notified, which is after the customer came, and are the reserved one
  (`Notified`). Without it an agent that arrives could make a conversation active
  whose reservation is another's.
* `SessionsServe`: under its clients' sessions SupportChat takes only its own
  steps. `NothingIsMissed` states `InTheKnow`: from the binding of its actor on,
  what the answer to a join shows and what the actor has pushed since make up
  every message (`Informed`).
* `ScenarioServes` (`ScenarioSpec => Spec`): the client's script too takes only
  SupportChat's own steps.

### GameQuest: `GameQuestProofs`

`StreamsStayLegal`: in a stream sources differ, counts rise, a quest is completed
and rewarded once and exactly when its count is reached, and the cache beside a
stream is its replay. `CompletionToldOnce` states `ToldOnce`: completions told and
on their way are each paid for by a mission process that has rewarded the quest or
has died (`Told`). `FactsAreKept`: while no process that owned the player dies
(`Alive`; `Fresh`: only such a process has a stream of it) a fact that was recorded
is on its wire, applied, or its quest rewarded (`KeepInv`).

`ProgressIsEarned` states `ProgressEarned`; its invariant is `EarnedInv`. A count of
items or areas is at most the units of the facts the stream has applied
(`Collected`). A count of kills is not: a snapshot stands for facts that are still
under way and will never be applied as such. So while a player hunts on one process
(`Hunting`), what was *seen* pays for the count: the kills applied or of a monster
no quest asks for, and the unpublished ones; and what a snapshot says is at most
what was seen plus the kills ahead of it on its own wire, as `KeepInv` has every
recorded fact there or applied. Once the hunt is over, or a process has died, the
coarser bounds carry on: no snapshot and no count is above what was earned
(`AsksTrue`, `CountsTrue`), nor is what is told of it (`NotesTrue`, `RepliesTrue`,
`ShownTrue`). An answer reaches the player who asked because a session waits for one
message at a time (`Asked`).

The four are proved of every step (`AnySpec`), whatever the bounds of `Next` on how
many packets there are and what they ask. So they hold of `Spec` (`BoundedRun`), and
of the client's script as well, which keeps to none of these bounds and whose one-way
packets wait in a mail box of their own: `ScenarioIsSafe`. Its invariant types the
mail and the steps of the three parts (`Scripted`, `PartSteps`).

### ZoneWorld: `ZoneWorldProofs`

* `PlayersAreInOneZone` states `InOneZone`: per actor, which zones list it in each
  phase of its zone change (`ListedBy`), and that the last position update under
  way, or else the list, is the actor's own position (`Shows`).
* `StepsAreLegal`, an action property of clients that wait for their joins: the
  join under way is a step the rules allow from where the actor still is (`Calm`).
* `EveryoneIsToldOnce` states `ToldOnce`: replies owed are those of the join under
  way and of the completion not yet handled (`Owed`); a human who enters no zone
  has heard an announcement, or exactly one of node, zone and delivery is to tell
  him (`Hears`).
* `ZoneIsHeardAgain` states `HeardAgain`: a copy of a neighbour is younger than
  its expiry, and events are turned down no longer than it is old (`Bounded`).
* `DesiredStateSettles`: the one request for a node carries the state Redis
  keeps, and once applied the event that reaches the node last, or else the
  node's flag, is that state (`Carried`). `LossIsNotForgotten` follows the word of
  a loss from the thread that noticed it through the queue and a handler to the
  consoles (`Remembered`). `WorldKeepsOps` (`WorldSpec => OpsSpec`) carries both to
  the world with its players and announcements.
* `ClaimsDoSettle` states `ClaimsSettle`. A round of a node's passes that neither
  met a failed request nor was cut short by a zone of its own left every zone
  behind, initialized or on others while the node was full (`PassedBy`); then the
  node has its share (`PassedIsFull`: where all zones are placed, and nobody has
  more than its capacity, nobody has less). So attempts are at most failures plus
  zones (`Passing`). Assumed of the constants (`SharesAssumption`): the capacities
  add up to the zones, of two nodes at least, as `run_sample.sh` has 1 and 3, and
  fewer requests fail than a node has attempts to spare, of 120.

### Bingo: `BingoProofs`

`TwoStayTwo` states `TwoPerRoom`: a room's game, members and pending joins are of
actors that were given a seat, so whoever wakes with his record finds room
(`Seating`). `GamesEndOnce` states `FinishedOnce`: a record counts the finished
games but those a room has still to report (`Recorded`), a room shows a game it
finished until it is made anew (`History`), and the word of a finished game was
told, is on its way, or is in the answer the observer waits for (`Hearing`).
The proof found a case that the run did not reach at first: see `Swallowed` in
section 3.

### Readiness: `ReadinessProofs`

`LineIsTrue` states `LineProven`: whatever a service holds, sees or has in its
buffer and that names all peers was true at one time (`Sound`), and the flag that
lets one thread print was set by the one that is about to or has (`OneLine`).

### Only model-checked

* All liveness (`EveryOrderEnds`, `DeliveriesEnd`, `GamesPlayOut`,
  `ConversationsEnd`, `PlayedOut`, `ReadyIsTold`): fairness is out of the prover's reach.
* `ScenarioHolds` (GameQuest, SupportChat): a script is data, and what its client
  expects at a step depends on the values of the script, so the claim is about that
  script.

## 6. What is not modelled, and why

* The framework's own protocols (placement, relocation, location store, leases
  of owners): not in the repository. Their effects on a sample (an owner that
  ends, a repeated completion, a lost message, a lossy event buffer) are actions.
* ShoppingMall's client script and roles, and Bingo's client script: their calls
  are the environment of the models; the scripts themselves add only expected
  replies. ZoneWorld's client mostly checks encodings and the contents of
  snapshots, which the models abstract from; its test proxy forwards one route
  and drops it on a signal.
* Message formats (`messages.hpp`, the serializers), logging, configuration,
  ports, process scripts, host set-up: no state a property could be about.
* A result of Bingo that the API does not answer for: the exception leaves the
  clean-up unfinished and the room open, and nothing repairs it. `ZoneNode`'s tick
  that is made to fail (`main.cpp:533`), a fixture of the runner.
* Bingo's relocation-ready room and the relay of its sessions; ZoneWorld
  gateway's location and follow probes.
* The body of a typed message, the text of a chat, display names, and the order
  of notices to clients, except where a property is about what they say
  (`ToldTruly`, `InTheKnow`, `StartReplyIsStarted`, the scripts).
* Two sessions of one customer at once, what a document lock's holder slower than
  its lease does to the orders (the store alone is checked with it), an offer whose
  status request failed, a quest owner recreated on another process: the code has
  no answer to these; the hazards that name them say so.
* The tutorial and the quickstart, whose handlers keep no state worth a property.
