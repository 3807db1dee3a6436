------------------------------- MODULE GameQuest -------------------------------
(***************************************************************************)
(* GameQuest (samples/GameQuest/Server): sessions on the API processes, the*)
(* one quest owner Spot of a player on some mission process, the quest     *)
(* store each mission process keeps in memory, and the projection each API *)
(* shows.  Gameplay facts are one-way; progress comes back as a            *)
(* notification to the player's actor, or as the reply of a sync.          *)
(*                                                                         *)
(* What one API process sends the owner of a player arrives in order; a    *)
(* mission process that dies loses its store and what was on its way to it.*)
(*                                                                         *)
(* An administrator rebuilds the projection, deletes one quest of it, or   *)
(* deactivates the Spot: Operations.                                       *)
(*                                                                         *)
(* Bounds: MaxRequests packets of the clients, each fact played at most    *)
(* twice, MaxCrashes processes that die, kills the clients report without  *)
(* publishing them in UnpublishedCounts.                                   *)
(***************************************************************************)
EXTENDS QuestStream

CONSTANTS Players, Sessions, Apis, Missions, Facts, Operations,
          UnpublishedCounts, SessionApi, MaxRequests, MaxCrashes, None, Gone

ASSUME GameQuestAssumption ==
  /\ SessionApi \in [Sessions -> Apis]
  /\ Operations \subseteq {"rebuild", "deactivate"} \cup Quests
  /\ UnpublishedCounts \subseteq Nat /\ MaxRequests \in Nat /\ MaxCrashes \in Nat
  /\ \A f \in Facts : /\ f.type \in {"MonsterKilled", "ItemCollected", "AreaEntered"}
                      /\ f.count \in Nat \ {0}
                      /\ f.type = "MonsterKilled" => f.count = 1
  /\ None \notin Missions \cup Apis \cup Players \cup Sessions \cup Quests \cup {Gone}
  /\ Gone \notin Missions

VARIABLES
  up,         \* the mission processes that run
  stream,     \* _streams of each mission process
  cache,      \* _projections of each mission process
  owner,      \* where the player's Spot is; Gone: on a process that died
  wire,       \* from each API to the owner of each player
  notes,      \* from each mission to the player's actor
  home,       \* the API process that keeps the player's actor
  bound,      \* the session the actor pushes to
  session,    \* what each session's packet handler is doing
  shown,      \* _projections of each API process
  recorded,   \* _events of each API process
  unpublished,\* _unpublished_kills of each API process
  requests,   \* packets of the clients so far
  sent,       \* history: how often each fact was put on the wire
  homes,      \* history: the missions that ever owned the player
  told        \* history: completions pushed to the player

missionVars == <<up, stream, cache, owner>>
apiVars == <<home, bound, shown, recorded, unpublished>>
vars == <<missionVars, apiVars, wire, notes, session, requests, sent, homes, told>>

Empty == [q \in {} |-> 0]

Idle == [doing |-> "idle", player |-> None, of |-> None, fact |-> None, reply |-> None]

Init ==
  /\ up = Missions
  /\ stream = [m \in Missions |-> [p \in Players |-> <<>>]]
  /\ cache = [m \in Missions |-> [p \in Players |-> Empty]]
  /\ owner = [p \in Players |-> None]
  /\ wire = [a \in Apis |-> [p \in Players |-> <<>>]]
  /\ notes = [m \in Missions |-> [p \in Players |-> <<>>]]
  /\ home = [p \in Players |-> None]
  /\ bound = [p \in Players |-> None]
  /\ session = [s \in Sessions |-> Idle]
  /\ shown = [a \in Apis |-> [p \in Players |-> Empty]]
  /\ recorded = [a \in Apis |-> [p \in Players |-> {}]]
  /\ unpublished = [a \in Apis |-> [p \in Players |-> 0]]
  /\ requests = 0
  /\ sent = [p \in Players |-> [f \in Facts |-> 0]]
  /\ homes = [p \in Players |-> {}]
  /\ told = [p \in Players |-> [q \in Quests |-> 0]]

-----------------------------------------------------------------------------
(* GameApi *)

KillsOf(facts) == Cardinality({f \in facts : f.type = "MonsterKilled"})

\* snapshot_kill_count: every kill, whatever the monster, and the unpublished.
Snapshot(a, p) == KillsOf(recorded[a][p]) + unpublished[a][p]

EventMsg(f) == [kind |-> "event", fact |-> f]
SyncMsg(s, kills) == [kind |-> "sync", from |-> s, kills |-> kills]
AdminMsg(s, op) == [kind |-> "admin", from |-> s, op |-> op]
CloseMsg == [kind |-> "close"]

\* A packet arrives at a session whose handler is free.
Packet(s) == session[s].doing = "idle"

\* The Spot can be reached: a message to a process that died is Unavailable.
Reachable(p) == owner[p] # Gone

Post(s, p, msg) ==
  wire' = [wire EXCEPT ![SessionApi[s]][p] = Append(@, msg)]

Doing(s, what, p) == [session[s] EXCEPT !.doing = what, !.of = p, !.reply = None]

\* JoinSessionReq: the actor is created or found and bound, then synced.
Join(s, p) ==
  /\ Packet(s)
  /\ home' = [home EXCEPT ![p] = IF @ = None THEN SessionApi[s] ELSE @]
  /\ bound' = [bound EXCEPT ![p] = s]
  /\ session' = [session EXCEPT ![s] =
       [(IF Reachable(p) THEN Doing(s, "joining", p) ELSE Idle) EXCEPT !.player = p]]
  /\ IF Reachable(p) THEN Post(s, p, SyncMsg(s, Snapshot(SessionApi[s], p)))
     ELSE UNCHANGED wire
  /\ UNCHANGED <<missionVars, notes, shown, recorded, unpublished, sent, homes, told>>

\* GetQuestProgressReq, SyncQuestProgressReq
Sync(s, p) ==
  /\ Packet(s)
  /\ Reachable(p)
  /\ session' = [session EXCEPT ![s] = Doing(s, "syncing", p)]
  /\ Post(s, p, SyncMsg(s, Snapshot(SessionApi[s], p)))
  /\ UNCHANGED <<missionVars, apiVars, notes, sent, homes, told>>

Freed(s) == [session EXCEPT ![s] = [Idle EXCEPT !.player = session[s].player]]

\* merge_projection with the owner's reply, whatever was shown meanwhile.  The
\* reply of a join then comes from the actor's API process and changes nothing.
Synced(s) ==
  /\ session[s].doing \in {"joining", "syncing"} /\ session[s].reply # None
  /\ shown' = [shown EXCEPT ![SessionApi[s]][session[s].of] = session[s].reply]
  /\ session' = Freed(s)
  /\ UNCHANGED <<missionVars, wire, notes, home, bound, recorded, unpublished, requests,
                 sent, homes, told>>

\* KillMonsterReq, CollectItemReq, EnterAreaReq: send to the owner, then record.
Play(s, p, f) ==
  /\ Packet(s)
  /\ Reachable(p)
  /\ sent' = [sent EXCEPT ![p][f] = @ + 1]
  /\ Post(s, p, EventMsg(f))
  /\ session' = [session EXCEPT ![s] = [Doing(s, "recording", p) EXCEPT !.fact = f]]
  /\ UNCHANGED <<missionVars, apiVars, notes, homes, told>>

\* record_event keeps a fact once.
Record(s) ==
  /\ session[s].doing = "recording"
  /\ recorded' = [recorded EXCEPT ![SessionApi[s]][session[s].of] = @ \cup {session[s].fact}]
  /\ session' = Freed(s)
  /\ UNCHANGED <<missionVars, wire, notes, home, bound, shown, unpublished, requests, sent,
                 homes, told>>

\* GameQuestUnpublishedKillReq
KillUnpublished(s, p, n) ==
  /\ Packet(s)
  /\ unpublished' = [unpublished EXCEPT ![SessionApi[s]][p] = @ + n]
  /\ UNCHANGED <<missionVars, wire, notes, home, bound, session, shown, recorded, sent,
                 homes, told>>

\* GameQuestProjectionAdminReq
Admin(s, p, op) ==
  /\ Packet(s)
  /\ Reachable(p)
  /\ session' = [session EXCEPT ![s] = Doing(s, "admin", p)]
  /\ Post(s, p, AdminMsg(s, op))
  /\ UNCHANGED <<missionVars, apiVars, notes, sent, homes, told>>

\* ... with operation "close": ClosePlayerQuestMsg, which activates no Spot.
AskClose(s, p) ==
  /\ Packet(s)
  /\ owner[p] \in Missions
  /\ Post(s, p, CloseMsg)
  /\ UNCHANGED <<missionVars, apiVars, notes, session, sent, homes, told>>

\* on_disconnected
Disconnect(s) ==
  /\ session[s].doing = "idle" /\ session[s].player # None
  /\ session' = [session EXCEPT ![s] = Idle]
  /\ bound' = [bound EXCEPT ![session[s].player] = IF @ = s THEN None ELSE @]
  /\ UNCHANGED <<missionVars, wire, notes, home, shown, recorded, unpublished, requests,
                 sent, homes, told>>

\* record_notify, and the pushes to the bound session.
Notified(m, p) ==
  /\ notes[m][p] # <<>>
  /\ LET n == Head(notes[m][p]) IN
     /\ shown' = [shown EXCEPT ![home[p]][p] = n.projection]
     /\ told' = IF n.completed = None \/ bound[p] = None THEN told
                ELSE [told EXCEPT ![p][n.completed] = @ + 1]
  /\ notes' = [notes EXCEPT ![m][p] = Tail(@)]
  /\ UNCHANGED <<missionVars, wire, home, bound, session, recorded, unpublished, requests,
                 sent, homes>>

-----------------------------------------------------------------------------
(* QuestMission *)

\* The placement chooses a mission for a Spot that is addressed; on_initialize
\* replays what this process has of the player.
Activate(p, m) ==
  /\ owner[p] = None /\ m \in up
  /\ \E a \in Apis : wire[a][p] # <<>> /\ Head(wire[a][p]).kind # "close"
  /\ owner' = [owner EXCEPT ![p] = m]
  /\ cache' = [cache EXCEPT ![m][p] = Replay(stream[m][p])]
  /\ homes' = [homes EXCEPT ![p] = @ \cup {m}]
  /\ UNCHANGED <<up, stream, apiVars, wire, notes, session, requests, sent, told>>

\* The message msg from API a arrives at the owner of p, on mission m.
Arrived(a, p, m, kind) ==
  /\ owner[p] = m /\ m \in Missions
  /\ wire[a][p] # <<>> /\ Head(wire[a][p]).kind = kind
  /\ wire' = [wire EXCEPT ![a][p] = Tail(@)]

\* quest_event_store_t::apply
Stored(m, p, f) ==
  IF \E q \in Quests : Advances(stream[m][p], f, q)
  THEN stream' = [stream EXCEPT ![m][p] =
         Append3(@, f, CHOOSE q \in Quests : RuledBy(f, q))]
  ELSE UNCHANGED stream

\* Mutant: the cached projection is left as it was.
MutCached(m, p, f) == UNCHANGED cache

Cached(m, p, f) ==
  IF \E q \in Quests : Advances(stream[m][p], f, q)
  THEN cache' = [cache EXCEPT ![m][p] = Replay(stream'[m][p])]
  ELSE UNCHANGED cache

\* The projection apply returns.
Returned(m, p, f) ==
  IF ~Applied(stream[m][p], f) /\ ~Reconciles(f)
     /\ \E q \in Quests : RuledBy(f, q) /\ StatusOf(stream[m][p], q) = "reward_granted"
  THEN Replay(stream[m][p]) ELSE cache'[m][p]

\* Mutant: every fact for a rewarded quest reports its completion.
MutCompleted(m, p, f) ==
  {q \in Quests : RuledBy(f, q) /\ StatusOf(stream'[m][p], q) = "reward_granted"}

Completed(m, p, f) ==
  {q \in Quests : Advances(stream[m][p], f, q) /\ Completes(stream[m][p], f, q)}

NoteOf(m, p, f) ==
  [projection |-> Returned(m, p, f),
   completed |-> IF Completed(m, p, f) = {} THEN None
                 ELSE CHOOSE q \in Completed(m, p, f) : TRUE]

Notify(m, p, f) ==
  IF home[p] = None THEN UNCHANGED notes
  ELSE notes' = [notes EXCEPT ![m][p] = Append(@, NoteOf(m, p, f))]

\* player_quest_spot_t::apply, the owner's handler of a gameplay fact.
Apply(a, p, m) ==
  /\ Arrived(a, p, m, "event")
  /\ LET f == Head(wire[a][p]).fact
     IN  Stored(m, p, f) /\ Cached(m, p, f) /\ Notify(m, p, f)
  /\ UNCHANGED <<up, owner, apiVars, session, requests, sent, homes, told>>

SnapshotFact(kills) ==
  [id |-> <<"snapshot", kills>>, type |-> "SnapshotKillCount", value |-> "kills",
   count |-> kills]

Reply(s, projection) == session' = [session EXCEPT ![s].reply = projection]

\* player_quest_spot_t::sync: a snapshot of kills reconciles the stream.
Reconcile(a, p, m) ==
  /\ Arrived(a, p, m, "sync")
  /\ LET msg == Head(wire[a][p])  f == SnapshotFact(msg.kills) IN
     IF msg.kills = 0
     THEN Reply(msg.from, cache[m][p]) /\ UNCHANGED <<stream, cache>>
     ELSE /\ Stored(m, p, f) /\ Cached(m, p, f)
          /\ Reply(msg.from, cache'[m][p])
  /\ UNCHANGED <<up, owner, apiVars, notes, requests, sent, homes, told>>

\* player_quest_spot_t::admin
Maintain(a, p, m) ==
  /\ Arrived(a, p, m, "admin")
  /\ LET msg == Head(wire[a][p]) IN
     /\ cache' = [cache EXCEPT ![m][p] =
          IF msg.op \in Quests THEN [q \in DOMAIN @ \ {msg.op} |-> @[q]]
          ELSE IF msg.op = "rebuild" THEN Replay(stream[m][p]) ELSE @]
     /\ owner' = [owner EXCEPT ![p] = IF msg.op = "deactivate" THEN None ELSE @]
     /\ session' = Freed(msg.from)
  /\ UNCHANGED <<up, stream, apiVars, notes, requests, sent, homes, told>>

\* Mutant: the messages that wait for the closed Spot are discarded.
MutClose(a, p, m) ==
  /\ owner[p] = m /\ wire[a][p] # <<>> /\ Head(wire[a][p]).kind = "close"
  /\ wire' = [b \in Apis |-> [wire[b] EXCEPT ![p] = <<>>]]
  /\ owner' = [owner EXCEPT ![p] = None]
  /\ UNCHANGED <<up, stream, cache, apiVars, notes, session, requests, sent, homes, told>>

\* player_quest_spot_t::close
Close(a, p, m) ==
  /\ Arrived(a, p, m, "close")
  /\ owner' = [owner EXCEPT ![p] = None]
  /\ UNCHANGED <<up, stream, cache, apiVars, notes, session, requests, sent, homes, told>>

\* A close that finds no Spot any more is dropped.
CloseDropped(a, p) ==
  /\ owner[p] = None /\ wire[a][p] # <<>> /\ Head(wire[a][p]).kind = "close"
  /\ wire' = [wire EXCEPT ![a][p] = Tail(@)]
  /\ UNCHANGED <<missionVars, apiVars, notes, session, requests, sent, homes, told>>

\* A mission process dies with its streams; who waits for it gets Unavailable.
Crash(m) ==
  /\ m \in up /\ Cardinality(Missions \ up) < MaxCrashes
  /\ up' = up \ {m}
  /\ stream' = [stream EXCEPT ![m] = [p \in Players |-> <<>>]]
  /\ cache' = [cache EXCEPT ![m] = [p \in Players |-> Empty]]
  /\ owner' = [p \in Players |-> IF owner[p] = m THEN Gone ELSE owner[p]]
  /\ wire' = [a \in Apis |-> [p \in Players |-> IF owner[p] = m THEN <<>> ELSE wire[a][p]]]
  /\ session' = [s \in Sessions |->
       IF /\ session[s].doing \in {"joining", "syncing", "admin"}
          /\ session[s].reply = None /\ owner[session[s].of] = m
       THEN Freed(s)[s] ELSE session[s]]
  /\ UNCHANGED <<apiVars, notes, requests, sent, homes, told>>

\* The dead process's claim expires: the next message activates a new owner.
Expire(p) ==
  /\ owner[p] = Gone
  /\ owner' = [owner EXCEPT ![p] = None]
  /\ UNCHANGED <<up, stream, cache, apiVars, wire, notes, session, requests, sent, homes, told>>

-----------------------------------------------------------------------------
ClientPacket(s, p, facts) ==
  \/ Join(s, p) \/ Sync(s, p) \/ AskClose(s, p)
  \/ \E f \in facts : sent[p][f] < 2 /\ Play(s, p, f)
  \/ \E n \in UnpublishedCounts : KillUnpublished(s, p, n)
  \/ \E op \in Operations : Admin(s, p, op)

Client ==
  /\ requests < MaxRequests /\ requests' = requests + 1
  /\ \E s \in Sessions, p \in Players : ClientPacket(s, p, Facts)

Handler(s) == Synced(s) \/ Record(s)

OwnerStep(p) ==
  \E m \in Missions :
    \/ Activate(p, m)
    \/ \E a \in Apis :
         Apply(a, p, m) \/ Reconcile(a, p, m) \/ Maintain(a, p, m) \/ Close(a, p, m)

ServersNext ==
  \/ \E s \in Sessions : Handler(s) \/ Disconnect(s)
  \/ \E m \in Missions, p \in Players : Notified(m, p)
  \/ \E p \in Players : OwnerStep(p) \/ Expire(p)
  \/ \E a \in Apis, p \in Players : CloseDropped(a, p)
  \/ \E m \in Missions : Crash(m)

Next == Client \/ (ServersNext /\ UNCHANGED requests)

Spec == Init /\ [][Next]_vars

-----------------------------------------------------------------------------
(* Properties *)

Projections == UNION {[qs -> [count : Nat, status : {"active"} \cup Settling]] :
                      qs \in SUBSET Quests}

TypeOK ==
  /\ up \subseteq Missions /\ owner \in [Players -> Missions \cup {None, Gone}]
  /\ \A m \in Missions, p \in Players :
       /\ \A i \in DOMAIN stream[m][p] :
            stream[m][p][i].quest \in Quests /\ stream[m][p][i].type \in Counting \cup Settling
       /\ DOMAIN cache[m][p] \subseteq Quests
       /\ notes[m][p] # <<>> => home[p] \in Apis
  /\ home \in [Players -> Apis \cup {None}] /\ bound \in [Players -> Sessions \cup {None}]
  /\ \A a \in Apis, p \in Players : recorded[a][p] \subseteq Facts /\ unpublished[a][p] \in Nat
  /\ \A s \in Sessions :
       /\ session[s].doing \in {"idle", "joining", "syncing", "recording", "admin"}
       /\ session[s].doing # "idle" => session[s].of \in Players

\* The cached projection is the replay of the stream, less the quests an operator
\* deleted.
CacheIsReplayed ==
  \A m \in Missions, p \in Players :
    \A q \in DOMAIN cache[m][p] :
      q \in Started(stream[m][p]) /\ cache[m][p][q] = Replay(stream[m][p])[q]

\* However facts are repeated by clients, sent through two API processes or
\* overtaken by a snapshot of the kills, a stream counts each once, its counts
\* rise, it completes and rewards a quest once, when its count is reached, and the
\* projection that is kept beside it never disagrees with it.
StreamsLegal ==
  TypeOK /\ CacheIsReplayed /\ \A m \in Missions, p \in Players : StreamLegal(stream[m][p])

\* What p did, unit by unit: the facts it played count for Delta each, unless they are
\* kills, and every kill is one, also those it reported without publishing them.
Done(p) == {f \in Facts : sent[p][f] > 0}

Units(facts) == UNION {{f} \X (1 .. Delta(f)) : f \in facts}

Unpublished(p) == UNION {{a} \X (1 .. unpublished[a][p]) : a \in Apis}

Earned(p, q) ==
  IF q = "first_hunt" THEN KillsOf(Done(p)) + Cardinality(Unpublished(p))
  ELSE Cardinality(Units({f \in Done(p) : RuledBy(f, q)}))

\* A player whose owner stayed on one mission process is never credited with,
\* nor shown, more than it did: a snapshot and the facts it counts add up once.
ProgressEarned ==
  \A p \in Players : Cardinality(homes[p]) <= 1 =>
    \A q \in Quests :
      /\ \A m \in Missions : CountOf(stream[m][p], q) <= Earned(p, q)
      /\ \A a \in Apis : q \in DOMAIN shown[a][p] => shown[a][p][q].count <= Earned(p, q)

\* The player is told of the completion of a quest once for each mission
\* process that owned it, whatever it repeats and however often it reconnects.
ToldOnce ==
  \A p \in Players, q \in Quests : told[p][q] <= Cardinality(homes[p])

\* A fact an API process recorded is on its way or counted, unless its quest was
\* rewarded or a process that owned the player died: a closed Spot does not lose what
\* it is sent.
FactsKept ==
  \A a \in Apis, p \in Players : \A f \in recorded[a][p], q \in Quests :
    RuledBy(f, q) /\ homes[p] \subseteq up =>
      \/ \E i \in DOMAIN wire[a][p] : wire[a][p][i] = EventMsg(f)
      \/ \E m \in Missions :
           Applied(stream[m][p], f) \/ StatusOf(stream[m][p], q) = "reward_granted"

=============================================================================
