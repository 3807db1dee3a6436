---------------------------- MODULE ReadinessProofs ----------------------------
(* Proof that a service's one line is true and printed once, for any services   *)
(* and any mesh that gains and loses peers.  The invariant adds to the property *)
(* what the two threads carry: an event that is buffered and a snapshot that is *)
(* held show all the peers only if they were all ready since the service        *)
(* started (Sound).                                                             *)
EXTENDS Readiness, SequenceTheorems, TLAPS

Typed ==
  /\ TypeOK
  /\ lossy \in BOOLEAN /\ client \in BOOLEAN
  /\ events \in [Services -> Seq(SUBSET Nodes)]
  /\ lines \in [Services -> Nat] /\ proven \subseteq Services

\* What a snapshot shows has been so.
True(s, snapshot) == s.targets \subseteq snapshot => s \in proven

Sound(s) ==
  /\ life[s] = "new" => events[s] = <<>> /\ s \notin reported
  /\ life[s] # "new" => True(s, View(s))
  /\ \A i \in DOMAIN events[s] : True(s, events[s][i])
  /\ worker[s] = "holding" => True(s, held[s])
  /\ s \in reported => s \in proven
  /\ OneLine(s)
  /\ s \in proven /\ losses = 0 => AllUp(s)

Inv ==
  /\ Typed
  /\ \A s \in Services : Sound(s)
  /\ client => \A s \in Services : lines[s] > 0

-----------------------------------------------------------------------------
\* The buffer holds at most MaxEvents snapshots, the old ones and the new one.
LEMMA BufferedType ==
  ASSUME NEW queue \in Seq(SUBSET Nodes), NEW snapshot \in SUBSET Nodes,
         Len(queue) <= MaxEvents
  PROVE  /\ Buffered(queue, snapshot) \in Seq(SUBSET Nodes)
         /\ Len(Buffered(queue, snapshot)) <= MaxEvents
         /\ \A i \in DOMAIN Buffered(queue, snapshot) :
              \/ Buffered(queue, snapshot)[i] = snapshot
              \/ \E j \in DOMAIN queue : Buffered(queue, snapshot)[i] = queue[j]
<1> DEFINE kept == IF Len(queue) = MaxEvents THEN Tail(queue) ELSE queue
<1>1. /\ kept \in Seq(SUBSET Nodes) /\ Len(kept) + 1 <= MaxEvents
      /\ \A i \in 1 .. Len(kept) : \E j \in 1 .. Len(queue) : kept[i] = queue[j]
  <2>1. CASE Len(queue) = MaxEvents
    <3>1. queue # <<>>
      BY <2>1, ReadinessAssumption
    <3>2. /\ Tail(queue) \in Seq(SUBSET Nodes) /\ Len(Tail(queue)) = Len(queue) - 1
          /\ \A i \in 1 .. Len(Tail(queue)) : Tail(queue)[i] = queue[i + 1]
      BY <3>1, HeadTailProperties
    <3> QED
      BY <2>1, <3>1, <3>2, ReadinessAssumption
  <2>2. CASE Len(queue) # MaxEvents
    BY <2>2, ReadinessAssumption
  <2> QED
    BY <2>1, <2>2
<1>2. /\ Append(kept, snapshot) \in Seq(SUBSET Nodes)
      /\ Len(Append(kept, snapshot)) = Len(kept) + 1
      /\ \A i \in 1 .. Len(kept) : Append(kept, snapshot)[i] = kept[i]
      /\ Append(kept, snapshot)[Len(kept) + 1] = snapshot
  BY <1>1, AppendProperties
<1>3. Buffered(queue, snapshot) = Append(kept, snapshot)
  BY DEF Buffered
<1> HIDE DEF kept
<1>4. DOMAIN Append(kept, snapshot) = 1 .. (Len(kept) + 1)
  BY <1>1, <1>2
<1>5. ASSUME NEW i \in 1 .. (Len(kept) + 1)
      PROVE  \/ Append(kept, snapshot)[i] = snapshot
             \/ \E j \in DOMAIN queue : Append(kept, snapshot)[i] = queue[j]
  BY <1>1, <1>2
<1> QED
  BY <1>1, <1>2, <1>3, <1>4, <1>5

LEMMA InitInv == Init => Inv
<1> SUFFICES ASSUME Init PROVE Inv
  OBVIOUS
<1>1. Typed
  <2>1. lossy \in BOOLEAN /\ client \in BOOLEAN
    BY Zenon DEF Init
  <2>2. events \in [Services -> Seq(SUBSET Nodes)] /\ \A s \in Services : Len(events[s]) <= MaxEvents
    BY ReadinessAssumption, EmptySeq DEF Init
  <2> QED
    BY <2>1, <2>2, ReadinessAssumption DEF Init, Typed, TypeOK
<1>2. ASSUME NEW s \in Services PROVE Sound(s)
  BY DEF Init, Sound, OneLine, One, True
<1> QED
  BY <1>1, <1>2 DEF Inv, Init

\* The mesh changes: what is new in the buffers was seen by the history too.
LEMMA ChangeInv ==
  ASSUME Inv, NEW n, NEW new \in SUBSET (Nodes \X Nodes), Change(n, new),
         losses' \in 0 .. MaxLosses,
         losses' = 0 => losses = 0 /\ links \subseteq new
  PROVE  Inv'
<1> DEFINE now(s) == {m \in Nodes : <<s.node, m>> \in new}
<1> USE DEF Inv
<1>1. /\ links' = new
      /\ \A s \in Services :
           \/ events'[s] = events[s]
           \/ events'[s] = Buffered(events[s], now(s)) /\ life[s] # "new"
      /\ DOMAIN events' = Services
      /\ proven' = proven \cup {s \in Services : life[s] # "new" /\ s.targets \subseteq now(s)}
      /\ UNCHANGED <<lossy, life, callback, worker, held, reported, lines, client>>
  BY DEF Change, threads, Typed, TypeOK
<1>2. ASSUME NEW s \in Services
      PROVE  /\ now(s) \in SUBSET Nodes /\ View(s)' = now(s)
             /\ s \in proven' <=> s \in proven \/ (life[s] # "new" /\ s.targets \subseteq now(s))
  BY <1>1 DEF View
<1>3. ASSUME NEW s \in Services
      PROVE  /\ events'[s] \in Seq(SUBSET Nodes) /\ Len(events'[s]) <= MaxEvents
             /\ \A i \in DOMAIN events'[s] : True(s, events[s][i])'
  <2>1. /\ events[s] \in Seq(SUBSET Nodes) /\ Len(events[s]) <= MaxEvents
        /\ \A i \in DOMAIN events[s] : True(s, events[s][i])
    BY DEF Typed, TypeOK, Sound
  <2>2. CASE events'[s] = events[s]
    BY <2>1, <2>2, <1>2 DEF True
  <2>3. CASE events'[s] = Buffered(events[s], now(s)) /\ life[s] # "new"
    <3> HIDE DEF now
    <3>1. /\ events'[s] \in Seq(SUBSET Nodes) /\ Len(events'[s]) <= MaxEvents
          /\ \A i \in DOMAIN events'[s] :
               \/ events'[s][i] = now(s)
               \/ \E j \in DOMAIN events[s] : events'[s][i] = events[s][j]
      BY <2>1, <2>3, <1>2, BufferedType
    <3> QED
      BY <2>1, <2>3, <3>1, <1>2 DEF True
  <2> QED
    BY <2>2, <2>3, <1>1
<1>4. Typed'
  <2>1. events' \in [Services -> Seq(SUBSET Nodes)]
    BY <1>1, <1>3 DEF Change
  <2>2. proven' \subseteq Services
    BY <1>1 DEF Typed
  <2> QED
    BY <1>1, <1>3, <2>1, <2>2 DEF Typed, TypeOK
<1>5. ASSUME NEW s \in Services PROVE Sound(s)'
  <2>1. (life[s] = "new" => events[s] = <<>> /\ s \notin reported)'
    BY <1>1 DEF Sound
  <2>2. (life[s] # "new" => True(s, View(s)))'
    BY <1>1, <1>2 DEF True
  <2>3. /\ (worker[s] = "holding" => True(s, held[s]))'
        /\ (s \in reported => s \in proven)'
    BY <1>1, <1>2 DEF Sound, True
  <2>4. OneLine(s)'
    BY <1>1 DEF Sound, OneLine
  <2>5. (s \in proven /\ losses = 0 => AllUp(s))'
    BY <1>1, <1>2 DEF Sound, AllUp, View
  <2> QED
    BY <1>3, <2>1, <2>2, <2>3, <2>4, <2>5 DEF Sound
<1> QED
  BY <1>1, <1>4, <1>5

LEMMA MeshInv ==
  ASSUME Inv, NEW s \in Services, NEW m \in s.targets, PeerReady(s.node, m) \/ PeerLost(s.node, m)
  PROVE  Inv'
<1>1. s.node \in Nodes /\ m \in Nodes /\ links \subseteq Nodes \X Nodes /\ losses \in 0 .. MaxLosses
  BY DEF Nodes, Inv, Typed, TypeOK
<1>2. CASE PeerReady(s.node, m)
  BY <1>1, <1>2, ChangeInv DEF PeerReady
<1>3. CASE PeerLost(s.node, m)
  BY <1>1, <1>3, ChangeInv, ReadinessAssumption DEF PeerLost
<1> QED
  BY <1>2, <1>3

\* What a service's own steps leave alone.
Own(s) ==
  /\ UNCHANGED <<links, losses, lossy, client>>
  /\ \A t \in Services \ {s} :
       /\ life'[t] = life[t] /\ events'[t] = events[t] /\ callback'[t] = callback[t]
       /\ worker'[t] = worker[t] /\ held'[t] = held[t] /\ (t \in reported' <=> t \in reported)
       /\ lines'[t] = lines[t] /\ (t \in proven' <=> t \in proven)

LEMMA OwnInv ==
  ASSUME Inv, NEW s \in Services, Own(s), Typed', Sound(s)', lines'[s] >= lines[s]
  PROVE  Inv'
<1>1. ASSUME NEW t \in Services \ {s} PROVE Sound(t)'
  BY DEF Inv, Own, Sound, True, View, OneLine, AllUp
<1>2. ASSUME client, NEW t \in Services PROVE lines'[t] > 0
  <2>1. lines[t] \in Nat /\ lines'[t] \in Nat /\ lines[t] > 0
    BY <1>2 DEF Inv, Typed
  <2> QED
    BY <2>1 DEF Own
<1>3. client' <=> client
  BY DEF Own
<1> QED
  BY <1>1, <1>2, <1>3 DEF Inv

\* Each step of a service's life and of its two threads.
LEMMA ServiceInv ==
  ASSUME Inv, NEW s \in Services,
         \/ Start(s) \/ StartWorker(s) \/ Look(s) \/ Report(s) \/ OnObserved(s) \/ PrintLine(s)
         \/ RequestStop(s) \/ Stop(s)
  PROVE  Inv'
<1> USE DEF Inv
<1>0. /\ Typed /\ Sound(s) /\ s.polls \in BOOLEAN /\ View(s) \in SUBSET Nodes
      /\ lines[s] \in Nat /\ events[s] \in Seq(SUBSET Nodes)
  BY ReadinessAssumption DEF Typed, View
<1>1. CASE Start(s)
  <2>1. Own(s) /\ Typed'
    BY <1>0, <1>1 DEF Start, Own, Typed, TypeOK
  <2>2. Sound(s)'
    BY <1>0, <1>1 DEF Start, Sound, True, View, OneLine, AllUp, Typed, TypeOK
  <2> QED
    BY <1>0, <1>1, <2>1, <2>2, OwnInv DEF Start
<1>2. CASE StartWorker(s)
  <2>1. Own(s) /\ Typed'
    BY <1>0, <1>2 DEF StartWorker, Own, Typed, TypeOK
  <2>2. Sound(s)'
    BY <1>0, <1>2 DEF StartWorker, Sound, True, View, OneLine, One, AllUp, Typed, TypeOK
  <2> QED
    BY <1>0, <1>2, <2>1, <2>2, OwnInv DEF StartWorker
<1>3. CASE Look(s)
  <2>1. Own(s) /\ Typed'
    BY <1>0, <1>3, ZenonT(60) DEF Look, Own, Typed, TypeOK
  <2>2. Sound(s)'
    BY <1>0, <1>3 DEF Look, Sound, True, View, OneLine, One, AllUp, Typed, TypeOK
  <2> QED
    BY <1>0, <1>3, <2>1, <2>2, OwnInv DEF Look
<1>4. CASE Report(s)
  <2>1. Own(s) /\ Typed'
    BY <1>0, <1>4, ZenonT(60) DEF Report, Own, Typed, TypeOK
  <2>2. Sound(s)'
    BY <1>0, <1>4 DEF Report, MayReport, Ready, Sound, True, View, OneLine, One, AllUp, Typed, TypeOK
  <2> QED
    BY <1>0, <1>4, <2>1, <2>2, OwnInv DEF Report
<1>5. CASE OnObserved(s)
  <2>1. /\ Head(events[s]) = events[s][1] /\ 1 \in DOMAIN events[s]
        /\ Tail(events[s]) \in Seq(SUBSET Nodes) /\ Len(Tail(events[s])) <= MaxEvents
        /\ \A i \in DOMAIN Tail(events[s]) : i + 1 \in DOMAIN events[s] /\ Tail(events[s])[i] = events[s][i + 1]
    BY <1>0, <1>5, HeadTailProperties, ReadinessAssumption DEF OnObserved, Typed, TypeOK
  <2>2. /\ \A t \in Services \ {s} : events'[t] = events[t]
        /\ events' \in [Services -> Seq(SUBSET Nodes)] /\ events'[s] = Tail(events[s])
    BY <1>0, <1>5, <2>1 DEF OnObserved, Typed
  <2>3. Own(s) /\ Typed'
    <3>1. /\ UNCHANGED <<links, losses, lossy, life, worker, held, lines, proven, client>>
          /\ callback' \in [Services -> {"idle", "printing"}] /\ reported' \subseteq Services
          /\ \A t \in Services \ {s} :
               callback'[t] = callback[t] /\ (t \in reported' <=> t \in reported)
      BY <1>0, <1>5 DEF OnObserved, Typed, TypeOK
    <3>2. \A t \in Services : Len(events'[t]) <= MaxEvents
      BY <1>0, <2>1, <2>2 DEF Typed, TypeOK
    <3>3. Own(s)
      BY <2>2, <3>1 DEF Own
    <3> QED
      BY <1>0, <2>2, <3>1, <3>2, <3>3 DEF Typed, TypeOK
  <2>4. /\ \A i \in DOMAIN events'[s] : True(s, events[s][i])'
        /\ life[s] # "new"
    BY <1>0, <1>5, <2>1, <2>2 DEF OnObserved, Sound, True
  <2>5. Sound(s)'
    BY <1>0, <1>5, <2>1, <2>4
       DEF OnObserved, MayReport, Ready, Sound, True, View, OneLine, One, AllUp, Typed, TypeOK
  <2> QED
    BY <1>0, <1>5, <2>3, <2>5, OwnInv DEF OnObserved
<1>6. CASE PrintLine(s)
  <2>1. /\ UNCHANGED <<links, losses, lossy, events, life, held, reported, proven, client>>
        /\ lines' = [lines EXCEPT ![s] = @ + 1]
        /\ callback' \in [Services -> {"idle", "printing"}]
        /\ worker' \in [Services -> {"none", "looking", "holding", "printing", "done"}]
        /\ worker[s] # "none" => worker'[s] # "none"
        /\ worker[s] = "none" => worker'[s] = "none"
        /\ worker[s] = "done" => worker'[s] = "done"
        /\ \A t \in Services \ {s} : callback'[t] = callback[t] /\ worker'[t] = worker[t]
    BY <1>0, <1>6 DEF PrintLine, Typed, TypeOK
  <2>2. lines' \in [Services -> Nat] /\ \A t \in Services \ {s} : lines'[t] = lines[t]
    BY <1>0, <2>1 DEF Typed
  <2>3. Own(s)
    BY <2>1, <2>2 DEF Own
  <2>4. TypeOK'
    BY <1>0, <2>1 DEF Typed, TypeOK
  <2>5. Typed'
    BY <1>0, <2>1, <2>2, <2>4 DEF Typed
  <2>6. Sound(s)'
    BY <1>0, <1>6 DEF PrintLine, Sound, True, View, OneLine, One, AllUp, Typed, TypeOK
  <2> QED
    BY <1>0, <1>6, <2>3, <2>5, <2>6, OwnInv DEF PrintLine, Typed
<1>7. CASE RequestStop(s)
  <2>1. Own(s) /\ Typed'
    BY <1>0, <1>7, ReadinessAssumption DEF RequestStop, Own, Typed, TypeOK
  <2>2. Sound(s)'
    BY <1>0, <1>7 DEF RequestStop, Sound, True, View, OneLine, One, AllUp, Typed, TypeOK
  <2> QED
    BY <1>0, <1>7, <2>1, <2>2, OwnInv DEF RequestStop
<1>8. CASE Stop(s)
  <2>1. Own(s) /\ Typed'
    BY <1>0, <1>8 DEF Stop, Joined, Own, Typed, TypeOK
  <2>2. Sound(s)'
    BY <1>0, <1>8 DEF Stop, Sound, True, View, OneLine, One, AllUp, Typed, TypeOK
  <2> QED
    BY <1>0, <1>8, <2>1, <2>2, OwnInv DEF Stop
<1> QED
  BY <1>1, <1>2, <1>3, <1>4, <1>5, <1>6, <1>7, <1>8

LEMMA NextInv ==
  ASSUME Inv, [Next]_vars
  PROVE  Inv'
<1>1. CASE StartClient
  BY <1>1 DEF StartClient, threads, Inv, Typed, TypeOK, Sound, True, View, OneLine, AllUp
<1>2. CASE UNCHANGED vars
  BY <1>2 DEF vars, threads, Inv, Typed, TypeOK, Sound, True, View, OneLine, AllUp
<1> QED
  BY <1>1, <1>2, MeshInv, ServiceInv DEF Next

-----------------------------------------------------------------------------
\* For any services and any mesh a service prints its line once, whichever thread sees
\* the peers, and only if all of them were ready at one time since it started; and
\* while no peer was lost, the client runs only when every route is up.
THEOREM LineIsTrue == Spec => []LineProven
<1>1. Inv => LineProven
  <2> SUFFICES ASSUME Inv PROVE LineProven
    OBVIOUS
  <2>1. ASSUME NEW s \in Services, client, losses = 0 PROVE AllUp(s)
    <3>1. lines[s] \in Nat /\ lines[s] > 0 /\ Sound(s)
      BY <2>1 DEF Inv, Typed
    <3>2. s \in reported
      BY <3>1 DEF Sound, OneLine, One
    <3> QED
      BY <2>1, <3>1, <3>2 DEF Sound
  <2> QED
    BY <2>1 DEF Inv, Typed, Sound, LineProven
<1> QED
  BY InitInv, NextInv, <1>1, PTL DEF Spec
=============================================================================
