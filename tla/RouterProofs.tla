----------------------------- MODULE RouterProofs -----------------------------
(***************************************************************************)
(* Theorems about Router, for any finite set of inputs, any devices,       *)
(* presets and slot limit: an engine that runs is the one its bus asks     *)
(* for, a command changes what is heard as asked or not at all, and the    *)
(* watcher uses a device that comes back.                                  *)
(***************************************************************************)
EXTENDS Router, FiniteSetTheorems, TLAPS

-----------------------------------------------------------------------------
(* The inductive invariant: RunningBusIsClean, bus by bus *)

Clean(r) == /\ r.engine # None => /\ r.enabled /\ ~r.error
                                  /\ r.engine.out = r.output
            /\ r.rec => r.engine # None

Inv == TypeOK /\ \A b \in Buses : Clean(bus[b])

Graphs == [Inputs -> Channel \union {None}]

-----------------------------------------------------------------------------
(* What a rebuild of a bus returns *)

LEMMA EffectiveIsInputs ==
    ASSUME NEW g, NEW b PROVE Effective(g, b) \subseteq Inputs
  BY DEF Effective, InGraph

LEMMA TornDownType ==
    ASSUME NEW r \in Bus
    PROVE  /\ TornDown(r) \in Bus /\ Clean(TornDown(r))
           /\ TornDown(r).enabled = r.enabled /\ TornDown(r).output = r.output
           /\ TornDown(r).engine = None
           /\ ~TornDown(r).rec /\ TornDown(r).error = r.error
  BY DEF TornDown, Bus, Clean

(* An engine that starts has the wanted inputs in its slots, at least one  *)
(* and no more than it has slots.                                          *)
LEMMA StartedEngine ==
    ASSUME NEW r \in Bus, NEW g, NEW b, NEW av,
           Wanted(r, g, b, av) # {}, Starts(r.output, Wanted(r, g, b, av))
    PROVE  [out |-> r.output, carries |-> Wanted(r, g, b, av), lost |-> {}] \in Engine
  <1> DEFINE ins == Wanted(r, g, b, av)
  <1>1. r.enabled /\ r.output # None /\ ins = Effective(g, b) \intersect av
    BY DEF Wanted
  <1>2. ins \subseteq Inputs
    BY <1>1, EffectiveIsInputs
  <1>3. Cardinality(ins) <= MaxInputs
    BY DEF Starts
  <1>4. Cardinality(ins) \in Nat /\ Cardinality(ins) # 0
    BY <1>2, FS_Subset, FS_EmptySet, FS_CardinalityType, RouterAssumption
  <1>5. ins \in Slots
    BY <1>2, <1>3, <1>4, RouterAssumption DEF Slots
  <1>6. r.output \in Outputs
    BY <1>1 DEF Bus
  <1> QED BY <1>5, <1>6 DEF Engine

(* The three outcomes of rebuild_bus_filtered: no engine is wanted, the    *)
(* wanted one runs, or it could not be started.                            *)
LEMMA RebuildOutcome ==
    ASSUME NEW r \in Bus, NEW g, NEW b, NEW av
    PROVE  LET ins == Wanted(r, g, b, av)
               x   == Rebuilt(r, g, b, av)
           IN  /\ x \in Bus /\ Clean(x)
               /\ x.enabled = r.enabled /\ x.output = r.output /\ ~x.rec
               /\ \/ ins = {} /\ x.engine = None
                  \/ /\ ins # {} /\ ~Fails(r, g, b, av) /\ Starts(r.output, ins)
                     /\ x.engine # None /\ x.engine.carries = ins
                  \/ ins # {} /\ Fails(r, g, b, av) /\ x.engine = None /\ x.error
  <1> DEFINE ins == Wanted(r, g, b, av)
             e   == [out |-> r.output, carries |-> ins, lost |-> {}]
             t   == TornDown(r)
  <1>t. /\ t \in Bus /\ Clean(t) /\ t.enabled = r.enabled /\ t.output = r.output
        /\ t.engine = None /\ ~t.rec
    BY TornDownType
  <1>1. CASE ins = {}
    <2>1. Rebuilt(r, g, b, av) = t
      BY <1>1 DEF Rebuilt
    <2> QED BY <1>1, <1>t, <2>1
  <1>2. CASE ins # {} /\ Starts(r.output, ins)
    <2> DEFINE y == [t EXCEPT !.error = FALSE, !.engine = e]
    <2>1. Rebuilt(r, g, b, av) = y
      BY <1>2 DEF Rebuilt
    <2>2. e \in Engine /\ e.out = r.output /\ e.carries = ins
      BY <1>2, StartedEngine
    <2>3. e # None
      BY <2>2, NoneAssumption
    <2>4. r.enabled
      BY <1>2 DEF Wanted
    <2>e. ~Fails(r, g, b, av)
      BY <1>2 DEF Fails
    <2> HIDE DEF e, t
    <2>5. /\ y \in Bus /\ y.enabled = t.enabled /\ y.output = t.output
          /\ y.engine = e /\ y.error = FALSE /\ y.rec = t.rec
      BY <1>t, <2>2 DEF Bus
    <2> HIDE DEF y
    <2>6. Clean(y)
      BY <1>t, <2>2, <2>3, <2>4, <2>5 DEF Clean
    <2> QED BY <1>2, <1>t, <2>1, <2>2, <2>3, <2>e, <2>5, <2>6
  <1>3. CASE ins # {} /\ ~Starts(r.output, ins)
    <2> DEFINE y == [t EXCEPT !.error = TRUE]
    <2>1. Rebuilt(r, g, b, av) = y
      BY <1>3 DEF Rebuilt
    <2>2. Fails(r, g, b, av)
      BY <1>3 DEF Fails
    <2> HIDE DEF t
    <2>3. /\ y \in Bus /\ y.enabled = t.enabled /\ y.output = t.output
          /\ y.engine = None /\ y.error = TRUE /\ y.rec = t.rec
      BY <1>t DEF Bus
    <2> HIDE DEF y
    <2>4. Clean(y)
      BY <1>t, <2>3 DEF Clean
    <2> QED BY <1>3, <1>t, <2>1, <2>2, <2>3, <2>4
  <1> QED BY <1>1, <1>2, <1>3


(* Several buses, each rebuilt or left alone.                              *)
Sound(f) == f \in [Buses -> Bus] /\ \A b \in Buses : Clean(f[b])

LEMMA RebuiltEachIsSound ==
    ASSUME Inv, NEW g, NEW S PROVE Sound(RebuiltEach(g, S))
  <1>1. \A b \in Buses : bus[b] \in Bus /\ Clean(bus[b])
    BY DEF Inv, TypeOK
  <1>2. \A b \in Buses : RebuiltEach(g, S)[b] \in Bus /\ Clean(RebuiltEach(g, S)[b])
    BY <1>1, RebuildOutcome DEF RebuiltEach
  <1> QED BY <1>2 DEF Sound, RebuiltEach

-----------------------------------------------------------------------------
(* What the operations on the graph do to what a bus hears *)

LEMMA ChannelFields ==
    ASSUME NEW g \in Graphs, NEW i \in InGraph(g)
    PROVE  g[i] \in Channel /\ g[i].sends \subseteq Buses /\ g[i].monitor \in BOOLEAN
  BY DEF Graphs, InGraph, Channel

LEMMA NewChannelType ==
    /\ NewChannel \in Channel /\ NewChannel # None
    /\ NewChannel.sends = {} /\ NewChannel.monitor = FALSE
    /\ \A S \in SUBSET Buses : LET c == [NewChannel EXCEPT !.sends = S]
                               IN  c \in Channel /\ c # None /\ c.sends = S
  <1>1. NewChannel \in Channel /\ NewChannel.sends = {} /\ NewChannel.monitor = FALSE
    BY DEF NewChannel, Channel
  <1>2. ASSUME NEW S \in SUBSET Buses
        PROVE  /\ [NewChannel EXCEPT !.sends = S] \in Channel
               /\ [NewChannel EXCEPT !.sends = S].sends = S
    BY <1>1 DEF Channel
  <1> QED BY <1>1, <1>2, NoneAssumption

(* ensure_input_source takes nothing off a bus.                            *)
LEMMA AddedGraph ==
    ASSUME NEW g \in Graphs, NEW i \in Inputs
    PROVE  /\ Added(g, i) \in Graphs /\ InGraph(Added(g, i)) = InGraph(g) \union {i}
           /\ \A b : Effective(Added(g, i), b) = Effective(g, b)
  <1>1. CASE g[i] = None
    <2>1. Added(g, i) \in Graphs /\ InGraph(Added(g, i)) = InGraph(g) \union {i}
      BY <1>1, NewChannelType DEF Added, Graphs, InGraph
    <2>2. /\ Added(g, i)[i] = NewChannel
          /\ \A x \in Inputs \ {i} : Added(g, i)[x] = g[x]
      BY <1>1 DEF Added, Graphs
    <2>3. i \notin InGraph(g)
      BY <1>1 DEF InGraph
    <2>4. ASSUME NEW b PROVE Effective(Added(g, i), b) = Effective(g, b)
      BY <2>1, <2>2, <2>3, NewChannelType DEF Effective, InGraph
    <2> QED BY <2>1, <2>4
  <1>2. CASE g[i] # None
    BY <1>2 DEF Added, InGraph
  <1> QED BY <1>1, <1>2

LEMMA WithoutGraph ==
    ASSUME graph \in Graphs, NEW i \in Inputs
    PROVE  /\ Without(i) \in Graphs /\ InGraph(Without(i)) = InGraph(graph) \ {i}
           /\ \A b : Effective(Without(i), b) = Effective(graph, b) \ {i}
  <1>1. /\ Without(i) \in Graphs /\ Without(i)[i] = None
        /\ \A x \in Inputs \ {i} : Without(i)[x] = graph[x]
    BY DEF Without, Graphs
  <1>2. InGraph(Without(i)) = InGraph(graph) \ {i}
    BY <1>1 DEF InGraph
  <1> QED BY <1>1, <1>2 DEF Effective, InGraph

(* The buses rebuilt for an input are those it is heard on.                *)
LEMMA AffectedIsWhereHeard ==
    ASSUME graph \in Graphs, NEW i \in InGraph(graph)
    PROVE  /\ Affected(i) \subseteq Buses
           /\ \A b : i \in Effective(graph, b) <=> b \in Affected(i)
  <1>1. graph[i].sends \subseteq Buses /\ i \in Inputs
    BY ChannelFields DEF InGraph
  <1> QED BY <1>1, RouterAssumption DEF Affected, Effective

LEMMA ReplacingGraph ==
    ASSUME graph \in Graphs, NEW i \in InGraph(graph), NEW j \in Inputs \ InGraph(graph)
    PROVE  /\ Replacing(i, j) \in Graphs
           /\ \A b : Effective(graph, b) \ {i} \subseteq Effective(Replacing(i, j), b)
  <1>1. /\ i \in Inputs /\ i # j /\ graph[i] \in Channel
    BY ChannelFields DEF InGraph
  <1>2. /\ Replacing(i, j) \in Graphs
        /\ \A x \in Inputs \ {i, j} : Replacing(i, j)[x] = graph[x]
    BY <1>1 DEF Replacing, Without, Graphs
  <1> QED BY <1>1, <1>2 DEF Effective, InGraph

LEMMA MonitoringGraph ==
    ASSUME graph \in Graphs, NEW i \in InGraph(graph), NEW on \in BOOLEAN
    PROVE  /\ Monitoring(i, on) \in Graphs
           /\ \A b \in Buses \ {"A1"} : Effective(Monitoring(i, on), b) = Effective(graph, b)
  <1> DEFINE c == [graph[i] EXCEPT !.monitor = on]
  <1>1. i \in Inputs /\ graph[i] \in Channel /\ graph[i] # None
    BY ChannelFields DEF InGraph
  <1>2. c \in Channel /\ c.sends = graph[i].sends
    BY <1>1 DEF Channel
  <1>3. c # None
    BY <1>2, NoneAssumption
  <1> HIDE DEF c
  <1>4. Monitoring(i, on) = [graph EXCEPT ![i] = c]
    BY <1>1 DEF Monitoring, Graphs, c
  <1>5. /\ Monitoring(i, on) \in Graphs /\ Monitoring(i, on)[i] = c
        /\ \A x \in Inputs \ {i} : Monitoring(i, on)[x] = graph[x]
    BY <1>1, <1>2, <1>4 DEF Graphs
  <1> QED BY <1>1, <1>2, <1>3, <1>5 DEF Effective, InGraph

(* A send changes what one bus hears.                                      *)
LEMMA SendingGraph ==
    ASSUME NEW g \in Graphs, NEW i \in InGraph(g), NEW b \in Buses, NEW on \in BOOLEAN
    PROVE  /\ Sending(g, i, b, on) \in Graphs
           /\ \A d \in Buses \ {b} : Effective(Sending(g, i, b, on), d) = Effective(g, d)
  <1> DEFINE s == IF on THEN g[i].sends \union {b} ELSE g[i].sends \ {b}
             c == [g[i] EXCEPT !.sends = s]
  <1>1. i \in Inputs /\ g[i] \in Channel /\ g[i] # None /\ g[i].sends \subseteq Buses
    BY ChannelFields DEF InGraph
  <1>2. s \subseteq Buses /\ \A d : d # b => (d \in s <=> d \in g[i].sends)
    BY <1>1
  <1>d. Sending(g, i, b, on) = [g EXCEPT ![i] = c]
    BY <1>1 DEF Sending, Graphs
  <1> HIDE DEF s
  <1>3. c \in Channel /\ c.sends = s /\ c.monitor = g[i].monitor
    BY <1>1, <1>2 DEF Channel
  <1>4. c # None
    BY <1>3, NoneAssumption
  <1> HIDE DEF c
  <1>5. /\ Sending(g, i, b, on) \in Graphs /\ Sending(g, i, b, on)[i] = c
        /\ \A x \in Inputs \ {i} : Sending(g, i, b, on)[x] = g[x]
    BY <1>1, <1>3, <1>d DEF Graphs
  <1> QED BY <1>1, <1>2, <1>3, <1>4, <1>5 DEF Effective, InGraph

LEMMA AppliedGraphType == ASSUME NEW p \in Presets PROVE AppliedGraph(p) \in Graphs
  BY NewChannelType, PresetAssumption DEF AppliedGraph, Graphs

LEMMA SyncedType ==
    ASSUME NEW g, NEW t \in [Mics -> {"none", "live", "dead"}]
    PROVE  Synced(g, t) \in [Mics -> {"none", "live", "dead"}]
  BY DEF Synced


-----------------------------------------------------------------------------
(* Every step keeps the invariant *)

LEMMA InvAsSound == Inv <=> TypeOK /\ Sound(bus)
  BY DEF Inv, Sound, TypeOK

LEMMA GraphIsGraph == ASSUME Inv PROVE graph \in Graphs
  BY DEF Inv, TypeOK, Graphs

(* A command changes the graph, the buses and the taps only.               *)
LEMMA CommandStep ==
    ASSUME Inv, graph' \in Graphs, Sound(bus)', UNCHANGED <<watcher, machine>>,
           taps' \in [Mics -> {"none", "live", "dead"}]
    PROVE  Inv'
  <1>1. UNCHANGED <<prev, seen, there, busy, mute>>
    BY DEF watcher, machine
  <1> QED BY <1>1 DEF Inv, TypeOK, Sound, Graphs

(* One bus is replaced by a clean one.                                     *)
LEMMA OneBusIsSound ==
    ASSUME Inv, NEW b \in Buses, NEW r \in Bus, Clean(r)
    PROVE  Sound([bus EXCEPT ![b] = r])
  BY DEF Inv, TypeOK, Sound

LEMMA SilencedType ==
    ASSUME NEW r \in Bus
    PROVE  /\ Silenced(r) \in Bus /\ Clean(Silenced(r)) /\ Silenced(r).engine = None
           /\ Silenced(r).enabled = r.enabled /\ Silenced(r).output = r.output
  <1> DEFINE t == TornDown(r)
  <1>1. /\ t \in Bus /\ Clean(t) /\ t.engine = None /\ ~t.rec
        /\ t.enabled = r.enabled /\ t.output = r.output
    BY TornDownType
  <1>2. Silenced(r) = [t EXCEPT !.error = FALSE]
    BY DEF Silenced
  <1> HIDE DEF t
  <1>3. /\ Silenced(r) \in Bus /\ Silenced(r).engine = None /\ Silenced(r).rec = t.rec
        /\ Silenced(r).enabled = t.enabled /\ Silenced(r).output = t.output
    BY <1>1, <1>2 DEF Bus
  <1> QED BY <1>1, <1>3 DEF Clean

LEMMA BoundType ==
    ASSUME NEW r \in Bus, NEW out \in Outputs PROVE Bound(r, out) \in Bus
  BY DEF Bound, Bus

LEMMA SettingType ==
    ASSUME Inv, NEW b \in Buses, NEW on \in BOOLEAN, NEW out \in Outputs \union {None}
    PROVE  /\ Setting(b, on, out) \in Bus
           /\ Setting(b, on, out).enabled = on /\ Setting(b, on, out).output = out
  BY DEF Inv, TypeOK, Setting, Bus

(* A rollback rebuilds with the settings of before.                        *)
LEMMA RestoredType ==
    ASSUME NEW r \in Bus, NEW x \in Bus
    PROVE  LET old == [r EXCEPT !.enabled = x.enabled, !.output = x.output]
           IN  old \in Bus /\ old.enabled = x.enabled /\ old.output = x.output
  BY DEF Bus

LEMMA EnvironmentKeepsInv == ASSUME Inv, Environment PROVE Inv'
  <1>1. ASSUME NEW d \in Unsteady, Plug(d) PROVE Inv'
    <2>1. /\ UNCHANGED <<graph, bus, taps, prev, seen, busy, mute>>
          /\ there' = there \union {d}
      BY <1>1 DEF Plug, watcher
    <2>2. d \in Devices
      BY RouterAssumption
    <2> QED BY <2>1, <2>2 DEF Inv, TypeOK, Clean
  <1>2. ASSUME NEW d \in Unsteady, Unplug(d) PROVE Inv'
    <2> DEFINE Hit(r) == IF r.engine # None /\ d \in {r.engine.out} \union r.engine.carries
                         THEN [r EXCEPT !.engine.lost = @ \union {d}] ELSE r
    <2>1. /\ UNCHANGED <<graph, prev, seen, mute>>
          /\ there' = there \ {d} /\ busy' = busy \ {d}
          /\ bus' = [b \in Buses |-> Hit(bus[b])]
          /\ taps' = [m \in Mics |-> IF m = d /\ taps[m] = "live" THEN "dead" ELSE taps[m]]
      BY <1>2 DEF Unplug, watcher
    <2>2. d \in Devices
      BY RouterAssumption
    <2>3. ASSUME NEW b \in Buses PROVE Hit(bus[b]) \in Bus /\ Clean(Hit(bus[b]))
      <3> DEFINE r == bus[b]
                 e == [r.engine EXCEPT !.lost = @ \union {d}]
                 y == [r EXCEPT !.engine = e]
      <3>1. r \in Bus /\ Clean(r)
        BY DEF Inv, TypeOK
      <3>2. CASE r.engine # None /\ d \in {r.engine.out} \union r.engine.carries
        <4>1. r.engine \in Engine
          BY <3>1, <3>2 DEF Bus
        <4>2. e \in Engine /\ e.out = r.engine.out
          BY <2>2, <4>1 DEF Engine
        <4>3. e # None
          BY <4>2, NoneAssumption
        <4>4. Hit(r) = y
          BY <3>1, <3>2 DEF Bus
        <4> HIDE DEF e, r
        <4>5. /\ y \in Bus /\ y.engine = e /\ y.enabled = r.enabled /\ y.output = r.output
              /\ y.error = r.error /\ y.rec = r.rec
          BY <3>1, <4>2 DEF Bus
        <4> HIDE DEF y, Hit
        <4> QED BY <3>1, <3>2, <4>2, <4>3, <4>4, <4>5 DEF Clean, r
      <3> QED BY <3>1, <3>2
    <2> HIDE DEF Hit
    <2>4. bus' \in [Buses -> Bus] /\ \A b \in Buses : Clean(bus'[b])
      BY <2>1, <2>3
    <2>5. \A b \in Buses : Clean(bus[b])'
      BY <2>4 DEF Clean
    <2>6. taps' \in [Mics -> {"none", "live", "dead"}]
      BY <2>1 DEF Inv, TypeOK
    <2>7. there' \subseteq Devices /\ busy' \subseteq there'
      BY <2>1 DEF Inv, TypeOK
    <2> QED BY <2>1, <2>4, <2>5, <2>6, <2>7 DEF Inv, TypeOK
  <1>3. ASSUME NEW d \in Contended, Occupy(d) PROVE Inv'
    <2>1. UNCHANGED <<graph, bus, taps, prev, seen, there, mute>> /\ busy' \subseteq there
      BY <1>3 DEF Occupy, watcher, Inv, TypeOK
    <2> QED BY <2>1 DEF Inv, TypeOK, Clean
  <1>4. ASSUME NEW i \in Loopbacks, Play(i) PROVE Inv'
    <2>1. UNCHANGED <<graph, bus, taps, prev, seen, there, busy>> /\ mute' \subseteq Loopbacks
      BY <1>4 DEF Play, watcher, Inv, TypeOK
    <2> QED BY <2>1 DEF Inv, TypeOK, Clean
  <1> QED BY <1>1, <1>2, <1>3, <1>4 DEF Environment


LEMMA BusTypes == ASSUME Inv, NEW b \in Buses PROVE bus[b] \in Bus /\ Clean(bus[b])
  BY DEF Inv, TypeOK

LEMMA TapsType == ASSUME Inv PROVE taps \in [Mics -> {"none", "live", "dead"}]
  BY DEF Inv, TypeOK

LEMMA InputsKeepInv ==
    ASSUME Inv, NEW i \in Inputs,
           \/ AddInput(i) \/ RemoveInput(i) \/ DisconnectPhone(i)
           \/ \E j \in Inputs : ReplaceInput(i, j)
    PROVE  Inv'
  <1>g. graph \in Graphs
    BY GraphIsGraph
  <1>s. Sound(bus)
    BY InvAsSound
  <1>1. CASE AddInput(i)
    <2>1. graph' = Added(graph, i) /\ taps' = Synced(graph', taps)
          /\ UNCHANGED <<bus, watcher, machine>>
      BY <1>1 DEF AddInput
    <2>2. graph' \in Graphs
      BY <1>g, <2>1, AddedGraph
    <2>3. Sound(bus)'
      BY <1>s, <2>1 DEF Sound, Clean
    <2> QED BY <2>1, <2>2, <2>3, SyncedType, TapsType, CommandStep
  <1>2. ASSUME NEW t \in [Mics -> {"none", "live", "dead"}], Removed(i, t) PROVE Inv'
    <2>1. /\ graph' = Without(i) /\ taps' \in {t, taps}
          /\ \E S : bus' = RebuiltEach(Without(i), S)
          /\ UNCHANGED <<watcher, machine>>
      BY <1>2 DEF Removed
    <2>2. graph' \in Graphs
      BY <1>g, <2>1, WithoutGraph
    <2>3. PICK S : bus' = RebuiltEach(Without(i), S)
      BY <2>1
    <2>4. Sound(RebuiltEach(Without(i), S))
      BY RebuiltEachIsSound
    <2>5. Sound(bus)'
      BY <2>3, <2>4 DEF Sound, Clean
    <2> QED BY <2>1, <2>2, <2>5, TapsType, CommandStep
  <1>3. CASE RemoveInput(i)
    BY <1>2, <1>3, SyncedType, TapsType DEF RemoveInput
  <1>4. CASE DisconnectPhone(i)
    BY <1>2, <1>4, TapsType DEF DisconnectPhone
  <1>5. ASSUME NEW j \in Inputs, ReplaceInput(i, j) PROVE Inv'
    <2> DEFINE failing == ReplaceFails(i, j)
               tried == RebuiltEach(Replacing(i, j), Reached(i, failing))
    <2>1. /\ i \in InGraph(graph) /\ j \in Inputs \ InGraph(graph)
          /\ UNCHANGED <<watcher, machine>>
      BY <1>5 DEF ReplaceInput
    <2>2. Sound(tried)
      BY RebuiltEachIsSound
    <2>3. CASE failing = {}
      <3>1. graph' = Replacing(i, j) /\ bus' = tried /\ taps' = Synced(graph', taps)
        BY <1>5, <2>3 DEF ReplaceInput
      <3>2. graph' \in Graphs
        BY <1>g, <2>1, <3>1, ReplacingGraph
      <3> HIDE DEF tried, failing
      <3>3. Sound(bus)'
        BY <2>2, <3>1 DEF Sound, Clean
      <3> QED BY <2>1, <3>1, <3>2, <3>3, SyncedType, TapsType, CommandStep
    <2>4. CASE failing # {}
      <3>1. /\ bus' = [b \in Buses |-> IF b \in Affected(i)
                                       THEN RolledBack(tried[b], b) ELSE bus[b]]
            /\ UNCHANGED <<graph, taps>>
        BY <1>5, <2>4 DEF ReplaceInput
      <3> HIDE DEF tried, failing
      <3>2. \A b \in Buses : RolledBack(tried[b], b) \in Bus /\ Clean(RolledBack(tried[b], b))
        BY <2>2, RebuildOutcome DEF Sound, RolledBack
      <3>3. \A b \in Buses : bus'[b] \in Bus /\ Clean(bus'[b])
        BY <1>s, <3>1, <3>2 DEF Sound
      <3>4. Sound(bus)'
        BY <3>1, <3>3 DEF Sound, Clean
      <3> QED BY <1>g, <2>1, <3>1, <3>4, TapsType, CommandStep
    <2> QED BY <2>3, <2>4
  <1> QED BY <1>1, <1>3, <1>4, <1>5

LEMMA SendsKeepInv ==
    ASSUME Inv, NEW i \in Inputs, NEW on \in BOOLEAN,
           \/ SetInputMonitor(i, on)
           \/ \E b \in Buses : SetSend(i, b, on)
    PROVE  Inv'
  <1>g. graph \in Graphs
    BY GraphIsGraph
  <1>1. CASE SetInputMonitor(i, on)
    <2>1. /\ i \in InGraph(graph)
          /\ bus' = RebuiltEach(Monitoring(i, on), {"A1"})
          /\ graph' \in {graph, Monitoring(i, on)}
          /\ UNCHANGED <<taps, watcher, machine>>
      BY <1>1 DEF SetInputMonitor
    <2>2. graph' \in Graphs
      BY <1>g, <2>1, MonitoringGraph
    <2>3. Sound(RebuiltEach(Monitoring(i, on), {"A1"}))
      BY RebuiltEachIsSound
    <2>4. Sound(bus)'
      BY <2>1, <2>3 DEF Sound, Clean
    <2> QED BY <2>1, <2>2, <2>4, TapsType, CommandStep
  <1>2. ASSUME NEW b \in Buses, SetSend(i, b, on) PROVE Inv'
    <2> DEFINE g == Sending(graph, i, b, on)
               r == Rebuilt(bus[b], g, b, Inputs)
               x == IF SendFails(i, b, on) THEN RolledBack(r, b) ELSE r
    <2>1. /\ i \in InGraph(graph) /\ graph' \in {graph, g}
          /\ bus' = [bus EXCEPT ![b] = x]
          /\ UNCHANGED <<taps, watcher, machine>>
      BY <1>2 DEF SetSend
    <2>2. graph' \in Graphs
      BY <1>g, <2>1, SendingGraph
    <2>3. r \in Bus /\ Clean(r)
      BY BusTypes, RebuildOutcome
    <2>4. RolledBack(r, b) \in Bus /\ Clean(RolledBack(r, b))
      <3> HIDE DEF r
      <3> QED BY <2>3, RebuildOutcome DEF RolledBack
    <2>5. Sound([bus EXCEPT ![b] = x])
      <3>1. x \in Bus /\ Clean(x)
        BY <2>3, <2>4
      <3> HIDE DEF x
      <3> QED BY <3>1, OneBusIsSound
    <2> HIDE DEF x
    <2>6. Sound(bus)'
      BY <2>1, <2>5 DEF Sound, Clean
    <2> QED BY <2>1, <2>2, <2>6, TapsType, CommandStep
  <1> QED BY <1>1, <1>2

LEMMA BusesKeepInv ==
    ASSUME Inv, NEW b \in Buses,
           \/ Record(b) \/ StopRecording(b)
           \/ \E on \in BOOLEAN, out \in Outputs \union {None} : SetBus(b, on, out)
    PROVE  Inv'
  <1>g. graph \in Graphs
    BY GraphIsGraph
  <1>b. bus[b] \in Bus /\ Clean(bus[b])
    BY BusTypes
  <1>1. ASSUME NEW on \in BOOLEAN, bus' = [bus EXCEPT ![b].rec = on],
               on => bus[b].engine # None, UNCHANGED <<graph, taps, watcher, machine>>
        PROVE  Inv'
    <2> DEFINE y == [bus[b] EXCEPT !.rec = on]
    <2>1. y \in Bus /\ Clean(y)
      BY <1>b, <1>1 DEF Bus, Clean
    <2>2. bus' = [bus EXCEPT ![b] = y]
      BY <1>1 DEF Inv, TypeOK
    <2> HIDE DEF y
    <2>3. Sound([bus EXCEPT ![b] = y])
      BY <2>1, OneBusIsSound
    <2>4. Sound(bus)'
      BY <2>2, <2>3 DEF Sound, Clean
    <2> QED BY <1>g, <1>1, <2>4, TapsType, CommandStep
  <1>2. ASSUME NEW on \in BOOLEAN, NEW out \in Outputs \union {None}, SetBus(b, on, out)
        PROVE  Inv'
    <2> DEFINE r == Rebuilt(Setting(b, on, out), graph, b, Inputs)
               old == [r EXCEPT !.enabled = bus[b].enabled, !.output = bus[b].output]
               x == IF SettingFails(b, on, out) THEN RolledBack(old, b) ELSE r
    <2>1. /\ bus' = [bus EXCEPT ![b] = x]
          /\ UNCHANGED <<graph, taps, watcher, machine>>
      BY <1>2 DEF SetBus
    <2>2. r \in Bus /\ Clean(r)
      BY SettingType, RebuildOutcome
    <2>3. RolledBack(old, b) \in Bus /\ Clean(RolledBack(old, b))
      <3>1. old \in Bus
        <4> HIDE DEF r
        <4> QED BY <1>b, <2>2, RestoredType
      <3> HIDE DEF old
      <3> QED BY <3>1, RebuildOutcome DEF RolledBack
    <2>4. Sound([bus EXCEPT ![b] = x])
      <3>1. x \in Bus /\ Clean(x)
        BY <2>2, <2>3
      <3> HIDE DEF x
      <3> QED BY <3>1, OneBusIsSound
    <2> HIDE DEF x
    <2>5. Sound(bus)'
      BY <2>1, <2>4 DEF Sound, Clean
    <2> QED BY <1>g, <2>1, <2>5, TapsType, CommandStep
  <1> QED BY <1>1, <1>2 DEF Record, StopRecording


LEMMA FirstCommandsKeepInv ==
    ASSUME Inv,
           \/ ClearRoutes
           \/ \E i \in Inputs, o \in Outputs, on \in BOOLEAN : SetRoute(i, o, on)
           \/ \E i \in Inputs, o \in Outputs : StartPassthrough(i, o)
           \/ \E p \in Presets : LoadPreset(p)
    PROVE  Inv'
  <1>g. graph \in Graphs
    BY GraphIsGraph
  <1>a. "A1" \in Buses
    BY RouterAssumption
  <1>b. \A b \in Buses : Silenced(bus[b]) \in Bus /\ Clean(Silenced(bus[b]))
    BY BusTypes, SilencedType
  <1>1. CASE ClearRoutes
    <2>1. /\ graph' = Emptied /\ bus' = [b \in Buses |-> Silenced(bus[b])]
          /\ UNCHANGED <<taps, watcher, machine>>
      BY <1>1 DEF ClearRoutes
    <2>2. graph' \in Graphs
      BY <2>1 DEF Emptied, Graphs
    <2>3. \A b \in Buses : bus'[b] \in Bus /\ Clean(bus'[b])
      BY <1>b, <2>1
    <2>4. Sound(bus)'
      BY <2>1, <2>3 DEF Sound, Clean
    <2> QED BY <2>1, <2>2, <2>4, TapsType, CommandStep
  <1>2. ASSUME NEW i \in Inputs, NEW o \in Outputs, NEW on \in BOOLEAN, SetRoute(i, o, on)
        PROVE  Inv'
    <2> DEFINE g == Sending(Added(graph, i), i, "A1", on)
               r == IF on THEN Bound(bus["A1"], o) ELSE bus["A1"]
    <2>1. /\ graph' = g /\ bus' = [bus EXCEPT !["A1"] = Rebuilt(r, g, "A1", Inputs)]
          /\ UNCHANGED <<taps, watcher, machine>>
      BY <1>2 DEF SetRoute
    <2>2. graph' \in Graphs
      BY <1>g, <1>a, <2>1, AddedGraph, SendingGraph
    <2>3. r \in Bus
      BY <1>a, BusTypes, BoundType
    <2> HIDE DEF r, g
    <2>4. Rebuilt(r, g, "A1", Inputs) \in Bus /\ Clean(Rebuilt(r, g, "A1", Inputs))
      BY <2>3, RebuildOutcome
    <2>5. Sound([bus EXCEPT !["A1"] = Rebuilt(r, g, "A1", Inputs)])
      BY <1>a, <2>4, OneBusIsSound
    <2>6. Sound(bus)'
      BY <2>1, <2>5 DEF Sound, Clean
    <2> QED BY <2>1, <2>2, <2>6, TapsType, CommandStep
  <1>3. ASSUME NEW i \in Inputs, NEW o \in Outputs, StartPassthrough(i, o) PROVE Inv'
    <2> DEFINE g == [Emptied EXCEPT ![i] = [NewChannel EXCEPT !.sends = {"A1"}]]
               r == Bound(Silenced(bus["A1"]), o)
    <2>1. /\ graph' = g
          /\ bus' = [b \in Buses |-> IF b = "A1" THEN Rebuilt(r, g, b, Inputs)
                                     ELSE Silenced(bus[b])]
          /\ UNCHANGED <<taps, watcher, machine>>
      BY <1>3 DEF StartPassthrough
    <2>2. g \in Graphs
      BY <1>a, NewChannelType DEF Emptied, Graphs
    <2>3. r \in Bus
      BY <1>a, <1>b, BoundType
    <2> HIDE DEF r, g
    <2>4. \A b \in Buses : Rebuilt(r, g, b, Inputs) \in Bus /\ Clean(Rebuilt(r, g, b, Inputs))
      BY <2>3, RebuildOutcome
    <2>5. \A b \in Buses : bus'[b] \in Bus /\ Clean(bus'[b])
      BY <1>b, <2>1, <2>4
    <2>6. Sound(bus)'
      BY <2>1, <2>5 DEF Sound, Clean
    <2> QED BY <2>1, <2>2, <2>6, TapsType, CommandStep
  <1>4. ASSUME NEW p \in Presets, LoadPreset(p) PROVE Inv'
    <2>1. /\ graph' = AppliedGraph(p) /\ bus' = [b \in Buses |-> AppliedBus(bus[b], p, b)]
          /\ taps' = Synced(graph', taps) /\ UNCHANGED <<watcher, machine>>
      BY <1>4 DEF LoadPreset
    <2>2. graph' \in Graphs
      BY <2>1, AppliedGraphType
    <2>3. ASSUME NEW b \in Buses PROVE bus'[b] \in Bus /\ Clean(bus'[b])
      <3> DEFINE q  == Silenced(bus[b])
                 on == IF b \in DOMAIN p.output THEN p.enabled[b] ELSE q.enabled
                 out == IF b \in DOMAIN p.output THEN p.output[b] ELSE q.output
      <3>1. /\ q \in Bus /\ Clean(q) /\ q.engine = None
        BY BusTypes, SilencedType
      <3>2. on \in BOOLEAN /\ out \in Outputs \union {None}
        BY <3>1, PresetAssumption DEF Bus
      <3>3. bus'[b] = [q EXCEPT !.enabled = on, !.output = out]
        BY <2>1, <3>1 DEF AppliedBus, Bus
      <3> HIDE DEF q, on, out
      <3> QED BY <3>1, <3>2, <3>3 DEF Bus, Clean
    <2>4. Sound(bus)'
      BY <2>1, <2>3 DEF Sound, Clean
    <2> QED BY <2>1, <2>2, <2>4, SyncedType, TapsType, CommandStep
  <1> QED BY <1>1, <1>2, <1>3, <1>4

(* A bus after each of the four loops of handle_device_diff.               *)
LEMMA OutputGoneType ==
    ASSUME NEW r \in Bus, Clean(r)
    PROVE  /\ OutputGone(r) \in Bus /\ Clean(OutputGone(r))
           /\ OutputGone(r).enabled = r.enabled /\ OutputGone(r).output = r.output
           /\ OutputGone(r) = r \/ OutputGone(r).engine = None
  <1>1. CASE r.engine # None /\ r.output \in Gone
    <2> DEFINE t == TornDown(r)
    <2>1. /\ t \in Bus /\ Clean(t) /\ t.engine = None
          /\ t.enabled = r.enabled /\ t.output = r.output
      BY TornDownType
    <2>2. OutputGone(r) = [t EXCEPT !.error = TRUE]
      BY <1>1 DEF OutputGone
    <2> HIDE DEF t
    <2> QED BY <2>1, <2>2 DEF Bus, Clean
  <1>2. CASE ~(r.engine # None /\ r.output \in Gone)
    BY <1>2 DEF OutputGone
  <1> QED BY <1>1, <1>2

(* A bus that the watcher starts again has the inputs of the snapshot, or  *)
(* an error.                                                               *)
LEMMA ResumedType ==
    ASSUME NEW r \in Bus, NEW b
    PROVE  LET ins == Wanted(r, graph, b, Mics \intersect seen)
               x   == Resumed(r, b)
           IN  /\ x \in Bus /\ Clean(x)
               /\ x.enabled = r.enabled /\ x.output = r.output
               /\ x.engine # None => x.engine.carries = ins
               /\ ins # {} => x.engine # None \/ x.error
  <1> DEFINE av == Mics \intersect seen
             ins == Wanted(r, graph, b, av)
             f == Refiltered(r, b)
  <1>1. /\ f \in Bus /\ Clean(f) /\ f.enabled = r.enabled /\ f.output = r.output
        /\ f.engine # None => f.engine.carries = ins
        /\ ins # {} => f.engine # None \/ f.error
        /\ ins # {} /\ ~Fails(r, graph, b, av) => f.engine # None
    <2>1. f = Rebuilt(r, graph, b, av)
      BY DEF Refiltered
    <2> HIDE DEF f, av
    <2> QED BY <2>1, RebuildOutcome
  <1>2. CASE Fails(r, graph, b, av)
    <2>1. Resumed(r, b) = f
      BY <1>2 DEF Resumed
    <2> QED BY <1>1, <2>1
  <1>3. CASE ~Fails(r, graph, b, av)
    <2> DEFINE y == [f EXCEPT !.error = FALSE]
    <2>1. Resumed(r, b) = y
      BY <1>3 DEF Resumed
    <2> HIDE DEF f
    <2>2. /\ y \in Bus /\ y.enabled = f.enabled /\ y.output = f.output
          /\ y.engine = f.engine /\ y.rec = f.rec /\ y.error = FALSE
      BY <1>1 DEF Bus
    <2> HIDE DEF y
    <2>3. Clean(y)
      BY <1>1, <2>2 DEF Clean
    <2> QED BY <1>1, <1>3, <2>1, <2>2, <2>3
  <1> QED BY <1>2, <1>3

(* Each loop keeps the settings; it leaves the engine alone, removes it,   *)
(* or starts one with wanted inputs.                                       *)
KeptOrWanted(r, x, b) == /\ x \in Bus /\ Clean(x)
                         /\ x.enabled = r.enabled /\ x.output = r.output
                         /\ \/ x.engine = r.engine
                            \/ x.engine = None
                            \/ x.engine.carries \subseteq Effective(graph, b)

LEMMA LoopsKeepOrWant ==
    ASSUME NEW r \in Bus, Clean(r), NEW b
    PROVE  /\ KeptOrWanted(r, OutputGone(r), b)
           /\ KeptOrWanted(r, InputGone(r, b), b)
           /\ KeptOrWanted(r, OutputCame(r, b), b)
           /\ KeptOrWanted(r, InputCame(r, b), b)
  <1>1. KeptOrWanted(r, OutputGone(r), b)
    BY OutputGoneType DEF KeptOrWanted
  <1>2. KeptOrWanted(r, r, b)
    BY DEF KeptOrWanted
  <1>3. Wanted(r, graph, b, Mics \intersect seen) \subseteq Effective(graph, b)
    BY DEF Wanted
  <1>4. KeptOrWanted(r, Refiltered(r, b), b)
    <2> DEFINE av == Mics \intersect seen
    <2>1. Refiltered(r, b) = Rebuilt(r, graph, b, av)
      BY DEF Refiltered
    <2>2. Wanted(r, graph, b, av) \subseteq Effective(graph, b)
      BY <1>3
    <2> HIDE DEF av
    <2> QED BY <2>1, <2>2, RebuildOutcome DEF KeptOrWanted
  <1>5. KeptOrWanted(r, Resumed(r, b), b)
    BY <1>3, ResumedType DEF KeptOrWanted
  <1> QED BY <1>1, <1>2, <1>4, <1>5 DEF InputGone, OutputCame, InputCame

LEMMA KeptOrWantedTwice ==
    ASSUME NEW r, NEW x, NEW y, NEW b, KeptOrWanted(r, x, b), KeptOrWanted(x, y, b)
    PROVE  KeptOrWanted(r, y, b)
  BY DEF KeptOrWanted

LEMMA DiffKeepsOrWants ==
    ASSUME NEW r \in Bus, Clean(r), NEW b
    PROVE  KeptOrWanted(r, InputCame(OutputCame(InputGone(OutputGone(r), b), b), b), b)
  <1> DEFINE r1 == OutputGone(r)
             r2 == InputGone(r1, b)
             r3 == OutputCame(r2, b)
             r4 == InputCame(r3, b)
  <1>1. KeptOrWanted(r, r1, b)
    BY LoopsKeepOrWant
  <1>2. r1 \in Bus /\ Clean(r1)
    BY <1>1 DEF KeptOrWanted
  <1> HIDE DEF r1
  <1>3. KeptOrWanted(r1, r2, b)
    BY <1>2, LoopsKeepOrWant
  <1>4. r2 \in Bus /\ Clean(r2)
    BY <1>3 DEF KeptOrWanted
  <1> HIDE DEF r2
  <1>5. KeptOrWanted(r2, r3, b)
    BY <1>4, LoopsKeepOrWant
  <1>6. r3 \in Bus /\ Clean(r3)
    BY <1>5 DEF KeptOrWanted
  <1> HIDE DEF r3
  <1>7. KeptOrWanted(r3, r4, b)
    BY <1>6, LoopsKeepOrWant
  <1> HIDE DEF r4
  <1>8. KeptOrWanted(r, r4, b)
    BY <1>1, <1>3, <1>5, <1>7, KeptOrWantedTwice
  <1> QED BY <1>8 DEF r1, r2, r3, r4

LEMMA WatcherKeepsInv == ASSUME Inv, Poll \/ HandleDiff PROVE Inv'
  <1>1. CASE Poll
    <2>1. /\ UNCHANGED <<graph, bus, taps, there, busy, mute>>
          /\ prev' \in {prev, there} /\ seen' \in {there, None}
      BY <1>1 DEF Poll, machine
    <2> QED BY <2>1 DEF Inv, TypeOK, Clean
  <1>2. CASE HandleDiff
    <2>1. /\ seen # None /\ prev' = seen /\ seen' = None
          /\ bus' = [b \in Buses |->
                       InputCame(OutputCame(InputGone(OutputGone(bus[b]), b), b), b)]
          /\ taps' = Synced(graph, TapsDropped)
          /\ UNCHANGED <<graph, there, busy, mute>>
      BY <1>2 DEF HandleDiff, machine
    <2>2. \A b \in Buses : bus'[b] \in Bus /\ Clean(bus'[b])
      BY <2>1, BusTypes, DiffKeepsOrWants DEF KeptOrWanted
    <2>3. bus' \in [Buses -> Bus] /\ \A b \in Buses : Clean(bus[b])'
      BY <2>1, <2>2 DEF Clean
    <2>4. TapsDropped \in [Mics -> {"none", "live", "dead"}]
      BY TapsType DEF TapsDropped
    <2>5. taps' \in [Mics -> {"none", "live", "dead"}]
      BY <2>1, <2>4, SyncedType
    <2> QED BY <2>1, <2>3, <2>5 DEF Inv, TypeOK
  <1> QED BY <1>1, <1>2

-----------------------------------------------------------------------------
LEMMA InitInv == Init => Inv
  <1> SUFFICES ASSUME Init PROVE Inv
    OBVIOUS
  <1>1. /\ graph = [i \in Inputs |-> None]
        /\ bus = [b \in Buses |-> [enabled |-> FALSE, output |-> None, engine |-> None,
                                   error |-> FALSE, rec |-> FALSE]]
        /\ taps = [m \in Mics |-> "none"]
        /\ prev = None /\ seen = None /\ there \subseteq Devices /\ busy = {} /\ mute = {}
    BY DEF Init
  <1>2. bus \in [Buses -> Bus] /\ \A b \in Buses : Clean(bus[b])
    BY <1>1 DEF Bus, Clean
  <1> QED BY <1>1, <1>2 DEF Inv, TypeOK

LEMMA StepKeepsInv == ASSUME Inv, [Next]_vars PROVE Inv'
  <1>1. CASE Environment
    BY <1>1, EnvironmentKeepsInv
  <1>2. CASE Command
    <2>1. Recorded \subseteq Buses /\ Phones \subseteq Inputs
      BY RouterAssumption DEF Inputs
    <2> QED BY <1>2, <2>1, InputsKeepInv, SendsKeepInv, BusesKeepInv, FirstCommandsKeepInv
            DEF Command
  <1>3. CASE Poll \/ HandleDiff
    BY <1>3, WatcherKeepsInv
  <1>4. CASE UNCHANGED vars
    BY <1>4 DEF vars, watcher, machine, Inv, TypeOK, Clean
  <1> QED BY <1>1, <1>2, <1>3, <1>4 DEF Next

LEMMA InvHolds == Spec => []Inv
  BY InitInv, StepKeepsInv, PTL DEF Spec

(* The graph, the buses, the taps and the watcher's snapshots are always   *)
(* of their type: an engine's slots are never empty or too many            *)
(* (AudioGraph, BusRuntime and MAX_INPUTS).                                *)
THEOREM TypeCorrect == Spec => []TypeOK
  <1>1. Inv => TypeOK
    BY DEF Inv
  <1> QED BY <1>1, InvHolds, PTL

(* Whatever commands, the watcher and the machine do, in any order, an     *)
(* engine that runs is enabled, on its bus's output and without an error,  *)
(* and no recorder outlives its engine (rebuild_bus_filtered and           *)
(* handle_device_diff, lib.rs 365 and 2159).                               *)
THEOREM RunningBusesAreClean == Spec => []RunningBusIsClean
  <1>1. Inv => RunningBusIsClean
    BY DEF Inv, Clean, RunningBusIsClean
  <1> QED BY <1>1, InvHolds, PTL


-----------------------------------------------------------------------------
(* What comes to be heard.  A step leaves a bus to the engine it has, or   *)
(* gives it one with inputs routed to it.                                  *)

HeardAsRouted(b) ==
    bus'[b].engine # None =>
      \A i \in bus'[b].engine.carries \ Effective(graph', b) :
          /\ bus[b].engine # None
          /\ i \in bus[b].engine.carries
          /\ i \in Effective(graph, b) =>
               /\ i \notin InGraph(graph')
               /\ \E f \in Buses : bus'[f].engine = None /\ bus'[f].error

LEMMA EngineKept ==
    ASSUME NEW b \in Buses, bus'[b] = bus[b], Effective(graph, b) \subseteq Effective(graph', b)
    PROVE  HeardAsRouted(b)
  BY DEF HeardAsRouted

LEMMA EngineRouted ==
    ASSUME NEW b \in Buses,
           bus'[b].engine # None => bus'[b].engine.carries \subseteq Effective(graph', b)
    PROVE  HeardAsRouted(b)
  BY DEF HeardAsRouted

(* What is rebuilt with the new graph hears what is routed to it.          *)
LEMMA RebuiltIsRouted ==
    ASSUME NEW b \in Buses, NEW r \in Bus, NEW g,
           bus'[b] = Rebuilt(r, g, b, Inputs), g = graph' \/ bus'[b].engine = None
    PROVE  HeardAsRouted(b)
  <1>1. Wanted(r, g, b, Inputs) \subseteq Effective(g, b)
    BY DEF Wanted
  <1>2. bus'[b].engine # None => bus'[b].engine.carries = Wanted(r, g, b, Inputs)
    BY RebuildOutcome
  <1> QED BY <1>1, <1>2, EngineRouted

LEMMA EachBusRebuilt ==
    ASSUME Inv, NEW g, NEW S, NEW b \in Buses
    PROVE  /\ b \notin S => RebuiltEach(g, S)[b] = bus[b]
           /\ b \in S => RebuiltEach(g, S)[b] = Rebuilt(bus[b], g, b, Inputs)
  BY DEF RebuiltEach

(* The loop over the buses of an input reaches one that cannot be rebuilt, *)
(* if there is one, and only fails there.                                  *)
LEMMA FirstFailureIsReached ==
    ASSUME NEW i, NEW failing \in SUBSET Affected(i), Affected(i) \subseteq Buses, failing # {}
    PROVE  \E f \in failing : f \in Reached(i, failing)
  <1> DEFINE At(n) == \E f \in failing : Position(i, f) = n
             Least(f) == \A x \in failing : Position(i, f) <= Position(i, x)
  <1>1. \A f \in failing : Position(i, f) \in 1..5
    BY RouterAssumption DEF Position, Rank
  <1>2. At(1) \/ At(2) \/ At(3) \/ At(4) \/ At(5)
    BY <1>1
  <1>3. At(1) => \E f \in failing : Least(f)
    BY <1>1
  <1>4. At(2) /\ ~At(1) => \E f \in failing : Least(f)
    BY <1>1
  <1>5. At(3) /\ ~At(1) /\ ~At(2) => \E f \in failing : Least(f)
    BY <1>1
  <1>6. At(4) /\ ~At(1) /\ ~At(2) /\ ~At(3) => \E f \in failing : Least(f)
    BY <1>1
  <1>7. At(5) /\ ~At(1) /\ ~At(2) /\ ~At(3) /\ ~At(4) => \E f \in failing : Least(f)
    BY <1>1
  <1>8. \E f \in failing : Least(f)
    BY <1>2, <1>3, <1>4, <1>5, <1>6, <1>7
  <1> QED BY <1>8 DEF Reached

LEMMA InputsAreRouted ==
    ASSUME Inv, NEW i \in Inputs, NEW b \in Buses,
           \/ AddInput(i) \/ RemoveInput(i) \/ DisconnectPhone(i)
           \/ \E j \in Inputs : ReplaceInput(i, j)
    PROVE  HeardAsRouted(b)
  <1>g. graph \in Graphs
    BY GraphIsGraph
  <1>b. \A d \in Buses : bus[d] \in Bus
    BY BusTypes
  <1>1. CASE AddInput(i)
    BY <1>g, <1>1, AddedGraph, EngineKept DEF AddInput
  <1>2. ASSUME NEW t, i \in InGraph(graph), Removed(i, t) PROVE HeardAsRouted(b)
    <2> DEFINE failing == FailingOf(Without(i), Affected(i))
    <2>1. graph' = Without(i) /\ bus' = RebuiltEach(Without(i), Reached(i, failing))
      BY <1>2 DEF Removed
    <2>2. failing \subseteq Affected(i) /\ Affected(i) \subseteq Buses
      BY <1>g, <1>2, AffectedIsWhereHeard DEF FailingOf
    <2>3. CASE b \in Reached(i, failing)
      <3>1. bus'[b] = Rebuilt(bus[b], Without(i), b, Inputs)
        BY <2>1, <2>3, EachBusRebuilt
      <3> QED BY <1>b, <2>1, <3>1, RebuiltIsRouted
    <2>4. CASE b \notin Affected(i)
      <3>1. bus'[b] = bus[b]
        BY <2>1, <2>4, EachBusRebuilt DEF Reached
      <3>2. i \notin Effective(graph, b)
        BY <1>g, <1>2, <2>4, AffectedIsWhereHeard
      <3> QED BY <1>g, <2>1, <3>1, <3>2, WithoutGraph, EngineKept
    <2>5. CASE b \in Affected(i) /\ b \notin Reached(i, failing)
      <3>1. bus'[b] = bus[b]
        BY <2>1, <2>5, EachBusRebuilt
      <3>2. failing # {}
        BY <2>5 DEF Reached
      <3>3. PICK f \in failing : f \in Reached(i, failing)
        BY <2>2, <3>2, FirstFailureIsReached
      <3>4. f \in Buses /\ Fails(bus[f], Without(i), f, Inputs)
        BY <2>2, <3>3 DEF FailingOf
      <3>5. bus'[f] = Rebuilt(bus[f], Without(i), f, Inputs)
        BY <2>1, <3>3, <3>4, EachBusRebuilt
      <3>6. bus'[f].engine = None /\ bus'[f].error
        BY <1>b, <3>4, <3>5, RebuildOutcome DEF Fails
      <3>7. i \notin InGraph(graph') /\ Effective(graph', b) = Effective(graph, b) \ {i}
        BY <1>g, <2>1, WithoutGraph
      <3> QED BY <3>1, <3>4, <3>6, <3>7 DEF HeardAsRouted
    <2> QED BY <2>3, <2>4, <2>5
  <1>3. CASE RemoveInput(i)
    BY <1>2, <1>3 DEF RemoveInput
  <1>4. CASE DisconnectPhone(i)
    BY <1>2, <1>4 DEF DisconnectPhone
  <1>5. ASSUME NEW j \in Inputs, ReplaceInput(i, j) PROVE HeardAsRouted(b)
    <2> DEFINE failing == ReplaceFails(i, j)
               tried == RebuiltEach(Replacing(i, j), Reached(i, failing))
    <2>1. i \in InGraph(graph) /\ j \in Inputs \ InGraph(graph)
      BY <1>5 DEF ReplaceInput
    <2>2. CASE failing = {}
      <3>1. graph' = Replacing(i, j) /\ bus' = tried
        BY <1>5, <2>2 DEF ReplaceInput
      <3>2. Reached(i, failing) = Affected(i)
        BY <2>2 DEF Reached
      <3>3. CASE b \in Affected(i)
        <4>1. bus'[b] = Rebuilt(bus[b], Replacing(i, j), b, Inputs)
          BY <3>1, <3>2, <3>3, EachBusRebuilt
        <4> QED BY <1>b, <3>1, <4>1, RebuiltIsRouted
      <3>4. CASE b \notin Affected(i)
        <4>1. bus'[b] = bus[b]
          BY <3>1, <3>2, <3>4, EachBusRebuilt
        <4>2. i \notin Effective(graph, b)
          BY <1>g, <2>1, <3>4, AffectedIsWhereHeard
        <4> QED BY <1>g, <2>1, <3>1, <4>1, <4>2, ReplacingGraph, EngineKept
      <3> QED BY <3>3, <3>4
    <2>3. CASE failing # {}
      <3>1. /\ bus' = [d \in Buses |-> IF d \in Affected(i)
                                       THEN RolledBack(tried[d], d) ELSE bus[d]]
            /\ graph' = graph
        BY <1>5, <2>3 DEF ReplaceInput
      <3>2. Sound(tried)
        BY RebuiltEachIsSound
      <3> HIDE DEF tried
      <3>3. CASE b \in Affected(i)
        <4>1. bus'[b] = Rebuilt(tried[b], graph, b, Inputs) /\ tried[b] \in Bus
          BY <3>1, <3>2, <3>3 DEF RolledBack, Sound
        <4> QED BY <3>1, <4>1, RebuiltIsRouted
      <3>4. CASE b \notin Affected(i)
        BY <3>1, <3>4, EngineKept
      <3> QED BY <3>3, <3>4
    <2> QED BY <2>2, <2>3
  <1> QED BY <1>1, <1>3, <1>4, <1>5

LEMMA SendsAreRouted ==
    ASSUME Inv, NEW i \in Inputs, NEW on \in BOOLEAN, NEW b \in Buses,
           \/ SetInputMonitor(i, on)
           \/ \E d \in Buses : SetSend(i, d, on)
    PROVE  HeardAsRouted(b)
  <1>g. graph \in Graphs
    BY GraphIsGraph
  <1>b. \A d \in Buses : bus[d] \in Bus
    BY BusTypes
  <1>1. CASE SetInputMonitor(i, on)
    <2> DEFINE g == Monitoring(i, on)
    <2>1. /\ i \in InGraph(graph)
          /\ bus' = RebuiltEach(g, {"A1"})
          /\ graph' = IF MonitorFails(i, on) THEN graph ELSE g
      BY <1>1 DEF SetInputMonitor
    <2>2. \A d \in Buses \ {"A1"} : Effective(g, d) = Effective(graph, d)
      BY <1>g, <2>1, MonitoringGraph
    <2> HIDE DEF g
    <2>3. CASE b = "A1"
      <3>1. bus'[b] = Rebuilt(bus[b], g, b, Inputs)
        BY <2>1, <2>3, EachBusRebuilt
      <3>2. MonitorFails(i, on) => Fails(bus[b], g, b, Inputs)
        BY <2>3 DEF MonitorFails, FailingOf, g
      <3>3. MonitorFails(i, on) => bus'[b].engine = None
        BY <1>b, <3>1, <3>2, RebuildOutcome DEF Fails
      <3> QED BY <1>b, <2>1, <3>1, <3>3, RebuiltIsRouted
    <2>4. CASE b # "A1"
      <3>1. bus'[b] = bus[b]
        BY <2>1, <2>4, EachBusRebuilt
      <3> QED BY <2>1, <2>2, <2>4, <3>1, EngineKept
    <2> QED BY <2>3, <2>4
  <1>2. ASSUME NEW d \in Buses, SetSend(i, d, on) PROVE HeardAsRouted(b)
    <2> DEFINE g == Sending(graph, i, d, on)
               r == Rebuilt(bus[d], g, d, Inputs)
    <2>1. /\ i \in InGraph(graph)
          /\ graph' = IF SendFails(i, d, on) THEN graph ELSE g
          /\ bus' = [bus EXCEPT ![d] = IF SendFails(i, d, on) THEN RolledBack(r, d) ELSE r]
      BY <1>2 DEF SetSend
    <2>2. bus \in [Buses -> Bus]
      BY DEF Inv, TypeOK
    <2>3. r \in Bus
      BY <1>b, RebuildOutcome
    <2>4. CASE b # d
      <3>1. bus'[b] = bus[b]
        BY <2>1, <2>2, <2>4
      <3>2. Effective(g, b) = Effective(graph, b)
        BY <1>g, <2>1, <2>4, SendingGraph
      <3> QED BY <2>1, <3>1, <3>2, EngineKept
    <2>5. CASE b = d /\ SendFails(i, d, on)
      <3> HIDE DEF r
      <3>1. bus'[b] = Rebuilt(r, graph, b, Inputs) /\ graph' = graph
        BY <2>1, <2>2, <2>5 DEF RolledBack
      <3> QED BY <2>3, <3>1, RebuiltIsRouted
    <2>6. CASE b = d /\ ~SendFails(i, d, on)
      <3>1. bus'[b] = Rebuilt(bus[b], g, b, Inputs) /\ graph' = g
        BY <2>1, <2>2, <2>6
      <3> QED BY <1>b, <3>1, RebuiltIsRouted
    <2> QED BY <2>4, <2>5, <2>6
  <1> QED BY <1>1, <1>2


LEMMA BusesAreRouted ==
    ASSUME Inv, NEW d \in Buses, NEW b \in Buses,
           \/ Record(d) \/ StopRecording(d)
           \/ \E on \in BOOLEAN, out \in Outputs \union {None} : SetBus(d, on, out)
    PROVE  HeardAsRouted(b)
  <1>b. bus \in [Buses -> Bus] /\ bus[b] \in Bus
    BY DEF Inv, TypeOK
  <1>1. ASSUME NEW on, bus' = [bus EXCEPT ![d].rec = on], graph' = graph
        PROVE  HeardAsRouted(b)
    <2>1. bus'[b].engine = bus[b].engine
      BY <1>b, <1>1 DEF Bus
    <2> QED BY <1>1, <2>1 DEF HeardAsRouted
  <1>2. ASSUME NEW on \in BOOLEAN, NEW out \in Outputs \union {None}, SetBus(d, on, out)
        PROVE  HeardAsRouted(b)
    <2> DEFINE r == Rebuilt(Setting(d, on, out), graph, d, Inputs)
               old == [r EXCEPT !.enabled = bus[d].enabled, !.output = bus[d].output]
    <2>1. /\ bus' = [bus EXCEPT ![d] = IF SettingFails(d, on, out) THEN RolledBack(old, d) ELSE r]
          /\ graph' = graph
      BY <1>2 DEF SetBus
    <2>2. Setting(d, on, out) \in Bus /\ r \in Bus
      BY SettingType, RebuildOutcome
    <2>3. old \in Bus
      <3> HIDE DEF r
      <3> QED BY <2>2, BusTypes, RestoredType
    <2>4. CASE b # d
      BY <1>b, <2>1, <2>4, EngineKept
    <2>5. CASE b = d /\ SettingFails(d, on, out)
      <3> HIDE DEF old
      <3>1. bus'[b] = Rebuilt(old, graph, b, Inputs)
        BY <1>b, <2>1, <2>5 DEF RolledBack
      <3> QED BY <2>1, <2>3, <3>1, RebuiltIsRouted
    <2>6. CASE b = d /\ ~SettingFails(d, on, out)
      <3>1. bus'[b] = Rebuilt(Setting(d, on, out), graph, b, Inputs)
        BY <1>b, <2>1, <2>6
      <3> QED BY <2>1, <2>2, <3>1, RebuiltIsRouted
    <2> QED BY <2>4, <2>5, <2>6
  <1> QED BY <1>1, <1>2 DEF Record, StopRecording

LEMMA FirstCommandsAreRouted ==
    ASSUME Inv, NEW b \in Buses,
           \/ ClearRoutes
           \/ \E i \in Inputs, o \in Outputs, on \in BOOLEAN : SetRoute(i, o, on)
           \/ \E i \in Inputs, o \in Outputs : StartPassthrough(i, o)
           \/ \E p \in Presets : LoadPreset(p)
    PROVE  HeardAsRouted(b)
  <1>g. graph \in Graphs
    BY GraphIsGraph
  <1>a. "A1" \in Buses
    BY RouterAssumption
  <1>b. bus \in [Buses -> Bus] /\ \A d \in Buses : bus[d] \in Bus
    BY DEF Inv, TypeOK
  <1>s. Silenced(bus[b]) \in Bus /\ Silenced(bus[b]).engine = None
    BY <1>b, SilencedType
  <1>1. CASE ClearRoutes
    BY <1>1, <1>s, EngineRouted DEF ClearRoutes
  <1>2. ASSUME NEW i \in Inputs, NEW o \in Outputs, NEW on \in BOOLEAN, SetRoute(i, o, on)
        PROVE  HeardAsRouted(b)
    <2> DEFINE g == Sending(Added(graph, i), i, "A1", on)
               r == IF on THEN Bound(bus["A1"], o) ELSE bus["A1"]
    <2>1. graph' = g /\ bus' = [bus EXCEPT !["A1"] = Rebuilt(r, g, "A1", Inputs)]
      BY <1>2 DEF SetRoute
    <2>2. r \in Bus
      BY <1>a, <1>b, BoundType
    <2>3. \A d \in Buses \ {"A1"} : Effective(g, d) = Effective(graph, d)
      <3>1. /\ Added(graph, i) \in Graphs /\ i \in InGraph(Added(graph, i))
            /\ \A d : Effective(Added(graph, i), d) = Effective(graph, d)
        BY <1>g, AddedGraph
      <3> QED BY <1>a, <3>1, SendingGraph
    <2> HIDE DEF r, g
    <2>4. CASE b = "A1"
      <3>1. bus'[b] = Rebuilt(r, g, b, Inputs)
        BY <1>b, <2>1, <2>4
      <3> QED BY <2>1, <2>2, <3>1, RebuiltIsRouted
    <2>5. CASE b # "A1"
      BY <1>b, <2>1, <2>3, <2>5, EngineKept
    <2> QED BY <2>4, <2>5
  <1>3. ASSUME NEW i \in Inputs, NEW o \in Outputs, StartPassthrough(i, o)
        PROVE  HeardAsRouted(b)
    <2> DEFINE g == [Emptied EXCEPT ![i] = [NewChannel EXCEPT !.sends = {"A1"}]]
               r == Bound(Silenced(bus["A1"]), o)
    <2>1. /\ graph' = g
          /\ bus' = [d \in Buses |-> IF d = "A1" THEN Rebuilt(r, g, d, Inputs)
                                     ELSE Silenced(bus[d])]
      BY <1>3 DEF StartPassthrough
    <2>2. r \in Bus
      BY <1>a, <1>b, SilencedType, BoundType
    <2> HIDE DEF r, g
    <2>3. CASE b = "A1"
      <3>1. bus'[b] = Rebuilt(r, g, b, Inputs)
        BY <2>1, <2>3
      <3> QED BY <2>1, <2>2, <3>1, RebuiltIsRouted
    <2>4. CASE b # "A1"
      <3>1. bus'[b].engine = None
        BY <1>s, <2>1, <2>4
      <3> QED BY <3>1, EngineRouted
    <2> QED BY <2>3, <2>4
  <1>4. ASSUME NEW p \in Presets, LoadPreset(p) PROVE HeardAsRouted(b)
    <2>1. bus'[b] = AppliedBus(bus[b], p, b)
      BY <1>4 DEF LoadPreset
    <2>2. bus'[b].engine = None
      BY <1>s, <2>1 DEF AppliedBus, Bus
    <2> QED BY <2>2, EngineRouted
  <1> QED BY <1>1, <1>2, <1>3, <1>4

LEMMA MachineIsRouted ==
    ASSUME Inv, NEW b \in Buses, Environment \/ Poll PROVE HeardAsRouted(b)
  <1>1. ASSUME NEW d \in Unsteady, Unplug(d) PROVE HeardAsRouted(b)
    <2> DEFINE e == bus[b].engine
    <2>1. /\ graph' = graph
          /\ bus'[b] = IF e # None /\ d \in {e.out} \union e.carries
                       THEN [bus[b] EXCEPT !.engine.lost = @ \union {d}] ELSE bus[b]
      BY <1>1 DEF Unplug
    <2>2. bus[b] \in Bus
      BY BusTypes
    <2>3. CASE e # None /\ d \in {e.out} \union e.carries
      <3>1. e \in Engine
        BY <2>2, <2>3 DEF Bus
      <3>2. bus'[b].engine = [e EXCEPT !.lost = @ \union {d}]
        BY <2>1, <2>2, <2>3 DEF Bus
      <3>3. bus'[b].engine.carries = e.carries
        BY <3>1, <3>2 DEF Engine
      <3> QED BY <2>1, <2>3, <3>3 DEF HeardAsRouted
    <2>4. CASE ~(e # None /\ d \in {e.out} \union e.carries)
      BY <2>1, <2>4, EngineKept
    <2> QED BY <2>3, <2>4
  <1> QED BY <1>1, EngineKept DEF Environment, Plug, Occupy, Play, Poll

LEMMA DiffIsRouted ==
    ASSUME Inv, NEW b \in Buses, HandleDiff PROVE HeardAsRouted(b)
  <1>1. /\ graph' = graph
        /\ bus'[b] = InputCame(OutputCame(InputGone(OutputGone(bus[b]), b), b), b)
    BY DEF HandleDiff
  <1>2. KeptOrWanted(bus[b], bus'[b], b)
    BY <1>1, BusTypes, DiffKeepsOrWants
  <1> QED BY <1>1, <1>2 DEF KeptOrWanted, HeardAsRouted

LEMMA StepIsRouted ==
    ASSUME Inv, [Next]_vars PROVE \A b \in Buses : HeardAsRouted(b)
  <1> SUFFICES ASSUME NEW b \in Buses PROVE HeardAsRouted(b)
    OBVIOUS
  <1>1. CASE Command
    <2>1. Recorded \subseteq Buses /\ Phones \subseteq Inputs
      BY RouterAssumption DEF Inputs
    <2> QED BY <1>1, <2>1, InputsAreRouted, SendsAreRouted, BusesAreRouted,
               FirstCommandsAreRouted DEF Command
  <1>2. CASE UNCHANGED vars
    BY <1>2, EngineKept DEF vars
  <1> QED BY <1>1, <1>2, MachineIsRouted, DiffIsRouted DEF Next

-----------------------------------------------------------------------------
(* A refused change is taken back: the rollback rebuilds with the graph    *)
(* and the settings of before *)

LEMMA RollbackStarts ==
    ASSUME Inv, NEW b \in Buses, NEW r \in Bus, r.enabled = bus[b].enabled, r.output = bus[b].output,
           bus'[b] = RolledBack(r, b)
    PROVE  /\ bus'[b].enabled = bus[b].enabled /\ bus'[b].output = bus[b].output
           /\ StillRuns(b)
  <1>1. Wanted(r, graph, b, Inputs) = Wanted(bus[b], graph, b, Inputs)
    BY DEF Wanted
  <1>2. Startable(b) => /\ Wanted(r, graph, b, Inputs) # {}
                        /\ Starts(r.output, Wanted(r, graph, b, Inputs))
    BY <1>1 DEF Startable
  <1>3. Startable(b) => bus'[b].engine # None
    BY <1>2, RebuildOutcome DEF RolledBack, Fails
  <1> QED BY <1>3, RebuildOutcome DEF RolledBack, StillRuns

LEMMA KeptStillRuns ==
    ASSUME NEW b \in Buses, bus'[b] = bus[b]
    PROVE  /\ bus'[b].enabled = bus[b].enabled /\ bus'[b].output = bus[b].output
           /\ StillRuns(b)
  BY DEF StillRuns

LEMMA RefusedIsUndone == ASSUME Inv, Refused PROVE Undone
  <1>b. bus \in [Buses -> Bus] /\ \A b \in Buses : bus[b] \in Bus
    BY DEF Inv, TypeOK
  <1>1. ASSUME NEW i \in InGraph(graph), NEW d \in Buses, NEW on \in BOOLEAN,
               SendFails(i, d, on), SetSend(i, d, on)
        PROVE  Undone
    <2> DEFINE r == Rebuilt(bus[d], Sending(graph, i, d, on), d, Inputs)
    <2>1. graph' = graph /\ bus' = [bus EXCEPT ![d] = RolledBack(r, d)]
      BY <1>1 DEF SetSend
    <2>2. r \in Bus /\ r.enabled = bus[d].enabled /\ r.output = bus[d].output
      BY <1>b, RebuildOutcome
    <2> HIDE DEF r
    <2>3. bus'[d] = RolledBack(r, d) /\ \A b \in Buses \ {d} : bus'[b] = bus[b]
      BY <1>b, <2>1
    <2> QED BY <2>1, <2>2, <2>3, RollbackStarts, KeptStillRuns DEF Undone
  <1>2. ASSUME NEW i \in InGraph(graph), NEW j \in Inputs \ InGraph(graph),
               ReplaceFails(i, j) # {}, ReplaceInput(i, j)
        PROVE  Undone
    <2> DEFINE tried == RebuiltEach(Replacing(i, j), Reached(i, ReplaceFails(i, j)))
    <2>1. /\ graph' = graph
          /\ bus' = [b \in Buses |-> IF b \in Affected(i)
                                     THEN RolledBack(tried[b], b) ELSE bus[b]]
      BY <1>2 DEF ReplaceInput
    <2>2. \A b \in Buses : /\ tried[b] \in Bus
                           /\ tried[b].enabled = bus[b].enabled /\ tried[b].output = bus[b].output
      BY <1>b, EachBusRebuilt, RebuildOutcome
    <2> HIDE DEF tried
    <2>3. \A b \in Buses : bus'[b] = RolledBack(tried[b], b) \/ bus'[b] = bus[b]
      BY <2>1
    <2> QED BY <2>1, <2>2, <2>3, RollbackStarts, KeptStillRuns DEF Undone
  <1>3. ASSUME NEW d \in Buses, NEW on \in BOOLEAN, NEW o \in Outputs \union {None},
               SettingFails(d, on, o), SetBus(d, on, o)
        PROVE  Undone
    <2> DEFINE r == Rebuilt(Setting(d, on, o), graph, d, Inputs)
               old == [r EXCEPT !.enabled = bus[d].enabled, !.output = bus[d].output]
    <2>1. graph' = graph /\ bus' = [bus EXCEPT ![d] = RolledBack(old, d)]
      BY <1>3 DEF SetBus
    <2>2. r \in Bus
      BY SettingType, RebuildOutcome
    <2> HIDE DEF r
    <2>3. old \in Bus /\ old.enabled = bus[d].enabled /\ old.output = bus[d].output
      BY <1>b, <2>2, RestoredType
    <2> HIDE DEF old
    <2>4. bus'[d] = RolledBack(old, d) /\ \A b \in Buses \ {d} : bus'[b] = bus[b]
      BY <1>b, <2>1
    <2> QED BY <2>1, <2>3, <2>4, RollbackStarts, KeptStillRuns DEF Undone
  <1> QED BY <1>1, <1>2, <1>3 DEF Refused

(* In every behaviour, a bus comes to carry only inputs routed to it, and  *)
(* a refused send, setting or replacement leaves graph, settings and       *)
(* running engines as they were, in whatever order commands, the watcher   *)
(* and the machine act (rebuild_bus, rebuild_bus_with_config_change and    *)
(* replace_input_source of lib.rs).                                        *)
THEOREM EveryCommandIsClean == Spec => CommandsAreClean
  <1>1. Inv /\ [Next]_vars => \A b \in Buses : HeardAsRouted(b)
    BY StepIsRouted
  <1>2. Inv => (Refused => Undone)
    BY RefusedIsUndone
  <1>3. Spec => OnlyRoutedInputsAreHeard
    BY <1>1, InvHolds, PTL DEF Spec, OnlyRoutedInputsAreHeard, HeardAsRouted
  <1>4. Spec => FailedChangeIsUndone
    BY <1>2, InvHolds, PTL DEF Spec, FailedChangeIsUndone
  <1> QED BY <1>3, <1>4 DEF CommandsAreClean

-----------------------------------------------------------------------------
(* The watcher uses a device that came back *)

(* A bus with a wanted input of the snapshot runs or shows an error once   *)
(* it is started again.                                                    *)
NotSilent(r) == r.engine # None \/ r.error

LEMMA DiffUsesDevice ==
    ASSUME NEW b \in Buses, NEW r \in Bus, Clean(r), r.enabled, r.output \in seen, r.output # None,
           NEW m \in InGraph(graph) \intersect Mics \intersect seen, b \in graph[m].sends,
           m \in Came \/ (r.output \in Came /\ r.engine = None)
    PROVE  NotSilent(InputCame(OutputCame(InputGone(OutputGone(r), b), b), b))
  <1> DEFINE r2 == InputGone(r, b)
             r3 == OutputCame(r2, b)
             r4 == InputCame(r3, b)
             Wanting(x) == x \in Bus /\ Clean(x) /\ x.enabled /\ x.output = r.output
  <1>1. OutputGone(r) = r
    BY DEF OutputGone, Gone
  <1>2. ASSUME NEW x, Wanting(x) PROVE NotSilent(Resumed(x, b))
    <2>1. m \in Wanted(x, graph, b, Mics \intersect seen)
      BY <1>2 DEF Wanted, Effective
    <2> QED BY <1>2, <2>1, ResumedType DEF NotSilent
  <1>3. ASSUME NEW x, NEW y, Wanting(x), KeptOrWanted(x, y, b) PROVE Wanting(y)
    BY <1>3 DEF KeptOrWanted
  <1>4. Wanting(r)
    OBVIOUS
  <1>5. KeptOrWanted(r, r2, b)
    BY LoopsKeepOrWant
  <1>6. Wanting(r2)
    BY <1>3, <1>4, <1>5
  <1>7. KeptOrWanted(r2, r3, b)
    BY <1>6, LoopsKeepOrWant
  <1>8. Wanting(r3)
    BY <1>3, <1>6, <1>7
  <1>9. NotSilent(r4)
    <2>1. CASE r4 = Resumed(r3, b)
      BY <1>2, <1>8, <2>1
    <2>2. CASE r4 # Resumed(r3, b)
      <3> HIDE DEF r3
      <3>1. r4 = r3
        BY <2>2 DEF InputCame
      <3>2. CASE m \in Came
        <4>1. m \in Came \intersect InGraph(graph)
          BY <3>2
        <4>2. r3.engine # None
          BY <1>8, <2>2, <4>1 DEF InputCame
        <4> QED BY <3>1, <4>2 DEF NotSilent
      <3>3. CASE r.output \in Came /\ r.engine = None
        <4>1. r2 = r
          BY <3>3 DEF InputGone
        <4>2. r3 = Resumed(r2, b)
          BY <1>6, <3>3, <4>1 DEF OutputCame, r3
        <4>3. NotSilent(r3)
          BY <1>2, <1>6, <4>2
        <4> QED BY <3>1, <4>3
      <3> QED BY <3>2, <3>3
    <2> QED BY <2>1, <2>2
  <1> QED BY <1>1, <1>9

LEMMA OnlyTheWatcherHandles ==
    ASSUME Inv, [Next]_vars, seen # None, seen' = None PROVE HandleDiff
  <1>1. ~UNCHANGED seen
    OBVIOUS
  <1> QED BY <1>1 DEF Next, vars, watcher, Environment, Plug, Unplug, Occupy, Play, Poll, Command,
             AddInput, RemoveInput, DisconnectPhone, Removed, ReplaceInput, SetInputMonitor,
             SetSend, SetBus, Record, StopRecording, SetRoute, StartPassthrough, ClearRoutes,
             LoadPreset

(* In every behaviour, when the watcher handles the return of a device     *)
(* that a bus waits for, the bus runs or shows an error, whatever else     *)
(* came and went in the same snapshot (handle_device_diff, lib.rs 2159).   *)
THEOREM WatcherUsesReturningDevice == Spec => ReturningDeviceIsUsed
  <1> DEFINE Waiting(b) == LET new == seen \ prev IN
                           /\ bus[b].enabled /\ bus[b].output \in seen
                           /\ \E m \in InGraph(graph) \intersect Mics \intersect seen :
                                /\ b \in graph[m].sends
                                /\ m \in new \/ (bus[b].output \in new /\ bus[b].engine = None)
  <1>1. ASSUME Inv, [Next]_vars, seen # None, seen' = None, NEW b \in Buses, Waiting(b)
        PROVE  bus'[b].engine # None \/ bus'[b].error
    <2>1. bus'[b] = InputCame(OutputCame(InputGone(OutputGone(bus[b]), b), b), b)
      BY <1>1, OnlyTheWatcherHandles DEF HandleDiff
    <2>2. bus[b] \in Bus /\ Clean(bus[b])
      BY <1>1, BusTypes
    <2>3. PICK m \in InGraph(graph) \intersect Mics \intersect seen :
             b \in graph[m].sends /\ (m \in Came \/ (bus[b].output \in Came /\ bus[b].engine = None))
      BY <1>1 DEF Came
    <2>4. seen \in SUBSET Devices
      BY <1>1 DEF Inv, TypeOK
    <2>5. bus[b].output # None
      BY <1>1, <2>4, RouterAssumption
    <2> QED BY <1>1, <2>1, <2>2, <2>3, <2>5, DiffUsesDevice DEF NotSilent
  <1>2. Inv /\ [Next]_vars => (seen # None /\ seen' = None =>
          \A b \in Buses : Waiting(b) => bus'[b].engine # None \/ bus'[b].error)
    BY <1>1
  <1> QED BY <1>2, InvHolds, PTL DEF Spec, ReturningDeviceIsUsed

===============================================================================
