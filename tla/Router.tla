------------------------------- MODULE Router -------------------------------
(***************************************************************************)
(* The routing matrix of lib.rs: the mixer graph (audio/graph.rs), the     *)
(* output buses with at most one engine each (audio/bus.rs), the commands  *)
(* that change them, and the hotplug watcher (audio/device_watch.rs).      *)
(*                                                                         *)
(* Every command and every reaction of the watcher runs under the one lock *)
(* of the application state, so each is one action; the watcher takes its  *)
(* snapshot before it takes the lock, and the machine's devices change at  *)
(* any time.  An engine is what mixer::start was asked for: its output and *)
(* the inputs in its slots.  Gains, DSP, automix, labels and last_error of *)
(* the whole application are not modelled.                                 *)
(***************************************************************************)
EXTENDS Integers, FiniteSets

CONSTANTS Buses,        \* the buses in use, of BusId::ALL
          Mics,         \* inputs captured from a device of that name
          Loopbacks,    \* system and application inputs
          Phones,       \* phone inputs
          Outputs,      \* output devices
          Presets,      \* saved presets
          Unsteady,     \* bound: devices that may be unplugged
          Contended,    \* bound: devices another program may hold
          Recorded,     \* bound: buses that may be recorded
          MaxInputs,    \* MAX_INPUTS of an engine
          None          \* no output, engine, input or snapshot

Inputs  == Mics \union Loopbacks \union Phones
Devices == Mics \union Outputs

ASSUME RouterAssumption == /\ "A1" \in Buses
                           /\ Buses \subseteq {"A1", "A2", "B1", "B2"}
                           /\ Unsteady \subseteq Devices
                           /\ Contended \subseteq Devices
                           /\ Recorded \subseteq Buses
                           /\ IsFiniteSet(Inputs) /\ MaxInputs \in Nat
                           /\ Inputs \intersect Outputs = {}
                           /\ None \notin Devices

VARIABLES graph,        \* AudioGraph: the channel of each input, or None
          bus,          \* BusRuntime of each bus
          taps,         \* metering taps: "none", "live" or "dead"
          prev,         \* the watcher's last snapshot, or None
          seen,         \* the snapshot it is about to handle, or None
          there,        \* devices plugged in
          busy,         \* devices that are there but cannot be opened
          mute          \* loopback inputs that cannot be captured at the moment

machine == <<there, busy, mute>>
watcher == <<prev, seen>>
vars == <<graph, bus, taps, watcher, machine>>

Channel == [sends : SUBSET Buses, monitor : BOOLEAN]

(* carries: the inputs in its slots, live or silent.  lost: devices of the *)
(* engine unplugged after it started: their streams do not come back.      *)
Slots  == {S \in SUBSET Inputs : Cardinality(S) \in 1..MaxInputs}
Engine == [out : Outputs, carries : Slots, lost : SUBSET Devices]

(* error: last_error is set; rec: a recorder is attached to the engine.    *)
Bus == [enabled : BOOLEAN, output : Outputs \union {None},
        engine : Engine \union {None}, error : BOOLEAN, rec : BOOLEAN]

ASSUME NoneAssumption == None \notin Channel /\ None \notin Engine

(* A preset names inputs, buses and outputs.                               *)
ASSUME PresetAssumption ==
    \A p \in Presets : /\ \A i \in DOMAIN p.sends : p.sends[i] \subseteq Buses
                       /\ \A b \in DOMAIN p.output : /\ p.enabled[b] \in BOOLEAN
                                                     /\ p.output[b] \in Outputs \union {None}

TypeOK == /\ graph \in [Inputs -> Channel \union {None}]
          /\ bus \in [Buses -> Bus]
          /\ taps \in [Mics -> {"none", "live", "dead"}]
          /\ prev \in (SUBSET Devices) \union {None}
          /\ seen \in (SUBSET Devices) \union {None}
          /\ there \subseteq Devices
          /\ busy \subseteq there
          /\ mute \subseteq Loopbacks

Init == /\ graph = [i \in Inputs |-> None]
        /\ bus = [b \in Buses |-> [enabled |-> FALSE, output |-> None, engine |-> None,
                                   error |-> FALSE, rec |-> FALSE]]
        /\ taps = [m \in Mics |-> "none"]
        /\ prev = None /\ seen = None
        /\ \E away \in SUBSET Unsteady : there = Devices \ away
        /\ busy = {} /\ mute = {}

-----------------------------------------------------------------------------
(* The graph *)

InGraph(g) == {i \in Inputs : g[i] # None}
NewChannel == [sends |-> {}, monitor |-> FALSE]
Added(g, i) == IF g[i] = None THEN [g EXCEPT ![i] = NewChannel] ELSE g

(* effective_inputs_for_bus: a monitored input is heard on A1 without a send. *)
Effective(g, b) == {i \in InGraph(g) : b \in g[i].sends \/ (b = "A1" /\ g[i].monitor)}

-----------------------------------------------------------------------------
(* rebuild_bus_filtered *)

TornDown(r) == [r EXCEPT !.engine = None, !.rec = FALSE]

(* audio::mixer::start: a device that is missing or cannot be opened fails *)
(* the engine, a loopback that cannot be captured only leaves its slot     *)
(* silent, unless no slot is live.                                         *)
Starts_Bug(out, ins) ==                     \* no limit
    {out} \union (ins \intersect Mics) \subseteq there \ busy /\ ~(ins \subseteq mute)
Starts(out, ins) == /\ Cardinality(ins) <= MaxInputs
                    /\ {out} \union (ins \intersect Mics) \subseteq there \ busy
                    /\ ~(ins \subseteq mute)

Wanted(r, g, b, available) ==
    IF r.enabled /\ r.output # None THEN Effective(g, b) \intersect available ELSE {}

Fails(r, g, b, available) ==
    LET ins == Wanted(r, g, b, available) IN ins # {} /\ ~Starts(r.output, ins)

(* Definitions ending in _Bug are mutants. *)
Rebuilt(r, g, b, available) ==
    LET ins == Wanted(r, g, b, available)
    IN  IF ins = {} THEN TornDown(r)
        ELSE IF Starts(r.output, ins)
        THEN [TornDown(r) EXCEPT !.error = FALSE,
                                 !.engine = [out |-> r.output, carries |-> ins, lost |-> {}]]
        ELSE [TornDown(r) EXCEPT !.error = TRUE]

(* rebuild_bus on each of several buses. *)
RebuiltEach(g, S) == [b \in Buses |-> IF b \in S THEN Rebuilt(bus[b], g, b, Inputs) ELSE bus[b]]
FailingOf(g, S)   == {b \in S : Fails(bus[b], g, b, Inputs)}

RolledBack_Bug(r, b) == r                   \* puts the setting back, not the engine
RolledBack(r, b)     == Rebuilt(r, graph, b, Inputs)

(* sync_metering_taps *)
Synced_Bug(g, t) ==                         \* keeps the taps of removed inputs
    [m \in Mics |-> IF t[m] = "none" /\ g[m] # None /\ m \in there \ busy THEN "live" ELSE t[m]]
Synced(g, t) == [m \in Mics |-> IF g[m] = None THEN "none"
                                ELSE IF t[m] = "none" /\ m \in there \ busy THEN "live"
                                ELSE t[m]]

-----------------------------------------------------------------------------
(* The machine: devices and applications come and go *)

Plug(d) == /\ d \notin there
           /\ there' = there \union {d}
           /\ UNCHANGED <<graph, bus, taps, watcher, busy, mute>>

Unplug(d) == /\ d \in there
             /\ there' = there \ {d}
             /\ busy' = busy \ {d}
             /\ bus' = [b \in Buses |->
                          LET e == bus[b].engine IN
                          IF e # None /\ d \in {e.out} \union e.carries
                          THEN [bus[b] EXCEPT !.engine.lost = @ \union {d}] ELSE bus[b]]
             /\ taps' = [m \in Mics |-> IF m = d /\ taps[m] = "live" THEN "dead" ELSE taps[m]]
             /\ UNCHANGED <<graph, watcher, mute>>

Occupy(d) == /\ d \in there
             /\ busy' = IF d \in busy THEN busy \ {d} ELSE busy \union {d}
             /\ UNCHANGED <<graph, bus, taps, watcher, there, mute>>

Play(i) == /\ mute' = IF i \in mute THEN mute \ {i} ELSE mute \union {i}
           /\ UNCHANGED <<graph, bus, taps, watcher, there, busy>>

-----------------------------------------------------------------------------
(* Inputs *)

(* ensure_input_source *)
Valid(i) == i \in Mics => i \in there

(* What accepting or resuming a phone does too, but for the taps; Phones  *)
(* have none.                                                              *)
AddInput(i) ==
    /\ Valid(i)
    /\ graph' = Added(graph, i)
    /\ taps' = Synced(graph', taps)
    /\ UNCHANGED <<bus, watcher, machine>>

(* The buses an input is heard on, in the order they are rebuilt: A1 comes *)
(* last when it is only monitored there.                                   *)
Affected_Bug(i) == graph[i].sends
Affected(i) == graph[i].sends \union (IF graph[i].monitor THEN {"A1"} ELSE {})
Rank(b) == CASE b = "A1" -> 1 [] b = "A2" -> 2 [] b = "B1" -> 3 [] b = "B2" -> 4
Position(i, b) == IF b \in graph[i].sends THEN Rank(b) ELSE 5

(* The first bus that cannot be rebuilt ends the loop. *)
Reached(i, failing) ==
    {b \in Affected(i) : \A f \in failing : Position(i, b) <= Position(i, f)}

Without(i) == [graph EXCEPT ![i] = None]

Removed(i, tapsAfter) ==
    LET failing == FailingOf(Without(i), Affected(i))
    IN  /\ graph' = Without(i)
        /\ bus' = RebuiltEach(Without(i), Reached(i, failing))
        /\ taps' = IF failing = {} THEN tapsAfter ELSE taps
        /\ UNCHANGED <<watcher, machine>>

RemoveInput(i) == i \in InGraph(graph) /\ Removed(i, Synced(Without(i), taps))

(* disconnect_phone; PhoneSession models what both do to the session. *)
DisconnectPhone(i) == i \in InGraph(graph) /\ Removed(i, taps)

(* The channel moves to the new input; a bus that cannot be rebuilt moves  *)
(* it back and rebuilds the buses again.                                   *)
Replacing(i, j) == [Without(i) EXCEPT ![j] = graph[i]]
ReplaceFails(i, j) == FailingOf(Replacing(i, j), Affected(i))

ReplaceInput(i, j) ==
    LET failing == ReplaceFails(i, j)
        tried == RebuiltEach(Replacing(i, j), Reached(i, failing))
    IN  /\ Valid(j)
        /\ i \in InGraph(graph) /\ j \notin InGraph(graph)
        /\ IF failing = {}
           THEN graph' = Replacing(i, j) /\ bus' = tried /\ taps' = Synced(graph', taps)
           ELSE /\ bus' = [b \in Buses |-> IF b \in Affected(i)
                                           THEN RolledBack(tried[b], b) ELSE bus[b]]
                /\ UNCHANGED <<graph, taps>>
        /\ UNCHANGED <<watcher, machine>>

(* A failed rebuild takes the flag back but does not rebuild A1 again. *)
Monitoring(i, on) == [graph EXCEPT ![i].monitor = on]
MonitorFails(i, on) == FailingOf(Monitoring(i, on), {"A1"}) # {}

SetInputMonitor(i, on) ==
    /\ i \in InGraph(graph)
    /\ bus' = RebuiltEach(Monitoring(i, on), {"A1"})
    /\ graph' = IF MonitorFails(i, on) THEN graph ELSE Monitoring(i, on)
    /\ UNCHANGED <<taps, watcher, machine>>

Sending(g, i, b, on) ==
    [g EXCEPT ![i].sends = IF on THEN @ \union {b} ELSE @ \ {b}]

SendFails(i, b, on) == FailingOf(Sending(graph, i, b, on), {b}) # {}

SetSend(i, b, on) ==
    LET g == Sending(graph, i, b, on)
        r == Rebuilt(bus[b], g, b, Inputs)
    IN  /\ i \in InGraph(graph)
        /\ graph' = IF SendFails(i, b, on) THEN graph ELSE g
        /\ bus' = [bus EXCEPT ![b] = IF SendFails(i, b, on) THEN RolledBack(r, b) ELSE r]
        /\ UNCHANGED <<taps, watcher, machine>>

-----------------------------------------------------------------------------
(* Buses *)

(* rebuild_bus_with_config_change: set_bus_device, set_bus_enabled and, on *)
(* and output unchanged, set_bus_buffer_size and set_bus_latency_mode.     *)
Setting(b, on, out) == [bus[b] EXCEPT !.enabled = on, !.output = out]
SettingFails(b, on, out) == Fails(Setting(b, on, out), graph, b, Inputs)

SetBus(b, on, out) ==
    LET r == Rebuilt(Setting(b, on, out), graph, b, Inputs)
        old == [r EXCEPT !.enabled = bus[b].enabled, !.output = bus[b].output]
    IN  /\ on = bus[b].enabled \/ out = bus[b].output
        /\ bus' = [bus EXCEPT ![b] = IF SettingFails(b, on, out) THEN RolledBack(old, b) ELSE r]
        /\ UNCHANGED <<graph, taps, watcher, machine>>

(* start_recording and start_master_recording need a running engine. *)
Record(b) == /\ bus[b].engine # None
             /\ bus' = [bus EXCEPT ![b].rec = TRUE]
             /\ UNCHANGED <<graph, taps, watcher, machine>>

StopRecording(b) == /\ bus[b].rec
                    /\ bus' = [bus EXCEPT ![b].rec = FALSE]
                    /\ UNCHANGED <<graph, taps, watcher, machine>>

-----------------------------------------------------------------------------
(* The single-output commands of the first versions, and presets *)

Silenced(r) == [TornDown(r) EXCEPT !.error = FALSE]
Bound(r, out) == [r EXCEPT !.enabled = TRUE, !.output = out]
Emptied == [i \in Inputs |-> None]

(* set_route: a failed rebuild leaves the route in place. *)
SetRoute(i, out, on) ==
    LET g == Sending(Added(graph, i), i, "A1", on)
        r == IF on THEN Bound(bus["A1"], out) ELSE bus["A1"]
    IN  /\ on => bus["A1"].output \in {None, out}
        /\ graph' = g
        /\ bus' = [bus EXCEPT !["A1"] = Rebuilt(r, g, "A1", Inputs)]
        /\ UNCHANGED <<taps, watcher, machine>>

StartPassthrough(i, out) ==
    LET g == [Emptied EXCEPT ![i] = [NewChannel EXCEPT !.sends = {"A1"}]]
        r == Bound(Silenced(bus["A1"]), out)
    IN  /\ Valid(i)
        /\ graph' = g
        /\ bus' = [b \in Buses |-> IF b = "A1" THEN Rebuilt(r, g, b, Inputs)
                                   ELSE Silenced(bus[b])]
        /\ UNCHANGED <<taps, watcher, machine>>

(* clear_routes and stop_passthrough. *)
ClearRoutes == /\ graph' = Emptied
               /\ bus' = [b \in Buses |-> Silenced(bus[b])]
               /\ UNCHANGED <<taps, watcher, machine>>

(* apply_preset_state: nothing is started. *)
AppliedGraph(p) == [i \in Inputs |-> IF i \in DOMAIN p.sends
                                     THEN [NewChannel EXCEPT !.sends = p.sends[i]] ELSE None]
AppliedBus(r, p, b) == [Silenced(r) EXCEPT
                          !.enabled = IF b \in DOMAIN p.output THEN p.enabled[b] ELSE @,
                          !.output = IF b \in DOMAIN p.output THEN p.output[b] ELSE @]

LoadPreset(p) == /\ graph' = AppliedGraph(p)
                 /\ bus' = [b \in Buses |-> AppliedBus(bus[b], p, b)]
                 /\ taps' = Synced(graph', taps)
                 /\ UNCHANGED <<watcher, machine>>

-----------------------------------------------------------------------------
(* The watcher *)

(* take_snapshot.  The first one is only remembered; a failed enumeration  *)
(* skips the cycle.                                                        *)
Poll == /\ seen = None
        /\ IF prev = None THEN prev' = there /\ seen' = None
           ELSE seen' = there /\ prev' = prev
        /\ UNCHANGED <<graph, bus, taps, machine>>

Gone_Bug == {}
Gone     == prev \ seen
Came_Bug == {}
Came     == seen \ prev

(* handle_device_diff, bus by bus, in the order of its four loops.  Each   *)
(* loop rebuilds a bus at most once: the rebuilt engine carries every      *)
(* wanted input of the snapshot.                                           *)
OutputGone_Bug(r) == IF r.engine # None /\ r.output \in Gone   \* no teardown
                     THEN [r EXCEPT !.error = TRUE] ELSE r
OutputGone(r) == IF r.engine # None /\ r.output \in Gone
                 THEN [TornDown(r) EXCEPT !.error = TRUE] ELSE r

Refiltered(r, b) == Rebuilt(r, graph, b, Mics \intersect seen)

InputGone(r, b) == IF r.engine # None /\ r.engine.carries \intersect Gone # {}
                   THEN Refiltered(r, b) ELSE r

Resumed(r, b) == IF Fails(r, graph, b, Mics \intersect seen) THEN Refiltered(r, b)
                 ELSE [Refiltered(r, b) EXCEPT !.error = FALSE]

OutputCame(r, b) == IF r.engine = None /\ r.enabled /\ r.output \in Came
                    THEN Resumed(r, b) ELSE r

InputCame(r, b) ==
    IF /\ r.enabled /\ r.output # None
       /\ \E m \in Came \intersect InGraph(graph) :
             /\ b \in graph[m].sends
             /\ r.engine = None \/ m \notin r.engine.carries
    THEN Resumed(r, b) ELSE r

(* The metering tap of a lost microphone is dropped, then taps are synced. *)
TapsDropped == [m \in Mics |-> IF m \in Gone THEN "none" ELSE taps[m]]

HandleDiff ==
    /\ seen # None
    /\ bus' = [b \in Buses |-> InputCame(OutputCame(InputGone(OutputGone(bus[b]), b), b), b)]
    /\ taps' = Synced(graph, TapsDropped)
    /\ prev' = seen
    /\ seen' = None
    /\ UNCHANGED <<graph, machine>>

-----------------------------------------------------------------------------
Environment == \/ \E d \in Unsteady : Plug(d) \/ Unplug(d)
               \/ \E d \in Contended : Occupy(d)
               \/ \E i \in Loopbacks : Play(i)

Command == \/ \E i \in Inputs : \/ AddInput(i) \/ RemoveInput(i)
                                \/ \E j \in Inputs : ReplaceInput(i, j)
                                \/ \E on \in BOOLEAN : \/ SetInputMonitor(i, on)
                                                       \/ \E b \in Buses : SetSend(i, b, on)
                                                       \/ \E o \in Outputs : SetRoute(i, o, on)
                                \/ \E o \in Outputs : StartPassthrough(i, o)
           \/ \E i \in Phones : DisconnectPhone(i)
           \/ \E b \in Recorded : Record(b) \/ StopRecording(b)
           \/ \E b \in Buses : \E on \in BOOLEAN, o \in Outputs \union {None} : SetBus(b, on, o)
           \/ ClearRoutes
           \/ \E p \in Presets : LoadPreset(p)

Next == Environment \/ Command \/ Poll \/ HandleDiff

Spec == Init /\ [][Next]_vars

(* The watcher polls for ever; devices and the user owe nothing. *)
FairSpec == Spec /\ WF_vars(Poll) /\ WF_vars(HandleDiff)

-----------------------------------------------------------------------------
(* Properties *)

(* A running engine is one its bus asks for, on the bus's own output, and  *)
(* shows no error (lib.rs 365); a recorder never outlives its engine.      *)
RunningBusIsClean ==
    \A b \in Buses : LET r == bus[b] IN
        /\ r.engine # None => /\ r.enabled /\ ~r.error
                              /\ r.engine.out = r.output
        /\ r.rec => r.engine # None

(* Nothing comes to be heard on a bus it is not routed to, but for the     *)
(* engines remove_input leaves alone when it stops at a failed rebuild:    *)
(* they keep the removed input until they are rebuilt.                     *)
OnlyRoutedInputsAreHeard ==
    [][\A b \in Buses : bus'[b].engine # None =>
        \A i \in bus'[b].engine.carries \ Effective(graph', b) :
            /\ bus[b].engine # None
            /\ i \in bus[b].engine.carries
            /\ i \in Effective(graph, b) =>
                 /\ i \notin InGraph(graph')
                 /\ \E f \in Buses : bus'[f].engine = None /\ bus'[f].error]_vars

(* A failed set_send, bus setting or replacement is taken back whole: the  *)
(* graph and the settings are as before, and each bus that ran runs again, *)
(* unless the engine it should have cannot be started either.              *)
Startable(b) == LET ins == Wanted(bus[b], graph, b, Inputs)
                IN  ins # {} /\ Starts(bus[b].output, ins)
StillRuns(b) == bus[b].engine # None /\ Startable(b) => bus'[b].engine # None
Undone == /\ graph' = graph
          /\ \A b \in Buses : /\ bus'[b].enabled = bus[b].enabled
                              /\ bus'[b].output = bus[b].output
                              /\ StillRuns(b)
Refused ==
    \/ \E i \in InGraph(graph), b \in Buses, on \in BOOLEAN :
         SendFails(i, b, on) /\ SetSend(i, b, on)
    \/ \E i \in InGraph(graph), j \in Inputs \ InGraph(graph) :
         ReplaceFails(i, j) # {} /\ ReplaceInput(i, j)
    \/ \E b \in Buses, on \in BOOLEAN, o \in Outputs \union {None} :
         SettingFails(b, on, o) /\ SetBus(b, on, o)
FailedChangeIsUndone == [][Refused => Undone]_vars

(* A command changes what is heard as it was asked to, or not at all       *)
(* (lib.rs:253, 973).                                                      *)
CommandsAreClean == OnlyRoutedInputsAreHeard /\ FailedChangeIsUndone

(* When the watcher finds a device that a bus waits for, a microphone sent *)
(* to it or its output, the bus does not stay silent without an error.     *)
ReturningDeviceIsUsed ==
    [][seen # None /\ seen' = None =>
        \A b \in Buses :
            LET new == seen \ prev IN
            /\ bus[b].enabled /\ bus[b].output \in seen
            /\ \E m \in InGraph(graph) \intersect Mics \intersect seen :
                  /\ b \in graph[m].sends
                  /\ m \in new \/ (bus[b].output \in new /\ bus[b].engine = None)
            => bus'[b].engine # None \/ bus'[b].error]_vars

(* An engine whose output the watcher knew and that stays away is released. *)
LostOutputIsReleased ==
    \A b \in Buses, o \in Outputs :
        (bus[b].engine # None /\ bus[b].output = o /\ prev # None /\ o \in prev \ there)
        ~> (bus[b].engine = None \/ bus[b].output # o \/ o \in there)

(* Metering taps come to follow the graph: an input that stays gets its    *)
(* tap, one that is gone loses it.                                         *)
TapsFollowGraph ==
    \A m \in Mics :
        /\ (graph[m] # None /\ m \in there \ busy)
             ~> (taps[m] # "none" \/ graph[m] = None \/ m \notin there \ busy)
        /\ graph[m] = None ~> (taps[m] = "none" \/ graph[m] # None)

(* What the watcher repairs in the end: engines on lost outputs, and taps  *)
(* that commands left behind (handle_device_diff, sync_metering_taps).     *)
WatcherRepairs == LostOutputIsReleased /\ TapsFollowGraph

(* lib.rs 2150: "filtered rebuild keeps the rest of the mix alive": when   *)
(* the watcher handles an input that went away, what else its bus carried  *)
(* is heard on, unless the engine could not be started.                    *)
RestOfTheMixIsKept ==
    [][seen # None /\ seen' = None =>
        \A b \in Buses :
            LET old  == bus[b].engine
                rest == (old.carries \intersect Effective(graph, b)) \ Gone
            IN  /\ old # None /\ bus[b].output \notin Gone
                /\ old.carries \intersect Gone # {} /\ rest # {}
                => \/ bus'[b].error
                   \/ bus'[b].engine # None /\ rest \subseteq bus'[b].engine.carries]_vars

(* lib.rs 2147: "the bus resumes automatically when the device returns":   *)
(* a bus that wants a microphone does not stay dead on a returned output.  *)
DeadOutputRecovers ==
    \A b \in Buses, o \in Outputs :
        (bus[b].engine # None /\ bus[b].output = o /\ o \in bus[b].engine.lost \intersect there)
        ~> (bus[b].engine = None \/ o \notin bus[b].engine.lost \intersect there)

=============================================================================
