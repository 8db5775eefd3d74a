------------------------------ MODULE Controls ------------------------------
(***************************************************************************)
(* What the faders do (lib.rs, audio/graph.rs): gains, mutes, boosts,      *)
(* effects and automix groups are stored in the graph and in the buses,    *)
(* and pushed to the engines that run, each of which was seeded with the   *)
(* values of the moment it was started.  Router models what is routed and  *)
(* when an engine can start; here a start succeeds or fails.  An effect    *)
(* configuration is a value: LiveDsp models how an engine applies it.      *)
(*                                                                         *)
(* The window's commands are executed in the order it sends them, so each  *)
(* is one action; but an effect is sent by one command per bus             *)
(* (useAudioManager.ts), between which the watcher and the phones' tasks   *)
(* may take the lock.                                                      *)
(***************************************************************************)
EXTENDS Integers, Sequences, FiniteSets

CONSTANTS Desks,        \* the buses in use, of BusId::ALL
          Strips,       \* inputs
          Faders,       \* gain and mute of an input, a send or a bus
          Unity,        \* the fader of a new channel
          Boosts,       \* set_input_boost
          Effects,      \* DSP configurations; 0 is the default
          Groups,       \* identifiers of automix groups
          MaxGroups,    \* MAX_AUTOMIX_GROUPS
          Kits,         \* bound: the saved presets
          MaxMoved,     \* bound: controls that differ from their default
          Nothing       \* no channel, no engine

ASSUME ControlsAssumption == /\ Faders \subseteq [gain : Nat, muted : BOOLEAN]
                             /\ Unity \in Faders /\ 1 \in Boosts /\ 0 \in Effects
                             /\ MaxGroups \in Nat /\ MaxMoved \in Nat
                             /\ "A1" \in Desks

VARIABLES channels,     \* AudioGraph: the channel of each input, or Nothing
          desk,         \* BusRuntime of each bus
          groups,       \* AppInner.automix_groups
          fan           \* the update_input_dsp commands of one flush that are
                        \* still to be executed, or Nothing

controlsVars == <<channels, desk, groups, fan>>

SendStrip == [on : BOOLEAN, fader : Faders]
Strip == [fader : Faders, boost : Boosts, dsp : Effects, monitor : BOOLEAN,
          sends : [Desks -> SendStrip]]
Mix == [members : SUBSET Strips, config : Effects]
Group == [id : Groups, mix : Mix]

(* left: the buses still to be told of the effect.  shown: those the input *)
(* was heard on as the screen had it.                                      *)
Fan == [input : Strips, effect : Effects, shown : SUBSET Desks, left : SUBSET Desks]
ASSUME FanAssumption == Nothing \notin Fan

OwnIds(gs) == \A m, n \in 1..Len(gs) : gs[m].id = gs[n].id => m = n

(* What a file may say is the subject of Presets: these have been loaded,  *)
(* so their groups have identifiers of their own, and may be too many.     *)
ASSUME KitsAssumption ==
    \A k \in Kits : /\ DOMAIN k.strips \subseteq Strips
                    /\ \A i \in DOMAIN k.strips : k.strips[i] \in Strip
                    /\ k.buses \in [Desks -> [on : BOOLEAN, fader : Faders, dsp : Effects]]
                    /\ k.groups \in Seq(Group) /\ OwnIds(k.groups)

ControlsTypeOK ==
    /\ channels \in [Strips -> Strip \union {Nothing}]
    /\ \A b \in Desks : /\ desk[b].fader \in Faders /\ desk[b].dsp \in Effects
                        /\ desk[b].on \in BOOLEAN
                        /\ desk[b].engine # Nothing => DOMAIN desk[b].engine.level \subseteq Strips
    /\ groups \in Seq(Group) /\ OwnIds(groups)
    /\ fan \in Fan \union {Nothing}

NewStrip == [fader |-> Unity, boost |-> 1, dsp |-> 0, monitor |-> FALSE,
             sends |-> [b \in Desks |-> [on |-> FALSE, fader |-> Unity]]]

ControlsInit ==
    /\ channels = [i \in Strips |-> Nothing]
    /\ desk = [b \in Desks |-> [on |-> FALSE, fader |-> Unity, dsp |-> 0, engine |-> Nothing]]
    /\ groups = <<>>
    /\ fan = Nothing

-----------------------------------------------------------------------------
(* What an engine is given *)

Monitored(c, b) == b = "A1" /\ c.monitor
HeardOn(ch, b) == {i \in Strips : ch[i] # Nothing /\ (ch[i].sends[b].on \/ Monitored(ch[i], b))}

(* effective_input_for_bus: an input that is only monitored is heard at    *)
(* unity, whatever its send says.                                          *)
Level(c, b) ==
    LET send == IF c.sends[b].on THEN c.sends[b].fader ELSE Unity
    IN  [gain |-> c.fader.gain * send.gain * c.boost, muted |-> c.fader.muted \/ send.muted]

(* automix_updates_for_engine: a group none of whose members has a slot in *)
(* the engine is left out; of the others, the first MaxGroups are given.   *)
Here(gs, slots, n) == gs[n].mix.members \intersect slots
Present(gs, slots, n) == {m \in 1..n : Here(gs, slots, m) # {}}
Given(gs, slots) ==
    {n \in Present(gs, slots, Len(gs)) : Cardinality(Present(gs, slots, n)) <= MaxGroups}
Resolved(gs, slots) ==
    [n \in Given(gs, slots) |-> [members |-> Here(gs, slots, n), config |-> gs[n].mix.config]]

SlotsOf(e) == DOMAIN e.level

(* untold (history): the inputs whose effect it has not, as the screen did *)
(* not show them on its bus when the effect was sent.                      *)
EngineOf(r, ch, b, slots) ==
    [level |-> [i \in slots |-> Level(ch[i], b)], dsp |-> [i \in slots |-> ch[i].dsp],
     fader |-> r.fader, master |-> r.dsp, mixing |-> Resolved(groups, slots), untold |-> {}]

(* rebuild_bus, when mixer::start succeeds on the buses of ok; the watcher *)
(* leaves out the inputs that are gone.                                    *)
Filtered(r, ch, b, gone, ok) ==
    LET slots == HeardOn(ch, b) \ gone
    IN  [r EXCEPT !.engine = IF r.on /\ slots # {} /\ b \in ok THEN EngineOf(r, ch, b, slots)
                             ELSE Nothing]
Restarted(r, ch, b, ok) == Filtered(r, ch, b, {}, ok)
StartFails(r, ch, b, ok) == r.on /\ HeardOn(ch, b) # {} /\ b \notin ok

(* update_gain on the engines of a set of buses that have a slot for i and *)
(* on which its send or its monitor is enabled.                            *)
Pushed(ch, i, where) ==
    [b \in Desks |-> IF b \in where /\ i \in HeardOn(ch, b) /\ desk[b].engine # Nothing
                        /\ i \in SlotsOf(desk[b].engine)
                     THEN [desk[b] EXCEPT !.engine.level[i] = Level(ch[i], b)]
                     ELSE desk[b]]

(* republish_automix_all *)
Mixing(gs, r) ==
    IF r.engine = Nothing THEN r
    ELSE [r EXCEPT !.engine.mixing = Resolved(gs, SlotsOf(r.engine))]
Republished(gs) == [b \in Desks |-> Mixing(gs, desk[b])]

-----------------------------------------------------------------------------
(* Inputs *)

Known(i) == channels[i] # Nothing

AddStrip(i) == /\ ~Known(i)
               /\ channels' = [channels EXCEPT ![i] = NewStrip]
               /\ UNCHANGED <<desk, groups>>

(* The buses the input was heard on are rebuilt in turn, a bus it was only *)
(* monitored on last; a bus that fails ends the loop.                      *)
DeskRank(b) == CASE b = "A1" -> 1 [] b = "A2" -> 2 [] b = "B1" -> 3 [] b = "B2" -> 4
Turn(c, b) == IF c.sends[b].on THEN DeskRank(b) ELSE 5

RemoveStrip(i, ok) ==
    LET ch == [channels EXCEPT ![i] = Nothing]
        affected == {b \in Desks : i \in HeardOn(channels, b)}
        failing == {b \in affected : StartFails(desk[b], ch, b, ok)}
        reached == {b \in affected :
                      \A f \in failing : Turn(channels[i], b) <= Turn(channels[i], f)}
    IN  /\ Known(i)
        /\ channels' = ch
        /\ desk' = [b \in Desks |-> IF b \in reached THEN Restarted(desk[b], ch, b, ok) ELSE desk[b]]
        /\ UNCHANGED groups

(* replace_input, when the new engines start: the groups keep the old id.  *)
ReplaceStrip(i, j, ok) ==
    LET ch == [channels EXCEPT ![i] = Nothing, ![j] = channels[i]]
        affected == {b \in Desks : i \in HeardOn(channels, b)}
        failing == {b \in affected : StartFails(desk[b], ch, b, ok)}
    IN  /\ Known(i) /\ ~Known(j)
        /\ channels' = IF failing = {} THEN ch ELSE channels
        /\ \E again \in IF failing = {} THEN {Desks} ELSE SUBSET affected :
             desk' = [b \in Desks |->
                        IF b \notin affected THEN desk[b]
                        ELSE IF failing = {} THEN Restarted(desk[b], ch, b, ok)
                        ELSE Restarted(desk[b], channels, b, again)]
        /\ UNCHANGED groups

SetInputGain(i, f) ==
    LET ch == [channels EXCEPT ![i].fader = f]
    IN  /\ Known(i)
        /\ channels' = ch /\ desk' = Pushed(ch, i, Desks)
        /\ UNCHANGED groups

SetInputBoost(i, x) ==
    LET ch == [channels EXCEPT ![i].boost = x]
    IN  /\ Known(i)
        /\ channels' = ch /\ desk' = Pushed(ch, i, Desks)
        /\ UNCHANGED groups

(* set_send_gain, and set_route_gain on A1. *)
SetSendGain(i, b, f) ==
    LET ch == [channels EXCEPT ![i].sends[b].fader = f]
    IN  /\ Known(i)
        /\ channels' = ch /\ desk' = Pushed(ch, i, {b})
        /\ UNCHANGED groups

(* set_input_monitor; the interface toggles it, and the sends.  A failed   *)
(* rebuild takes the flag back and leaves A1 silent.                       *)
SetMonitor(i, ok) ==
    LET ch == [channels EXCEPT ![i].monitor = ~@]
    IN  /\ Known(i) /\ "A1" \in Desks
        /\ channels' = IF StartFails(desk["A1"], ch, "A1", ok) THEN channels ELSE ch
        /\ desk' = [desk EXCEPT !["A1"] = Restarted(@, ch, "A1", ok)]
        /\ UNCHANGED groups

(* A failed rebuild takes the send back and starts the old engine again.   *)
EnableSend(i, b, ok, again) ==
    LET ch == [channels EXCEPT ![i].sends[b].on = ~@]
        failed == StartFails(desk[b], ch, b, ok)
    IN  /\ Known(i)
        /\ channels' = IF failed THEN channels ELSE ch
        /\ desk' = [desk EXCEPT ![b] = IF failed THEN Restarted(@, channels, b, again)
                                       ELSE Restarted(@, ch, b, ok)]
        /\ UNCHANGED groups

-----------------------------------------------------------------------------
(* The effect of an input *)

(* setInputDsp, when its pending write is flushed: one command for every   *)
(* bus the input is sent to or monitored on as far as the screen knows,    *)
(* and one in any case.  The screen may be behind the backend, and show    *)
(* any routing it had: a poll's answer that comes late takes an edit back. *)
(* Definitions ending in _Bug are mutants.                                 *)
Shown(sends, monitor) == sends \union (IF monitor THEN {"A1"} ELSE {})

Targets_Bug(sends, monitor) == IF sends = {} THEN {"A1"} ELSE sends  \* the monitor is forgotten
Targets(sends, monitor) ==
    IF Shown(sends, monitor) = {} THEN {"A1"} ELSE Shown(sends, monitor)

SetInputDsp(i, x, sends, monitor) ==
    /\ fan = Nothing
    /\ fan' = [input |-> i, effect |-> x, shown |-> Shown(sends, monitor),
               left |-> Targets(sends, monitor)]
    /\ UNCHANGED <<channels, desk, groups>>

(* update_input_dsp stores the effect for every bus, and publishes it to   *)
(* the engine of the one bus it is given.                                  *)
Plays(r, i) == r.engine # Nothing /\ i \in SlotsOf(r.engine)
DspPushed(r, i, x) ==
    IF Plays(r, i) THEN [r EXCEPT !.engine.dsp[i] = x, !.engine.untold = @ \ {i}] ELSE r
Untold(r, i, x) ==
    IF Plays(r, i) /\ r.engine.dsp[i] # x THEN [r EXCEPT !.engine.untold = @ \union {i}] ELSE r

UpdateInputDsp(b) ==
    /\ fan # Nothing /\ b \in fan.left
    /\ fan' = IF fan.left = {b} THEN Nothing ELSE [fan EXCEPT !.left = @ \ {b}]
    /\ IF Known(fan.input)
       THEN /\ channels' = [channels EXCEPT ![fan.input].dsp = fan.effect]
            /\ desk' = [d \in Desks |->
                          IF d = b THEN DspPushed(desk[d], fan.input, fan.effect)
                          ELSE IF d \in fan.shown THEN desk[d]
                          ELSE Untold(desk[d], fan.input, fan.effect)]
       ELSE UNCHANGED <<channels, desk>>                          \* "Unknown input"
    /\ UNCHANGED groups

(* The watcher rebuilds a bus when devices come and go (handle_device_diff *)
(* of lib.rs, modelled by Router).                                         *)
WatcherRebuilds(b, gone, ok) ==
    /\ desk' = [desk EXCEPT ![b] = Filtered(@, channels, b, gone, ok)]
    /\ UNCHANGED <<channels, groups>>

-----------------------------------------------------------------------------
(* Buses *)

(* rebuild_bus_with_config_change *)
SwitchBus(b, ok, again) ==
    LET r == [desk[b] EXCEPT !.on = ~@]
    IN  /\ desk' = [desk EXCEPT ![b] = IF StartFails(r, channels, b, ok)
                                       THEN Restarted(@, channels, b, again)
                                       ELSE Restarted(r, channels, b, ok)]
        /\ UNCHANGED <<channels, groups>>

SetBusVolume(b, f) ==
    /\ desk' = [desk EXCEPT ![b] = IF @.engine = Nothing THEN [@ EXCEPT !.fader = f]
                                   ELSE [@ EXCEPT !.fader = f, !.engine.fader = f]]
    /\ UNCHANGED <<channels, groups>>

UpdateBusDsp(b, x) ==
    /\ desk' = [desk EXCEPT ![b] = IF @.engine = Nothing THEN [@ EXCEPT !.dsp = x]
                                   ELSE [@ EXCEPT !.dsp = x, !.engine.master = x]]
    /\ UNCHANGED <<channels, groups>>

-----------------------------------------------------------------------------
(* Automix groups, and presets *)

NewMix == [members |-> {}, config |-> 0]
KnownGroup(g) == \E n \in 1..Len(groups) : groups[n].id = g

AutomixCreateGroup(g) ==
    /\ Len(groups) < MaxGroups
    /\ ~KnownGroup(g)
    /\ groups' = Append(groups, [id |-> g, mix |-> NewMix])
    /\ UNCHANGED <<channels, desk>>

Regrouped(g, mix) ==
    [n \in 1..Len(groups) |-> IF groups[n].id = g THEN [groups[n] EXCEPT !.mix = mix] ELSE groups[n]]

(* automix_set_members and automix_set_config *)
AutomixSet(g, mix) ==
    /\ KnownGroup(g)
    /\ \E n \in 1..Len(groups) :
         /\ groups[n].id = g
         /\ groups[n].mix.members = mix.members \/ groups[n].mix.config = mix.config
    /\ groups' = Regrouped(g, mix)
    /\ desk' = Republished(groups')
    /\ UNCHANGED channels

AutomixDeleteGroup(g) ==
    /\ \E n \in 1..Len(groups) :
         /\ groups[n].id = g
         /\ groups' = SubSeq(groups, 1, n - 1) \o SubSeq(groups, n + 1, Len(groups))
    /\ desk' = Republished(groups')
    /\ UNCHANGED channels

(* clear_routes: the groups stay. *)
Emptied == [i \in Strips |-> Nothing]
ClearDesk == /\ channels' = Emptied
             /\ desk' = [b \in Desks |-> [desk[b] EXCEPT !.engine = Nothing]]
             /\ UNCHANGED groups

(* apply_preset_state: no engine is started; boost and monitor are not in  *)
(* a preset and fall back to the default.                                  *)
ApplyKit(k) ==
    /\ channels' = [i \in Strips |->
                      IF i \in DOMAIN k.strips
                      THEN [NewStrip EXCEPT !.fader = k.strips[i].fader, !.dsp = k.strips[i].dsp,
                                            !.sends = k.strips[i].sends]
                      ELSE Nothing]
    /\ desk' = [b \in Desks |-> [on |-> k.buses[b].on, fader |-> k.buses[b].fader,
                                 dsp |-> k.buses[b].dsp, engine |-> Nothing]]
    /\ groups' = k.groups

-----------------------------------------------------------------------------

(* The controls that are not in their default position, or being moved. *)
Moved ==
    LET on == {i \in Strips : Known(i)}
    IN    {<<i, "fader">> : i \in {i \in on : channels[i].fader # Unity}}
    \union {<<i, "boost">> : i \in {i \in on : channels[i].boost # 1}}
    \union {<<i, "dsp">> : i \in {i \in on : channels[i].dsp # 0}}
    \union {<<i, "dsp">> : i \in {i \in Strips : fan # Nothing /\ fan.input = i}}
    \union {<<i, "dsp">> : i \in UNION {desk[b].engine.untold :
                                          b \in {b \in Desks : desk[b].engine # Nothing}}}
    \union {p \in on \X Desks : channels[p[1]].sends[p[2]].fader # Unity}
    \union {<<b, "fader">> : b \in {b \in Desks : desk[b].fader # Unity}}
    \union {<<b, "dsp">> : b \in {b \in Desks : desk[b].dsp # 0}}
    \union {p \in {"mix"} \X {"members", "config"} :
               \E n \in 1..Len(groups) : groups[n].mix[p[2]] # NewMix[p[2]]}

(* The commands of the window, after those it sent before ... *)
Command ==
    \/ \E i, j \in Strips, ok \in SUBSET Desks : ReplaceStrip(i, j, ok)
    \/ \E i \in Strips, f \in Faders : SetInputGain(i, f)
    \/ \E i \in Strips, x \in Boosts : SetInputBoost(i, x)
    \/ \E i \in Strips, b \in Desks, f \in Faders : SetSendGain(i, b, f)
    \/ \E i \in Strips, ok \in SUBSET {"A1"} : SetMonitor(i, ok)
    \/ \E i \in Strips, b \in Desks : \E ok, again \in SUBSET {b} : EnableSend(i, b, ok, again)
    \/ \E b \in Desks : \E ok, again \in SUBSET {b} : SwitchBus(b, ok, again)
    \/ \E b \in Desks, f \in Faders : SetBusVolume(b, f)
    \/ \E b \in Desks, x \in Effects : UpdateBusDsp(b, x)
    \/ \E g \in Groups : AutomixCreateGroup(g)
    \/ \E g \in Groups, mix \in Mix : AutomixSet(g, mix)
    \/ \E g \in Groups : AutomixDeleteGroup(g)
    \/ ClearDesk
    \/ \E k \in Kits : ApplyKit(k)

(* ... and what other threads do at any time: an input may be a phone.     *)
Behind ==
    \/ \E i \in Strips : AddStrip(i)
    \/ \E i \in Strips, ok \in SUBSET Desks : RemoveStrip(i, ok)
    \/ \E b \in Desks, gone \in SUBSET Strips : \E ok \in SUBSET {b} : WatcherRebuilds(b, gone, ok)

ControlsStep ==
    \/ fan = Nothing /\ Command /\ UNCHANGED fan
    \/ \E i \in Strips, x \in Effects, sends \in SUBSET Desks, monitor \in BOOLEAN :
         SetInputDsp(i, x, sends, monitor)
    \/ \E b \in Desks : UpdateInputDsp(b)
    \/ Behind /\ UNCHANGED fan

ControlsNext == ControlsStep /\ Cardinality(Moved') <= MaxMoved

ControlsSpec == ControlsInit /\ [][ControlsNext]_controlsVars

-----------------------------------------------------------------------------
(* Properties *)

(* An engine that runs plays every input that is routed to its bus at the  *)
(* level the graph and the bus say, and shares its gains among the groups  *)
(* as they are, whatever was pushed to it and however long ago it was      *)
(* started (lib.rs:1097, graph.rs:240): a rebuild changes no sound.  It    *)
(* has the input's effect too, as soon as the commands under way have told *)
(* every bus, unless the screen did not show the input on this bus when    *)
(* the effect was last sent: then it keeps the old one until it is told    *)
(* again or rebuilt.                                                       *)
Coming(i, b) == fan # Nothing /\ fan.input = i /\ b \in fan.left
InForce(e, b) ==
    /\ e.fader = desk[b].fader /\ e.master = desk[b].dsp
    /\ e.mixing = Resolved(groups, SlotsOf(e))
    /\ \A i \in SlotsOf(e) \intersect HeardOn(channels, b) :
         /\ e.level[i] = Level(channels[i], b)
         /\ i \in e.untold \/ Coming(i, b) \/ e.dsp[i] = channels[i].dsp

EngineFollowsGraph == \A b \in Desks : desk[b].engine # Nothing => InForce(desk[b].engine, b)

(* Not so (DesktopStatements.cfg): the effect is pushed "to every bus this *)
(* input is routed to so whichever engine is live updates immediately"     *)
(* (useAudioManager.ts:1048).                                              *)
EffectsReachEveryBus ==
    fan = Nothing =>
        \A b \in Desks : desk[b].engine # Nothing =>
            \A i \in SlotsOf(desk[b].engine) \intersect HeardOn(channels, b) :
                desk[b].engine.dsp[i] = channels[i].dsp
=============================================================================
