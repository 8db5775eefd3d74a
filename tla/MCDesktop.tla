----------------------------- MODULE MCDesktop -----------------------------
(* The desktop's commands and files side by side: a behaviour exercises    *)
(* one part, and leaves the others in their initial state.                 *)
EXTENDS Controls, Presets, Settings, PhoneServer, CableNames, CableHelper, TLC

CONSTANTS i1, i2

Quiet == [gain |-> 1, muted |-> FALSE]
Loud  == [gain |-> 2, muted |-> TRUE]
MCFaders == {Quiet, Loud}
MCSends(on) == [b \in {"A1", "B1"} |-> [on |-> b \in on, fader |-> Quiet]]
MCBuses(a1) == [b \in {"A1", "B1"} |-> [on |-> TRUE, fader |-> IF b = "A1" THEN a1 ELSE Quiet, dsp |-> 0]]
MCStrips(ids) == [i \in ids |-> [fader |-> Quiet, boost |-> 1, dsp |-> 0, monitor |-> FALSE,
                                 sends |-> MCSends({"A1"})]]
MCKits == {[strips |-> MCStrips({i1, i2}), buses |-> MCBuses(Loud), groups |-> <<>>],
           [strips |-> MCStrips({i1, i2}), buses |-> MCBuses(Quiet),
            groups |-> <<[id |-> "g", mix |-> [members |-> {i1, i2}, config |-> 0]],
                         [id |-> "h", mix |-> [members |-> {i1, i2}, config |-> 0]]>>]}
Symmetry == Permutations({i1, i2}) \cup Permutations(Commands)

MCTrim == "" :> "" @@ " " :> "" @@ "m" :> "m" @@ "m " :> "m" @@ "n" :> "n" @@ "o" :> "o"
          @@ "p" :> "p" @@ "g" :> "g"
MCConsoles == {[buses  |-> [b \in {"A1", "B1"} |-> [output |-> IF b = "A1" THEN "o" ELSE "", on |-> b = "A1"]],
                inputs |-> [m |-> {"A1", "B1"}, n |-> {}],
                groups |-> <<[id |-> "g", members |-> {"m", "n"}]>>]}
Route(i, o, on) == [input |-> i, output |-> o, on |-> on]
Device(i, sends) == [device |-> i, sends |-> sends]
ToA1(on) == [bus |-> "A1", on |-> on]
MCShipped ==
    {[schema |-> 1, routes |-> <<Route("m", "o", FALSE), Route("m ", "p", TRUE), Route("n", "o", FALSE)>>],
     [schema |-> 1, routes |-> <<Route("m", "o", TRUE), Route("m ", "o", TRUE)>>],
     [schema |-> 2, buses |-> <<[id |-> "A1", output |-> " ", on |-> TRUE]>>,
      inputs |-> <<Device("m ", <<ToA1(TRUE)>>)>>,
      groups |-> <<[id |-> "g", members |-> <<"m", "m">>]>>],
     [schema |-> 2, buses |-> <<>>, groups |-> <<>>,
      inputs |-> <<Device("m ", <<>>), Device("m", <<ToA1(TRUE)>>)>>],
     [schema |-> 3]}

MCDefaults == [app |-> [launch_at_login |-> TRUE], phone |-> [autostart |-> FALSE],
               recorder |-> [recordings_dir |-> "default", format |-> "float32"]]
MCChoices == [app |-> [launch_at_login |-> BOOLEAN], phone |-> [autostart |-> BOOLEAN],
              recorder |-> [recordings_dir |-> {"default", "music"}, format |-> {"float32", "int16"}]]

MCSlot == [e1 |-> "A1", e2 |-> "B1"]
MCRequests == {[A1 |-> "Room", B1 |-> "Stream"], [A1 |-> "Desk", B1 |-> "Stream"]}
MCFactory == [A1 |-> "Cable 1", B1 |-> "Stream Output"]

VARIABLE part

vars == <<part, controlsVars, presetsVars, settingsVars, serverVars, cableNamesVars, helperVars>>

Parts == {"controls", "effects", "presets", "settings", "server", "names", "helper"}

Init == /\ part \in Parts
        /\ ControlsInit /\ PresetsInit /\ SettingsInit /\ PhoneServerInit
        /\ CableNamesInit /\ CableHelperInit
        /\ part = "presets" \/ path = NoFile
        /\ part = "settings" \/ ~entry
        /\ part = "server" \/ ips = {}

Alone(p) == /\ part = p
            /\ UNCHANGED part
            /\ p \notin {"controls", "effects"} => UNCHANGED controlsVars
            /\ p # "presets" => UNCHANGED presetsVars
            /\ p # "settings" => UNCHANGED settingsVars
            /\ p # "server" => UNCHANGED serverVars
            /\ p # "names" => UNCHANGED cableNamesVars
            /\ p # "helper" => UNCHANGED helperVars

(* Effects are sent where there is one input, the rest where there are two *)
(* and an engine that has lost a microphone is the only one that runs.     *)
OneStrip == Cardinality({i \in Strips : channels'[i] # Nothing}) <= 1
OneGapped ==
    LET running == {b \in Desks : desk'[b].engine # Nothing}
    IN  \A b \in running : \/ HeardOn(channels', b) \subseteq SlotsOf(desk'[b].engine)
                           \/ running = {b} /\ b = "A1"

Next == \/ Alone("controls") /\ fan' = Nothing /\ ControlsNext /\ OneGapped
        \/ Alone("effects") /\ ControlsNext /\ OneStrip
        \/ Alone("presets") /\ PresetsNext
        \/ Alone("settings") /\ SettingsNext
        \/ Alone("server") /\ PhoneServerNext
        \/ Alone("names") /\ CableNamesNext
        \/ Alone("helper") /\ CableHelperNext

Spec == Init /\ [][Next]_vars

TypesOK == /\ ControlsTypeOK /\ PresetsTypeOK /\ SettingsTypeOK /\ PhoneServerTypeOK
           /\ CableNamesTypeOK /\ CableHelperTypeOK

(* The files the program keeps, when writes of them fail or are cut off:   *)
(* presets (presets.rs:179), the settings and the certificate it starts    *)
(* with (app_settings.rs:8, net/tls.rs:28).  And the virtual cable's names *)
(* and status (amvc_sync.rs:229, amvc.rs:147).                             *)
StartupIsSafe == SettingsAreKept /\ ServerIsTrusted
FilesAreSafe == PresetsAreSafe /\ StartupIsSafe
CableIsSafe == NamesFitTheBus /\ LoneCommandAligns /\ StatusIsWhole
=============================================================================
