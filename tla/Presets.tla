------------------------------ MODULE Presets -------------------------------
(***************************************************************************)
(* Preset files (presets.rs) and the commands of lib.rs that use them: a   *)
(* preset is written beside the old one, which is then removed and         *)
(* replaced; a file that is loaded is checked, migrated if it is of the    *)
(* first version, and applied.  The commands follow one another on the     *)
(* main thread.  One file is modelled, and what a preset says of gains and *)
(* effects is left to Controls; any step may fail, and the program may end *)
(* between two.                                                            *)
(***************************************************************************)
EXTENDS Integers, Sequences, FiniteSets

CONSTANTS Sinks,        \* BusId::ALL
          Consoles,     \* bound: the states the user brings the console to
          Shipped,      \* bound: the files of earlier versions, and edited ones
          Trim,         \* what trim() makes of each device id; "" is blank
          NoFile,       \* there is no file
          Torn,         \* a file whose writing was cut off
          Rejected      \* a file that cannot be loaded

VARIABLES console,      \* buses, inputs and automix groups of the application
          path, tmp,    \* the preset and its temporary file
          saver,        \* save_preset: "idle", "write", "remove", "rename"
          kept,         \* history: the console of the last completed save
          shown         \* history: the preset that was last applied

presetsVars == <<console, path, tmp, saver, kept, shown>>

-----------------------------------------------------------------------------
(* What a file says.  A console is a record of buses, inputs (the buses    *)
(* each is sent to) and groups.                                            *)

Distinct(s, key(_)) == \A m, n \in 1..Len(s) : key(s[m]) = key(s[n]) => m = n
Members(s) == {s[n] : n \in 1..Len(s)}
Listed(S) == CHOOSE s \in [1..Cardinality(S) -> S] : Members(s) = S
The(s, P(_)) == CHOOSE x \in Members(s) : P(x)

Text == DOMAIN Trim
Trimmed == {Trim[x] : x \in Text}
Named == Trimmed \ {""}

Finite(T) == {S \in SUBSET T : IsFiniteSet(S)}
Grouping == [id : Named, members : Finite(Text)]
Console == [buses : [Sinks -> [output : Trimmed, on : BOOLEAN]],
            inputs : UNION {[I -> SUBSET Sinks] : I \in Finite(Named)},
            groups : {gs \in Seq(Grouping) : Distinct(gs, LAMBDA g : g.id)}]

(* The two versions, as serde reads them. *)
FileV1 == [schema : {1}, routes : Seq([input : Text, output : Text, on : BOOLEAN])]
FileV2 == [schema : {2},
           buses : Seq([id : Sinks, output : Text, on : BOOLEAN]),
           inputs : Seq([device : Text, sends : Seq([bus : Sinks, on : BOOLEAN])]),
           groups : Seq([id : Text, members : Seq(Text)])]

ASSUME PresetsAssumption ==
    /\ "A1" \in Sinks /\ IsFiniteSet(Sinks)
    /\ "" \in Text /\ Trimmed \subseteq Text /\ Trim[""] = ""
    /\ \A x \in Trimmed : Trim[x] = x
    /\ Consoles \subseteq Console /\ Rejected \notin Console
    /\ {NoFile, Torn} \intersect (FileV1 \union FileV2) = {}
    /\ \A f \in Shipped : /\ f.schema = 1 => f \in FileV1
                          /\ f.schema = 2 => f \in FileV2

Silent == [output |-> "", on |-> FALSE]
NewConsole == [buses |-> [b \in Sinks |-> Silent], inputs |-> <<>>, groups |-> <<>>]

(* build_preset_v2_with_maps: every bus, and every send of every input. *)
Sends(to) == Listed({[bus |-> b, on |-> b \in to] : b \in Sinks})
Built(c) == [schema |-> 2,
             buses |-> Listed({[id |-> b, output |-> c.buses[b].output, on |-> c.buses[b].on]
                                   : b \in Sinks}),
             inputs |-> Listed({[device |-> i, sends |-> Sends(c.inputs[i])]
                                    : i \in DOMAIN c.inputs}),
             groups |-> [n \in 1..Len(c.groups) |->
                           [id |-> c.groups[n].id, members |-> Listed(c.groups[n].members)]]]

(* normalize_buses, normalize_sends, normalize_inputs and                  *)
(* normalize_automix_groups: what is missing is added, and an id that is   *)
(* blank or there twice is an error.                                       *)
BusesOk(bs) == Distinct(bs, LAMBDA r : r.id)
NormalBuses(bs) ==
    [b \in Sinks |-> IF \E r \in Members(bs) : r.id = b
                     THEN LET r == The(bs, LAMBDA x : x.id = b)
                          IN  [output |-> Trim[r.output], on |-> r.on]
                     ELSE Silent]

InputsOk(is) == /\ Distinct(is, LAMBDA r : Trim[r.device])
                /\ \A n \in 1..Len(is) : /\ Trim[is[n].device] # ""
                                         /\ Distinct(is[n].sends, LAMBDA s : s.bus)
NormalInputs(is) ==
    [i \in {Trim[r.device] : r \in Members(is)} |->
       {s.bus : s \in {s \in Members(The(is, LAMBDA r : Trim[r.device] = i).sends) : s.on}}]

GroupsOk(gs) == /\ Distinct(gs, LAMBDA g : Trim[g.id])
                /\ \A n \in 1..Len(gs) : Trim[gs[n].id] # ""
NormalGroups(gs) ==
    [n \in 1..Len(gs) |-> [id |-> Trim[gs[n].id], members |-> Members(gs[n].members)]]

(* validate_preset_v1: no route twice. *)
RoutesOk(rs) == /\ Distinct(rs, LAMBDA r : <<Trim[r.input], Trim[r.output]>>)
                /\ \A r \in Members(rs) : Trim[r.input] # "" /\ Trim[r.output] # ""

(* migrate_v1_to_v2: all on A1, and on the output of the first route.      *)
Heard(rs, i) == \E r \in Members(rs) : Trim[r.input] = i /\ r.on

Migrated(rs) ==
    [buses  |-> [b \in Sinks |-> IF b = "A1" /\ rs # <<>>
                                 THEN [output |-> Trim[rs[1].output],
                                       on |-> \E r \in Members(rs) : r.on]
                                 ELSE Silent],
     inputs |-> [i \in {Trim[r.input] : r \in Members(rs)} |->
                   IF Heard(rs, i) THEN {"A1"} ELSE {}],
     groups |-> <<>>]

(* parse_preset_json and load_preset_with_warnings: the console it asks for. *)
Parsed(f) ==
    IF f \in {NoFile, Torn} THEN Rejected
    ELSE IF f.schema = 1 THEN IF RoutesOk(f.routes) THEN Migrated(f.routes) ELSE Rejected
    ELSE IF f.schema = 2
    THEN IF BusesOk(f.buses) /\ InputsOk(f.inputs) /\ GroupsOk(f.groups)
         THEN [buses |-> NormalBuses(f.buses), inputs |-> NormalInputs(f.inputs),
               groups |-> NormalGroups(f.groups)]
         ELSE Rejected
    ELSE Rejected

-----------------------------------------------------------------------------

(* The consoles a user or a file brings about, and the files written.      *)
Held == {NewConsole} \union Consoles \union ({Parsed(f) : f \in Shipped} \ {Rejected})
Files == {NoFile, Torn} \union Shipped \union {Built(c) : c \in Held}

PresetsTypeOK == /\ path \in Files /\ tmp \in Files
                 /\ saver \in {"idle", "write", "remove", "rename"}
                 /\ console \in Held /\ Held \subseteq Console

PresetsInit == /\ console = NewConsole
               /\ path \in Shipped \union {NoFile} /\ tmp = NoFile
               /\ saver = "idle"
               /\ kept = Rejected /\ shown = NoFile

(* Any command that routes. *)
Edit(c) == /\ saver = "idle"
           /\ console' = c /\ shown' = NoFile
           /\ UNCHANGED <<path, tmp, saver, kept>>

(* save_preset holds the lock from here to its end, so that the console    *)
(* does not change.  write_preset_file first writes the temporary file,    *)
(* over what a crash left there, which nothing else ever reads ...         *)
(* Definitions ending in _Bug are mutants.                                 *)
StartSave == /\ saver = "idle"
             /\ saver' = "write" /\ tmp' = Torn
             /\ kept' = IF path = NoFile THEN Rejected ELSE kept
             /\ UNCHANGED <<console, path, shown>>

WriteTmp_Bug(fails) ==                      \* a write that fails does not end the save
    /\ saver = "write"
    /\ tmp' = IF fails THEN tmp ELSE Built(console)
    /\ saver' = "remove"
    /\ UNCHANGED <<console, path, kept, shown>>

WriteTmp(fails) ==
    /\ saver = "write"
    /\ tmp' = IF fails THEN tmp ELSE Built(console)
    /\ saver' = IF fails THEN "idle" ELSE "remove"
    /\ UNCHANGED <<console, path, kept, shown>>

(* ... then removes the old preset, and gives its name to the new one.  A  *)
(* rename that fails takes the new one away too: neither is left.          *)
RemoveOld(fails) ==
    /\ saver = "remove"
    /\ fails => path # NoFile
    /\ path' = IF fails THEN path ELSE NoFile
    /\ saver' = IF fails THEN "idle" ELSE "rename"
    /\ UNCHANGED <<console, tmp, kept, shown>>

Rename(fails) ==
    /\ saver = "rename"
    /\ path' = IF fails THEN path ELSE tmp
    /\ kept' = IF fails THEN Rejected ELSE console
    /\ tmp' = NoFile
    /\ saver' = "idle"
    /\ UNCHANGED <<console, shown>>

DeletePreset == /\ saver = "idle"
                /\ path # NoFile
                /\ path' = NoFile /\ kept' = Rejected
                /\ UNCHANGED <<console, tmp, saver, shown>>

(* load_preset, and apply_preset_state; a file that is missing or rejected *)
(* changes nothing.                                                        *)
LoadFile == /\ saver = "idle"
            /\ Parsed(path) # Rejected
            /\ console' = Parsed(path) /\ shown' = path
            /\ UNCHANGED <<path, tmp, saver, kept>>

(* The program ends and starts again. *)
PresetsCrash == /\ console' = NewConsole /\ saver' = "idle"
                /\ shown' = NoFile
                /\ UNCHANGED <<path, tmp, kept>>

PresetsNext == \/ \E c \in Consoles : Edit(c)
               \/ StartSave \/ DeletePreset \/ LoadFile \/ PresetsCrash
               \/ \E fails \in BOOLEAN : WriteTmp(fails) \/ RemoveOld(fails) \/ Rename(fails)

-----------------------------------------------------------------------------
(* Properties *)

(* A save that was reported can be loaded, and gives back the console it   *)
(* was made of, until it is deleted or replaced (presets.rs:166).  A later *)
(* save that fails or is cut off costs nothing but in the gap between      *)
(* remove_file and rename: there the preset has lost its name, the next    *)
(* one is whole in the temporary file, and a program that ends leaves both *)
(* unread.  A rename that fails takes the next one too and says so, after  *)
(* which there is no reported save.                                        *)
SavedPresetIsLoadable ==
    kept # Rejected =>
        \/ Parsed(path) = kept
        \/ path = NoFile /\ Parsed(tmp) # Rejected

(* Loading loses nothing the file says of what goes where: each input is   *)
(* there and is heard on the buses where a send or an old route of it was  *)
(* on (presets.rs:358, "Legacy preset loaded into A1 only"), each bus has  *)
(* the output and the state it had, each group its members, in their       *)
(* order; and saving the console again and loading that gives the same.    *)
Wanted1(f) == {Trim[r.input] : r \in {r \in Members(f.routes) : r.on}}
Wanted2(f) == {p \in {Trim[r.device] : r \in Members(f.inputs)} \X Sinks :
                 \E r \in Members(f.inputs) :
                    /\ Trim[r.device] = p[1]
                    /\ \E s \in Members(r.sends) : s.bus = p[2] /\ s.on}
HeardNow == {p \in (DOMAIN console.inputs) \X Sinks : p[2] \in console.inputs[p[1]]}
InputsOf(f) == IF f.schema = 1 THEN {Trim[r.input] : r \in Members(f.routes)}
               ELSE {Trim[r.device] : r \in Members(f.inputs)}

BusesKept1(f, c) ==
    /\ \A b \in Sinks \ {"A1"} : c.buses[b] = Silent
    /\ c.buses["A1"].on = (Wanted1(f) # {})
    /\ c.buses["A1"].output = IF f.routes = <<>> THEN "" ELSE Trim[f.routes[1].output]
BusesKept2(f, c) ==
    /\ \A r \in Members(f.buses) : /\ c.buses[r.id].output = Trim[r.output]
                                   /\ c.buses[r.id].on = r.on
    /\ \A b \in Sinks : (\A r \in Members(f.buses) : r.id # b) => c.buses[b] = Silent
GroupsKept2(f, c) ==
    /\ Len(c.groups) = Len(f.groups)
    /\ \A n \in 1..Len(f.groups) : /\ c.groups[n].id = Trim[f.groups[n].id]
                                   /\ c.groups[n].members = Members(f.groups[n].members)

LoadKeepsTheFile ==
    shown # NoFile =>
        /\ Parsed(Built(console)) = console
        /\ DOMAIN console.inputs = InputsOf(shown)
        /\ shown.schema = 1 => /\ HeardNow = Wanted1(shown) \X {"A1"}
                               /\ BusesKept1(shown, console) /\ console.groups = <<>>
        /\ shown.schema = 2 => /\ HeardNow = Wanted2(shown)
                               /\ BusesKept2(shown, console) /\ GroupsKept2(shown, console)

(* Not kept: that a preset that was reported saved outlives every later    *)
(* save that does not succeed, as one would expect of a file that is       *)
(* written beside the old one: remove_file comes before rename             *)
(* (presets.rs:178-184), and a crash between the two loses both.           *)
SavedPresetSurvives == kept # Rejected /\ saver = "idle" => Parsed(path) = kept

(* Not kept: presets.rs:390, "Legacy input '{}' had multiple routes. Only  *)
(* the first route was kept for A1."  The code keeps the volume of the     *)
(* first, and hears the input if any of them was on (presets.rs:394).      *)
FirstRouteDecides ==
    shown # NoFile /\ shown.schema = 1 =>
        \A n \in 1..Len(shown.routes) :
            LET i == Trim[shown.routes[n].input]
            IN  (\A m \in 1..(n - 1) : Trim[shown.routes[m].input] # i)
                    => (<<i, "A1">> \in HeardNow <=> shown.routes[n].on)

PresetsAreSafe == SavedPresetIsLoadable /\ LoadKeepsTheFile
=============================================================================
