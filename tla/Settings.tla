------------------------------ MODULE Settings ------------------------------
(***************************************************************************)
(* The settings files (app_settings.rs, the recorder settings of           *)
(* recorder.rs, the phone settings of net/mod.rs) and the Windows start-up *)
(* entry that follows one of them.  Each file is read whenever a setting   *)
(* is needed, and rewritten in place: a write that is cut off leaves a     *)
(* file that reads as the defaults.                                        *)
(***************************************************************************)
CONSTANTS Defaults,     \* what each file says when it cannot be read
          Choices,      \* per file and field, the values a user may choose
          Unreadable    \* no file, or what a cut write leaves

VARIABLES files,        \* the contents of each file
          entry,        \* sync_windows_autostart: the start-up entry is there
          up,           \* the program is running
          asked,        \* history: the value last saved for each field, unless
                        \* its file has been lost since
          agreed        \* history: the last start or command synced the entry

settingsVars == <<files, entry, up, asked, agreed>>

Kinds == DOMAIN Defaults
Fields == {p \in Kinds \X UNION {DOMAIN Defaults[k] : k \in Kinds} : p[2] \in DOMAIN Defaults[p[1]]}

(* What a file that can be read says. *)
Contents(k) == {c \in [DOMAIN Defaults[k] -> UNION {Choices[k][f] : f \in DOMAIN Defaults[k]}] :
                  \A f \in DOMAIN Defaults[k] : c[f] \in Choices[k][f]}

ASSUME SettingsAssumption ==
    /\ \A k \in Kinds : Defaults[k] \in Contents(k) /\ Unreadable \notin Contents(k)
    /\ "app" \in Kinds /\ "launch_at_login" \in DOMAIN Defaults["app"]
    /\ Choices["app"]["launch_at_login"] = BOOLEAN

(* load_or_default *)
Loaded(k) == IF files[k] = Unreadable THEN Defaults[k] ELSE files[k]

SettingsTypeOK == /\ entry \in BOOLEAN /\ up \in BOOLEAN /\ agreed \in BOOLEAN
                  /\ \A p \in Fields : /\ Loaded(p[1])[p[2]] \in Choices[p[1]][p[2]]
                                       /\ asked[p] \in Choices[p[1]][p[2]] \union {Unreadable}

SettingsInit == /\ files = [k \in Kinds |-> Unreadable]
                /\ entry \in BOOLEAN
                /\ up = FALSE /\ agreed = FALSE
                /\ asked = [p \in Fields |-> Unreadable]

(* setup: the entry is made to follow the file; a failure is only logged.  *)
Boot(fails) == /\ ~up
               /\ up' = TRUE
               /\ entry' = IF fails THEN entry ELSE Loaded("app").launch_at_login
               /\ agreed' = ~fails
               /\ UNCHANGED <<files, asked>>

(* One field is changed and the whole file rewritten, unless the write     *)
(* fails or is cut off.                                                    *)
Rewritten(k, f, v)    == [Loaded(k) EXCEPT ![f] = v]

Saved(k, f, v) == /\ files' = [files EXCEPT ![k] = Rewritten(k, f, v)]
                  /\ asked' = [asked EXCEPT ![<<k, f>>] = v]
(* The write has truncated the file, or could not open it. *)
Lost(k) == /\ files' = [files EXCEPT ![k] = Unreadable]
           /\ asked' = [p \in Fields |-> IF p[1] = k THEN Unreadable ELSE asked[p]]
NotWritten(k) == Lost(k) \/ UNCHANGED <<files, asked>>

(* set_recordings_dir, set_recorder_format and phone_set_autostart. *)
SetField(k, f, v, fails) ==
    /\ up /\ k # "app"
    /\ IF fails THEN NotWritten(k) ELSE Saved(k, f, v)
    /\ UNCHANGED <<entry, up, agreed>>

(* app_set_launch_at_login: first the entry, then the file. *)
SetLaunch(v, fails) ==
    /\ up
    /\ entry' = v
    /\ IF fails THEN NotWritten("app") /\ agreed' = FALSE
       ELSE Saved("app", "launch_at_login", v) /\ agreed' = TRUE
    /\ UNCHANGED up

SettingsCrash == /\ up
                 /\ up' = FALSE /\ agreed' = FALSE
                 /\ \/ UNCHANGED <<files, asked>>
                    \/ \E k \in Kinds : Lost(k)           \* in the middle of a write
                 /\ UNCHANGED entry

SettingsNext ==
    \/ \E fails \in BOOLEAN : Boot(fails)
    \/ \E p \in Fields, fails \in BOOLEAN :
         \E v \in Choices[p[1]][p[2]] : SetField(p[1], p[2], v, fails)
    \/ \E v \in BOOLEAN, fails \in BOOLEAN : SetLaunch(v, fails)
    \/ SettingsCrash

-----------------------------------------------------------------------------
(* Properties *)

(* A setting that was saved keeps its value through changes of the others  *)
(* and through restarts (app_settings.rs:8, "an explicit off choice is     *)
(* persisted"), until a write of its file fails or is cut off: that write  *)
(* may cost every field of the file, and those of no other.  And once the  *)
(* program or a command has brought the start-up entry in line it says     *)
(* what the file says.                                                     *)
SettingsAreKept ==
    /\ \A p \in Fields : asked[p] # Unreadable => Loaded(p[1])[p[2]] = asked[p]
    /\ up /\ agreed => entry = Loaded("app").launch_at_login
=============================================================================
