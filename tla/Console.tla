------------------------------- MODULE Console -------------------------------
(***************************************************************************)
(* The desktop window: useAudioManager.ts and useHistory.ts of             *)
(* src/src/components/audio-manager.  An edit shows at once and is sent to *)
(* the backend, faders once per animation frame; a poll replaces what is   *)
(* shown by what the backend says; undo restores a snapshot on the screen  *)
(* and sends the commands that make up the difference.                     *)
(*                                                                         *)
(* One bus and one input are kept, with one control of each kind: a fader  *)
(* that shares its command with a mute button, a switch, an input with its *)
(* gain and its send.  The backend executes commands in the order they are *)
(* invoked and answers in that order: they are synchronous Tauri commands, *)
(* which run on the main thread.                                           *)
(***************************************************************************)
EXTENDS Naturals, Sequences

CONSTANTS Levels,       \* positions of a fader
          DefaultLevel, \* that of a new input
          Absent,       \* the gain of an input that is not there
          Presets,      \* desks that presets hold
          HistoryCap,   \* HISTORY_CAP
          MaxEdits,     \* bound on what the user does ...
          MaxFlight     \* ... and on the calls and answers under way when he does it

ASSUME ConsoleAssumption == /\ DefaultLevel \in Levels /\ Absent \notin Levels
                            /\ HistoryCap \in Nat \ {0} /\ {MaxEdits, MaxFlight} \subseteq Nat

Desk == [vol : Levels, muted : BOOLEAN, on : BOOLEAN, gain : Levels \union {Absent}, send : BOOLEAN]

(* The backend keeps a send with its input, and so does a preset.          *)
ASSUME PresetsAreDesks == /\ Presets \subseteq Desk
                          /\ \A p \in Presets : p.send => p.gain # Absent

VARIABLES screen,  \* the reducer's state
          seen,    \* stateRef.current: the state last rendered
          back,    \* what the backend holds
          pending, \* the faders with a write in pendingWrites
          calls,   \* commands invoked and not yet executed
          answers, \* answers not yet handled
          polling, \* stateInflight
          hist,    \* the undo and redo stacks, and lastKey
          drag,    \* the fader the user holds, or "none"
          user     \* history: what the user wants

consoleVars == <<screen, seen, back, pending, calls, answers, polling, hist, drag, user>>

(* A call carries the values it sets; an undo's also the calls to follow.  *)
Faders == {"vol", "gain"}
Ops    == {"bus", "on", "gain", "send", "add", "remove", "preset", "snapshot"}
Call(op, with, by, rest) == [op |-> op, with |-> with, by |-> by, rest |-> rest]
Edit(op, with) == Call(op, with, "edit", <<>>)
Refresh        == Call("snapshot", <<>>, "refresh", <<>>)

(* chosen: the volume and mute the user asked for last.  misled: a command *)
(* was made from a screen that did not show them.  goal: what an undo that *)
(* began at rest has to bring back, and whether it adds the input again.   *)
NoGoal == [desk |-> {}, added |-> FALSE]
Level(d) == <<d.vol, d.muted>>

ConsoleTypeOK ==
    /\ {screen, seen, back} \subseteq Desk
    /\ pending \subseteq Faders
    /\ \A k \in DOMAIN calls : calls[k].op \in Ops /\ calls[k].by \in {"edit", "undo", "poll", "refresh"}
    /\ \A k \in DOMAIN answers : answers[k].call.op \in Ops /\ answers[k].got \subseteq Desk
    /\ polling \in BOOLEAN
    /\ hist.past \in Seq(Desk) /\ hist.future \in Seq(Desk)
    /\ Len(hist.past) <= HistoryCap /\ Len(hist.future) <= HistoryCap
    /\ drag \in Faders \union {"none"}
    /\ user.edits \in 0..MaxEdits

ConsoleInit == /\ back = [vol |-> DefaultLevel, muted |-> FALSE, on |-> FALSE, gain |-> DefaultLevel, send |-> TRUE]
               /\ screen = back /\ seen = back
               /\ pending = {} /\ calls = <<>> /\ answers = <<>> /\ polling = FALSE
               /\ hist = [past |-> <<>>, future |-> <<>>, lastKey |-> "none"]
               /\ drag = "none"
               /\ user = [chosen |-> Level(back), misled |-> FALSE, goal |-> NoGoal, edits |-> 0]

-----------------------------------------------------------------------------
(* useHistory.  Definitions ending in _Bug are mutants. *)

Capped_Bug(s) == IF Len(s) > HistoryCap + 1 THEN Tail(s) ELSE s  \* one too many
Capped(s) == IF Len(s) > HistoryCap THEN Tail(s) ELSE s

(* push, with the state before the edit and, from a fader, its key *)
Pushed(key) == IF key # "none" /\ key = hist.lastKey THEN hist
               ELSE [past |-> Capped(Append(hist.past, seen)), future |-> <<>>, lastKey |-> key]

Front(s) == SubSeq(s, 1, Len(s) - 1)

(* undo, redo and reset leave lastKey alone. *)
Undone == [hist EXCEPT !.past = Front(@), !.future = Capped(Append(@, seen))]
Redone == [hist EXCEPT !.future = Front(@), !.past = Capped(Append(@, seen))]
Reset  == [hist EXCEPT !.past = <<>>, !.future = <<>>]

-----------------------------------------------------------------------------
(* What the user does *)

InFlight(by) == \/ (\E k \in DOMAIN calls : calls[k].by = by)
                \/ (\E k \in DOMAIN answers : answers[k].call.by = by)

AtRest == /\ pending = {}
          /\ \A k \in DOMAIN calls : calls[k].op = "snapshot"
          /\ \A k \in DOMAIN answers : answers[k].call.op = "snapshot"

Free == Len(calls) + Len(answers) <= MaxFlight

(* Counts an edit.  No goal survives it, and an edit of the bus while an   *)
(* undo is sending its commands may be overtaken by one of them.           *)
Wants(level, deceived) ==
    /\ Free /\ user.edits < MaxEdits
    /\ user' = [chosen |-> level, goal |-> NoGoal, edits |-> user.edits + 1,
                misled |-> user.misled \/ deceived \/ (level # user.chosen /\ InFlight("undo"))]

(* A click or key is rendered before anything else runs; the moves of a    *)
(* knob and the answers of the backend are rendered a little later.        *)
Shows(d) == screen' = d /\ seen' = d
Render   == /\ seen # screen
            /\ seen' = screen
            /\ UNCHANGED <<screen, back, pending, calls, answers, polling, hist, drag, user>>

(* setBusVolume and setInputGain: one event of a gesture *)
Drag(f, v, rendered) ==
    /\ drag \in {"none", f}
    /\ f = "gain" => seen.gain # Absent
    /\ Wants(IF f = "vol" THEN <<v, user.chosen[2]>> ELSE user.chosen, FALSE)
    /\ drag' = f
    /\ hist' = Pushed(f)
    /\ screen' = IF f = "gain" /\ screen.gain = Absent THEN screen ELSE [screen EXCEPT ![f] = v]
    /\ seen' = IF rendered THEN screen' ELSE seen
    /\ pending' = pending \union {f}
    /\ UNCHANGED <<back, calls, answers, polling>>

Release == /\ drag # "none"
           /\ drag' = "none"
           /\ UNCHANGED <<screen, seen, back, pending, calls, answers, polling, hist, user>>

(* The other edits send their command at once. *)
Click(d, call, level, deceived) ==
    /\ drag = "none"
    /\ Wants(level, deceived)
    /\ hist' = Pushed("none")
    /\ Shows(d)
    /\ calls' = Append(calls, call)
    /\ UNCHANGED <<back, pending, answers, polling, drag>>

SetBusMuted == LET m == ~seen.muted IN
    Click([screen EXCEPT !.muted = m], Edit("bus", [vol |-> seen.vol, muted |-> m]),
          <<user.chosen[1], m>>, Level(seen) # user.chosen)

SetBusEnabled == Click([screen EXCEPT !.on = ~seen.on], Edit("on", [on |-> ~seen.on, prev |-> seen.on]),
                       user.chosen, FALSE)

ToggleSend == /\ seen.gain # Absent
              /\ Click([screen EXCEPT !.send = ~@], Edit("send", [send |-> ~seen.send]), user.chosen, FALSE)

RemoveInput == /\ seen.gain # Absent
               /\ Click([screen EXCEPT !.gain = Absent, !.send = FALSE], Edit("remove", <<>>), user.chosen, FALSE)

AddInput == /\ seen.gain = Absent
            /\ Click(screen, Edit("add", <<>>), user.chosen, FALSE)

(* load_preset shows nothing until it is done. *)
LoadPreset(p) == /\ drag = "none"
                 /\ Wants(user.chosen, FALSE)
                 /\ calls' = Append(calls, Edit("preset", p))
                 /\ UNCHANGED <<screen, seen, back, pending, answers, polling, hist, drag>>

(* reconcileToSnapshot compares with what was rendered last, which is the  *)
(* state before the snapshot is restored.                                  *)
If(cond, call) == IF cond THEN <<call>> ELSE <<>>
Undo(op, with) == Call(op, with, "undo", <<>>)
Difference(cur, t) ==
    If(cur.on # t.on, Undo("on", [on |-> t.on]))
    \o If(Level(cur) # Level(t), Undo("bus", [vol |-> t.vol, muted |-> t.muted]))
    \o If(cur.gain # Absent /\ t.gain = Absent, Undo("remove", <<>>))
    \o If(cur.gain = Absent /\ t.gain # Absent, Undo("add", <<>>))
    \o If(Absent \notin {cur.gain, t.gain} /\ cur.gain # t.gain, Undo("gain", [gain |-> t.gain]))
    \o If(cur.send # t.send, Undo("send", [send |-> t.send]))
Reconcile_Bug(t) == Difference(screen', t)  \* with what the restore shows
Reconcile(t) == Difference(seen, t)

(* The first command is invoked at once, each other one when the one       *)
(* before is answered, and at the end the screen is refreshed.             *)
FirstOf(s) == IF s = <<>> THEN Refresh ELSE [Head(s) EXCEPT !.rest = Tail(s)]

Restore(t, h, edits) ==
    /\ drag = "none"
    /\ Free
    /\ hist' = h
    /\ Shows(t)
    /\ calls' = Append(calls, FirstOf(Reconcile(t)))
    /\ user' = [chosen |-> Level(t), edits |-> edits,
                misled |-> user.misled \/ Level(seen) # user.chosen \/ InFlight("undo"),
                goal |-> IF AtRest /\ screen = back /\ seen = back
                         THEN [desk |-> {t}, added |-> seen.gain = Absent /\ t.gain # Absent] ELSE NoGoal]
    /\ UNCHANGED <<back, pending, answers, polling, drag>>

UndoLast == hist.past # <<>> /\ Restore(hist.past[Len(hist.past)], Undone, user.edits)
RedoLast == /\ hist.future # <<>>
            /\ user.edits < MaxEdits
            /\ Restore(hist.future[Len(hist.future)], Redone, user.edits + 1)

-----------------------------------------------------------------------------
(* Timers of the window *)

(* flushWrites: a write takes the values from the state at this moment, a  *)
(* fader's with the mute beside it.                                        *)
BusWrite_Bug == Edit("bus", [vol |-> seen.vol, muted |-> FALSE])  \* the fader alone
BusWrite == Edit("bus", [vol |-> seen.vol, muted |-> seen.muted])
Flush == /\ pending # {}
         /\ pending' = {}
         /\ calls' = calls \o If("vol" \in pending, BusWrite)
                           \o If("gain" \in pending /\ seen.gain # Absent, Edit("gain", [gain |-> seen.gain]))
         /\ user' = [user EXCEPT !.misled = @ \/ ("vol" \in pending /\ Level(seen) # user.chosen)]
         /\ UNCHANGED <<screen, seen, back, answers, polling, hist, drag>>

(* tickState *)
Poll == /\ ~polling
        /\ polling' = TRUE
        /\ calls' = Append(calls, Call("snapshot", <<>>, "poll", <<>>))
        /\ UNCHANGED <<screen, seen, back, pending, answers, hist, drag, user>>

-----------------------------------------------------------------------------
(* The backend: the commands of lib.rs, which Controls models in full *)

After(c) == CASE c.op = "bus"    -> [back EXCEPT !.vol = c.with.vol, !.muted = c.with.muted]
              [] c.op = "on"     -> [back EXCEPT !.on = c.with.on]
              [] c.op = "gain"   -> [back EXCEPT !.gain = c.with.gain]
              [] c.op = "send"   -> [back EXCEPT !.send = c.with.send]
              [] c.op = "remove" -> [back EXCEPT !.gain = Absent, !.send = FALSE]
              [] c.op = "add" /\ back.gain = Absent -> [back EXCEPT !.gain = DefaultLevel, !.send = FALSE]
              [] c.op = "preset" -> c.with
              [] OTHER           -> back

(* An engine does not start, a device is gone, a file cannot be read; or   *)
(* there is no such input.                                                 *)
MayFail(c)  == c.op \in {"on", "send", "add", "preset", "snapshot"}
MustFail(c) == c.op \in {"gain", "send"} /\ back.gain = Absent

Execute(ok) ==
    LET c == Head(calls)
        presets == ok /\ c.op = "preset"
        Overtaken == pending # {} \/ InFlight("undo") \/ \E k \in 2..Len(calls) : calls[k].op = "bus"
    IN /\ calls # <<>>
       /\ IF ok THEN ~MustFail(c) ELSE MayFail(c) \/ MustFail(c)
       /\ back' = IF ok THEN After(c) ELSE back
       /\ calls' = Tail(calls)
       /\ answers' = Append(answers, [call |-> c, ok |-> ok,
                                      got |-> IF ok /\ c.op = "snapshot" THEN {back} ELSE {}])
       /\ user' = [user EXCEPT !.chosen = IF presets THEN Level(back') ELSE @,
                               !.misled = @ \/ (presets /\ Overtaken),
                               !.goal = IF presets \/ (~ok /\ ~MustFail(c)) THEN NoGoal ELSE @]
       /\ UNCHANGED <<screen, seen, pending, polling, hist, drag>>

-----------------------------------------------------------------------------
(* Answers *)

Answered == /\ answers # <<>>
            /\ answers' = Tail(answers)
            /\ UNCHANGED <<seen, back, pending, drag, user>>

(* hydrate, for the poll or a refresh *)
StillPolling_Bug(a) == polling /\ (a.call.by # "poll" \/ ~a.ok)  \* an error leaves the flag set
StillPolling(a) == polling /\ a.call.by # "poll"
Hydrate == LET a == Head(answers) IN
    /\ Answered
    /\ a.call.op = "snapshot"
    /\ screen' = IF a.got = {} THEN screen ELSE CHOOSE d \in a.got : TRUE
    /\ polling' = StillPolling(a)
    /\ UNCHANGED <<calls, hist>>

(* The then and catch of an edit.  A refused switch gets its old value     *)
(* back, a refused send is toggled again.                                  *)
EditAnswered == LET a == Head(answers) IN
    /\ Answered
    /\ a.call.by = "edit"
    /\ screen' = IF a.ok THEN screen
                 ELSE CASE a.call.op = "on"   -> [screen EXCEPT !.on = a.call.with.prev]
                        [] a.call.op = "send" -> [screen EXCEPT !.send = ~@]
                        [] OTHER              -> screen
    /\ calls' = calls \o If(a.call.op = "remove" \/ (a.ok /\ a.call.op \in {"on", "send", "add", "preset"}), Refresh)
    /\ hist' = IF a.ok /\ a.call.op = "preset" THEN Reset ELSE hist
    /\ UNCHANGED polling

(* Errors of an undo are only logged. *)
UndoAnswered == LET a == Head(answers) IN
    /\ Answered
    /\ a.call.by = "undo"
    /\ calls' = Append(calls, FirstOf(a.call.rest))
    /\ UNCHANGED <<screen, polling, hist>>

-----------------------------------------------------------------------------
UserStep == \/ \E f \in Faders, v \in Levels, rendered \in BOOLEAN : Drag(f, v, rendered)
            \/ Release \/ SetBusMuted \/ SetBusEnabled
            \/ ToggleSend \/ RemoveInput \/ AddInput
            \/ \E p \in Presets : LoadPreset(p)
            \/ UndoLast \/ RedoLast

AnswerStep == Hydrate \/ EditAnswered \/ UndoAnswered

ConsoleNext == \/ UserStep \/ Render \/ Flush \/ Poll
               \/ Execute(TRUE) \/ Execute(FALSE)
               \/ AnswerStep

(* Frames are drawn, the timer of the poll fires, commands are executed    *)
(* and answered while the window is visible; a poll that is tried for ever *)
(* is answered at last.                                                    *)
ConsoleFairness == /\ WF_consoleVars(Render) /\ WF_consoleVars(Flush) /\ WF_consoleVars(Poll)
                   /\ WF_consoleVars(Execute(TRUE) \/ Execute(FALSE))
                   /\ SF_consoleVars(Execute(TRUE) /\ Head(calls).by = "poll")
                   /\ WF_consoleVars(AnswerStep)

ConsoleSpec == ConsoleInit /\ [][ConsoleNext]_consoleVars /\ ConsoleFairness

-----------------------------------------------------------------------------
(* Properties *)

(* Once the user stops, screen and backend agree for good, whatever was    *)
(* refused, rolled back or overtaken by a poll (useAudioManager.ts:717).   *)
ScreenConverges == <>[](screen = back /\ seen = back)

(* The bus plays at the volume, and with the mute, the user asked for last *)
(* once everything is sent, if no command was made from a screen that did  *)
(* not show them: the fader and the mute button share a command, and so do *)
(* undo and preset, and none takes back what another did (line 855).       *)
LastChoiceIsHeard == AtRest /\ ~user.misled => Level(back) = user.chosen

(* An undo or redo that begins at rest, and of whose commands none fails,  *)
(* gives back what was, but for the gain of an input it adds again and for *)
(* a send that a refused toggle left on the screen without its input       *)
(* (useAudioManager.ts 1169 and 1314).                                     *)
UndoTakesBack == AtRest => \A d \in user.goal.desk :
                     back = [d EXCEPT !.gain = IF user.goal.added THEN back.gain ELSE @,
                                      !.send = @ /\ d.gain # Absent]

(* types.ts:267 "Undo the last undoable mutation (state + IPC              *)
(* reconciliation)": also the gain of the input.                           *)
UndoRestoresAll == AtRest => \A d \in user.goal.desk : back = d

(* useHistory.ts:63 "useful for slider drags (one entry per gesture, not   *)
(* per change)": a gesture that begins leaves an entry.                    *)
OneEntryPerGesture == [][drag = "none" /\ drag' # "none" => hist'.past[Len(hist'.past)] = seen]_consoleVars

LastSendRefused == /\ calls = <<>> /\ Len(answers) = 1
                   /\ Head(answers).call.by = "edit" /\ Head(answers).call.op = "send"
                   /\ ~Head(answers).ok

(* useAudioManager.ts:1168 "Re-toggle to revert": when nothing else is     *)
(* under way the screen shows what the backend holds.                      *)
RetoggleReverts == [][LastSendRefused /\ answers' = <<>> => screen'.send = back.send]_consoleVars
=============================================================================
