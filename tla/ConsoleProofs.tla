---------------------------- MODULE ConsoleProofs ----------------------------
(***************************************************************************)
(* Theorems about the desktop window, for any fader positions, presets,    *)
(* length of the undo history and number of edits.                         *)
(***************************************************************************)
EXTENDS Console, TLAPS

-----------------------------------------------------------------------------
(* Calls and answers.  What a call carries fits its command.               *)

With == [vol : Levels, muted : BOOLEAN] \union [on : BOOLEAN] \union [on : BOOLEAN, prev : BOOLEAN]
        \union [gain : Levels] \union [send : BOOLEAN] \union {<<>>} \union Presets

Fits(c) == /\ c.op = "bus" => c.with \in [vol : Levels, muted : BOOLEAN]
           /\ c.op = "on" => c.with.on \in BOOLEAN /\ (c.by = "edit" => c.with.prev \in BOOLEAN)
           /\ c.op = "gain" => c.with.gain \in Levels
           /\ c.op = "send" => c.with.send \in BOOLEAN
           /\ c.op = "preset" => c.with \in Presets

UndoOps == {"on", "bus", "remove", "add", "gain", "send"}
Undos   == {c \in [op : UndoOps, with : With, by : {"undo"}, rest : {<<>>}] : Fits(c)}
Calls   == {c \in [op : Ops, with : With, by : {"edit", "undo", "poll", "refresh"}, rest : Seq(Undos)] :
              /\ Fits(c)
              /\ c.by = "undo" => c.op \in UndoOps
              /\ c.by # "undo" => c.rest = <<>>
              /\ c.op = "snapshot" <=> c.by \in {"poll", "refresh"}}
Answers == [call : Calls, ok : BOOLEAN, got : SUBSET Desk]

History == {h \in [past : Seq(Desk), future : Seq(Desk), lastKey : Faders \union {"none"}] :
              Len(h.past) <= HistoryCap /\ Len(h.future) <= HistoryCap}
Users   == [chosen : Levels \X BOOLEAN, misled : BOOLEAN, goal : [desk : SUBSET Desk, added : BOOLEAN],
            edits : 0..MaxEdits]

Types == /\ screen \in Desk /\ seen \in Desk /\ back \in Desk
         /\ pending \subseteq Faders
         /\ calls \in Seq(Calls) /\ answers \in Seq(Answers)
         /\ polling \in BOOLEAN
         /\ hist \in History
         /\ drag \in Faders \union {"none"}
         /\ user \in Users

(* The backend keeps a send with its input.                                *)
HasInput(d) == d.send => d.gain # Absent

-----------------------------------------------------------------------------
(* What the user asked for last.  The commands of an undo under way carry  *)
(* it; what is sent for the bus last carries it, unless a write of the     *)
(* fader or a command of the undo is still to follow.                      *)

(* What undo has still to invoke.                                          *)
Follows(u, c) == \E i \in DOMAIN c.rest : c.rest[i] = u
Following == {u \in Undos : \/ \E k \in DOMAIN calls : Follows(u, calls[k])
                            \/ \E k \in DOMAIN answers : Follows(u, answers[k].call)}

BusCalls(S) == {u \in S : u.op = "bus"}
LastBus(k)  == calls[k].op = "bus" /\ \A j \in DOMAIN calls : j > k => calls[j].op # "bus"

UndoInv == /\ \A u \in BusCalls(Following) : Level(u.with) = user.chosen
           /\ \A k \in DOMAIN calls : calls[k].by = "undo" /\ calls[k].op = "bus" =>
                 Level(calls[k].with) = user.chosen

SentInv == "vol" \notin pending /\ BusCalls(Following) = {} =>
             /\ \A k \in DOMAIN calls : LastBus(k) => Level(calls[k].with) = user.chosen
             /\ (\A k \in DOMAIN calls : calls[k].op # "bus") => Level(back) = user.chosen

ChoiceInv == ~user.misled => UndoInv /\ SentInv

-----------------------------------------------------------------------------
(* An undo that began at rest.  R is what is left of it: the call under    *)
(* way and those that follow; nothing else is under way but snapshots.     *)

Quiet(s)  == \A k \in DOMAIN s : s[k].op = "snapshot"
Heard(s)  == \A k \in DOMAIN s : s[k].call.op = "snapshot"

Calling(R)  == /\ Heard(answers)
               /\ \E k \in DOMAIN calls : /\ calls[k] = FirstOf(R)
                                          /\ \A j \in DOMAIN calls : j # k => calls[j].op = "snapshot"
Answering(R) == /\ Quiet(calls)
                /\ \E k \in DOMAIN answers :
                     /\ answers[k].call.by = "undo" /\ answers[k].call.rest = R
                     /\ \A j \in DOMAIN answers : j # k => answers[j].call.op = "snapshot"
Over(R)      == R = <<>> /\ Quiet(calls) /\ Heard(answers)

Members(s)  == {s[i] : i \in DOMAIN s}
Has(R, op)  == \E i \in DOMAIN R : R[i].op = op
SendLast(R) == \A i \in DOMAIN R : R[i].op = "send" => i = Len(R)

(* Each command of R sets what the snapshot t has, and what none of them   *)
(* sets is as it was.                                                      *)
Sets(u, t, added) == /\ u.op = "on" => u.with.on = t.on
                     /\ u.op = "bus" => Level(u.with) = Level(t)
                     /\ u.op = "remove" => t.gain = Absent
                     /\ u.op = "add" => added
                     /\ u.op = "gain" => ~added /\ t.gain # Absent /\ u.with.gain = t.gain
                     /\ u.op = "send" => u.with.send = t.send

Toward(R, d, t, added) ==
    /\ \A i \in DOMAIN R : Sets(R[i], t, added)
    /\ added => t.gain # Absent
    /\ ~Has(R, "on") => d.on = t.on
    /\ ~Has(R, "bus") => Level(d) = Level(t)
    /\ t.gain = Absent /\ ~Has(R, "remove") => d.gain = Absent
    /\ t.gain # Absent /\ ~Has(R, "add") => d.gain # Absent
    /\ t.gain # Absent /\ ~added /\ ~Has(R, "gain") => d.gain = t.gain
    /\ t.gain # Absent /\ ~Has(R, "send") => d.send = t.send

Chain(R) == Over(R) \/ Calling(R) \/ Answering(R)

GoalInv == \/ user.goal.desk = {}
           \/ /\ pending = {}
              /\ \E t \in Desk, R \in Seq(Undos) :
                   /\ user.goal.desk = {t}
                   /\ Chain(R) /\ SendLast(R) /\ Toward(R, back, t, user.goal.added)

Inv == Types /\ HasInput(back) /\ ChoiceInv /\ GoalInv

-----------------------------------------------------------------------------
(* Sequences *)

LEMMA TailIs ==
    ASSUME NEW S, NEW s \in Seq(S), s # <<>>
    PROVE  /\ Len(s) > 0 /\ Head(s) \in S /\ Head(s) = s[1] /\ 1 \in DOMAIN s
           /\ Tail(s) \in Seq(S) /\ Len(Tail(s)) = Len(s) - 1
           /\ \A i \in DOMAIN Tail(s) : i \in 1..Len(s) - 1 /\ i + 1 \in DOMAIN s /\ Tail(s)[i] = s[i + 1]
           /\ \A i \in DOMAIN s : i > 1 => i - 1 \in DOMAIN Tail(s) /\ Tail(s)[i - 1] = s[i]
  OBVIOUS

LEMMA AppendIs ==
    ASSUME NEW S, NEW s \in Seq(S), NEW x \in S
    PROVE  /\ Append(s, x) \in Seq(S) /\ Len(Append(s, x)) = Len(s) + 1
           /\ DOMAIN Append(s, x) = DOMAIN s \union {Len(s) + 1} /\ Len(s) + 1 \notin DOMAIN s
           /\ Append(s, x)[Len(s) + 1] = x
           /\ \A i \in DOMAIN s : Append(s, x)[i] = s[i] /\ i < Len(s) + 1
  OBVIOUS

LEMMA CatIs ==
    ASSUME NEW S, NEW a \in Seq(S), NEW b \in Seq(S)
    PROVE  /\ a \o b \in Seq(S) /\ Len(a \o b) = Len(a) + Len(b)
           /\ \A i \in DOMAIN a : i \in DOMAIN (a \o b) /\ (a \o b)[i] = a[i]
           /\ \A i \in DOMAIN b : Len(a) + i \in DOMAIN (a \o b) /\ (a \o b)[Len(a) + i] = b[i]
           /\ \A i \in DOMAIN (a \o b) : \/ i \in DOMAIN a /\ (a \o b)[i] = a[i]
                                         \/ i - Len(a) \in DOMAIN b /\ (a \o b)[i] = b[i - Len(a)]
  OBVIOUS

LEMMA IfIs ==
    ASSUME NEW S, NEW c \in BOOLEAN, NEW x, c => x \in S
    PROVE  /\ If(c, x) \in Seq(S) /\ (c => If(c, x) = <<x>>) /\ (~c => If(c, x) = <<>>)
           /\ \A i \in DOMAIN If(c, x) : c /\ i = 1 /\ If(c, x)[i] = x /\ Len(If(c, x)) = 1
           /\ c => 1 \in DOMAIN If(c, x) /\ If(c, x)[1] = x
  BY DEF If

-----------------------------------------------------------------------------
(* Calls *)

LEMMA DeskIs ==
    ASSUME NEW d \in Desk
    PROVE  /\ d.vol \in Levels /\ d.muted \in BOOLEAN /\ d.on \in BOOLEAN /\ d.send \in BOOLEAN
           /\ d.gain # Absent => d.gain \in Levels
           /\ Level(d) \in Levels \X BOOLEAN
  BY DEF Desk, Level

LEMMA UndoIs ==
    ASSUME NEW op \in UndoOps, NEW w \in With, Fits([op |-> op, with |-> w, by |-> "undo", rest |-> <<>>])
    PROVE  Undo(op, w) \in Undos /\ Undo(op, w).op = op /\ Undo(op, w).with = w
  BY DEF Undo, Call, Undos

LEMMA EditIs ==
    ASSUME NEW op \in Ops \ {"snapshot"}, NEW w \in With,
           Fits([op |-> op, with |-> w, by |-> "edit", rest |-> <<>>])
    PROVE  /\ Edit(op, w) \in Calls /\ Edit(op, w).op = op /\ Edit(op, w).with = w
           /\ Edit(op, w).by = "edit" /\ Edit(op, w).rest = <<>>
  BY DEF Edit, Call, Calls

LEMMA RefreshIs == /\ Refresh \in Calls /\ Refresh.op = "snapshot" /\ Refresh.rest = <<>>
                   /\ Refresh.by = "refresh"
  BY DEF Refresh, Call, Calls, Fits, With, Ops

LEMMA PollIs == LET c == Call("snapshot", <<>>, "poll", <<>>)
                IN  c \in Calls /\ c.op = "snapshot" /\ c.rest = <<>> /\ c.by = "poll"
  BY DEF Call, Calls, Fits, With, Ops

LEMMA FirstIs ==
    ASSUME NEW R \in Seq(Undos)
    PROVE  /\ FirstOf(R) \in Calls
           /\ R = <<>> => FirstOf(R) = Refresh
           /\ R # <<>> => /\ FirstOf(R).op = R[1].op /\ FirstOf(R).with = R[1].with
                          /\ FirstOf(R).by = "undo" /\ FirstOf(R).rest = Tail(R)
                          /\ FirstOf(R).op \in UndoOps /\ R[1] \in Undos
  <1>1. CASE R = <<>>
    BY <1>1, RefreshIs DEF FirstOf
  <1>2. CASE R # <<>>
    <2> DEFINE u == Head(R)
               c == [u EXCEPT !.rest = Tail(R)]
    <2>1. u \in Undos /\ u = R[1] /\ Tail(R) \in Seq(Undos)
      BY <1>2, TailIs
    <2> HIDE DEF u
    <2>2. /\ c.op = u.op /\ c.with = u.with /\ c.by = "undo" /\ c.rest = Tail(R)
          /\ c \in [op : Ops, with : With, by : {"edit", "undo", "poll", "refresh"}, rest : Seq(Undos)]
      BY <2>1 DEF Undos, UndoOps, Ops
    <2>3. Fits(u) /\ u.op \in UndoOps /\ u.by = "undo"
      BY <2>1 DEF Undos
    <2>4. FirstOf(R) = c
      BY <1>2 DEF FirstOf, u
    <2> HIDE DEF c
    <2>5. c \in Calls
      BY <2>2, <2>3 DEF Calls, Fits, UndoOps
    <2> QED BY <1>2, <2>1, <2>2, <2>3, <2>4, <2>5
  <1> QED BY <1>1, <1>2

-----------------------------------------------------------------------------
(* What a command does to the backend *)

LEMMA AfterIs ==
    ASSUME back \in Desk, NEW c \in Calls, ~MustFail(c)
    PROVE  /\ After(c) \in Desk
           /\ c.op = "preset" => After(c) = c.with
           /\ c.op = "bus" => Level(After(c)) = Level(c.with)
           /\ c.op \notin {"bus", "preset"} => Level(After(c)) = Level(back)
           /\ c.op = "on" => After(c).on = c.with.on
           /\ c.op \notin {"on", "preset"} => After(c).on = back.on
           /\ c.op = "gain" => After(c).gain = c.with.gain /\ c.with.gain # Absent /\ back.gain # Absent
           /\ c.op = "remove" => After(c).gain = Absent
           /\ c.op = "add" => After(c).gain # Absent /\ (back.gain # Absent => After(c) = back)
           /\ c.op \notin {"gain", "remove", "add", "preset"} => After(c).gain = back.gain
           /\ c.op = "send" => After(c).send = c.with.send /\ back.gain # Absent
           /\ c.op \notin {"send", "remove", "add", "preset"} => After(c).send = back.send
           /\ c.op = "add" /\ back.gain = Absent => After(c).send = FALSE
           /\ HasInput(back) => HasInput(After(c))
           /\ c.op \in {"preset", "snapshot"} => c.rest = <<>>
  <1>1. Fits(c) /\ c.op \in Ops /\ (c.op \in {"preset", "snapshot"} => c.rest = <<>>)
    BY DEF Calls, UndoOps, Ops
  <1>2. /\ back.gain # Absent => back.gain \in Levels
        /\ DefaultLevel \in Levels /\ Absent \notin Levels
    BY ConsoleAssumption, DeskIs
  <1>3. CASE c.op = "bus"
    <2> DEFINE d == [back EXCEPT !.vol = c.with.vol, !.muted = c.with.muted]
    <2>1. c.with.vol \in Levels /\ c.with.muted \in BOOLEAN
      BY <1>1, <1>3 DEF Fits
    <2>2. /\ d \in Desk /\ d.vol = c.with.vol /\ d.muted = c.with.muted /\ d.on = back.on
          /\ d.gain = back.gain /\ d.send = back.send
      BY <2>1 DEF Desk
    <2>3. After(c) = d
      BY <1>3 DEF After
    <2> HIDE DEF d
    <2> QED BY <1>1, <1>3, <2>2, <2>3 DEF Level, HasInput
  <1>4. CASE c.op = "on"
    <2> DEFINE d == [back EXCEPT !.on = c.with.on]
    <2>1. c.with.on \in BOOLEAN
      BY <1>1, <1>4 DEF Fits
    <2>2. /\ d \in Desk /\ d.vol = back.vol /\ d.muted = back.muted /\ d.on = c.with.on
          /\ d.gain = back.gain /\ d.send = back.send
      BY <2>1 DEF Desk
    <2>3. After(c) = d
      BY <1>4 DEF After
    <2> HIDE DEF d
    <2> QED BY <1>1, <1>4, <2>2, <2>3 DEF Level, HasInput
  <1>5. CASE c.op = "gain"
    <2> DEFINE d == [back EXCEPT !.gain = c.with.gain]
    <2>1. c.with.gain \in Levels /\ back.gain # Absent
      BY <1>1, <1>5 DEF Fits, MustFail
    <2>2. /\ d \in Desk /\ d.vol = back.vol /\ d.muted = back.muted /\ d.on = back.on
          /\ d.gain = c.with.gain /\ d.send = back.send
      BY <2>1 DEF Desk
    <2>3. After(c) = d
      BY <1>5 DEF After
    <2> HIDE DEF d
    <2> QED BY <1>1, <1>2, <1>5, <2>1, <2>2, <2>3 DEF Level, HasInput
  <1>6. CASE c.op = "send"
    <2> DEFINE d == [back EXCEPT !.send = c.with.send]
    <2>1. c.with.send \in BOOLEAN /\ back.gain # Absent
      BY <1>1, <1>6 DEF Fits, MustFail
    <2>2. /\ d \in Desk /\ d.vol = back.vol /\ d.muted = back.muted /\ d.on = back.on
          /\ d.gain = back.gain /\ d.send = c.with.send
      BY <2>1 DEF Desk
    <2>3. After(c) = d
      BY <1>6 DEF After
    <2> HIDE DEF d
    <2> QED BY <1>1, <1>6, <2>1, <2>2, <2>3 DEF Level, HasInput
  <1>7. CASE c.op = "remove"
    <2> DEFINE d == [back EXCEPT !.gain = Absent, !.send = FALSE]
    <2>2. /\ d \in Desk /\ d.vol = back.vol /\ d.muted = back.muted /\ d.on = back.on
          /\ d.gain = Absent /\ d.send = FALSE
      BY DEF Desk
    <2>3. After(c) = d
      BY <1>7 DEF After
    <2> HIDE DEF d
    <2> QED BY <1>1, <1>7, <2>2, <2>3 DEF Level, HasInput
  <1>8. CASE c.op = "add" /\ back.gain = Absent
    <2> DEFINE d == [back EXCEPT !.gain = DefaultLevel, !.send = FALSE]
    <2>2. /\ d \in Desk /\ d.vol = back.vol /\ d.muted = back.muted /\ d.on = back.on
          /\ d.gain = DefaultLevel /\ d.send = FALSE
      BY <1>2 DEF Desk
    <2>3. After(c) = d
      BY <1>8 DEF After
    <2> HIDE DEF d
    <2> QED BY <1>1, <1>2, <1>8, <2>2, <2>3 DEF Level, HasInput
  <1>9. CASE c.op = "preset"
    <2>1. c.with \in Presets /\ After(c) = c.with
      BY <1>1, <1>9 DEF Fits, After
    <2> QED BY <1>1, <1>9, <2>1, PresetsAreDesks DEF HasInput
  <1>10. CASE c.op = "snapshot" \/ (c.op = "add" /\ back.gain # Absent)
    <2>1. After(c) = back
      BY <1>10 DEF After
    <2> QED BY <1>1, <1>10, <2>1
  <1> QED BY <1>1, <1>3, <1>4, <1>5, <1>6, <1>7, <1>8, <1>9, <1>10 DEF Ops

-----------------------------------------------------------------------------
(* Types *)

LEMMA WantsIs ==
    ASSUME Types, NEW level \in Levels \X BOOLEAN, NEW deceived \in BOOLEAN, Wants(level, deceived)
    PROVE  /\ user' \in Users /\ user'.goal.desk = {} /\ user'.chosen = level
           /\ user'.edits = user.edits + 1
           /\ ~user'.misled => /\ ~user.misled /\ ~deceived
                               /\ level # user.chosen => ~InFlight("undo")
  <1> DEFINE m == user.misled \/ deceived \/ (level # user.chosen /\ InFlight("undo"))
             e == user.edits + 1
             u == [chosen |-> level, goal |-> NoGoal, edits |-> e, misled |-> m]
  <1>1. user.misled \in BOOLEAN /\ user.edits \in 0..MaxEdits /\ user.edits < MaxEdits /\ user' = u
    BY DEF Types, Users, Wants
  <1>2. e \in 0..MaxEdits /\ m \in BOOLEAN
    BY <1>1, ConsoleAssumption
  <1>3. m \/ (~user.misled /\ ~deceived /\ (level # user.chosen => ~InFlight("undo")))
    BY <1>1
  <1> HIDE DEF m, e
  <1>4. u \in Users /\ u.goal.desk = {} /\ u.chosen = level /\ u.misled = m /\ u.edits = e
    BY <1>2 DEF Users, NoGoal
  <1> HIDE DEF u
  <1> QED BY <1>1, <1>3, <1>4 DEF e

LEMMA CappedIs ==
    ASSUME NEW h \in History, NEW d \in Desk,
           NEW s \in {h.past, h.future}
    PROVE  Capped(Append(s, d)) \in Seq(Desk) /\ Len(Capped(Append(s, d))) <= HistoryCap
  <1> DEFINE a == Append(s, d)
  <1>1. s \in Seq(Desk) /\ Len(s) <= HistoryCap
    BY DEF History
  <1>2. a \in Seq(Desk) /\ Len(a) = Len(s) + 1 /\ a # <<>> /\ Len(s) \in Nat
    BY <1>1
  <1> HIDE DEF a
  <1>3. Tail(a) \in Seq(Desk) /\ Len(Tail(a)) = Len(a) - 1
    BY <1>2
  <1> QED BY <1>1, <1>2, <1>3, ConsoleAssumption DEF Capped, a

LEMMA FrontIs ==
    ASSUME NEW s \in Seq(Desk), s # <<>>
    PROVE  Front(s) \in Seq(Desk) /\ Len(Front(s)) <= Len(s) /\ s[Len(s)] \in Desk
  BY DEF Front

LEMMA HistoryIs ==
    ASSUME Types
    PROVE  /\ \A key \in Faders \union {"none"} : Pushed(key) \in History
           /\ hist.past # <<>> => Undone \in History /\ hist.past[Len(hist.past)] \in Desk
           /\ hist.future # <<>> => Redone \in History /\ hist.future[Len(hist.future)] \in Desk
           /\ Reset \in History
  <1>1. /\ hist \in History /\ seen \in Desk /\ hist.lastKey \in Faders \union {"none"}
        /\ hist.past \in Seq(Desk) /\ hist.future \in Seq(Desk)
        /\ Len(hist.past) <= HistoryCap /\ Len(hist.future) <= HistoryCap
    BY DEF Types, History
  <1>2. <<>> \in Seq(Desk) /\ Len(<<>>) <= HistoryCap
    BY ConsoleAssumption
  <1>3. ASSUME NEW p \in Seq(Desk), NEW f \in Seq(Desk), NEW k \in Faders \union {"none"},
               Len(p) <= HistoryCap, Len(f) <= HistoryCap
        PROVE  [past |-> p, future |-> f, lastKey |-> k] \in History
    BY <1>3 DEF History
  <1>4. ASSUME NEW p \in Seq(Desk), NEW f \in Seq(Desk), Len(p) <= HistoryCap, Len(f) <= HistoryCap
        PROVE  /\ [hist EXCEPT !.past = p, !.future = f] \in History
               /\ [hist EXCEPT !.future = f, !.past = p] \in History
    BY <1>1, <1>4 DEF History
  <1>5. ASSUME NEW key \in Faders \union {"none"} PROVE Pushed(key) \in History
    <2> DEFINE p == Capped(Append(hist.past, seen))
    <2>1. p \in Seq(Desk) /\ Len(p) <= HistoryCap
      BY <1>1, CappedIs
    <2>2. Pushed(key) = IF key # "none" /\ key = hist.lastKey THEN hist
                        ELSE [past |-> p, future |-> <<>>, lastKey |-> key]
      BY DEF Pushed
    <2> HIDE DEF p
    <2>3. [past |-> p, future |-> <<>>, lastKey |-> key] \in History
      BY <1>2, <1>3, <2>1
    <2> QED BY <1>1, <2>2, <2>3
  <1>6. ASSUME hist.past # <<>>
        PROVE  Undone \in History /\ hist.past[Len(hist.past)] \in Desk
    <2> DEFINE p == Front(hist.past)
               f == Capped(Append(hist.future, seen))
    <2>1. p \in Seq(Desk) /\ Len(p) <= HistoryCap /\ hist.past[Len(hist.past)] \in Desk
      <3>1. Len(p) \in Nat /\ Len(hist.past) \in Nat /\ HistoryCap \in Nat
        BY <1>1, <1>6, FrontIs, ConsoleAssumption
      <3> QED BY <1>1, <1>6, <3>1, FrontIs
    <2>2. f \in Seq(Desk) /\ Len(f) <= HistoryCap
      BY <1>1, CappedIs
    <2>3. Undone = [hist EXCEPT !.past = p, !.future = f]
      BY DEF Undone
    <2> HIDE DEF p, f
    <2>4. [hist EXCEPT !.past = p, !.future = f] \in History
      BY <1>4, <2>1, <2>2
    <2> QED BY <2>1, <2>3, <2>4
  <1>7. ASSUME hist.future # <<>>
        PROVE  Redone \in History /\ hist.future[Len(hist.future)] \in Desk
    <2> DEFINE p == Capped(Append(hist.past, seen))
               f == Front(hist.future)
    <2>1. f \in Seq(Desk) /\ Len(f) <= HistoryCap /\ hist.future[Len(hist.future)] \in Desk
      <3>1. Len(f) \in Nat /\ Len(hist.future) \in Nat /\ HistoryCap \in Nat
        BY <1>1, <1>7, FrontIs, ConsoleAssumption
      <3> QED BY <1>1, <1>7, <3>1, FrontIs
    <2>2. p \in Seq(Desk) /\ Len(p) <= HistoryCap
      BY <1>1, CappedIs
    <2>3. Redone = [hist EXCEPT !.future = f, !.past = p]
      BY DEF Redone
    <2> HIDE DEF p, f
    <2>4. [hist EXCEPT !.future = f, !.past = p] \in History
      BY <1>4, <2>1, <2>2
    <2> QED BY <2>1, <2>3, <2>4
  <1>8. Reset \in History
    BY <1>2, <1>4 DEF Reset
  <1> QED BY <1>5, <1>6, <1>7, <1>8

LEMMA TypesSame == ASSUME Types, UNCHANGED consoleVars PROVE Types'
  BY DEF Types, consoleVars

(* A call at the end of the queue.                                         *)
LEMMA CallIsOne ==
    ASSUME Types, NEW c \in Calls
    PROVE  /\ <<c>> \in Seq(Calls) /\ Append(calls, c) = calls \o <<c>>
           /\ DOMAIN <<c>> = {1} /\ <<c>>[1] = c
  BY DEF Types

LEMMA FieldsAre ==
    ASSUME NEW d \in Desk
    PROVE  /\ \A v \in Levels : [d EXCEPT !.vol = v] \in Desk
           /\ \A v \in Levels : [d EXCEPT !.gain = v] \in Desk
           /\ \A b \in BOOLEAN : [d EXCEPT !.muted = b] \in Desk
           /\ \A b \in BOOLEAN : [d EXCEPT !.on = b] \in Desk
           /\ \A b \in BOOLEAN : [d EXCEPT !.send = b] \in Desk
           /\ [d EXCEPT !.gain = Absent, !.send = FALSE] \in Desk
  BY DEF Desk

LEMMA DragIs ==
    ASSUME Types, NEW f \in Faders, NEW v \in Levels, NEW rendered \in BOOLEAN, Drag(f, v, rendered)
    PROVE  /\ Types' /\ user'.goal.desk = {} /\ calls' = calls /\ answers' = answers /\ back' = back
           /\ pending' = pending \union {f}
           /\ ~user'.misled => /\ ~user.misled
                               /\ user'.chosen # user.chosen => ~InFlight("undo") /\ f = "vol"
  <1> DEFINE level == IF f = "vol" THEN <<v, user.chosen[2]>> ELSE user.chosen
  <1>1. level \in Levels \X BOOLEAN
    BY DEF Types, Users
  <1>2. Wants(level, FALSE) /\ (level # user.chosen => f = "vol")
    BY DEF Drag
  <1> HIDE DEF level
  <1>3. /\ user' \in Users /\ user'.goal.desk = {}
        /\ ~user'.misled => ~user.misled /\ (user'.chosen # user.chosen => ~InFlight("undo") /\ f = "vol")
    BY <1>1, <1>2, WantsIs
  <1>4. screen' \in Desk /\ seen' \in Desk
    <2>1. [screen EXCEPT ![f] = v] \in Desk
      <3>1. CASE f = "vol"
        BY <3>1, FieldsAre DEF Types
      <3>2. CASE f = "gain"
        BY <3>2, FieldsAre DEF Types
      <3> QED BY <3>1, <3>2 DEF Faders
    <2>2. screen' \in Desk
      BY <2>1 DEF Drag, Types
    <2> QED BY <2>2 DEF Drag, Types
  <1>5. hist' \in History
    BY HistoryIs DEF Drag
  <1>6. /\ drag' = f /\ pending' = pending \union {f}
        /\ UNCHANGED <<back, calls, answers, polling>>
    BY DEF Drag
  <1>7. Types'
    BY <1>3, <1>4, <1>5, <1>6 DEF Types
  <1> QED BY <1>3, <1>6, <1>7

LEMMA ClickIs ==
    ASSUME Types, NEW d \in Desk, NEW c \in Calls, NEW level \in Levels \X BOOLEAN,
           NEW deceived \in BOOLEAN, Click(d, c, level, deceived)
    PROVE  /\ Types' /\ user'.goal.desk = {} /\ calls' = calls \o <<c>> /\ answers' = answers
           /\ back' = back /\ pending' = pending /\ user'.chosen = level
           /\ ~user'.misled => /\ ~user.misled /\ ~deceived
                               /\ user'.chosen # user.chosen => ~InFlight("undo")
  <1>1. Wants(level, deceived)
    BY DEF Click
  <1>2. /\ user' \in Users /\ user'.goal.desk = {} /\ user'.chosen = level
        /\ ~user'.misled => ~user.misled /\ ~deceived /\ (level # user.chosen => ~InFlight("undo"))
    BY <1>1, WantsIs
  <1>3. calls' = calls \o <<c>> /\ calls' \in Seq(Calls)
    BY CallIsOne DEF Click, Types
  <1>4. hist' \in History
    BY HistoryIs DEF Click
  <1>5. screen' = d /\ seen' = d /\ UNCHANGED <<back, pending, answers, polling, drag>>
    BY DEF Click, Shows
  <1>6. Types'
    BY <1>2, <1>3, <1>4, <1>5 DEF Types
  <1> QED BY <1>2, <1>3, <1>5, <1>6

LEMMA LoadPresetIs ==
    ASSUME Types, NEW p \in Presets, LoadPreset(p)
    PROVE  /\ Types' /\ user'.goal.desk = {} /\ calls' = calls \o <<Edit("preset", p)>>
           /\ answers' = answers /\ back' = back /\ pending' = pending /\ user'.chosen = user.chosen
           /\ ~user'.misled => ~user.misled
           /\ Edit("preset", p) \in Calls /\ Edit("preset", p).op = "preset"
           /\ Edit("preset", p).rest = <<>>
  <1>1. user.chosen \in Levels \X BOOLEAN /\ Wants(user.chosen, FALSE)
    BY DEF LoadPreset, Types, Users
  <1>2. /\ user' \in Users /\ user'.goal.desk = {} /\ user'.chosen = user.chosen
        /\ ~user'.misled => ~user.misled
    BY <1>1, WantsIs
  <1> DEFINE c == Edit("preset", p)
  <1>3. c \in Calls /\ c.op = "preset" /\ c.rest = <<>>
    BY EditIs DEF Ops, With, Fits
  <1>4. calls' = Append(calls, c) /\ UNCHANGED <<screen, seen, back, pending, answers, polling, hist, drag>>
    BY DEF LoadPreset
  <1> HIDE DEF c
  <1>5. calls' = calls \o <<c>> /\ calls' \in Seq(Calls)
    BY <1>3, <1>4, CallIsOne DEF Types
  <1>6. Types'
    BY <1>2, <1>4, <1>5 DEF Types
  <1> QED BY <1>2, <1>3, <1>4, <1>5, <1>6 DEF c

-----------------------------------------------------------------------------
(* What an undo sends *)

LEMMA MembersCat ==
    ASSUME NEW S, NEW a \in Seq(S), NEW b \in Seq(S)
    PROVE  a \o b \in Seq(S) /\ Members(a \o b) = Members(a) \union Members(b)
  <1> DEFINE c == a \o b
  <1>1. /\ c \in Seq(S)
        /\ \A i \in DOMAIN a : i \in DOMAIN c /\ c[i] = a[i]
        /\ \A i \in DOMAIN b : Len(a) + i \in DOMAIN c /\ c[Len(a) + i] = b[i]
        /\ \A i \in DOMAIN c : \/ i \in DOMAIN a /\ c[i] = a[i]
                               \/ i - Len(a) \in DOMAIN b /\ c[i] = b[i - Len(a)]
    BY CatIs
  <1> HIDE DEF c
  <1>2. Members(c) \subseteq Members(a) \union Members(b)
    BY <1>1 DEF Members
  <1>3. Members(a) \subseteq Members(c) /\ Members(b) \subseteq Members(c)
    BY <1>1 DEF Members
  <1> QED BY <1>1, <1>2, <1>3 DEF c

LEMMA MembersIf ==
    ASSUME NEW S, NEW c \in BOOLEAN, NEW x, c => x \in S
    PROVE  If(c, x) \in Seq(S) /\ Members(If(c, x)) = IF c THEN {x} ELSE {}
  <1>1. /\ If(c, x) \in Seq(S)
        /\ \A i \in DOMAIN If(c, x) : c /\ If(c, x)[i] = x
        /\ c => 1 \in DOMAIN If(c, x) /\ If(c, x)[1] = x
    BY IfIs
  <1> QED BY <1>1 DEF Members

LEMMA DifferenceIs ==
    ASSUME NEW cur \in Desk, NEW t \in Desk, NEW added \in BOOLEAN,
           added <=> cur.gain = Absent /\ t.gain # Absent
    PROVE  LET D == Difference(cur, t)
           IN  D \in Seq(Undos) /\ SendLast(D) /\ Toward(D, cur, t, added)
  <1> DEFINE u1 == Undo("on", [on |-> t.on])
             u2 == Undo("bus", [vol |-> t.vol, muted |-> t.muted])
             u3 == Undo("remove", <<>>)
             u4 == Undo("add", <<>>)
             u5 == Undo("gain", [gain |-> t.gain])
             u6 == Undo("send", [send |-> t.send])
             c1 == cur.on # t.on
             c2 == Level(cur) # Level(t)
             c3 == cur.gain # Absent /\ t.gain = Absent
             c4 == cur.gain = Absent /\ t.gain # Absent
             c5 == Absent \notin {cur.gain, t.gain} /\ cur.gain # t.gain
             c6 == cur.send # t.send
             B  == If(c1, u1) \o If(c2, u2) \o If(c3, u3) \o If(c4, u4) \o If(c5, u5)
             D  == B \o If(c6, u6)
             C  == (IF c1 THEN {u1} ELSE {}) \union (IF c2 THEN {u2} ELSE {}) \union (IF c3 THEN {u3} ELSE {})
                   \union (IF c4 THEN {u4} ELSE {}) \union (IF c5 THEN {u5} ELSE {})
  <1>1. /\ t.vol \in Levels /\ t.muted \in BOOLEAN /\ t.on \in BOOLEAN /\ t.send \in BOOLEAN
        /\ t.gain # Absent => t.gain \in Levels
    BY DeskIs
  <1>2. /\ u1 \in Undos /\ u1.op = "on" /\ u1.with.on = t.on
        /\ u2 \in Undos /\ u2.op = "bus" /\ Level(u2.with) = Level(t)
        /\ u3 \in Undos /\ u3.op = "remove"
        /\ u4 \in Undos /\ u4.op = "add"
        /\ c5 => u5 \in Undos /\ u5.with.gain = t.gain
        /\ u5.op = "gain"
        /\ u6 \in Undos /\ u6.op = "send" /\ u6.with.send = t.send
    <2>1. u1 \in Undos /\ u1.op = "on" /\ u1.with.on = t.on
      BY <1>1, UndoIs DEF UndoOps, With, Fits
    <2>2. u2 \in Undos /\ u2.op = "bus" /\ Level(u2.with) = Level(t)
      <3> DEFINE w == [vol |-> t.vol, muted |-> t.muted]
      <3>1. w \in [vol : Levels, muted : BOOLEAN] /\ Level(w) = Level(t)
        BY <1>1 DEF Level
      <3> HIDE DEF w
      <3>2. w \in With /\ Fits([op |-> "bus", with |-> w, by |-> "undo", rest |-> <<>>])
        BY <3>1 DEF With, Fits
      <3>3. Undo("bus", w) \in Undos /\ Undo("bus", w).op = "bus" /\ Undo("bus", w).with = w
        BY <3>2, UndoIs DEF UndoOps
      <3> QED BY <3>1, <3>3 DEF w
    <2>3. u3 \in Undos /\ u3.op = "remove" /\ u4 \in Undos /\ u4.op = "add"
      BY UndoIs DEF UndoOps, With, Fits
    <2>4. c5 => u5 \in Undos /\ u5.with.gain = t.gain
      BY <1>1, UndoIs DEF UndoOps, With, Fits
    <2>5. u5.op = "gain"
      BY DEF Undo, Call
    <2>6. u6 \in Undos /\ u6.op = "send" /\ u6.with.send = t.send
      BY <1>1, UndoIs DEF UndoOps, With, Fits
    <2> QED BY <2>1, <2>2, <2>3, <2>4, <2>5, <2>6
  <1>3. Difference(cur, t) = D
    BY DEF Difference
  <1>4. /\ c1 \in BOOLEAN /\ c2 \in BOOLEAN /\ c3 \in BOOLEAN /\ c4 \in BOOLEAN /\ c5 \in BOOLEAN
        /\ c6 \in BOOLEAN
    OBVIOUS
  <1>5. /\ c1 \/ cur.on = t.on
        /\ c2 \/ Level(cur) = Level(t)
        /\ c3 <=> cur.gain # Absent /\ t.gain = Absent
        /\ c4 <=> added
        /\ c5 <=> cur.gain # Absent /\ t.gain # Absent /\ cur.gain # t.gain
        /\ c6 \/ cur.send = t.send
    OBVIOUS
  <1> HIDE DEF u1, u2, u3, u4, u5, u6, c1, c2, c3, c4, c5, c6
  <1>6. B \in Seq(Undos) /\ Members(B) = C
    <2>1. /\ If(c1, u1) \in Seq(Undos) /\ Members(If(c1, u1)) = IF c1 THEN {u1} ELSE {}
          /\ If(c2, u2) \in Seq(Undos) /\ Members(If(c2, u2)) = IF c2 THEN {u2} ELSE {}
          /\ If(c3, u3) \in Seq(Undos) /\ Members(If(c3, u3)) = IF c3 THEN {u3} ELSE {}
          /\ If(c4, u4) \in Seq(Undos) /\ Members(If(c4, u4)) = IF c4 THEN {u4} ELSE {}
          /\ If(c5, u5) \in Seq(Undos) /\ Members(If(c5, u5)) = IF c5 THEN {u5} ELSE {}
      BY <1>2, <1>4, MembersIf
    <2> DEFINE a1 == If(c1, u1)
               a2 == If(c2, u2)
               a3 == If(c3, u3)
               a4 == If(c4, u4)
               a5 == If(c5, u5)
    <2> HIDE DEF a1, a2, a3, a4, a5
    <2>2. /\ a1 \in Seq(Undos) /\ a2 \in Seq(Undos) /\ a3 \in Seq(Undos) /\ a4 \in Seq(Undos)
          /\ a5 \in Seq(Undos)
      BY <2>1 DEF a1, a2, a3, a4, a5
    <2> DEFINE b2 == a1 \o a2
               b3 == b2 \o a3
               b4 == b3 \o a4
               b5 == b4 \o a5
    <2>3. b2 \in Seq(Undos) /\ Members(b2) = Members(a1) \union Members(a2)
      BY <2>2, MembersCat
    <2> HIDE DEF b2
    <2>4. b3 \in Seq(Undos) /\ Members(b3) = Members(b2) \union Members(a3)
      BY <2>2, <2>3, MembersCat
    <2> HIDE DEF b3
    <2>5. b4 \in Seq(Undos) /\ Members(b4) = Members(b3) \union Members(a4)
      BY <2>2, <2>4, MembersCat
    <2> HIDE DEF b4
    <2>6. b5 \in Seq(Undos) /\ Members(b5) = Members(b4) \union Members(a5)
      BY <2>2, <2>5, MembersCat
    <2>7. b5 = B
      BY DEF b2, b3, b4, a1, a2, a3, a4, a5
    <2> HIDE DEF b5
    <2>8. Members(b5) = C
      BY <2>1, <2>3, <2>4, <2>5, <2>6 DEF a1, a2, a3, a4, a5
    <2> QED BY <2>6, <2>7, <2>8
  <1>7. /\ If(c6, u6) \in Seq(Undos) /\ Members(If(c6, u6)) = IF c6 THEN {u6} ELSE {}
        /\ \A i \in DOMAIN If(c6, u6) : i = 1 /\ Len(If(c6, u6)) = 1
    <2>1. If(c6, u6) \in Seq(Undos) /\ Members(If(c6, u6)) = IF c6 THEN {u6} ELSE {}
      BY <1>2, <1>4, MembersIf
    <2>2. \A i \in DOMAIN If(c6, u6) : i = 1 /\ Len(If(c6, u6)) = 1
      BY DEF If
    <2> QED BY <2>1, <2>2
  <1> HIDE DEF B
  <1>8. D \in Seq(Undos) /\ Members(D) = C \union (IF c6 THEN {u6} ELSE {})
    BY <1>6, <1>7, MembersCat
  <1>9. SendLast(D)
    <2> SUFFICES ASSUME NEW i \in DOMAIN D, D[i].op = "send" PROVE i = Len(D)
      BY DEF SendLast
    <2>1. /\ Len(D) = Len(B) + Len(If(c6, u6))
          /\ \/ i \in DOMAIN B /\ D[i] = B[i]
             \/ i - Len(B) \in DOMAIN If(c6, u6)
      BY <1>6, <1>7, CatIs
    <2>2. ASSUME i \in DOMAIN B PROVE B[i].op # "send"
      <3>1. B[i] \in C
        BY <1>6, <2>2 DEF Members
      <3> QED BY <1>2, <3>1
    <2>3. i - Len(B) = 1 /\ Len(If(c6, u6)) = 1
      BY <1>7, <2>1, <2>2
    <2> QED BY <1>6, <1>8, <2>1, <2>3
  <1> HIDE DEF D
  <1>10. /\ c1 => Has(D, "on")
         /\ c2 => Has(D, "bus")
         /\ c3 => Has(D, "remove")
         /\ c4 => Has(D, "add")
         /\ c5 => Has(D, "gain")
         /\ c6 => Has(D, "send")
    <2>1. \A u \in Members(D) : Has(D, u.op)
      BY DEF Has, Members
    <2> QED BY <1>2, <1>8, <2>1
  <1>11. \A i \in DOMAIN D : Sets(D[i], t, added)
    <2>1. \A i \in DOMAIN D : D[i] \in C \union (IF c6 THEN {u6} ELSE {})
      BY <1>8 DEF Members
    <2>2. /\ Sets(u1, t, added) /\ Sets(u2, t, added) /\ (c3 => Sets(u3, t, added))
          /\ (c4 => Sets(u4, t, added)) /\ (c5 => Sets(u5, t, added)) /\ Sets(u6, t, added)
      BY <1>2, <1>5 DEF Sets
    <2> QED BY <2>1, <2>2
  <1>12. Toward(D, cur, t, added)
    BY <1>5, <1>10, <1>11 DEF Toward
  <1> QED BY <1>3, <1>8, <1>9, <1>12

-----------------------------------------------------------------------------
(* Every call but an undo's has nothing to follow it.                      *)

LEMMA QuietIs ==
    ASSUME Types
    PROVE  /\ \A k \in DOMAIN calls : calls[k] \in Calls
           /\ \A k \in DOMAIN answers : answers[k] \in Answers /\ answers[k].call \in Calls
           /\ ~InFlight("undo") =>
                /\ Following = {}
                /\ \A k \in DOMAIN calls : calls[k].by # "undo"
  <1>1. /\ \A k \in DOMAIN calls : calls[k] \in Calls
        /\ \A k \in DOMAIN answers : answers[k] \in Answers
    BY DEF Types
  <1>2. \A k \in DOMAIN answers : answers[k].call \in Calls
    BY <1>1 DEF Answers
  <1>3. \A c \in Calls : \A u : Follows(u, c) => c.by = "undo"
    <2> SUFFICES ASSUME NEW c \in Calls, NEW u, Follows(u, c), c.by # "undo" PROVE FALSE
      OBVIOUS
    <2>1. c.rest = <<>>
      BY DEF Calls
    <2> QED BY <2>1 DEF Follows
  <1>4. ASSUME ~InFlight("undo")
        PROVE  /\ \A k \in DOMAIN calls : calls[k].by # "undo"
               /\ \A k \in DOMAIN answers : answers[k].call.by # "undo"
    BY <1>4 DEF InFlight
  <1>5. ~InFlight("undo") => Following = {}
    BY <1>1, <1>2, <1>3, <1>4 DEF Following
  <1> QED BY <1>1, <1>2, <1>4, <1>5

(* What a step that appends the calls s, and may take an answer off, keeps *)
(* of ChoiceInv.                                                           *)

IsBus(c)     == c.op = "bus"
HasBus(s)    == \E i \in DOMAIN s : IsBus(s[i])
BringsBus(s) == \E i \in DOMAIN s : IsBus(s[i]) \/ HasBus(s[i].rest)
Carries(s, level) == \A i \in DOMAIN s : IsBus(s[i]) => Level(s[i].with) = level

LEMMA FollowingIs ==
    ASSUME Types, NEW s \in Seq(Calls), calls' = calls \o s,
           answers' = answers \/ (answers # <<>> /\ answers' = Tail(answers))
    PROVE  /\ \A u \in Following' : u \in Following \/ \E i \in DOMAIN s : Follows(u, s[i])
           /\ \A u \in Undos : (\E i \in DOMAIN s : Follows(u, s[i])) => u \in Following'
           /\ \A u \in Following : u \in Following' \/ (answers' # answers /\ Follows(u, Head(answers).call))
  <1>1. calls \in Seq(Calls) /\ answers \in Seq(Answers)
    BY DEF Types
  <1>2. /\ \A k \in DOMAIN calls : k \in DOMAIN calls' /\ calls'[k] = calls[k]
        /\ \A i \in DOMAIN s : Len(calls) + i \in DOMAIN calls' /\ calls'[Len(calls) + i] = s[i]
        /\ \A k \in DOMAIN calls' : \/ k \in DOMAIN calls /\ calls'[k] = calls[k]
                                    \/ k - Len(calls) \in DOMAIN s /\ calls'[k] = s[k - Len(calls)]
    BY <1>1, CatIs
  <1>3. /\ \A k \in DOMAIN answers' : \E j \in DOMAIN answers : answers'[k] = answers[j]
        /\ \A k \in DOMAIN answers : \/ \E j \in DOMAIN answers' : answers'[j] = answers[k]
                                     \/ answers' # answers /\ answers[k] = Head(answers)
    <2>1. CASE answers' = answers
      BY <2>1
    <2>2. CASE answers' # answers
      <3>1. /\ Head(answers) = answers[1]
            /\ \A i \in DOMAIN answers' : i + 1 \in DOMAIN answers /\ answers'[i] = answers[i + 1]
            /\ \A i \in DOMAIN answers : i > 1 => i - 1 \in DOMAIN answers' /\ answers'[i - 1] = answers[i]
        <4>1. answers # <<>> /\ answers' = Tail(answers)
          BY <2>2
        <4> QED BY <1>1, <4>1, TailIs
      <3>2. \A i \in DOMAIN answers : i > 1 \/ i = 1
        BY <1>1
      <3> QED BY <2>2, <3>1, <3>2
    <2> QED BY <2>1, <2>2
  <1>4. \A u \in Following' : u \in Following \/ \E i \in DOMAIN s : Follows(u, s[i])
    <2> SUFFICES ASSUME NEW u \in Following', ~ \E i \in DOMAIN s : Follows(u, s[i]) PROVE u \in Following
      OBVIOUS
    <2>1. /\ u \in Undos
          /\ \/ \E k \in DOMAIN calls' : Follows(u, calls'[k])
             \/ \E k \in DOMAIN answers' : Follows(u, answers'[k].call)
      BY DEF Following
    <2>2. \/ \E k \in DOMAIN calls : Follows(u, calls[k])
          \/ \E k \in DOMAIN answers : Follows(u, answers[k].call)
      BY <1>2, <1>3, <2>1
    <2> QED BY <2>1, <2>2 DEF Following
  <1>5. \A u \in Undos : (\E i \in DOMAIN s : Follows(u, s[i])) => u \in Following'
    <2> SUFFICES ASSUME NEW u \in Undos, NEW i \in DOMAIN s, Follows(u, s[i]) PROVE u \in Following'
      OBVIOUS
    <2>1. \E k \in DOMAIN calls' : Follows(u, calls'[k])
      BY <1>2
    <2> QED BY <2>1 DEF Following
  <1>6. \A u \in Following : u \in Following' \/ (answers' # answers /\ Follows(u, Head(answers).call))
    <2> SUFFICES ASSUME NEW u \in Following, ~(answers' # answers /\ Follows(u, Head(answers).call))
                 PROVE  u \in Following'
      OBVIOUS
    <2>1. /\ u \in Undos
          /\ \/ \E k \in DOMAIN calls : Follows(u, calls[k])
             \/ \E k \in DOMAIN answers : Follows(u, answers[k].call)
      BY DEF Following
    <2>2. \/ \E k \in DOMAIN calls' : Follows(u, calls'[k])
          \/ \E k \in DOMAIN answers' : Follows(u, answers'[k].call)
      BY <1>2, <1>3, <2>1
    <2> QED BY <2>1, <2>2 DEF Following
  <1> QED BY <1>4, <1>5, <1>6

LEMMA Sends ==
    ASSUME Types, ChoiceInv, NEW s \in Seq(Calls), calls' = calls \o s, back' = back,
           "vol" \in pending => "vol" \in pending' \/ HasBus(s),
           \/ answers' = answers
           \/ /\ answers # <<>> /\ answers' = Tail(answers)
              /\ HasBus(Head(answers).call.rest) => BringsBus(s),
           ~user'.misled =>
             /\ ~user.misled
             /\ Carries(s, user'.chosen) /\ \A i \in DOMAIN s : Carries(s[i].rest, user'.chosen)
             /\ user'.chosen = user.chosen \/ (~InFlight("undo") /\ (BringsBus(s) \/ "vol" \in pending'))
    PROVE  ChoiceInv'
  <1> SUFFICES ASSUME ~user'.misled PROVE UndoInv' /\ SentInv'
    BY DEF ChoiceInv
  <1> DEFINE level == user'.chosen
  <1>1. /\ UndoInv /\ SentInv
        /\ Carries(s, level) /\ \A i \in DOMAIN s : Carries(s[i].rest, level)
        /\ level = user.chosen \/ (~InFlight("undo") /\ (BringsBus(s) \/ "vol" \in pending'))
    BY DEF ChoiceInv
  <1>2. calls \in Seq(Calls) /\ Len(calls) \in Nat /\ DOMAIN calls = 1..Len(calls) /\ DOMAIN s \subseteq Nat \ {0}
    BY DEF Types
  <1>3. /\ \A k \in DOMAIN calls : k \in DOMAIN calls' /\ calls'[k] = calls[k]
        /\ \A i \in DOMAIN s : Len(calls) + i \in DOMAIN calls' /\ calls'[Len(calls) + i] = s[i]
        /\ \A k \in DOMAIN calls' : \/ k \in DOMAIN calls /\ calls'[k] = calls[k]
                                    \/ k - Len(calls) \in DOMAIN s /\ calls'[k] = s[k - Len(calls)]
    BY <1>2, CatIs
  <1>4. /\ \A u \in Following' : u \in Following \/ \E i \in DOMAIN s : Follows(u, s[i])
        /\ \A u \in Undos : (\E i \in DOMAIN s : Follows(u, s[i])) => u \in Following'
        /\ \A u \in Following : u \in Following' \/ (answers' # answers /\ Follows(u, Head(answers).call))
    BY FollowingIs
  <1>5. ~InFlight("undo") => Following = {} /\ \A k \in DOMAIN calls : calls[k].by # "undo"
    BY QuietIs
  <1> HIDE DEF level
  <1>6. UndoInv'
    <2>1. \A u \in BusCalls(Following') : Level(u.with) = level
      <3> SUFFICES ASSUME NEW u \in Following', u.op = "bus" PROVE Level(u.with) = level
        BY DEF BusCalls
      <3>1. CASE u \in Following
        <4>1. level = user.chosen
          BY <1>1, <1>5, <3>1
        <4> QED BY <1>1, <3>1, <4>1 DEF UndoInv, BusCalls
      <3>2. CASE \E i \in DOMAIN s : Follows(u, s[i])
        BY <1>1, <3>2 DEF Follows, Carries, IsBus
      <3> QED BY <1>4, <3>1, <3>2
    <2>2. \A k \in DOMAIN calls' : calls'[k].by = "undo" /\ calls'[k].op = "bus" => Level(calls'[k].with) = level
      <3> SUFFICES ASSUME NEW k \in DOMAIN calls', calls'[k].by = "undo", calls'[k].op = "bus"
                   PROVE  Level(calls'[k].with) = level
        OBVIOUS
      <3>1. CASE k \in DOMAIN calls /\ calls'[k] = calls[k]
        <4>1. level = user.chosen
          BY <1>1, <1>5, <3>1
        <4> QED BY <1>1, <3>1, <4>1 DEF UndoInv
      <3>2. CASE k - Len(calls) \in DOMAIN s /\ calls'[k] = s[k - Len(calls)]
        BY <1>1, <3>2 DEF Carries, IsBus
      <3> QED BY <1>3, <3>1, <3>2
    <2> QED BY <2>1, <2>2 DEF UndoInv, BusCalls, level
  <1>7. SentInv'
    <2> SUFFICES ASSUME "vol" \notin pending', BusCalls(Following') = {}
                 PROVE  /\ \A k \in DOMAIN calls' : LastBus(k)' => Level(calls'[k].with) = level
                        /\ (\A k \in DOMAIN calls' : calls'[k].op # "bus") => Level(back') = level
      BY DEF SentInv, BusCalls, level
    <2>1. \A i \in DOMAIN s : ~HasBus(s[i].rest)
      <3> SUFFICES ASSUME NEW i \in DOMAIN s, NEW j \in DOMAIN s[i].rest, IsBus(s[i].rest[j]) PROVE FALSE
        BY DEF HasBus
      <3>1. s[i] \in Calls
        OBVIOUS
      <3>2. s[i].rest[j] \in Undos
        BY <3>1 DEF Calls
      <3>3. Follows(s[i].rest[j], s[i])
        BY DEF Follows
      <3>4. s[i].rest[j] \in Following'
        BY <1>4, <3>2, <3>3
      <3> QED BY <3>4 DEF BusCalls, IsBus
    <2>2. CASE HasBus(s)
      <3>1. PICK i \in DOMAIN s : s[i].op = "bus"
        BY <2>2 DEF HasBus, IsBus
      <3>2. ASSUME NEW k \in DOMAIN calls', LastBus(k)' PROVE Level(calls'[k].with) = level
        <4>1. k \notin DOMAIN calls
          <5>1. Len(calls) + i \in DOMAIN calls' /\ calls'[Len(calls) + i].op = "bus"
            BY <1>3, <3>1
          <5>2. ~(Len(calls) + i > k)
            BY <3>2, <5>1 DEF LastBus
          <5>3. i \in Nat \ {0}
            BY <1>2
          <5> QED BY <1>2, <5>2, <5>3
        <4>2. k - Len(calls) \in DOMAIN s /\ calls'[k] = s[k - Len(calls)]
          BY <1>3, <4>1
        <4> QED BY <1>1, <3>2, <4>2 DEF LastBus, Carries, IsBus
      <3> QED BY <1>3, <3>1, <3>2
    <2>3. CASE ~HasBus(s)
      <3>1. ~BringsBus(s) /\ level = user.chosen /\ "vol" \notin pending
        BY <1>1, <2>1, <2>3 DEF BringsBus, HasBus
      <3>2. BusCalls(Following) = {}
        <4> SUFFICES ASSUME NEW u \in Following, u.op = "bus" PROVE FALSE
          BY DEF BusCalls
        <4>1. answers' # answers /\ Follows(u, Head(answers).call)
          BY <1>4 DEF BusCalls
        <4>2. HasBus(Head(answers).call.rest)
          BY <4>1 DEF Follows, HasBus, IsBus
        <4> QED BY <3>1, <4>1, <4>2
      <3>3. /\ \A k \in DOMAIN calls : LastBus(k) => Level(calls[k].with) = level
            /\ (\A k \in DOMAIN calls : calls[k].op # "bus") => Level(back) = level
        BY <1>1, <3>1, <3>2 DEF SentInv
      <3>4. \A i \in DOMAIN s : s[i].op # "bus"
        BY <2>3 DEF HasBus, IsBus
      <3>5. ASSUME NEW k \in DOMAIN calls', LastBus(k)' PROVE Level(calls'[k].with) = level
        <4>1. k \in DOMAIN calls /\ calls'[k] = calls[k]
          BY <1>3, <3>4, <3>5 DEF LastBus
        <4>2. LastBus(k)
          BY <1>3, <3>5, <4>1 DEF LastBus
        <4> QED BY <3>3, <4>1, <4>2
      <3> QED BY <1>3, <3>3, <3>5
    <2> QED BY <2>2, <2>3
  <1> QED BY <1>6, <1>7

LEMMA NoCall ==
    ASSUME Types
    PROVE  /\ <<>> \in Seq(Calls) /\ calls \o <<>> = calls /\ DOMAIN <<>> = {}
           /\ ~BringsBus(<<>>) /\ \A level : Carries(<<>>, level)
  BY DEF Types, BringsBus, Carries

LEMMA OneCall ==
    ASSUME NEW c \in Calls
    PROVE  /\ <<c>> \in Seq(Calls)
           /\ BringsBus(<<c>>) <=> IsBus(c) \/ HasBus(c.rest)
           /\ HasBus(<<c>>) <=> IsBus(c)
           /\ \A level : /\ Carries(<<c>>, level) <=> (IsBus(c) => Level(c.with) = level)
                         /\ (\A i \in DOMAIN <<c>> : Carries(<<c>>[i].rest, level)) <=> Carries(c.rest, level)
  <1>1. <<c>> \in Seq(Calls) /\ DOMAIN <<c>> = {1} /\ <<c>>[1] = c
    OBVIOUS
  <1> DEFINE s == <<c>>
  <1> HIDE DEF s
  <1>2. DOMAIN s = {1} /\ s[1] = c
    BY <1>1 DEF s
  <1>3. /\ BringsBus(s) <=> IsBus(c) \/ HasBus(c.rest)
        /\ HasBus(s) <=> IsBus(c)
    BY <1>2 DEF BringsBus, HasBus
  <1>4. ASSUME NEW level
        PROVE  /\ Carries(s, level) <=> (IsBus(c) => Level(c.with) = level)
               /\ (\A i \in DOMAIN s : Carries(s[i].rest, level)) <=> Carries(c.rest, level)
    BY <1>2 DEF Carries
  <1> QED BY <1>1, <1>3, <1>4 DEF s

LEMMA NoRest ==
    ASSUME NEW c, c.rest = <<>> PROVE ~HasBus(c.rest) /\ \A level : Carries(c.rest, level)
  BY DEF HasBus, Carries

LEMMA FirstBus ==
    ASSUME NEW R \in Seq(Undos)
    PROVE  /\ \A level : Carries(R, level) =>
                /\ IsBus(FirstOf(R)) => Level(FirstOf(R).with) = level
                /\ Carries(FirstOf(R).rest, level)
           /\ HasBus(R) => IsBus(FirstOf(R)) \/ HasBus(FirstOf(R).rest)
  <1> DEFINE c == FirstOf(R)
  <1>1. CASE R = <<>>
    <2>1. c = Refresh
      BY <1>1, FirstIs
    <2> QED BY <1>1, <2>1, RefreshIs, NoRest DEF IsBus, HasBus
  <1>2. CASE R # <<>>
    <2>1. c.op = R[1].op /\ c.with = R[1].with /\ c.rest = Tail(R)
      BY <1>2, FirstIs
    <2>2. /\ 1 \in DOMAIN R
          /\ \A i \in DOMAIN Tail(R) : i + 1 \in DOMAIN R /\ Tail(R)[i] = R[i + 1]
          /\ \A i \in DOMAIN R : i > 1 => i - 1 \in DOMAIN Tail(R) /\ Tail(R)[i - 1] = R[i]
          /\ \A i \in DOMAIN R : i > 1 \/ i = 1
      BY <1>2, TailIs
    <2> HIDE DEF c
    <2>3. ASSUME NEW level, Carries(R, level)
          PROVE  (IsBus(c) => Level(c.with) = level) /\ Carries(c.rest, level)
      BY <2>1, <2>2, <2>3 DEF IsBus, Carries
    <2>4. ASSUME HasBus(R), ~IsBus(c) PROVE HasBus(c.rest)
      <3>1. PICK i \in DOMAIN R : IsBus(R[i])
        BY <2>4 DEF HasBus
      <3>2. i > 1
        BY <2>1, <2>2, <2>4, <3>1 DEF IsBus
      <3>3. i - 1 \in DOMAIN Tail(R) /\ Tail(R)[i - 1] = R[i]
        BY <2>2, <3>2
      <3> QED BY <2>1, <3>1, <3>3 DEF HasBus
    <2> QED BY <2>3, <2>4 DEF c
  <1> QED BY <1>1, <1>2

LEMMA RestoreIs ==
    ASSUME Types, NEW t \in Desk, NEW h \in History, NEW e \in 0..MaxEdits, Restore(t, h, e)
    PROVE  LET D == Reconcile(t)
           IN  /\ Types' /\ D \in Seq(Undos) /\ SendLast(D) /\ Carries(D, Level(t))
               /\ HasBus(D) \/ Level(seen) = Level(t)
               /\ calls' = calls \o <<FirstOf(D)>> /\ answers' = answers /\ back' = back
               /\ pending' = pending /\ user'.chosen = Level(t)
               /\ ~user'.misled => ~user.misled /\ Level(seen) = user.chosen /\ ~InFlight("undo")
               /\ \/ user'.goal.desk = {}
                  \/ AtRest /\ user'.goal.desk = {t} /\ Toward(D, back, t, user'.goal.added)
  <1> DEFINE D == Reconcile(t)
             added == seen.gain = Absent /\ t.gain # Absent
             m == user.misled \/ Level(seen) # user.chosen \/ InFlight("undo")
             atRest == AtRest /\ screen = back /\ seen = back
             g == IF atRest THEN [desk |-> {t}, added |-> added] ELSE NoGoal
  <1>1. seen \in Desk /\ back \in Desk /\ user.misled \in BOOLEAN /\ added \in BOOLEAN
    BY DEF Types, Users
  <1>2. D \in Seq(Undos) /\ SendLast(D) /\ Toward(D, seen, t, added)
    BY <1>1, DifferenceIs DEF Reconcile
  <1>3. /\ calls' = Append(calls, FirstOf(D)) /\ hist' = h /\ screen' = t /\ seen' = t
        /\ user' = [chosen |-> Level(t), edits |-> e, misled |-> m, goal |-> g]
        /\ UNCHANGED <<back, pending, answers, polling, drag>>
    BY DEF Restore, Shows
  <1> HIDE DEF D
  <1>4. Carries(D, Level(t)) /\ (HasBus(D) \/ Level(seen) = Level(t))
    <2>1. \A i \in DOMAIN D : D[i].op = "bus" => Level(D[i].with) = Level(t)
      BY <1>2 DEF Toward, Sets
    <2>2. Has(D, "bus") \/ Level(seen) = Level(t)
      BY <1>2 DEF Toward
    <2> QED BY <2>1, <2>2 DEF Carries, IsBus, Has, HasBus
  <1>5. /\ g \in [desk : SUBSET Desk, added : BOOLEAN]
        /\ ~atRest => g.desk = {}
        /\ atRest => g.desk = {t} /\ g.added = added
    <2>1. CASE atRest
      BY <1>1, <2>1
    <2>2. CASE ~atRest
      BY <2>2 DEF NoGoal
    <2> QED BY <2>1, <2>2
  <1>6. m \in BOOLEAN /\ (m \/ (~user.misled /\ Level(seen) = user.chosen /\ ~InFlight("undo")))
    BY <1>1
  <1>7. atRest => AtRest /\ seen = back
    OBVIOUS
  <1> HIDE DEF g, m, atRest, added
  <1>8. user' \in Users /\ user'.chosen = Level(t) /\ user'.misled = m /\ user'.goal = g
    BY <1>3, <1>5, <1>6, DeskIs DEF Users
  <1>9. FirstOf(D) \in Calls
    BY <1>2, FirstIs
  <1>10. calls' = calls \o <<FirstOf(D)>> /\ calls' \in Seq(Calls)
    BY <1>3, <1>9, CallIsOne DEF Types
  <1>11. Types'
    BY <1>3, <1>8, <1>10 DEF Types
  <1>12. \/ user'.goal.desk = {}
         \/ AtRest /\ user'.goal.desk = {t} /\ Toward(D, back, t, user'.goal.added)
    BY <1>2, <1>5, <1>7, <1>8
  <1>13. ~user'.misled => ~user.misled /\ Level(seen) = user.chosen /\ ~InFlight("undo")
    BY <1>6, <1>8
  <1> QED BY <1>2, <1>3, <1>4, <1>8, <1>10, <1>11, <1>12, <1>13 DEF D

LEMMA RestoreChoice ==
    ASSUME Types, ChoiceInv, NEW t \in Desk, NEW h \in History, NEW e \in 0..MaxEdits, Restore(t, h, e)
    PROVE  ChoiceInv'
  <1> DEFINE D == Reconcile(t)
             c == FirstOf(D)
  <1>1. /\ D \in Seq(Undos) /\ Carries(D, Level(t)) /\ (HasBus(D) \/ Level(seen) = Level(t))
        /\ calls' = calls \o <<c>> /\ answers' = answers /\ back' = back /\ pending' = pending
        /\ user'.chosen = Level(t)
        /\ ~user'.misled => ~user.misled /\ Level(seen) = user.chosen /\ ~InFlight("undo")
    BY RestoreIs
  <1> HIDE DEF D
  <1>2. c \in Calls
    BY <1>1, FirstIs
  <1>3. /\ IsBus(c) => Level(c.with) = Level(t)
        /\ Carries(c.rest, Level(t))
        /\ HasBus(D) => IsBus(c) \/ HasBus(c.rest)
    BY <1>1, FirstBus
  <1> HIDE DEF c
  <1> DEFINE s == <<c>>
  <1>4. /\ s \in Seq(Calls) /\ Carries(s, Level(t)) /\ \A i \in DOMAIN s : Carries(s[i].rest, Level(t))
        /\ HasBus(D) => BringsBus(s)
    BY <1>2, <1>3, OneCall
  <1> HIDE DEF s
  <1>5. ~user'.misled =>
          /\ ~user.misled
          /\ Carries(s, user'.chosen) /\ \A i \in DOMAIN s : Carries(s[i].rest, user'.chosen)
          /\ user'.chosen = user.chosen \/ (~InFlight("undo") /\ BringsBus(s))
    BY <1>1, <1>4
  <1>6. calls' = calls \o s
    BY <1>1 DEF s
  <1> QED BY <1>1, <1>4, <1>5, <1>6, Sends

-----------------------------------------------------------------------------
(* The last choice is kept, step by step *)

LEMMA ClickChoice ==
    ASSUME Types, ChoiceInv, NEW c \in Calls, c.rest = <<>>,
           calls' = calls \o <<c>>, answers' = answers, back' = back, pending' = pending,
           ~user'.misled => /\ ~user.misled /\ (c.op = "bus" => Level(c.with) = user'.chosen)
                            /\ user'.chosen = user.chosen \/ (~InFlight("undo") /\ c.op = "bus")
    PROVE  ChoiceInv'
  <1> DEFINE s == <<c>>
  <1>1. /\ s \in Seq(Calls)
        /\ BringsBus(s) <=> IsBus(c) \/ HasBus(c.rest)
        /\ \A level : /\ Carries(s, level) <=> (IsBus(c) => Level(c.with) = level)
                      /\ (\A i \in DOMAIN s : Carries(s[i].rest, level)) <=> Carries(c.rest, level)
    BY OneCall
  <1>2. \A level : Carries(c.rest, level)
    BY NoRest
  <1>3. calls' = calls \o s
    OBVIOUS
  <1> HIDE DEF s
  <1>4. ~user'.misled =>
          /\ ~user.misled
          /\ Carries(s, user'.chosen) /\ \A i \in DOMAIN s : Carries(s[i].rest, user'.chosen)
          /\ user'.chosen = user.chosen \/ (~InFlight("undo") /\ BringsBus(s))
    BY <1>1, <1>2 DEF IsBus
  <1> QED BY <1>1, <1>3, <1>4, Sends

LEMMA DragChoice ==
    ASSUME Types, ChoiceInv, NEW f \in Faders, NEW v \in Levels, NEW rendered \in BOOLEAN, Drag(f, v, rendered)
    PROVE  ChoiceInv'
  <1> DEFINE s == <<>>
  <1>1. /\ s \in Seq(Calls) /\ calls \o s = calls /\ DOMAIN s = {}
        /\ ~BringsBus(s) /\ \A level : Carries(s, level)
    BY NoCall
  <1>2. /\ calls' = calls /\ answers' = answers /\ back' = back
        /\ pending' = pending \union {f}
        /\ ~user'.misled => /\ ~user.misled
                            /\ user'.chosen # user.chosen => ~InFlight("undo") /\ f = "vol"
    BY DragIs
  <1> HIDE DEF s
  <1>3. ~user'.misled =>
          /\ ~user.misled
          /\ Carries(s, user'.chosen) /\ \A i \in DOMAIN s : Carries(s[i].rest, user'.chosen)
          /\ user'.chosen = user.chosen \/ (~InFlight("undo") /\ "vol" \in pending')
    BY <1>1, <1>2
  <1>4. calls' = calls \o s /\ ("vol" \in pending => "vol" \in pending')
    BY <1>1, <1>2
  <1> QED BY <1>1, <1>2, <1>3, <1>4, Sends

(* A step that sends nothing of the bus and leaves the choice alone: it    *)
(* appends the snapshots s and may take an answer off that nothing         *)
(* follows.                                                                *)
LEMMA OtherChoice ==
    ASSUME Types, ChoiceInv, NEW s \in Seq(Calls), \A i \in DOMAIN s : s[i].op # "bus" /\ s[i].rest = <<>>,
           calls' = calls \o s, back' = back, pending' = pending,
           \/ answers' = answers
           \/ answers # <<>> /\ answers' = Tail(answers) /\ Head(answers).call.rest = <<>>,
           user'.chosen = user.chosen, user'.misled = user.misled
    PROVE  ChoiceInv'
  <1>1. /\ \A level : Carries(s, level) /\ \A i \in DOMAIN s : Carries(s[i].rest, level)
    BY NoRest DEF Carries, IsBus
  <1>2. \/ answers' = answers
        \/ answers # <<>> /\ answers' = Tail(answers) /\ ~HasBus(Head(answers).call.rest)
    BY NoRest
  <1> QED BY <1>1, <1>2, Sends

LEMMA ClicksKeep ==
    ASSUME Types, ChoiceInv,
           \/ SetBusMuted \/ SetBusEnabled \/ ToggleSend \/ RemoveInput \/ AddInput
           \/ \E p \in Presets : LoadPreset(p)
    PROVE  Types' /\ ChoiceInv' /\ user'.goal.desk = {} /\ back' = back
  <1>1. /\ screen \in Desk /\ seen \in Desk /\ seen.vol \in Levels /\ seen.muted \in BOOLEAN
        /\ seen.on \in BOOLEAN /\ seen.send \in BOOLEAN /\ screen.send \in BOOLEAN
        /\ user.chosen \in Levels \X BOOLEAN
    BY DeskIs DEF Types, Users
  <1>2. ASSUME NEW d \in Desk, NEW c \in Calls, c.rest = <<>>, c.op # "bus", Click(d, c, user.chosen, FALSE)
        PROVE  Types' /\ ChoiceInv' /\ user'.goal.desk = {} /\ back' = back
    <2>1. /\ Types' /\ user'.goal.desk = {} /\ calls' = calls \o <<c>> /\ answers' = answers
          /\ back' = back /\ pending' = pending /\ user'.chosen = user.chosen
          /\ ~user'.misled => ~user.misled
      BY <1>1, <1>2, ClickIs
    <2>2. ChoiceInv'
      BY <1>2, <2>1, ClickChoice
    <2> QED BY <2>1, <2>2
  <1>3. CASE SetBusMuted
    <2> DEFINE m == ~seen.muted
               w == [vol |-> seen.vol, muted |-> m]
               d == [screen EXCEPT !.muted = m]
               c == Edit("bus", w)
               level == <<user.chosen[1], m>>
               deceived == Level(seen) # user.chosen
    <2>1. /\ d \in Desk /\ w \in [vol : Levels, muted : BOOLEAN] /\ level \in Levels \X BOOLEAN
          /\ deceived \in BOOLEAN
      BY <1>1, FieldsAre
    <2>2. Click(d, c, level, deceived)
      BY <1>3 DEF SetBusMuted
    <2>3. ~deceived => Level(w) = level
      <3>1. ~deceived => seen.vol = user.chosen[1]
        BY DEF Level
      <3> QED BY <3>1 DEF Level
    <2> HIDE DEF d, w, level, deceived
    <2>4. w \in With /\ Fits([op |-> "bus", with |-> w, by |-> "edit", rest |-> <<>>])
      BY <2>1 DEF With, Fits
    <2>5. c \in Calls /\ c.op = "bus" /\ c.with = w /\ c.rest = <<>>
      BY <2>4, EditIs DEF Ops
    <2> HIDE DEF c
    <2>6. /\ Types' /\ user'.goal.desk = {} /\ calls' = calls \o <<c>> /\ answers' = answers
          /\ back' = back /\ pending' = pending /\ user'.chosen = level
          /\ ~user'.misled => /\ ~user.misled /\ ~deceived
                              /\ user'.chosen # user.chosen => ~InFlight("undo")
      BY <2>1, <2>2, <2>5, ClickIs
    <2>7. ChoiceInv'
      BY <2>3, <2>5, <2>6, ClickChoice
    <2> QED BY <2>6, <2>7
  <1>4. CASE SetBusEnabled
    <2> DEFINE w == [on |-> ~seen.on, prev |-> seen.on]
               d == [screen EXCEPT !.on = ~seen.on]
               c == Edit("on", w)
    <2>1. d \in Desk /\ w \in [on : BOOLEAN, prev : BOOLEAN]
      BY <1>1, FieldsAre
    <2>2. Click(d, c, user.chosen, FALSE)
      BY <1>4 DEF SetBusEnabled
    <2> HIDE DEF d, w
    <2>3. w \in With /\ Fits([op |-> "on", with |-> w, by |-> "edit", rest |-> <<>>])
      BY <2>1 DEF With, Fits
    <2>4. c \in Calls /\ c.op = "on" /\ c.rest = <<>>
      BY <2>3, EditIs DEF Ops
    <2> HIDE DEF c
    <2> QED BY <1>2, <2>1, <2>2, <2>4
  <1>5. CASE ToggleSend
    <2> DEFINE w == [send |-> ~seen.send]
               d == [screen EXCEPT !.send = ~screen.send]
               c == Edit("send", w)
    <2>1. d \in Desk /\ w \in [send : BOOLEAN]
      BY <1>1, FieldsAre
    <2>2. Click(d, c, user.chosen, FALSE)
      BY <1>5 DEF ToggleSend
    <2> HIDE DEF d, w
    <2>3. w \in With /\ Fits([op |-> "send", with |-> w, by |-> "edit", rest |-> <<>>])
      BY <2>1 DEF With, Fits
    <2>4. c \in Calls /\ c.op = "send" /\ c.rest = <<>>
      BY <2>3, EditIs DEF Ops
    <2> HIDE DEF c
    <2> QED BY <1>2, <2>1, <2>2, <2>4
  <1>6. CASE RemoveInput
    <2> DEFINE d == [screen EXCEPT !.gain = Absent, !.send = FALSE]
               c == Edit("remove", <<>>)
    <2>1. d \in Desk
      BY <1>1, FieldsAre
    <2>2. c \in Calls /\ c.op = "remove" /\ c.rest = <<>>
      BY EditIs DEF Ops, With, Fits
    <2>3. Click(d, c, user.chosen, FALSE)
      BY <1>6 DEF RemoveInput
    <2> HIDE DEF d, c
    <2> QED BY <1>2, <2>1, <2>2, <2>3
  <1>7. CASE AddInput
    <2> DEFINE c == Edit("add", <<>>)
    <2>1. c \in Calls /\ c.op = "add" /\ c.rest = <<>>
      BY EditIs DEF Ops, With, Fits
    <2>2. Click(screen, c, user.chosen, FALSE)
      BY <1>7 DEF AddInput
    <2> HIDE DEF c
    <2> QED BY <1>1, <1>2, <2>1, <2>2
  <1>8. ASSUME NEW p \in Presets, LoadPreset(p)
        PROVE  Types' /\ ChoiceInv' /\ user'.goal.desk = {} /\ back' = back
    <2> DEFINE c == Edit("preset", p)
    <2>1. /\ Types' /\ user'.goal.desk = {} /\ calls' = calls \o <<c>>
          /\ answers' = answers /\ back' = back /\ pending' = pending /\ user'.chosen = user.chosen
          /\ ~user'.misled => ~user.misled
          /\ c \in Calls /\ c.op = "preset" /\ c.rest = <<>>
      BY <1>8, LoadPresetIs
    <2> HIDE DEF c
    <2>2. ChoiceInv'
      BY <2>1, ClickChoice
    <2> QED BY <2>1, <2>2
  <1> QED BY <1>3, <1>4, <1>5, <1>6, <1>7, <1>8

LEMMA FlushKeeps ==
    ASSUME Types, ChoiceInv, Flush
    PROVE  Types' /\ ChoiceInv' /\ back' = back /\ user'.goal = user.goal /\ pending # {}
  <1> DEFINE cv == "vol" \in pending
             cg == "gain" \in pending /\ seen.gain # Absent
             w1 == [vol |-> seen.vol, muted |-> seen.muted]
             w2 == [gain |-> seen.gain]
             c1 == Edit("bus", w1)
             c2 == Edit("gain", w2)
             a  == If(cv, c1)
             b  == If(cg, c2)
             s  == a \o b
             m  == user.misled \/ (cv /\ Level(seen) # user.chosen)
  <1>1. /\ seen \in Desk /\ seen.vol \in Levels /\ seen.muted \in BOOLEAN
        /\ seen.gain # Absent => seen.gain \in Levels
        /\ calls \in Seq(Calls) /\ user \in Users /\ user.misled \in BOOLEAN
        /\ w1 \in [vol : Levels, muted : BOOLEAN] /\ Level(w1) = Level(seen)
    BY DeskIs DEF Types, Level, Users
  <1>2. /\ calls' = (calls \o a) \o b /\ user' = [user EXCEPT !.misled = m] /\ pending' = {} /\ pending # {}
        /\ UNCHANGED <<screen, seen, back, answers, polling, hist, drag>>
    BY DEF Flush, BusWrite
  <1> HIDE DEF w1
  <1>3. w1 \in With /\ Fits([op |-> "bus", with |-> w1, by |-> "edit", rest |-> <<>>])
    BY <1>1 DEF With, Fits
  <1>4. c1 \in Calls /\ c1.op = "bus" /\ c1.with = w1 /\ c1.rest = <<>>
    BY <1>3, EditIs DEF Ops
  <1>5. cg => w2 \in With /\ Fits([op |-> "gain", with |-> w2, by |-> "edit", rest |-> <<>>])
    BY <1>1 DEF With, Fits
  <1> HIDE DEF w2
  <1>6. cg => c2 \in Calls /\ c2.op = "gain" /\ c2.rest = <<>>
    BY <1>5, EditIs DEF Ops
  <1>7. cv \in BOOLEAN /\ cg \in BOOLEAN /\ m \in BOOLEAN
    BY <1>1
  <1>8. m \/ (~user.misled /\ (cv => Level(seen) = user.chosen))
    OBVIOUS
  <1> HIDE DEF c1, c2, cg, m
  <1>9. a \in Seq(Calls) /\ b \in Seq(Calls)
    BY <1>4, <1>6, <1>7, IfIs
  <1>10. /\ \A i \in DOMAIN a : cv /\ a[i] = c1
         /\ cv => 1 \in DOMAIN a /\ a[1] = c1
         /\ \A i \in DOMAIN b : cg /\ b[i] = c2
    <2>1. \A i \in DOMAIN a : cv /\ a[i] = c1
      BY <1>7 DEF If
    <2>2. cv => 1 \in DOMAIN a /\ a[1] = c1
      BY <1>7 DEF If
    <2>3. \A i \in DOMAIN b : cg /\ b[i] = c2
      BY <1>7 DEF If
    <2> QED BY <2>1, <2>2, <2>3
  <1> HIDE DEF a, b
  <1>11. /\ calls' = calls \o s /\ s \in Seq(Calls)
         /\ \A i \in DOMAIN a : i \in DOMAIN s /\ s[i] = a[i]
         /\ \A i \in DOMAIN s : \/ i \in DOMAIN a /\ s[i] = a[i]
                                \/ i - Len(a) \in DOMAIN b /\ s[i] = b[i - Len(a)]
    <2>1. s \in Seq(Calls) /\ (calls \o a) \o b = calls \o s
      BY <1>1, <1>9
    <2>2. /\ \A i \in DOMAIN a : i \in DOMAIN s /\ s[i] = a[i]
          /\ \A i \in DOMAIN s : \/ i \in DOMAIN a /\ s[i] = a[i]
                                 \/ i - Len(a) \in DOMAIN b /\ s[i] = b[i - Len(a)]
      BY <1>9, CatIs
    <2> QED BY <1>2, <2>1, <2>2
  <1> HIDE DEF s
  <1>12. \A i \in DOMAIN s : s[i].rest = <<>> /\ (IsBus(s[i]) => cv /\ s[i] = c1)
    BY <1>4, <1>6, <1>10, <1>11 DEF IsBus
  <1>13. cv => HasBus(s)
    BY <1>4, <1>10, <1>11 DEF HasBus, IsBus
  <1>14. user' \in Users /\ user'.misled = m /\ user'.chosen = user.chosen /\ user'.goal = user.goal
    BY <1>1, <1>2, <1>7 DEF Users
  <1>15. ~user'.misled =>
           /\ ~user.misled
           /\ Carries(s, user'.chosen) /\ \A i \in DOMAIN s : Carries(s[i].rest, user'.chosen)
           /\ user'.chosen = user.chosen
    <2> SUFFICES ASSUME ~user'.misled
                 PROVE  /\ ~user.misled
                        /\ Carries(s, user.chosen) /\ \A i \in DOMAIN s : Carries(s[i].rest, user.chosen)
      BY <1>14
    <2>1. ~user.misled /\ (cv => Level(seen) = user.chosen)
      BY <1>8, <1>14
    <2>2. Carries(s, user.chosen)
      BY <1>1, <1>4, <1>12, <2>1 DEF Carries
    <2>3. \A i \in DOMAIN s : Carries(s[i].rest, user.chosen)
      BY <1>12, NoRest
    <2> QED BY <2>1, <2>2, <2>3
  <1>16. ChoiceInv'
    BY <1>2, <1>11, <1>13, <1>15, Sends
  <1>17. Types'
    <2>1. calls' \in Seq(Calls)
      BY <1>1, <1>11
    <2> QED BY <1>2, <1>14, <2>1 DEF Types
  <1> QED BY <1>2, <1>14, <1>16, <1>17

LEMMA PollKeeps ==
    ASSUME Types, ChoiceInv, Poll
    PROVE  /\ Types' /\ ChoiceInv'
           /\ \E c \in Calls : /\ c.op = "snapshot" /\ calls' = calls \o <<c>>
                               /\ UNCHANGED <<answers, back, pending, user>>
  <1> DEFINE c == Call("snapshot", <<>>, "poll", <<>>)
  <1>1. c \in Calls /\ c.op = "snapshot" /\ c.rest = <<>>
    BY PollIs
  <1>2. /\ calls' = Append(calls, c) /\ polling' = TRUE
        /\ UNCHANGED <<screen, seen, back, pending, answers, hist, drag, user>>
    BY DEF Poll
  <1> HIDE DEF c
  <1> DEFINE s == <<c>>
  <1>3. calls' = calls \o s /\ s \in Seq(Calls) /\ calls' \in Seq(Calls) /\ DOMAIN s = {1} /\ s[1] = c
    BY <1>1, <1>2, CallIsOne DEF Types
  <1>4. Types'
    BY <1>2, <1>3 DEF Types
  <1> HIDE DEF s
  <1>5. ChoiceInv'
    BY <1>1, <1>2, <1>3, OtherChoice
  <1> QED BY <1>1, <1>2, <1>3, <1>4, <1>5 DEF s

LEMMA ViewKeeps ==
    ASSUME Types, ChoiceInv, Render \/ Release
    PROVE  Types' /\ ChoiceInv' /\ UNCHANGED <<calls, answers, back, pending, user>>
  <1>1. /\ UNCHANGED <<calls, answers, back, pending, user, screen, polling, hist>>
        /\ seen' \in {seen, screen} /\ drag' \in {drag, "none"}
    BY DEF Render, Release
  <1>2. Types'
    BY <1>1 DEF Types
  <1>3. ChoiceInv'
    <2> DEFINE s == <<>>
    <2>1. s \in Seq(Calls) /\ calls \o s = calls /\ DOMAIN s = {}
      BY NoCall
    <2> HIDE DEF s
    <2>2. calls' = calls \o s
      BY <1>1, <2>1
    <2> QED BY <1>1, <2>1, <2>2, OtherChoice
  <1> QED BY <1>1, <1>2, <1>3

LEMMA AnsweredIs ==
    ASSUME Types, Answered
    PROVE  LET a == Head(answers)
           IN  /\ answers # <<>> /\ answers' = Tail(answers) /\ answers' \in Seq(Answers)
               /\ a \in Answers /\ a.call \in Calls /\ a.ok \in BOOLEAN /\ a.got \subseteq Desk
               /\ a = answers[1] /\ 1 \in DOMAIN answers
               /\ UNCHANGED <<seen, back, pending, drag, user>>
  <1> DEFINE a == Head(answers)
  <1>1. answers # <<>> /\ answers' = Tail(answers) /\ UNCHANGED <<seen, back, pending, drag, user>>
    BY DEF Answered
  <1>2. a \in Answers /\ a = answers[1] /\ 1 \in DOMAIN answers /\ Tail(answers) \in Seq(Answers)
    BY <1>1, TailIs DEF Types
  <1> HIDE DEF a
  <1>3. a.call \in Calls /\ a.ok \in BOOLEAN /\ a.got \subseteq Desk
    BY <1>2 DEF Answers
  <1> QED BY <1>1, <1>2, <1>3 DEF a

LEMMA HydrateKeeps ==
    ASSUME Types, ChoiceInv, Hydrate
    PROVE  Types' /\ ChoiceInv' /\ calls' = calls
  <1> DEFINE a == Head(answers)
  <1>1. /\ answers # <<>> /\ answers' = Tail(answers) /\ answers' \in Seq(Answers)
        /\ a.call \in Calls /\ a.got \subseteq Desk
        /\ UNCHANGED <<seen, back, pending, drag, user>>
    BY AnsweredIs DEF Hydrate
  <1>2. /\ a.call.op = "snapshot" /\ UNCHANGED <<calls, hist>>
        /\ screen' = (IF a.got = {} THEN screen ELSE CHOOSE d \in a.got : TRUE)
        /\ polling' = (polling /\ a.call.by # "poll")
    BY DEF Hydrate, StillPolling
  <1> HIDE DEF a
  <1>3. a.call.rest = <<>>
    BY <1>1, <1>2 DEF Calls, UndoOps
  <1>4. screen' \in Desk /\ polling' \in BOOLEAN
    <2>1. a.got # {} => (CHOOSE d \in a.got : TRUE) \in a.got
      OBVIOUS
    <2> QED BY <1>1, <1>2, <2>1 DEF Types
  <1>5. Types'
    BY <1>1, <1>2, <1>4 DEF Types
  <1>6. ChoiceInv'
    <2> DEFINE s == <<>>
    <2>1. s \in Seq(Calls) /\ calls \o s = calls /\ DOMAIN s = {}
      BY NoCall
    <2> HIDE DEF s
    <2>2. Head(answers).call.rest = <<>>
      BY <1>3 DEF a
    <2> QED BY <1>1, <1>2, <2>1, <2>2, OtherChoice
  <1> QED BY <1>2, <1>5, <1>6

LEMMA EditAnsweredKeeps ==
    ASSUME Types, ChoiceInv, EditAnswered
    PROVE  Types' /\ ChoiceInv'
  <1> DEFINE a == Head(answers)
             cond == a.call.op = "remove" \/ (a.ok /\ a.call.op \in {"on", "send", "add", "preset"})
             s == If(cond, Refresh)
  <1>1. /\ answers # <<>> /\ answers' = Tail(answers) /\ answers' \in Seq(Answers)
        /\ a.call \in Calls /\ a.ok \in BOOLEAN
        /\ UNCHANGED <<seen, back, pending, drag, user>>
    BY AnsweredIs DEF EditAnswered
  <1>2. /\ a.call.by = "edit" /\ calls' = calls \o s /\ polling' = polling
        /\ screen' = IF a.ok THEN screen
                     ELSE CASE a.call.op = "on"   -> [screen EXCEPT !.on = a.call.with.prev]
                            [] a.call.op = "send" -> [screen EXCEPT !.send = ~@]
                            [] OTHER              -> screen
        /\ hist' \in {hist, Reset}
    BY DEF EditAnswered
  <1>3. cond \in BOOLEAN
    BY <1>1
  <1> HIDE DEF a
  <1>4. a.call.rest = <<>> /\ (a.call.op = "on" => a.call.with.prev \in BOOLEAN)
    BY <1>1, <1>2 DEF Calls, Fits
  <1>5. screen' \in Desk
    <2>1. screen \in Desk /\ screen.send \in BOOLEAN
      BY DeskIs DEF Types
    <2>2. a.call.op = "on" => [screen EXCEPT !.on = a.call.with.prev] \in Desk
      BY <1>4, <2>1, FieldsAre
    <2>3. [screen EXCEPT !.send = ~@] \in Desk
      BY <2>1, FieldsAre
    <2> QED BY <1>2, <2>1, <2>2, <2>3
  <1>6. hist' \in History
    BY <1>2, HistoryIs DEF Types
  <1> HIDE DEF cond
  <1>7. s \in Seq(Calls) /\ \A i \in DOMAIN s : s[i] = Refresh
    <2>1. s \in Seq(Calls)
      BY <1>3, RefreshIs, IfIs
    <2>2. \A i \in DOMAIN s : s[i] = Refresh
      BY <1>3 DEF If
    <2> QED BY <2>1, <2>2
  <1> HIDE DEF s
  <1>8. calls' \in Seq(Calls)
    BY <1>2, <1>7, CatIs DEF Types
  <1>9. Types'
    BY <1>1, <1>2, <1>5, <1>6, <1>8 DEF Types
  <1>10. ChoiceInv'
    <2>1. Head(answers).call.rest = <<>>
      BY <1>4 DEF a
    <2>2. \A i \in DOMAIN s : s[i].op # "bus" /\ s[i].rest = <<>>
      BY <1>7, RefreshIs
    <2> QED BY <1>1, <1>2, <1>7, <2>1, <2>2, OtherChoice
  <1> QED BY <1>9, <1>10

LEMMA UndoAnsweredKeeps ==
    ASSUME Types, ChoiceInv, UndoAnswered
    PROVE  /\ Types' /\ ChoiceInv' /\ Head(answers).call.rest \in Seq(Undos)
           /\ calls' = calls \o <<FirstOf(Head(answers).call.rest)>>
  <1> DEFINE a == Head(answers)
             R == a.call.rest
             c == FirstOf(R)
             s == <<c>>
  <1>1. /\ answers # <<>> /\ answers' = Tail(answers) /\ answers' \in Seq(Answers)
        /\ a.call \in Calls /\ a = answers[1] /\ 1 \in DOMAIN answers
        /\ UNCHANGED <<seen, back, pending, drag, user>>
    BY AnsweredIs DEF UndoAnswered
  <1>2. calls' = Append(calls, c) /\ UNCHANGED <<screen, polling, hist>>
    BY DEF UndoAnswered
  <1> HIDE DEF a
  <1>3. R \in Seq(Undos)
    BY <1>1 DEF Calls
  <1>4. c \in Calls
    BY <1>3, FirstIs
  <1>5. ~user.misled => Carries(R, user.chosen)
    <2> SUFFICES ASSUME ~user.misled, NEW i \in DOMAIN R, R[i].op = "bus" PROVE Level(R[i].with) = user.chosen
      BY DEF Carries, IsBus
    <2>1. R[i] \in Undos /\ Follows(R[i], answers[1].call)
      BY <1>1, <1>3 DEF Follows
    <2>2. R[i] \in BusCalls(Following)
      BY <1>1, <2>1 DEF Following, BusCalls
    <2> QED BY <2>2 DEF ChoiceInv, UndoInv
  <1> HIDE DEF R
  <1>6. /\ ~user.misled => (IsBus(c) => Level(c.with) = user.chosen) /\ Carries(c.rest, user.chosen)
        /\ HasBus(R) => IsBus(c) \/ HasBus(c.rest)
    BY <1>3, <1>5, FirstBus
  <1> HIDE DEF c
  <1>7. /\ calls' = calls \o s /\ calls' \in Seq(Calls) /\ s \in Seq(Calls)
        /\ BringsBus(s) <=> IsBus(c) \/ HasBus(c.rest)
        /\ \A level : /\ Carries(s, level) <=> (IsBus(c) => Level(c.with) = level)
                      /\ (\A i \in DOMAIN s : Carries(s[i].rest, level)) <=> Carries(c.rest, level)
    BY <1>2, <1>4, CallIsOne, OneCall DEF Types
  <1> HIDE DEF s
  <1>8. Types'
    BY <1>1, <1>2, <1>7 DEF Types
  <1>9. ChoiceInv'
    <2>1. HasBus(Head(answers).call.rest) => BringsBus(s)
      BY <1>6, <1>7 DEF R, a
    <2>2. ~user'.misled =>
            /\ ~user.misled
            /\ Carries(s, user'.chosen) /\ \A i \in DOMAIN s : Carries(s[i].rest, user'.chosen)
            /\ user'.chosen = user.chosen
      BY <1>1, <1>6, <1>7
    <2> QED BY <1>1, <1>7, <2>1, <2>2, Sends
  <1> QED BY <1>3, <1>7, <1>8, <1>9 DEF s, c, R, a

(* A command is executed: the call becomes an answer.                      *)
LEMMA ExecuteIs ==
    ASSUME Types, HasInput(back), NEW ok \in BOOLEAN, Execute(ok)
    PROVE  LET c == Head(calls)
           IN  /\ Types' /\ HasInput(back')
               /\ calls # <<>> /\ calls' = Tail(calls) /\ c \in Calls /\ pending' = pending
               /\ \E g \in SUBSET Desk : answers' = Append(answers, [call |-> c, ok |-> ok, got |-> g])
               /\ back' = IF ok THEN After(c) ELSE back
               /\ IF ok THEN ~MustFail(c) ELSE MayFail(c) \/ MustFail(c)
               /\ user'.chosen = IF ok /\ c.op = "preset" THEN Level(back') ELSE user.chosen
               /\ user'.goal.desk = {} \/ (user'.goal = user.goal /\ (ok \/ MustFail(c)) /\ c.op # "preset")
               /\ ~user'.misled =>
                    /\ ~user.misled
                    /\ ok /\ c.op = "preset" =>
                         pending = {} /\ ~InFlight("undo") /\ \A k \in 2..Len(calls) : calls[k].op # "bus"
  <1> DEFINE c == Head(calls)
             presets == ok /\ c.op = "preset"
             Overtaken == pending # {} \/ InFlight("undo") \/ \E k \in 2..Len(calls) : calls[k].op = "bus"
             g == IF ok /\ c.op = "snapshot" THEN {back} ELSE {}
             m == user.misled \/ (presets /\ Overtaken)
             ch == IF presets THEN Level(back') ELSE user.chosen
             gl == IF presets \/ (~ok /\ ~MustFail(c)) THEN NoGoal ELSE user.goal
  <1>1. /\ calls # <<>> /\ calls' = Tail(calls)
        /\ IF ok THEN ~MustFail(c) ELSE MayFail(c) \/ MustFail(c)
        /\ back' = (IF ok THEN After(c) ELSE back)
        /\ answers' = Append(answers, [call |-> c, ok |-> ok, got |-> g])
        /\ user' = [user EXCEPT !.chosen = ch, !.misled = m, !.goal = gl]
        /\ UNCHANGED <<screen, seen, pending, polling, hist, drag>>
    BY DEF Execute
  <1>2. c \in Calls /\ calls' \in Seq(Calls)
    BY <1>1, TailIs DEF Types
  <1>3. /\ back \in Desk /\ user \in Users /\ user.chosen \in Levels \X BOOLEAN /\ user.misled \in BOOLEAN
        /\ user.goal \in [desk : SUBSET Desk, added : BOOLEAN]
    BY DEF Types, Users
  <1>4. m \in BOOLEAN /\ (m \/ (~user.misled /\ (presets => ~Overtaken))) /\ presets \in BOOLEAN
    BY <1>2, <1>3
  <1>5. /\ gl \in [desk : SUBSET Desk, added : BOOLEAN]
        /\ gl.desk = {} \/ (gl = user.goal /\ (ok \/ MustFail(c)) /\ ~(MustFail(c) /\ c.op = "preset") /\ ~presets)
    BY <1>3 DEF NoGoal, MustFail
  <1> HIDE DEF c, g, m
  <1>6. back' \in Desk /\ HasInput(back')
    <2>1. CASE ok
      BY <1>1, <1>2, <1>3, <2>1, AfterIs
    <2>2. CASE ~ok
      BY <1>1, <1>3, <2>2
    <2> QED BY <2>1, <2>2
  <1>7. ch \in Levels \X BOOLEAN
    BY <1>3, <1>6, DeskIs
  <1> HIDE DEF presets, ch, gl
  <1>8. user' \in Users /\ user'.chosen = ch /\ user'.misled = m /\ user'.goal = gl
    BY <1>1, <1>3, <1>4, <1>5, <1>7 DEF Users
  <1>9. g \in SUBSET Desk
    BY <1>3 DEF g
  <1>10. answers' \in Seq(Answers)
    <2>1. [call |-> c, ok |-> ok, got |-> g] \in Answers
      BY <1>2, <1>9 DEF Answers
    <2> QED BY <1>1, <2>1, AppendIs DEF Types
  <1>11. Types'
    BY <1>1, <1>2, <1>6, <1>8, <1>10 DEF Types
  <1>12. /\ user'.chosen = IF ok /\ c.op = "preset" THEN Level(back') ELSE user.chosen
         /\ user'.goal.desk = {} \/ (user'.goal = user.goal /\ (ok \/ MustFail(c)) /\ c.op # "preset")
    BY <1>5, <1>8 DEF ch, presets
  <1>13. ~user'.misled =>
           /\ ~user.misled
           /\ ok /\ c.op = "preset" =>
                pending = {} /\ ~InFlight("undo") /\ \A k \in 2..Len(calls) : calls[k].op # "bus"
    BY <1>4, <1>8 DEF presets
  <1> QED BY <1>1, <1>2, <1>6, <1>9, <1>11, <1>12, <1>13 DEF c

LEMMA ExecuteFollowing ==
    ASSUME Types, NEW a \in Answers, calls # <<>>, a.call = Head(calls),
           calls' = Tail(calls), answers' = Append(answers, a)
    PROVE  Following' = Following
  <1>1. calls \in Seq(Calls) /\ answers \in Seq(Answers) /\ Head(calls) = calls[1] /\ 1 \in DOMAIN calls
    BY TailIs DEF Types
  <1>2. /\ \A i \in DOMAIN calls' : i + 1 \in DOMAIN calls /\ calls'[i] = calls[i + 1]
        /\ \A i \in DOMAIN calls : i = 1 \/ (i - 1 \in DOMAIN calls' /\ calls'[i - 1] = calls[i])
    <2>1. /\ \A i \in DOMAIN Tail(calls) : i + 1 \in DOMAIN calls /\ Tail(calls)[i] = calls[i + 1]
          /\ \A i \in DOMAIN calls : i > 1 => i - 1 \in DOMAIN Tail(calls) /\ Tail(calls)[i - 1] = calls[i]
      BY <1>1, TailIs
    <2>2. \A i \in DOMAIN calls : i > 1 \/ i = 1
      BY <1>1
    <2> QED BY <2>1, <2>2
  <1>3. /\ DOMAIN answers' = DOMAIN answers \union {Len(answers) + 1} /\ answers'[Len(answers) + 1] = a
        /\ \A i \in DOMAIN answers : answers'[i] = answers[i]
    BY <1>1, AppendIs
  <1>4. ASSUME NEW u \in Following PROVE u \in Following'
    <2>1. /\ u \in Undos
          /\ \/ \E k \in DOMAIN calls : Follows(u, calls[k])
             \/ \E k \in DOMAIN answers : Follows(u, answers[k].call)
      BY DEF Following
    <2>2. \/ \E k \in DOMAIN calls' : Follows(u, calls'[k])
          \/ \E k \in DOMAIN answers' : Follows(u, answers'[k].call)
      <3>1. CASE \E k \in DOMAIN calls : Follows(u, calls[k])
        <4>1. PICK k \in DOMAIN calls : Follows(u, calls[k])
          BY <3>1
        <4>2. CASE k = 1
          <5>1. answers'[Len(answers) + 1].call = calls[k] /\ Len(answers) + 1 \in DOMAIN answers'
            BY <1>1, <1>3, <4>2
          <5> QED BY <4>1, <5>1
        <4>3. CASE k # 1
          BY <1>2, <4>1, <4>3
        <4> QED BY <4>2, <4>3
      <3>2. CASE \E k \in DOMAIN answers : Follows(u, answers[k].call)
        BY <1>3, <3>2
      <3> QED BY <2>1, <3>1, <3>2
    <2> QED BY <2>1, <2>2 DEF Following
  <1>5. ASSUME NEW u \in Following' PROVE u \in Following
    <2>1. /\ u \in Undos
          /\ \/ \E k \in DOMAIN calls' : Follows(u, calls'[k])
             \/ \E k \in DOMAIN answers' : Follows(u, answers'[k].call)
      BY DEF Following
    <2>2. \/ \E k \in DOMAIN calls : Follows(u, calls[k])
          \/ \E k \in DOMAIN answers : Follows(u, answers[k].call)
      BY <1>1, <1>2, <1>3, <2>1
    <2> QED BY <2>1, <2>2 DEF Following
  <1> QED BY <1>4, <1>5

LEMMA ExecuteChoice ==
    ASSUME Types, HasInput(back), ChoiceInv, NEW ok \in BOOLEAN, Execute(ok)
    PROVE  ChoiceInv'
  <1> DEFINE c == Head(calls)
  <1>1. /\ calls # <<>> /\ calls' = Tail(calls) /\ c \in Calls /\ pending' = pending
        /\ \E g \in SUBSET Desk : answers' = Append(answers, [call |-> c, ok |-> ok, got |-> g])
        /\ back' = IF ok THEN After(c) ELSE back
        /\ IF ok THEN ~MustFail(c) ELSE MayFail(c) \/ MustFail(c)
        /\ user'.chosen = IF ok /\ c.op = "preset" THEN Level(back') ELSE user.chosen
        /\ ~user'.misled =>
             /\ ~user.misled
             /\ ok /\ c.op = "preset" =>
                  pending = {} /\ ~InFlight("undo") /\ \A k \in 2..Len(calls) : calls[k].op # "bus"
    BY ExecuteIs
  <1>2. Following' = Following
    <2>1. PICK g \in SUBSET Desk : answers' = Append(answers, [call |-> c, ok |-> ok, got |-> g])
      BY <1>1
    <2> DEFINE a == [call |-> c, ok |-> ok, got |-> g]
    <2>2. a \in Answers /\ a.call = c
      BY <1>1 DEF Answers
    <2>3. answers' = Append(answers, a)
      BY <2>1
    <2> HIDE DEF a
    <2> QED BY <1>1, <2>2, <2>3, ExecuteFollowing
  <1>3. /\ c = calls[1] /\ 1 \in DOMAIN calls /\ calls \in Seq(Calls)
        /\ \A i \in DOMAIN calls' : i + 1 \in DOMAIN calls /\ i + 1 \in 2..Len(calls) /\ calls'[i] = calls[i + 1]
        /\ \A i \in DOMAIN calls : i = 1 \/ (i > 1 /\ i - 1 \in DOMAIN calls' /\ calls'[i - 1] = calls[i])
    <2>1. calls \in Seq(Calls)
      BY DEF Types
    <2>2. /\ c = calls[1] /\ 1 \in DOMAIN calls
          /\ \A i \in DOMAIN Tail(calls) : i \in 1..Len(calls) - 1 /\ i + 1 \in DOMAIN calls
                                           /\ Tail(calls)[i] = calls[i + 1]
          /\ \A i \in DOMAIN calls : i > 1 => i - 1 \in DOMAIN Tail(calls) /\ Tail(calls)[i - 1] = calls[i]
      BY <1>1, <2>1, TailIs
    <2>3. /\ \A i \in DOMAIN calls : i > 1 \/ i = 1
          /\ \A i \in 1..Len(calls) - 1 : i + 1 \in 2..Len(calls)
      BY <2>1
    <2> HIDE DEF c
    <2> QED BY <1>1, <2>1, <2>2, <2>3
  <1> SUFFICES ASSUME ~user'.misled PROVE UndoInv' /\ SentInv'
    BY DEF ChoiceInv
  <1>4. ~user.misled /\ UndoInv /\ SentInv
    BY <1>1 DEF ChoiceInv
  <1> HIDE DEF c
  <1>5. CASE ok /\ c.op = "preset"
    <2>1. Following' = {} /\ \A k \in DOMAIN calls : calls[k].by # "undo"
      BY <1>1, <1>2, <1>5, QuietIs
    <2>2. UndoInv'
      BY <1>3, <2>1 DEF UndoInv, BusCalls
    <2>3. \A k \in DOMAIN calls' : calls'[k].op # "bus"
      BY <1>1, <1>3, <1>5
    <2>4. SentInv'
      BY <1>1, <1>5, <2>3 DEF SentInv, LastBus
    <2> QED BY <2>2, <2>4
  <1>6. CASE ~(ok /\ c.op = "preset")
    <2>1. user'.chosen = user.chosen
      BY <1>1, <1>6
    <2>2. UndoInv'
      BY <1>2, <1>3, <1>4, <2>1 DEF UndoInv, BusCalls
    <2>3. SentInv'
      <3> SUFFICES ASSUME "vol" \notin pending, BusCalls(Following) = {}
                   PROVE  /\ \A k \in DOMAIN calls' : LastBus(k)' => Level(calls'[k].with) = user.chosen
                          /\ (\A k \in DOMAIN calls' : calls'[k].op # "bus") => Level(back') = user.chosen
        BY <1>1, <1>2, <2>1 DEF SentInv, BusCalls
      <3>1. /\ \A k \in DOMAIN calls : LastBus(k) => Level(calls[k].with) = user.chosen
            /\ (\A k \in DOMAIN calls : calls[k].op # "bus") => Level(back) = user.chosen
        BY <1>4 DEF SentInv
      <3>2. ASSUME NEW k \in DOMAIN calls', LastBus(k)' PROVE Level(calls'[k].with) = user.chosen
        <4>1. k + 1 \in DOMAIN calls /\ calls'[k] = calls[k + 1] /\ calls[k + 1].op = "bus" /\ k \in Nat
          BY <1>1, <1>3, <3>2 DEF LastBus, Types
        <4>2. ASSUME NEW j \in DOMAIN calls, j > k + 1 PROVE calls[j].op # "bus"
          <5>1. j \in Nat /\ j # 1 /\ j - 1 > k
            BY <1>3, <4>1, <4>2
          <5>2. j - 1 \in DOMAIN calls' /\ calls'[j - 1] = calls[j]
            BY <1>3, <5>1
          <5> QED BY <3>2, <5>1, <5>2 DEF LastBus
        <4>3. LastBus(k + 1)
          BY <4>1, <4>2 DEF LastBus
        <4> QED BY <3>1, <4>1, <4>3
      <3>3. ASSUME \A k \in DOMAIN calls' : calls'[k].op # "bus" PROVE Level(back') = user.chosen
        <4>1. \A k \in DOMAIN calls : k # 1 => calls[k].op # "bus"
          BY <1>3, <3>3
        <4>2. CASE c.op = "bus"
          <5>1. LastBus(1)
            BY <1>3, <4>1, <4>2 DEF LastBus
          <5>2. ok
            BY <1>1, <4>2 DEF MayFail, MustFail
          <5>3. Level(back') = Level(c.with)
            BY <1>1, <4>2, <5>2, AfterIs DEF Types
          <5> QED BY <1>3, <3>1, <5>1, <5>3
        <4>3. CASE c.op # "bus"
          <5>1. Level(back) = user.chosen
            BY <1>3, <3>1, <4>1, <4>3
          <5>2. CASE ok
            <6>1. Level(back') = Level(back)
              BY <1>1, <1>6, <4>3, <5>2, AfterIs DEF Types
            <6> QED BY <5>1, <6>1
          <5>3. CASE ~ok
            BY <1>1, <5>1, <5>3
          <5> QED BY <5>2, <5>3
        <4> QED BY <4>2, <4>3
      <3> QED BY <3>2, <3>3
    <2> QED BY <2>2, <2>3
  <1> QED BY <1>5, <1>6

-----------------------------------------------------------------------------
(* An undo makes its way *)

(* A command of the undo is executed: one less to come.                    *)
LEMMA OneLess ==
    ASSUME back \in Desk, HasInput(back), NEW c \in Calls, NEW R \in Seq(Undos), R # <<>>,
           c.op = R[1].op, c.with = R[1].with, NEW t \in Desk, NEW added \in BOOLEAN,
           SendLast(R), Toward(R, back, t, added), NEW d,
           (d = After(c) /\ ~MustFail(c)) \/ (d = back /\ MustFail(c))
    PROVE  SendLast(Tail(R)) /\ Toward(Tail(R), d, t, added)
  <1> DEFINE T == Tail(R)
  <1>1. /\ 1 \in DOMAIN R /\ T \in Seq(Undos) /\ Len(T) = Len(R) - 1 /\ R[1] \in Undos /\ Len(R) \in Nat
        /\ \A i \in DOMAIN T : i \in Nat /\ i + 1 \in DOMAIN R /\ T[i] = R[i + 1]
        /\ \A i \in DOMAIN R : i = 1 \/ (i - 1 \in DOMAIN T /\ T[i - 1] = R[i])
    <2>1. /\ 1 \in DOMAIN R /\ T \in Seq(Undos) /\ Len(T) = Len(R) - 1 /\ Len(R) \in Nat
          /\ Head(R) \in Undos /\ Head(R) = R[1]
          /\ \A i \in DOMAIN T : i \in 1..Len(R) - 1 /\ i + 1 \in DOMAIN R /\ T[i] = R[i + 1]
          /\ \A i \in DOMAIN R : i > 1 => i - 1 \in DOMAIN T /\ T[i - 1] = R[i]
      BY TailIs
    <2>2. \A i \in DOMAIN R : i = 1 \/ i > 1
      OBVIOUS
    <2> HIDE DEF T
    <2> QED BY <2>1, <2>2
  <1> HIDE DEF T
  <1>2. SendLast(T)
    BY <1>1 DEF SendLast
  <1>3. \A op : Has(R, op) => Has(T, op) \/ c.op = op
    BY <1>1 DEF Has
  <1>4. (\A i \in DOMAIN T : Sets(T[i], t, added)) /\ Sets(R[1], t, added) /\ c.op \in UndoOps
    BY <1>1 DEF Toward, Undos
  <1>5. c.op = "send" => ~Has(R, "add") /\ ~Has(T, "add")
    <2> SUFFICES ASSUME c.op = "send" PROVE \A i \in DOMAIN R : i = 1
      BY <1>1 DEF Has
    <2>1. Len(R) = 1
      BY <1>1 DEF SendLast
    <2> QED BY <1>1, <2>1
  <1>6. added => t.gain # Absent
    BY DEF Toward
  <1>7. MustFail(c) => c.op \in {"gain", "send"} /\ back.gain = Absent
    BY DEF MustFail
  <1>8. /\ c.op = "on" => c.with.on = t.on
        /\ c.op = "bus" => Level(c.with) = Level(t)
        /\ c.op = "remove" => t.gain = Absent
        /\ c.op = "add" => added
        /\ c.op = "gain" => ~added /\ t.gain # Absent /\ c.with.gain = t.gain
        /\ c.op = "send" => c.with.send = t.send
    BY <1>4 DEF Sets
  <1>9. ~MustFail(c) =>
          /\ c.op = "bus" => Level(d) = Level(c.with)
          /\ c.op # "bus" => Level(d) = Level(back)
          /\ c.op = "on" => d.on = c.with.on
          /\ c.op # "on" => d.on = back.on
          /\ c.op = "gain" => d.gain = c.with.gain /\ c.with.gain # Absent
          /\ c.op = "remove" => d.gain = Absent
          /\ c.op = "add" => d.gain # Absent /\ (back.gain # Absent => d = back)
          /\ c.op \notin {"gain", "remove", "add"} => d.gain = back.gain
          /\ c.op = "send" => d.send = c.with.send
          /\ c.op \notin {"send", "remove", "add"} => d.send = back.send
          /\ c.op = "add" /\ back.gain = Absent => d.send = FALSE
    BY <1>4, AfterIs DEF UndoOps
  <1>10. MustFail(c) => d = back
    OBVIOUS
  <1>11. /\ ~Has(R, "on") => back.on = t.on
         /\ ~Has(R, "bus") => Level(back) = Level(t)
         /\ t.gain = Absent /\ ~Has(R, "remove") => back.gain = Absent
         /\ t.gain # Absent /\ ~Has(R, "add") => back.gain # Absent
         /\ t.gain # Absent /\ ~added /\ ~Has(R, "gain") => back.gain = t.gain
         /\ t.gain # Absent /\ ~Has(R, "send") => back.send = t.send
    BY DEF Toward
  <1>12. Has(R, "add") => added
    BY <1>1 DEF Has, Toward, Sets
  <1>13. ASSUME ~Has(T, "on") PROVE d.on = t.on
    BY <1>3, <1>7, <1>8, <1>9, <1>10, <1>11, <1>13
  <1>14. ASSUME ~Has(T, "bus") PROVE Level(d) = Level(t)
    BY <1>3, <1>7, <1>8, <1>9, <1>10, <1>11, <1>14
  <1>15. ASSUME t.gain = Absent, ~Has(T, "remove") PROVE d.gain = Absent
    BY <1>3, <1>4, <1>6, <1>7, <1>8, <1>9, <1>10, <1>11, <1>15 DEF UndoOps
  <1>16. ASSUME t.gain # Absent, ~Has(T, "add") PROVE d.gain # Absent
    BY <1>3, <1>4, <1>7, <1>8, <1>9, <1>10, <1>11, <1>16 DEF UndoOps
  <1>17. ASSUME t.gain # Absent, ~added, ~Has(T, "gain") PROVE d.gain = t.gain
    BY <1>3, <1>4, <1>7, <1>8, <1>9, <1>10, <1>11, <1>12, <1>17 DEF UndoOps
  <1>18. ASSUME t.gain # Absent, ~Has(T, "send") PROVE d.send = t.send
    <2>1. CASE c.op = "send"
      BY <1>5, <1>7, <1>8, <1>9, <1>11, <1>18, <2>1
    <2>2. CASE c.op = "add"
      <3>1. back.send = t.send /\ ~MustFail(c)
        BY <1>3, <1>7, <1>11, <1>18, <2>2
      <3>2. back.gain = Absent => back.send = FALSE
        BY DEF HasInput, Desk
      <3> QED BY <1>9, <2>2, <3>1, <3>2
    <2>3. CASE c.op \in {"on", "bus", "gain"}
      BY <1>3, <1>9, <1>10, <1>11, <1>18, <2>3
    <2> QED BY <1>4, <1>8, <1>18, <2>1, <2>2, <2>3 DEF UndoOps
  <1>19. Toward(T, d, t, added)
    BY <1>4, <1>6, <1>13, <1>14, <1>15, <1>16, <1>17, <1>18 DEF Toward
  <1> QED BY <1>2, <1>19 DEF T

LEMMA SnapshotIs ==
    ASSUME NEW c \in Calls
    PROVE  /\ c.op = "snapshot" <=> c.by \in {"poll", "refresh"}
           /\ c.by \in {"undo", "edit"} => c.op # "snapshot"
           /\ c.op = "snapshot" => c.rest = <<>>
  BY DEF Calls, UndoOps

(* Polls and refreshes do not disturb it.                                  *)
LEMMA ChainPoll ==
    ASSUME Types, NEW R \in Seq(Undos), Chain(R), NEW c \in Calls, c.op = "snapshot",
           calls' = calls \o <<c>>, answers' = answers
    PROVE  Chain(R)'
  <1>1. /\ calls' = Append(calls, c) /\ calls \in Seq(Calls)
    BY CallIsOne DEF Types
  <1>2. /\ DOMAIN calls' = DOMAIN calls \union {Len(calls) + 1} /\ calls'[Len(calls) + 1] = c
        /\ \A i \in DOMAIN calls : calls'[i] = calls[i]
    BY <1>1, AppendIs
  <1>3. Quiet(calls) => Quiet(calls')
    BY <1>2 DEF Quiet
  <1>4. ASSUME Calling(R) PROVE Calling(R)'
    <2>1. PICK k \in DOMAIN calls : /\ calls[k] = FirstOf(R)
                                    /\ \A j \in DOMAIN calls : j # k => calls[j].op = "snapshot"
      BY <1>4 DEF Calling
    <2>2. k \in DOMAIN calls' /\ calls'[k] = FirstOf(R)
      BY <1>2, <2>1
    <2>3. \A j \in DOMAIN calls' : j # k => calls'[j].op = "snapshot"
      BY <1>2, <2>1
    <2> QED BY <1>4, <2>2, <2>3 DEF Calling
  <1>5. Over(R) => Over(R)'
    BY <1>3 DEF Over
  <1>6. Answering(R) => Answering(R)'
    BY <1>3 DEF Answering
  <1> QED BY <1>4, <1>5, <1>6 DEF Chain

(* An answer is handled: that of a snapshot leaves the undo where it is,   *)
(* that of its own command makes it send the next, and of an edit there is *)
(* none.                                                                   *)
LEMMA ChainAnswer ==
    ASSUME Types, NEW R \in Seq(Undos), Chain(R), Answered,
           \/ Hydrate /\ calls' = calls
           \/ EditAnswered
           \/ /\ UndoAnswered /\ Head(answers).call.rest \in Seq(Undos)
              /\ calls' = calls \o <<FirstOf(Head(answers).call.rest)>>
    PROVE  Chain(R)'
  <1> DEFINE a == Head(answers)
  <1>1. /\ answers # <<>> /\ answers' = Tail(answers) /\ a.call \in Calls /\ a = answers[1]
        /\ 1 \in DOMAIN answers /\ answers \in Seq(Answers)
    BY AnsweredIs DEF Types
  <1>2. /\ \A i \in DOMAIN answers' : i \in Nat \ {0} /\ i + 1 \in DOMAIN answers /\ answers'[i] = answers[i + 1]
        /\ \A i \in DOMAIN answers : i = 1 \/ (i - 1 \in DOMAIN answers' /\ answers'[i - 1] = answers[i])
        /\ DOMAIN answers \subseteq Nat
    <2>1. /\ \A i \in DOMAIN Tail(answers) : i \in 1..Len(answers) - 1 /\ i + 1 \in DOMAIN answers
                                             /\ Tail(answers)[i] = answers[i + 1]
          /\ \A i \in DOMAIN answers : i > 1 => i - 1 \in DOMAIN Tail(answers) /\ Tail(answers)[i - 1] = answers[i]
      BY <1>1, TailIs
    <2>2. /\ \A i \in DOMAIN answers : i > 1 \/ i = 1
          /\ DOMAIN answers \subseteq Nat
          /\ \A i \in 1..Len(answers) - 1 : i \in Nat \ {0}
      BY <1>1
    <2> HIDE DEF a
    <2> QED BY <1>1, <2>1, <2>2
  <1>3. /\ a.call.op = "snapshot" <=> a.call.by \in {"poll", "refresh"}
        /\ a.call.by \in {"undo", "edit"} => a.call.op # "snapshot"
    BY <1>1, SnapshotIs
  <1>4. Heard(answers) => a.call.op = "snapshot" /\ Heard(answers')
    BY <1>1, <1>2 DEF Heard
  <1> HIDE DEF a
  <1>5. CASE Hydrate /\ calls' = calls
    <2>1. a.call.op = "snapshot"
      BY <1>5 DEF Hydrate, a
    <2>2. Over(R) => Over(R)'
      BY <1>4, <1>5 DEF Over
    <2>3. Calling(R) => Calling(R)'
      BY <1>4, <1>5 DEF Calling
    <2>4. ASSUME Answering(R) PROVE Answering(R)'
      <3>1. PICK k \in DOMAIN answers :
                   /\ answers[k].call.by = "undo" /\ answers[k].call.rest = R
                   /\ \A j \in DOMAIN answers : j # k => answers[j].call.op = "snapshot"
        BY <2>4 DEF Answering
      <3>2. k # 1
        BY <1>1, <1>3, <2>1, <3>1
      <3>3. k - 1 \in DOMAIN answers' /\ answers'[k - 1] = answers[k] /\ k \in Nat
        BY <1>2, <3>2
      <3>4. \A j \in DOMAIN answers' : j # k - 1 => answers'[j].call.op = "snapshot"
        <4> SUFFICES ASSUME NEW j \in DOMAIN answers', j # k - 1 PROVE answers'[j].call.op = "snapshot"
          OBVIOUS
        <4>1. j + 1 \in DOMAIN answers /\ answers'[j] = answers[j + 1] /\ j + 1 # k
          BY <1>2, <3>3
        <4> QED BY <3>1, <4>1
      <3> QED BY <1>5, <2>4, <3>1, <3>3, <3>4 DEF Answering
    <2> QED BY <2>2, <2>3, <2>4 DEF Chain
  <1>6. CASE EditAnswered
    <2>1. a.call.by = "edit"
      BY <1>6 DEF EditAnswered, a
    <2>2. ~Heard(answers)
      BY <1>3, <1>4, <2>1
    <2>3. ~Answering(R)
      BY <1>1, <1>3, <2>1 DEF Answering
    <2> QED BY <2>2, <2>3 DEF Chain, Over, Calling
  <1>7. CASE UndoAnswered /\ a.call.rest \in Seq(Undos) /\ calls' = calls \o <<FirstOf(a.call.rest)>>
    <2>1. a.call.by = "undo"
      BY <1>7 DEF UndoAnswered, a
    <2>2. ~Heard(answers)
      BY <1>3, <1>4, <2>1
    <2>3. Answering(R)
      BY <2>2 DEF Chain, Over, Calling
    <2>4. PICK k \in DOMAIN answers :
                 /\ answers[k].call.by = "undo" /\ answers[k].call.rest = R
                 /\ \A j \in DOMAIN answers : j # k => answers[j].call.op = "snapshot"
      BY <2>3 DEF Answering
    <2>5. k = 1
      BY <1>1, <1>3, <2>1, <2>4
    <2>6. Heard(answers')
      <3> SUFFICES ASSUME NEW j \in DOMAIN answers' PROVE answers'[j].call.op = "snapshot"
        BY DEF Heard
      <3>1. j + 1 \in DOMAIN answers /\ answers'[j] = answers[j + 1] /\ j + 1 # k
        BY <1>2, <2>5
      <3> QED BY <2>4, <3>1
    <2> DEFINE c == FirstOf(R)
    <2>7. c \in Calls
      BY FirstIs
    <2>8. calls' = Append(calls, c) /\ calls \in Seq(Calls)
      <3>1. a.call.rest = R
        BY <1>1, <2>4, <2>5
      <3> QED BY <1>7, <2>7, <3>1, CallIsOne DEF Types
    <2> HIDE DEF c
    <2>9. /\ DOMAIN calls' = DOMAIN calls \union {Len(calls) + 1} /\ calls'[Len(calls) + 1] = c
          /\ \A i \in DOMAIN calls : calls'[i] = calls[i]
      BY <2>7, <2>8, AppendIs
    <2>10. \A j \in DOMAIN calls' : j # Len(calls) + 1 => calls'[j].op = "snapshot"
      BY <2>3, <2>9 DEF Answering, Quiet
    <2>11. Calling(R)'
      BY <2>6, <2>9, <2>10 DEF Calling, c
    <2> QED BY <2>11 DEF Chain
  <1> QED BY <1>5, <1>6, <1>7 DEF a

(* A command is executed: a snapshot, or the one the undo has sent.        *)
LEMMA ChainExecute ==
    ASSUME Types, HasInput(back), NEW R \in Seq(Undos), Chain(R), SendLast(R),
           NEW t \in Desk, NEW added \in BOOLEAN, Toward(R, back, t, added),
           NEW ok \in BOOLEAN, Execute(ok), ok \/ MustFail(Head(calls))
    PROVE  \E Q \in Seq(Undos) : Chain(Q)' /\ SendLast(Q) /\ Toward(Q, back', t, added)
  <1> DEFINE c == Head(calls)
  <1>1. /\ calls # <<>> /\ calls' = Tail(calls) /\ c \in Calls
        /\ \E g \in SUBSET Desk : answers' = Append(answers, [call |-> c, ok |-> ok, got |-> g])
        /\ back' = IF ok THEN After(c) ELSE back
        /\ ok => ~MustFail(c)
    BY ExecuteIs
  <1>2. (back' = After(c) /\ ~MustFail(c)) \/ (back' = back /\ MustFail(c))
    BY <1>1
  <1>3. PICK g \in SUBSET Desk : answers' = Append(answers, [call |-> c, ok |-> ok, got |-> g])
    BY <1>1
  <1> DEFINE a == [call |-> c, ok |-> ok, got |-> g]
  <1>4. a \in Answers /\ a.call = c
    BY <1>1 DEF Answers
  <1>5. calls \in Seq(Calls) /\ answers \in Seq(Answers)
    BY DEF Types
  <1>6. c = calls[1] /\ 1 \in DOMAIN calls
    BY <1>1, <1>5, TailIs
  <1>7. /\ \A i \in DOMAIN calls' : i \in Nat \ {0} /\ i + 1 \in DOMAIN calls /\ calls'[i] = calls[i + 1]
        /\ \A i \in DOMAIN calls : i = 1 \/ (i - 1 \in DOMAIN calls' /\ calls'[i - 1] = calls[i])
        /\ DOMAIN calls \subseteq Nat
    <2>1. /\ \A i \in DOMAIN Tail(calls) : i \in 1..Len(calls) - 1 /\ i + 1 \in DOMAIN calls
                                           /\ Tail(calls)[i] = calls[i + 1]
          /\ \A i \in DOMAIN calls : i > 1 => i - 1 \in DOMAIN Tail(calls) /\ Tail(calls)[i - 1] = calls[i]
      BY <1>1, <1>5, TailIs
    <2>2. /\ \A i \in DOMAIN calls : i > 1 \/ i = 1
          /\ DOMAIN calls \subseteq Nat
          /\ \A i \in 1..Len(calls) - 1 : i \in Nat \ {0}
      BY <1>5
    <2> HIDE DEF c, a
    <2> QED BY <1>1, <2>1, <2>2
  <1>8. /\ DOMAIN answers' = DOMAIN answers \union {Len(answers) + 1} /\ answers'[Len(answers) + 1] = a
        /\ \A i \in DOMAIN answers : answers'[i] = answers[i]
    <2>1. answers' = Append(answers, a)
      BY <1>3
    <2> HIDE DEF a
    <2> QED BY <1>4, <1>5, <2>1, AppendIs
  <1> HIDE DEF a
  <1>9. /\ Quiet(calls) => c.op = "snapshot" /\ Quiet(calls')
        /\ Heard(answers) /\ c.op = "snapshot" => Heard(answers')
    <2>1. Quiet(calls) => c.op = "snapshot" /\ Quiet(calls')
      BY <1>6, <1>7 DEF Quiet
    <2>2. Heard(answers) /\ c.op = "snapshot" => Heard(answers')
      BY <1>4, <1>8 DEF Heard
    <2> QED BY <2>1, <2>2
  <1>10. c.op = "snapshot" => back' = back
    BY <1>1 DEF After
  <1> HIDE DEF c
  <1>11. CASE Over(R)
    <2>1. Over(R)' /\ back' = back
      BY <1>9, <1>10, <1>11 DEF Over
    <2> QED BY <2>1 DEF Chain
  <1>12. CASE Answering(R)
    <2>1. Quiet(calls') /\ c.op = "snapshot" /\ back' = back
      BY <1>9, <1>10, <1>12 DEF Answering
    <2>2. PICK k \in DOMAIN answers :
                 /\ answers[k].call.by = "undo" /\ answers[k].call.rest = R
                 /\ \A j \in DOMAIN answers : j # k => answers[j].call.op = "snapshot"
      BY <1>12 DEF Answering
    <2>3. k \in DOMAIN answers' /\ answers'[k] = answers[k]
      BY <1>8
    <2>4. \A j \in DOMAIN answers' : j # k => answers'[j].call.op = "snapshot"
      BY <1>4, <1>8, <2>1, <2>2
    <2>5. Answering(R)'
      BY <2>1, <2>2, <2>3, <2>4 DEF Answering
    <2> QED BY <2>1, <2>5 DEF Chain
  <1>13. CASE Calling(R)
    <2>1. PICK k \in DOMAIN calls : /\ calls[k] = FirstOf(R)
                                    /\ \A j \in DOMAIN calls : j # k => calls[j].op = "snapshot"
      BY <1>13 DEF Calling
    <2>2. Heard(answers)
      BY <1>13 DEF Calling
    <2>3. CASE k # 1
      <3>1. c.op = "snapshot" /\ back' = back /\ Heard(answers')
        BY <1>6, <1>9, <1>10, <2>1, <2>2, <2>3
      <3>2. k - 1 \in DOMAIN calls' /\ calls'[k - 1] = calls[k] /\ k \in Nat
        BY <1>7, <2>3
      <3>3. \A j \in DOMAIN calls' : j # k - 1 => calls'[j].op = "snapshot"
        <4> SUFFICES ASSUME NEW j \in DOMAIN calls', j # k - 1 PROVE calls'[j].op = "snapshot"
          OBVIOUS
        <4>1. j + 1 \in DOMAIN calls /\ calls'[j] = calls[j + 1] /\ j + 1 # k
          BY <1>7, <3>2
        <4> QED BY <2>1, <4>1
      <3>4. Calling(R)'
        BY <2>1, <3>1, <3>2, <3>3 DEF Calling
      <3> QED BY <3>1, <3>4 DEF Chain
    <2>4. CASE k = 1
      <3>1. Quiet(calls')
        <4> SUFFICES ASSUME NEW j \in DOMAIN calls' PROVE calls'[j].op = "snapshot"
          BY DEF Quiet
        <4>1. j + 1 \in DOMAIN calls /\ calls'[j] = calls[j + 1] /\ j + 1 # 1
          BY <1>7
        <4> QED BY <2>1, <2>4, <4>1
      <3>2. CASE R = <<>>
        <4>1. c.op = "snapshot"
          BY <1>6, <2>1, <2>4, <3>2, FirstIs, RefreshIs
        <4>2. Over(R)' /\ back' = back
          BY <1>9, <1>10, <2>2, <3>1, <3>2, <4>1 DEF Over
        <4> QED BY <4>2 DEF Chain
      <3>3. CASE R # <<>>
        <4>1. c.op = R[1].op /\ c.with = R[1].with /\ c.by = "undo" /\ c.rest = Tail(R)
          BY <1>6, <2>1, <2>4, <3>3, FirstIs
        <4>2. (back' = After(c) /\ ~MustFail(c)) \/ (back' = back /\ MustFail(c))
          BY <1>2
        <4>3. SendLast(Tail(R)) /\ Toward(Tail(R), back', t, added)
          BY <1>1, <3>3, <4>1, <4>2, OneLess DEF Types
        <4>4. Tail(R) \in Seq(Undos)
          BY <3>3, TailIs
        <4>5. \A j \in DOMAIN answers' : j # Len(answers) + 1 => answers'[j].call.op = "snapshot"
          BY <1>8, <2>2 DEF Heard
        <4>6. Answering(Tail(R))'
          BY <1>4, <1>8, <3>1, <4>1, <4>5 DEF Answering
        <4> QED BY <4>3, <4>4, <4>6 DEF Chain
      <3> QED BY <3>2, <3>3
    <2> QED BY <2>3, <2>4
  <1> QED BY <1>11, <1>12, <1>13 DEF Chain

LEMMA GoalSame ==
    ASSUME GoalInv, user'.goal = user.goal, UNCHANGED <<calls, answers, back, pending>>
    PROVE  GoalInv'
  BY DEF GoalInv, Chain, Over, Calling, Answering, Quiet, Heard

LEMMA GoalStep ==
    ASSUME Inv, ConsoleNext, Types'
    PROVE  GoalInv'
  <1> USE DEF Inv
  <1>1. CASE user'.goal.desk = {}
    BY <1>1 DEF GoalInv
  <1>2. ASSUME NEW t \in Desk, NEW R \in Seq(Undos),
               pending = {}, user.goal.desk = {t}, Chain(R), SendLast(R), Toward(R, back, t, user.goal.added),
               pending' = pending, back' = back, user'.goal = user.goal, Chain(R)'
        PROVE  GoalInv'
    BY <1>2 DEF GoalInv
  <1>3. ASSUME user'.goal.desk # {}
        PROVE  GoalInv'
    <2>1. CASE \E f \in Faders, v \in Levels, rendered \in BOOLEAN : Drag(f, v, rendered)
      BY <1>3, <2>1, DragIs
    <2>2. CASE Release \/ Render
      BY <2>2, ViewKeeps, GoalSame
    <2>3. CASE \/ SetBusMuted \/ SetBusEnabled \/ ToggleSend \/ RemoveInput \/ AddInput
               \/ \E p \in Presets : LoadPreset(p)
      BY <1>3, <2>3, ClicksKeep
    <2>4. ASSUME NEW t \in Desk, NEW h \in History, NEW e \in 0..MaxEdits, Restore(t, h, e)
          PROVE  GoalInv'
      <3>1. PICK D \in Seq(Undos) :
                   /\ SendLast(D) /\ calls' = calls \o <<FirstOf(D)>>
                   /\ answers' = answers /\ back' = back /\ pending' = pending
                   /\ AtRest /\ user'.goal.desk = {t} /\ Toward(D, back, t, user'.goal.added)
        BY <1>3, <2>4, RestoreIs
      <3> DEFINE c == FirstOf(D)
      <3>2. c \in Calls
        BY <3>1, FirstIs
      <3>3. calls' = Append(calls, c) /\ calls \in Seq(Calls)
        BY <3>1, <3>2, CallIsOne DEF Types
      <3> HIDE DEF c
      <3>4. /\ DOMAIN calls' = DOMAIN calls \union {Len(calls) + 1} /\ calls'[Len(calls) + 1] = c
            /\ \A i \in DOMAIN calls : calls'[i] = calls[i]
        BY <3>2, <3>3, AppendIs
      <3>5. pending = {} /\ Quiet(calls) /\ Heard(answers)
        BY <3>1 DEF AtRest, Quiet, Heard
      <3>6. Heard(answers') /\ \A j \in DOMAIN calls' : j # Len(calls) + 1 => calls'[j].op = "snapshot"
        BY <3>1, <3>4, <3>5 DEF Quiet, Heard
      <3>7. Calling(D)'
        BY <3>4, <3>6 DEF Calling, c
      <3> QED BY <3>1, <3>5, <3>7 DEF GoalInv, Chain
    <2>5. CASE UndoLast \/ RedoLast
      <3>1. user.edits \in 0..MaxEdits /\ (user.edits < MaxEdits => user.edits + 1 \in 0..MaxEdits)
        BY ConsoleAssumption DEF Types, Users
      <3> QED BY <2>4, <2>5, <3>1, HistoryIs DEF UndoLast, RedoLast
    <2>6. CASE Flush
      BY <1>3, <2>6, FlushKeeps DEF GoalInv
    <2>7. ASSUME Execute(TRUE) \/ Execute(FALSE), user.goal.desk # {} PROVE GoalInv'
      <3>1. PICK ok \in BOOLEAN : Execute(ok)
        BY <2>7
      <3>2. PICK t \in Desk, R \in Seq(Undos) :
                   /\ user.goal.desk = {t}
                   /\ Chain(R) /\ SendLast(R) /\ Toward(R, back, t, user.goal.added)
        BY <2>7 DEF GoalInv
      <3>3. pending = {}
        BY <2>7 DEF GoalInv
      <3>4. user'.goal = user.goal /\ (ok \/ MustFail(Head(calls))) /\ pending' = pending
        BY <1>3, <3>1, ExecuteIs
      <3>5. user.goal.added \in BOOLEAN
        BY DEF Types, Users
      <3>6. PICK Q \in Seq(Undos) : Chain(Q)' /\ SendLast(Q) /\ Toward(Q, back', t, user.goal.added)
        BY <3>1, <3>2, <3>4, <3>5, ChainExecute
      <3> QED BY <3>2, <3>3, <3>4, <3>6 DEF GoalInv
    <2>8. ASSUME Poll \/ AnswerStep, user.goal.desk # {} PROVE GoalInv'
      <3>1. PICK t \in Desk, R \in Seq(Undos) :
                   /\ user.goal.desk = {t}
                   /\ Chain(R) /\ SendLast(R) /\ Toward(R, back, t, user.goal.added)
        BY <2>8 DEF GoalInv
      <3>2. pending = {}
        BY <2>8 DEF GoalInv
      <3>3. CASE Poll
        <4>1. PICK c \in Calls : /\ c.op = "snapshot" /\ calls' = calls \o <<c>>
                                 /\ UNCHANGED <<answers, back, pending, user>>
          BY <3>3, PollKeeps
        <4>2. Chain(R)'
          BY <3>1, <4>1, ChainPoll
        <4> QED BY <1>2, <3>1, <3>2, <4>1, <4>2
      <3>4. CASE AnswerStep
        <4>1. Answered
          BY <3>4 DEF AnswerStep, Hydrate, EditAnswered, UndoAnswered
        <4>2. UNCHANGED <<back, pending, user>>
          BY <4>1 DEF Answered
        <4>3. Chain(R)'
          <5>1. CASE Hydrate
            BY <3>1, <4>1, <5>1, HydrateKeeps, ChainAnswer
          <5>2. CASE EditAnswered
            BY <3>1, <4>1, <5>2, ChainAnswer
          <5>3. CASE UndoAnswered
            BY <3>1, <4>1, <5>3, UndoAnsweredKeeps, ChainAnswer
          <5> QED BY <3>4, <5>1, <5>2, <5>3 DEF AnswerStep
        <4> QED BY <1>2, <3>1, <3>2, <4>2, <4>3
      <3> QED BY <2>8, <3>3, <3>4
    <2>9. ASSUME Execute(TRUE) \/ Execute(FALSE) \/ Poll \/ AnswerStep PROVE user.goal.desk # {}
      <3>1. ASSUME NEW ok \in BOOLEAN, Execute(ok) PROVE user.goal.desk # {}
        BY <1>3, <3>1, ExecuteIs
      <3>2. CASE Poll
        BY <1>3, <3>2 DEF Poll
      <3>3. CASE AnswerStep
        BY <1>3, <3>3 DEF AnswerStep, Hydrate, EditAnswered, UndoAnswered, Answered
      <3> QED BY <2>9, <3>1, <3>2, <3>3
    <2> QED BY <2>1, <2>2, <2>3, <2>5, <2>6, <2>7, <2>8, <2>9 DEF ConsoleNext, UserStep
  <1> QED BY <1>1, <1>3

-----------------------------------------------------------------------------
(* The invariant *)

LEMMA InvInit == ConsoleInit => Inv
  <1> SUFFICES ASSUME ConsoleInit PROVE Inv
    OBVIOUS
  <1> DEFINE b == [vol |-> DefaultLevel, muted |-> FALSE, on |-> FALSE, gain |-> DefaultLevel, send |-> TRUE]
             u == [chosen |-> Level(back), misled |-> FALSE, goal |-> NoGoal, edits |-> 0]
             h == [past |-> <<>>, future |-> <<>>, lastKey |-> "none"]
  <1>1. /\ back = b /\ screen = back /\ seen = back /\ user = u /\ hist = h
        /\ pending = {} /\ calls = <<>> /\ answers = <<>> /\ polling = FALSE /\ drag = "none"
    BY DEF ConsoleInit
  <1>2. b \in Desk /\ b.gain # Absent
    BY ConsoleAssumption DEF Desk
  <1>3. h \in History
    <2>1. <<>> \in Seq(Desk) /\ Len(<<>>) = 0 /\ 0 <= HistoryCap
      BY ConsoleAssumption
    <2> QED BY <2>1 DEF History
  <1> HIDE DEF b, h
  <1>4. back \in Desk /\ HasInput(back)
    BY <1>1, <1>2 DEF HasInput
  <1>5. u \in Users /\ u.chosen = Level(back) /\ u.goal.desk = {}
    <2>1. 0 \in 0..MaxEdits
      BY ConsoleAssumption
    <2>2. NoGoal \in [desk : SUBSET Desk, added : BOOLEAN] /\ NoGoal.desk = {}
      BY DEF NoGoal
    <2>3. Level(back) \in Levels \X BOOLEAN
      BY <1>4, DeskIs
    <2> QED BY <2>1, <2>2, <2>3 DEF Users
  <1> HIDE DEF u
  <1>6. Types
    <2>1. calls \in Seq(Calls) /\ answers \in Seq(Answers)
      BY <1>1
    <2> QED BY <1>1, <1>3, <1>4, <1>5, <2>1 DEF Types
  <1>7. DOMAIN calls = {} /\ DOMAIN answers = {}
    BY <1>1
  <1>8. ChoiceInv
    <2>1. Following = {}
      BY <1>7 DEF Following
    <2> QED BY <1>1, <1>5, <1>7, <2>1 DEF ChoiceInv, UndoInv, SentInv, BusCalls
  <1>9. GoalInv
    BY <1>1, <1>5 DEF GoalInv
  <1> QED BY <1>4, <1>6, <1>8, <1>9 DEF Inv

LEMMA InvStep == Inv /\ [ConsoleNext]_consoleVars => Inv'
  <1> SUFFICES ASSUME Inv, [ConsoleNext]_consoleVars PROVE Inv'
    OBVIOUS
  <1>1. Types /\ HasInput(back) /\ ChoiceInv
    BY DEF Inv
  <1>2. CASE ConsoleNext
    <2>1. ASSUME NEW f \in Faders, NEW v \in Levels, NEW rendered \in BOOLEAN, Drag(f, v, rendered)
          PROVE  Types' /\ HasInput(back') /\ ChoiceInv'
      BY <1>1, <2>1, DragIs, DragChoice
    <2>2. CASE Release \/ Render
      BY <1>1, <2>2, ViewKeeps, GoalStep, <1>2 DEF Inv
    <2>3. ASSUME \/ SetBusMuted \/ SetBusEnabled \/ ToggleSend \/ RemoveInput \/ AddInput
                 \/ \E p \in Presets : LoadPreset(p)
          PROVE  Types' /\ HasInput(back') /\ ChoiceInv'
      BY <1>1, <2>3, ClicksKeep
    <2>4. ASSUME UndoLast \/ RedoLast PROVE Types' /\ HasInput(back') /\ ChoiceInv'
      <3>1. PICK t \in Desk, h \in History, e \in 0..MaxEdits : Restore(t, h, e)
        <4>1. user.edits \in 0..MaxEdits
          BY <1>1 DEF Types, Users
        <4>2. user.edits < MaxEdits => user.edits + 1 \in 0..MaxEdits
          BY <4>1, ConsoleAssumption
        <4> QED BY <1>1, <2>4, <4>1, <4>2, HistoryIs DEF UndoLast, RedoLast
      <3>2. Types' /\ back' = back
        BY <1>1, <3>1, RestoreIs
      <3>3. ChoiceInv'
        BY <1>1, <3>1, RestoreChoice
      <3> QED BY <1>1, <3>2, <3>3
    <2>5. ASSUME Flush PROVE Types' /\ HasInput(back') /\ ChoiceInv'
      BY <1>1, <2>5, FlushKeeps
    <2>6. ASSUME Poll PROVE Types' /\ HasInput(back') /\ ChoiceInv'
      BY <1>1, <2>6, PollKeeps
    <2>7. ASSUME NEW ok \in BOOLEAN, Execute(ok) PROVE Types' /\ HasInput(back') /\ ChoiceInv'
      BY <1>1, <2>7, ExecuteIs, ExecuteChoice
    <2>8. ASSUME AnswerStep PROVE Types' /\ HasInput(back') /\ ChoiceInv'
      <3>1. back' = back
        BY <2>8 DEF AnswerStep, Hydrate, EditAnswered, UndoAnswered, Answered
      <3> QED BY <1>1, <2>8, <3>1, HydrateKeeps, EditAnsweredKeeps, UndoAnsweredKeeps DEF AnswerStep
    <2>9. Types' /\ HasInput(back') /\ ChoiceInv'
      BY <1>1, <1>2, <2>1, <2>3, <2>4, <2>5, <2>6, <2>7, <2>8, ViewKeeps DEF ConsoleNext, UserStep
    <2>10. GoalInv'
      BY <1>2, <2>9, GoalStep
    <2> QED BY <2>9, <2>10 DEF Inv, HasInput
  <1>3. CASE UNCHANGED consoleVars
    <2>1. Types'
      BY <1>1, <1>3, TypesSame
    <2>2. HasInput(back')
      BY <1>1, <1>3 DEF consoleVars
    <2>3. ChoiceInv'
      BY <1>1, <1>3 DEF consoleVars, ChoiceInv, UndoInv, SentInv, BusCalls, Following, LastBus
    <2>4. GoalInv'
      BY <1>3, GoalSame DEF Inv, consoleVars
    <2> QED BY <2>1, <2>2, <2>3, <2>4 DEF Inv, HasInput
  <1> QED BY <1>2, <1>3

THEOREM InvHolds == ConsoleSpec => []Inv
  <1>1. ConsoleInit => Inv
    BY InvInit
  <1>2. Inv /\ [ConsoleNext]_consoleVars => Inv'
    BY InvStep
  <1> QED BY <1>1, <1>2, PTL DEF ConsoleSpec

-----------------------------------------------------------------------------
(* Theorems *)

(* Every desk shown, held or remembered is well formed, what is under way  *)
(* are calls the backend knows, and the undo stacks stay within their      *)
(* bound (useHistory.ts).                                                  *)
THEOREM TypeCorrect == ConsoleSpec => []ConsoleTypeOK
  <1>1. Inv => ConsoleTypeOK
    <2> SUFFICES ASSUME Inv PROVE ConsoleTypeOK
      OBVIOUS
    <2>1. Types
      BY DEF Inv
    <2>2. \A k \in DOMAIN calls : calls[k].op \in Ops /\ calls[k].by \in {"edit", "undo", "poll", "refresh"}
      <3> SUFFICES ASSUME NEW k \in DOMAIN calls
                   PROVE  calls[k].op \in Ops /\ calls[k].by \in {"edit", "undo", "poll", "refresh"}
        OBVIOUS
      <3>1. calls[k] \in Calls
        BY <2>1, QuietIs
      <3> QED BY <3>1 DEF Calls
    <2>3. \A k \in DOMAIN answers : answers[k].call.op \in Ops /\ answers[k].got \subseteq Desk
      <3> SUFFICES ASSUME NEW k \in DOMAIN answers
                   PROVE  answers[k].call.op \in Ops /\ answers[k].got \subseteq Desk
        OBVIOUS
      <3>1. answers[k] \in Answers /\ answers[k].call \in Calls
        BY <2>1, QuietIs
      <3> QED BY <3>1 DEF Calls, Answers
    <2>4. /\ hist.past \in Seq(Desk) /\ hist.future \in Seq(Desk)
          /\ Len(hist.past) <= HistoryCap /\ Len(hist.future) <= HistoryCap
      BY <2>1 DEF Types, History
    <2>5. user.edits \in 0..MaxEdits
      BY <2>1 DEF Types, Users
    <2> QED BY <2>1, <2>2, <2>3, <2>4, <2>5 DEF Types, ConsoleTypeOK
  <1> QED BY <1>1, InvHolds, PTL

(* Once everything is sent the bus plays at the volume, and with the mute, *)
(* the user asked for last, whatever fader writes, mute clicks, undos and  *)
(* presets were under way together (useAudioManager.ts:855).               *)
THEOREM ChoiceIsHeard == ConsoleSpec => []LastChoiceIsHeard
  <1>1. Inv => LastChoiceIsHeard
    <2> SUFFICES ASSUME Inv, AtRest, ~user.misled PROVE Level(back) = user.chosen
      BY DEF LastChoiceIsHeard
    <2>1. Types /\ SentInv
      BY DEF Inv, ChoiceInv
    <2>2. /\ pending = {}
          /\ \A k \in DOMAIN calls : calls[k].op = "snapshot" /\ calls[k] \in Calls
          /\ \A k \in DOMAIN answers : answers[k].call.op = "snapshot" /\ answers[k].call \in Calls
      BY <2>1, QuietIs DEF AtRest
    <2>3. /\ \A k \in DOMAIN calls : calls[k].rest = <<>>
          /\ \A k \in DOMAIN answers : answers[k].call.rest = <<>>
      BY <2>2, SnapshotIs
    <2>4. Following = {}
      BY <2>3 DEF Following, Follows
    <2> QED BY <2>1, <2>2, <2>4 DEF SentInv, BusCalls
  <1> QED BY <1>1, InvHolds, PTL

LEMMA DesksEqual ==
    ASSUME NEW x \in Desk, NEW y \in Desk, x.vol = y.vol, x.muted = y.muted, x.on = y.on,
           x.gain = y.gain, x.send = y.send
    PROVE  x = y
  BY DEF Desk

(* An undo that begins at rest, and of whose commands none fails, gives    *)
(* back the snapshot in full but for the gain of an input it adds again,   *)
(* and sends no send of an input that is not there (useAudioManager.ts     *)
(* 1169 and 1314).                                                         *)
THEOREM UndoGivesBack == ConsoleSpec => []UndoTakesBack
  <1>1. Inv => UndoTakesBack
    <2> SUFFICES ASSUME Inv, AtRest, NEW d \in user.goal.desk
                 PROVE  back = [d EXCEPT !.gain = IF user.goal.added THEN back.gain ELSE @,
                                         !.send = @ /\ d.gain # Absent]
      BY DEF UndoTakesBack
    <2>1. Types /\ HasInput(back) /\ back \in Desk /\ back.send \in BOOLEAN
      BY DeskIs DEF Inv, Types
    <2>2. PICK t \in Desk, R \in Seq(Undos) :
                 user.goal.desk = {t} /\ Chain(R) /\ Toward(R, back, t, user.goal.added)
      BY DEF Inv, GoalInv
    <2>3. R = <<>>
      <3>1. CASE Over(R)
        BY <3>1 DEF Over
      <3>2. CASE Calling(R)
        <4>1. PICK k \in DOMAIN calls : calls[k] = FirstOf(R)
          BY <3>2 DEF Calling
        <4>2. FirstOf(R).op = "snapshot"
          BY <4>1 DEF AtRest
        <4> QED BY <2>2, <4>2, FirstIs DEF UndoOps
      <3>3. CASE Answering(R)
        <4>1. PICK k \in DOMAIN answers : answers[k].call.by = "undo"
          BY <3>3 DEF Answering
        <4>2. answers[k].call \in Calls /\ answers[k].call.op = "snapshot"
          BY <2>1, QuietIs DEF AtRest
        <4> QED BY <4>1, <4>2, SnapshotIs
      <3> QED BY <2>2, <3>1, <3>2, <3>3 DEF Chain
    <2>4. \A op : ~Has(R, op)
      BY <2>3 DEF Has
    <2>5. d = t /\ t \in Desk /\ t.send \in BOOLEAN /\ (t.gain # Absent => t.gain \in Levels)
      BY <2>2, DeskIs
    <2>6. /\ back.on = t.on /\ Level(back) = Level(t)
          /\ user.goal.added => t.gain # Absent
          /\ t.gain = Absent => back.gain = Absent
          /\ t.gain # Absent => back.gain # Absent /\ back.send = t.send
          /\ t.gain # Absent /\ ~user.goal.added => back.gain = t.gain
      BY <2>2, <2>4 DEF Toward
    <2>7. back.vol = t.vol /\ back.muted = t.muted
      BY <2>6 DEF Level
    <2> DEFINE g == IF user.goal.added THEN back.gain ELSE t.gain
               n == t.send /\ t.gain # Absent
               e == [t EXCEPT !.gain = g, !.send = n]
    <2>8. g = back.gain /\ n = back.send
      BY <2>1, <2>5, <2>6 DEF HasInput
    <2> HIDE DEF g, n
    <2>9. /\ e.vol = t.vol /\ e.muted = t.muted /\ e.on = t.on /\ e.gain = g /\ e.send = n
          /\ e \in Desk
      <3>1. g \in Levels \union {Absent} /\ n \in BOOLEAN
        BY <2>1, <2>8, DeskIs
      <3> QED BY <2>5, <3>1 DEF Desk
    <2> HIDE DEF e
    <2>10. back = e
      BY <2>1, <2>6, <2>7, <2>8, <2>9, DesksEqual
    <2> QED BY <2>5, <2>10 DEF e, g, n
  <1> QED BY <1>1, InvHolds, PTL
=============================================================================
