---------------------------- MODULE DesktopProofs ----------------------------
(***************************************************************************)
(* Theorems about the desktop's commands and files, for any constants: the *)
(* faders, the preset and settings files, the server's certificate and the *)
(* virtual cable.  Each part has an inductive invariant of its own; the    *)
(* theorems at the end are about the composition of MCDesktop.             *)
(***************************************************************************)
EXTENDS MCDesktop, FiniteSetTheorems, TLAPS

-----------------------------------------------------------------------------
(* The faders.  The types of what an engine was given *)

Levels == {Level(c, b) : c \in Strip, b \in Desks}
Mixings == {Resolved(gs, S) : gs \in Seq(Group), S \in SUBSET Strips}
Engines(S) == [level : [S -> Levels], dsp : [S -> Effects], fader : Faders, master : Effects,
               mixing : Mixings, untold : SUBSET Strips]
Engine == UNION {Engines(S) : S \in SUBSET Strips}
Row == [on : BOOLEAN, fader : Faders, dsp : Effects, engine : {Nothing} \union Engine]
Channels == [Strips -> Strip \union {Nothing}]

ControlsTypes == /\ channels \in Channels /\ desk \in [Desks -> Row]
                 /\ groups \in Seq(Group) /\ OwnIds(groups)
                 /\ fan \in Fan \union {Nothing}

(* InForce, of a given bus, graph, list of groups and fan.                 *)
Awaits(f, i, b) == f # Nothing /\ f.input = i /\ b \in f.left
Fits(e, r, ch, gs, f, b) ==
    /\ e.fader = r.fader /\ e.master = r.dsp
    /\ e.mixing = Resolved(gs, SlotsOf(e))
    /\ \A i \in SlotsOf(e) \intersect HeardOn(ch, b) :
         /\ e.level[i] = Level(ch[i], b)
         /\ i \in e.untold \/ Awaits(f, i, b) \/ e.dsp[i] = ch[i].dsp
RowFits(r, ch, gs, f, b) == r.engine # Nothing => Fits(r.engine, r, ch, gs, f, b)

ControlsInv == ControlsTypes /\ \A b \in Desks : RowFits(desk[b], channels, groups, fan, b)

(* The buses that have been told of an effect that is being sent: it is    *)
(* the one the graph has of the input, as long as they hear it.            *)
FanFits == fan # Nothing =>
             \A d \in fan.shown \ fan.left :
                fan.input \in HeardOn(channels, d) => channels[fan.input].dsp = fan.effect

LEMMA ControlsInvFollows == ControlsInv => EngineFollowsGraph
  BY DEF ControlsInv, RowFits, Fits, Awaits, EngineFollowsGraph, InForce, Coming

LEMMA NewStripType == NewStrip \in Strip /\ ~NewStrip.monitor
                      /\ \A b \in Desks : ~NewStrip.sends[b].on
  <1> DEFINE s == [b \in Desks |-> [on |-> FALSE, fader |-> Unity]]
  <1>1. s \in [Desks -> SendStrip] /\ \A b \in Desks : ~s[b].on
    BY ControlsAssumption DEF SendStrip
  <1>2. NewStrip = [fader |-> Unity, boost |-> 1, dsp |-> 0, monitor |-> FALSE, sends |-> s]
    BY DEF NewStrip
  <1> HIDE DEF s
  <1> QED BY <1>1, <1>2, ControlsAssumption DEF Strip

LEMMA InitControls == ControlsInit => ControlsInv /\ FanFits
  <1> SUFFICES ASSUME ControlsInit PROVE ControlsInv /\ FanFits
    OBVIOUS
  <1>1. ControlsTypes
    BY ControlsAssumption DEF ControlsInit, ControlsTypes, Channels, Row, OwnIds
  <1> QED BY <1>1 DEF ControlsInit, ControlsInv, RowFits, FanFits

(* An engine that was just started plays what the graph and the bus say.   *)
LEMMA EngineOfFits ==
    ASSUME ControlsTypes, NEW r \in Row, NEW ch \in Channels, NEW b \in Desks,
           NEW S \in SUBSET HeardOn(ch, b)
    PROVE  LET e == EngineOf(r, ch, b, S)
           IN  e \in Engine /\ Fits(e, r, ch, groups, fan, b)
  <1> DEFINE l == [i \in S |-> Level(ch[i], b)]
             d == [i \in S |-> ch[i].dsp]
             m == Resolved(groups, S)
             e == EngineOf(r, ch, b, S)
  <1>1. S \in SUBSET Strips /\ \A i \in S : ch[i] \in Strip
    BY DEF HeardOn, Channels
  <1>2. l \in [S -> Levels] /\ d \in [S -> Effects]
    BY <1>1 DEF Levels, Strip
  <1>3. m \in Mixings
    BY <1>1 DEF ControlsTypes, Mixings
  <1>4. e = [level |-> l, dsp |-> d, fader |-> r.fader, master |-> r.dsp, mixing |-> m,
            untold |-> {}]
    BY DEF EngineOf
  <1>5. \A i \in S : l[i] = Level(ch[i], b) /\ d[i] = ch[i].dsp
    OBVIOUS
  <1>6. DOMAIN l = S /\ m = Resolved(groups, S)
    OBVIOUS
  <1> HIDE DEF l, d, m, e
  <1>7. e \in Engines(S)
    BY <1>2, <1>3, <1>4 DEF Engines, Row
  <1>8. e.level = l /\ e.dsp = d /\ e.fader = r.fader /\ e.master = r.dsp /\ e.mixing = m
    BY <1>4
  <1>9. Fits(e, r, ch, groups, fan, b)
    BY <1>5, <1>6, <1>8 DEF Fits, SlotsOf
  <1> QED BY <1>1, <1>7, <1>9 DEF Engine, e

LEMMA FilteredFits ==
    ASSUME ControlsTypes, NEW r \in Row, NEW ch \in Channels, NEW b \in Desks, NEW gone, NEW ok
    PROVE  LET n == Filtered(r, ch, b, gone, ok)
           IN  n \in Row /\ RowFits(n, ch, groups, fan, b)
  <1> DEFINE S == HeardOn(ch, b) \ gone
             e == EngineOf(r, ch, b, S)
             g == IF r.on /\ S # {} /\ b \in ok THEN e ELSE Nothing
             n == [r EXCEPT !.engine = g]
  <1>1. e \in Engine /\ Fits(e, r, ch, groups, fan, b)
    BY EngineOfFits
  <1>2. Filtered(r, ch, b, gone, ok) = n
    BY DEF Filtered
  <1>3. g \in {Nothing} \union Engine /\ (g # Nothing => Fits(g, r, ch, groups, fan, b))
    BY <1>1
  <1> HIDE DEF g, e, S
  <1>4. n \in Row /\ n.engine = g /\ n.fader = r.fader /\ n.dsp = r.dsp
    BY <1>3 DEF Row
  <1> HIDE DEF n
  <1> QED BY <1>2, <1>3, <1>4 DEF RowFits, Fits

LEMMA RestartedFits ==
    ASSUME ControlsTypes, NEW r \in Row, NEW ch \in Channels, NEW b \in Desks, NEW ok
    PROVE  LET n == Restarted(r, ch, b, ok)
           IN  n \in Row /\ RowFits(n, ch, groups, fan, b)
  BY FilteredFits DEF Restarted

(* A bus that is not touched still fits, if the graph changed nothing of   *)
(* what it plays.                                                          *)
LEMMA RowStillFits ==
    ASSUME NEW r, NEW ch, NEW dh, NEW gs, NEW f, NEW b, RowFits(r, ch, gs, f, b),
           \A i \in HeardOn(dh, b) : r.engine # Nothing /\ i \in SlotsOf(r.engine) =>
              i \in HeardOn(ch, b) /\ Level(dh[i], b) = Level(ch[i], b) /\ dh[i].dsp = ch[i].dsp
    PROVE  RowFits(r, dh, gs, f, b)
  BY DEF RowFits, Fits

-----------------------------------------------------------------------------
(* The faders.  One action at a time *)

(* It is enough that the graph is one, and that each bus fits it.          *)
LEMMA BusByBus ==
    ASSUME ControlsInv, channels' \in Channels, UNCHANGED <<groups, fan>>,
           NEW row, desk' = [b \in Desks |-> row[b]],
           \A b \in Desks : row[b] \in Row /\ RowFits(row[b], channels', groups, fan, b)
    PROVE  ControlsInv'
  <1>1. desk' \in [Desks -> Row] /\ \A b \in Desks : desk'[b] = row[b]
    OBVIOUS
  <1>2. ControlsTypes'
    BY <1>1 DEF ControlsInv, ControlsTypes, OwnIds
  <1>3. \A b \in Desks : RowFits(desk[b], channels, groups, fan, b)'
    BY <1>1
  <1> QED BY <1>2, <1>3 DEF ControlsInv

LEMMA AddStripKeepsControls == ASSUME ControlsInv, NEW i \in Strips, AddStrip(i), UNCHANGED fan PROVE ControlsInv'
  <1>1. /\ channels' \in Channels /\ channels'[i] = NewStrip
        /\ \A j \in Strips \ {i} : channels'[j] = channels[j]
    <2>1. NewStrip \in Strip \union {Nothing} /\ channels' = [channels EXCEPT ![i] = NewStrip]
      BY NewStripType DEF AddStrip
    <2>2. channels \in Channels
      BY DEF ControlsInv, ControlsTypes
    <2> QED BY <2>1, <2>2 DEF Channels
  <1>2. \A b \in Desks : i \notin HeardOn(channels', b)
    BY <1>1, NewStripType DEF HeardOn, Monitored
  <1>3. \A b \in Desks : RowFits(desk[b], channels', groups, fan, b)
    <2> SUFFICES ASSUME NEW b \in Desks PROVE RowFits(desk[b], channels', groups, fan, b)
      OBVIOUS
    <2>1. ASSUME NEW j \in HeardOn(channels', b)
          PROVE  j \in HeardOn(channels, b) /\ channels'[j] = channels[j]
      BY <1>1, <1>2, <2>1 DEF HeardOn
    <2>2. RowFits(desk[b], channels, groups, fan, b)
      BY DEF ControlsInv
    <2> QED BY <2>1, <2>2, RowStillFits
  <1>4. UNCHANGED groups /\ desk' = [b \in Desks |-> desk[b]] /\ \A b \in Desks : desk[b] \in Row
    BY DEF AddStrip, ControlsInv, ControlsTypes
  <1> QED BY <1>1, <1>3, <1>4, BusByBus


(* Rebuilt buses fit, and so do those that did not hear the input that     *)
(* went.                                                                   *)
LEMMA RemoveStripKeepsControls ==
    ASSUME ControlsInv, NEW i \in Strips, NEW ok, RemoveStrip(i, ok), UNCHANGED fan
    PROVE  ControlsInv'
  <1> DEFINE ch == [channels EXCEPT ![i] = Nothing]
             affected == {b \in Desks : i \in HeardOn(channels, b)}
             failing == {b \in affected : StartFails(desk[b], ch, b, ok)}
             reached == {b \in affected :
                           \A f \in failing : Turn(channels[i], b) <= Turn(channels[i], f)}
             row == [b \in Desks |-> IF b \in reached THEN Restarted(desk[b], ch, b, ok) ELSE desk[b]]
  <1>1. channels' = ch /\ desk' = row /\ UNCHANGED groups
    BY DEF RemoveStrip
  <1> HIDE DEF reached
  <1>2. ControlsTypes /\ channels \in Channels /\ desk \in [Desks -> Row]
    BY DEF ControlsInv, ControlsTypes
  <1>3. /\ ch \in Channels /\ ch[i] = Nothing
        /\ \A j \in Strips \ {i} : ch[j] = channels[j]
    BY <1>2 DEF Channels
  <1> HIDE DEF ch
  <1>4. ASSUME NEW b \in Desks PROVE row[b] \in Row /\ RowFits(row[b], ch, groups, fan, b)
    <2>1. desk[b] \in Row /\ RowFits(desk[b], channels, groups, fan, b)
      BY <1>2 DEF ControlsInv
    <2>2. CASE b \in reached
      BY <1>2, <1>3, <2>1, <2>2, RestartedFits
    <2>3. CASE b \notin reached
      <3>1. ASSUME NEW j \in HeardOn(ch, b) PROVE j \in HeardOn(channels, b) /\ ch[j] = channels[j]
        BY <1>3, <3>1 DEF HeardOn
      <3>2. RowFits(desk[b], ch, groups, fan, b)
        BY <2>1, <3>1, RowStillFits
      <3> QED BY <2>1, <2>3, <3>2
    <2> QED BY <2>2, <2>3
  <1> QED
    <2> HIDE DEF Channels, Row, row
    <2>1. channels' \in Channels /\ \A b \in Desks : row[b] \in Row /\ RowFits(row[b], channels', groups, fan, b)
      BY <1>1, <1>3, <1>4
    <2>2. desk' = [b \in Desks |-> row[b]]
      BY <1>1 DEF row
    <2> QED BY <1>1, <2>1, <2>2, BusByBus

(* All the buses that heard the input are rebuilt, with the new one or     *)
(* with the old.                                                           *)
LEMMA ReplaceStripKeepsControls ==
    ASSUME ControlsInv, NEW i \in Strips, NEW j \in Strips, NEW ok, ReplaceStrip(i, j, ok), UNCHANGED fan
    PROVE  ControlsInv'
  <1> DEFINE ch == [channels EXCEPT ![i] = Nothing, ![j] = channels[i]]
             affected == {b \in Desks : i \in HeardOn(channels, b)}
             failing == {b \in affected : StartFails(desk[b], ch, b, ok)}
             row(again) == [b \in Desks |->
                              IF b \notin affected THEN desk[b]
                              ELSE IF failing = {} THEN Restarted(desk[b], ch, b, ok)
                              ELSE Restarted(desk[b], channels, b, again)]
  <1>1. PICK again : desk' = row(again)
    BY DEF ReplaceStrip
  <1>2. /\ channels' = IF failing = {} THEN ch ELSE channels
        /\ UNCHANGED groups /\ Known(i) /\ ~Known(j)
    BY DEF ReplaceStrip
  <1> HIDE DEF failing
  <1>3. ControlsTypes /\ channels \in Channels /\ desk \in [Desks -> Row]
    BY DEF ControlsInv, ControlsTypes
  <1>4. /\ ch \in Channels /\ i # j /\ ch[i] = Nothing /\ ch[j] = channels[i]
        /\ \A k \in Strips \ {i, j} : ch[k] = channels[k]
    BY <1>2, <1>3 DEF Channels, Known
  <1> HIDE DEF ch
  <1> DEFINE R == row(again)
  <1>5. ASSUME NEW b \in Desks PROVE R[b] \in Row /\ RowFits(R[b], channels', groups, fan, b)
    <2>1. desk[b] \in Row /\ RowFits(desk[b], channels, groups, fan, b)
      BY <1>3 DEF ControlsInv
    <2>2. CASE b \notin affected
      <3>1. R[b] = desk[b]
        BY <2>2
      <3>2. CASE failing = {}
        <4>1. ASSUME NEW k \in HeardOn(ch, b)
              PROVE  k \in HeardOn(channels, b) /\ ch[k] = channels[k]
          BY <1>4, <2>2, <4>1 DEF HeardOn
        <4>2. RowFits(desk[b], ch, groups, fan, b)
          BY <2>1, <4>1, RowStillFits
        <4> QED BY <1>2, <2>1, <3>1, <3>2, <4>2
      <3>3. CASE failing # {}
        BY <1>2, <2>1, <3>1, <3>3
      <3> QED BY <3>2, <3>3
    <2>3. CASE b \in affected /\ failing = {}
      <3>1. R[b] = Restarted(desk[b], ch, b, ok) /\ channels' = ch
        BY <1>2, <2>3
      <3> HIDE DEF R, Row
      <3> QED BY <1>3, <1>4, <2>1, <3>1, RestartedFits
    <2>4. CASE b \in affected /\ failing # {}
      <3>1. R[b] = Restarted(desk[b], channels, b, again) /\ channels' = channels
        BY <1>2, <2>4
      <3> HIDE DEF R, Row
      <3> QED BY <1>3, <2>1, <3>1, RestartedFits
    <2> QED BY <2>2, <2>3, <2>4
  <1>6. desk' = [b \in Desks |-> R[b]]
    BY <1>1
  <1>7. channels' \in Channels
    BY <1>2, <1>3, <1>4
  <1> HIDE DEF R, Row
  <1> QED BY <1>2, <1>5, <1>6, <1>7, BusByBus


(* A running engine that is sent a level, and what is left of one that is  *)
(* sent nothing.                                                           *)
Sent(r, i, v) == [r EXCEPT !.engine.level[i] = v]

LEMMA LevelSent ==
    ASSUME NEW r \in Row, r.engine # Nothing, NEW i \in SlotsOf(r.engine), NEW v \in Levels
    PROVE  LET n == Sent(r, i, v)
           IN  /\ n \in Row /\ n.fader = r.fader /\ n.dsp = r.dsp
               /\ n.engine.fader = r.engine.fader /\ n.engine.master = r.engine.master
               /\ n.engine.mixing = r.engine.mixing /\ n.engine.dsp = r.engine.dsp
               /\ n.engine.untold = r.engine.untold
               /\ SlotsOf(n.engine) = SlotsOf(r.engine) /\ n.engine.level[i] = v
               /\ \A j \in SlotsOf(r.engine) \ {i} : n.engine.level[j] = r.engine.level[j]
  <1>1. PICK S \in SUBSET Strips : r.engine \in Engines(S)
    BY DEF Row, Engine
  <1> DEFINE l == [r.engine.level EXCEPT ![i] = v]
             e == [r.engine EXCEPT !.level = l]
             n == [r EXCEPT !.engine = e]
  <1>2. /\ i \in S /\ SlotsOf(r.engine) = S /\ l \in [S -> Levels] /\ l[i] = v
        /\ \A j \in S \ {i} : l[j] = r.engine.level[j]
    BY <1>1 DEF Engines, SlotsOf
  <1>3. Sent(r, i, v) = n
    BY DEF Sent
  <1> HIDE DEF l
  <1>4. /\ e \in Engines(S) /\ e.level = l /\ e.fader = r.engine.fader /\ e.dsp = r.engine.dsp
        /\ e.master = r.engine.master /\ e.mixing = r.engine.mixing /\ e.untold = r.engine.untold
    BY <1>1, <1>2 DEF Engines
  <1> HIDE DEF e
  <1>5. n \in Row /\ n.engine = e /\ n.fader = r.fader /\ n.dsp = r.dsp
    BY <1>4 DEF Row, Engine
  <1>6. DOMAIN l = S
    BY <1>2
  <1> HIDE DEF n
  <1> QED BY <1>2, <1>3, <1>4, <1>5, <1>6 DEF SlotsOf

(* A change of one strip, pushed where it may be heard differently.        *)
LEMMA PushKeepsControls ==
    ASSUME ControlsInv, NEW i \in Strips, NEW ch \in Channels, NEW where \in SUBSET Desks,
           \A j \in Strips \ {i} : ch[j] = channels[j],
           \A b \in Desks : i \in HeardOn(ch, b) =>
              /\ i \in HeardOn(channels, b) /\ ch[i].dsp = channels[i].dsp
              /\ b \notin where => Level(ch[i], b) = Level(channels[i], b),
           channels' = ch, desk' = Pushed(ch, i, where), UNCHANGED <<groups, fan>>
    PROVE  ControlsInv'
  <1> DEFINE P(b) == /\ b \in where /\ i \in HeardOn(ch, b) /\ desk[b].engine # Nothing
                     /\ i \in SlotsOf(desk[b].engine)
             n(b) == [desk[b] EXCEPT !.engine.level[i] = Level(ch[i], b)]
             row == [b \in Desks |-> IF P(b) THEN n(b) ELSE desk[b]]
  <1>1. desk' = row
    BY DEF Pushed
  <1>2. desk \in [Desks -> Row]
    BY DEF ControlsInv, ControlsTypes
  <1>3. ASSUME NEW b \in Desks PROVE row[b] \in Row /\ RowFits(row[b], ch, groups, fan, b)
    <2>1. desk[b] \in Row /\ RowFits(desk[b], channels, groups, fan, b)
      BY <1>2 DEF ControlsInv
    <2>2. ASSUME NEW j \in HeardOn(ch, b)
          PROVE  j \in HeardOn(channels, b) /\ (j # i => ch[j] = channels[j]) /\ ch[j].dsp = channels[j].dsp
      BY <2>2 DEF HeardOn
    <2>3. CASE P(b)
      <3> DEFINE m == n(b)
                 v == Level(ch[i], b)
      <3>1. row[b] = m /\ m = Sent(desk[b], i, v)
        BY <2>3 DEF Sent
      <3>2. v \in Levels
        BY <2>3 DEF HeardOn, Levels, Channels
      <3>v. v = Level(ch[i], b)
        OBVIOUS
      <3> HIDE DEF m, v, row, n, Row, Levels
      <3>3. /\ m \in Row /\ m.fader = desk[b].fader /\ m.dsp = desk[b].dsp
            /\ m.engine.fader = desk[b].engine.fader /\ m.engine.master = desk[b].engine.master
            /\ m.engine.mixing = desk[b].engine.mixing /\ m.engine.dsp = desk[b].engine.dsp
            /\ m.engine.untold = desk[b].engine.untold
            /\ SlotsOf(m.engine) = SlotsOf(desk[b].engine) /\ m.engine.level[i] = v
            /\ \A j \in SlotsOf(desk[b].engine) \ {i} : m.engine.level[j] = desk[b].engine.level[j]
        BY <2>1, <2>3, <3>1, <3>2, LevelSent
      <3>4. Fits(desk[b].engine, desk[b], channels, groups, fan, b)
        BY <2>1, <2>3 DEF RowFits
      <3>5. ASSUME NEW j \in SlotsOf(m.engine) \intersect HeardOn(ch, b)
            PROVE  /\ m.engine.level[j] = Level(ch[j], b)
                   /\ j \in m.engine.untold \/ Awaits(fan, j, b) \/ m.engine.dsp[j] = ch[j].dsp
        <4>1. /\ j \in SlotsOf(desk[b].engine) \intersect HeardOn(channels, b)
              /\ (j # i => ch[j] = channels[j]) /\ ch[j].dsp = channels[j].dsp
          BY <2>2, <3>3, <3>5
        <4>2. /\ desk[b].engine.level[j] = Level(channels[j], b)
              /\ \/ j \in desk[b].engine.untold \/ Awaits(fan, j, b)
                 \/ desk[b].engine.dsp[j] = channels[j].dsp
          BY <3>4, <4>1 DEF Fits
        <4> QED BY <3>v, <3>3, <4>1, <4>2
      <3>6. Fits(m.engine, m, ch, groups, fan, b)
        BY <3>3, <3>4, <3>5 DEF Fits
      <3> QED BY <3>1, <3>3, <3>6 DEF RowFits
    <2>4. CASE ~P(b)
      <3>1. row[b] = desk[b]
        BY <2>4
      <3>2. \A j \in HeardOn(ch, b) : desk[b].engine # Nothing /\ j \in SlotsOf(desk[b].engine) =>
              j \in HeardOn(channels, b) /\ Level(ch[j], b) = Level(channels[j], b)
              /\ ch[j].dsp = channels[j].dsp
        BY <2>2, <2>4
      <3>3. RowFits(desk[b], ch, groups, fan, b)
        BY <2>1, <3>2, RowStillFits
      <3> QED BY <2>1, <3>1, <3>3
    <2> QED BY <2>3, <2>4
  <1>4. desk' = [b \in Desks |-> row[b]]
    BY <1>1
  <1> HIDE DEF row, Row, Channels
  <1> QED BY <1>3, <1>4, BusByBus

(* What a strip is after a change of one of its fields.                    *)
LEMMA SetInputGainKeepsControls ==
    ASSUME ControlsInv, NEW i \in Strips, NEW f \in Faders, SetInputGain(i, f), UNCHANGED fan
    PROVE  ControlsInv'
  <1> DEFINE ch == [channels EXCEPT ![i].fader = f]
  <1>1. channels \in Channels /\ channels[i] \in Strip
    BY DEF SetInputGain, Known, ControlsInv, ControlsTypes, Channels
  <1>2. /\ ch \in Channels /\ \A j \in Strips \ {i} : ch[j] = channels[j]
        /\ ch[i].sends = channels[i].sends /\ ch[i].monitor = channels[i].monitor
        /\ ch[i].dsp = channels[i].dsp
    BY <1>1 DEF Channels, Strip
  <1>3. channels' = ch /\ desk' = Pushed(ch, i, Desks) /\ UNCHANGED groups /\ channels[i] # Nothing
    BY DEF SetInputGain, Known
  <1> HIDE DEF ch
  <1>4. \A b \in Desks : i \in HeardOn(ch, b) => i \in HeardOn(channels, b)
    BY <1>2, <1>3 DEF HeardOn, Monitored
  <1> HIDE DEF Channels
  <1> QED BY <1>2, <1>3, <1>4, PushKeepsControls

LEMMA SetInputBoostKeepsControls ==
    ASSUME ControlsInv, NEW i \in Strips, NEW x \in Boosts, SetInputBoost(i, x), UNCHANGED fan
    PROVE  ControlsInv'
  <1> DEFINE ch == [channels EXCEPT ![i].boost = x]
  <1>1. channels \in Channels /\ channels[i] \in Strip
    BY DEF SetInputBoost, Known, ControlsInv, ControlsTypes, Channels
  <1>2. /\ ch \in Channels /\ \A j \in Strips \ {i} : ch[j] = channels[j]
        /\ ch[i].sends = channels[i].sends /\ ch[i].monitor = channels[i].monitor
        /\ ch[i].dsp = channels[i].dsp
    BY <1>1 DEF Channels, Strip
  <1>3. channels' = ch /\ desk' = Pushed(ch, i, Desks) /\ UNCHANGED groups /\ channels[i] # Nothing
    BY DEF SetInputBoost, Known
  <1> HIDE DEF ch
  <1>4. \A b \in Desks : i \in HeardOn(ch, b) => i \in HeardOn(channels, b)
    BY <1>2, <1>3 DEF HeardOn, Monitored
  <1> HIDE DEF Channels
  <1> QED BY <1>2, <1>3, <1>4, PushKeepsControls

(* A send's fader is heard on its own bus only.                            *)
LEMMA SetSendGainKeepsControls ==
    ASSUME ControlsInv, NEW i \in Strips, NEW b \in Desks, NEW f \in Faders, SetSendGain(i, b, f), UNCHANGED fan
    PROVE  ControlsInv'
  <1> DEFINE s == [channels[i].sends EXCEPT ![b].fader = f]
             c == [channels[i] EXCEPT !.sends = s]
             ch == [channels EXCEPT ![i] = c]
  <1>1. channels \in Channels /\ channels[i] \in Strip
    BY DEF SetSendGain, Known, ControlsInv, ControlsTypes, Channels
  <1>2. /\ s \in [Desks -> SendStrip] /\ s[b].on = channels[i].sends[b].on
        /\ \A d \in Desks \ {b} : s[d] = channels[i].sends[d]
    BY <1>1 DEF Strip, SendStrip
  <1>3. channels' = [channels EXCEPT ![i].sends[b].fader = f]
    BY DEF SetSendGain
  <1>4. channels' = ch
    BY <1>3
  <1>5. desk' = Pushed(channels', i, {b}) /\ UNCHANGED groups /\ channels[i] # Nothing
    BY <1>3 DEF SetSendGain, Known
  <1> HIDE DEF s
  <1>6. /\ c \in Strip /\ c.sends = s /\ c.monitor = channels[i].monitor /\ c.dsp = channels[i].dsp
        /\ c.fader = channels[i].fader /\ c.boost = channels[i].boost
    BY <1>1, <1>2 DEF Strip
  <1> HIDE DEF c
  <1>7. ch \in Channels /\ ch[i] = c /\ \A j \in Strips \ {i} : ch[j] = channels[j]
    BY <1>1, <1>6 DEF Channels
  <1> HIDE DEF ch
  <1>8. ASSUME NEW d \in Desks, i \in HeardOn(ch, d)
        PROVE  /\ i \in HeardOn(channels, d) /\ ch[i].dsp = channels[i].dsp
               /\ d \notin {b} => Level(ch[i], d) = Level(channels[i], d)
    <2>1. s[d].on = channels[i].sends[d].on /\ (d # b => s[d] = channels[i].sends[d])
      BY <1>2
    <2>2. i \in HeardOn(channels, d)
      BY <1>5, <1>6, <1>7, <1>8, <2>1 DEF HeardOn, Monitored
    <2>3. d # b => Level(ch[i], d) = Level(channels[i], d)
      BY <1>6, <1>7, <2>1 DEF Level
    <2> QED BY <1>6, <1>7, <2>2, <2>3
  <1> HIDE DEF Channels
  <1> QED BY <1>4, <1>5, <1>7, <1>8, PushKeepsControls


(* One bus is rebuilt, and the others hear what they heard.                *)
LEMMA OneBusKeepsControls ==
    ASSUME ControlsInv, NEW b \in Desks, NEW n \in Row, channels' \in Channels,
           RowFits(n, channels', groups, fan, b), desk' = [desk EXCEPT ![b] = n], UNCHANGED <<groups, fan>>,
           \A d \in Desks \ {b} : \A j \in HeardOn(channels', d) :
              /\ j \in HeardOn(channels, d) /\ Level(channels'[j], d) = Level(channels[j], d)
              /\ channels'[j].dsp = channels[j].dsp
    PROVE  ControlsInv'
  <1> DEFINE row == [d \in Desks |-> IF d = b THEN n ELSE desk[d]]
  <1>1. desk \in [Desks -> Row]
    BY DEF ControlsInv, ControlsTypes
  <1>2. desk' = [d \in Desks |-> row[d]]
    BY <1>1
  <1>3. ASSUME NEW d \in Desks PROVE row[d] \in Row /\ RowFits(row[d], channels', groups, fan, d)
    <2>1. CASE d = b
      BY <2>1
    <2>2. CASE d # b
      <3>1. desk[d] \in Row /\ RowFits(desk[d], channels, groups, fan, d) /\ row[d] = desk[d]
        BY <1>1, <2>2 DEF ControlsInv
      <3>2. \A j \in HeardOn(channels', d) :
              /\ j \in HeardOn(channels, d) /\ Level(channels'[j], d) = Level(channels[j], d)
              /\ channels'[j].dsp = channels[j].dsp
        BY <2>2
      <3>3. RowFits(desk[d], channels', groups, fan, d)
        BY <3>1, <3>2, RowStillFits
      <3> QED BY <3>1, <3>3
    <2> QED BY <2>1, <2>2
  <1> HIDE DEF row, Row, Channels
  <1> QED BY <1>2, <1>3, BusByBus

(* Monitoring is heard on A1, ...                                          *)
LEMMA SetMonitorKeepsControls ==
    ASSUME ControlsInv, NEW i \in Strips, NEW ok, SetMonitor(i, ok), UNCHANGED fan
    PROVE  ControlsInv'
  <1> DEFINE ch == [channels EXCEPT ![i].monitor = ~@]
             r == desk["A1"]
             n == Restarted(r, ch, "A1", ok)
  <1>1. ControlsTypes /\ channels \in Channels /\ channels[i] \in Strip /\ "A1" \in Desks /\ r \in Row
    BY DEF SetMonitor, Known, ControlsInv, ControlsTypes, Channels
  <1>2. /\ ch \in Channels /\ \A j \in Strips \ {i} : ch[j] = channels[j]
        /\ ch[i].sends = channels[i].sends /\ ch[i].dsp = channels[i].dsp
        /\ ch[i].fader = channels[i].fader /\ ch[i].boost = channels[i].boost
    BY <1>1 DEF Channels, Strip
  <1>3. /\ channels' = IF StartFails(r, ch, "A1", ok) THEN channels ELSE ch
        /\ desk' = [desk EXCEPT !["A1"] = n] /\ UNCHANGED groups /\ channels[i] # Nothing
    BY DEF SetMonitor, Known
  <1> HIDE DEF ch, r
  <1>4. n \in Row /\ RowFits(n, ch, groups, fan, "A1")
    BY <1>1, <1>2, RestartedFits
  <1>5. StartFails(r, ch, "A1", ok) => n.engine = Nothing
    BY <1>1 DEF StartFails, Restarted, Filtered, Row
  <1>6. channels' \in Channels /\ RowFits(n, channels', groups, fan, "A1")
    BY <1>1, <1>2, <1>3, <1>4, <1>5 DEF RowFits
  <1>7. ASSUME NEW d \in Desks \ {"A1"}, NEW j \in HeardOn(channels', d)
        PROVE  /\ j \in HeardOn(channels, d) /\ Level(channels'[j], d) = Level(channels[j], d)
               /\ channels'[j].dsp = channels[j].dsp
    <2>1. CASE channels' = channels
      BY <1>7, <2>1
    <2>2. CASE channels' = ch
      <3>1. CASE j = i
        BY <1>2, <1>3, <1>7, <2>2, <3>1 DEF HeardOn, Monitored, Level
      <3>2. CASE j # i
        BY <1>2, <1>7, <2>2, <3>2 DEF HeardOn
      <3> QED BY <3>1, <3>2
    <2> QED BY <1>3, <2>1, <2>2
  <1> HIDE DEF n, Row, Channels
  <1> QED BY <1>1, <1>3, <1>4, <1>6, <1>7, OneBusKeepsControls

(* ... and a send on its bus.                                              *)
LEMMA EnableSendKeepsControls ==
    ASSUME ControlsInv, NEW i \in Strips, NEW b \in Desks, NEW ok, NEW again, EnableSend(i, b, ok, again), UNCHANGED fan
    PROVE  ControlsInv'
  <1> DEFINE s == [channels[i].sends EXCEPT ![b].on = ~@]
             c == [channels[i] EXCEPT !.sends = s]
             ch == [channels EXCEPT ![i] = c]
             r == desk[b]
             failed == StartFails(r, ch, b, ok)
             n == IF failed THEN Restarted(r, channels, b, again) ELSE Restarted(r, ch, b, ok)
  <1>1. ControlsTypes /\ channels \in Channels /\ channels[i] \in Strip /\ r \in Row
    BY DEF EnableSend, Known, ControlsInv, ControlsTypes, Channels
  <1>2. [channels EXCEPT ![i].sends[b].on = ~@] = ch
    OBVIOUS
  <1>3. /\ channels' = IF failed THEN channels ELSE ch
        /\ desk' = [desk EXCEPT ![b] = n] /\ UNCHANGED groups /\ channels[i] # Nothing
    BY <1>1, <1>2 DEF EnableSend, Known, ControlsTypes
  <1>4. s \in [Desks -> SendStrip] /\ \A d \in Desks \ {b} : s[d] = channels[i].sends[d]
    BY <1>1 DEF Strip, SendStrip
  <1> HIDE DEF s
  <1>5. /\ c \in Strip /\ c.sends = s /\ c.monitor = channels[i].monitor /\ c.dsp = channels[i].dsp
        /\ c.fader = channels[i].fader /\ c.boost = channels[i].boost
    BY <1>1, <1>4 DEF Strip
  <1> HIDE DEF c
  <1>6. ch \in Channels /\ ch[i] = c /\ \A j \in Strips \ {i} : ch[j] = channels[j]
    BY <1>1, <1>5 DEF Channels
  <1> HIDE DEF ch, r, failed
  <1>7. n \in Row /\ channels' \in Channels /\ RowFits(n, channels', groups, fan, b)
    <2>1. CASE failed
      <3>1. Restarted(r, channels, b, again) \in Row
            /\ RowFits(Restarted(r, channels, b, again), channels, groups, fan, b)
        BY <1>1, RestartedFits
      <3> QED BY <1>1, <1>3, <2>1, <3>1
    <2>2. CASE ~failed
      <3>1. Restarted(r, ch, b, ok) \in Row /\ RowFits(Restarted(r, ch, b, ok), ch, groups, fan, b)
        BY <1>1, <1>6, RestartedFits
      <3> QED BY <1>3, <1>6, <2>2, <3>1
    <2> QED BY <2>1, <2>2
  <1>8. ASSUME NEW d \in Desks \ {b}, NEW j \in HeardOn(channels', d)
        PROVE  /\ j \in HeardOn(channels, d) /\ Level(channels'[j], d) = Level(channels[j], d)
               /\ channels'[j].dsp = channels[j].dsp
    <2>1. CASE channels' = channels
      BY <1>8, <2>1
    <2>2. CASE channels' = ch
      <3>1. CASE j = i
        <4>1. s[d] = channels[i].sends[d]
          BY <1>4, <1>8
        <4> QED BY <1>3, <1>5, <1>6, <1>8, <2>2, <3>1, <4>1 DEF HeardOn, Monitored, Level
      <3>2. CASE j # i
        BY <1>6, <1>8, <2>2, <3>2 DEF HeardOn
      <3> QED BY <3>1, <3>2
    <2> QED BY <1>3, <2>1, <2>2
  <1> HIDE DEF n, Row, Channels
  <1> QED BY <1>3, <1>7, <1>8, OneBusKeepsControls


(* An effect that a running engine is told of, or is not.                  *)
LEMMA EffectSent ==
    ASSUME NEW r \in Row, NEW i \in Strips, NEW x \in Effects, NEW n \in {DspPushed(r, i, x), Untold(r, i, x)}
    PROVE  /\ n \in Row /\ n.fader = r.fader /\ n.dsp = r.dsp /\ (r.engine = Nothing => n = r)
           /\ r.engine # Nothing =>
                /\ n.engine.fader = r.engine.fader /\ n.engine.master = r.engine.master
                /\ n.engine.mixing = r.engine.mixing /\ n.engine.level = r.engine.level
                /\ i \in SlotsOf(r.engine) => i \in n.engine.untold \/ n.engine.dsp[i] = x
                /\ \A j \in SlotsOf(r.engine) \ {i} :
                     /\ j \in r.engine.untold => j \in n.engine.untold
                     /\ n.engine.dsp[j] = r.engine.dsp[j]
  <1>1. CASE n = r /\ (Plays(r, i) => r.engine.dsp[i] = x)
    BY <1>1 DEF Plays
  <1>2. ASSUME Plays(r, i),
               NEW D, D \in {r.engine.dsp, [r.engine.dsp EXCEPT ![i] = x]},
               NEW U, U \in {r.engine.untold \ {i}, r.engine.untold \union {i}},
               i \in U \/ D[i] = x,
               n = [r EXCEPT !.engine = [r.engine EXCEPT !.dsp = D, !.untold = U]]
        PROVE  /\ n \in Row /\ n.fader = r.fader /\ n.dsp = r.dsp
               /\ n.engine.fader = r.engine.fader /\ n.engine.master = r.engine.master
               /\ n.engine.mixing = r.engine.mixing /\ n.engine.level = r.engine.level
               /\ i \in SlotsOf(r.engine) => i \in n.engine.untold \/ n.engine.dsp[i] = x
               /\ \A j \in SlotsOf(r.engine) \ {i} :
                    /\ j \in r.engine.untold => j \in n.engine.untold
                    /\ n.engine.dsp[j] = r.engine.dsp[j]
    <2> DEFINE e == [r.engine EXCEPT !.dsp = D, !.untold = U]
    <2>1. PICK S \in SUBSET Strips : r.engine \in Engines(S)
      BY <1>2 DEF Plays, Row, Engine
    <2>2. D \in [S -> Effects] /\ SlotsOf(r.engine) = S /\ \A j \in S \ {i} : D[j] = r.engine.dsp[j]
      BY <1>2, <2>1 DEF Engines, SlotsOf
    <2>3. U \in SUBSET Strips /\ \A j \in r.engine.untold \ {i} : j \in U
      BY <1>2, <2>1 DEF Engines
    <2>4. /\ e \in Engines(S) /\ e.dsp = D /\ e.untold = U /\ e.fader = r.engine.fader
          /\ e.level = r.engine.level /\ e.master = r.engine.master /\ e.mixing = r.engine.mixing
      BY <2>1, <2>2, <2>3 DEF Engines
    <2>5. n = [r EXCEPT !.engine = e]
      BY <1>2
    <2> HIDE DEF e
    <2>6. n \in Row /\ n.engine = e /\ n.fader = r.fader /\ n.dsp = r.dsp
      BY <2>4, <2>5 DEF Row, Engine
    <2> QED BY <1>2, <2>2, <2>3, <2>4, <2>6
  <1>3. CASE n = DspPushed(r, i, x) /\ Plays(r, i)
    <2>1. PICK S \in SUBSET Strips : r.engine \in Engines(S)
      BY <1>3 DEF Plays, Row, Engine
    <2> DEFINE D == [r.engine.dsp EXCEPT ![i] = x]
               U == r.engine.untold \ {i}
    <2>2. D[i] = x
      BY <1>3, <2>1 DEF Plays, Engines, SlotsOf
    <2>3. n = [r EXCEPT !.engine = [r.engine EXCEPT !.dsp = D, !.untold = U]]
      BY <1>3 DEF DspPushed
    <2>4. D \in {r.engine.dsp, [r.engine.dsp EXCEPT ![i] = x]}
          /\ U \in {r.engine.untold \ {i}, r.engine.untold \union {i}}
      OBVIOUS
    <2> HIDE DEF D, U
    <2> QED BY <1>2, <1>3, <2>2, <2>3, <2>4 DEF Plays
  <1>4. CASE n = Untold(r, i, x) /\ Plays(r, i) /\ r.engine.dsp[i] # x
    <2> DEFINE U == r.engine.untold \union {i}
    <2>1. n = [r EXCEPT !.engine = [r.engine EXCEPT !.dsp = r.engine.dsp, !.untold = U]]
      <3>1. PICK S \in SUBSET Strips : r.engine \in Engines(S)
        BY <1>4 DEF Plays, Row, Engine
      <3>2. [r.engine EXCEPT !.dsp = r.engine.dsp, !.untold = U] = [r.engine EXCEPT !.untold = U]
        BY <3>1 DEF Engines
      <3> QED BY <1>4, <3>2 DEF Untold
    <2>2. i \in U /\ U \in {r.engine.untold \ {i}, r.engine.untold \union {i}}
      OBVIOUS
    <2> HIDE DEF U
    <2> QED BY <1>2, <1>4, <2>1, <2>2 DEF Plays
  <1>5. \/ n = r /\ (Plays(r, i) => r.engine.dsp[i] = x)
        \/ n = DspPushed(r, i, x) /\ Plays(r, i)
        \/ n = Untold(r, i, x) /\ Plays(r, i) /\ r.engine.dsp[i] # x
    BY DEF DspPushed, Untold
  <1> QED BY <1>1, <1>3, <1>4, <1>5

(* The effect reaches the graph, and one bus; the buses that are still to  *)
(* be told are awaited, and those that were told have it already.          *)
LEMMA EffectStored ==
    ASSUME ControlsInv, FanFits, NEW b \in Desks, UpdateInputDsp(b), Known(fan.input)
    PROVE  ControlsInv'
  <1> DEFINE i == fan.input
             x == fan.effect
             ch == [channels EXCEPT ![i].dsp = x]
             row == [d \in Desks |-> IF d = b THEN DspPushed(desk[d], i, x)
                                     ELSE IF d \in fan.shown THEN desk[d]
                                     ELSE Untold(desk[d], i, x)]
  <1>1. /\ channels \in Channels /\ desk \in [Desks -> Row] /\ fan \in Fan
        /\ i \in Strips /\ x \in Effects /\ channels[i] \in Strip
    BY DEF UpdateInputDsp, Known, ControlsInv, ControlsTypes, Channels, Fan
  <1>2. /\ ch \in Channels /\ \A j \in Strips \ {i} : ch[j] = channels[j]
        /\ ch[i].sends = channels[i].sends /\ ch[i].monitor = channels[i].monitor
        /\ ch[i].fader = channels[i].fader /\ ch[i].boost = channels[i].boost /\ ch[i].dsp = x
    BY <1>1 DEF Channels, Strip
  <1>3. channels' = ch /\ desk' = row /\ UNCHANGED groups /\ channels[i] # Nothing
    BY DEF UpdateInputDsp, Known
  <1>4. fan' \in Fan \union {Nothing}
        /\ \A d \in Desks \ {b} : \A j \in Strips : Awaits(fan, j, d) => Awaits(fan', j, d)
    <2>1. CASE fan.left = {b}
      BY <2>1 DEF UpdateInputDsp, Awaits
    <2>2. CASE fan.left # {b}
      <3>1. fan' = [fan EXCEPT !.left = @ \ {b}]
        BY <2>2 DEF UpdateInputDsp
      <3>2. fan' \in Fan /\ fan'.input = i /\ fan'.left = fan.left \ {b}
        BY <1>1, <3>1 DEF Fan
      <3> QED BY <3>2, FanAssumption DEF Awaits
    <2> QED BY <2>1, <2>2
  <1> HIDE DEF ch
  <1>5. ASSUME NEW d \in Desks, NEW j \in HeardOn(ch, d)
        PROVE  /\ j \in HeardOn(channels, d) /\ Level(ch[j], d) = Level(channels[j], d)
               /\ j # i => ch[j].dsp = channels[j].dsp
    <2>1. CASE j = i
      BY <1>2, <1>3, <1>5, <2>1 DEF HeardOn, Monitored, Level
    <2>2. CASE j # i
      BY <1>2, <1>5, <2>2 DEF HeardOn
    <2> QED BY <2>1, <2>2
  <1>6. ASSUME NEW d \in Desks PROVE row[d] \in Row /\ RowFits(row[d], ch, groups, fan', d)
    <2> DEFINE n == row[d]
               q == desk[d]
    <2>1. q \in Row /\ RowFits(q, channels, groups, fan, d)
      BY <1>1 DEF ControlsInv
    <2>2. /\ n \in Row /\ n.fader = q.fader /\ n.dsp = q.dsp /\ (q.engine = Nothing => n = q)
          /\ q.engine # Nothing =>
               /\ n.engine.fader = q.engine.fader /\ n.engine.master = q.engine.master
               /\ n.engine.mixing = q.engine.mixing /\ n.engine.level = q.engine.level
               /\ \A j \in SlotsOf(q.engine) \ {i} :
                    /\ j \in q.engine.untold => j \in n.engine.untold
                    /\ n.engine.dsp[j] = q.engine.dsp[j]
      <3>1. CASE d \in fan.shown /\ d # b
        BY <2>1, <3>1
      <3>2. CASE d \notin fan.shown \/ d = b
        BY <1>1, <2>1, <3>2, EffectSent
      <3> QED BY <3>1, <3>2
    <2>3. ASSUME q.engine # Nothing, i \in SlotsOf(q.engine), i \in HeardOn(ch, d)
          PROVE  i \in n.engine.untold \/ Awaits(fan', i, d) \/ n.engine.dsp[i] = x
      <3>1. CASE d # b /\ d \in fan.shown /\ d \in fan.left
        <4>1. Awaits(fan, i, d)
          BY <3>1 DEF Awaits, UpdateInputDsp
        <4> QED BY <1>1, <1>4, <3>1, <4>1
      <3>2. CASE d # b /\ d \in fan.shown /\ d \notin fan.left
        <4>1. n = q /\ ~Awaits(fan, i, d) /\ i \in HeardOn(channels, d)
          BY <1>5, <2>3, <3>2 DEF Awaits
        <4>2. channels[i].dsp = x
          BY <3>2, <4>1 DEF FanFits, UpdateInputDsp
        <4>3. i \in q.engine.untold \/ q.engine.dsp[i] = channels[i].dsp
          BY <2>1, <2>3, <4>1 DEF RowFits, Fits
        <4> QED BY <4>1, <4>2, <4>3
      <3>3. CASE d = b \/ d \notin fan.shown
        <4>1. n \in {DspPushed(q, i, x), Untold(q, i, x)}
          BY <3>3
        <4> HIDE DEF n, q, row
        <4> QED BY <1>1, <2>1, <2>3, <4>1, EffectSent
      <3> QED BY <3>1, <3>2, <3>3
    <2> HIDE DEF n, q, row, i, x
    <2>4. CASE q.engine = Nothing
      BY <2>2, <2>4 DEF RowFits, n
    <2>5. CASE q.engine # Nothing
      <3>1. Fits(q.engine, q, channels, groups, fan, d)
        BY <2>1, <2>5 DEF RowFits
      <3>2. SlotsOf(n.engine) = SlotsOf(q.engine)
        BY <2>2, <2>5 DEF SlotsOf
      <3>3. ASSUME NEW j \in SlotsOf(n.engine) \intersect HeardOn(ch, d)
            PROVE  /\ n.engine.level[j] = Level(ch[j], d)
                   /\ j \in n.engine.untold \/ Awaits(fan', j, d) \/ n.engine.dsp[j] = ch[j].dsp
        <4>1. /\ j \in SlotsOf(q.engine) \intersect HeardOn(channels, d) /\ j \in Strips
              /\ Level(ch[j], d) = Level(channels[j], d) /\ (j # i => ch[j].dsp = channels[j].dsp)
          BY <1>5, <3>2, <3>3 DEF HeardOn
        <4>2. /\ q.engine.level[j] = Level(channels[j], d)
              /\ j \in q.engine.untold \/ Awaits(fan, j, d) \/ q.engine.dsp[j] = channels[j].dsp
          BY <3>1, <4>1 DEF Fits
        <4>3. n.engine.level[j] = Level(ch[j], d)
          BY <2>2, <2>5, <4>1, <4>2
        <4>4. CASE j = i
          BY <1>2, <2>3, <2>5, <3>2, <3>3, <4>3, <4>4
        <4>5. CASE j # i
          <5>1. ~Awaits(fan, j, d)
            BY <4>5 DEF Awaits, i
          <5> QED BY <2>2, <2>5, <4>1, <4>2, <4>3, <4>5, <5>1
        <4> QED BY <4>4, <4>5
      <3>4. Fits(n.engine, n, ch, groups, fan', d)
        BY <2>2, <2>5, <3>1, <3>2, <3>3 DEF Fits
      <3> QED BY <2>2, <3>4 DEF RowFits, n
    <2> QED BY <2>2, <2>4, <2>5 DEF n
  <1>7. desk' \in [Desks -> Row] /\ \A d \in Desks : desk'[d] = row[d]
    <2> HIDE DEF Row
    <2> QED BY <1>3, <1>6
  <1>8. ControlsTypes'
    BY <1>2, <1>3, <1>4, <1>7 DEF ControlsInv, ControlsTypes
  <1>9. \A d \in Desks : RowFits(desk[d], channels, groups, fan, d)'
    BY <1>3, <1>6, <1>7
  <1> QED BY <1>8, <1>9 DEF ControlsInv

LEMMA UpdateInputDspKeepsControls ==
    ASSUME ControlsInv, FanFits, NEW b \in Desks, UpdateInputDsp(b)
    PROVE  ControlsInv'
  <1>1. CASE Known(fan.input)
    BY <1>1, EffectStored
  <1>2. CASE ~Known(fan.input)
    <2> DEFINE i == fan.input
    <2>1. UNCHANGED <<channels, desk, groups>> /\ fan \in Fan /\ \A d \in Desks : i \notin HeardOn(channels, d)
      BY <1>2 DEF UpdateInputDsp, Known, HeardOn, ControlsInv, ControlsTypes
    <2>2. fan' \in Fan \union {Nothing}
      BY <2>1 DEF UpdateInputDsp, Fan
    <2>3. \A d \in Desks : \A j : ~Awaits(fan, j, d) \/ j = i
      BY DEF Awaits
    <2>4. ASSUME NEW d \in Desks PROVE RowFits(desk[d], channels, groups, fan', d)
      <3>1. RowFits(desk[d], channels, groups, fan, d)
        BY DEF ControlsInv
      <3> QED BY <2>1, <2>3, <3>1 DEF RowFits, Fits
    <2> QED BY <2>1, <2>2, <2>4 DEF ControlsInv, ControlsTypes
  <1> QED BY <1>1, <1>2

(* As it is sent, no bus has been told, and the graph says what it said.   *)
LEMMA SetInputDspKeepsControls ==
    ASSUME ControlsInv, NEW i \in Strips, NEW x \in Effects, NEW sends \in SUBSET Desks,
           NEW monitor \in BOOLEAN, SetInputDsp(i, x, sends, monitor)
    PROVE  ControlsInv' /\ FanFits'
  <1> DEFINE l == Targets(sends, monitor)
             s == Shown(sends, monitor)
             f == [input |-> i, effect |-> x, shown |-> s, left |-> l]
  <1>1. fan = Nothing /\ fan' = f /\ UNCHANGED <<channels, desk, groups>>
    BY DEF SetInputDsp
  <1>2. s \in SUBSET Desks /\ l \in SUBSET Desks /\ s \subseteq l
    BY ControlsAssumption DEF Shown, Targets
  <1> HIDE DEF s, l
  <1>3. f \in Fan /\ f.shown = s /\ f.left = l
    BY <1>2 DEF Fan
  <1> HIDE DEF f
  <1>4. ASSUME NEW b \in Desks PROVE RowFits(desk[b], channels, groups, f, b)
    <2>1. RowFits(desk[b], channels, groups, fan, b)
      BY DEF ControlsInv
    <2> QED BY <1>1, <2>1 DEF RowFits, Fits, Awaits
  <1>5. ControlsInv'
    BY <1>1, <1>3, <1>4 DEF ControlsInv, ControlsTypes
  <1>6. FanFits'
    BY <1>1, <1>2, <1>3 DEF FanFits
  <1> QED BY <1>5, <1>6

(* The watcher rebuilds a bus with what is there.                          *)
LEMMA WatcherRebuildsKeepsControls ==
    ASSUME ControlsInv, NEW b \in Desks, NEW gone, NEW ok, WatcherRebuilds(b, gone, ok), UNCHANGED fan
    PROVE  ControlsInv'
  <1> DEFINE n == Filtered(desk[b], channels, b, gone, ok)
  <1>1. ControlsTypes /\ channels \in Channels /\ desk[b] \in Row /\ desk \in [Desks -> Row]
    BY DEF ControlsInv, ControlsTypes
  <1>2. desk' = [desk EXCEPT ![b] = n] /\ UNCHANGED <<channels, groups>>
    BY <1>1 DEF WatcherRebuilds
  <1>3. n \in Row /\ RowFits(n, channels, groups, fan, b)
    BY <1>1, FilteredFits
  <1> HIDE DEF n, Row, Channels
  <1> QED BY <1>1, <1>2, <1>3, OneBusKeepsControls

(* A bus is switched, ...                                                  *)
LEMMA SwitchBusKeepsControls ==
    ASSUME ControlsInv, NEW b \in Desks, NEW ok, NEW again, SwitchBus(b, ok, again), UNCHANGED fan
    PROVE  ControlsInv'
  <1> DEFINE q == desk[b]
             r == [q EXCEPT !.on = ~@]
             n == IF StartFails(r, channels, b, ok) THEN Restarted(q, channels, b, again)
                  ELSE Restarted(r, channels, b, ok)
  <1>1. ControlsTypes /\ channels \in Channels /\ q \in Row /\ desk \in [Desks -> Row]
    BY DEF ControlsInv, ControlsTypes
  <1>2. r \in Row
    BY <1>1 DEF Row
  <1>3. desk' = [desk EXCEPT ![b] = n] /\ UNCHANGED <<channels, groups>>
    BY <1>1 DEF SwitchBus
  <1> HIDE DEF q, r
  <1>4. n \in Row /\ RowFits(n, channels, groups, fan, b)
    <2>1. Restarted(q, channels, b, again) \in Row
          /\ RowFits(Restarted(q, channels, b, again), channels, groups, fan, b)
      BY <1>1, RestartedFits
    <2>2. Restarted(r, channels, b, ok) \in Row
          /\ RowFits(Restarted(r, channels, b, ok), channels, groups, fan, b)
      BY <1>1, <1>2, RestartedFits
    <2> QED BY <2>1, <2>2
  <1> HIDE DEF n, Row, Channels
  <1> QED BY <1>1, <1>3, <1>4, OneBusKeepsControls

(* ... and its fader and its effects go to the graph's side and to the     *)
(* engine at once.                                                         *)
LEMMA SetBusVolumeKeepsControls ==
    ASSUME ControlsInv, NEW b \in Desks, NEW f \in Faders, SetBusVolume(b, f), UNCHANGED fan
    PROVE  ControlsInv'
  <1> DEFINE q == desk[b]
             n == IF q.engine = Nothing THEN [q EXCEPT !.fader = f]
                  ELSE [q EXCEPT !.fader = f, !.engine.fader = f]
  <1>1. channels \in Channels /\ q \in Row /\ desk \in [Desks -> Row]
        /\ RowFits(q, channels, groups, fan, b)
    BY DEF ControlsInv, ControlsTypes
  <1>2. desk' = [desk EXCEPT ![b] = n] /\ UNCHANGED <<channels, groups>>
    BY <1>1 DEF SetBusVolume
  <1> HIDE DEF q
  <1>3. n \in Row /\ RowFits(n, channels, groups, fan, b)
    <2>1. CASE q.engine = Nothing
      BY <1>1, <2>1 DEF Row, RowFits
    <2>2. CASE q.engine # Nothing
      <3> DEFINE e == [q.engine EXCEPT !.fader = f]
                 m == [q EXCEPT !.fader = f, !.engine = e]
      <3>1. PICK S \in SUBSET Strips : q.engine \in Engines(S)
        BY <1>1, <2>2 DEF Row, Engine
      <3>2. /\ e \in Engines(S) /\ e.fader = f /\ e.master = q.engine.master /\ e.dsp = q.engine.dsp
            /\ e.level = q.engine.level /\ e.mixing = q.engine.mixing
            /\ e.untold = q.engine.untold
        BY <3>1 DEF Engines
      <3>3. n = m
        BY <2>2
      <3> HIDE DEF e
      <3>e. e \in {Nothing} \union Engine
        BY <3>2 DEF Engine
      <3>4. m \in Row /\ m.engine = e /\ m.fader = f /\ m.dsp = q.dsp
        BY <1>1, <3>e DEF Row
      <3> HIDE DEF m, n, Row
      <3>5. Fits(q.engine, q, channels, groups, fan, b)
        BY <1>1, <2>2 DEF RowFits
      <3>6. SlotsOf(e) = SlotsOf(q.engine)
        BY <3>2 DEF SlotsOf
      <3>7. Fits(e, m, channels, groups, fan, b)
        BY <3>2, <3>4, <3>5, <3>6 DEF Fits
      <3> QED BY <3>3, <3>4, <3>7 DEF RowFits
    <2> QED BY <2>1, <2>2
  <1> HIDE DEF n, Row, Channels
  <1> QED BY <1>1, <1>2, <1>3, OneBusKeepsControls

LEMMA UpdateBusDspKeepsControls ==
    ASSUME ControlsInv, NEW b \in Desks, NEW x \in Effects, UpdateBusDsp(b, x), UNCHANGED fan
    PROVE  ControlsInv'
  <1> DEFINE q == desk[b]
             n == IF q.engine = Nothing THEN [q EXCEPT !.dsp = x]
                  ELSE [q EXCEPT !.dsp = x, !.engine.master = x]
  <1>1. channels \in Channels /\ q \in Row /\ desk \in [Desks -> Row]
        /\ RowFits(q, channels, groups, fan, b)
    BY DEF ControlsInv, ControlsTypes
  <1>2. desk' = [desk EXCEPT ![b] = n] /\ UNCHANGED <<channels, groups>>
    BY <1>1 DEF UpdateBusDsp
  <1> HIDE DEF q
  <1>3. n \in Row /\ RowFits(n, channels, groups, fan, b)
    <2>1. CASE q.engine = Nothing
      BY <1>1, <2>1 DEF Row, RowFits
    <2>2. CASE q.engine # Nothing
      <3> DEFINE e == [q.engine EXCEPT !.master = x]
                 m == [q EXCEPT !.dsp = x, !.engine = e]
      <3>1. PICK S \in SUBSET Strips : q.engine \in Engines(S)
        BY <1>1, <2>2 DEF Row, Engine
      <3>2. /\ e \in Engines(S) /\ e.master = x /\ e.fader = q.engine.fader /\ e.dsp = q.engine.dsp
            /\ e.level = q.engine.level /\ e.mixing = q.engine.mixing
            /\ e.untold = q.engine.untold
        BY <3>1 DEF Engines
      <3>3. n = m
        BY <2>2
      <3> HIDE DEF e
      <3>e. e \in {Nothing} \union Engine
        BY <3>2 DEF Engine
      <3>4. m \in Row /\ m.engine = e /\ m.fader = q.fader /\ m.dsp = x
        BY <1>1, <3>e DEF Row
      <3> HIDE DEF m, n, Row
      <3>5. Fits(q.engine, q, channels, groups, fan, b)
        BY <1>1, <2>2 DEF RowFits
      <3>6. SlotsOf(e) = SlotsOf(q.engine)
        BY <3>2 DEF SlotsOf
      <3>7. Fits(e, m, channels, groups, fan, b)
        BY <3>2, <3>4, <3>5, <3>6 DEF Fits
      <3> QED BY <3>3, <3>4, <3>7 DEF RowFits
    <2> QED BY <2>1, <2>2
  <1> HIDE DEF n, Row, Channels
  <1> QED BY <1>1, <1>2, <1>3, OneBusKeepsControls


(* The groups as they are after a command reach every engine.              *)
LEMMA RegroupedKeepsControls ==
    ASSUME ControlsInv, groups' \in Seq(Group), OwnIds(groups'), desk' = Republished(groups'),
           UNCHANGED <<channels, fan>>
    PROVE  ControlsInv'
  <1> DEFINE gs == groups'
             row == Republished(gs)
  <1>1. channels \in Channels /\ desk \in [Desks -> Row]
    BY DEF ControlsInv, ControlsTypes
  <1>2. ASSUME NEW b \in Desks PROVE row[b] \in Row /\ RowFits(row[b], channels, gs, fan, b)
    <2> DEFINE q == desk[b]
               n == Mixing(gs, q)
    <2>1. q \in Row /\ RowFits(q, channels, groups, fan, b) /\ row[b] = n
      BY <1>1 DEF ControlsInv, Republished
    <2> HIDE DEF q, row, gs
    <2>2. CASE q.engine = Nothing
      BY <2>1, <2>2 DEF Mixing, RowFits
    <2>3. CASE q.engine # Nothing
      <3>1. PICK S \in SUBSET Strips : q.engine \in Engines(S)
        BY <2>1, <2>3 DEF Row, Engine
      <3> DEFINE x == Resolved(gs, SlotsOf(q.engine))
                 e == [q.engine EXCEPT !.mixing = x]
                 m == [q EXCEPT !.engine = e]
      <3>2. SlotsOf(q.engine) = S
        BY <3>1 DEF SlotsOf, Engines
      <3>3. x \in Mixings /\ x = Resolved(gs, SlotsOf(q.engine))
        BY <3>2 DEF Mixings, gs
      <3>4. n = m
        BY <2>3 DEF Mixing
      <3> HIDE DEF x
      <3>5. /\ e \in Engines(S) /\ e.mixing = x /\ e.fader = q.engine.fader /\ e.dsp = q.engine.dsp
            /\ e.level = q.engine.level /\ e.master = q.engine.master
            /\ e.untold = q.engine.untold
        BY <3>1, <3>3 DEF Engines
      <3> HIDE DEF e
      <3>6. e \in {Nothing} \union Engine
        BY <3>5 DEF Engine
      <3>7. m \in Row /\ m.engine = e /\ m.fader = q.fader /\ m.dsp = q.dsp
        BY <2>1, <3>6 DEF Row
      <3> HIDE DEF m, n, Row
      <3>8. Fits(q.engine, q, channels, groups, fan, b)
        BY <2>1, <2>3 DEF RowFits
      <3>9. SlotsOf(e) = SlotsOf(q.engine)
        BY <3>5 DEF SlotsOf
      <3>10. Fits(e, m, channels, gs, fan, b)
        BY <3>3, <3>5, <3>7, <3>8, <3>9 DEF Fits
      <3> QED BY <2>1, <3>4, <3>7, <3>10 DEF RowFits
    <2> QED BY <2>2, <2>3
  <1>3. desk' = row
    OBVIOUS
  <1>4. row = [b \in Desks |-> row[b]]
    BY DEF Republished
  <1> HIDE DEF row, gs
  <1>5. desk' \in [Desks -> Row] /\ \A b \in Desks : desk'[b] = row[b]
    BY <1>2, <1>3, <1>4
  <1>6. ControlsTypes'
    BY <1>1, <1>5 DEF ControlsInv, ControlsTypes
  <1>7. \A b \in Desks : RowFits(desk[b], channels, groups, fan, b)'
    BY <1>2, <1>5 DEF gs
  <1> QED BY <1>6, <1>7 DEF ControlsInv

LEMMA AutomixSetKeepsControls ==
    ASSUME ControlsInv, NEW g \in Groups, NEW mix \in Mix, AutomixSet(g, mix), UNCHANGED fan
    PROVE  ControlsInv'
  <1>1. groups \in Seq(Group) /\ OwnIds(groups)
    BY DEF ControlsInv, ControlsTypes
  <1>2. groups' = Regrouped(g, mix) /\ desk' = Republished(groups') /\ UNCHANGED channels
    BY DEF AutomixSet
  <1> DEFINE gs == Regrouped(g, mix)
  <1>3. ASSUME NEW n \in 1..Len(groups) PROVE gs[n] \in Group /\ gs[n].id = groups[n].id
    <2>1. groups[n] \in Group
      BY <1>1
    <2> QED BY <2>1 DEF Regrouped, Group
  <1>4. gs = [n \in 1..Len(groups) |-> gs[n]]
    BY DEF Regrouped
  <1> HIDE DEF gs
  <1>5. Len(groups) \in Nat
    BY <1>1
  <1>6. gs \in Seq(Group) /\ Len(gs) = Len(groups)
    BY <1>3, <1>4, <1>5
  <1>7. OwnIds(gs)
    BY <1>1, <1>3, <1>6 DEF OwnIds
  <1> QED BY <1>2, <1>6, <1>7, RegroupedKeepsControls DEF gs

LEMMA AutomixDeleteKeepsControls ==
    ASSUME ControlsInv, NEW g \in Groups, AutomixDeleteGroup(g), UNCHANGED fan
    PROVE  ControlsInv'
  <1>1. groups \in Seq(Group) /\ OwnIds(groups)
    BY DEF ControlsInv, ControlsTypes
  <1>2. desk' = Republished(groups') /\ UNCHANGED channels
    BY DEF AutomixDeleteGroup
  <1>3. PICK n \in 1..Len(groups) : groups' = SubSeq(groups, 1, n - 1) \o SubSeq(groups, n + 1, Len(groups))
    BY DEF AutomixDeleteGroup
  <1> DEFINE before == SubSeq(groups, 1, n - 1)
             after == SubSeq(groups, n + 1, Len(groups))
             gs == before \o after
             old(m) == IF m < n THEN m ELSE m + 1
  <1>4. /\ before \in Seq(Group) /\ Len(before) = n - 1 /\ after \in Seq(Group)
        /\ Len(after) = Len(groups) - n
        /\ \A m \in 1..(n - 1) : before[m] = groups[m]
        /\ \A m \in 1..(Len(groups) - n) : after[m] = groups[m + n]
    BY <1>1
  <1>5. groups' = gs
    BY <1>3
  <1>n. n \in Nat /\ n > 0 /\ Len(groups) \in Nat /\ n <= Len(groups)
    BY <1>1
  <1> HIDE DEF before, after
  <1>6. gs \in Seq(Group) /\ Len(gs) = Len(groups) - 1
    <2>0. before \in Seq(Group) /\ after \in Seq(Group)
      BY <1>4
    <2>1. gs \in Seq(Group) /\ Len(gs) = Len(before) + Len(after)
      BY <2>0
    <2> QED BY <1>4, <1>n, <2>1
  <1>7. ASSUME NEW m \in 1..Len(gs) PROVE old(m) \in 1..Len(groups) /\ gs[m] = groups[old(m)]
    <2>1. CASE m < n
      BY <1>4, <1>6, <1>n, <2>1
    <2>2. CASE ~(m < n)
      <3>1. gs[m] = after[m - (n - 1)] /\ m - (n - 1) \in 1..(Len(groups) - n)
        BY <1>4, <1>6, <1>n, <2>2
      <3>2. after[m - (n - 1)] = groups[m - (n - 1) + n] /\ m - (n - 1) + n = m + 1
        BY <1>4, <1>n, <3>1
      <3> QED BY <1>6, <1>n, <2>2, <3>1, <3>2
    <2> QED BY <2>1, <2>2
  <1> HIDE DEF gs
  <1>8. OwnIds(gs)
    <2> SUFFICES ASSUME NEW k \in 1..Len(gs), NEW m \in 1..Len(gs), gs[k].id = gs[m].id PROVE k = m
      BY DEF OwnIds
    <2>1. old(k) = old(m)
      BY <1>1, <1>7 DEF OwnIds
    <2>2. k \in Nat /\ m \in Nat
      BY <1>6, <1>n
    <2> QED BY <1>n, <2>1, <2>2
  <1> QED BY <1>2, <1>5, <1>6, <1>8, RegroupedKeepsControls


(* A group without members is heard nowhere: no engine needs to know.      *)
LEMMA EmptyGroupUnheard ==
    ASSUME NEW gs \in Seq(Group), NEW g, g.mix.members = {}, NEW hs, hs = Append(gs, g), NEW S
    PROVE  Resolved(hs, S) = Resolved(gs, S)
  <1>1. Len(gs) \in Nat /\ Len(hs) = Len(gs) + 1 /\ hs[Len(gs) + 1] = g
        /\ \A n \in 1..Len(gs) : hs[n] = gs[n]
    OBVIOUS
  <1>2. Here(hs, S, Len(gs) + 1) = {} /\ \A n \in 1..Len(gs) : Here(hs, S, n) = Here(gs, S, n)
    BY <1>1 DEF Here
  <1>3. ASSUME NEW n \in 1..Len(gs) PROVE Present(hs, S, n) = Present(gs, S, n)
    BY <1>1, <1>2 DEF Present
  <1>4. Present(hs, S, Len(hs)) = Present(gs, S, Len(gs))
    <2>1. \A m \in 1..Len(hs) : m \in 1..Len(gs) \/ m = Len(gs) + 1
      BY <1>1
    <2>2. \A m \in 1..Len(gs) : m \in 1..Len(hs)
      BY <1>1
    <2> QED BY <1>1, <1>2, <2>1, <2>2 DEF Present
  <1>5. Given(hs, S) = Given(gs, S) /\ Given(gs, S) \subseteq 1..Len(gs)
    <2>1. Present(gs, S, Len(gs)) \subseteq 1..Len(gs)
      BY DEF Present
    <2> QED BY <1>3, <1>4, <2>1 DEF Given
  <1>6. \A n \in Given(gs, S) : Here(hs, S, n) = Here(gs, S, n) /\ hs[n] = gs[n]
    BY <1>1, <1>2, <1>5
  <1> QED BY <1>5, <1>6 DEF Resolved

LEMMA AutomixCreateKeepsControls ==
    ASSUME ControlsInv, NEW g \in Groups, AutomixCreateGroup(g), UNCHANGED fan
    PROVE  ControlsInv'
  <1>1. /\ channels \in Channels /\ desk \in [Desks -> Row]
        /\ groups \in Seq(Group) /\ OwnIds(groups)
    BY DEF ControlsInv, ControlsTypes
  <1> DEFINE new == [id |-> g, mix |-> NewMix]
             gs == Append(groups, new)
  <1>2. groups' = gs /\ UNCHANGED <<channels, desk>> /\ ~KnownGroup(g)
    BY DEF AutomixCreateGroup
  <1>3. new \in Group /\ new.mix.members = {} /\ new.id = g
    BY ControlsAssumption DEF Group, Mix, NewMix
  <1> HIDE DEF new
  <1>4. /\ gs \in Seq(Group) /\ Len(groups) \in Nat /\ Len(gs) = Len(groups) + 1
        /\ gs[Len(groups) + 1] = new /\ \A n \in 1..Len(groups) : gs[n] = groups[n]
    BY <1>1, <1>3
  <1>5. OwnIds(gs)
    <2> SUFFICES ASSUME NEW k \in 1..Len(gs), NEW m \in 1..Len(gs), gs[k].id = gs[m].id PROVE k = m
      BY DEF OwnIds
    <2> HIDE DEF gs
    <2>1. (k \in 1..Len(groups) \/ k = Len(groups) + 1) /\ (m \in 1..Len(groups) \/ m = Len(groups) + 1)
      BY <1>4
    <2>2. \A n \in 1..Len(groups) : groups[n].id # g
      BY <1>2 DEF KnownGroup
    <2> QED BY <1>1, <1>3, <1>4, <2>1, <2>2 DEF OwnIds
  <1>6. \A S : Resolved(gs, S) = Resolved(groups, S)
    BY <1>1, <1>3, EmptyGroupUnheard
  <1> HIDE DEF gs
  <1>7. ASSUME NEW b \in Desks PROVE RowFits(desk[b], channels, gs, fan, b)
    <2>1. RowFits(desk[b], channels, groups, fan, b)
      BY DEF ControlsInv
    <2> QED BY <1>6, <2>1 DEF RowFits, Fits
  <1>8. ControlsTypes'
    BY <1>1, <1>2, <1>4, <1>5 DEF ControlsInv, ControlsTypes
  <1> QED BY <1>2, <1>7, <1>8 DEF ControlsInv

(* A desk without engines fits every graph.                                *)
LEMMA SilentDeskFits ==
    ASSUME channels' \in Channels, groups' \in Seq(Group), OwnIds(groups'), desk' \in [Desks -> Row],
           fan' \in Fan \union {Nothing}, \A b \in Desks : desk'[b].engine = Nothing
    PROVE  ControlsInv'
  BY DEF ControlsInv, ControlsTypes, RowFits

LEMMA ClearDeskKeepsControls == ASSUME ControlsInv, ClearDesk, UNCHANGED fan PROVE ControlsInv'
  <1>1. desk \in [Desks -> Row] /\ groups \in Seq(Group) /\ OwnIds(groups)
        /\ fan' \in Fan \union {Nothing}
    BY DEF ControlsInv, ControlsTypes
  <1>2. channels' \in Channels
    BY DEF ClearDesk, Emptied, Channels
  <1>3. ASSUME NEW b \in Desks
        PROVE  [desk[b] EXCEPT !.engine = Nothing] \in Row
               /\ [desk[b] EXCEPT !.engine = Nothing].engine = Nothing
    BY <1>1 DEF Row
  <1>4. desk' = [b \in Desks |-> [desk[b] EXCEPT !.engine = Nothing]] /\ groups' = groups
    BY DEF ClearDesk
  <1>5. desk' \in [Desks -> Row] /\ \A b \in Desks : desk'[b].engine = Nothing
    BY <1>3, <1>4
  <1> QED BY <1>1, <1>2, <1>4, <1>5, SilentDeskFits

LEMMA ApplyKitKeepsControls == ASSUME ControlsInv, NEW k \in Kits, ApplyKit(k), UNCHANGED fan PROVE ControlsInv'
  <1>1. /\ \A i \in DOMAIN k.strips : k.strips[i] \in Strip
        /\ k.buses \in [Desks -> [on : BOOLEAN, fader : Faders, dsp : Effects]]
        /\ k.groups \in Seq(Group) /\ OwnIds(k.groups)
    BY KitsAssumption
  <1> DEFINE c(i) == [NewStrip EXCEPT !.fader = k.strips[i].fader, !.dsp = k.strips[i].dsp,
                                      !.sends = k.strips[i].sends]
             r(b) == [on |-> k.buses[b].on, fader |-> k.buses[b].fader, dsp |-> k.buses[b].dsp,
                      engine |-> Nothing]
  <1>2. ASSUME NEW i \in DOMAIN k.strips PROVE c(i) \in Strip
    <2>1. k.strips[i] \in Strip /\ NewStrip \in Strip
      BY <1>1, NewStripType
    <2> QED BY <2>1 DEF Strip
  <1>3. channels' = [i \in Strips |-> IF i \in DOMAIN k.strips THEN c(i) ELSE Nothing]
    BY DEF ApplyKit
  <1>4. ASSUME NEW b \in Desks PROVE r(b) \in Row /\ r(b).engine = Nothing
    BY <1>1 DEF Row
  <1>5. desk' = [b \in Desks |-> r(b)] /\ groups' = k.groups
    BY DEF ApplyKit
  <1> HIDE DEF c, r
  <1>f. fan' \in Fan \union {Nothing}
    BY DEF ControlsInv, ControlsTypes
  <1>6. channels' \in Channels
    BY <1>2, <1>3 DEF Channels
  <1>7. desk' \in [Desks -> Row] /\ \A b \in Desks : desk'[b].engine = Nothing
    BY <1>4, <1>5
  <1> QED BY <1>1, <1>5, <1>f, <1>6, <1>7, SilentDeskFits

LEMMA ControlsKept == ASSUME ControlsInv, FanFits, ControlsStep PROVE ControlsInv'
  <1>1. CASE Command /\ UNCHANGED fan
    BY <1>1, ReplaceStripKeepsControls, SetInputGainKeepsControls, SetInputBoostKeepsControls,
       SetSendGainKeepsControls, SetMonitorKeepsControls, EnableSendKeepsControls,
       SwitchBusKeepsControls, SetBusVolumeKeepsControls, UpdateBusDspKeepsControls,
       AutomixCreateKeepsControls, AutomixSetKeepsControls, AutomixDeleteKeepsControls,
       ClearDeskKeepsControls, ApplyKitKeepsControls
    DEF Command
  <1>2. CASE Behind /\ UNCHANGED fan
    BY <1>2, AddStripKeepsControls, RemoveStripKeepsControls, WatcherRebuildsKeepsControls DEF Behind
  <1>3. CASE \E i \in Strips, x \in Effects, sends \in SUBSET Desks, monitor \in BOOLEAN :
               SetInputDsp(i, x, sends, monitor)
    BY <1>3, SetInputDspKeepsControls
  <1>4. CASE \E b \in Desks : UpdateInputDsp(b)
    BY <1>4, UpdateInputDspKeepsControls
  <1> QED BY <1>1, <1>2, <1>3, <1>4 DEF ControlsStep

(* The window sends nothing else before the effect is everywhere, and an   *)
(* input that comes or goes behind its back is heard nowhere.              *)
LEMMA FanKept == ASSUME ControlsInv, FanFits, ControlsStep PROVE FanFits'
  <1>0. channels \in Channels /\ fan \in Fan \union {Nothing}
    BY DEF ControlsInv, ControlsTypes
  <1>1. CASE fan = Nothing /\ UNCHANGED fan
    BY <1>1 DEF FanFits
  <1>2. CASE \E i \in Strips, x \in Effects, sends \in SUBSET Desks, monitor \in BOOLEAN :
               SetInputDsp(i, x, sends, monitor)
    BY <1>2, SetInputDspKeepsControls
  <1>3. ASSUME NEW b \in Desks, UpdateInputDsp(b) PROVE FanFits'
    <2>1. CASE fan.left = {b}
      BY <1>3, <2>1 DEF UpdateInputDsp, FanFits
    <2>2. CASE fan.left # {b} /\ Known(fan.input)
      <3>1. fan \in Fan /\ fan' = [fan EXCEPT !.left = @ \ {b}] /\ channels[fan.input] \in Strip
        BY <1>0, <1>3, <2>2 DEF UpdateInputDsp, Channels, Fan, Known
      <3>2. fan'.input = fan.input /\ fan'.effect = fan.effect /\ fan.input \in Strips
        BY <3>1 DEF Fan
      <3>3. channels' = [channels EXCEPT ![fan.input].dsp = fan.effect]
        BY <1>3, <2>2 DEF UpdateInputDsp
      <3>4. channels'[fan.input].dsp = fan.effect
        BY <1>0, <3>1, <3>2, <3>3 DEF Channels, Strip
      <3> QED BY <3>2, <3>4 DEF FanFits
    <2>3. CASE fan.left # {b} /\ ~Known(fan.input)
      <3>1. fan \in Fan /\ fan' = [fan EXCEPT !.left = @ \ {b}] /\ channels' = channels
        BY <1>0, <1>3, <2>3 DEF UpdateInputDsp
      <3>2. fan'.input = fan.input
        BY <3>1 DEF Fan
      <3>3. \A d \in Desks : fan.input \notin HeardOn(channels, d)
        BY <2>3 DEF Known, HeardOn
      <3>4. fan'.shown \subseteq Desks
        BY <3>1 DEF Fan
      <3> QED BY <3>1, <3>2, <3>3, <3>4 DEF FanFits
    <2> QED BY <2>1, <2>2, <2>3
  <1>4. CASE Behind /\ UNCHANGED fan
    <2> SUFFICES ASSUME fan # Nothing, NEW d \in fan.shown \ fan.left,
                        fan.input \in HeardOn(channels', d)
                 PROVE  channels'[fan.input].dsp = fan.effect
      BY <1>4 DEF FanFits
    <2>1. fan.input \in Strips /\ d \in Desks
      BY <1>0 DEF Fan
    <2>2. fan.input \in HeardOn(channels, d) /\ channels'[fan.input] = channels[fan.input]
      <3>1. ASSUME NEW i \in Strips, AddStrip(i)
            PROVE  fan.input \in HeardOn(channels, d) /\ channels'[fan.input] = channels[fan.input]
        <4>1. channels' = [channels EXCEPT ![i] = NewStrip]
          BY <3>1 DEF AddStrip
        <4>2. fan.input # i
          BY <1>0, <2>1, <4>1, NewStripType DEF Channels, HeardOn, Monitored
        <4> QED BY <1>0, <2>1, <4>1, <4>2 DEF Channels, HeardOn
      <3>2. ASSUME NEW i \in Strips, NEW ok, RemoveStrip(i, ok)
            PROVE  fan.input \in HeardOn(channels, d) /\ channels'[fan.input] = channels[fan.input]
        <4>1. channels' = [channels EXCEPT ![i] = Nothing]
          BY <3>2 DEF RemoveStrip
        <4> QED BY <1>0, <2>1, <4>1 DEF Channels, HeardOn
      <3>3. ASSUME NEW b \in Desks, NEW gone, NEW ok, WatcherRebuilds(b, gone, ok)
            PROVE  fan.input \in HeardOn(channels, d) /\ channels'[fan.input] = channels[fan.input]
        BY <3>3 DEF WatcherRebuilds
      <3> QED BY <1>4, <3>1, <3>2, <3>3 DEF Behind
    <2> QED BY <2>2 DEF FanFits
  <1> QED BY <1>1, <1>2, <1>3, <1>4 DEF ControlsStep

LEMMA DesktopKeepsControls ==
    ASSUME ControlsInv, FanFits, [Next]_vars
    PROVE  ControlsInv' /\ FanFits'
  <1>1. CASE UNCHANGED controlsVars
    BY <1>1 DEF ControlsInv, ControlsTypes, FanFits, controlsVars
  <1>2. CASE ControlsStep
    BY <1>2, ControlsKept, FanKept
  <1> QED BY <1>1, <1>2 DEF Next, Alone, ControlsNext, vars

(* The engines play what the graph says (lib.rs:1097): EngineFollowsGraph  *)
(* holds of every number of buses, inputs, groups and saved presets, and   *)
(* whatever buses the screen shows an input on when its effect is sent.    *)
THEOREM EnginesFollowTheGraph == Spec => []EngineFollowsGraph
  <1>1. Init => ControlsInv /\ FanFits
    BY InitControls DEF Init
  <1>2. ControlsInv /\ FanFits /\ [Next]_vars => (ControlsInv /\ FanFits)'
    BY DesktopKeepsControls
  <1>3. ControlsInv => EngineFollowsGraph
    BY ControlsInvFollows
  <1> QED BY <1>1, <1>2, <1>3, PTL DEF Spec

-----------------------------------------------------------------------------
(* The virtual cable's names.  A command that runs has labels to apply,    *)
(* and a clean one is the only one that runs: what it has not looked at    *)
(* yet, or noted, is all that may have another name.                       *)

Working == \A c \in Commands : /\ task[c].at # "idle" => task[c].labels \in Labels
                               /\ task[c].at = "report" => ~Restores(c)

Wants(c, e) == displayed[e] = Target(task[c].labels, e)
CleanInv ==
    \A c \in clean :
      /\ Running \subseteq {c} /\ task[c].at \notin {"idle", "failed", "differs"}
      /\ task[c].at = "plan" => \A e \in present : e \in task[c].todo \union task[c].plan \/ Wants(c, e)
      /\ task[c].at = "rename" => \A e \in present : e \in task[c].todo \/ Wants(c, e)
      /\ task[c].at \in {"rename", "report"} => task[c].plan = {}
      /\ task[c].at \in {"report", "aligned", "restored"} => \A e \in present : Wants(c, e)

NamesInv == CableNamesTypeOK /\ NamesFitTheBus /\ Working /\ CleanInv

Task == [at : {"idle", "plan", "rename", "report", "aligned", "differs", "restored", "failed"},
         labels : Labels \cup {NoRequest}, todo : SUBSET Endpoints, plan : SUBSET Endpoints]
Displayable == {Speakers} \cup UNION {{l[s] : s \in Slots} : l \in Labels}

LEMMA NamesInvFollows == NamesInv => NamesFitTheBus /\ LoneCommandAligns
  BY DEF NamesInv, CleanInv, LoneCommandAligns, Wants, Target

LEMMA InitNames == CableNamesInit => NamesInv
  <1> SUFFICES ASSUME CableNamesInit PROVE NamesInv
    OBVIOUS
  <1>1. Idle \in Task /\ Idle.at = "idle"
    BY DEF Idle, Task
  <1>2. \A c \in Commands : task[c] = Idle
    BY DEF CableNamesInit
  <1>3. CableNamesTypeOK
    BY <1>1 DEF CableNamesInit, CableNamesTypeOK, Task
  <1>4. NamesFitTheBus /\ CleanInv
    BY DEF CableNamesInit, NamesFitTheBus, CleanInv
  <1> QED BY <1>1, <1>2, <1>3, <1>4 DEF NamesInv, Working

(* A step of one command, given as the record it is left with.             *)
LEMMA OneCommand ==
    ASSUME NamesInv, NEW c \in Commands, NEW n \in Task, task' = [task EXCEPT ![c] = n]
    PROVE  /\ task' \in [Commands -> Task] /\ task'[c] = n
           /\ \A d \in Commands \ {c} : task'[d] = task[d]
  BY DEF NamesInv, CableNamesTypeOK, Task

(* ... and shows the same names: only a clean command has more to show.    *)
LEMMA CommandMoves ==
    ASSUME NamesInv, NEW c \in Commands, NEW n \in Task, task' = [task EXCEPT ![c] = n],
           UNCHANGED <<displayed, present>>, clean' \subseteq clean,
           task[c].at # "idle", n.at # "idle" => n.labels = task[c].labels,
           n.at \in {"plan", "rename", "report"} => task[c].at \in {"plan", "rename", "report"},
           n.at = "report" => ~Restores(c),
           c \in clean' =>
             /\ n.at \notin {"idle", "failed", "differs"}
             /\ n.at = "plan" => \A e \in present : e \in n.todo \union n.plan \/ Wants(c, e)
             /\ n.at = "rename" => \A e \in present : e \in n.todo \/ Wants(c, e)
             /\ n.at \in {"rename", "report"} => n.plan = {}
             /\ n.at \in {"report", "aligned", "restored"} => \A e \in present : Wants(c, e)
    PROVE  NamesInv'
  <1>t. /\ displayed \in [Endpoints -> Displayable] /\ present \subseteq Endpoints
        /\ clean \subseteq Commands /\ task \in [Commands -> Task]
    BY DEF NamesInv, CableNamesTypeOK, Task, Displayable
  <1>i. NamesFitTheBus /\ Working /\ CleanInv
    BY DEF NamesInv
  <1>1. /\ task' \in [Commands -> Task] /\ task'[c] = n
        /\ \A d \in Commands \ {c} : task'[d] = task[d]
    BY OneCommand
  <1>2. CableNamesTypeOK' /\ NamesFitTheBus'
    BY <1>t, <1>i, <1>1 DEF CableNamesTypeOK, NamesFitTheBus, Task, Displayable
  <1>3. Working'
    BY <1>i, <1>1 DEF Working, Restores
  <1>4. Running' \subseteq Running
    BY <1>t, <1>1 DEF Running
  <1>5. ASSUME NEW d \in clean'
        PROVE  /\ Running' \subseteq {d} /\ task'[d].at \notin {"idle", "failed", "differs"}
               /\ task'[d].at = "plan" =>
                    \A f \in present : f \in task'[d].todo \union task'[d].plan \/ Wants(d, f)'
               /\ task'[d].at = "rename" => \A f \in present : f \in task'[d].todo \/ Wants(d, f)'
               /\ task'[d].at \in {"rename", "report"} => task'[d].plan = {}
               /\ task'[d].at \in {"report", "aligned", "restored"} => \A f \in present : Wants(d, f)'
    <2>1. d \in clean /\ Running \subseteq {d}
      BY <1>i, <1>5 DEF CleanInv
    <2>2. CASE d = c
      <3>1. \A f : Wants(c, f)' <=> Wants(c, f)
        BY <1>1, <1>5, <2>2 DEF Wants, Target
      <3> QED BY <1>1, <1>4, <1>5, <2>1, <2>2, <3>1
    <2>3. CASE d # c
      <3>1. task'[d] = task[d]
        BY <1>t, <1>1, <2>1, <2>3
      <3>2. \A f : Wants(d, f)' <=> Wants(d, f)
        BY <3>1 DEF Wants, Target
      <3> QED BY <1>i, <1>4, <2>1, <3>1, <3>2 DEF CleanInv
    <2> QED BY <2>2, <2>3
  <1>6. CleanInv'
    BY <1>5 DEF CleanInv
  <1> QED BY <1>2, <1>3, <1>6 DEF NamesInv

(* Commands that overlap keep the names right, and a clean one its own.    *)
LEMMA NamesKept == ASSUME NamesInv, CableNamesNext PROVE NamesInv'
  <1>t. /\ displayed \in [Endpoints -> Displayable] /\ present \subseteq Endpoints
        /\ clean \subseteq Commands /\ task \in [Commands -> Task]
    BY DEF NamesInv, CableNamesTypeOK, Task, Displayable
  <1>i. NamesFitTheBus /\ Working /\ CleanInv
    BY DEF NamesInv
  <1>1. ASSUME NEW c \in Commands, NEW l \in Labels, Begin(c, l) PROVE NamesInv'
    <2> DEFINE n == [at |-> "plan", labels |-> l, todo |-> present, plan |-> {}]
    <2>1. n \in Task /\ task' = [task EXCEPT ![c] = n]
      BY <1>1, <1>t DEF Begin, Task
    <2>2. n.at = "plan" /\ n.labels = l /\ n.todo = present /\ n.plan = {}
      OBVIOUS
    <2>3. clean' = (IF Running = {} THEN {c} ELSE {}) /\ UNCHANGED <<displayed, present>>
      BY <1>1 DEF Begin
    <2> HIDE DEF n
    <2>4. /\ task' \in [Commands -> Task] /\ task'[c] = n
          /\ \A d \in Commands \ {c} : task'[d] = task[d]
      BY <2>1, OneCommand
    <2>5. CableNamesTypeOK' /\ NamesFitTheBus'
      BY <1>t, <1>i, <2>3, <2>4 DEF CableNamesTypeOK, NamesFitTheBus, Task, Displayable
    <2>6. Working'
      BY <1>i, <2>2, <2>4 DEF Working, Restores
    <2>7. CleanInv'
      BY <2>2, <2>3, <2>4 DEF CleanInv, Running
    <2> QED BY <2>5, <2>6, <2>7 DEF NamesInv
  <1>2. ASSUME NEW c \in Commands, NEW e \in Endpoints, PlanOne(c, e) PROVE NamesInv'
    <2> DEFINE noted == e \in present /\ (NeedsChange(c, e) \/ Restores(c))
               n == [task[c] EXCEPT !.todo = @ \ {e}, !.plan = IF noted THEN @ \cup {e} ELSE @]
    <2>1. task[c] \in Task /\ task[c].at \in {"plan", "report"} /\ UNCHANGED <<displayed, present, clean>>
      BY <1>2, <1>t DEF PlanOne
    <2>2. task' = [task EXCEPT ![c] = n]
      BY <1>2 DEF PlanOne
    <2>3. /\ n \in Task /\ n.at = task[c].at /\ n.labels = task[c].labels /\ n.todo = task[c].todo \ {e}
          /\ n.plan = IF noted THEN task[c].plan \cup {e} ELSE task[c].plan
      BY <1>2, <2>1 DEF Task
    <2> HIDE DEF n
    <2>4. /\ task' \in [Commands -> Task] /\ task'[c] = n
          /\ \A d \in Commands \ {c} : task'[d] = task[d]
      BY <2>2, <2>3, OneCommand
    <2>5. CableNamesTypeOK' /\ NamesFitTheBus'
      BY <1>t, <1>i, <2>1, <2>4 DEF CableNamesTypeOK, NamesFitTheBus, Task, Displayable
    <2>6. Working'
      BY <1>i, <2>3, <2>4 DEF Working, Restores
    <2>7. Running' = Running
      BY <1>t, <2>1, <2>3, <2>4 DEF Running
    <2>8. CleanInv'
      <3> SUFFICES ASSUME NEW d \in clean
                   PROVE  /\ Running \subseteq {d} /\ task'[d].at \notin {"idle", "failed", "differs"}
                          /\ task'[d].at = "plan" =>
                               \A f \in present : f \in task'[d].todo \union task'[d].plan \/ Wants(d, f)'
                          /\ task'[d].at = "rename" => \A f \in present : f \in task'[d].todo \/ Wants(d, f)'
                          /\ task'[d].at \in {"rename", "report"} => task'[d].plan = {}
                          /\ task'[d].at \in {"report", "aligned", "restored"} =>
                               \A f \in present : Wants(d, f)'
        BY <2>1, <2>7 DEF CleanInv
      <3>1. \A f : Wants(d, f)' <=> Wants(d, f)
        BY <1>t, <2>1, <2>3, <2>4 DEF Wants, Target
      <3>2. CASE d = c
        <4>1. ~noted /\ e \in present => Wants(c, e)
          BY DEF NeedsChange, Wants
        <4>2. CASE task[c].at = "plan"
          BY <1>i, <2>3, <2>4, <3>1, <3>2, <4>1, <4>2 DEF CleanInv
        <4>3. CASE task[c].at = "report"
          <5>1. ~noted
            BY <1>i, <3>2, <4>3 DEF CleanInv, Working, NeedsChange, Wants
          <5> QED BY <1>i, <2>3, <2>4, <3>1, <3>2, <4>3, <5>1 DEF CleanInv
        <4> QED BY <2>1, <4>2, <4>3
      <3>3. CASE d # c
        BY <1>i, <1>t, <2>4, <3>1, <3>3 DEF CleanInv
      <3> QED BY <3>2, <3>3
    <2> QED BY <2>5, <2>6, <2>8 DEF NamesInv
  <1>3. ASSUME NEW c \in Commands, NEW e \in Endpoints, RenameEndpoint(c, e) PROVE NamesInv'
    <2> DEFINE n == [task[c] EXCEPT !.todo = @ \ {e}]
    <2>1. /\ task[c] \in Task /\ task[c].at = "rename" /\ UNCHANGED <<present, clean>>
          /\ displayed' = [displayed EXCEPT ![e] = Target(task[c].labels, e)]
          /\ task' = [task EXCEPT ![c] = n]
      BY <1>3, <1>t DEF RenameEndpoint
    <2>3. /\ n \in Task /\ n.at = task[c].at /\ n.labels = task[c].labels
          /\ n.todo = task[c].todo \ {e} /\ n.plan = task[c].plan
      BY <2>1 DEF Task
    <2> HIDE DEF n
    <2>4. /\ task' \in [Commands -> Task] /\ task'[c] = n
          /\ \A d \in Commands \ {c} : task'[d] = task[d]
      BY <2>1, <2>3, OneCommand
    <2>5. /\ task[c].labels \in Labels /\ SlotOf[e] \in Slots
          /\ Target(task[c].labels, e) = task[c].labels[SlotOf[e]]
      BY <1>i, <2>1 DEF Working, Slots, Target
    <2>6. CableNamesTypeOK' /\ NamesFitTheBus'
      <3>1. Target(task[c].labels, e) \in Displayable
        BY <2>5 DEF Displayable
      <3>2. displayed' \in [Endpoints -> Displayable]
        BY <1>t, <2>1, <3>1
      <3>3. NamesFitTheBus'
        BY <1>t, <1>i, <2>1, <2>5 DEF NamesFitTheBus
      <3> QED BY <1>t, <2>1, <2>4, <3>2, <3>3 DEF CableNamesTypeOK, Task, Displayable
    <2>7. Working'
      BY <1>i, <2>3, <2>4 DEF Working, Restores
    <2>8. CleanInv'
      <3>1. \A d \in clean : d = c
        BY <1>i, <2>1 DEF CleanInv, Running
      <3>2. Running' = Running
        BY <1>t, <2>1, <2>3, <2>4 DEF Running
      <3>3. \A f \in Endpoints : Wants(c, f)' <=> f = e \/ Wants(c, f)
        BY <1>t, <2>1, <2>3, <2>4 DEF Wants, Target
      <3>4. c \in clean => \A f \in present : f \in n.todo \/ Wants(c, f)'
        BY <1>i, <1>t, <2>1, <2>3, <3>3 DEF CleanInv
      <3> QED BY <1>i, <2>1, <2>3, <2>4, <3>1, <3>2, <3>4 DEF CleanInv
    <2> QED BY <2>6, <2>7, <2>8 DEF NamesInv
  <1>4. ASSUME NEW c \in Commands, NEW e \in Endpoints, PassOver(c, e) PROVE NamesInv'
    <2> DEFINE n == [task[c] EXCEPT !.todo = @ \ {e}]
    <2>1. /\ task[c] \in Task /\ task[c].at = "rename" /\ UNCHANGED <<present, displayed>>
          /\ task' = [task EXCEPT ![c] = n] /\ clean' = clean \ {c}
      BY <1>4, <1>t DEF PassOver
    <2>2. n \in Task /\ n.at = "rename" /\ n.labels = task[c].labels
      BY <2>1 DEF Task
    <2> HIDE DEF n
    <2> QED BY <2>1, <2>2, CommandMoves
  <1>5. ASSUME NEW c \in Commands, Planned(c) PROVE NamesInv'
    <2> DEFINE n == [task[c] EXCEPT !.at = "rename", !.todo = task[c].plan, !.plan = {}]
    <2>1. /\ task[c] \in Task /\ task[c].at = "plan" /\ task[c].todo = {}
          /\ UNCHANGED <<present, displayed, clean>>
      BY <1>5, <1>t DEF Planned
    <2>2. task' = [task EXCEPT ![c] = n]
      BY <1>5 DEF Planned
    <2>3. n \in Task /\ n.at = "rename" /\ n.labels = task[c].labels /\ n.todo = task[c].plan
          /\ n.plan = {}
      BY <2>1 DEF Task
    <2> HIDE DEF n
    <2>4. c \in clean => \A e \in present : e \in n.todo \/ Wants(c, e)
      BY <1>i, <2>1, <2>3 DEF CleanInv
    <2> QED BY <2>1, <2>2, <2>3, <2>4, CommandMoves
  <1>6. ASSUME NEW c \in Commands, WriteFails(c) PROVE NamesInv'
    <2> DEFINE n == [Idle EXCEPT !.at = "failed", !.labels = task[c].labels]
    <2>1. /\ task[c] \in Task /\ task[c].at = "rename" /\ UNCHANGED <<present, displayed>>
          /\ task' = [task EXCEPT ![c] = n] /\ clean' = clean \ {c}
      BY <1>6, <1>t DEF WriteFails
    <2>2. n \in Task /\ n.at = "failed" /\ n.labels = task[c].labels
      BY <2>1 DEF Task, Idle
    <2> HIDE DEF n
    <2> QED BY <2>1, <2>2, CommandMoves
  <1>7. ASSUME NEW c \in Commands, Renamed(c) PROVE NamesInv'
    <2>1. /\ task[c] \in Task /\ task[c].at = "rename" /\ task[c].todo = {}
          /\ UNCHANGED <<present, displayed, clean>>
      BY <1>7, <1>t DEF Renamed
    <2>2. c \in clean => \A e \in present : Wants(c, e)
      BY <1>i, <2>1 DEF CleanInv
    <2>3. CASE Restores(c)
      <3> DEFINE n == [task[c] EXCEPT !.at = "restored"]
      <3>1. task' = [task EXCEPT ![c] = n]
        BY <1>7, <2>3 DEF Renamed
      <3>2. n \in Task /\ n.at = "restored" /\ n.labels = task[c].labels
        BY <2>1 DEF Task
      <3> HIDE DEF n
      <3> QED BY <2>1, <2>2, <3>1, <3>2, CommandMoves
    <2>4. CASE ~Restores(c)
      <3> DEFINE n == [task[c] EXCEPT !.at = "report", !.todo = present]
      <3>1. task' = [task EXCEPT ![c] = n]
        BY <1>7, <2>4 DEF Renamed
      <3>2. n \in Task /\ n.at = "report" /\ n.labels = task[c].labels /\ n.plan = task[c].plan
        BY <1>t, <2>1 DEF Task
      <3> HIDE DEF n
      <3>3. c \in clean => n.plan = {}
        BY <1>i, <2>1, <3>2 DEF CleanInv
      <3> QED BY <2>1, <2>2, <2>4, <3>1, <3>2, <3>3, CommandMoves
    <2> QED BY <2>3, <2>4
  <1>8. ASSUME NEW c \in Commands, Report(c) PROVE NamesInv'
    <2> DEFINE n == [task[c] EXCEPT !.at = IF task[c].plan = {} THEN "aligned" ELSE "differs",
                                    !.plan = {}]
    <2>1. /\ task[c] \in Task /\ task[c].at = "report" /\ UNCHANGED <<present, displayed, clean>>
      BY <1>8, <1>t DEF Report
    <2>2. task' = [task EXCEPT ![c] = n]
      BY <1>8 DEF Report
    <2>3. /\ n \in Task /\ n.at \in {"aligned", "differs"} /\ n.labels = task[c].labels
          /\ task[c].plan = {} => n.at = "aligned"
      BY <2>1 DEF Task
    <2> HIDE DEF n
    <2>4. c \in clean => task[c].plan = {} /\ \A e \in present : Wants(c, e)
      BY <1>i, <2>1 DEF CleanInv
    <2> QED BY <2>1, <2>2, <2>3, <2>4, CommandMoves
  <1>9. ASSUME NEW c \in Commands, Forget(c) PROVE NamesInv'
    <2>1. /\ task[c].at \in {"aligned", "differs", "restored", "failed"} /\ UNCHANGED <<present, displayed>>
          /\ task' = [task EXCEPT ![c] = Idle] /\ clean' = clean \ {c}
      BY <1>9 DEF Forget
    <2>2. Idle \in Task /\ Idle.at = "idle"
      BY DEF Task, Idle
    <2> QED BY <2>1, <2>2, CommandMoves
  <1>10. ASSUME NEW e \in Endpoints, Uninstall(e) PROVE NamesInv'
    <2>1. /\ present' \subseteq present /\ UNCHANGED <<displayed, task>>
          /\ clean' = IF Running = {} THEN clean ELSE {}
      BY <1>10 DEF Uninstall
    <2>2. CableNamesTypeOK' /\ NamesFitTheBus' /\ Working'
      BY <1>t, <1>i, <2>1 DEF CableNamesTypeOK, NamesFitTheBus, Working, Restores, Task, Displayable
    <2>3. CleanInv'
      BY <1>i, <2>1 DEF CleanInv, Running, Wants, Target
    <2> QED BY <2>2, <2>3 DEF NamesInv
  <1>11. ASSUME NEW e \in Endpoints, Install(e) PROVE NamesInv'
    <2>1. /\ present' = present \union {e} /\ clean' = {} /\ UNCHANGED task
          /\ displayed' = [displayed EXCEPT ![e] = Speakers]
      BY <1>11 DEF Install
    <2>2. CableNamesTypeOK' /\ NamesFitTheBus'
      <3>1. displayed' \in [Endpoints -> Displayable]
        BY <1>t, <2>1 DEF Displayable
      <3>2. NamesFitTheBus'
        BY <1>t, <1>i, <2>1 DEF NamesFitTheBus
      <3> QED BY <1>t, <2>1, <3>1, <3>2 DEF CableNamesTypeOK, Task, Displayable
    <2>3. Working' /\ CleanInv'
      BY <1>i, <2>1 DEF Working, Restores, CleanInv
    <2> QED BY <2>2, <2>3 DEF NamesInv
  <1> QED BY <1>1, <1>2, <1>3, <1>4, <1>5, <1>6, <1>7, <1>8, <1>9, <1>10, <1>11 DEF CableNamesNext


-----------------------------------------------------------------------------
(* The virtual cable's helper.  What was written is in the pipe or was     *)
(* read, until the reading thread ends: and it ends at the limit, or when  *)
(* the pipe of a helper that is gone is empty.                             *)

Drained == /\ reader.at = "reads" => reader.got + pipe = helper.wrote
           /\ reader.at = "ended" /\ reader.got <= Limit => reader.got = helper.wrote /\ ~HelperRuns
Answers == /\ helper.state = "success" => helper.left = 0
           /\ query.answer # "none" => query.at = "answered"
           /\ query.at = "joins" \/ query.answer = "status" => helper.state = "success"
           /\ query.answer = "status" => reader.at = "ended" /\ reader.got <= Limit
           /\ query.answer = "timeout" => ~HelperRuns

HelperInv == CableHelperTypeOK /\ Drained /\ Answers

LEMMA HelperInvFollows == HelperInv => StatusIsWhole
  BY DEF HelperInv, Drained, Answers, StatusIsWhole

LEMMA InitHelper == CableHelperInit => HelperInv
  BY HelperAssumption
  DEF CableHelperInit, NewQuery, HelperInv, CableHelperTypeOK, Drained, Answers, HelperRuns

LEMMA HelperKept == ASSUME HelperInv, CableHelperNext PROVE HelperInv'
  <1> DEFINE Helper == [state : {"none", "runs", "success", "failure", "killed"},
                        left : Nat, wrote : Nat]
             Reader == [got : 0..(Limit + 1), at : {"reads", "ended"}]
             Query == [at : {"idle", "polls", "joins", "answered"}, clock : 0..Timeout,
                       answer : {"none", "status", "unavailable", "timeout"}]
  <1>t. helper \in Helper /\ pipe \in 0..PipeSize /\ reader \in Reader /\ query \in Query
    BY DEF HelperInv, CableHelperTypeOK
  <1>c. /\ Limit \in Nat /\ PipeSize \in Nat /\ Timeout \in Nat /\ Limit + 1 \in Nat
        /\ Outputs \subseteq Nat
    BY HelperAssumption
  <1>i. Drained /\ Answers
    BY DEF HelperInv
  <1>f. /\ CableHelperTypeOK' <=> helper' \in Helper /\ pipe' \in 0..PipeSize /\ reader' \in Reader
                                  /\ query' \in Query
    BY DEF CableHelperTypeOK
  <1>1. ASSUME NEW a \in {"status", "unavailable", "timeout"}, Answer(a)
        PROVE  query' \in Query /\ query'.at = "answered" /\ query'.answer = a
    BY <1>1, <1>t DEF Answer
  <1>2. CASE NoHelper
    <2>1. query' \in Query /\ query'.at = "answered" /\ query'.answer = "unavailable"
      BY <1>1, <1>2 DEF NoHelper
    <2> QED BY <1>2, <1>t, <1>i, <1>f, <2>1 DEF NoHelper, HelperInv, Drained, Answers, HelperRuns
  <1>3. ASSUME NEW n \in Outputs, Launch(n) PROVE HelperInv'
    <2>1. /\ helper' \in Helper /\ helper'.state = "runs" /\ helper'.wrote = 0 /\ pipe' = 0
          /\ reader' \in Reader /\ reader'.got = 0 /\ reader'.at = "reads"
      BY <1>3, <1>c DEF Launch
    <2>2. query' \in Query /\ query'.at = "polls" /\ query'.answer = query.answer /\ query.at = "idle"
      BY <1>3, <1>t DEF Launch
    <2> QED BY <1>c, <1>f, <1>i, <2>1, <2>2 DEF HelperInv, Drained, Answers, HelperRuns
  <1>4. CASE Write
    <2>1. /\ helper' \in Helper /\ helper'.state = "runs" /\ helper'.wrote = helper.wrote + 1
          /\ helper.state = "runs"
      <3> DEFINE l == helper.left - 1
                 w == helper.wrote + 1
      <3>1. l \in Nat /\ w \in Nat
        BY <1>4, <1>t DEF Write
      <3>2. helper' = [helper EXCEPT !.left = l, !.wrote = w] /\ helper.state = "runs"
        BY <1>4 DEF Write, HelperRuns
      <3>3. w = helper.wrote + 1
        OBVIOUS
      <3> HIDE DEF l, w
      <3> QED BY <1>t, <3>1, <3>2, <3>3
    <2>2. reader.at = "reads" /\ pipe' = pipe + 1 /\ pipe' \in 0..PipeSize /\ UNCHANGED <<reader, query>>
      BY <1>4, <1>t, <1>c DEF Write
    <2>3. reader'.got + pipe' = helper'.wrote
      BY <1>i, <1>t, <1>c, <2>1, <2>2 DEF Drained
    <2> QED BY <1>t, <1>f, <1>i, <2>1, <2>2, <2>3 DEF HelperInv, Drained, Answers, HelperRuns
  <1>5. CASE Exit \/ Break
    <2>1. /\ helper' \in Helper /\ helper'.state \in {"success", "failure"}
          /\ helper'.wrote = helper.wrote /\ helper'.left = helper.left /\ helper.state = "runs"
          /\ helper'.state = "success" => helper.left = 0
      BY <1>5, <1>t DEF Exit, Break, HelperRuns
    <2>2. UNCHANGED <<pipe, reader, query>>
      BY <1>5 DEF Exit, Break
    <2> QED BY <1>t, <1>f, <1>i, <2>1, <2>2 DEF HelperInv, Drained, Answers, HelperRuns
  <1>6. CASE Drain
    <2>1. /\ reader' \in Reader /\ reader'.got = reader.got + 1 /\ reader'.at = "reads"
          /\ reader.at = "reads"
      BY <1>6, <1>t, <1>c DEF Drain, ReadLimit
    <2>2. pipe' = pipe - 1 /\ pipe' \in 0..PipeSize /\ UNCHANGED <<helper, query>>
      BY <1>6, <1>t, <1>c DEF Drain
    <2>3. reader'.got + pipe' = helper'.wrote
      BY <1>i, <1>t, <1>c, <2>1, <2>2 DEF Drained
    <2> QED BY <1>t, <1>f, <1>i, <2>1, <2>2, <2>3 DEF HelperInv, Drained, Answers, HelperRuns
  <1>7. CASE DrainEnds
    <2>1. /\ reader' \in Reader /\ reader'.got = reader.got /\ reader'.at = "ended"
          /\ reader.at = "reads" /\ pipe' = 0 /\ pipe' \in 0..PipeSize /\ UNCHANGED <<helper, query>>
      BY <1>7, <1>t, <1>c DEF DrainEnds
    <2>2. reader.got = Limit + 1 \/ (pipe = 0 /\ ~HelperRuns)
      BY <1>7 DEF DrainEnds, ReadLimit
    <2>3. reader'.got <= Limit => reader'.got = helper'.wrote /\ ~HelperRuns'
      BY <1>i, <1>t, <1>c, <2>1, <2>2 DEF Drained, HelperRuns
    <2> QED BY <1>t, <1>f, <1>i, <2>1, <2>3 DEF HelperInv, Drained, Answers, HelperRuns
  <1>8. CASE Tick
    <2>1. query' \in Query /\ query'.at = "polls" /\ query'.answer = query.answer /\ query.at = "polls"
      BY <1>8, <1>t, <1>c DEF Tick
    <2> QED BY <1>8, <1>t, <1>f, <1>i, <2>1 DEF Tick, HelperInv, Drained, Answers, HelperRuns
  <1>9. CASE SeeExit
    <2>1. query.at = "polls" /\ ~HelperRuns /\ UNCHANGED <<helper, pipe, reader>>
      BY <1>9 DEF SeeExit
    <2>2. CASE helper.state = "success"
      <3>1. query' \in Query /\ query'.at = "joins" /\ query'.answer = query.answer
        BY <1>9, <1>t, <2>2 DEF SeeExit
      <3> QED BY <1>t, <1>f, <1>i, <2>1, <2>2, <3>1 DEF HelperInv, Drained, Answers, HelperRuns
    <2>3. CASE helper.state # "success"
      <3>1. query' \in Query /\ query'.at = "answered" /\ query'.answer = "unavailable"
        BY <1>1, <1>9, <2>3 DEF SeeExit
      <3> QED BY <1>t, <1>f, <1>i, <2>1, <3>1 DEF HelperInv, Drained, Answers, HelperRuns
    <2> QED BY <2>2, <2>3
  <1>10. CASE PollFails
    <2>1. query' \in Query /\ query'.at = "answered" /\ query'.answer = "unavailable"
      BY <1>1, <1>10 DEF PollFails
    <2> QED BY <1>10, <1>t, <1>i, <1>f, <2>1 DEF PollFails, HelperInv, Drained, Answers, HelperRuns
  <1>11. CASE GiveUp
    <2>1. query' \in Query /\ query'.at = "answered" /\ query'.answer = "timeout"
      BY <1>1, <1>11 DEF GiveUp
    <2>2. /\ helper' \in Helper /\ helper'.state = "killed" /\ helper'.wrote = helper.wrote
          /\ UNCHANGED <<pipe, reader>>
      BY <1>11, <1>t DEF GiveUp
    <2> QED BY <1>t, <1>i, <1>f, <2>1, <2>2 DEF HelperInv, Drained, Answers, HelperRuns
  <1>12. CASE JoinReader
    <2>1. query.at = "joins" /\ reader.at = "ended" /\ UNCHANGED <<helper, pipe, reader>>
      BY <1>12 DEF JoinReader
    <2>2. /\ query' \in Query /\ query'.at = "answered"
          /\ query'.answer = IF reader.got <= Limit THEN "status" ELSE "unavailable"
      BY <1>1, <1>12 DEF JoinReader
    <2> QED BY <1>t, <1>i, <1>f, <2>1, <2>2 DEF HelperInv, Drained, Answers, HelperRuns
  <1> QED BY <1>2, <1>3, <1>4, <1>5, <1>6, <1>7, <1>8, <1>9, <1>10, <1>11, <1>12
      DEF CableHelperNext

CableInv == NamesInv /\ HelperInv

LEMMA DesktopKeepsCable == ASSUME CableInv, [Next]_vars PROVE CableInv'
  <1>1. NamesInv'
    <2>1. CASE UNCHANGED cableNamesVars
      BY <2>1
      DEF CableInv, NamesInv, CableNamesTypeOK, NamesFitTheBus, Working, CleanInv, Wants, Target,
          Running, Restores, cableNamesVars
    <2> QED BY <2>1, NamesKept DEF CableInv, Next, Alone, vars
  <1>2. HelperInv'
    <2>1. CASE UNCHANGED helperVars
      BY <2>1 DEF CableInv, HelperInv, CableHelperTypeOK, Drained, Answers, HelperRuns, helperVars
    <2> QED BY <2>1, HelperKept DEF CableInv, Next, Alone, vars
  <1> QED BY <1>1, <1>2 DEF CableInv

(* The virtual cable (amvc_sync.rs:229, amvc.rs:147): whatever overlaps or *)
(* breaks off, for any endpoints, labels, commands and sizes.              *)
THEOREM CableStaysSafe == Spec => []CableIsSafe
  <1>1. Init => CableInv
    BY InitNames, InitHelper DEF Init, CableInv
  <1>2. CableInv /\ [Next]_vars => CableInv'
    BY DesktopKeepsCable
  <1>3. CableInv => CableIsSafe
    BY NamesInvFollows, HelperInvFollows DEF CableInv, CableIsSafe
  <1> QED BY <1>1, <1>2, <1>3, PTL DEF Spec

-----------------------------------------------------------------------------
(* Preset files.  First the lists a preset is made of.                     *)

Taken(f, S) == {f[x] : x \in S}

LEMMA FiniteImage ==
    ASSUME NEW S, NEW T, IsFiniteSet(S), NEW f \in [S -> T]
    PROVE  Taken(f, S) \subseteq T /\ IsFiniteSet(Taken(f, S))
  <1>1. f \in Surjection(S, Taken(f, S))
    BY DEF Surjection, Taken
  <1>2. Taken(f, S) \subseteq T
    BY DEF Taken
  <1> QED BY <1>1, <1>2, FS_Surjection

LEMMA MembersOf ==
    ASSUME NEW T, NEW s \in Seq(T)
    PROVE  Members(s) \subseteq T /\ IsFiniteSet(Members(s))
  <1>1. s \in [1..Len(s) -> T] /\ Len(s) \in Nat
    OBVIOUS
  <1>2. IsFiniteSet(1..Len(s))
    BY <1>1, FS_Interval
  <1>3. Members(s) = Taken(s, 1..Len(s))
    BY DEF Members, Taken
  <1> QED BY <1>1, <1>2, <1>3, FiniteImage

LEMMA ListedSet ==
    ASSUME NEW S, IsFiniteSet(S)
    PROVE  /\ Listed(S) \in Seq(S)
           /\ Members(Listed(S)) = S
           /\ \A m, n \in 1..Len(Listed(S)) : Listed(S)[m] = Listed(S)[n] => m = n
  <1> DEFINE s == Listed(S)
             k == Cardinality(S)
  <1>1. k \in Nat /\ \E f : f \in Bijection(1..k, S)
    BY FS_CardinalityType DEF ExistsBijection
  <1>2. PICK f \in Bijection(1..k, S) : TRUE
    BY <1>1
  <1>3. f \in [1..k -> S] /\ \A x \in S : \E n \in 1..k : f[n] = x
    BY <1>2 DEF Bijection, Surjection
  <1>4. Len(f) = k /\ \A g \in [1..k -> S] : Len(g) = k /\ g \in Seq(S)
    BY <1>1, <1>3
  <1>5. Members(f) = S
    BY <1>3, <1>4 DEF Members
  <1>6. s \in [1..k -> S] /\ Members(s) = S
    BY <1>3, <1>5 DEF Listed
  <1>7. s \in Surjection(1..k, S)
    BY <1>4, <1>6 DEF Surjection, Members
  <1>8. IsFiniteSet(1..k) /\ Cardinality(1..k) = k
    BY <1>1, FS_Interval
  <1>9. s \in Injection(1..k, S)
    BY <1>7, <1>8, FS_SurjSameCardinalityImpliesInj
  <1>10. \A m, n \in 1..k : s[m] = s[n] => m = n
    BY <1>9 DEF Injection, IsInjective
  <1> HIDE DEF k
  <1> QED BY <1>4, <1>6, <1>10 DEF s

LEMMA MemberAt ==
    ASSUME NEW T, NEW s \in Seq(T)
    PROVE  /\ \A n \in 1..Len(s) : s[n] \in Members(s) /\ s[n] \in T
           /\ \A x \in Members(s) : \E n \in 1..Len(s) : s[n] = x
  BY DEF Members

LEMMA Trims ==
    ASSUME NEW x \in Text
    PROVE  Trim[x] \in Trimmed /\ Trim[x] \in Text /\ Trim[Trim[x]] = Trim[x]
  BY PresetsAssumption DEF Trimmed

(* The rows of a file. *)
RouteRow == [input : Text, output : Text, on : BOOLEAN]
BusRow == [id : Sinks, output : Text, on : BOOLEAN]
SendRow == [bus : Sinks, on : BOOLEAN]
InputRow == [device : Text, sends : Seq(SendRow)]
GroupRow == [id : Text, members : Seq(Text)]
Buses == [Sinks -> [output : Trimmed, on : BOOLEAN]]
Inputs == UNION {[I -> SUBSET Sinks] : I \in Finite(Named)}
Groupings == {gs \in Seq(Grouping) : Distinct(gs, LAMBDA g : g.id)}

LEMMA ConsoleParts ==
    /\ \A b \in Buses, i \in Inputs, g \in Groupings :
         [buses |-> b, inputs |-> i, groups |-> g] \in Console
    /\ \A c \in Console : /\ c.buses \in Buses /\ c.inputs \in Inputs /\ c.groups \in Groupings
                          /\ c = [buses |-> c.buses, inputs |-> c.inputs, groups |-> c.groups]
  <1>1. Console = [buses : Buses, inputs : Inputs, groups : Groupings]
    BY DEF Console, Buses, Inputs, Groupings
  <1> QED BY <1>1

LEMMA InputsAre ==
    ASSUME NEW i
    PROVE  i \in Inputs <=> /\ i \in [DOMAIN i -> SUBSET Sinks]
                            /\ DOMAIN i \subseteq Named /\ IsFiniteSet(DOMAIN i)
  BY DEF Inputs, Finite

LEMMA EmptyGroups == <<>> \in Groupings
  BY DEF Groupings, Distinct

LEMMA NewConsoleType == NewConsole \in Console
  <1>1. [b \in Sinks |-> Silent] \in Buses
    BY PresetsAssumption DEF Buses, Silent, Trimmed
  <1>2. DOMAIN <<>> = {} /\ <<>> \in [{} -> SUBSET Sinks]
    OBVIOUS
  <1>3. <<>> \in Inputs
    BY <1>2, InputsAre, FS_EmptySet
  <1> QED BY <1>1, <1>3, EmptyGroups, ConsoleParts DEF NewConsole

LEMMA MigratedType ==
    ASSUME NEW rs \in Seq(RouteRow), RoutesOk(rs)
    PROVE  Migrated(rs) \in Console
  <1>1. ASSUME NEW r \in Members(rs)
        PROVE  r \in RouteRow /\ Trim[r.input] \in Named /\ Trim[r.output] \in Trimmed
    <2>1. r \in RouteRow
      BY MembersOf
    <2>2. Trim[r.input] # ""
      BY DEF RoutesOk
    <2> QED BY <2>1, <2>2, Trims DEF RouteRow, Named
  <1>2. rs # <<>> => rs[1] \in Members(rs)
    BY MemberAt
  <1> DEFINE bus == [output |-> Trim[rs[1].output], on |-> \E r \in Members(rs) : r.on]
             buses == [b \in Sinks |-> IF b = "A1" /\ rs # <<>> THEN bus ELSE Silent]
             ids == {Trim[r.input] : r \in Members(rs)}
             inputs == [i \in ids |-> IF Heard(rs, i) THEN {"A1"} ELSE {}]
  <1>3. rs # <<>> => bus \in [output : Trimmed, on : BOOLEAN]
    BY <1>1, <1>2
  <1>4. Silent \in [output : Trimmed, on : BOOLEAN]
    BY PresetsAssumption DEF Silent, Trimmed
  <1>5. buses \in Buses
    <2> HIDE DEF bus
    <2> QED BY <1>3, <1>4 DEF Buses
  <1>6. IsFiniteSet(ids) /\ ids \subseteq Named
    <2> DEFINE f == [r \in Members(rs) |-> Trim[r.input]]
    <2>1. f \in [Members(rs) -> Named] /\ ids = Taken(f, Members(rs))
      BY <1>1 DEF Taken
    <2>2. IsFiniteSet(Members(rs))
      BY MembersOf
    <2> HIDE DEF f, ids
    <2> QED BY <2>1, <2>2, FiniteImage
  <1>7. inputs \in Inputs
    <2> HIDE DEF ids
    <2>1. inputs \in [ids -> SUBSET Sinks] /\ DOMAIN inputs = ids
      BY PresetsAssumption
    <2> HIDE DEF inputs
    <2> QED BY <1>6, <2>1, InputsAre
  <1>8. Migrated(rs) = [buses |-> buses, inputs |-> inputs, groups |-> <<>>]
    BY DEF Migrated
  <1> HIDE DEF buses, inputs
  <1> QED BY <1>5, <1>7, <1>8, EmptyGroups, ConsoleParts

LEMMA NormalBusesType == ASSUME NEW bs \in Seq(BusRow) PROVE NormalBuses(bs) \in Buses
  <1>1. ASSUME NEW b \in Sinks
        PROVE  NormalBuses(bs)[b] \in [output : Trimmed, on : BOOLEAN]
    <2>1. CASE \E r \in Members(bs) : r.id = b
      <3> DEFINE r == The(bs, LAMBDA x : x.id = b)
      <3>1. r \in Members(bs)
        BY <2>1 DEF The
      <3>2. r \in BusRow
        BY <3>1, MembersOf
      <3>3. NormalBuses(bs)[b] = [output |-> Trim[r.output], on |-> r.on]
        BY <2>1 DEF NormalBuses
      <3> HIDE DEF r
      <3> QED BY <3>2, <3>3, Trims DEF BusRow
    <2>2. CASE ~\E r \in Members(bs) : r.id = b
      BY <2>2, PresetsAssumption DEF NormalBuses, Silent, Trimmed
    <2> QED BY <2>1, <2>2
  <1> QED BY <1>1 DEF NormalBuses, Buses

LEMMA NormalInputsType ==
    ASSUME NEW is \in Seq(InputRow), InputsOk(is)
    PROVE  /\ NormalInputs(is) \in Inputs
           /\ \A r \in Members(is) :
                /\ r \in InputRow /\ Trim[r.device] \in DOMAIN NormalInputs(is)
                /\ NormalInputs(is)[Trim[r.device]] =
                     {b \in Sinks : \E s \in Members(r.sends) : s.bus = b /\ s.on}
  <1> DEFINE ids == {Trim[r.device] : r \in Members(is)}
             row(i) == The(is, LAMBDA r : Trim[r.device] = i)
  <1>1. ASSUME NEW r \in Members(is)
        PROVE  /\ r \in InputRow /\ Trim[r.device] \in Named
               /\ row(Trim[r.device]) = r
    <2>1. PICK n \in 1..Len(is) : is[n] = r
      BY DEF Members
    <2>2. r \in InputRow /\ Trim[r.device] \in Named
      <3>1. r \in InputRow
        BY <2>1
      <3>2. Trim[r.device] # ""
        BY <2>1 DEF InputsOk
      <3> QED BY <3>1, <3>2, Trims DEF InputRow, Named
    <2>3. \A m \in 1..Len(is) : Trim[is[m].device] = Trim[r.device] => is[m] = r
      BY <2>1 DEF InputsOk, Distinct
    <2>4. \A x \in Members(is) : Trim[x.device] = Trim[r.device] => x = r
      BY <2>3 DEF Members
    <2>5. row(Trim[r.device]) = r
      BY <2>4 DEF The
    <2> QED BY <2>2, <2>5
  <1>2. IsFiniteSet(ids) /\ ids \subseteq Named
    <2> DEFINE f == [r \in Members(is) |-> Trim[r.device]]
    <2>1. f \in [Members(is) -> Named] /\ ids = Taken(f, Members(is))
      BY <1>1 DEF Taken
    <2>2. IsFiniteSet(Members(is))
      BY MembersOf
    <2> HIDE DEF f, ids
    <2> QED BY <2>1, <2>2, FiniteImage
  <1>3. ASSUME NEW i \in ids PROVE row(i) \in InputRow
    <2>1. PICK r \in Members(is) : i = Trim[r.device]
      OBVIOUS
    <2> HIDE DEF row
    <2> QED BY <1>1, <2>1
  <1>4. NormalInputs(is) =
          [i \in ids |-> {s.bus : s \in {s \in Members(row(i).sends) : s.on}}]
    BY DEF NormalInputs
  <1> HIDE DEF ids, row
  <1>5. ASSUME NEW i \in ids
        PROVE  NormalInputs(is)[i] = {b \in Sinks : \E s \in Members(row(i).sends) : s.bus = b /\ s.on}
    <2>1. row(i).sends \in Seq(SendRow)
      BY <1>3 DEF InputRow
    <2>2. Members(row(i).sends) \subseteq SendRow
      BY <2>1, MembersOf
    <2>3. \A s \in Members(row(i).sends) : s.bus \in Sinks
      BY <2>2 DEF SendRow
    <2> QED BY <1>4, <2>3
  <1>6. NormalInputs(is) \in Inputs
    <2>1. NormalInputs(is) \in [ids -> SUBSET Sinks] /\ DOMAIN NormalInputs(is) = ids
      BY <1>4, <1>5
    <2> QED BY <1>2, <2>1, InputsAre
  <1>7. \A r \in Members(is) : Trim[r.device] \in ids
    BY DEF ids
  <1>8. DOMAIN NormalInputs(is) = ids
    BY <1>4
  <1> QED BY <1>1, <1>5, <1>6, <1>7, <1>8

LEMMA NormalGroupsType ==
    ASSUME NEW gs \in Seq(GroupRow), GroupsOk(gs)
    PROVE  NormalGroups(gs) \in Groupings
  <1> DEFINE row(n) == [id |-> Trim[gs[n].id], members |-> Members(gs[n].members)]
  <1>1. NormalGroups(gs) = [n \in 1..Len(gs) |-> row(n)]
    BY DEF NormalGroups
  <1>2. ASSUME NEW n \in 1..Len(gs) PROVE row(n) \in Grouping
    <2>1. gs[n].id \in Text /\ gs[n].members \in Seq(Text)
      <3>1. gs[n] \in GroupRow
        OBVIOUS
      <3> QED BY <3>1 DEF GroupRow
    <2>2. Members(gs[n].members) \in Finite(Text)
      BY <2>1, MembersOf DEF Finite
    <2>3. Trim[gs[n].id] \in Named
      BY <2>1, Trims DEF GroupsOk, Named
    <2> QED BY <2>2, <2>3 DEF Grouping
  <1>3. \A m, n \in 1..Len(gs) : row(m).id = row(n).id => m = n
    BY DEF GroupsOk, Distinct
  <1> HIDE DEF row
  <1>4. NormalGroups(gs) \in Seq(Grouping) /\ Len(NormalGroups(gs)) = Len(gs)
    BY <1>1, <1>2
  <1> QED BY <1>1, <1>3, <1>4 DEF Groupings, Distinct

(* What is saved, and that it reads back. *)
BusRows(b0) == {[id |-> b, output |-> b0[b].output, on |-> b0[b].on] : b \in Sinks}
SendRows(to) == {[bus |-> b, on |-> b \in to] : b \in Sinks}
InputRows(i0) == {[device |-> i, sends |-> Sends(i0[i])] : i \in DOMAIN i0}
GroupRows(g0) == [n \in 1..Len(g0) |-> [id |-> g0[n].id, members |-> Listed(g0[n].members)]]

LEMMA BusesBack ==
    ASSUME NEW b0 \in Buses
    PROVE  LET bs == Listed(BusRows(b0))
           IN  bs \in Seq(BusRow) /\ BusesOk(bs) /\ NormalBuses(bs) = b0
  <1> DEFINE R == BusRows(b0)
             row(b) == [id |-> b, output |-> b0[b].output, on |-> b0[b].on]
             bs == Listed(R)
  <1>1. \A b \in Sinks : row(b) \in BusRow /\ row(b).id = b
                         /\ row(b).output = b0[b].output /\ row(b).on = b0[b].on
                         /\ b0[b] = [output |-> row(b).output, on |-> row(b).on]
                         /\ Trim[row(b).output] = row(b).output
    BY PresetsAssumption DEF Buses, BusRow
  <1>2. R = {row(b) : b \in Sinks}
    BY DEF BusRows
  <1> HIDE DEF row, R
  <1>3. R \subseteq BusRow /\ \A r \in R : r = row(r.id)
    BY <1>1, <1>2
  <1>4. IsFiniteSet(R)
    <2> DEFINE f == [b \in Sinks |-> row(b)]
    <2>1. f \in [Sinks -> BusRow] /\ R = Taken(f, Sinks)
      BY <1>1, <1>2 DEF Taken
    <2> HIDE DEF f
    <2> QED BY <2>1, FiniteImage, PresetsAssumption
  <1>5. /\ bs \in Seq(R) /\ Members(bs) = R
        /\ \A m, n \in 1..Len(bs) : bs[m] = bs[n] => m = n
    BY <1>4, ListedSet
  <1>6. bs \in Seq(BusRow)
    BY <1>3, <1>5
  <1>7. BusesOk(bs)
    <2>1. \A n \in 1..Len(bs) : bs[n] = row(bs[n].id)
      BY <1>3, <1>5
    <2>2. \A m, n \in 1..Len(bs) : bs[m].id = bs[n].id => bs[m] = bs[n]
      BY <2>1
    <2> QED BY <1>5, <2>2 DEF BusesOk, Distinct
  <1>8. ASSUME NEW b \in Sinks PROVE NormalBuses(bs)[b] = b0[b]
    <2>1. row(b) \in Members(bs) /\ row(b).id = b
      BY <1>1, <1>2, <1>5
    <2>2. The(bs, LAMBDA x : x.id = b) = row(b)
      BY <1>3, <1>5, <2>1 DEF The
    <2>3. NormalBuses(bs)[b] = [output |-> Trim[row(b).output], on |-> row(b).on]
      BY <2>1, <2>2 DEF NormalBuses
    <2> QED BY <1>1, <2>3
  <1>9. NormalBuses(bs) = [b \in Sinks |-> NormalBuses(bs)[b]]
    BY DEF NormalBuses
  <1>10. NormalBuses(bs) = b0
    BY <1>8, <1>9 DEF Buses
  <1> QED BY <1>6, <1>7, <1>10 DEF R

LEMMA SendsBack ==
    ASSUME NEW to \in SUBSET Sinks
    PROVE  /\ Sends(to) \in Seq(SendRow)
           /\ Distinct(Sends(to), LAMBDA s : s.bus)
           /\ {b \in Sinks : \E s \in Members(Sends(to)) : s.bus = b /\ s.on} = to
  <1> DEFINE R == SendRows(to)
             row(b) == [bus |-> b, on |-> b \in to]
             ss == Sends(to)
  <1>1. ASSUME NEW b \in Sinks
        PROVE  row(b) \in SendRow /\ row(b).bus = b /\ (row(b).on <=> b \in to)
    <2> DEFINE x == b \in to
    <2>1. x \in BOOLEAN
      OBVIOUS
    <2>2. row(b) = [bus |-> b, on |-> x]
      OBVIOUS
    <2> HIDE DEF x, row
    <2>3. row(b) \in SendRow /\ row(b).bus = b /\ row(b).on = x
      BY <2>1, <2>2 DEF SendRow
    <2> QED BY <2>3 DEF x
  <1>2. R = {row(b) : b \in Sinks} /\ ss = Listed(R)
    BY DEF SendRows, Sends
  <1> HIDE DEF row, R, ss
  <1>3. R \subseteq SendRow /\ \A r \in R : r = row(r.bus)
    BY <1>1, <1>2
  <1>4. IsFiniteSet(R)
    <2> DEFINE f == [b \in Sinks |-> row(b)]
    <2>1. f \in [Sinks -> SendRow] /\ R = Taken(f, Sinks)
      BY <1>1, <1>2 DEF Taken
    <2> HIDE DEF f
    <2> QED BY <2>1, FiniteImage, PresetsAssumption
  <1>5. /\ ss \in Seq(R) /\ Members(ss) = R
        /\ \A m, n \in 1..Len(ss) : ss[m] = ss[n] => m = n
    BY <1>2, <1>4, ListedSet
  <1>6. ss \in Seq(SendRow)
    BY <1>3, <1>5
  <1>7. Distinct(ss, LAMBDA s : s.bus)
    <2>1. \A n \in 1..Len(ss) : ss[n] = row(ss[n].bus)
      BY <1>3, <1>5
    <2>2. \A m, n \in 1..Len(ss) : ss[m].bus = ss[n].bus => ss[m] = ss[n]
      BY <2>1
    <2> QED BY <1>5, <2>2 DEF Distinct
  <1>8. \A b \in Sinks : (\E s \in R : s.bus = b /\ s.on) <=> b \in to
    BY <1>1, <1>2, <1>3
  <1> QED BY <1>5, <1>6, <1>7, <1>8 DEF ss

LEMMA InputsBack ==
    ASSUME NEW i0 \in Inputs
    PROVE  LET is == Listed(InputRows(i0))
           IN  is \in Seq(InputRow) /\ InputsOk(is) /\ NormalInputs(is) = i0
  <1> DEFINE R == InputRows(i0)
             row(i) == [device |-> i, sends |-> Sends(i0[i])]
             is == Listed(R)
  <1>1. i0 \in [DOMAIN i0 -> SUBSET Sinks] /\ DOMAIN i0 \subseteq Named /\ IsFiniteSet(DOMAIN i0)
    BY InputsAre
  <1>2. ASSUME NEW i \in DOMAIN i0
        PROVE  row(i) \in InputRow /\ row(i).device = i /\ Trim[row(i).device] = i /\ i # ""
               /\ row(i).sends = Sends(i0[i])
    <2>1. i \in Trimmed /\ i # "" /\ i \in Text
      BY <1>1, PresetsAssumption DEF Named
    <2>2. Sends(i0[i]) \in Seq(SendRow)
      BY <1>1, SendsBack
    <2> QED BY <2>1, <2>2, PresetsAssumption DEF InputRow
  <1>3. R = {row(i) : i \in DOMAIN i0}
    BY DEF InputRows
  <1> HIDE DEF row, R
  <1>4. R \subseteq InputRow /\ \A r \in R : r.device \in DOMAIN i0 /\ r = row(r.device)
    BY <1>2, <1>3
  <1>5. IsFiniteSet(R)
    <2> DEFINE f == [i \in DOMAIN i0 |-> row(i)]
    <2>1. f \in [DOMAIN i0 -> InputRow] /\ R = Taken(f, DOMAIN i0)
      BY <1>2, <1>3 DEF Taken
    <2> HIDE DEF f
    <2> QED BY <1>1, <2>1, FiniteImage
  <1>6. /\ is \in Seq(R) /\ Members(is) = R
        /\ \A m, n \in 1..Len(is) : is[m] = is[n] => m = n
    BY <1>5, ListedSet
  <1>7. is \in Seq(InputRow)
    BY <1>4, <1>6
  <1>8. ASSUME NEW n \in 1..Len(is)
        PROVE  /\ is[n].device \in DOMAIN i0 /\ is[n] = row(is[n].device)
               /\ Trim[is[n].device] = is[n].device /\ is[n].device # ""
               /\ is[n].sends = Sends(i0[is[n].device])
    <2> DEFINE i == is[n].device
    <2>1. is[n] \in R
      BY <1>6
    <2>2. i \in DOMAIN i0 /\ is[n] = row(i)
      BY <1>4, <2>1
    <2> HIDE DEF i
    <2>3. Trim[row(i).device] = i /\ row(i).device = i /\ i # "" /\ row(i).sends = Sends(i0[i])
      BY <1>2, <2>2
    <2> QED BY <2>2, <2>3 DEF i
  <1>9. InputsOk(is)
    <2>1. Distinct(is, LAMBDA r : Trim[r.device])
      <3>1. ASSUME NEW m \in 1..Len(is), NEW n \in 1..Len(is),
                   Trim[is[m].device] = Trim[is[n].device]
            PROVE  is[m] = is[n]
        <4>1. is[m].device = is[n].device
          BY <1>8, <3>1
        <4> QED BY <1>8, <4>1
      <3> QED BY <1>6, <3>1 DEF Distinct
    <2>2. ASSUME NEW n \in 1..Len(is)
          PROVE  Trim[is[n].device] # "" /\ Distinct(is[n].sends, LAMBDA s : s.bus)
      <3>1. i0[is[n].device] \in SUBSET Sinks
        BY <1>1, <1>8
      <3>2. Distinct(Sends(i0[is[n].device]), LAMBDA s : s.bus)
        BY <3>1, SendsBack
      <3> QED BY <1>8, <3>2
    <2> QED BY <2>1, <2>2 DEF InputsOk
  <1>10. DOMAIN NormalInputs(is) = DOMAIN i0
    <2>1. DOMAIN NormalInputs(is) = {Trim[r.device] : r \in R}
      BY <1>6 DEF NormalInputs
    <2>2. \A r \in R : Trim[r.device] = r.device /\ r.device \in DOMAIN i0
      BY <1>2, <1>4
    <2>3. \A i \in DOMAIN i0 : row(i) \in R /\ Trim[row(i).device] = i
      BY <1>2, <1>3
    <2> QED BY <2>1, <2>2, <2>3
  <1>11. ASSUME NEW i \in DOMAIN i0 PROVE NormalInputs(is)[i] = i0[i]
    <2>1. row(i) \in Members(is) /\ Trim[row(i).device] = i /\ row(i).sends = Sends(i0[i])
      BY <1>2, <1>3, <1>6
    <2>2. NormalInputs(is)[i] = {b \in Sinks : \E s \in Members(Sends(i0[i])) : s.bus = b /\ s.on}
      BY <1>7, <1>9, <2>1, NormalInputsType
    <2> QED BY <1>1, <2>2, SendsBack
  <1>12. NormalInputs(is) \in Inputs
    BY <1>7, <1>9, NormalInputsType
  <1>13. NormalInputs(is) = i0
    <2>1. NormalInputs(is) \in [DOMAIN i0 -> SUBSET Sinks]
      BY <1>10, <1>12, InputsAre
    <2> QED BY <1>1, <1>11, <2>1
  <1> QED BY <1>7, <1>9, <1>13 DEF R

LEMMA GroupsBack ==
    ASSUME NEW g0 \in Groupings
    PROVE  /\ GroupRows(g0) \in Seq(GroupRow) /\ GroupsOk(GroupRows(g0))
           /\ NormalGroups(GroupRows(g0)) = g0
  <1> DEFINE gs == GroupRows(g0)
             row(n) == [id |-> g0[n].id, members |-> Listed(g0[n].members)]
  <1>1. g0 \in Seq(Grouping) /\ \A m, n \in 1..Len(g0) : g0[m].id = g0[n].id => m = n
    BY DEF Groupings, Distinct
  <1>2. ASSUME NEW n \in 1..Len(g0)
        PROVE  /\ row(n) \in GroupRow /\ row(n).id = g0[n].id /\ Trim[row(n).id] = g0[n].id
               /\ Members(row(n).members) = g0[n].members /\ g0[n].id # ""
               /\ g0[n] = [id |-> g0[n].id, members |-> g0[n].members]
    <2>1. g0[n] \in Grouping
      BY <1>1
    <2>2. g0[n].id \in Trimmed /\ g0[n].id \in Text /\ g0[n].id # ""
      BY <2>1, PresetsAssumption DEF Grouping, Named
    <2>3. g0[n].members \subseteq Text /\ IsFiniteSet(g0[n].members)
      BY <2>1 DEF Grouping, Finite
    <2>4. Listed(g0[n].members) \in Seq(Text) /\ Members(Listed(g0[n].members)) = g0[n].members
      BY <2>3, ListedSet
    <2> QED BY <2>1, <2>2, <2>4, PresetsAssumption DEF GroupRow, Grouping
  <1>3. gs = [n \in 1..Len(g0) |-> row(n)]
    BY DEF GroupRows
  <1> HIDE DEF row, gs
  <1>4. gs \in Seq(GroupRow) /\ Len(gs) = Len(g0) /\ \A n \in 1..Len(g0) : gs[n] = row(n)
    <2>1. Len(g0) \in Nat
      BY <1>1
    <2>2. gs \in [1..Len(g0) -> GroupRow]
      BY <1>2, <1>3
    <2> QED BY <1>3, <2>1, <2>2
  <1>5. GroupsOk(gs)
    <2>1. \A n \in 1..Len(gs) : Trim[gs[n].id] = g0[n].id /\ g0[n].id # ""
      BY <1>2, <1>4
    <2>2. ASSUME NEW m \in 1..Len(gs), NEW n \in 1..Len(gs), Trim[gs[m].id] = Trim[gs[n].id]
          PROVE  m = n
      <3>1. g0[m].id = g0[n].id
        BY <2>1, <2>2
      <3> QED BY <1>1, <1>4, <3>1
    <2>3. \A n \in 1..Len(gs) : Trim[gs[n].id] # ""
      BY <2>1
    <2> QED BY <2>2, <2>3 DEF GroupsOk, Distinct
  <1>6. NormalGroups(gs) = [n \in 1..Len(g0) |-> g0[n]]
    BY <1>2, <1>4 DEF NormalGroups
  <1>7. NormalGroups(gs) = g0
    BY <1>1, <1>6
  <1> QED BY <1>4, <1>5, <1>7 DEF gs

LEMMA FileTypes ==
    /\ \A f \in FileV1 \union FileV2 : f # NoFile /\ f # Torn
    /\ \A f \in FileV2 : f.schema = 2
    /\ \A f \in Shipped : (f.schema = 1 => f \in FileV1) /\ (f.schema = 2 => f \in FileV2)
  <1>1. \A f \in FileV1 \union FileV2 : f # NoFile /\ f # Torn
    <2>1. {NoFile, Torn} \intersect (FileV1 \union FileV2) = {}
      BY PresetsAssumption
    <2> HIDE DEF FileV1, FileV2
    <2> QED BY <2>1
  <1>2. \A f \in FileV2 : f.schema = 2
    BY DEF FileV2
  <1>3. \A f \in Shipped : (f.schema = 1 => f \in FileV1) /\ (f.schema = 2 => f \in FileV2)
    BY PresetsAssumption
  <1> QED BY <1>1, <1>2, <1>3

LEMMA RoundTrip ==
    ASSUME NEW c \in Console
    PROVE  Built(c) \in FileV2 /\ Parsed(Built(c)) = c
  <1> DEFINE bs == Listed(BusRows(c.buses))
             is == Listed(InputRows(c.inputs))
             gs == GroupRows(c.groups)
  <1>1. /\ c.buses \in Buses /\ c.inputs \in Inputs /\ c.groups \in Groupings
        /\ c = [buses |-> c.buses, inputs |-> c.inputs, groups |-> c.groups]
    BY ConsoleParts
  <1>2. Built(c) = [schema |-> 2, buses |-> bs, inputs |-> is, groups |-> gs]
    BY DEF Built, BusRows, InputRows, GroupRows
  <1>3. /\ bs \in Seq(BusRow) /\ BusesOk(bs) /\ NormalBuses(bs) = c.buses
        /\ is \in Seq(InputRow) /\ InputsOk(is) /\ NormalInputs(is) = c.inputs
        /\ gs \in Seq(GroupRow) /\ GroupsOk(gs) /\ NormalGroups(gs) = c.groups
    BY <1>1, BusesBack, InputsBack, GroupsBack
  <1> HIDE DEF bs, is, gs
  <1>4. Built(c) \in FileV2
    BY <1>2, <1>3 DEF FileV2, BusRow, InputRow, SendRow, GroupRow
  <1>5. Built(c) \notin {NoFile, Torn} /\ Built(c).schema = 2
    BY <1>2, <1>4, FileTypes
  <1>6. Parsed(Built(c)) = [buses |-> NormalBuses(bs), inputs |-> NormalInputs(is),
                            groups |-> NormalGroups(gs)]
    BY <1>2, <1>3, <1>5 DEF Parsed
  <1> QED BY <1>1, <1>3, <1>4, <1>6

(* A file that is loaded is of one of the two versions. *)
Loadable1(f) == /\ f.schema = 1 /\ f.routes \in Seq(RouteRow) /\ RoutesOk(f.routes)
                /\ Parsed(f) = Migrated(f.routes)
Loadable2(f) == /\ f.schema = 2 /\ f.buses \in Seq(BusRow) /\ f.inputs \in Seq(InputRow)
                /\ f.groups \in Seq(GroupRow) /\ BusesOk(f.buses) /\ InputsOk(f.inputs)
                /\ GroupsOk(f.groups)
                /\ Parsed(f) = [buses |-> NormalBuses(f.buses), inputs |-> NormalInputs(f.inputs),
                                groups |-> NormalGroups(f.groups)]

LEMMA ParsedCases ==
    ASSUME NEW f \in {NoFile, Torn} \union Shipped \union FileV2, Parsed(f) # Rejected
    PROVE  f # NoFile /\ (Loadable1(f) \/ Loadable2(f))
  <1>1. f \notin {NoFile, Torn}
    BY DEF Parsed
  <1>2. CASE f.schema = 1
    <2>1. f \in FileV1
      BY <1>1, <1>2, FileTypes
    <2>2. f.routes \in Seq(RouteRow)
      BY <2>1 DEF FileV1, RouteRow
    <2>3. RoutesOk(f.routes) /\ Parsed(f) = Migrated(f.routes)
      BY <1>1, <1>2 DEF Parsed
    <2> QED BY <1>1, <1>2, <2>2, <2>3 DEF Loadable1
  <1>3. CASE f.schema = 2
    <2>1. f \in FileV2
      BY <1>1, <1>3, FileTypes
    <2>2. f.buses \in Seq(BusRow) /\ f.inputs \in Seq(InputRow) /\ f.groups \in Seq(GroupRow)
      BY <2>1 DEF FileV2, BusRow, InputRow, SendRow, GroupRow
    <2>3. /\ BusesOk(f.buses) /\ InputsOk(f.inputs) /\ GroupsOk(f.groups)
          /\ Parsed(f) = [buses |-> NormalBuses(f.buses), inputs |-> NormalInputs(f.inputs),
                          groups |-> NormalGroups(f.groups)]
      BY <1>1, <1>3 DEF Parsed
    <2> QED BY <1>1, <1>3, <2>2, <2>3 DEF Loadable2
  <1>4. CASE f.schema \notin {1, 2}
    BY <1>1, <1>4 DEF Parsed
  <1> QED BY <1>2, <1>3, <1>4

LEMMA ParsedType ==
    ASSUME NEW f \in {NoFile, Torn} \union Shipped \union FileV2, Parsed(f) # Rejected
    PROVE  Parsed(f) \in Console
  <1>1. CASE Loadable1(f)
    BY <1>1, MigratedType DEF Loadable1
  <1>2. CASE Loadable2(f)
    BY <1>2, NormalBusesType, NormalInputsType, NormalGroupsType, ConsoleParts DEF Loadable2
  <1> QED BY <1>1, <1>2, ParsedCases

LEMMA HeldConsoles == Held \subseteq Console
  BY NewConsoleType, ParsedType, PresetsAssumption DEF Held

LEMMA FilesAre == Files \subseteq {NoFile, Torn} \union Shipped \union FileV2
  BY HeldConsoles, RoundTrip DEF Files

LEMMA LoadedIsHeld ==
    ASSUME NEW f \in Files, Parsed(f) # Rejected PROVE Parsed(f) \in Held
  <1>1. CASE f \in Shipped
    BY <1>1 DEF Held
  <1>2. CASE f \in {Built(c) : c \in Held}
    BY <1>2, HeldConsoles, RoundTrip
  <1>3. CASE f \in {NoFile, Torn}
    BY <1>3 DEF Parsed
  <1> QED BY <1>1, <1>2, <1>3 DEF Files

(* What is heard after loading is what the file says. *)
HeardIn(c) == {p \in (DOMAIN c.inputs) \X Sinks : p[2] \in c.inputs[p[1]]}

LEMMA HeardOfRoutes ==
    ASSUME NEW f, Loadable1(f)
    PROVE  /\ HeardIn(Parsed(f)) = Wanted1(f) \X {"A1"}
           /\ DOMAIN Parsed(f).inputs = InputsOf(f)
           /\ BusesKept1(f, Parsed(f)) /\ Parsed(f).groups = <<>>
  <1> DEFINE rs == f.routes
             ids == {Trim[r.input] : r \in Members(rs)}
             inputs == [i \in ids |-> IF Heard(rs, i) THEN {"A1"} ELSE {}]
             anyOn == \E r \in Members(rs) : r.on
             buses == [b \in Sinks |-> IF b = "A1" /\ rs # <<>>
                                       THEN [output |-> Trim[rs[1].output], on |-> anyOn]
                                       ELSE Silent]
  <1>0. Parsed(f) = [buses |-> buses, inputs |-> inputs, groups |-> <<>>]
    BY DEF Loadable1, Migrated
  <1>1. /\ Parsed(f).inputs = inputs
        /\ Parsed(f).buses["A1"] = IF rs # <<>> THEN [output |-> Trim[rs[1].output], on |-> anyOn]
                                   ELSE Silent
        /\ \A b \in Sinks \ {"A1"} : Parsed(f).buses[b] = Silent
        /\ Parsed(f).groups = <<>>
    <2>0. \A b \in Sinks \ {"A1"} : buses[b] = Silent
      OBVIOUS
    <2>1. buses["A1"] = IF rs # <<>> THEN [output |-> Trim[rs[1].output], on |-> anyOn] ELSE Silent
      BY PresetsAssumption
    <2> HIDE DEF buses, inputs, anyOn
    <2> QED BY <1>0, <2>0, <2>1
  <1>2. \A i : i \in Wanted1(f) <=> i \in ids /\ Heard(rs, i)
    BY DEF Wanted1, Heard
  <1>3. HeardIn(Parsed(f)) = Wanted1(f) \X {"A1"}
    <2> HIDE DEF ids
    <2>1. DOMAIN inputs = ids /\ \A i \in ids : inputs[i] = IF Heard(rs, i) THEN {"A1"} ELSE {}
      OBVIOUS
    <2> HIDE DEF inputs
    <2>2. \A p \in ids \X Sinks : p[2] \in inputs[p[1]] <=> p[1] \in Wanted1(f) /\ p[2] = "A1"
      BY <1>2, <2>1
    <2>3. Wanted1(f) \X {"A1"} \subseteq ids \X Sinks
      BY <1>2, PresetsAssumption
    <2> QED BY <1>1, <2>1, <2>2, <2>3 DEF HeardIn
  <1>4. anyOn <=> Wanted1(f) # {}
    BY DEF Wanted1
  <1>5. rs = <<>> => ~anyOn
    BY DEF Members
  <1>6. anyOn \in BOOLEAN
    OBVIOUS
  <1>7. Parsed(f).buses["A1"].on = anyOn
    <2> HIDE DEF anyOn
    <2>1. CASE rs = <<>>
      <3>1. Parsed(f).buses["A1"] = Silent
        BY <1>1, <2>1
      <3>2. Silent.on = FALSE
        BY DEF Silent
      <3>3. anyOn = FALSE
        BY <1>5, <1>6, <2>1
      <3> QED BY <3>1, <3>2, <3>3
    <2>2. CASE rs # <<>>
      BY <1>1, <2>2
    <2> QED BY <2>1, <2>2
  <1> HIDE DEF anyOn
  <1>8. anyOn = (Wanted1(f) # {})
    BY <1>4, <1>6
  <1>9. Parsed(f).buses["A1"].output = IF rs = <<>> THEN "" ELSE Trim[rs[1].output]
    <2>1. CASE rs = <<>>
      <3>1. Parsed(f).buses["A1"] = Silent
        BY <1>1, <2>1
      <3>2. Silent.output = ""
        BY DEF Silent
      <3> QED BY <2>1, <3>1, <3>2
    <2>2. CASE rs # <<>>
      BY <1>1, <2>2
    <2> QED BY <2>1, <2>2
  <1>10. BusesKept1(f, Parsed(f))
    BY <1>1, <1>7, <1>8, <1>9 DEF BusesKept1
  <1>11. DOMAIN Parsed(f).inputs = InputsOf(f)
    BY <1>1 DEF InputsOf, Loadable1
  <1> QED BY <1>1, <1>3, <1>10, <1>11

LEMMA HeardOfInputs ==
    ASSUME NEW f, Loadable2(f)
    PROVE  HeardIn(Parsed(f)) = Wanted2(f) /\ DOMAIN Parsed(f).inputs = InputsOf(f)
  <1> DEFINE is == f.inputs
             ids == {Trim[r.device] : r \in Members(is)}
             n == NormalInputs(is)
  <1>1. /\ n \in Inputs
        /\ \A r \in Members(is) :
              /\ r \in InputRow /\ Trim[r.device] \in DOMAIN n
              /\ n[Trim[r.device]] = {b \in Sinks : \E s \in Members(r.sends) : s.bus = b /\ s.on}
    BY NormalInputsType DEF Loadable2
  <1>2. DOMAIN n = ids /\ Parsed(f).inputs = n
    BY DEF Loadable2, NormalInputs
  <1> HIDE DEF n
  <1>3. ASSUME NEW p \in ids \X Sinks
        PROVE  p[2] \in n[p[1]] <=> \E r \in Members(is) :
                  /\ Trim[r.device] = p[1]
                  /\ \E s \in Members(r.sends) : s.bus = p[2] /\ s.on
    BY <1>1
  <1>4. HeardIn(Parsed(f)) = Wanted2(f)
    BY <1>2, <1>3 DEF HeardIn, Wanted2
  <1>5. DOMAIN Parsed(f).inputs = InputsOf(f)
    BY <1>2 DEF InputsOf, Loadable2
  <1> QED BY <1>4, <1>5

(* The buses and the groups of a file of the second version.               *)
LEMMA RestOfTheFile ==
    ASSUME NEW f, Loadable2(f)
    PROVE  BusesKept2(f, Parsed(f)) /\ GroupsKept2(f, Parsed(f))
  <1> DEFINE bs == f.buses
             gs == f.groups
  <1>1. Parsed(f).buses = NormalBuses(bs) /\ Parsed(f).groups = NormalGroups(gs)
    BY DEF Loadable2
  <1>2. bs \in Seq(BusRow) /\ BusesOk(bs) /\ gs \in Seq(GroupRow)
    BY DEF Loadable2
  <1>3. ASSUME NEW r \in Members(bs)
        PROVE  NormalBuses(bs)[r.id] = [output |-> Trim[r.output], on |-> r.on]
    <2>1. r.id \in Sinks
      <3>1. PICK n \in 1..Len(bs) : r = bs[n]
        BY DEF Members
      <3>2. bs[n] \in BusRow
        BY <1>2
      <3> QED BY <3>1, <3>2 DEF BusRow
    <2>2. \A x \in Members(bs) : x.id = r.id => x = r
      BY <1>2 DEF Members, BusesOk, Distinct
    <2>3. The(bs, LAMBDA x : x.id = r.id) = r
      BY <2>2 DEF The
    <2> QED BY <2>1, <2>3 DEF NormalBuses
  <1>4. \A b \in Sinks : (\A r \in Members(bs) : r.id # b) => NormalBuses(bs)[b] = Silent
    BY DEF NormalBuses
  <1>5. BusesKept2(f, Parsed(f))
    <2>1. ASSUME NEW r \in Members(bs)
          PROVE  Parsed(f).buses[r.id].output = Trim[r.output] /\ Parsed(f).buses[r.id].on = r.on
      <3> DEFINE v == [output |-> Trim[r.output], on |-> r.on]
      <3>1. NormalBuses(bs)[r.id] = v
        BY <1>3
      <3>2. v.output = Trim[r.output] /\ v.on = r.on
        OBVIOUS
      <3> HIDE DEF v
      <3> QED BY <1>1, <3>1, <3>2
    <2> QED BY <1>1, <1>4, <2>1 DEF BusesKept2
  <1>6. Len(NormalGroups(gs)) = Len(gs)
    <2>1. Len(gs) \in Nat
      BY <1>2
    <2> QED BY <2>1 DEF NormalGroups
  <1>7. \A n \in 1..Len(gs) : NormalGroups(gs)[n] = [id |-> Trim[gs[n].id], members |-> Members(gs[n].members)]
    BY DEF NormalGroups
  <1>8. GroupsKept2(f, Parsed(f))
    <2>1. ASSUME NEW n \in 1..Len(gs)
          PROVE  /\ Parsed(f).groups[n].id = Trim[gs[n].id]
                 /\ Parsed(f).groups[n].members = Members(gs[n].members)
      <3> DEFINE v == [id |-> Trim[gs[n].id], members |-> Members(gs[n].members)]
      <3>1. NormalGroups(gs)[n] = v
        BY <1>7
      <3>2. v.id = Trim[gs[n].id] /\ v.members = Members(gs[n].members)
        OBVIOUS
      <3> HIDE DEF v
      <3> QED BY <1>1, <3>1, <3>2
    <2> QED BY <1>1, <1>6, <2>1 DEF GroupsKept2
  <1> QED BY <1>5, <1>8

-----------------------------------------------------------------------------
(* A save that has written the new file has it whole until it has its      *)
(* name, and the old preset goes only then.                                *)

PresetsInv ==
    /\ console \in Held /\ path \in Files /\ tmp \in Files
    /\ saver \in {"idle", "write", "remove", "rename"}
    /\ saver \in {"remove", "rename"} => tmp = Built(console)
    /\ saver = "write" /\ kept # Rejected => path # NoFile
    /\ SavedPresetIsLoadable
    /\ shown # NoFile => shown \in Files /\ Parsed(shown) = console

LEMMA PresetsInvFollows == PresetsInv => PresetsTypeOK /\ PresetsAreSafe
  <1> SUFFICES ASSUME PresetsInv PROVE PresetsTypeOK /\ PresetsAreSafe
    OBVIOUS
  <1>1. PresetsTypeOK
    BY HeldConsoles DEF PresetsInv, PresetsTypeOK
  <1>2. ASSUME shown # NoFile PROVE LoadKeepsTheFile
    <2>1. shown \in Files /\ Parsed(shown) = console /\ console \in Console
      BY <1>2, HeldConsoles DEF PresetsInv
    <2>2. Parsed(Built(console)) = console
      BY <2>1, RoundTrip
    <2>3. HeardNow = HeardIn(console)
      BY DEF HeardNow, HeardIn
    <2>4. Loadable1(shown) \/ Loadable2(shown)
      BY <2>1, ParsedCases, FilesAre, PresetsAssumption
    <2>5. CASE Loadable1(shown)
      BY <2>1, <2>2, <2>3, <2>5, HeardOfRoutes DEF Loadable1, LoadKeepsTheFile
    <2>6. CASE Loadable2(shown)
      BY <2>1, <2>2, <2>3, <2>6, HeardOfInputs, RestOfTheFile DEF Loadable2, LoadKeepsTheFile
    <2> QED BY <2>4, <2>5, <2>6
  <1>3. LoadKeepsTheFile
    BY <1>2 DEF LoadKeepsTheFile
  <1> QED BY <1>1, <1>3 DEF PresetsInv, PresetsAreSafe

LEMMA InitPresets == PresetsInit => PresetsInv
  BY DEF PresetsInit, PresetsInv, Held, Files, SavedPresetIsLoadable

LEMMA PresetsKept == ASSUME PresetsInv, PresetsNext PROVE PresetsInv'
  <1> USE DEF PresetsInv, SavedPresetIsLoadable
  <1>1. CASE \E c \in Consoles : Edit(c)
    BY <1>1 DEF Edit, Held
  <1>2. CASE StartSave
    BY <1>2 DEF StartSave, Files
  <1>3. CASE DeletePreset
    BY <1>3 DEF DeletePreset, Files
  <1>4. CASE LoadFile
    BY <1>4, LoadedIsHeld DEF LoadFile
  <1>5. CASE PresetsCrash
    BY <1>5 DEF PresetsCrash, Held
  <1>6. Built(console) \in Files /\ Parsed(Built(console)) = console /\ console # Rejected
    BY HeldConsoles, RoundTrip, PresetsAssumption DEF Files
  <1>7. CASE \E fails \in BOOLEAN : WriteTmp(fails)
    BY <1>6, <1>7 DEF WriteTmp
  <1>8. CASE \E fails \in BOOLEAN : RemoveOld(fails)
    BY <1>6, <1>8 DEF RemoveOld, Files
  <1>9. CASE \E fails \in BOOLEAN : Rename(fails)
    BY <1>6, <1>9 DEF Rename, Files
  <1> QED BY <1>1, <1>2, <1>3, <1>4, <1>5, <1>7, <1>8, <1>9 DEF PresetsNext

-----------------------------------------------------------------------------
(* The settings files.  Each is unreadable or says something of each of    *)
(* its fields.                                                             *)

Filed(fs, as) == /\ fs = [k \in Kinds |-> fs[k]]
                 /\ \A k \in Kinds : fs[k] \in Contents(k) \union {Unreadable}
                 /\ as = [p \in Fields |-> as[p]]
                 /\ \A p \in Fields : as[p] \in Choices[p[1]][p[2]] \union {Unreadable}
Agreeing(fs, as) ==
    \A p \in Fields : as[p] # Unreadable =>
        /\ fs[p[1]] # Unreadable
        /\ fs[p[1]][p[2]] = as[p]

SettingsInv == /\ entry \in BOOLEAN /\ up \in BOOLEAN /\ agreed \in BOOLEAN
               /\ Filed(files, asked) /\ Agreeing(files, asked)
               /\ up /\ agreed => entry = Loaded("app").launch_at_login

LEMMA LoadedType == ASSUME SettingsInv, NEW k \in Kinds PROVE Loaded(k) \in Contents(k)
  BY SettingsAssumption DEF SettingsInv, Filed, Loaded

LEMMA FieldOfKind ==
    ASSUME NEW p \in Fields
    PROVE  p = <<p[1], p[2]>> /\ p[1] \in Kinds /\ p[2] \in DOMAIN Defaults[p[1]]
  BY DEF Fields

LEMMA SettingsInvFollows == SettingsInv => SettingsTypeOK /\ SettingsAreKept
  <1> SUFFICES ASSUME SettingsInv PROVE SettingsTypeOK /\ SettingsAreKept
    OBVIOUS
  <1>1. ASSUME NEW p \in Fields
        PROVE  /\ Loaded(p[1])[p[2]] \in Choices[p[1]][p[2]]
               /\ asked[p] \in Choices[p[1]][p[2]] \union {Unreadable}
               /\ asked[p] # Unreadable => Loaded(p[1])[p[2]] = asked[p]
    <2>1. Loaded(p[1]) \in Contents(p[1])
      BY LoadedType, FieldOfKind
    <2>2. Loaded(p[1])[p[2]] \in Choices[p[1]][p[2]]
      BY <2>1, FieldOfKind DEF Contents
    <2> QED BY <2>2 DEF SettingsInv, Filed, Agreeing, Loaded
  <1> QED BY <1>1 DEF SettingsInv, SettingsTypeOK, SettingsAreKept

LEMMA InitSettings == SettingsInit => SettingsInv
  BY DEF SettingsInit, SettingsInv, Filed, Agreeing

(* A write that is completed changes one field and keeps the others; one   *)
(* that is cut off forgets what was asked of its file.                     *)
LEMMA SavedKeeps ==
    ASSUME SettingsInv, NEW k \in Kinds, NEW f \in DOMAIN Defaults[k], NEW v \in Choices[k][f],
           Saved(k, f, v)
    PROVE  /\ Filed(files', asked') /\ Agreeing(files', asked')
           /\ files'[k] # Unreadable /\ files'[k][f] = v
           /\ \A j \in Kinds \ {k} : files'[j] = files[j]
  <1> DEFINE c == Rewritten(k, f, v)
  <1>1. Loaded(k) \in Contents(k)
    BY LoadedType
  <1>2. /\ c \in Contents(k) /\ c[f] = v
        /\ \A g \in DOMAIN Defaults[k] : g # f => c[g] = Loaded(k)[g]
    BY <1>1 DEF Contents, Rewritten
  <1>3. c # Unreadable
    BY <1>2, SettingsAssumption
  <1>4. files' = [files EXCEPT ![k] = c] /\ asked' = [asked EXCEPT ![<<k, f>>] = v]
    BY DEF Saved
  <1>5. <<k, f>> \in Fields
    BY DEF Fields
  <1> HIDE DEF c
  <1>6. files'[k] = c /\ \A j \in Kinds \ {k} : files'[j] = files[j]
    BY <1>4 DEF SettingsInv, Filed
  <1>7. Filed(files', asked')
    <2>1. files' = [j \in Kinds |-> files'[j]]
      BY <1>4 DEF SettingsInv, Filed
    <2>2. asked' = [p \in Fields |-> asked'[p]]
      BY <1>4 DEF SettingsInv, Filed
    <2>3. ASSUME NEW p \in Fields PROVE asked'[p] \in Choices[p[1]][p[2]] \union {Unreadable}
      <3>1. CASE p = <<k, f>>
        BY <1>4, <3>1 DEF SettingsInv, Filed
      <3>2. CASE p # <<k, f>>
        <4>1. asked'[p] = asked[p]
          BY <1>4, <3>2 DEF SettingsInv, Filed
        <4> QED BY <4>1 DEF SettingsInv, Filed
      <3> QED BY <3>1, <3>2
    <2> QED BY <1>2, <1>6, <2>1, <2>2, <2>3 DEF SettingsInv, Filed
  <1>8. ASSUME NEW p \in Fields, asked'[p] # Unreadable
        PROVE  files'[p[1]] # Unreadable /\ files'[p[1]][p[2]] = asked'[p]
    <2>1. CASE p = <<k, f>>
      BY <1>2, <1>3, <1>4, <1>6, <2>1 DEF SettingsInv, Filed
    <2>2. CASE p # <<k, f>>
      <3>1. asked'[p] = asked[p]
        BY <1>4, <2>2 DEF SettingsInv, Filed
      <3>2. files[p[1]] # Unreadable /\ files[p[1]][p[2]] = asked[p]
        BY <1>8, <3>1 DEF SettingsInv, Agreeing
      <3>3. CASE p[1] = k
        <4>1. p[2] # f /\ p[2] \in DOMAIN Defaults[k]
          BY <2>2, <3>3, FieldOfKind
        <4> QED BY <1>2, <1>3, <1>6, <3>1, <3>2, <3>3, <4>1 DEF Loaded
      <3>4. CASE p[1] # k
        <4>1. files'[p[1]] = files[p[1]]
          BY <1>6, <3>4, FieldOfKind
        <4> QED BY <3>1, <3>2, <4>1
      <3> QED BY <3>3, <3>4
    <2> QED BY <2>1, <2>2
  <1> QED BY <1>2, <1>3, <1>6, <1>7, <1>8 DEF Agreeing

LEMMA LostKeeps ==
    ASSUME SettingsInv, NEW k \in Kinds, Lost(k)
    PROVE  Filed(files', asked') /\ Agreeing(files', asked')
  <1>1. /\ files' = [files EXCEPT ![k] = Unreadable]
        /\ asked' = [p \in Fields |-> IF p[1] = k THEN Unreadable ELSE asked[p]]
    BY DEF Lost
  <1>2. files' = [j \in Kinds |-> files'[j]] /\ asked' = [p \in Fields |-> asked'[p]]
    BY <1>1 DEF SettingsInv, Filed
  <1>3. files'[k] = Unreadable /\ \A j \in Kinds \ {k} : files'[j] = files[j]
    BY <1>1 DEF SettingsInv, Filed
  <1>4. ASSUME NEW p \in Fields
        PROVE  /\ p[1] = k => asked'[p] = Unreadable
               /\ p[1] # k => asked'[p] = asked[p] /\ files'[p[1]] = files[p[1]]
    BY <1>1, <1>3, FieldOfKind
  <1> QED BY <1>2, <1>3, <1>4 DEF SettingsInv, Filed, Agreeing

LEMMA NotWrittenKeeps ==
    ASSUME SettingsInv, NEW k \in Kinds, NotWritten(k)
    PROVE  /\ Filed(files', asked') /\ Agreeing(files', asked')
           /\ \A j \in Kinds \ {k} : files'[j] = files[j]
  <1>1. CASE Lost(k)
    BY <1>1, LostKeeps DEF Lost, SettingsInv, Filed
  <1>2. CASE UNCHANGED <<files, asked>>
    BY <1>2 DEF SettingsInv
  <1> QED BY <1>1, <1>2 DEF NotWritten

LEMMA SettingsKept == ASSUME SettingsInv, SettingsNext PROVE SettingsInv'
  <1>a. "app" \in Kinds /\ "launch_at_login" \in DOMAIN Defaults["app"]
        /\ Choices["app"]["launch_at_login"] = BOOLEAN
    BY SettingsAssumption
  <1>1. CASE \E fails \in BOOLEAN : Boot(fails)
    <2>1. Loaded("app") \in Contents("app") /\ Loaded("app")' = Loaded("app")
      BY <1>1, <1>a, LoadedType DEF Boot, Loaded
    <2>2. Loaded("app").launch_at_login \in BOOLEAN
      BY <1>a, <2>1 DEF Contents
    <2> QED BY <1>1, <2>1, <2>2 DEF Boot, SettingsInv
  <1>2. CASE \E p \in Fields, fails \in BOOLEAN :
               \E v \in Choices[p[1]][p[2]] : SetField(p[1], p[2], v, fails)
    <2>1. PICK p \in Fields, fails \in BOOLEAN :
                 \E v \in Choices[p[1]][p[2]] : SetField(p[1], p[2], v, fails)
      BY <1>2
    <2>2. PICK v \in Choices[p[1]][p[2]] : SetField(p[1], p[2], v, fails)
      BY <2>1
    <2>3. p[1] \in Kinds /\ p[1] # "app" /\ p[2] \in DOMAIN Defaults[p[1]]
      BY <2>2, FieldOfKind DEF SetField
    <2>4. UNCHANGED <<entry, up, agreed>>
      BY <2>2 DEF SetField
    <2>5. CASE fails
      <3>1. NotWritten(p[1])
        BY <2>2, <2>5 DEF SetField
      <3>2. Loaded("app")' = Loaded("app")
        BY <1>a, <2>3, <3>1, NotWrittenKeeps DEF Loaded
      <3> QED BY <2>3, <2>4, <3>1, <3>2, NotWrittenKeeps DEF SettingsInv
    <2>6. CASE ~fails
      <3>1. Saved(p[1], p[2], v)
        BY <2>2, <2>6 DEF SetField
      <3>2. Loaded("app")' = Loaded("app")
        BY <1>a, <2>3, <3>1, SavedKeeps DEF Loaded
      <3> QED BY <2>3, <2>4, <3>1, <3>2, SavedKeeps DEF SettingsInv
    <2> QED BY <2>5, <2>6
  <1>3. CASE \E v \in BOOLEAN, fails \in BOOLEAN : SetLaunch(v, fails)
    <2>1. PICK v \in BOOLEAN, fails \in BOOLEAN : SetLaunch(v, fails)
      BY <1>3
    <2>2. entry' = v /\ up' = up
      BY <2>1 DEF SetLaunch
    <2>3. CASE fails
      BY <1>a, <2>1, <2>2, <2>3, NotWrittenKeeps DEF SetLaunch, SettingsInv
    <2>4. CASE ~fails
      <3>1. Saved("app", "launch_at_login", v) /\ agreed' = TRUE
        BY <2>1, <2>4 DEF SetLaunch
      <3>2. /\ Filed(files', asked') /\ Agreeing(files', asked')
            /\ files'["app"] # Unreadable /\ files'["app"]["launch_at_login"] = v
        BY <1>a, <3>1, SavedKeeps
      <3>3. Loaded("app").launch_at_login' = v
        BY <3>2 DEF Loaded
      <3> QED BY <2>2, <3>1, <3>2, <3>3 DEF SettingsInv
    <2> QED BY <2>3, <2>4
  <1>4. CASE SettingsCrash
    <2>1. up' = FALSE /\ agreed' = FALSE /\ entry' = entry
      BY <1>4 DEF SettingsCrash
    <2>2. Filed(files', asked') /\ Agreeing(files', asked')
      BY <1>4, LostKeeps DEF SettingsCrash, SettingsInv
    <2> QED BY <2>1, <2>2 DEF SettingsInv
  <1> QED BY <1>1, <1>2, <1>3, <1>4 DEF SettingsNext

-----------------------------------------------------------------------------
(* The certificate of the server.  Certificates are numbered in the order  *)
(* they are generated, so that a fresh one is in no file and serves no one *)

Generated == {n \in Whole : names[n] # {}}
Numbered == \E m \in 0..MaxCerts : Generated = 1..m
ListPaired == sansFile \in Whole /\ certFile = sansFile => keyFile = sansFile
Serves == /\ server.cert = server.key /\ server.cert \in Generated
          /\ server.port \notin taken
          /\ server.list = server.cert => server.for \subseteq names[server.cert]

ServerInv == /\ PhoneServerTypeOK
             /\ Numbered
             /\ {certFile, keyFile, sansFile} \intersect Whole \subseteq Generated
             /\ ListPaired
             /\ server # NoServer => Serves

LEMMA ServerInvFollows == ServerInv => PhoneServerTypeOK /\ ServerIsTrusted
  BY DEF ServerInv, ListPaired, Serves, ServerIsTrusted

LEMMA InitServer == PhoneServerInit => ServerInv
  <1> SUFFICES ASSUME PhoneServerInit PROVE ServerInv
    OBVIOUS
  <1>1. 0 \notin Whole /\ 0 \in File
    BY DEF Whole, File
  <1>2. PhoneServerTypeOK
    <2>1. names \in [Whole -> SUBSET Addresses]
      BY DEF PhoneServerInit
    <2> QED BY <1>1, <2>1 DEF PhoneServerInit, PhoneServerTypeOK
  <1>3. Generated = 1..0 /\ 0 \in 0..MaxCerts
    BY PhoneServerAssumption DEF PhoneServerInit, Generated
  <1> QED BY <1>1, <1>2, <1>3 DEF PhoneServerInit, ServerInv, Numbered, ListPaired

LEMMA FreshIsNext ==
    ASSUME ServerInv, Fresh <= MaxCerts
    PROVE  /\ Fresh \in Whole /\ Fresh \notin Generated
           /\ \E m \in 0..MaxCerts : Generated \union {Fresh} = 1..m
  <1>1. PICK m \in 0..MaxCerts : Generated = 1..m
    BY DEF ServerInv, Numbered
  <1>2. m \in Nat /\ MaxCerts \in Nat
    BY PhoneServerAssumption
  <1>3. Cardinality(1..m) = m
    BY <1>2, FS_Interval
  <1>4. Fresh = m + 1
    BY <1>1, <1>3 DEF Fresh, Generated
  <1>5. (1..m) \union {m + 1} = 1..(m + 1)
    BY <1>2
  <1> QED BY <1>1, <1>2, <1>4, <1>5 DEF Whole

(* Wherever it breaks off, generate touches no certificate in use. *)
LEMMA GenerateKeeps ==
    ASSUME ServerInv, Fresh <= MaxCerts, NEW written \in 0..3, NEW truncated \in BOOLEAN,
           ips # {}, Generate(Fresh, written, truncated), UNCHANGED <<ips, taken>>
    PROVE  /\ names' \in [Whole -> SUBSET Addresses]
           /\ certFile' \in File /\ keyFile' \in File /\ sansFile' \in File
           /\ names'[Fresh] = ips
           /\ \A n \in Generated : n \in Generated' /\ names'[n] = names[n]
           /\ Fresh \in Generated' /\ Numbered'
           /\ {certFile', keyFile', sansFile'} \intersect Whole \subseteq Generated'
           /\ ListPaired'
  <1> DEFINE n == Fresh
  <1>1. n \in Whole /\ n \notin Generated
        /\ \E m \in 0..MaxCerts : Generated \union {n} = 1..m
    BY FreshIsNext
  <1> HIDE DEF n
  <1>2. /\ names' = [names EXCEPT ![n] = ips]
        /\ certFile' = IF 1 <= written THEN n ELSE IF 1 = written + 1 /\ truncated THEN Cut ELSE certFile
        /\ keyFile' = IF 2 <= written THEN n ELSE IF 2 = written + 1 /\ truncated THEN Cut ELSE keyFile
        /\ sansFile' = IF 3 <= written THEN n ELSE IF 3 = written + 1 /\ truncated THEN Cut ELSE sansFile
    BY DEF Generate, n
  <1>t. /\ PhoneServerTypeOK /\ {certFile, keyFile, sansFile} \intersect Whole \subseteq Generated
        /\ ListPaired
    BY DEF ServerInv
  <1>3. /\ names' \in [Whole -> SUBSET Addresses] /\ names'[n] = ips
        /\ \A i \in Whole \ {n} : names'[i] = names[i]
    BY <1>1, <1>2, <1>t DEF PhoneServerTypeOK
  <1>4. Generated' = Generated \union {n}
    BY <1>1, <1>3 DEF Generated
  <1>5. \A i \in Generated : names'[i] = names[i]
    BY <1>1, <1>3 DEF Generated
  <1>6. /\ certFile' \in {n, Cut, certFile} /\ keyFile' \in {n, Cut, keyFile}
        /\ sansFile' \in {n, Cut, sansFile}
    BY <1>2
  <1>7. Cut \notin Whole
    BY PhoneServerAssumption DEF Whole
  <1>8. certFile' \in File /\ keyFile' \in File /\ sansFile' \in File
    BY <1>1, <1>6, <1>t DEF PhoneServerTypeOK, File
  <1>9. {certFile', keyFile', sansFile'} \intersect Whole \subseteq Generated'
    BY <1>4, <1>6, <1>7, <1>t
  <1>10. ListPaired'
    <2>1. CASE written = 3
      <3>1. certFile' = n /\ keyFile' = n /\ sansFile' = n
        BY <1>2, <2>1
      <3> QED BY <3>1 DEF ListPaired
    <2>2. CASE written \in 1..2
      <3>1. certFile' = n
        BY <1>2, <2>2
      <3>2. sansFile' \in {Cut, sansFile}
        BY <1>2, <2>2
      <3> QED BY <1>1, <1>7, <1>t, <3>1, <3>2 DEF ListPaired
    <2>3. CASE written = 0
      <3>1. certFile' \in {Cut, certFile}
        BY <1>2, <2>3
      <3>2. keyFile' = keyFile /\ sansFile' = sansFile
        BY <1>2, <2>3
      <3> QED BY <1>7, <1>t, <3>1, <3>2 DEF ListPaired
    <2> QED BY <2>1, <2>2, <2>3
  <1>11. Numbered'
    BY <1>1, <1>4 DEF Numbered
  <1> QED BY <1>3, <1>4, <1>5, <1>8, <1>9, <1>10, <1>11 DEF n

LEMMA ListeningServes ==
    ASSUME NEW c \in Whole, NEW l \in Whole, PhoneServerTypeOK, Listening(c, c, l),
           UNCHANGED <<ips, taken>>, c \in Generated', l = c => ips \subseteq names'[c]
    PROVE  server' \in Server /\ Serves'
  <1>1. PICK p \in Ports \union {0} :
             Bound(p) /\ server' = [port |-> p, cert |-> c, key |-> c, for |-> ips, list |-> l]
    BY DEF Listening
  <1>2. p \notin taken
    BY <1>1, PhoneServerAssumption DEF Bound, PhoneServerTypeOK
  <1>3. server' \in Server
    BY <1>1 DEF Server, PhoneServerTypeOK
  <1> QED BY <1>1, <1>2, <1>3 DEF Serves

LEMMA StartFromFilesKeeps == ASSUME ServerInv, StartFromFiles, boots' \in BOOLEAN PROVE ServerInv'
  <1>1. /\ UNCHANGED <<ips, taken, certFile, keyFile, sansFile, names>>
        /\ certFile \in Whole /\ sansFile \in Whole /\ ips \subseteq names[sansFile]
        /\ Listening(certFile, certFile, sansFile)
    BY DEF StartFromFiles, CanLoad
  <1>2. certFile \in Generated /\ Generated' = Generated
    BY <1>1 DEF ServerInv, Generated
  <1>3. server' \in Server /\ Serves'
    BY <1>1, <1>2, ListeningServes DEF ServerInv
  <1> QED BY <1>1, <1>2, <1>3 DEF ServerInv, PhoneServerTypeOK, Numbered, ListPaired

LEMMA StartAfterGenerateKeeps ==
    ASSUME ServerInv, StartAfterGenerate, boots' \in BOOLEAN PROVE ServerInv'
  <1>1. /\ UNCHANGED <<ips, taken>> /\ ips # {} /\ Fresh <= MaxCerts
        /\ Generate(Fresh, 3, FALSE) /\ Listening(Fresh, Fresh, Fresh)
    BY DEF StartAfterGenerate
  <1>2. Fresh \in Whole
    BY <1>1, FreshIsNext
  <1>3. /\ names' \in [Whole -> SUBSET Addresses]
        /\ certFile' \in File /\ keyFile' \in File /\ sansFile' \in File
        /\ names'[Fresh] = ips
        /\ Fresh \in Generated' /\ Numbered'
        /\ {certFile', keyFile', sansFile'} \intersect Whole \subseteq Generated'
        /\ ListPaired'
    <2>1. 3 \in 0..3 /\ FALSE \in BOOLEAN
      OBVIOUS
    <2> QED BY <1>1, <2>1, GenerateKeeps
  <1>4. server' \in Server /\ Serves'
    BY <1>1, <1>2, <1>3, ListeningServes DEF ServerInv
  <1> QED BY <1>1, <1>3, <1>4 DEF ServerInv, PhoneServerTypeOK

LEMMA GenerateFailsKeeps ==
    ASSUME ServerInv, NEW written \in 0..2, NEW truncated \in BOOLEAN,
           GenerateFails(written, truncated), boots' \in BOOLEAN
    PROVE  ServerInv'
  <1>1. /\ UNCHANGED <<ips, taken, server>> /\ ips # {} /\ Fresh <= MaxCerts
        /\ Generate(Fresh, written, truncated) /\ server = NoServer
    BY DEF GenerateFails
  <1>2. written \in 0..3
    OBVIOUS
  <1>3. /\ names' \in [Whole -> SUBSET Addresses]
        /\ certFile' \in File /\ keyFile' \in File /\ sansFile' \in File
        /\ Numbered'
        /\ {certFile', keyFile', sansFile'} \intersect Whole \subseteq Generated'
        /\ ListPaired'
    BY <1>1, <1>2, GenerateKeeps
  <1> QED BY <1>1, <1>3 DEF ServerInv, PhoneServerTypeOK

LEMMA ServerKept == ASSUME ServerInv, PhoneServerNext PROVE ServerInv'
  <1> USE DEF ServerInv, PhoneServerTypeOK
  <1>1. CASE ChangeNetwork
    BY <1>1 DEF ChangeNetwork, Numbered, Generated, ListPaired, Serves, Server
  <1>2. CASE Contend
    BY <1>2 DEF Contend, Numbered, Generated, ListPaired
  <1>3. CASE ServerCrash
    BY <1>3 DEF ServerCrash, Numbered, Generated, ListPaired
  <1>4. CASE CreateSession
    BY <1>4, StartFromFilesKeeps, StartAfterGenerateKeeps, GenerateFailsKeeps DEF CreateSession
  <1>5. CASE GenerateIsCut
    BY <1>5, GenerateFailsKeeps DEF GenerateIsCut
  <1>6. CASE \E autostart \in BOOLEAN : BootServer(autostart)
    <2>1. PICK autostart \in BOOLEAN : BootServer(autostart)
      BY <1>6
    <2>2. CASE autostart
      BY <2>1, <2>2, StartFromFilesKeeps, StartAfterGenerateKeeps, GenerateFailsKeeps DEF BootServer
    <2>3. CASE ~autostart
      <3>1. /\ UNCHANGED <<ips, taken, certFile, keyFile, sansFile, names, server>>
            /\ boots' = TRUE
        BY <2>1, <2>3 DEF BootServer
      <3> QED BY <3>1 DEF Numbered, Generated, ListPaired, Serves
    <2> QED BY <2>2, <2>3
  <1> QED BY <1>1, <1>2, <1>3, <1>4, <1>5, <1>6 DEF PhoneServerNext

-----------------------------------------------------------------------------
(* The files the program keeps, for any presets of both versions,          *)
(* settings, addresses and ports.                                          *)
FilesInv == PresetsInv /\ SettingsInv /\ ServerInv

LEMMA InitFiles == Init => FilesInv
  BY InitPresets, InitSettings, InitServer DEF Init, FilesInv

LEMMA DesktopKeepsFiles == ASSUME FilesInv, [Next]_vars PROVE FilesInv'
  <1>1. PresetsInv'
    <2>1. CASE UNCHANGED presetsVars
      BY <2>1 DEF FilesInv, PresetsInv, SavedPresetIsLoadable, presetsVars
    <2> QED BY <2>1, PresetsKept DEF FilesInv, Next, Alone, vars
  <1>2. SettingsInv'
    <2>1. CASE UNCHANGED settingsVars
      BY <2>1 DEF FilesInv, SettingsInv, Filed, Agreeing, Loaded, settingsVars
    <2> QED BY <2>1, SettingsKept DEF FilesInv, Next, Alone, vars
  <1>3. ServerInv'
    <2>1. CASE UNCHANGED serverVars
      BY <2>1 DEF FilesInv, ServerInv, PhoneServerTypeOK, Numbered, Generated, ListPaired, Serves, serverVars
    <2> QED BY <2>1, ServerKept DEF FilesInv, Next, Alone, vars
  <1> QED BY <1>1, <1>2, <1>3 DEF FilesInv

(* FilesAreSafe of any files: a write that fails or is cut off costs a     *)
(* preset only in the gap between remove_file and rename (presets.rs:179), *)
(* a settings file what it said (app_settings.rs:8), and the certificate   *)
(* never its key under a list of its own (net/tls.rs:28); a preset that is *)
(* loaded is applied as its file says.                                     *)
THEOREM FilesStaySafe == Spec => []FilesAreSafe
  <1>1. Init => FilesInv
    BY InitFiles
  <1>2. FilesInv /\ [Next]_vars => FilesInv'
    BY DesktopKeepsFiles
  <1>3. FilesInv => FilesAreSafe
    BY PresetsInvFollows, SettingsInvFollows, ServerInvFollows DEF FilesInv, FilesAreSafe, StartupIsSafe
  <1> QED BY <1>1, <1>2, <1>3, PTL DEF Spec

LEMMA ControlsTypesFollow == ControlsInv => ControlsTypeOK
  <1> SUFFICES ASSUME ControlsInv PROVE ControlsTypeOK
    OBVIOUS
  <1>1. /\ channels \in Channels /\ desk \in [Desks -> Row]
        /\ groups \in Seq(Group) /\ OwnIds(groups) /\ fan \in Fan \union {Nothing}
    BY DEF ControlsInv, ControlsTypes
  <1>2. ASSUME NEW b \in Desks
        PROVE  /\ desk[b].fader \in Faders /\ desk[b].dsp \in Effects
               /\ desk[b].on \in BOOLEAN
               /\ desk[b].engine # Nothing => DOMAIN desk[b].engine.level \subseteq Strips
    <2>1. desk[b] \in Row
      BY <1>1
    <2> QED BY <2>1 DEF Row, Engine, Engines
  <1> QED BY <1>1, <1>2 DEF Channels, ControlsTypeOK

(* Every part keeps its variables of their types: among them the console,  *)
(* which a file can only bring to a well-formed one, each automix group    *)
(* under an id of its own, and a setting that is one of its choices.       *)
THEOREM TypesCorrect == Spec => []TypesOK
  <1> DEFINE I == ControlsInv /\ FanFits /\ CableInv /\ FilesInv
  <1>1. Init => I
    BY InitControls, InitNames, InitHelper, InitFiles DEF Init, CableInv
  <1>2. I /\ [Next]_vars => I'
    BY DesktopKeepsControls, DesktopKeepsCable, DesktopKeepsFiles
  <1>3. I => TypesOK
    BY ControlsTypesFollow, PresetsInvFollows, SettingsInvFollows, ServerInvFollows
    DEF TypesOK, CableInv, NamesInv, HelperInv, FilesInv
  <1> QED BY <1>1, <1>2, <1>3, PTL DEF Spec

==============================================================================
