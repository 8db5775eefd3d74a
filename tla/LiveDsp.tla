------------------------------ MODULE LiveDsp ------------------------------
(***************************************************************************)
(* Live effect parameters (audio/dsp/live.rs): a command publishes a       *)
(* parameter block, the audio callback reloads it without a lock.  The     *)
(* blocks of an input, a bus and the automix groups follow one protocol;   *)
(* a field here is one atomic of such a block, that of an effect, of an    *)
(* automix group or the packed stage order.                                *)
(*                                                                         *)
(* All accesses are relaxed, so a load may return any value the thread has *)
(* not seen overwritten; only the fences order them.  The k-th store of    *)
(* the generation writes k % GenMod, and the v-th publish stores 2v - 1,   *)
(* then every field, then 2v.  What a thread that loads one of these       *)
(* values and passes an acquire fence must see afterwards is what the      *)
(* publisher had stored before its last release fence.                     *)
(***************************************************************************)
EXTENDS Integers, Sequences, FiniteSets

CONSTANTS Stages,       \* DspStage::ALL: the effects in canonical order
          AutomixGroups, \* its automix groups, in order
          Slots,        \* input slots of an engine
          Sent,         \* configurations callers send
          MaxPublishes, \* bound on the number of publishes
          GenMod        \* 2^32: generations wrap

Effects == {Stages[i] : i \in DOMAIN Stages}
Groups  == {AutomixGroups[i] : i \in DOMAIN AutomixGroups}

(* The fields in the order in which they are stored and loaded. *)
FieldOrder == <<"order">> \o Stages \o AutomixGroups
Fields     == Effects \union Groups \union {"order"}
Before(f)  == {FieldOrder[i] : i \in 1..((CHOOSE i \in DOMAIN FieldOrder : FieldOrder[i] = f) - 1)}

ASSUME LiveDspAssumption == /\ Stages \in Seq(STRING) /\ AutomixGroups \in Seq(STRING)
                            /\ Len(Stages) <= 8            \* a stage takes three bits
                            /\ \A i, j \in DOMAIN FieldOrder : i # j => FieldOrder[i] # FieldOrder[j]
                            /\ Sent \subseteq [on : SUBSET (Effects \union Groups),
                                              members : [Groups -> SUBSET Slots], order : Seq(Effects)]
                            /\ MaxPublishes \in Nat
                            /\ GenMod \in Nat /\ 2 * MaxPublishes < GenMod - 1

VARIABLES config,       \* the configuration each publish stored; number 0 is the seed
          gen,          \* stores of the generation so far
          stored,       \* per field: the publish it was stored by last
          rd,           \* the callback's reader
          slots         \* what the callback applies: the effects and their state

liveVars == <<config, gen, stored, rd, slots>>

Versions == 0..MaxPublishes

(* pc: "idle", "read", "block".  sawGen, saw: the oldest store of the      *)
(* generation and of each field that a load may still return; due: what    *)
(* the next acquire fence raises sawGen to.  start: the generation loaded  *)
(* first.  snap: the publish each field was read from, or None = -1.       *)
Reader == [pc : {"idle", "read", "block"}, sawGen : 0..2 * MaxPublishes, saw : [Fields -> Versions],
           due : 0..2 * MaxPublishes, start : 0..2 * MaxPublishes,
           snap : [Fields -> Versions \union {-1}]]

(* last: last_gen.  of: the publish each field was applied from, -1 for    *)
(* the bypassed chain a new engine starts with.  tail: what the delay and  *)
(* envelope state of an effect holds; held: slots with a level or a gain.  *)
SlotState == [last : 0..GenMod - 1, of : [Fields -> Versions \union {-1}],
              tail : [Effects -> {"clean", "running", "stale"}], held : [Groups -> SUBSET Slots]]

-----------------------------------------------------------------------------
(* The stage order: normalize_order, pack_order, unpack_order *)

(* A stage is kept where it comes first; those that are missing follow.    *)
WithStage(kept, s) == IF \E i \in DOMAIN kept : kept[i] = s THEN kept ELSE Append(kept, s)

Normalized_Bug(o) == o                      \* as the caller sent it
Normalized(o) == LET all == o \o Stages
                     kept[k \in 0..Len(all)] == IF k = 0 THEN <<>> ELSE WithStage(kept[k - 1], all[k])
                 IN  kept[Len(all)]

CodeOf(s)     == CHOOSE i \in DOMAIN Stages : Stages[i] = s
StageOfCode(c) == IF c + 1 \in DOMAIN Stages THEN Stages[c + 1] ELSE Stages[Len(Stages)]

(* Three bits per stage, those of the first lowest; positions beyond the   *)
(* number of stages are cut off.                                           *)
Packed(o) == LET n == IF Len(o) < Len(Stages) THEN Len(o) ELSE Len(Stages)
                 p[k \in 0..n] == IF k = 0 THEN 0 ELSE (CodeOf(o[n - k + 1]) - 1) + 8 * p[k - 1]
             IN  p[n]
Unpacked(v) == LET rest[k \in 0..Len(Stages)] == IF k = 0 THEN v ELSE rest[k - 1] \div 8
               IN  [i \in DOMAIN Stages |-> StageOfCode(rest[i - 1] % 8)]

Permutations == {p \in [DOMAIN Stages -> Effects] : \A i, j \in DOMAIN p : i # j => p[i] # p[j]}

(* An order is kept packed; it is always one of all stages.  on: enabled   *)
(* effects and groups; members: the slots of each group.                   *)
Config == [on : SUBSET (Effects \union Groups), members : [Groups -> SUBSET Slots],
           order : Nat]

LiveTypeOK == /\ config \in [Versions -> Config]
              /\ \A v \in Versions : Unpacked(config[v].order) \in Permutations
              /\ gen \in 0..2 * MaxPublishes
              /\ stored \in [Fields -> Versions]
              /\ rd \in Reader
              /\ slots \in SlotState

-----------------------------------------------------------------------------
Seed == [on |-> {}, members |-> [g \in Groups |-> {}], order |-> Packed(Stages)]

(* The engine's block is seeded before its callback exists. *)
LiveInit == /\ \E on \in SUBSET Effects :
                   config = [v \in Versions |-> IF v = 0 THEN [Seed EXCEPT !.on = on] ELSE Seed]
            /\ gen = 0
            /\ stored = [f \in Fields |-> 0]
            /\ rd = [pc |-> "idle", sawGen |-> 0, saw |-> [f \in Fields |-> 0], due |-> 0,
                     start |-> 0, snap |-> [f \in Fields |-> -1]]
            /\ slots = [last |-> GenMod - 1, of |-> [f \in Fields |-> -1],
                        tail |-> [e \in Effects |-> "clean"], held |-> [g \in Groups |-> {}]]

(* publish: every caller holds the lock of the application state. *)
Publishing == (gen + 1) \div 2

EnterPublish(c) ==
    /\ gen % 2 = 0
    /\ Publishing < MaxPublishes
    /\ gen' = gen + 1
    /\ config' = [config EXCEPT ![Publishing + 1] =
                     [c EXCEPT !.order = Packed(Normalized(@))]]
    /\ UNCHANGED <<stored, rd, slots>>

(* write_fields *)
StoreField(f) == /\ gen % 2 = 1
                 /\ stored[f] < Publishing
                 /\ \A g \in Before(f) : stored[g] = Publishing
                 /\ stored' = [stored EXCEPT ![f] = Publishing]
                 /\ UNCHANGED <<config, gen, rd, slots>>

ExitPublish == /\ gen % 2 = 1
               /\ \A f \in Fields : stored[f] = Publishing
               /\ gen' = gen + 1
               /\ UNCHANGED <<config, stored, rd, slots>>

(* The release fences: what a store of the generation, and of a field,     *)
(* carries along.  Definitions ending in _Bug are mutants.                 *)
FieldsWithGen(k) == k \div 2
GenWithField_Bug(v) == 0                    \* no fence after the store of 2v - 1
GenWithField(v)  == IF v = 0 THEN 0 ELSE 2 * v - 1

-----------------------------------------------------------------------------
(* reload_if_changed *)

Larger(a, b) == IF a < b THEN b ELSE a

Changed_Bug(k) == k % 2 = 0 /\ k % GenMod > slots.last  \* newer, not different
Changed(k) == k % 2 = 0 /\ k % GenMod # slots.last

LoadGen(k) ==
    /\ rd.pc = "idle"
    /\ k \in rd.sawGen..gen
    /\ rd' = IF Changed(k)
             THEN [rd EXCEPT !.pc = "read", !.sawGen = k, !.start = k, !.due = k,
                             !.saw = [f \in Fields |-> Larger(@[f], FieldsWithGen(k))]]
             ELSE [rd EXCEPT !.pc = "block", !.sawGen = k]
    /\ UNCHANGED <<config, gen, stored, slots>>

LoadField(f, v) ==
    /\ rd.pc = "read"
    /\ rd.snap[f] = -1
    /\ \A g \in Before(f) : rd.snap[g] # -1
    /\ v \in rd.saw[f]..stored[f]
    /\ rd' = [rd EXCEPT !.saw[f] = v, !.snap[f] = v, !.due = Larger(@, GenWithField(v))]
    /\ UNCHANGED <<config, gen, stored, slots>>

On(of, x) == of[x] # -1 /\ x \in config[of[x]].on

(* apply: what was off and comes on is reset; a group whose members change *)
(* forgets levels and gains.                                               *)
TailAfter(snap) == [e \in Effects |-> IF On(snap, e) /\ ~On(slots.of, e) THEN "clean" ELSE slots.tail[e]]

MembersOf(of, g) == IF of[g] = -1 THEN {} ELSE config[of[g]].members[g]

HeldAfter(snap) == [g \in Groups |-> IF MembersOf(snap, g) # MembersOf(slots.of, g) THEN {}
                                     ELSE slots.held[g]]

Applied(snap) == [last |-> rd.start % GenMod, of |-> snap,
                  tail |-> TailAfter(snap), held |-> HeldAfter(snap)]

(* The second load of the generation, after the acquire fence. *)
Recheck(k) ==
    /\ rd.pc = "read"
    /\ \A f \in Fields : rd.snap[f] # -1
    /\ k \in Larger(rd.sawGen, rd.due)..gen
    /\ slots' = IF k % GenMod = rd.start % GenMod THEN Applied(rd.snap) ELSE slots
    /\ rd' = [rd EXCEPT !.pc = "block", !.sawGen = k, !.snap = [f \in Fields |-> -1]]
    /\ UNCHANGED <<config, gen, stored>>

(* process_block: the enabled effects run, the others keep their state.    *)
ProcessBlock ==
    /\ rd.pc = "block"
    /\ rd' = [rd EXCEPT !.pc = "idle"]
    /\ slots' = [slots EXCEPT
           !.tail = [e \in Effects |-> IF On(slots.of, e) THEN "running"
                                       ELSE IF slots.tail[e] = "running" THEN "stale" ELSE slots.tail[e]],
           !.held = [g \in Groups |-> IF On(slots.of, g) THEN @[g] \union MembersOf(slots.of, g) ELSE @[g]]]
    /\ UNCHANGED <<config, gen, stored>>

(* A store becomes visible to other threads in finite time. *)
GenBecomesVisible == /\ rd.sawGen < gen
                     /\ rd' = [rd EXCEPT !.sawGen = gen]
                     /\ UNCHANGED <<config, gen, stored, slots>>

-----------------------------------------------------------------------------
Publisher == ExitPublish \/ \E f \in Fields : StoreField(f)
Reload    == \/ \E k \in 0..2 * MaxPublishes : LoadGen(k) \/ Recheck(k)
             \/ \E f \in Fields, v \in Versions : LoadField(f, v)
             \/ ProcessBlock

LiveNext == \/ \E c \in Sent : EnterPublish(c)
            \/ Publisher
            \/ Reload
            \/ GenBecomesVisible

LiveSpec == LiveInit /\ [][LiveNext]_liveVars

-----------------------------------------------------------------------------
(* Properties *)

(* The callback never applies a torn set: all fields come from one publish *)
(* (or all from none), although it reads them one by one while the next    *)
(* publish is under way (live.rs 460).                                     *)
TornSetNeverApplied == \A f, g \in Fields : slots.of[f] = slots.of[g]

(* No effect that comes on plays the state it had when it went off, and no *)
(* automix group holds a level or gain of a slot that is not a member.     *)
NoStaleState ==
    rd.pc = "block" => /\ \A e \in Effects : On(slots.of, e) => slots.tail[e] # "stale"
                       /\ \A g \in Groups : slots.held[g] \subseteq MembersOf(slots.of, g)

LiveDspIsSafe == TornSetNeverApplied /\ NoStaleState

(* What a command published is applied, or something newer is: a reload    *)
(* that raced with a publish is made up for by a later block.              *)
PublishedIsApplied == \A v \in Versions : gen >= 2 * v ~> slots.of["order"] >= v
=============================================================================
