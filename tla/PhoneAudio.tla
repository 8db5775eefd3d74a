----------------------------- MODULE PhoneAudio -----------------------------
(***************************************************************************)
(* The audio of a phone (net/webrtc_peer.rs, net/jitter.rs and             *)
(* audio/remote.rs): read_track puts each RTP packet into the jitter       *)
(* buffer, releases what exceeds the window of the latency mode, decodes   *)
(* it and pushes it to the feeds of the buses, one per rate.               *)
(*                                                                         *)
(* A packet is its number in the phone's stream; the wire carries it       *)
(* modulo SeqMod.  What the audio says is left out: a payload is the       *)
(* number of its packet.                                                   *)
(***************************************************************************)
EXTENDS Integers, Sequences, FiniteSets

CONSTANTS SeqMod,       \* 2^16: sequence numbers wrap
          FirstWires,   \* wire numbers a stream may begin with
          Base,         \* INITIAL_EXT, a multiple of SeqMod
          Reorder,      \* the network delays a packet by fewer packets than this
          LastPacket,   \* bound on the length of the stream
          Window,       \* target_frames of the fixed latency modes
          AdaptFloor, AdaptCeil, AdaptBump, AdaptShrinkAfter,
          Listeners,    \* buses
          RateOf,       \* the rate of each bus
          DriftCadence, DriftStep, MaxTrim

Fixed == DOMAIN Window
Modes == Fixed \union {"adaptive"}
Rates == {RateOf[b] : b \in Listeners}
None  == -1

ASSUME PhoneAudioAssumption ==
    /\ SeqMod \in Nat /\ SeqMod > 0 /\ SeqMod % 2 = 0
    /\ FirstWires \subseteq 0..SeqMod - 1
    /\ Base \in Nat /\ Base % SeqMod = 0
    /\ Reorder \in Nat /\ 2 * Reorder < SeqMod /\ Reorder < Base
    /\ LastPacket \in Nat
    /\ Window \in [Fixed -> Nat] /\ "balanced" \in Fixed
    /\ {AdaptFloor, AdaptCeil, AdaptBump, AdaptShrinkAfter} \subseteq Nat \ {0}
    /\ AdaptFloor <= AdaptCeil
    /\ {DriftCadence, DriftStep, MaxTrim} \subseteq Nat \ {0}

VARIABLES first,        \* what the wire number of packet 0 was
          latency,      \* the session's latency mode
          jb,           \* the jitter buffer of the track
          ticks,        \* what the handler of the last packet released
          upTo,         \* the packet played last before that
          feed          \* the feed of each rate

phoneAudioVars == <<first, latency, jb, ticks, upTo, feed>>

Ext     == Int
Packets == 0..LastPacket

(* frames: the payload under each extended number; highest, next: extended *)
(* numbers or None; target, clean: the controller of the adaptive mode.    *)
JitterTypeOK ==
    /\ DOMAIN jb = {"frames", "highest", "next", "target", "clean"}
    /\ DOMAIN jb.frames \subseteq Nat /\ \A e \in DOMAIN jb.frames : jb.frames[e] \in Packets
    /\ {jb.highest, jb.next} \subseteq Nat \union {None}
    /\ jb.target \in AdaptFloor..AdaptCeil
    /\ jb.clean \in 0..AdaptShrinkAfter - 1

Tick == [kind : {"decode", "recover"}, of : -1..LastPacket] \union [kind : {"conceal"}]

(* A feed that is not there has no subscribers.  exact: the step of the    *)
(* resampler is the untrimmed ratio; fixed: the last push was not          *)
(* adaptive.                                                               *)
Feed == [subs : SUBSET Listeners, trim : -MaxTrim..MaxTrim, stepTrim : -MaxTrim..MaxTrim,
         pushes : 0..DriftCadence - 1, fixed : BOOLEAN]

PhoneAudioTypeOK == /\ first \in 0..SeqMod - 1
                    /\ latency \in Modes
                    /\ JitterTypeOK
                    /\ ticks \in Seq(Tick)
                    /\ upTo \in Packets \union {None}
                    /\ feed \in [Rates -> Feed]

Empty     == [e \in {} |-> 0]
NewBuffer == [frames |-> Empty, highest |-> None, next |-> None, target |-> AdaptFloor, clean |-> 0]
NewFeed   == [subs |-> {}, trim |-> 0, stepTrim |-> 0, pushes |-> 0, fixed |-> TRUE]

PhoneAudioInit == /\ first \in FirstWires
                  /\ latency = "balanced"
                  /\ jb = NewBuffer
                  /\ ticks = <<>>
                  /\ upTo = None
                  /\ feed = [r \in Rates |-> NewFeed]

-----------------------------------------------------------------------------
(* The jitter buffer.  Definitions ending in _Bug are mutants. *)

Smallest(S) == CHOOSE x \in S : \A y \in S : x <= y
Least(a, b) == IF a < b THEN a ELSE b
Most(a, b)  == IF a < b THEN b ELSE a

(* extend: the number nearest to the highest one; i16 wraps at SeqMod/2. *)
Extend_Bug(h, seq) == h + ((seq - h) % SeqMod)
Extend(h, seq)     == h + ((seq - h + SeqMod \div 2) % SeqMod) - SeqMod \div 2

Inserted(j, seq, p) ==
    LET e == IF j.highest = None THEN Base + seq ELSE Extend(j.highest, seq)
        seen == [j EXCEPT !.highest = Most(@, e)]
    IN  IF j.next # None /\ e < j.next THEN seen
        ELSE [seen EXCEPT !.frames = [x \in DOMAIN @ \union {e} |-> IF x = e THEN p ELSE @[x]]]

Without(f, e) == [x \in DOMAIN f \ {e} |-> f[x]]
Oldest(j)     == Smallest(DOMAIN j.frames)
NextOf(j)     == IF j.next = None THEN Oldest(j) ELSE j.next

NotedClean(j) == IF j.clean + 1 < AdaptShrinkAfter THEN [j EXCEPT !.clean = @ + 1]
                 ELSE [j EXCEPT !.clean = 0, !.target = Most(@ - 1, AdaptFloor)]
NotedLoss(j)  == [j EXCEPT !.clean = 0, !.target = Least(@ + AdaptBump, AdaptCeil)]

Decoded(j)   == [jb |-> [j EXCEPT !.next = NextOf(j) + 1, !.frames = Without(@, NextOf(j))],
                 tick |-> [kind |-> "decode", of |-> j.frames[NextOf(j)]]]
Concealed(j) == [jb |-> [j EXCEPT !.next = Oldest(j)], tick |-> [kind |-> "conceal"]]
Recovered(j) == [jb |-> [j EXCEPT !.next = @ + 1],
                 tick |-> [kind |-> "recover", of |-> j.frames[j.next + 1] - 1]]

(* drain_one and drain_one_adaptive on a buffer above its window *)
DrainOne(j) == IF NextOf(j) \in DOMAIN j.frames THEN Decoded(j) ELSE Concealed(j)

DrainOneAdaptive(j) ==
    IF NextOf(j) \in DOMAIN j.frames THEN Decoded(NotedClean(j))
    ELSE IF Oldest(j) = j.next + 1 THEN Recovered(NotedLoss(j))
    ELSE Concealed(NotedLoss(j))

(* The loop of read_track; two rounds release a frame, the first of them   *)
(* stepping over the gap before it.                                        *)
Above(j, mode) == Cardinality(DOMAIN j.frames) > IF mode = "adaptive" THEN j.target ELSE Window[mode]

Drained(j, mode) ==
    LET n == 2 * Cardinality(DOMAIN j.frames)
        round[k \in 0..n] ==
            IF k = 0 THEN [jb |-> j, out |-> <<>>]
            ELSE LET r == round[k - 1] IN
                 IF ~Above(r.jb, mode) THEN r
                 ELSE LET d == IF mode = "adaptive" THEN DrainOneAdaptive(r.jb) ELSE DrainOne(r.jb)
                      IN  [jb |-> d.jb, out |-> Append(r.out, d.tick)]
    IN  round[n]

-----------------------------------------------------------------------------
(* The feeds *)

(* push_decoded_48k for one feed.  error: which side of the half-full ring *)
(* the average fill is on, or 0 within the dead band.                      *)
Restored(f)     == [f EXCEPT !.trim = 0, !.stepTrim = 0]

Clamp(x) == Most(-MaxTrim, Least(x, MaxTrim))
Steered(f, error) == LET t == Clamp(f.trim + error * DriftStep) IN
                     IF error = 0 THEN f ELSE [f EXCEPT !.trim = t, !.stepTrim = t]

Pushed1(f, adaptive, error) ==
    LET g == [f EXCEPT !.fixed = ~adaptive] IN
    IF ~adaptive THEN (IF g.trim # 0 THEN Restored(g) ELSE g)
    ELSE IF g.pushes + 1 < DriftCadence THEN [g EXCEPT !.pushes = @ + 1]
    ELSE Steered([g EXCEPT !.pushes = 0], error)

PushedTimes(f, adaptive, error, times) ==
    LET after[k \in 0..times] == IF k = 0 THEN f ELSE Pushed1(after[k - 1], adaptive, error)
    IN  IF f.subs = {} THEN f ELSE after[times]

(* read_track: one packet.  played of the ticks give samples, as decoding  *)
(* one may fail.                                                           *)
LastOf(out, before) ==
    LET last[k \in 0..Len(out)] ==
            IF k = 0 THEN before
            ELSE IF out[k].kind = "conceal" THEN last[k - 1] ELSE out[k].of
    IN  last[Len(out)]

(* The packet that happens to arrive first is number Reorder, as some sent *)
(* before it may still come; the others are near the newest so far.        *)
Wire(p) == (first + p) % SeqMod
Newest  == jb.highest - (Base + Wire(Reorder)) + Reorder
Near(p) == IF jb.highest = None THEN p = Reorder
           ELSE p \in (Newest - Reorder)..(Newest + Reorder)

Arrive(p) ==
    /\ Near(p)
    /\ LET after == Drained(Inserted(jb, Wire(p), p), latency) IN
          /\ jb' = after.jb
          /\ ticks' = after.out
          /\ \E played \in 0..Len(after.out), error \in {-1, 0, 1} :
                feed' = [r \in Rates |-> PushedTimes(feed[r], latency = "adaptive", error, played)]
    /\ upTo' = LastOf(ticks, upTo)
    /\ UNCHANGED <<first, latency>>

(* phone_set_latency_mode *)
SetLatency(mode) == /\ mode # latency
                    /\ latency' = mode
                    /\ UNCHANGED <<first, jb, ticks, upTo, feed>>

(* subscribe_phone and the drop of a RemoteSubscription; the feed goes     *)
(* with the last of them.                                                  *)
WithoutListener(f, b) == IF f.subs = {b} THEN NewFeed ELSE [f EXCEPT !.subs = @ \ {b}]

SubscribePhone(b) == /\ b \notin feed[RateOf[b]].subs
                     /\ feed' = [feed EXCEPT ![RateOf[b]].subs = @ \union {b}]
                     /\ UNCHANGED <<first, latency, jb, ticks, upTo>>

DropSubscription(b) ==
    /\ b \in feed[RateOf[b]].subs
    /\ feed' = [feed EXCEPT ![RateOf[b]] = WithoutListener(@, b)]
    /\ UNCHANGED <<first, latency, jb, ticks, upTo>>

PhoneAudioNext == \/ \E p \in Packets : Arrive(p)
                  \/ \E m \in Modes : SetLatency(m)
                  \/ \E b \in Listeners : SubscribePhone(b) \/ DropSubscription(b)

PhoneAudioSpec == PhoneAudioInit /\ [][PhoneAudioNext]_phoneAudioVars

-----------------------------------------------------------------------------
(* What is played is in the order it was spoken: however packets are       *)
(* reordered, lost or doubled, across the wrap of the sequence numbers and *)
(* through every change of the latency mode, a decoded or reconstructed    *)
(* frame is later than everything played before it (jitter.rs:193, 265).   *)
PlayedInOrder ==
    \A k \in DOMAIN ticks : ticks[k].kind # "conceal" =>
        ticks[k].of > LastOf(SubSeq(ticks, 1, k - 1), upTo)

(* A feed that was last pushed to in a fixed mode plays at the exact rate, *)
(* and one the compensator steers at the rate it believes it set           *)
(* (remote.rs:239): no trim outlives the adaptive mode.                    *)
FixedModeIsExact == \A r \in Rates : /\ feed[r].stepTrim = feed[r].trim
                                     /\ feed[r].fixed => feed[r].stepTrim = 0

PhoneAudioIsSafe == PlayedInOrder /\ FixedModeIsExact
=============================================================================
