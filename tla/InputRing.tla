----------------------------- MODULE InputRing -----------------------------
(***************************************************************************)
(* The ring of one input of a bus (audio/mixer.rs): the capture callback   *)
(* pushes frames, the output callback trims and drains it block by block,  *)
(* and the meter poll reads and clears the dropout counters, all without a *)
(* lock.  A sample is its frame and channel; what it sounds like is left   *)
(* out.  An access to the ring or to a counter is one step.                *)
(***************************************************************************)
EXTENDS Integers, Sequences

CONSTANTS Channels,       \* of the input: 1 or 2
          RingSize,       \* samples, as many as the scratch buffer holds
          Target, HighWater, \* backlogs in frames: TARGET_, MAX_LATENCY_MS
          CaptureBlock, OutputBlock, \* bounds on the blocks, in frames
          MaxFrames,      \* bound on the frames captured
          MaxZeros        \* no block begins after this many zeros were played

ASSUME InputRingAssumption == /\ Channels \in {1, 2}
                              /\ RingSize \in Nat /\ RingSize % Channels = 0
                              /\ {Target, HighWater, CaptureBlock, OutputBlock, MaxFrames, MaxZeros} \subseteq Nat
                              /\ Target <= HighWater

VARIABLES ring,           \* the samples between the two callbacks
          made,           \* samples captured so far
          src,            \* the capture callback
          out,            \* the output callback
          xrun            \* the counters, and what polls have taken from them

ringVars == <<ring, made, src, out, xrun>>

Sample == [frame : Nat, ch : 0..Channels - 1]
SampleOf(k) == [frame |-> k \div Channels, ch |-> k % Channels]

(* left: samples of its block to push; over: those that did not fit.       *)
InCallback == [left : Nat, over : Nat]

(* need: samples the block asks for; drop: those to trim; fill: the length *)
(* of the ring when that was decided, as published for nudge_ratio;        *)
(* scratch: what was popped; since: samples pushed since.                  *)
OutCallback == [pc : {"idle", "trim", "count", "pop", "short", "mix"}, need : Nat, drop : Nat, fill : Nat,
           scratch : Seq(Sample), since : Nat]

Counters == [over : Nat, under : Nat, overSeen : Nat, underSeen : Nat, heard : Nat, zeroed : Nat]

InputRingTypeOK == /\ ring \in Seq(Sample) /\ Len(ring) <= RingSize
                   /\ made \in 0..MaxFrames * Channels
                   /\ src \in InCallback
                   /\ out \in OutCallback
                   /\ xrun \in Counters

Returned == [pc |-> "idle", need |-> 0, drop |-> 0, fill |-> 0, scratch |-> <<>>, since |-> 0]

InputRingInit ==
    /\ ring = <<>>
    /\ made = 0
    /\ src = [left |-> 0, over |-> 0]
    /\ out = Returned
    /\ xrun = [over |-> 0, under |-> 0, overSeen |-> 0, underSeen |-> 0, heard |-> 0, zeroed |-> 0]

-----------------------------------------------------------------------------
(* The capture callback: push_frames, and the sum of what it dropped.      *)
(* Definitions ending in _Bug are mutants.                                 *)

CaptureFrames(n) == /\ src = [left |-> 0, over |-> 0]
              /\ made + n * Channels <= MaxFrames * Channels
              /\ src' = [src EXCEPT !.left = n * Channels]
              /\ UNCHANGED <<ring, made, out, xrun>>

Chunk     == Channels               \* whole frames

PushChunk ==
    /\ src.left > 0
    /\ made' = made + Chunk
    /\ IF RingSize - Len(ring) >= Chunk
       THEN /\ ring' = ring \o [k \in 1..Chunk |-> SampleOf(made + k - 1)]
            /\ src' = [src EXCEPT !.left = @ - Chunk]
       ELSE /\ src' = [src EXCEPT !.left = @ - Chunk, !.over = @ + Chunk]
            /\ UNCHANGED ring
    /\ out' = IF out.pc = "idle" THEN out ELSE [out EXCEPT !.since = @ + Chunk]
    /\ UNCHANGED xrun

Added_Bug(counter, n) == n          \* a store instead of fetch_add
Added(counter, n)     == counter + n

CountPushed == /\ src.left = 0 /\ src.over > 0
               /\ xrun' = [xrun EXCEPT !.over = Added(@, src.over)]
               /\ src' = [src EXCEPT !.over = 0]
               /\ UNCHANGED <<ring, made, out>>

-----------------------------------------------------------------------------
(* The output callback *)

Lesser(a, b) == IF a < b THEN a ELSE b

ResyncDrop(fill, need) ==
    LET backlog == IF fill > need THEN fill - need ELSE 0
        excess  == backlog - Target * Channels
    IN  IF backlog > HighWater * Channels THEN excess - (excess % Channels) ELSE 0

BeginOutput(n) ==
    /\ out.pc = "idle"
    /\ xrun.zeroed < MaxZeros
    /\ LET need == Lesser(n * Channels, RingSize)
           drop == ResyncDrop(Len(ring), need)
       IN  out' = [pc |-> IF drop > 0 THEN "trim" ELSE "pop", need |-> need, drop |-> drop,
                   fill |-> Len(ring), scratch |-> <<>>, since |-> 0]
    /\ UNCHANGED <<ring, made, src, xrun>>

Discard == /\ out.pc = "trim"
           /\ ring' = SubSeq(ring, out.drop + 1, Len(ring))
           /\ out' = [out EXCEPT !.pc = "count"]
           /\ UNCHANGED <<made, src, xrun>>

CountTrimmed == /\ out.pc = "count"
                /\ xrun' = [xrun EXCEPT !.over = Added(@, out.drop)]
                /\ out' = [out EXCEPT !.pc = "pop"]
                /\ UNCHANGED <<ring, made, src>>

(* pop_slice; the rest of the scratch buffer is filled with zeros. *)
PopSlice == /\ out.pc = "pop"
            /\ LET got == Lesser(out.need, Len(ring)) IN
                  /\ out' = [out EXCEPT !.pc = IF got < out.need THEN "short" ELSE "mix",
                                        !.scratch = SubSeq(ring, 1, got)]
                  /\ ring' = SubSeq(ring, got + 1, Len(ring))
                  /\ xrun' = [xrun EXCEPT !.heard = @ + got, !.zeroed = @ + out.need - got]
            /\ UNCHANGED <<made, src>>

CountShort == /\ out.pc = "short"
              /\ xrun' = [xrun EXCEPT !.under = Added(@, out.need - Len(out.scratch))]
              /\ out' = [out EXCEPT !.pc = "mix"]
              /\ UNCHANGED <<ring, made, src>>

Mixed == /\ out.pc = "mix"
         /\ out' = Returned
         /\ UNCHANGED <<ring, made, src, xrun>>

(* read_and_reset_xruns: two swaps *)
PollUnder == /\ xrun.under > 0
             /\ xrun' = [xrun EXCEPT !.underSeen = @ + xrun.under, !.under = 0]
             /\ UNCHANGED <<ring, made, src, out>>

PollOver == /\ xrun.over > 0
            /\ xrun' = [xrun EXCEPT !.overSeen = @ + xrun.over, !.over = 0]
            /\ UNCHANGED <<ring, made, src, out>>

OutputStep == (\E n \in 1..OutputBlock : BeginOutput(n)) \/ Discard \/ CountTrimmed \/ PopSlice
           \/ CountShort \/ Mixed

InputRingNext == (\E n \in 1..CaptureBlock : CaptureFrames(n)) \/ PushChunk \/ CountPushed
                 \/ OutputStep \/ PollUnder \/ PollOver

InputRingSpec == InputRingInit /\ [][InputRingNext]_ringVars

-----------------------------------------------------------------------------
(* The mixer reads left and right of one frame as a pair, whatever was     *)
(* dropped before at either end of the ring (mixer.rs:358).                *)
ChannelsStayPaired ==
    \A k \in DOMAIN out.scratch : /\ out.scratch[k].ch = (k - 1) % Channels
                                  /\ k % Channels = 0 =>
                                        out.scratch[k].frame = out.scratch[k - Channels + 1].frame

(* Every captured sample is in the ring, was heard, or is in the overrun   *)
(* count that a poll has read or will read; every zero that was played in  *)
(* its stead is in the underrun count (mixer.rs:305 and 971).              *)
EverySampleIsCounted ==
    /\ made = Len(ring) + xrun.heard + xrun.over + xrun.overSeen + src.over
                + IF out.pc = "count" THEN out.drop ELSE 0
    /\ xrun.zeroed = xrun.under + xrun.underSeen
                + IF out.pc = "short" THEN out.need - Len(out.scratch) ELSE 0

(* Trimming bounds the delay and costs no sound: a block that trims has    *)
(* all it needs, and a block leaves no more than the high-water mark and   *)
(* what came in while it ran (mixer.rs:393).                               *)
TrimIsSafe == /\ out.pc = "short" => out.drop = 0
              /\ out.pc = "mix" => Len(ring) <= HighWater * Channels + out.since

RingIsSafe == ChannelsStayPaired /\ EverySampleIsCounted /\ TrimIsSafe
=============================================================================
