---------------------------- MODULE EngineStart ----------------------------
(***************************************************************************)
(* The life of an engine (audio/mixer.rs, audio/metering_tap.rs): start    *)
(* spawns a thread that opens the output, then the inputs one by one, and  *)
(* reports once; dropping the handle tells the thread to release           *)
(* everything and waits for it.  A metering tap goes through the same      *)
(* hand-shake with one input and no output.  What runs in the callbacks is *)
(* left to the modules of the ring, the live parameters and the recorder.  *)
(***************************************************************************)
EXTENDS Naturals, Sequences

CONSTANTS Specs,        \* lists of sources an engine is started with
          MaxInputs     \* MAX_INPUTS

(* What the operating system says to an attempt to open something. *)
Kinds == {"device", "loopback", "phone"}

ASSUME EngineStartAssumption == MaxInputs \in Nat /\ Specs \subseteq Seq(Kinds)

VARIABLES caller,       \* start, the handle or the drop
          thread,       \* the engine's thread
          specs,        \* the sources asked for
          built,        \* the vectors the loop over the inputs fills
          open          \* streams and subscriptions that hold something

startVars == <<caller, thread, specs, built, open>>

(* Everything an engine may hold: its output stream, and by the number of  *)
(* the input a stream or a subscription.                                   *)
Holders == [streams : SUBSET Nat, loopbacks : SUBSET Nat, phones : SUBSET Nat, output : BOOLEAN]

(* One entry per input in each; silent is the error text of the slot.      *)
Vectors == [consumers : Seq(Kinds), channels : Seq(Kinds), errors : Seq({"none", "silent"}),
            fills : Seq(Kinds)]

EngineStartTypeOK ==
    /\ caller \in [pc : {"none", "starting", "running", "failed", "dropping", "dropped"},
                   inputs : Seq(Kinds \X {"none", "silent"}), tap : BOOLEAN]
    /\ thread \in {"none", "output", "inputs", "build", "play", "parked", "drop output", "drop inputs",
                   "drop subscriptions", "drop phones", "undo", "ended"}
    /\ specs \in Seq(Kinds)
    /\ built \in Vectors
    /\ open \in Holders

Nothing == [streams |-> {}, loopbacks |-> {}, phones |-> {}, output |-> FALSE]
NoSlots == [consumers |-> <<>>, channels |-> <<>>, errors |-> <<>>, fills |-> <<>>]

EngineStartInit == /\ caller = [pc |-> "none", inputs |-> <<>>, tap |-> FALSE]
                   /\ thread = "none"
                   /\ specs = <<>>
                   /\ built = NoSlots
                   /\ open = Nothing

-----------------------------------------------------------------------------
(* The calling thread *)

Idle == caller.pc \in {"none", "failed", "dropped"}

(* Refused before a thread exists: no inputs, or more than the limit. *)
Startable(s) == s # <<>> /\ Len(s) <= MaxInputs

Start(s) == /\ Idle
            /\ specs' = s
            /\ built' = NoSlots
            /\ IF Startable(s)
               THEN caller' = [pc |-> "starting", inputs |-> <<>>, tap |-> FALSE] /\ thread' = "output"
               ELSE caller' = [pc |-> "failed", inputs |-> <<>>, tap |-> FALSE] /\ thread' = "none"
            /\ UNCHANGED open

StartTap == /\ Idle
            /\ specs' = <<"device">>
            /\ built' = NoSlots
            /\ caller' = [pc |-> "starting", inputs |-> <<>>, tap |-> TRUE]
            /\ thread' = "inputs"
            /\ UNCHANGED open

(* Drop: send on the stop channel, which has room for one, then join. *)
DropEngine == /\ caller.pc = "running"
              /\ caller' = [caller EXCEPT !.pc = "dropping"]
              /\ UNCHANGED <<thread, specs, built, open>>

JoinEngine == /\ caller.pc = "dropping"
              /\ thread = "ended"
              /\ caller' = [caller EXCEPT !.pc = "dropped", !.inputs = <<>>]
              /\ UNCHANGED <<thread, specs, built, open>>

-----------------------------------------------------------------------------
(* The engine's thread.  Definitions ending in _Bug are mutants. *)

At(pc)  == thread = pc
Goto(pc) == thread' = pc
Quiet   == UNCHANGED <<caller, specs>>

(* The device is there, says what it can do, and that is one or two        *)
(* channels; or the start fails.                                           *)
FindOutput == At("output") /\ Goto("inputs") /\ Quiet /\ UNCHANGED <<built, open>>

Fails == /\ \/ At("output") \/ At("build") \/ At("play")
            \/ At("inputs") /\ Len(built.consumers) < Len(specs)
               /\ specs[Len(built.consumers) + 1] = "device"
         /\ Goto("undo")
         /\ Quiet
         /\ UNCHANGED <<built, open>>

Here  == Len(built.consumers) + 1
Turn(kind) == At("inputs") /\ Here <= Len(specs) /\ specs[Here] = kind

WithSlot(kind, error) ==
    [consumers |-> Append(built.consumers, kind), channels |-> Append(built.channels, kind),
     errors |-> Append(built.errors, error), fills |-> Append(built.fills, kind)]

(* A stream that fails to open fails the start. *)
AddDevice == /\ Turn("device")
             /\ built' = WithSlot("device", "none")
             /\ open' = [open EXCEPT !.streams = @ \union {Here}]
             /\ UNCHANGED thread /\ Quiet

(* A capture that fails leaves a silent slot. *)
AddLoopback == /\ Turn("loopback")
               /\ \/ /\ built' = WithSlot("loopback", "none")
                     /\ open' = [open EXCEPT !.loopbacks = @ \union {Here}]
                  \/ /\ built' = WithSlot("loopback", "silent")
                     /\ UNCHANGED open
               /\ UNCHANGED thread /\ Quiet

PhoneSlot_Bug == [WithSlot("phone", "none") EXCEPT !.errors = built.errors]
PhoneSlot     == WithSlot("phone", "none")

AddPhone == /\ Turn("phone")
            /\ built' = PhoneSlot
            /\ open' = [open EXCEPT !.phones = @ \union {Here}]
            /\ UNCHANGED thread /\ Quiet

AllAdded == /\ At("inputs")
            /\ Here > Len(specs)
            /\ Goto(IF caller.tap THEN "play" ELSE "build")
            /\ Quiet /\ UNCHANGED <<built, open>>

BuildOutput == /\ At("build")
               /\ Goto("play")
               /\ open' = [open EXCEPT !.output = TRUE]
               /\ Quiet /\ UNCHANGED built

(* Every stream plays: the thread reports what it has built and parks.     *)
(* The handle's inputs are zipped from the sources and two of the vectors. *)
Shortest(a, b) == IF a < b THEN a ELSE b
Zipped == [k \in 1..Shortest(Len(specs), Shortest(Len(built.channels), Len(built.errors))) |->
              <<specs[k], built.errors[k]>>]

Report == /\ At("play")
          /\ Goto("parked")
          /\ caller' = [caller EXCEPT !.pc = "running", !.inputs = Zipped]
          /\ UNCHANGED <<specs, built, open>>

(* An error drops what was opened before it is reported, the output first. *)
ReportError == /\ At("undo")
               /\ Goto("ended")
               /\ open' = Nothing
               /\ caller' = [caller EXCEPT !.pc = "failed"]
               /\ UNCHANGED <<specs, built>>

ReceiveStop == At("parked") /\ caller.pc = "dropping" /\ Goto("drop output") /\ Quiet /\ UNCHANGED <<built, open>>

Released(from, to, what) == At(from) /\ Goto(to) /\ open' = what /\ Quiet /\ UNCHANGED built

DropOutput == Released("drop output", "drop inputs", [open EXCEPT !.output = FALSE])
DropInputs == Released("drop inputs", "drop subscriptions", [open EXCEPT !.streams = {}])
DropSubscriptions == Released("drop subscriptions", "drop phones", [open EXCEPT !.loopbacks = {}])
DropPhones == Released("drop phones", "ended", [open EXCEPT !.phones = {}])

EngineThread == FindOutput \/ Fails \/ AddDevice \/ AddLoopback \/ AddPhone \/ AllAdded \/ BuildOutput
                \/ Report \/ ReportError \/ ReceiveStop \/ DropOutput \/ DropInputs \/ DropSubscriptions
                \/ DropPhones

EngineStartNext == \/ \E s \in Specs : Start(s)
                   \/ StartTap \/ DropEngine \/ JoinEngine
                   \/ EngineThread

EngineStartFairness == WF_startVars(EngineThread) /\ WF_startVars(JoinEngine)
EngineStartSpec == EngineStartInit /\ [][EngineStartNext]_startVars

-----------------------------------------------------------------------------
(* A running engine has one slot per source it was asked for, in order and *)
(* with its own error, whatever failed on the way: a vector that missed an *)
(* entry would give every later input the meter of another (mixer.rs:806). *)
SlotsAreAligned ==
    caller.pc = "running" =>
        /\ Len(caller.inputs) = Len(specs)
        /\ built.consumers = specs /\ built.fills = specs
        /\ \A k \in DOMAIN specs :
              /\ caller.inputs[k][1] = specs[k]
              /\ caller.inputs[k][2] = "silent" <=>
                    ~(k \in open.streams \union open.loopbacks \union open.phones)

(* Once start has failed or the drop has returned nothing is open, so the  *)
(* device can be opened again at once; and the output callback never runs  *)
(* without the sources it drains (mixer.rs:1252, metering_tap.rs:62).      *)
ReleasedOnReturn ==
    /\ Idle => open = Nothing
    /\ open.output => \A k \in DOMAIN built.errors : built.errors[k] = "none" =>
                         k \in open.streams \union open.loopbacks \union open.phones

EngineIsSafe == SlotsAreAligned /\ ReleasedOnReturn

(* start and drop return. *)
StartAndDropReturn == caller.pc \in {"starting", "dropping"} ~> caller.pc \notin {"starting", "dropping"}
=============================================================================
