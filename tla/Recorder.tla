------------------------------ MODULE Recorder ------------------------------
(***************************************************************************)
(* Recording to WAV files: audio/recorder.rs, the tap handling of the      *)
(* output callback of audio/mixer.rs, and the recording commands and       *)
(* tear_down_engine of lib.rs.                                             *)
(*                                                                         *)
(* Three kinds of threads meet here.  Commands run under the lock of the   *)
(* application state, one at a time; stopping a recorder joins its writer  *)
(* with the lock held.  The callback of each engine handles queued tap     *)
(* commands at the start of a block and then pushes one sample at a time   *)
(* to the ring of every tap.  A writer thread per recording pops samples   *)
(* and appends them to its file.  Only the channel of a sample is kept.    *)
(***************************************************************************)
EXTENDS Integers, Sequences, FiniteSets

CONSTANTS Buses,        \* buses that may have an engine
          Recs,         \* recordings: the bound on how many there are at once
          Stereo,       \* the recordings of two channels, the others have one
          RingFrames,   \* RECORDER_RING_FRAMES
          Batch,        \* BATCH of run_writer
          Frames,       \* frames of an output block
          CmdsPerBlock, \* MAX_CMDS_PER_BLOCK
          MaxTaps,      \* MAX_ACTIVE_TAPS
          None          \* no recording or no bus

ASSUME RecorderAssumption == /\ {RingFrames, Batch, Frames, CmdsPerBlock, MaxTaps} \subseteq Nat \ {0}
                             /\ Stereo \subseteq Recs
                             /\ None \notin Recs \union Buses

VARIABLES engine,       \* per bus: whether it has an engine
          queue,        \* per bus: tap commands sent and not yet handled
          active,       \* per bus: the taps the callback holds
          pos,          \* per bus: samples of the block pushed so far; 0 between blocks
          rec,          \* the recordings
          cmd           \* the command that holds the lock

recorderVars == <<engine, queue, active, pos, rec, cmd>>

(* life: "free", "live" (in inner.recorders), "stopping" (taken out of it, *)
(* being joined) or "ended".  dropped and error are what info() reports.   *)
(* turn: the channel the file expects next; skew: it got the other one.    *)
(* owed: samples that were in the ring when stop was called and are still  *)
(* there.  late: a sample was counted as written after the writer's last.  *)
Recording == [life : {"free", "live", "stopping", "ended"}, bus : Buses \union {None},
              ring : Seq({"L", "R"}), stop : BOOLEAN,
              writer : {"none", "batch", "drain", "finalize", "done"}, n : 0..Batch,
              error : BOOLEAN, dropped : BOOLEAN, turn : {"L", "R"}, skew : BOOLEAN,
              owed : Nat, late : BOOLEAN, file : {"none", "open", "whole", "broken", "deleted"}]

NoRecording == [life |-> "free", bus |-> None, ring |-> <<>>, stop |-> FALSE,
                writer |-> "none", n |-> 0, error |-> FALSE, dropped |-> FALSE, turn |-> "L",
                skew |-> FALSE, owed |-> 0, late |-> FALSE, file |-> "none"]

TapCommand == [do : {"add", "remove"}, id : Recs]
Command    == [todo : SUBSET Recs, at : Recs \union {None}, drop : Buses \union {None}]

RecorderTypeOK == /\ engine \in [Buses -> BOOLEAN]
                  /\ queue \in [Buses -> Seq(TapCommand)]
                  /\ active \in [Buses -> SUBSET Recs]
                  /\ pos \in [Buses -> 0..2 * Frames]
                  /\ rec \in [Recs -> Recording]
                  /\ cmd \in Command

Idle == [todo |-> {}, at |-> None, drop |-> None]

RecorderInit == /\ engine = [b \in Buses |-> FALSE]
                /\ queue = [b \in Buses |-> <<>>]
                /\ active = [b \in Buses |-> {}]
                /\ pos = [b \in Buses |-> 0]
                /\ rec = [r \in Recs |-> NoRecording]
                /\ cmd = Idle

-----------------------------------------------------------------------------
(* Commands *)

(* next_tap_id never repeats: a member of Recs stands for a new recording  *)
(* only when nothing refers to the one it stood for.                       *)
Unused == {r \in Recs : /\ rec[r].life \in {"free", "ended"}
                        /\ \A b \in Buses : /\ r \notin active[b]
                                            /\ \A k \in DOMAIN queue[b] : queue[b][k].id # r}

(* mixer::start: an engine comes with a channel and a callback of its own. *)
StartEngine(b) == /\ cmd = Idle
                  /\ ~engine[b]
                  /\ engine' = [engine EXCEPT ![b] = TRUE]
                  /\ UNCHANGED <<queue, active, pos, rec, cmd>>

(* start_recorder creates the file, then the writer, and publishes the tap *)
(* last.  When one of them fails nothing is left: the file is deleted.     *)
Started(b) == [NoRecording EXCEPT !.life = "live", !.bus = b, !.writer = "batch", !.file = "open"]

(* resolve_tap wants a running engine. *)
StartRecording(r, b) ==
    /\ cmd = Idle
    /\ r \in Unused
    /\ engine[b]
    /\ rec' = [rec EXCEPT ![r] = Started(b)]
    /\ queue' = [queue EXCEPT ![b] = Append(@, [do |-> "add", id |-> r])]
    /\ UNCHANGED <<engine, active, pos, cmd>>

(* One recording for each running bus but those whose start fails. *)
StartMaster(tapped, of) ==
    /\ cmd = Idle
    /\ tapped # {}
    /\ \A b \in tapped : engine[b] /\ of[b] \in Unused
    /\ \A b, c \in tapped : b # c => of[b] # of[c]
    /\ rec' = [r \in Recs |-> IF \E b \in tapped : of[b] = r
                              THEN Started(CHOOSE b \in tapped : of[b] = r) ELSE rec[r]]
    /\ queue' = [b \in Buses |-> IF b \in tapped
                                 THEN Append(queue[b], [do |-> "add", id |-> of[b]]) ELSE queue[b]]
    /\ UNCHANGED <<engine, active, pos, cmd>>

Live    == {r \in Recs : rec[r].life = "live"}
LiveOn(b) == {r \in Live : rec[r].bus = b}

(* stop_recording and stop_all_recordings *)
StopRecordings(S) == /\ cmd = Idle
                     /\ S # {}
                     /\ cmd' = [Idle EXCEPT !.todo = S]
                     /\ UNCHANGED <<engine, queue, active, pos, rec>>

(* tear_down_engine: the recorders of the bus are stopped first. *)
TearDown(b) == /\ cmd = Idle
               /\ engine[b]
               /\ cmd' = [Idle EXCEPT !.todo = LiveOn(b), !.drop = b]
               /\ UNCHANGED <<engine, queue, active, pos, rec>>

(* RecorderHandle::stop, up to the join *)
StopOne(r) ==
    LET b == rec[r].bus IN
    /\ cmd.at = None
    /\ r \in cmd.todo
    /\ cmd' = [cmd EXCEPT !.todo = @ \ {r}, !.at = r]
    /\ queue' = [queue EXCEPT ![b] = IF engine[b] THEN Append(@, [do |-> "remove", id |-> r]) ELSE @]
    /\ rec' = [rec EXCEPT ![r].life = "stopping", ![r].stop = TRUE, ![r].owed = Len(rec[r].ring),
                          ![r].error = @ \/ ~engine[b]]
    /\ UNCHANGED <<engine, active, pos>>

(* The join, and the answer.  The lock is given back after the last one    *)
(* unless an engine is to be dropped.  Nobody reads the ring or the        *)
(* counters any more, although the tap may still be pushed to.             *)
Joined(r) == /\ cmd.at = r
             /\ rec[r].writer = "done"
             /\ rec' = [rec EXCEPT ![r].life = "ended", ![r].ring = <<>>]
             /\ cmd' = [cmd EXCEPT !.at = None]
             /\ UNCHANGED <<engine, queue, active, pos>>

(* Dropping the MixerEngine ends its callback, whatever it was doing, and  *)
(* drops the taps and commands it holds.  Definitions ending in _Bug are   *)
(* mutants.                                                                *)
DropEngine_Bug(b) == /\ cmd.drop = b        \* before the recorders are stopped
                     /\ engine' = [engine EXCEPT ![b] = FALSE]
                     /\ queue' = [queue EXCEPT ![b] = <<>>]
                     /\ active' = [active EXCEPT ![b] = {}]
                     /\ pos' = [pos EXCEPT ![b] = 0]
                     /\ cmd' = [cmd EXCEPT !.drop = None]
                     /\ UNCHANGED rec
DropEngine(b) == /\ cmd = [Idle EXCEPT !.drop = b]
                 /\ engine' = [engine EXCEPT ![b] = FALSE]
                 /\ queue' = [queue EXCEPT ![b] = <<>>]
                 /\ active' = [active EXCEPT ![b] = {}]
                 /\ pos' = [pos EXCEPT ![b] = 0]
                 /\ cmd' = [cmd EXCEPT !.drop = None]
                 /\ UNCHANGED rec

(* delete_recording_file takes no lock and knows of no recorder. *)
DeleteFile(r) == /\ rec[r].file \in {"open", "whole", "broken"}
                 /\ rec' = [rec EXCEPT ![r].file = "deleted"]
                 /\ UNCHANGED <<engine, queue, active, pos, cmd>>

-----------------------------------------------------------------------------
(* The output callback of an engine *)

(* An added tap is dropped without a word when there are MaxTaps already.  *)
AfterCommand(S, c) == IF c.do = "remove" THEN S \ {c.id}
                      ELSE IF Cardinality(S) < MaxTaps THEN S \union {c.id} ELSE S

AfterCommands(S, s) ==
    LET after[k \in 0..Len(s)] == IF k = 0 THEN S ELSE AfterCommand(after[k - 1], s[k])
    IN  after[Len(s)]

BeginBlock(b) ==
    LET handled == IF Len(queue[b]) < CmdsPerBlock THEN Len(queue[b]) ELSE CmdsPerBlock IN
    /\ engine[b]
    /\ pos[b] = 0
    /\ active' = [active EXCEPT ![b] = AfterCommands(@, SubSeq(queue[b], 1, handled))]
    /\ queue' = [queue EXCEPT ![b] = SubSeq(@, handled + 1, Len(@))]
    /\ pos' = [pos EXCEPT ![b] = 1]
    /\ UNCHANGED <<engine, rec, cmd>>

(* ActiveTap::push.  The ring does not know whether its reader is alive. *)
RingSize(r) == IF r \in Stereo THEN 2 * RingFrames ELSE RingFrames

Pushed_Bug(r, ch) ==                        \* a drop that is not counted
    IF rec[r].life = "ended" \/ Len(rec[r].ring) >= RingSize(r) THEN rec[r]
    ELSE [rec[r] EXCEPT !.ring = Append(@, ch),
                        !.late = @ \/ rec[r].writer \in {"finalize", "done"}]
Pushed(r, ch) ==
    IF rec[r].life = "ended" THEN rec[r]
    ELSE IF Len(rec[r].ring) < RingSize(r)
    THEN [rec[r] EXCEPT !.ring = Append(@, ch),
                        !.late = @ \/ rec[r].writer \in {"finalize", "done"}]
    ELSE [rec[r] EXCEPT !.dropped = TRUE]

(* The next sample of the block, for every tap that takes its channel. *)
PushSample(b) ==
    LET ch    == IF pos[b] % 2 = 1 THEN "L" ELSE "R"
        takes == {r \in active[b] : ch = "L" \/ r \in Stereo}
    IN  /\ pos[b] > 0
        /\ rec' = [r \in Recs |-> IF r \in takes THEN Pushed(r, ch) ELSE rec[r]]
        /\ pos' = [pos EXCEPT ![b] = (@ + 1) % (2 * Frames + 1)]
        /\ UNCHANGED <<engine, queue, active, cmd>>

-----------------------------------------------------------------------------
(* run_writer *)

Writing_Bug(r) == rec[r].writer \in {"batch", "drain"}     \* a batch has no end
Writing(r) == (rec[r].writer = "batch" /\ rec[r].n < Batch) \/ rec[r].writer = "drain"

Popped(r) == [r EXCEPT !.ring = Tail(@), !.owed = IF @ = 0 THEN 0 ELSE @ - 1]

Following(ch, r) == IF r \in Stereo /\ ch = "L" THEN "R" ELSE "L"

Written(r, x, ch) == [x EXCEPT !.n    = IF x.writer = "batch" THEN @ + 1 ELSE @,
                               !.skew = @ \/ ch # x.turn,
                               !.turn = Following(@, r)]

WriteSample(r) ==
    /\ Writing(r)
    /\ rec[r].ring # <<>>
    /\ rec' = [rec EXCEPT ![r] = Written(r, Popped(@), Head(rec[r].ring))]
    /\ UNCHANGED <<engine, queue, active, pos, cmd>>

(* The disk is full, or gone. *)
WriteFails(r) ==
    /\ Writing(r)
    /\ rec[r].ring # <<>>
    /\ rec' = [rec EXCEPT ![r] = [Popped(@) EXCEPT !.error = TRUE, !.writer = "finalize"]]
    /\ UNCHANGED <<engine, queue, active, pos, cmd>>

(* The end of a batch: the stop flag is looked at, and only here. *)
EndBatch_Bug(r) ==                          \* no final drain
    /\ rec[r].writer = "batch"
    /\ rec[r].n = Batch \/ rec[r].ring = <<>>
    /\ rec' = [rec EXCEPT ![r].n = 0, ![r].writer = IF rec[r].stop THEN "finalize" ELSE "batch"]
    /\ UNCHANGED <<engine, queue, active, pos, cmd>>
EndBatch_Bug2(r) ==                         \* looks at the flag after a full batch only
    /\ rec[r].writer = "batch"
    /\ rec[r].n = Batch \/ rec[r].ring = <<>>
    /\ rec' = [rec EXCEPT ![r].n = 0,
                          ![r].writer = IF rec[r].stop /\ rec[r].n = Batch THEN "drain" ELSE "batch"]
    /\ UNCHANGED <<engine, queue, active, pos, cmd>>
EndBatch(r) ==
    /\ rec[r].writer = "batch"
    /\ rec[r].n = Batch \/ rec[r].ring = <<>>
    /\ rec' = [rec EXCEPT ![r].n = 0, ![r].writer = IF rec[r].stop THEN "drain" ELSE "batch"]
    /\ UNCHANGED <<engine, queue, active, pos, cmd>>

EndDrain(r) == /\ rec[r].writer = "drain"
               /\ rec[r].ring = <<>>
               /\ rec' = [rec EXCEPT ![r].writer = "finalize"]
               /\ UNCHANGED <<engine, queue, active, pos, cmd>>

(* finalize_writer; the first error is the one that is kept. *)
Finalize(r, ok) ==
    /\ rec[r].writer = "finalize"
    /\ rec' = [rec EXCEPT ![r].writer = "done",
                          ![r].error = @ \/ ~ok,
                          ![r].file = IF @ = "deleted" THEN @ ELSE IF ok THEN "whole" ELSE "broken"]
    /\ UNCHANGED <<engine, queue, active, pos, cmd>>

-----------------------------------------------------------------------------
Writer(r) == \/ WriteSample(r) \/ WriteFails(r) \/ EndBatch(r) \/ EndDrain(r)
             \/ \E ok \in BOOLEAN : Finalize(r, ok)

Callback(b) == BeginBlock(b) \/ PushSample(b)

Stopping == \/ \E r \in Recs : StopOne(r) \/ Joined(r)
            \/ \E b \in Buses : DropEngine(b)

RecorderNext == \/ \E b \in Buses : StartEngine(b) \/ TearDown(b) \/ Callback(b)
                \/ \E r \in Recs, b \in Buses : StartRecording(r, b)
                \/ \E tapped \in SUBSET Buses, of \in [Buses -> Recs] : StartMaster(tapped, of)
                \/ \E S \in {{r} : r \in Live} \union {Live} : StopRecordings(S)
                \/ \E r \in Recs : DeleteFile(r) \/ Writer(r)
                \/ Stopping

(* Threads that can run do run.  Nothing is assumed of the callback: the   *)
(* device may be gone, and then it is never called again.                  *)
RecorderFairness == WF_recorderVars(Stopping) /\ \A r \in Recs : WF_recorderVars(Writer(r))

RecorderSpec == RecorderInit /\ [][RecorderNext]_recorderVars /\ RecorderFairness

-----------------------------------------------------------------------------
(* Properties *)

(* What RecordingInfo.error shows: a write error or a lossy recording.     *)
Reported(r) == r.error \/ r.dropped

(* A recorder that has not been stopped, or is being stopped, has a        *)
(* running engine, so the Remove that stop sends finds its channel open    *)
(* (recorder.rs 230: "invariant violation in IPC layer" otherwise).        *)
RemoveFindsEngine == \A r \in Recs : rec[r].life \in {"live", "stopping"} => engine[rec[r].bus]

(* A recording that ended without an error holds all that was in the ring *)
(* when the stop was asked for (the final drain, recorder.rs 482), in a    *)
(* file that was completed, unless the user deleted it.                    *)
StoppedIsComplete == \A r \in Recs : rec[r].life = "ended" /\ ~rec[r].error
                                     => rec[r].owed = 0 /\ rec[r].file \in {"whole", "deleted"}

(* Left and right change places in a file only when a drop is reported:    *)
(* samples are pushed one at a time to a ring that may fill between the    *)
(* two halves of a frame (recorder.rs 160).                                *)
SkewIsReported == \A r \in Recs : rec[r].skew => Reported(rec[r])

(* A stop, and a teardown that waits for it with the application locked,   *)
(* comes back, also when the device is gone and its callback is dead.      *)
StopReturns == cmd # Idle ~> cmd = Idle

(* recorder.rs 482 says the final drain picks up what the engine pushed    *)
(* until Remove arrived, lib.rs 104 that the writer "drains cleanly".      *)
TailIsWritten == \A r \in Recs : rec[r].life = "ended" /\ ~rec[r].error => ~rec[r].late
=============================================================================
