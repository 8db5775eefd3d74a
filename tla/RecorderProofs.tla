---------------------------- MODULE RecorderProofs ----------------------------
(***************************************************************************)
(* Theorems about Recorder, for any buses, recordings and ring sizes: a    *)
(* recorder ends before its engine, and a recording that reports no error  *)
(* holds all that was asked for.                                           *)
(***************************************************************************)
EXTENDS Recorder, WellFoundedInduction, TLAPS

-----------------------------------------------------------------------------
(* The inductive invariant *)

PartTypes == /\ engine \in [Buses -> BOOLEAN]
             /\ rec \in [Recs -> Recording]
             /\ cmd \in Command

(* A recorder that is not stopped, or being stopped, has a running engine. *)
EngineInv == \A r \in Recs : rec[r].life \in {"live", "stopping"}
                             => rec[r].bus \in Buses /\ engine[rec[r].bus]

(* Only the command under way stops recorders, and one that is about to    *)
(* drop an engine has all the live recorders of its bus yet to stop.       *)
LockInv == /\ \A r \in Recs : rec[r].life = "stopping" <=> cmd.at = r
           /\ \A r \in cmd.todo : rec[r].life = "live"
           /\ \A r \in Recs : rec[r].life = "live" /\ rec[r].bus = cmd.drop => r \in cmd.todo

(* A writer leaves its loop for the final drain only when told to stop,    *)
(* and the drain only with an error or when all that was owed is written.  *)
Orderly(x) == /\ x.life = "live" => ~x.stop
              /\ x.life = "ended" => x.writer = "done"
              /\ x.writer = "drain" => x.stop
              /\ x.writer \in {"batch", "drain"} => x.owed <= Len(x.ring)
              /\ x.writer \in {"finalize", "done"} /\ ~x.error => x.stop /\ x.owed = 0
              /\ x.writer = "done" /\ ~x.error => x.file \in {"whole", "deleted"}

WriterInv == \A r \in Recs : Orderly(rec[r])

Inv == PartTypes /\ EngineInv /\ LockInv /\ WriterInv

-----------------------------------------------------------------------------
(* How one recording changes *)

(* What the assumptions give of the constants.                             *)
LEMMA Constants == Batch \in Nat /\ 0 \in 0..Batch /\ None \notin Buses /\ None \notin Recs
  BY RecorderAssumption

(* A recording that starts is on its bus, and nothing is owed.             *)
LEMMA StartedIsOrderly ==
    ASSUME NEW b \in Buses
    PROVE  /\ Started(b) \in Recording /\ Orderly(Started(b))
           /\ Started(b).life = "live" /\ Started(b).bus = b
  <1>1. <<>> \in Seq({"L", "R"}) /\ Len(<<>>) = 0
    OBVIOUS
  <1>2. NoRecording \in Recording
    BY <1>1, Constants DEF NoRecording, Recording
  <1>3. /\ NoRecording.owed = 0 /\ NoRecording.ring = <<>> /\ ~NoRecording.stop
        /\ ~NoRecording.error
    BY DEF NoRecording
  <1>4. Started(b) \in Recording
    BY <1>2 DEF Started, Recording
  <1>5. /\ Started(b).life = "live" /\ Started(b).bus = b /\ Started(b).writer = "batch"
        /\ Started(b).owed = NoRecording.owed /\ Started(b).ring = NoRecording.ring
        /\ Started(b).stop = NoRecording.stop
    BY <1>2 DEF Started, Recording
  <1> QED BY <1>1, <1>3, <1>4, <1>5 DEF Orderly

(* No command is a command with nothing to do.                             *)
LEMMA IdleIsCommand == Idle \in Command /\ Idle.todo = {} /\ Idle.at = None /\ Idle.drop = None
  BY DEF Idle, Command

(* A push keeps what the writer owes, and who the recording belongs to.    *)
LEMMA PushKeeps ==
    ASSUME PartTypes, NEW r \in Recs, NEW ch \in {"L", "R"}, Orderly(rec[r])
    PROVE  /\ Pushed(r, ch) \in Recording /\ Orderly(Pushed(r, ch))
           /\ Pushed(r, ch).life = rec[r].life /\ Pushed(r, ch).bus = rec[r].bus
  <1> DEFINE x == rec[r]
             y == [x EXCEPT !.ring = Append(@, ch), !.late = @ \/ x.writer \in {"finalize", "done"}]
  <1>1. x \in Recording
    BY DEF PartTypes
  <1>2. Append(x.ring, ch) \in Seq({"L", "R"}) /\ Len(Append(x.ring, ch)) = Len(x.ring) + 1
    BY <1>1 DEF Recording
  <1>3. y \in Recording
    BY <1>1, <1>2 DEF Recording
  <1>4. Orderly(y)
    BY <1>1, <1>2 DEF Orderly, Recording
  <1>5. [x EXCEPT !.dropped = TRUE] \in Recording /\ Orderly([x EXCEPT !.dropped = TRUE])
    <2> DEFINE z == [x EXCEPT !.dropped = TRUE]
    <2>1. /\ z.life = x.life /\ z.stop = x.stop /\ z.writer = x.writer /\ z.owed = x.owed
          /\ z.ring = x.ring /\ z.error = x.error /\ z.file = x.file /\ z \in Recording
      BY <1>1 DEF Recording
    <2> HIDE DEF z
    <2>2. Orderly(z)
      BY <2>1 DEF Orderly
    <2> QED BY <2>1, <2>2 DEF z
  <1> QED BY <1>1, <1>3, <1>4, <1>5 DEF Pushed, Recording

(* A sample taken from the ring is one that is not owed any more.          *)
LEMMA PopKeeps ==
    ASSUME NEW x \in Recording, Orderly(x), x.ring # <<>>, x.writer \in {"batch", "drain"}
    PROVE  /\ Popped(x) \in Recording
           /\ Popped(x) = [x EXCEPT !.ring = Tail(x.ring), !.owed = IF x.owed = 0 THEN 0 ELSE x.owed - 1]
           /\ Popped(x).owed <= Len(Popped(x).ring)
  <1>1. Tail(x.ring) \in Seq({"L", "R"}) /\ Len(Tail(x.ring)) = Len(x.ring) - 1 /\ Len(x.ring) \in Nat
    BY DEF Recording
  <1>2. x.owed \in Nat /\ x.owed <= Len(x.ring) /\ Len(x.ring) # 0
    BY DEF Recording, Orderly
  <1> DEFINE y == [x EXCEPT !.ring = Tail(x.ring), !.owed = IF x.owed = 0 THEN 0 ELSE x.owed - 1]
  <1>3. Popped(x) = y
    BY DEF Popped
  <1>4. y \in Recording
    <2>1. (IF x.owed = 0 THEN 0 ELSE x.owed - 1) \in Nat
      BY <1>2
    <2>2. ASSUME NEW t \in Seq({"L", "R"}), NEW v \in Nat
          PROVE  [x EXCEPT !.ring = t, !.owed = v] \in Recording
      BY DEF Recording
    <2> QED BY <1>1, <2>1, <2>2
  <1>5. y.owed <= Len(y.ring)
    BY <1>1, <1>2 DEF Recording
  <1> QED BY <1>3, <1>4, <1>5

-----------------------------------------------------------------------------
(* Steps that change recordings and leave engines and the lock alone *)

(* A step on one recording that stays on its bus and in its life.          *)
LEMMA OneRecording ==
    ASSUME Inv, NEW r \in Recs, NEW x, rec' = [rec EXCEPT ![r] = x],
           x \in Recording, Orderly(x), x.life = rec[r].life, x.bus = rec[r].bus,
           UNCHANGED <<engine, cmd>>
    PROVE  Inv'
  <1>1. PartTypes'
    BY DEF Inv, PartTypes
  <1>2. \A q \in Recs : rec'[q].life = rec[q].life /\ rec'[q].bus = rec[q].bus
    BY DEF Inv, PartTypes
  <1>3. cmd.todo \subseteq Recs
    BY DEF Inv, PartTypes, Command
  <1>4. EngineInv' /\ LockInv'
    BY <1>2, <1>3 DEF Inv, EngineInv, LockInv
  <1>5. WriterInv'
    BY DEF Inv, WriterInv, PartTypes
  <1> QED BY <1>1, <1>4, <1>5 DEF Inv

(* A writer pops, writes, fails, drains or finalises.                      *)
LEMMA WriterKeepsInv == ASSUME Inv, NEW r \in Recs, Writer(r) PROVE Inv'
  <1> DEFINE x == rec[r]
  <1>0. x \in Recording /\ Orderly(x)
    BY DEF Inv, PartTypes, WriterInv
  <1>1. CASE WriteSample(r)
    <2> DEFINE y == Written(r, Popped(x), Head(x.ring))
    <2>1. x.ring # <<>> /\ x.writer \in {"batch", "drain"} /\ (x.writer = "batch" => x.n < Batch)
      BY <1>1 DEF WriteSample, Writing
    <2>2. rec' = [rec EXCEPT ![r] = y] /\ UNCHANGED <<engine, cmd>>
      BY <1>1 DEF WriteSample
    <2>3. /\ Popped(x) \in Recording /\ Popped(x).owed <= Len(Popped(x).ring)
          /\ Popped(x) = [x EXCEPT !.ring = Tail(x.ring), !.owed = IF x.owed = 0 THEN 0 ELSE x.owed - 1]
      BY <1>0, <2>1, PopKeeps
    <2>4. y \in Recording
      <3>1. (IF x.writer = "batch" THEN Popped(x).n + 1 ELSE Popped(x).n) \in 0..Batch
        BY <1>0, <2>1, <2>3, Constants DEF Recording
      <3>2. Following(Popped(x).turn, r) \in {"L", "R"}
        BY DEF Following
      <3>3. (Popped(x).skew \/ Head(x.ring) # Popped(x).turn) \in BOOLEAN
        OBVIOUS
      <3>4. Popped(x).writer = x.writer
        BY <1>0, <2>3 DEF Recording
      <3> QED BY <2>3, <3>1, <3>2, <3>3, <3>4, ZenonT(30) DEF Written, Recording
    <2>5. /\ y.life = x.life /\ y.bus = x.bus /\ y.stop = x.stop /\ y.writer = x.writer
          /\ y.owed = Popped(x).owed /\ y.ring = Popped(x).ring
      BY <1>0, <2>3 DEF Written, Recording
    <2>6. Orderly(y)
      BY <1>0, <2>1, <2>3, <2>5 DEF Orderly
    <2> QED BY <2>2, <2>4, <2>5, <2>6, OneRecording
  <1>2. CASE WriteFails(r)
    <2> DEFINE y == [Popped(x) EXCEPT !.error = TRUE, !.writer = "finalize"]
    <2>1. x.ring # <<>> /\ x.writer \in {"batch", "drain"}
      BY <1>2 DEF WriteFails, Writing
    <2>2. rec' = [rec EXCEPT ![r] = y] /\ UNCHANGED <<engine, cmd>>
      BY <1>2 DEF WriteFails, Inv, PartTypes
    <2>3. /\ Popped(x) \in Recording
          /\ Popped(x) = [x EXCEPT !.ring = Tail(x.ring), !.owed = IF x.owed = 0 THEN 0 ELSE x.owed - 1]
      BY <1>0, <2>1, PopKeeps
    <2>4. y \in Recording
      BY <2>3 DEF Recording
    <2>5. y.life = x.life /\ y.bus = x.bus /\ y.stop = x.stop /\ y.writer = "finalize" /\ y.error
      BY <1>0, <2>3 DEF Recording
    <2>6. Orderly(y)
      BY <1>0, <2>1, <2>5 DEF Orderly
    <2> QED BY <2>2, <2>4, <2>5, <2>6, OneRecording
  <1>3. CASE EndBatch(r)
    <2> DEFINE y == [x EXCEPT !.n = 0, !.writer = IF x.stop THEN "drain" ELSE "batch"]
    <2>1. rec' = [rec EXCEPT ![r] = y] /\ UNCHANGED <<engine, cmd>> /\ x.writer = "batch"
      BY <1>3 DEF EndBatch, Inv, PartTypes
    <2>2. y \in Recording /\ Orderly(y) /\ y.life = x.life /\ y.bus = x.bus
      BY <1>0, <2>1, Constants DEF Recording, Orderly
    <2> QED BY <2>1, <2>2, OneRecording
  <1>4. CASE EndDrain(r)
    <2> DEFINE y == [x EXCEPT !.writer = "finalize"]
    <2>1. /\ rec' = [rec EXCEPT ![r] = y] /\ UNCHANGED <<engine, cmd>>
          /\ x.writer = "drain" /\ Len(x.ring) = 0
      BY <1>4 DEF EndDrain, Inv, PartTypes
    <2>2. y \in Recording /\ Orderly(y) /\ y.life = x.life /\ y.bus = x.bus
      BY <1>0, <2>1 DEF Recording, Orderly
    <2> QED BY <2>1, <2>2, OneRecording
  <1>5. ASSUME NEW ok \in BOOLEAN, Finalize(r, ok) PROVE Inv'
    <2> DEFINE y == [x EXCEPT !.writer = "done", !.error = @ \/ ~ok,
                              !.file = IF @ = "deleted" THEN @ ELSE IF ok THEN "whole" ELSE "broken"]
    <2>1. rec' = [rec EXCEPT ![r] = y] /\ UNCHANGED <<engine, cmd>> /\ x.writer = "finalize"
      BY <1>5 DEF Finalize, Inv, PartTypes
    <2>2. y \in Recording /\ Orderly(y) /\ y.life = x.life /\ y.bus = x.bus
      BY <1>0, <2>1, ZenonT(30) DEF Recording, Orderly
    <2> QED BY <2>1, <2>2, OneRecording
  <1> QED BY <1>1, <1>2, <1>3, <1>4, <1>5 DEF Writer

-----------------------------------------------------------------------------
(* The callback, and commands *)

(* The callback handles commands, or pushes a sample to some taps.         *)
LEMMA CallbackKeepsInv == ASSUME Inv, NEW b \in Buses, Callback(b) PROVE Inv'
  <1>1. CASE BeginBlock(b)
    <2>1. UNCHANGED <<engine, rec, cmd>>
      BY <1>1 DEF BeginBlock
    <2> QED BY <2>1 DEF Inv, PartTypes, EngineInv, LockInv, WriterInv
  <1>2. CASE PushSample(b)
    <2>1. UNCHANGED <<engine, cmd>>
      BY <1>2 DEF PushSample
    <2>2. PICK ch \in {"L", "R"}, takes \in SUBSET active[b] :
            rec' = [r \in Recs |-> IF r \in takes THEN Pushed(r, ch) ELSE rec[r]]
      BY <1>2 DEF PushSample
    <2>3. \A r \in Recs : /\ rec'[r] \in Recording /\ Orderly(rec'[r])
                          /\ rec'[r].life = rec[r].life /\ rec'[r].bus = rec[r].bus
      BY <2>2, PushKeeps DEF Inv, PartTypes, WriterInv
    <2>4. rec' \in [Recs -> Recording]
      BY <2>2, <2>3
    <2>5. cmd.todo \subseteq Recs
      BY DEF Inv, PartTypes, Command
    <2> QED BY <2>1, <2>3, <2>4, <2>5 DEF Inv, PartTypes, EngineInv, LockInv, WriterInv
  <1> QED BY <1>1, <1>2 DEF Callback

(* New recordings start on a running engine while no command is under way. *)
LEMMA StartKeepsInv ==
    ASSUME Inv, cmd = Idle, UNCHANGED <<engine, cmd>>,
           NEW S \in SUBSET Recs, NEW on \in [S -> Buses], \A r \in S : engine[on[r]],
           rec' = [r \in Recs |-> IF r \in S THEN Started(on[r]) ELSE rec[r]]
    PROVE  Inv'
  <1>1. \A r \in S : /\ rec'[r] \in Recording /\ Orderly(rec'[r])
                     /\ rec'[r].life = "live" /\ rec'[r].bus = on[r] /\ on[r] \in Buses
    BY StartedIsOrderly
  <1>2. \A r \in Recs \ S : rec'[r] = rec[r]
    OBVIOUS
  <1>3. PartTypes'
    BY <1>1, <1>2 DEF Inv, PartTypes
  <1>4. EngineInv'
    BY <1>1, <1>2 DEF Inv, EngineInv
  <1>5. LockInv'
    <2>1. cmd' = cmd /\ cmd.todo = {} /\ cmd.at = None /\ cmd.drop = None
      BY IdleIsCommand
    <2>2. \A r \in Recs : rec[r].life # "stopping"
      BY <2>1, Constants DEF Inv, LockInv
    <2>3. \A r \in Recs : rec'[r].life # "stopping" /\ r # cmd.at
      BY <1>1, <1>2, <2>1, <2>2, Constants
    <2>4. \A r \in Recs : rec'[r].life = "live" => rec'[r].bus # None
      BY <1>4, Constants DEF EngineInv
    <2> QED BY <2>1, <2>3, <2>4 DEF LockInv
  <1>6. WriterInv'
    BY <1>1, <1>2 DEF Inv, WriterInv
  <1> QED BY <1>3, <1>4, <1>5, <1>6 DEF Inv

(* start_recording: one recording on one bus.                              *)
LEMMA StartRecordingKeepsInv ==
    ASSUME Inv, NEW r \in Recs, NEW b \in Buses, StartRecording(r, b) PROVE Inv'
  <1>1. /\ cmd = Idle /\ engine[b] /\ UNCHANGED <<engine, cmd>>
        /\ rec' = [rec EXCEPT ![r] = Started(b)]
    BY DEF StartRecording
  <1> DEFINE on == [q \in {r} |-> b]
  <1>2. on \in [{r} -> Buses] /\ \A q \in {r} : engine[on[q]]
    BY <1>1
  <1>3. rec' = [q \in Recs |-> IF q \in {r} THEN Started(on[q]) ELSE rec[q]]
    BY <1>1 DEF Inv, PartTypes
  <1> QED BY <1>1, <1>2, <1>3, StartKeepsInv

(* start_master_recording: one on each of several buses.                   *)
LEMMA StartMasterKeepsInv ==
    ASSUME Inv, NEW tapped \in SUBSET Buses, NEW of \in [Buses -> Recs], StartMaster(tapped, of)
    PROVE  Inv'
  <1> DEFINE S    == {of[b] : b \in tapped}
             on   == [q \in S |-> CHOOSE b \in tapped : of[b] = q]
  <1>1. /\ cmd = Idle /\ UNCHANGED <<engine, cmd>>
        /\ \A b \in tapped : engine[b]
    BY DEF StartMaster
  <1>2. rec' = [q \in Recs |-> IF \E b \in tapped : of[b] = q
                              THEN Started(CHOOSE b \in tapped : of[b] = q) ELSE rec[q]]
    BY DEF StartMaster
  <1>3. S \in SUBSET Recs
    OBVIOUS
  <1>4. \A q \in S : on[q] \in tapped
    OBVIOUS
  <1>5. on \in [S -> Buses] /\ \A q \in S : engine[on[q]]
    BY <1>1, <1>4
  <1>6. rec' = [q \in Recs |-> IF q \in S THEN Started(on[q]) ELSE rec[q]]
    BY <1>2
  <1> HIDE DEF S, on
  <1> QED BY <1>1, <1>3, <1>5, <1>6, StartKeepsInv

(* stop raises the flag and counts what is in the ring as owed.            *)
LEMMA StopOneKeepsInv == ASSUME Inv, NEW r \in Recs, StopOne(r) PROVE Inv'
  <1> DEFINE x == rec[r]
             y == [x EXCEPT !.life = "stopping", !.stop = TRUE, !.owed = Len(x.ring),
                            !.error = @ \/ ~engine[x.bus]]
  <1>0. x \in Recording /\ Orderly(x)
    BY DEF Inv, PartTypes, WriterInv
  <1>1. /\ cmd.at = None /\ r \in cmd.todo /\ engine' = engine
        /\ cmd' = [cmd EXCEPT !.todo = @ \ {r}, !.at = r]
        /\ rec' = [rec EXCEPT ![r] = y]
    BY DEF StopOne, Inv, PartTypes
  <1>2. x.life = "live"
    BY <1>1 DEF Inv, LockInv
  <1>3. x.bus \in Buses /\ engine[x.bus]
    BY <1>2 DEF Inv, EngineInv
  <1>4. Len(x.ring) \in Nat
    BY <1>0 DEF Recording
  <1>5. y \in Recording
    <2>1. ASSUME NEW n \in Nat, NEW e \in BOOLEAN
          PROVE  [x EXCEPT !.life = "stopping", !.stop = TRUE, !.owed = n, !.error = e] \in Recording
      BY <1>0 DEF Recording
    <2>2. (x.error \/ ~engine[x.bus]) \in BOOLEAN
      OBVIOUS
    <2> QED BY <1>4, <2>1, <2>2
  <1>6. /\ y.life = "stopping" /\ y.stop /\ y.owed = Len(x.ring) /\ y.ring = x.ring
        /\ y.bus = x.bus /\ y.writer = x.writer /\ y.error = x.error
    BY <1>0, <1>3 DEF Recording
  <1>7. Orderly(y)
    BY <1>0, <1>2, <1>4, <1>6 DEF Orderly
  <1>8. /\ cmd' \in Command /\ cmd'.todo = cmd.todo \ {r} /\ cmd'.at = r /\ cmd'.drop = cmd.drop
    BY <1>1 DEF Inv, PartTypes, Command
  <1>9. rec' \in [Recs -> Recording] /\ rec'[r] = y /\ \A q \in Recs \ {r} : rec'[q] = rec[q]
    BY <1>1, <1>5 DEF Inv, PartTypes
  <1>10. PartTypes'
    BY <1>1, <1>8, <1>9 DEF Inv, PartTypes
  <1> HIDE DEF x, y
  <1>11. EngineInv'
    BY <1>1, <1>3, <1>6, <1>9 DEF Inv, EngineInv
  <1>12. LockInv'
    <2>1. \A q \in Recs : rec'[q].life = "stopping" <=> q = r
      BY <1>1, <1>6, <1>9, Constants DEF Inv, LockInv
    <2>2. cmd.todo \subseteq Recs
      BY DEF Inv, PartTypes, Command
    <2> QED BY <1>6, <1>8, <1>9, <2>1, <2>2 DEF Inv, LockInv
  <1>13. WriterInv'
    BY <1>7, <1>9 DEF Inv, WriterInv
  <1> QED BY <1>10, <1>11, <1>12, <1>13 DEF Inv

(* The join ends the recording that was being stopped.                     *)
LEMMA JoinedKeepsInv == ASSUME Inv, NEW r \in Recs, Joined(r) PROVE Inv'
  <1> DEFINE x == rec[r]
             y == [x EXCEPT !.life = "ended", !.ring = <<>>]
  <1>0. x \in Recording /\ Orderly(x)
    BY DEF Inv, PartTypes, WriterInv
  <1>1. /\ cmd.at = r /\ x.writer = "done" /\ engine' = engine
        /\ cmd' = [cmd EXCEPT !.at = None]
        /\ rec' = [rec EXCEPT ![r] = y]
    BY DEF Joined, Inv, PartTypes
  <1>2. y \in Recording
    <2>1. <<>> \in Seq({"L", "R"})
      OBVIOUS
    <2> QED BY <1>0, <2>1 DEF Recording
  <1>3. /\ y.life = "ended" /\ y.writer = "done" /\ y.error = x.error /\ y.owed = x.owed
        /\ y.stop = x.stop /\ y.file = x.file
    BY <1>0, <1>1 DEF Recording
  <1>4. Orderly(y)
    BY <1>0, <1>1, <1>3 DEF Orderly
  <1>5. cmd' \in Command /\ cmd'.todo = cmd.todo /\ cmd'.at = None /\ cmd'.drop = cmd.drop
    BY <1>1 DEF Inv, PartTypes, Command
  <1>6. rec' \in [Recs -> Recording] /\ rec'[r] = y /\ \A q \in Recs \ {r} : rec'[q] = rec[q]
    BY <1>1, <1>2 DEF Inv, PartTypes
  <1>7. PartTypes'
    BY <1>1, <1>5, <1>6 DEF Inv, PartTypes
  <1> HIDE DEF y
  <1>8. EngineInv'
    BY <1>1, <1>3, <1>6 DEF Inv, EngineInv
  <1>9. LockInv'
    <2>1. \A q \in Recs : rec[q].life = "stopping" <=> q = r
      BY <1>1 DEF Inv, LockInv
    <2>2. cmd.todo \subseteq Recs
      BY DEF Inv, PartTypes, Command
    <2>3. r \notin cmd.todo /\ r # None
      BY <2>1, Constants DEF Inv, LockInv
    <2> QED BY <1>3, <1>5, <1>6, <2>1, <2>2, <2>3, Constants DEF Inv, LockInv
  <1>10. WriterInv'
    BY <1>4, <1>6 DEF Inv, WriterInv
  <1> QED BY <1>7, <1>8, <1>9, <1>10 DEF Inv

(* Stopping some of the live recordings, or tearing an engine down. *)
LEMMA StopKeepsInv ==
    ASSUME Inv, cmd = Idle, UNCHANGED <<engine, rec>>,
           NEW S \in SUBSET Live, NEW d \in Buses \union {None},
           d \in Buses => LiveOn(d) \subseteq S,
           cmd' = [todo |-> S, at |-> None, drop |-> d]
    PROVE  Inv'
  <1>1. S \subseteq Recs /\ \A r \in S : rec[r].life = "live"
    BY DEF Live
  <1>2. cmd' \in Command /\ cmd'.todo = S /\ cmd'.at = None /\ cmd'.drop = d
    BY <1>1 DEF Command
  <1>3. PartTypes' /\ EngineInv' /\ WriterInv'
    BY <1>2 DEF Inv, PartTypes, EngineInv, WriterInv
  <1>4. \A r \in Recs : rec[r].life # "stopping"
    BY IdleIsCommand, Constants DEF Inv, LockInv
  <1>5. ASSUME NEW r \in Recs, rec[r].life = "live", rec[r].bus = d PROVE r \in S
    BY <1>5, Constants DEF Inv, EngineInv, Live, LiveOn
  <1>6. LockInv'
    BY <1>1, <1>2, <1>4, <1>5, Constants DEF LockInv
  <1> QED BY <1>3, <1>6 DEF Inv

(* The engine is dropped when none of its recordings is live any more. *)
LEMMA DropEngineKeepsInv == ASSUME Inv, NEW b \in Buses, DropEngine(b) PROVE Inv'
  <1>1. /\ cmd = [Idle EXCEPT !.drop = b] /\ rec' = rec
        /\ engine' = [engine EXCEPT ![b] = FALSE]
        /\ cmd' = [cmd EXCEPT !.drop = None]
    BY DEF DropEngine
  <1>2. cmd.todo = {} /\ cmd.at = None /\ cmd.drop = b
    BY <1>1 DEF Idle
  <1>3. cmd' \in Command /\ cmd'.todo = {} /\ cmd'.at = None /\ cmd'.drop = None
    BY <1>1, <1>2 DEF Inv, PartTypes, Command
  <1>4. \A r \in Recs : /\ rec[r].life # "stopping"
                        /\ rec[r].life = "live" => rec[r].bus # b
    BY <1>2, Constants DEF Inv, LockInv
  <1>5. PartTypes' /\ WriterInv'
    BY <1>1, <1>3 DEF Inv, PartTypes, WriterInv
  <1>6. EngineInv'
    BY <1>1, <1>4 DEF Inv, PartTypes, EngineInv
  <1>7. LockInv'
    BY <1>1, <1>3, <1>4, Constants DEF Inv, LockInv, EngineInv
  <1> QED BY <1>5, <1>6, <1>7 DEF Inv

(* The user deletes a file, maybe one that is being written.               *)
LEMMA DeleteFileKeepsInv == ASSUME Inv, NEW r \in Recs, DeleteFile(r) PROVE Inv'
  <1> DEFINE x == rec[r]
             y == [x EXCEPT !.file = "deleted"]
  <1>1. rec' = [rec EXCEPT ![r] = y] /\ UNCHANGED <<engine, cmd>>
    BY DEF DeleteFile, Inv, PartTypes
  <1>2. x \in Recording /\ Orderly(x)
    BY DEF Inv, PartTypes, WriterInv
  <1>3. y \in Recording /\ Orderly(y) /\ y.life = x.life /\ y.bus = x.bus
    BY <1>2 DEF Recording, Orderly
  <1> QED BY <1>1, <1>3, OneRecording

-----------------------------------------------------------------------------
(* The invariant holds *)

(* It holds at first, ...                                                  *)
LEMMA InitInv == RecorderInit => Inv
  <1> SUFFICES ASSUME RecorderInit PROVE Inv
    OBVIOUS
  <1>1. <<>> \in Seq({"L", "R"}) /\ Len(<<>>) = 0
    OBVIOUS
  <1>2. NoRecording \in Recording
    BY <1>1, Constants DEF NoRecording, Recording
  <1>3. NoRecording.life = "free" /\ NoRecording.writer = "none"
    BY DEF NoRecording
  <1>4. Orderly(NoRecording)
    BY <1>3 DEF Orderly
  <1>5. PartTypes /\ WriterInv
    BY <1>2, <1>4, IdleIsCommand DEF RecorderInit, PartTypes, WriterInv
  <1>6. EngineInv /\ LockInv
    BY <1>3, IdleIsCommand, Constants DEF RecorderInit, EngineInv, LockInv
  <1> QED BY <1>5, <1>6 DEF Inv

(* ... every step keeps it, ...                                            *)
LEMMA StepKeepsInv == ASSUME Inv, [RecorderNext]_recorderVars PROVE Inv'
  <1>1. ASSUME NEW b \in Buses, StartEngine(b) PROVE Inv'
    <2>1. engine' = [engine EXCEPT ![b] = TRUE] /\ UNCHANGED <<rec, cmd>>
      BY <1>1 DEF StartEngine
    <2>2. PartTypes' /\ EngineInv'
      BY <2>1 DEF Inv, PartTypes, EngineInv
    <2> QED BY <2>1, <2>2 DEF Inv, LockInv, WriterInv
  <1>2. ASSUME NEW b \in Buses, TearDown(b) PROVE Inv'
    <2>1. /\ cmd = Idle /\ UNCHANGED <<engine, rec>>
          /\ cmd' = [todo |-> LiveOn(b), at |-> None, drop |-> b]
      BY <1>2 DEF TearDown, Idle
    <2>2. LiveOn(b) \in SUBSET Live
      BY DEF LiveOn
    <2> QED BY <2>1, <2>2, StopKeepsInv
  <1>3. ASSUME NEW S \in {{r} : r \in Live} \union {Live}, StopRecordings(S) PROVE Inv'
    <2>1. /\ cmd = Idle /\ UNCHANGED <<engine, rec>>
          /\ cmd' = [todo |-> S, at |-> None, drop |-> None]
      BY <1>3 DEF StopRecordings, Idle
    <2>2. S \in SUBSET Live
      OBVIOUS
    <2> QED BY <2>1, <2>2, StopKeepsInv, Constants
  <1>4. CASE UNCHANGED recorderVars
    BY <1>4 DEF recorderVars, Inv, PartTypes, EngineInv, LockInv, WriterInv
  <1>5. CASE Stopping
    BY <1>5, StopOneKeepsInv, JoinedKeepsInv, DropEngineKeepsInv DEF Stopping
  <1> QED
    BY <1>1, <1>2, <1>3, <1>4, <1>5, CallbackKeepsInv, StartRecordingKeepsInv,
       StartMasterKeepsInv, DeleteFileKeepsInv, WriterKeepsInv DEF RecorderNext

(* ... so it always holds.                                                 *)
LEMMA InvHolds == RecorderSpec => []Inv
  BY InitInv, StepKeepsInv, PTL DEF RecorderSpec

-----------------------------------------------------------------------------
(* The channels of a file *)

(* What the invariant above says nothing of: the hand-over of taps to the  *)
(* callback, and where it is in its block.                                 *)
TapTypes == /\ queue \in [Buses -> Seq(TapCommand)]
            /\ active \in [Buses -> SUBSET Recs]
            /\ pos \in [Buses -> 0..2 * Frames]

(* A callback pushes to recordings of its own bus.                         *)
ActiveInv == \A b \in Buses : \A r \in active[b] : rec[r].bus = b

(* A recording whose tap is on its way has been pushed nothing, and its    *)
(* tap is on its way once.                                                 *)
Fresh(x) == x.ring = <<>> /\ x.turn = "L"

QueueInv == \A b \in Buses : \A k \in DOMAIN queue[b] : queue[b][k].do = "add" =>
                /\ rec[queue[b][k].id].bus = b
                /\ Fresh(rec[queue[b][k].id])
                /\ queue[b][k].id \notin active[b]
                /\ \A l \in DOMAIN queue[b] : queue[b][l] = queue[b][k] => l = k

(* As long as no loss is reported, the ring holds the channels in turn,    *)
(* starting with the one the file expects, and the callback pushes next    *)
(* the one that follows.                                                   *)
Steady(x) == x.life # "ended" /\ ~Reported(x)

Chained(r, x) == /\ x.ring # <<>> => x.ring[1] = x.turn
                 /\ \A k \in 1..Len(x.ring) - 1 : x.ring[k + 1] = Following(x.ring[k], r)

Sound(r, x) == /\ x.skew => Reported(x)
               /\ Steady(x) => Chained(r, x)

NextIn(r, x) == IF x.ring = <<>> THEN x.turn ELSE Following(x.ring[Len(x.ring)], r)

Due(r, p) == IF r \in Stereo /\ p # 0 /\ p % 2 = 0 THEN "R" ELSE "L"

TurnInv == /\ \A r \in Recs : Sound(r, rec[r])
           /\ \A b \in Buses : \A r \in active[b] :
                  Steady(rec[r]) => NextIn(r, rec[r]) = Due(r, pos[b])

TapInv == TapTypes /\ ActiveInv /\ QueueInv /\ TurnInv

-----------------------------------------------------------------------------
(* Commands handled at the start of a block *)

Below == {p \in Nat \X Nat : p[1] < p[2]}

(* A set of numbers that holds zero and the successor of each of its       *)
(* members is the set of all of them.                                      *)
LEMMA Induction ==
    ASSUME NEW T \in SUBSET Nat, 0 \in T, \A n \in T : n + 1 \in T
    PROVE  T = Nat
  <1>1. IsWellFoundedOn(Below, Nat)
    BY NatLessThanWellFounded DEF OpToRel, Below
  <1> DEFINE Rest == Nat \ T
  <1>2. SUFFICES ASSUME Rest # {} PROVE FALSE
    OBVIOUS
  <1>3. PICK n \in Rest : \A m \in Rest : ~(<<m, n>> \in Below)
    <2>1. Rest \subseteq Nat
      OBVIOUS
    <2> HIDE DEF Rest
    <2> QED BY <1>1, <1>2, <2>1, WFMin
  <1>4. n # 0 /\ n - 1 \in Nat /\ n - 1 < n
    BY <1>3
  <1>5. n - 1 \in T
    BY <1>3, <1>4 DEF Below
  <1>6. (n - 1) + 1 \in T
    BY <1>5
  <1> QED BY <1>3, <1>4, <1>6

(* The taps after k of the commands: those there were, and some of those   *)
(* that were to be added.                                                  *)
Added(s) == {s[k].id : k \in {j \in DOMAIN s : s[j].do = "add"}}

Steps(S, s, n, f) == /\ f \in [0..n -> SUBSET (S \union Added(s))]
                     /\ f = [k \in 0..n |-> IF k = 0 THEN S ELSE AfterCommand(f[k - 1], s[k])]

LEMMA OneCommand ==
    ASSUME NEW s \in Seq(TapCommand), NEW k \in DOMAIN s, NEW S,
           NEW T \in SUBSET (S \union Added(s))
    PROVE  AfterCommand(T, s[k]) \in SUBSET (S \union Added(s))
  <1>1. s[k] \in TapCommand
    OBVIOUS
  <1>2. s[k].do \in {"add", "remove"} /\ (s[k].do = "add" => s[k].id \in Added(s))
    BY <1>1 DEF TapCommand, Added
  <1> QED BY <1>2 DEF AfterCommand

LEMMA AfterCommandsIs ==
    ASSUME NEW s \in Seq(TapCommand), NEW S
    PROVE  AfterCommands(S, s) \subseteq S \union Added(s)
  <1> DEFINE n == Len(s)
             T == {m \in Nat : m <= n => \E f : Steps(S, s, m, f)}
  <1>1. n \in Nat /\ DOMAIN s = 1..n
    OBVIOUS
  <1>2. 0 \in T
    <2> DEFINE f == [k \in 0..0 |-> S]
    <2>1. f = [k \in 0..0 |-> IF k = 0 THEN S ELSE AfterCommand(f[k - 1], s[k])]
      <3>1. \A k \in 0..0 : k = 0
        OBVIOUS
      <3> QED BY <3>1
    <2>2. f \in [0..0 -> SUBSET (S \union Added(s))]
      OBVIOUS
    <2> HIDE DEF f
    <2>3. Steps(S, s, 0, f)
      BY <2>1, <2>2 DEF Steps
    <2> QED BY <2>3
  <1>3. ASSUME NEW m \in T PROVE m + 1 \in T
    <2>1. CASE m + 1 <= n
      <3>1. PICK f : Steps(S, s, m, f)
        BY <1>1, <2>1
      <3> DEFINE g == [k \in 0..m + 1 |-> IF k <= m THEN f[k] ELSE AfterCommand(f[m], s[m + 1])]
      <3>2. f \in [0..m -> SUBSET (S \union Added(s))]
        BY <3>1 DEF Steps
      <3>3. m + 1 \in DOMAIN s /\ m \in 0..m
        BY <1>1, <2>1
      <3>4. AfterCommand(f[m], s[m + 1]) \in SUBSET (S \union Added(s))
        BY <3>2, <3>3, OneCommand
      <3>5. g \in [0..m + 1 -> SUBSET (S \union Added(s))]
        BY <3>2, <3>4
      <3>6. ASSUME NEW k \in 0..m + 1
            PROVE  g[k] = IF k = 0 THEN S ELSE AfterCommand(g[k - 1], s[k])
        <4>1. CASE k = m + 1
          BY <4>1
        <4>2. CASE k # m + 1
          <5>1. k \in 0..m /\ (k # 0 => k - 1 \in 0..m)
            BY <4>2
          <5>2. f[k] = IF k = 0 THEN S ELSE AfterCommand(f[k - 1], s[k])
            BY <3>1, <5>1 DEF Steps
          <5>3. g[k] = f[k] /\ (k # 0 => g[k - 1] = f[k - 1])
            BY <5>1
          <5> QED BY <5>2, <5>3
        <4> QED BY <4>1, <4>2
      <3> HIDE DEF g
      <3>7. g = [k \in 0..m + 1 |-> IF k = 0 THEN S ELSE AfterCommand(g[k - 1], s[k])]
        BY <3>5, <3>6
      <3> QED BY <3>5, <3>7 DEF Steps
    <2> QED BY <2>1
  <1>4. T = Nat
    <2>1. T \in SUBSET Nat
      OBVIOUS
    <2> HIDE DEF T
    <2> QED BY <1>2, <1>3, <2>1, Induction
  <1>5. PICK f : Steps(S, s, n, f)
    BY <1>1, <1>4
  <1> DEFINE Is(g) == g = [k \in 0..n |-> IF k = 0 THEN S ELSE AfterCommand(g[k - 1], s[k])]
             after == CHOOSE g : Is(g)
  <1>6. Is(after)
    BY <1>5 DEF Steps
  <1>7. AfterCommands(S, s) = after[n]
    BY DEF AfterCommands
  <1> HIDE DEF after
  <1> DEFINE U == {k \in Nat : k <= n => after[k] \in SUBSET (S \union Added(s))}
  <1>8. 0 \in U
    BY <1>1, <1>6
  <1>9. ASSUME NEW k \in U PROVE k + 1 \in U
    <2>1. CASE k + 1 <= n
      <3>1. k \in 0..n /\ k + 1 \in 0..n /\ k + 1 # 0 /\ k + 1 \in DOMAIN s /\ (k + 1) - 1 = k
        BY <1>1, <2>1
      <3>2. after[k + 1] = AfterCommand(after[k], s[k + 1])
        BY <1>6, <3>1
      <3>3. after[k] \in SUBSET (S \union Added(s))
        BY <3>1
      <3> QED BY <3>1, <3>2, <3>3, OneCommand
    <2> QED BY <2>1
  <1>10. U = Nat
    <2>1. U \in SUBSET Nat
      OBVIOUS
    <2> HIDE DEF U
    <2> QED BY <1>8, <1>9, <2>1, Induction
  <1> QED BY <1>1, <1>7, <1>10

-----------------------------------------------------------------------------
(* What a step does to one recording *)

(* y is what becomes of x: no loss is taken back, and what the callback    *)
(* has to push next stays the same.                                        *)
Goes(r, x, y) == /\ y.bus = x.bus
                 /\ Fresh(x) => Fresh(y)
                 /\ Sound(r, x) => Sound(r, y)
                 /\ Steady(y) => Steady(x) /\ (Sound(r, x) => NextIn(r, y) = NextIn(r, x))

(* A step that leaves the ring and the file alone.                         *)
LEMMA Untouched ==
    ASSUME NEW r, NEW x, NEW y, y.bus = x.bus, y.ring = x.ring, y.turn = x.turn, y.skew = x.skew,
           y.life = x.life \/ x.life # "ended", x.error => y.error, y.dropped = x.dropped
    PROVE  Goes(r, x, y)
  BY DEF Goes, Fresh, Sound, Steady, Reported, Chained, NextIn

(* What follows a channel is a channel.                                    *)
LEMMA Channels == ASSUME NEW r, NEW ch PROVE Following(ch, r) \in {"L", "R"}
  BY DEF Following

(* The writer takes a sample: the channel it expects next is the one that  *)
(* comes next in the ring.                                                 *)
LEMMA Takes ==
    ASSUME NEW r, NEW x \in Recording, NEW y, x.ring # <<>>, y.ring = Tail(x.ring),
           y.turn = Following(x.turn, r), y.bus = x.bus, y.life = x.life,
           x.life # "ended", y.error = x.error, y.dropped = x.dropped,
           y.skew = (x.skew \/ x.ring[1] # x.turn)
    PROVE  Goes(r, x, y)
  <1>1. /\ x.ring \in Seq({"L", "R"}) /\ Len(x.ring) \in Nat /\ Len(x.ring) # 0
        /\ Len(y.ring) = Len(x.ring) - 1
        /\ \A k \in 1..Len(y.ring) : y.ring[k] = x.ring[k + 1]
        /\ y.ring = <<>> <=> Len(x.ring) = 1
    <2>1. x.ring \in Seq({"L", "R"})
      BY DEF Recording
    <2>2. Len(y.ring) = Len(x.ring) - 1 /\ \A k \in 1..Len(y.ring) : y.ring[k] = x.ring[k + 1]
      BY <2>1
    <2>3. y.ring \in Seq({"L", "R"})
      BY <2>1
    <2>4. y.ring = <<>> <=> Len(y.ring) = 0
      <3>1. \A s \in Seq({"L", "R"}) : s = <<>> <=> Len(s) = 0
        OBVIOUS
      <3> QED BY <2>3, <3>1
    <2> QED BY <2>1, <2>2, <2>4
  <1>2. Steady(y) <=> Steady(x)
    BY DEF Steady, Reported
  <1>3. ASSUME Sound(r, x) PROVE Sound(r, y)
    <2>1. x.ring[1] # x.turn => Reported(x)
      BY <1>3 DEF Sound, Steady, Chained
    <2>2. ASSUME Steady(x) PROVE Chained(r, y)
      <3>1. /\ x.ring[1] = x.turn
            /\ \A k \in 1..Len(x.ring) - 1 : x.ring[k + 1] = Following(x.ring[k], r)
        BY <1>3, <2>2 DEF Sound, Chained
      <3>2. y.ring # <<>> => y.ring[1] = y.turn
        BY <1>1, <3>1
      <3>3. ASSUME NEW k \in 1..Len(y.ring) - 1 PROVE y.ring[k + 1] = Following(y.ring[k], r)
        BY <1>1, <3>1
      <3> QED BY <3>2, <3>3 DEF Chained
    <2> QED BY <1>2, <1>3, <2>1, <2>2 DEF Sound, Reported
  <1>4. ASSUME Steady(y), Sound(r, x) PROVE NextIn(r, y) = NextIn(r, x)
    <2>1. x.ring[1] = x.turn
      BY <1>2, <1>4 DEF Sound, Chained
    <2>2. CASE Len(x.ring) = 1
      BY <1>1, <2>1, <2>2 DEF NextIn
    <2>3. CASE Len(x.ring) # 1
      BY <1>1, <2>3 DEF NextIn
    <2> QED BY <2>2, <2>3
  <1> QED BY <1>1, <1>2, <1>3, <1>4 DEF Goes, Fresh

(* A step that leaves the callback alone, and adds no tap to the queue.    *)
LEMMA TapsStay ==
    ASSUME TapInv, UNCHANGED <<active, pos>>,
           \A r \in Recs : Goes(r, rec[r], rec'[r]),
           queue' \in [Buses -> Seq(TapCommand)],
           \A b \in Buses : \A k \in DOMAIN queue'[b] : queue'[b][k].do = "add" =>
               k \in DOMAIN queue[b] /\ queue'[b][k] = queue[b][k]
    PROVE  TapInv'
  <1>1. TapTypes'
    BY DEF TapInv, TapTypes
  <1>2. \A b \in Buses : active[b] \subseteq Recs
    BY DEF TapInv, TapTypes
  <1>3. ActiveInv'
    BY <1>2 DEF TapInv, ActiveInv, Goes
  <1>4. ASSUME NEW b \in Buses, NEW k \in DOMAIN queue'[b], queue'[b][k].do = "add"
        PROVE  /\ rec'[queue'[b][k].id].bus = b
               /\ Fresh(rec'[queue'[b][k].id])
               /\ queue'[b][k].id \notin active[b]
               /\ \A l \in DOMAIN queue'[b] : queue'[b][l] = queue'[b][k] => l = k
    <2>1. k \in DOMAIN queue[b] /\ queue'[b][k] = queue[b][k]
      BY <1>4
    <2>2. queue[b] \in Seq(TapCommand)
      BY DEF TapInv, TapTypes
    <2>3. queue[b][k].id \in Recs
      <3>1. queue[b][k] \in TapCommand
        BY <2>1, <2>2
      <3> QED BY <3>1 DEF TapCommand
    <2>4. /\ rec[queue[b][k].id].bus = b /\ Fresh(rec[queue[b][k].id])
          /\ queue[b][k].id \notin active[b]
          /\ \A l \in DOMAIN queue[b] : queue[b][l] = queue[b][k] => l = k
      BY <1>4, <2>1 DEF TapInv, QueueInv
    <2>5. \A l \in DOMAIN queue'[b] : queue'[b][l] = queue'[b][k] => l = k
      BY <1>4, <2>1, <2>4
    <2> QED BY <2>1, <2>3, <2>4, <2>5 DEF Goes
  <1>5. QueueInv'
    BY <1>4 DEF QueueInv
  <1>6. TurnInv'
    BY <1>2 DEF TapInv, TurnInv, Goes
  <1> QED BY <1>1, <1>3, <1>5, <1>6 DEF TapInv

(* Only one recording changes.                                             *)
LEMMA OneGoes ==
    ASSUME Inv, TapInv, NEW r \in Recs, NEW y, rec' = [rec EXCEPT ![r] = y],
           Goes(r, rec[r], y), UNCHANGED <<queue, active, pos>>
    PROVE  TapInv'
  <1>1. rec \in [Recs -> Recording] /\ queue \in [Buses -> Seq(TapCommand)]
    BY DEF Inv, PartTypes, TapInv, TapTypes
  <1>2. \A q \in Recs : Goes(q, rec[q], rec[q])
    BY DEF Goes
  <1>3. \A q \in Recs : Goes(q, rec[q], rec'[q])
    BY <1>1, <1>2
  <1> QED BY <1>1, <1>3, TapsStay

(* The steps of a writer.                                                  *)
LEMMA WriterKeepsTaps == ASSUME Inv, TapInv, NEW r \in Recs, Writer(r) PROVE TapInv'
  <1> DEFINE x == rec[r]
  <1>0. x \in Recording /\ Orderly(x) /\ rec \in [Recs -> Recording]
    BY DEF Inv, PartTypes, WriterInv
  <1>a. x.writer # "done" => x.life # "ended"
    BY <1>0 DEF Orderly
  <1>1. ASSUME x.ring # <<>>, x.writer \in {"batch", "drain"}
        PROVE  /\ Popped(x) \in Recording /\ Popped(x).ring = Tail(x.ring)
               /\ Popped(x).turn = x.turn /\ Popped(x).bus = x.bus
               /\ Popped(x).life = x.life /\ Popped(x).error = x.error
               /\ Popped(x).dropped = x.dropped /\ Popped(x).skew = x.skew
               /\ Head(x.ring) = x.ring[1]
    <2>1. /\ Popped(x) \in Recording
          /\ Popped(x) = [x EXCEPT !.ring = Tail(x.ring), !.owed = IF x.owed = 0 THEN 0 ELSE x.owed - 1]
      BY <1>0, <1>1, PopKeeps
    <2> QED BY <1>0, <1>1, <2>1 DEF Recording
  <1>2. CASE WriteSample(r)
    <2> DEFINE y == Written(r, Popped(x), Head(x.ring))
    <2>1. /\ x.ring # <<>> /\ x.writer \in {"batch", "drain"}
          /\ rec' = [rec EXCEPT ![r] = y] /\ UNCHANGED <<queue, active, pos>>
      BY <1>2 DEF WriteSample, Writing
    <2>2. /\ y.ring = Tail(x.ring) /\ y.turn = Following(x.turn, r) /\ y.bus = x.bus
          /\ y.life = x.life /\ y.error = x.error /\ y.dropped = x.dropped
          /\ y.skew = (x.skew \/ x.ring[1] # x.turn)
      BY <1>1, <2>1 DEF Written, Recording
    <2> HIDE DEF y
    <2>3. Goes(r, x, y)
      BY <1>0, <1>a, <2>1, <2>2, Takes
    <2> QED BY <2>1, <2>3, OneGoes
  <1>3. CASE WriteFails(r)
    <2> DEFINE y == [Popped(x) EXCEPT !.error = TRUE, !.writer = "finalize"]
    <2>1. /\ x.ring # <<>> /\ x.writer \in {"batch", "drain"}
          /\ rec' = [rec EXCEPT ![r] = y] /\ UNCHANGED <<queue, active, pos>>
      BY <1>0, <1>3 DEF WriteFails, Writing
    <2>2. y.bus = x.bus /\ y.error
      BY <1>1, <2>1 DEF Recording
    <2> HIDE DEF y
    <2>3. Goes(r, x, y)
      BY <2>1, <2>2 DEF Goes, Fresh, Sound, Steady, Reported
    <2> QED BY <2>1, <2>3, OneGoes
  <1>4. CASE EndBatch(r)
    <2> DEFINE y == [x EXCEPT !.n = 0, !.writer = IF x.stop THEN "drain" ELSE "batch"]
    <2>1. rec' = [rec EXCEPT ![r] = y] /\ UNCHANGED <<queue, active, pos>>
      BY <1>0, <1>4 DEF EndBatch
    <2>2. /\ y.bus = x.bus /\ y.ring = x.ring /\ y.turn = x.turn /\ y.skew = x.skew
          /\ y.life = x.life /\ y.error = x.error /\ y.dropped = x.dropped
      BY <1>0 DEF Recording
    <2> HIDE DEF y
    <2> QED BY <2>1, <2>2, Untouched, OneGoes
  <1>5. CASE EndDrain(r)
    <2> DEFINE y == [x EXCEPT !.writer = "finalize"]
    <2>1. rec' = [rec EXCEPT ![r] = y] /\ UNCHANGED <<queue, active, pos>>
      BY <1>5 DEF EndDrain
    <2>2. /\ y.bus = x.bus /\ y.ring = x.ring /\ y.turn = x.turn /\ y.skew = x.skew
          /\ y.life = x.life /\ y.error = x.error /\ y.dropped = x.dropped
      BY <1>0 DEF Recording
    <2> HIDE DEF y
    <2> QED BY <2>1, <2>2, Untouched, OneGoes
  <1>6. ASSUME NEW ok \in BOOLEAN, Finalize(r, ok) PROVE TapInv'
    <2> DEFINE y == [x EXCEPT !.writer = "done", !.error = @ \/ ~ok,
                              !.file = IF @ = "deleted" THEN @ ELSE IF ok THEN "whole" ELSE "broken"]
    <2>1. rec' = [rec EXCEPT ![r] = y] /\ UNCHANGED <<queue, active, pos>>
      BY <1>0, <1>6 DEF Finalize
    <2>2. /\ y.bus = x.bus /\ y.ring = x.ring /\ y.turn = x.turn /\ y.skew = x.skew
          /\ y.life = x.life /\ y.dropped = x.dropped /\ (x.error => y.error)
      BY <1>0 DEF Recording
    <2> HIDE DEF y
    <2> QED BY <2>1, <2>2, Untouched, OneGoes
  <1> QED BY <1>2, <1>3, <1>4, <1>5, <1>6 DEF Writer

(* Recordings that start are new to every callback, and their taps are     *)
(* sent once.                                                              *)
LEMMA StartKeepsTaps ==
    ASSUME Inv, TapInv, UNCHANGED <<active, pos>>,
           NEW tapped \in SUBSET Buses, NEW of, \A b \in tapped : of[b] \in Unused,
           \A b, c \in tapped : b # c => of[b] # of[c],
           \A b \in tapped : /\ rec'[of[b]] = Started(b)
                             /\ queue'[b] = Append(queue[b], [do |-> "add", id |-> of[b]]),
           \A r \in Recs : (\A b \in tapped : of[b] # r) => rec'[r] = rec[r],
           queue' = [b \in Buses |-> IF b \in tapped THEN queue'[b] ELSE queue[b]]
    PROVE  TapInv'
  <1>0. /\ \A b \in Buses : queue[b] \in Seq(TapCommand) /\ active[b] \subseteq Recs
        /\ \A b \in tapped : of[b] \in Recs
    BY DEF TapInv, TapTypes, Unused
  <1>1. \A b \in Buses : \A r \in active[b] : rec'[r] = rec[r]
    BY <1>0 DEF Unused
  <1>2. TapTypes'
    <2>1. ASSUME NEW b \in tapped PROVE queue'[b] \in Seq(TapCommand)
      <3> DEFINE c == [do |-> "add", id |-> of[b]]
      <3>1. c \in TapCommand
        BY <1>0 DEF TapCommand
      <3>2. queue'[b] = Append(queue[b], c)
        OBVIOUS
      <3> HIDE DEF c
      <3> QED BY <1>0, <3>1, <3>2
    <2>2. \A b \in Buses : queue'[b] \in Seq(TapCommand)
      BY <1>0, <2>1
    <2> QED BY <2>2 DEF TapInv, TapTypes
  <1>3. ActiveInv'
    BY <1>1 DEF TapInv, ActiveInv
  <1>4. QueueInv'
    <2> SUFFICES ASSUME NEW b \in Buses, NEW k \in DOMAIN queue'[b], queue'[b][k].do = "add"
                 PROVE  /\ rec'[queue'[b][k].id].bus = b
                        /\ Fresh(rec'[queue'[b][k].id])
                        /\ queue'[b][k].id \notin active[b]
                        /\ \A l \in DOMAIN queue'[b] : queue'[b][l] = queue'[b][k] => l = k
      BY DEF QueueInv
    <2>1. ASSUME NEW l \in DOMAIN queue[b], queue[b][l].do = "add"
          PROVE  /\ rec[queue[b][l].id].bus = b /\ Fresh(rec[queue[b][l].id])
                 /\ queue[b][l].id \notin active[b]
                 /\ \A m \in DOMAIN queue[b] : queue[b][m] = queue[b][l] => m = l
                 /\ rec'[queue[b][l].id] = rec[queue[b][l].id]
                 /\ \A c \in tapped : of[c] # queue[b][l].id
      <3>1. queue[b][l].id \in Recs
        <4>1. queue[b][l] \in TapCommand
          BY <1>0
        <4> QED BY <4>1 DEF TapCommand
      <3> QED BY <2>1, <3>1 DEF TapInv, QueueInv, Unused
    <2>2. CASE b \notin tapped
      BY <2>1, <2>2
    <2>3. CASE b \in tapped
      <3> DEFINE n == Len(queue[b])
                 c == [do |-> "add", id |-> of[b]]
      <3>1. /\ DOMAIN queue[b] = 1..n /\ n \in Nat /\ DOMAIN queue'[b] = 1..n + 1
            /\ queue'[b][n + 1] = c /\ \A l \in 1..n : queue'[b][l] = queue[b][l]
        <4>1. c \in TapCommand
          BY <1>0, <2>3 DEF TapCommand
        <4>2. queue'[b] = Append(queue[b], c)
          BY <2>3
        <4> HIDE DEF c
        <4> QED BY <1>0, <4>1, <4>2
      <3>2. CASE k \in 1..n
        <4>1. \A l \in 1..n : queue'[b][l] = queue'[b][k] => l = k
          BY <2>1, <3>1, <3>2
        <4>2. queue'[b][n + 1] # queue'[b][k]
          BY <2>1, <2>3, <3>1, <3>2
        <4> QED BY <2>1, <3>1, <3>2, <4>1, <4>2
      <3>3. CASE k = n + 1
        <4>1. of[b] \in Unused /\ rec'[of[b]] = Started(b)
          BY <2>3
        <4>2. \A l \in 1..n : queue[b][l] # c
          BY <3>1, <4>1 DEF Unused
        <4>3. Started(b).bus = b /\ Fresh(Started(b))
          BY DEF Started, NoRecording, Fresh
        <4>4. of[b] \notin active[b]
          BY <4>1 DEF Unused
        <4> QED BY <3>1, <3>3, <4>1, <4>2, <4>3, <4>4
      <3> QED BY <3>1, <3>2, <3>3
    <2> QED BY <2>2, <2>3
  <1>5. TurnInv'
    <2>1. ASSUME NEW r \in Recs PROVE Sound(r, rec'[r])
      <3>1. CASE \A b \in tapped : of[b] # r
        BY <3>1 DEF TapInv, TurnInv
      <3>2. ASSUME NEW b \in tapped, of[b] = r PROVE Sound(r, rec'[r])
        <4>1. Started(b).ring = <<>> /\ Started(b).skew = FALSE
          BY DEF Started, NoRecording
        <4>2. Len(<<>>) = 0 /\ 1..0 - 1 = {}
          OBVIOUS
        <4> QED BY <3>2, <4>1, <4>2 DEF Sound, Chained
      <3> QED BY <3>1, <3>2
    <2> QED BY <1>0, <1>1, <2>1 DEF TapInv, TurnInv
  <1> QED BY <1>2, <1>3, <1>4, <1>5 DEF TapInv

LEMMA StartRecordingKeepsTaps ==
    ASSUME Inv, TapInv, NEW r \in Recs, NEW b \in Buses, StartRecording(r, b) PROVE TapInv'
  <1> DEFINE tapped == {b}
             of == [c \in tapped |-> r]
  <1>1. /\ r \in Unused /\ rec' = [rec EXCEPT ![r] = Started(b)]
        /\ queue' = [queue EXCEPT ![b] = Append(queue[b], [do |-> "add", id |-> r])]
        /\ UNCHANGED <<active, pos>>
        /\ rec \in [Recs -> Recording] /\ queue \in [Buses -> Seq(TapCommand)]
    BY DEF StartRecording, Inv, PartTypes, TapInv, TapTypes
  <1>2. queue' = [c \in Buses |-> IF c \in tapped THEN queue'[c] ELSE queue[c]]
    BY <1>1
  <1>3. /\ \A c \in tapped : of[c] \in Unused
        /\ \A c \in tapped : /\ rec'[of[c]] = Started(c)
                             /\ queue'[c] = Append(queue[c], [do |-> "add", id |-> of[c]])
    BY <1>1
  <1>4. \A q \in Recs : (\A c \in tapped : of[c] # q) => rec'[q] = rec[q]
    BY <1>1
  <1>5. \A c, d \in tapped : c # d => of[c] # of[d]
    OBVIOUS
  <1>6. tapped \in SUBSET Buses
    OBVIOUS
  <1>7. UNCHANGED <<active, pos>>
    BY <1>1
  <1> HIDE DEF tapped, of
  <1> QED BY <1>2, <1>3, <1>4, <1>5, <1>6, <1>7, StartKeepsTaps

LEMMA StartMasterKeepsTaps ==
    ASSUME Inv, TapInv, NEW tapped \in SUBSET Buses, NEW of \in [Buses -> Recs],
           StartMaster(tapped, of)
    PROVE  TapInv'
  <1>1. /\ \A b \in tapped : of[b] \in Unused
        /\ \A b, c \in tapped : b # c => of[b] # of[c]
        /\ UNCHANGED <<active, pos>>
    BY DEF StartMaster
  <1>2. rec' = [r \in Recs |-> IF \E b \in tapped : of[b] = r
                               THEN Started(CHOOSE b \in tapped : of[b] = r) ELSE rec[r]]
    BY DEF StartMaster
  <1>3. queue' = [b \in Buses |-> IF b \in tapped
                                 THEN Append(queue[b], [do |-> "add", id |-> of[b]]) ELSE queue[b]]
    BY DEF StartMaster
  <1>4. ASSUME NEW b \in tapped PROVE rec'[of[b]] = Started(b)
    <2>1. (CHOOSE c \in tapped : of[c] = of[b]) = b
      BY <1>1
    <2> QED BY <1>2, <2>1
  <1>5. \A b \in tapped : queue'[b] = Append(queue[b], [do |-> "add", id |-> of[b]])
    BY <1>3
  <1>6. \A r \in Recs : (\A b \in tapped : of[b] # r) => rec'[r] = rec[r]
    BY <1>2
  <1>7. queue' = [b \in Buses |-> IF b \in tapped THEN queue'[b] ELSE queue[b]]
    BY <1>3, <1>5
  <1> QED BY <1>1, <1>4, <1>5, <1>6, <1>7, StartKeepsTaps

(* A recorder that is stopped sends a Remove.                              *)
LEMMA StopOneKeepsTaps == ASSUME Inv, TapInv, NEW r \in Recs, StopOne(r) PROVE TapInv'
  <1> DEFINE x == rec[r]
             b == x.bus
             c == [do |-> "remove", id |-> r]
             y == [x EXCEPT !.life = "stopping", !.stop = TRUE, !.owed = Len(x.ring),
                            !.error = @ \/ ~engine[b]]
  <1>1. /\ r \in cmd.todo /\ rec' = [rec EXCEPT ![r] = y] /\ UNCHANGED <<active, pos>>
        /\ queue' = [queue EXCEPT ![b] = IF engine[b] THEN Append(@, c) ELSE @]
    BY DEF StopOne
  <1>2. /\ rec \in [Recs -> Recording] /\ queue \in [Buses -> Seq(TapCommand)]
        /\ x.life = "live" /\ b \in Buses
    BY <1>1 DEF Inv, PartTypes, TapInv, TapTypes, LockInv, EngineInv
  <1>3. x \in Recording
    BY <1>2
  <1>4. /\ y.bus = x.bus /\ y.ring = x.ring /\ y.turn = x.turn /\ y.skew = x.skew
        /\ (x.error => y.error) /\ y.dropped = x.dropped
    BY <1>3 DEF Recording
  <1> HIDE DEF y
  <1>5. Goes(r, x, y)
    BY <1>2, <1>4, Untouched
  <1>6. \A q \in Recs : Goes(q, rec[q], rec'[q])
    <2>1. \A q \in Recs : Goes(q, rec[q], rec[q])
      BY DEF Goes
    <2> QED BY <1>1, <1>2, <1>5, <2>1
  <1>7. queue[b] \in Seq(TapCommand) /\ c \in TapCommand /\ c.do # "add"
    BY <1>2 DEF TapCommand
  <1> HIDE DEF b, c
  <1>8. queue' \in [Buses -> Seq(TapCommand)]
    BY <1>1, <1>2, <1>7
  <1>9. ASSUME NEW a \in Buses, NEW k \in DOMAIN queue'[a], queue'[a][k].do = "add"
        PROVE  k \in DOMAIN queue[a] /\ queue'[a][k] = queue[a][k]
    <2>1. CASE queue'[a] = queue[a]
      BY <2>1
    <2>2. CASE queue'[a] = Append(queue[b], c) /\ a = b
      <3>1. k \in 1..Len(queue[b]) + 1 /\ queue'[a][Len(queue[b]) + 1] = c
        BY <1>7, <2>2
      <3>2. k # Len(queue[b]) + 1
        BY <1>7, <1>9, <3>1
      <3> QED BY <1>7, <2>2, <3>1, <3>2
    <2> QED BY <1>1, <1>2, <2>1, <2>2
  <1> QED BY <1>1, <1>6, <1>8, <1>9, TapsStay

(* The join empties a ring nobody reads any more.                          *)
LEMMA JoinedKeepsTaps == ASSUME Inv, TapInv, NEW r \in Recs, Joined(r) PROVE TapInv'
  <1> DEFINE x == rec[r]
             y == [x EXCEPT !.life = "ended", !.ring = <<>>]
  <1>1. rec' = [rec EXCEPT ![r] = y] /\ UNCHANGED <<queue, active, pos>>
    BY DEF Joined
  <1>2. x \in Recording
    BY DEF Inv, PartTypes
  <1>3. /\ y.bus = x.bus /\ y.ring = <<>> /\ y.turn = x.turn /\ y.skew = x.skew
        /\ y.life = "ended" /\ y.error = x.error /\ y.dropped = x.dropped
    BY <1>2 DEF Recording
  <1> HIDE DEF y
  <1>4. Goes(r, x, y)
    BY <1>3 DEF Goes, Fresh, Sound, Steady, Reported
  <1> QED BY <1>1, <1>4, OneGoes

LEMMA DeleteFileKeepsTaps == ASSUME Inv, TapInv, NEW r \in Recs, DeleteFile(r) PROVE TapInv'
  <1> DEFINE x == rec[r]
             y == [x EXCEPT !.file = "deleted"]
  <1>1. rec' = [rec EXCEPT ![r] = y] /\ UNCHANGED <<queue, active, pos>>
    BY DEF DeleteFile
  <1>2. x \in Recording
    BY DEF Inv, PartTypes
  <1>3. /\ y.bus = x.bus /\ y.ring = x.ring /\ y.turn = x.turn /\ y.skew = x.skew
        /\ y.life = x.life /\ y.error = x.error /\ y.dropped = x.dropped
    BY <1>2 DEF Recording
  <1> HIDE DEF y
  <1> QED BY <1>1, <1>3, Untouched, OneGoes

(* The taps of an engine go with it.                                       *)
LEMMA DropEngineKeepsTaps == ASSUME Inv, TapInv, NEW b \in Buses, DropEngine(b) PROVE TapInv'
  <1>1. /\ queue' = [queue EXCEPT ![b] = <<>>] /\ active' = [active EXCEPT ![b] = {}]
        /\ pos' = [pos EXCEPT ![b] = 0] /\ rec' = rec
    BY DEF DropEngine
  <1>2. TapTypes'
    <2>1. <<>> \in Seq(TapCommand) /\ 0 \in 0..2 * Frames
      BY RecorderAssumption
    <2> QED BY <1>1, <2>1 DEF TapInv, TapTypes
  <1>3. ActiveInv'
    BY <1>1 DEF TapInv, TapTypes, ActiveInv
  <1>4. QueueInv'
    <2>1. \A k \in DOMAIN <<>> : FALSE
      OBVIOUS
    <2>2. queue'[b] = <<>> /\ \A c \in Buses \ {b} : queue'[c] = queue[c] /\ active'[c] = active[c]
      BY <1>1 DEF TapInv, TapTypes
    <2> QED BY <1>1, <2>1, <2>2 DEF TapInv, QueueInv
  <1>5. TurnInv'
    BY <1>1 DEF TapInv, TapTypes, TurnInv
  <1> QED BY <1>2, <1>3, <1>4, <1>5 DEF TapInv

-----------------------------------------------------------------------------
(* The callback *)

(* The taps a block starts with are those there were, and some whose Add   *)
(* was at the front of the queue.                                          *)
LEMMA BeginBlockKeepsTaps == ASSUME Inv, TapInv, NEW b \in Buses, BeginBlock(b) PROVE TapInv'
  <1> DEFINE n == IF Len(queue[b]) < CmdsPerBlock THEN Len(queue[b]) ELSE CmdsPerBlock
             front == SubSeq(queue[b], 1, n)
             rest  == SubSeq(queue[b], n + 1, Len(queue[b]))
             on    == AfterCommands(active[b], front)
  <1>1. /\ pos[b] = 0 /\ rec' = rec
        /\ active' = [active EXCEPT ![b] = on] /\ queue' = [queue EXCEPT ![b] = rest]
        /\ pos' = [pos EXCEPT ![b] = 1]
    BY DEF BeginBlock
  <1>2. /\ queue[b] \in Seq(TapCommand) /\ Len(queue[b]) \in Nat /\ n \in 0..Len(queue[b])
        /\ DOMAIN queue[b] = 1..Len(queue[b]) /\ active[b] \subseteq Recs
    BY RecorderAssumption DEF TapInv, TapTypes
  <1> HIDE DEF n
  <1>3. /\ front \in Seq(TapCommand) /\ DOMAIN front = 1..n
        /\ \A k \in 1..n : front[k] = queue[b][k]
    BY <1>2
  <1>4. /\ rest \in Seq(TapCommand) /\ DOMAIN rest = 1..Len(queue[b]) - n
        /\ \A k \in DOMAIN rest : /\ n + k \in DOMAIN queue[b] /\ n + k > n
                                  /\ rest[k] = queue[b][n + k]
    BY <1>2
  <1> HIDE DEF front, rest
  <1>5. on \subseteq active[b] \union Added(front)
    BY <1>3, AfterCommandsIs
  <1>6. ASSUME NEW k \in DOMAIN queue[b], queue[b][k].do = "add"
        PROVE  /\ queue[b][k].id \in Recs
               /\ rec[queue[b][k].id].bus = b /\ Fresh(rec[queue[b][k].id])
               /\ queue[b][k].id \notin active[b]
               /\ \A l \in DOMAIN queue[b] :
                    queue[b][l].do = "add" /\ queue[b][l].id = queue[b][k].id => l = k
    <2>1. \A l \in DOMAIN queue[b] : queue[b][l] \in TapCommand
      BY <1>2
    <2>2. \A c, d \in TapCommand : c.do = d.do /\ c.id = d.id => c = d
      BY DEF TapCommand
    <2>3. queue[b][k].id \in Recs
      BY <2>1 DEF TapCommand
    <2> QED BY <1>6, <2>1, <2>2, <2>3 DEF TapInv, QueueInv
  <1>7. ASSUME NEW r \in on PROVE r \in active[b] \/ (r \in Recs /\ rec[r].bus = b /\ Fresh(rec[r]))
    BY <1>2, <1>3, <1>5, <1>6 DEF Added
  <1>8. on \subseteq Recs
    BY <1>2, <1>7
  <1> HIDE DEF on
  <1>9. TapTypes'
    <2>1. 1 \in 0..2 * Frames
      BY RecorderAssumption
    <2> QED BY <1>1, <1>4, <1>8, <2>1 DEF TapInv, TapTypes
  <1>10. active'[b] = on /\ \A c \in Buses \ {b} : active'[c] = active[c]
    BY <1>1 DEF TapInv, TapTypes
  <1>11. ActiveInv'
    BY <1>1, <1>7, <1>10 DEF TapInv, ActiveInv
  <1>12. QueueInv'
    <2>1. queue'[b] = rest /\ \A c \in Buses \ {b} : queue'[c] = queue[c]
      BY <1>1 DEF TapInv, TapTypes
    <2>2. ASSUME NEW k \in DOMAIN rest, rest[k].do = "add"
          PROVE  /\ rec[rest[k].id].bus = b /\ Fresh(rec[rest[k].id]) /\ rest[k].id \notin on
                 /\ \A l \in DOMAIN rest : rest[l] = rest[k] => l = k
      <3>1. n + k \in DOMAIN queue[b] /\ n + k > n /\ rest[k] = queue[b][n + k]
        BY <1>4
      <3>2. rest[k].id \notin Added(front)
        <4>1. ASSUME NEW j \in DOMAIN front, front[j].do = "add", front[j].id = rest[k].id
              PROVE  FALSE
          <5>1. j \in 1..n /\ front[j] = queue[b][j] /\ j \in DOMAIN queue[b] /\ j < n + k
            BY <1>2, <1>3, <3>1
          <5> DEFINE i == n + k
          <5>2. i \in DOMAIN queue[b] /\ rest[k] = queue[b][i] /\ j # i
            BY <1>2, <3>1, <5>1
          <5> HIDE DEF i
          <5> QED BY <1>6, <2>2, <4>1, <5>1, <5>2
        <4> QED BY <4>1 DEF Added
      <3>3. \A l \in DOMAIN rest : rest[l] = rest[k] => n + l = n + k
        BY <1>4, <1>6, <2>2, <3>1
      <3>4. \A l \in DOMAIN rest : rest[l] = rest[k] => l = k
        BY <1>2, <1>4, <3>3
      <3> QED BY <1>5, <1>6, <2>2, <3>1, <3>2, <3>4 DEF on
    <2> QED BY <1>1, <1>10, <2>1, <2>2 DEF TapInv, QueueInv
  <1>13. TurnInv'
    <2>1. \A r : Due(r, 0) = "L" /\ Due(r, 1) = "L"
      BY DEF Due
    <2>2. ASSUME NEW r \in on, Steady(rec[r]) PROVE NextIn(r, rec[r]) = "L"
      BY <1>1, <1>7, <2>1, <2>2 DEF TapInv, TurnInv, Fresh, NextIn
    <2>3. pos'[b] = 1 /\ \A c \in Buses \ {b} : pos'[c] = pos[c]
      BY <1>1 DEF TapInv, TapTypes
    <2> QED BY <1>1, <1>10, <2>1, <2>2, <2>3 DEF TapInv, TurnInv
  <1> QED BY <1>9, <1>11, <1>12, <1>13 DEF TapInv

(* The sample after the next: left and right take turns, and a block ends  *)
(* after a right one.                                                      *)
LEMMA DueNext ==
    ASSUME NEW p \in 1..2 * Frames
    PROVE  /\ (p + 1) % (2 * Frames + 1) \in 0..2 * Frames
           /\ \A r : LET ch == IF p % 2 = 1 THEN "L" ELSE "R" IN
                /\ ch = "L" \/ r \in Stereo =>
                      /\ Due(r, p) = ch
                      /\ Due(r, (p + 1) % (2 * Frames + 1)) = Following(ch, r)
                /\ ~(ch = "L" \/ r \in Stereo) =>
                      Due(r, (p + 1) % (2 * Frames + 1)) = Due(r, p)
  <1>1. Frames \in Nat /\ Frames > 0
    BY RecorderAssumption
  <1>2. CASE p < 2 * Frames
    <2>1. (p + 1) % (2 * Frames + 1) = p + 1
      BY <1>1, <1>2
    <2>2. (p + 1) % 2 = 0 <=> p % 2 = 1
      OBVIOUS
    <2> QED BY <1>1, <1>2, <2>1, <2>2 DEF Due, Following
  <1>3. CASE p = 2 * Frames
    <2>1. (p + 1) % (2 * Frames + 1) = 0
      BY <1>1, <1>3
    <2>2. p % 2 = 0
      BY <1>1, <1>3
    <2> QED BY <1>1, <1>3, <2>1, <2>2 DEF Due, Following
  <1> QED BY <1>1, <1>2, <1>3

(* A sample that is due is put after the others, or a loss is reported.    *)
LEMMA PushIsSound ==
    ASSUME NEW r, r \in Recs, rec[r] \in Recording, NEW ch \in {"L", "R"}, Sound(r, rec[r]),
           Steady(rec[r]) => NextIn(r, rec[r]) = ch
    PROVE  /\ Sound(r, Pushed(r, ch)) /\ Pushed(r, ch).bus = rec[r].bus
           /\ Steady(Pushed(r, ch)) => NextIn(r, Pushed(r, ch)) = Following(ch, r)
  <1> DEFINE x == rec[r]
             y == [x EXCEPT !.ring = Append(@, ch), !.late = @ \/ x.writer \in {"finalize", "done"}]
             z == [x EXCEPT !.dropped = TRUE]
  <1>1. CASE Pushed(r, ch) = x /\ x.life = "ended"
    BY <1>1 DEF Steady
  <1>2. CASE Pushed(r, ch) = z
    <2>1. z.dropped /\ z.bus = x.bus
      BY DEF Recording
    <2> QED BY <1>2, <2>1 DEF Sound, Steady, Reported
  <1>3. CASE Pushed(r, ch) = y
    <2>1. /\ y.ring = Append(x.ring, ch) /\ y.turn = x.turn /\ y.bus = x.bus /\ y.life = x.life
          /\ y.skew = x.skew /\ y.error = x.error /\ y.dropped = x.dropped
      BY DEF Recording
    <2>2. /\ x.ring \in Seq({"L", "R"}) /\ Len(x.ring) \in Nat
          /\ Len(y.ring) = Len(x.ring) + 1 /\ y.ring[Len(x.ring) + 1] = ch
          /\ \A k \in 1..Len(x.ring) : y.ring[k] = x.ring[k]
          /\ x.ring = <<>> <=> Len(x.ring) = 0
      <3>1. x.ring \in Seq({"L", "R"})
        BY DEF Recording
      <3>2. \A s \in Seq({"L", "R"}) : s = <<>> <=> Len(s) = 0
        OBVIOUS
      <3> QED BY <2>1, <3>1, <3>2
    <2>3. y.ring # <<>>
      <3>1. Len(y.ring) # Len(<<>>)
        BY <2>2
      <3> QED BY <3>1
    <2> HIDE DEF y
    <2>4. Steady(y) <=> Steady(x)
      BY <2>1 DEF Steady, Reported
    <2>5. ASSUME Steady(x) PROVE Chained(r, y)
      <3>1. /\ x.ring # <<>> => x.ring[1] = x.turn
            /\ \A k \in 1..Len(x.ring) - 1 : x.ring[k + 1] = Following(x.ring[k], r)
        BY <2>5 DEF Sound, Chained
      <3>2. NextIn(r, x) = ch
        BY <2>5
      <3>3. y.ring[1] = y.turn
        BY <2>1, <2>2, <3>1, <3>2 DEF NextIn
      <3>4. ASSUME NEW k \in 1..Len(y.ring) - 1 PROVE y.ring[k + 1] = Following(y.ring[k], r)
        <4>1. CASE k = Len(x.ring)
          BY <2>2, <3>2, <4>1 DEF NextIn
        <4>2. CASE k # Len(x.ring)
          BY <2>2, <3>1, <4>2
        <4> QED BY <4>1, <4>2
      <3> QED BY <3>3, <3>4 DEF Chained
    <2>6. NextIn(r, y) = Following(ch, r)
      BY <2>2, <2>3 DEF NextIn
    <2>7. Sound(r, y)
      BY <2>1, <2>4, <2>5 DEF Sound, Reported
    <2> QED BY <1>3, <2>1, <2>6, <2>7
  <1> QED BY <1>1, <1>2, <1>3 DEF Pushed

LEMMA PushSampleKeepsTaps == ASSUME Inv, TapInv, NEW b \in Buses, PushSample(b) PROVE TapInv'
  <1> DEFINE p     == pos[b]
             q     == (p + 1) % (2 * Frames + 1)
             ch    == IF p % 2 = 1 THEN "L" ELSE "R"
             takes == {r \in active[b] : ch = "L" \/ r \in Stereo}
  <1>1. /\ p > 0 /\ UNCHANGED <<queue, active>> /\ pos' = [pos EXCEPT ![b] = q]
        /\ rec' = [r \in Recs |-> IF r \in takes THEN Pushed(r, ch) ELSE rec[r]]
    BY DEF PushSample
  <1>2. /\ rec \in [Recs -> Recording] /\ queue \in [Buses -> Seq(TapCommand)]
        /\ active \in [Buses -> SUBSET Recs] /\ pos \in [Buses -> 0..2 * Frames]
    BY DEF Inv, PartTypes, TapInv, TapTypes
  <1>3. p \in 1..2 * Frames
    BY <1>1, <1>2
  <1>4. /\ q \in 0..2 * Frames
        /\ \A r \in active[b] : /\ r \in takes => Due(r, p) = ch /\ Due(r, q) = Following(ch, r)
                                /\ r \notin takes => Due(r, q) = Due(r, p)
    BY <1>3, DueNext
  <1>5. ch \in {"L", "R"} /\ takes \subseteq active[b]
    OBVIOUS
  <1> HIDE DEF q, ch, takes
  <1>6. ASSUME NEW r \in takes
        PROVE  /\ r \in Recs /\ rec[r].bus = b /\ rec'[r] = Pushed(r, ch)
               /\ Sound(r, rec'[r]) /\ rec'[r].bus = rec[r].bus
               /\ Steady(rec'[r]) => NextIn(r, rec'[r]) = Following(ch, r)
    <2>1. r \in Recs /\ r \in active[b] /\ rec[r] \in Recording /\ rec[r].bus = b
      BY <1>2, <1>5 DEF TapInv, ActiveInv
    <2>2. Sound(r, rec[r]) /\ (Steady(rec[r]) => NextIn(r, rec[r]) = ch)
      BY <1>4, <2>1 DEF TapInv, TurnInv
    <2> QED BY <1>1, <1>5, <2>1, <2>2, PushIsSound
  <1>7. \A r \in Recs \ takes : rec'[r] = rec[r]
    BY <1>1
  <1>8. TapTypes'
    BY <1>1, <1>2, <1>4 DEF TapTypes
  <1>9. ActiveInv'
    BY <1>1, <1>2, <1>6, <1>7 DEF TapInv, ActiveInv
  <1>10. QueueInv'
    <2> SUFFICES ASSUME NEW c \in Buses, NEW k \in DOMAIN queue[c], queue[c][k].do = "add"
                 PROVE  rec'[queue[c][k].id] = rec[queue[c][k].id]
      BY <1>1 DEF TapInv, QueueInv
    <2>1. queue[c][k] \in TapCommand
      BY <1>2
    <2>2. queue[c][k].id \in Recs
      BY <2>1 DEF TapCommand
    <2>3. rec[queue[c][k].id].bus = c /\ queue[c][k].id \notin active[c]
      BY DEF TapInv, QueueInv
    <2> QED BY <1>5, <1>6, <1>7, <2>2, <2>3
  <1>11. TurnInv'
    <2>1. \A r \in Recs : Sound(r, rec'[r])
      BY <1>6, <1>7 DEF TapInv, TurnInv
    <2>2. ASSUME NEW c \in Buses, NEW r \in active[c], Steady(rec'[r])
          PROVE  NextIn(r, rec'[r]) = Due(r, pos'[c])
      <3>1. r \in Recs /\ rec[r].bus = c
        BY <1>2 DEF TapInv, ActiveInv
      <3>2. CASE r \in takes
        <4>1. c = b /\ pos'[b] = q
          BY <1>1, <1>2, <1>6, <3>1, <3>2
        <4> QED BY <1>4, <1>6, <2>2, <3>2, <4>1
      <3>3. CASE r \notin takes
        <4>1. rec'[r] = rec[r]
          BY <1>7, <3>1, <3>3
        <4>2. NextIn(r, rec[r]) = Due(r, pos[c])
          BY <2>2, <4>1 DEF TapInv, TurnInv
        <4>3. Due(r, pos'[c]) = Due(r, pos[c])
          BY <1>1, <1>2, <1>4, <3>3
        <4> QED BY <4>1, <4>2, <4>3
      <3> QED BY <3>2, <3>3
    <2> QED BY <1>1, <2>1, <2>2 DEF TurnInv
  <1> QED BY <1>8, <1>9, <1>10, <1>11 DEF TapInv

-----------------------------------------------------------------------------
(* The channels of a file keep their places *)

LEMMA InitTaps == RecorderInit => TapInv
  <1> SUFFICES ASSUME RecorderInit PROVE TapInv
    OBVIOUS
  <1>1. <<>> \in Seq(TapCommand) /\ 0 \in 0..2 * Frames /\ \A k \in DOMAIN <<>> : FALSE
    BY RecorderAssumption
  <1>2. /\ \A b \in Buses : queue[b] = <<>> /\ active[b] = {}
        /\ \A r \in Recs : rec[r] = NoRecording
    BY DEF RecorderInit
  <1>3. TapTypes
    BY <1>1 DEF RecorderInit, TapTypes
  <1>4. ActiveInv /\ QueueInv
    BY <1>1, <1>2 DEF ActiveInv, QueueInv
  <1>5. NoRecording.ring = <<>> /\ NoRecording.skew = FALSE /\ Len(<<>>) = 0 /\ 1..0 - 1 = {}
    BY DEF NoRecording
  <1>6. TurnInv
    BY <1>2, <1>5 DEF TurnInv, Sound, Chained
  <1> QED BY <1>3, <1>4, <1>6 DEF TapInv

LEMMA StepKeepsTaps == ASSUME Inv, TapInv, [RecorderNext]_recorderVars PROVE TapInv'
  <1>1. CASE UNCHANGED <<queue, active, pos, rec>>
    BY <1>1 DEF TapInv, TapTypes, ActiveInv, QueueInv, TurnInv
  <1>2. ASSUME NEW b \in Buses, StartEngine(b) \/ TearDown(b) \/ Callback(b) PROVE TapInv'
    BY <1>1, <1>2, BeginBlockKeepsTaps, PushSampleKeepsTaps DEF StartEngine, TearDown, Callback
  <1>3. ASSUME NEW S, StopRecordings(S) PROVE TapInv'
    BY <1>1, <1>3 DEF StopRecordings
  <1>4. CASE Stopping
    BY <1>4, StopOneKeepsTaps, JoinedKeepsTaps, DropEngineKeepsTaps DEF Stopping
  <1>5. CASE UNCHANGED recorderVars
    BY <1>1, <1>5 DEF recorderVars
  <1> QED
    BY <1>2, <1>3, <1>4, <1>5, StartRecordingKeepsTaps, StartMasterKeepsTaps,
       DeleteFileKeepsTaps, WriterKeepsTaps DEF RecorderNext

LEMMA TapsHold == RecorderSpec => [](Inv /\ TapInv)
  <1>1. RecorderInit => Inv /\ TapInv
    BY InitInv, InitTaps
  <1>2. (Inv /\ TapInv) /\ [RecorderNext]_recorderVars => (Inv /\ TapInv)'
    BY StepKeepsInv, StepKeepsTaps
  <1> QED BY <1>1, <1>2, PTL DEF RecorderSpec

(* Whenever a recorder is told to stop, the engine whose callback holds    *)
(* its tap still runs: recordings end before engines (recorder.rs 230,     *)
(* tear_down_engine of lib.rs).                                            *)
THEOREM RecordersEndFirst == RecorderSpec => []RemoveFindsEngine
  <1>1. Inv => RemoveFindsEngine
    BY DEF Inv, EngineInv, RemoveFindsEngine
  <1> QED BY <1>1, InvHolds, PTL

(* A recording that ended without an error has in its file all that was in *)
(* its ring when the stop was asked for, whatever the callback, the disk   *)
(* and the other commands did (run_writer, recorder.rs 427).               *)
THEOREM StopLosesNothing == RecorderSpec => []StoppedIsComplete
  <1>1. Inv => StoppedIsComplete
    BY DEF Inv, WriterInv, Orderly, StoppedIsComplete
  <1> QED BY <1>1, InvHolds, PTL

(* Left and right change places in a file only when the recording shows a  *)
(* loss or an error: the callback pushes a frame in two halves to a ring   *)
(* that may fill between them, and takes up and gives up taps between      *)
(* blocks only (ActiveTap::push, recorder.rs 160; mixer.rs 894).           *)
THEOREM ChannelsKeepTheirPlaces == RecorderSpec => []SkewIsReported
  <1>1. TapInv => SkewIsReported
    BY DEF TapInv, TurnInv, Sound, SkewIsReported
  <1> QED BY <1>1, TapsHold, PTL

(* Recordings, taps and commands keep their types: a callback holds and is *)
(* sent only taps of recordings, and stays within its block.               *)
THEOREM TypeCorrect == RecorderSpec => []RecorderTypeOK
  <1>1. Inv /\ TapInv => RecorderTypeOK
    BY DEF Inv, PartTypes, TapInv, TapTypes, RecorderTypeOK
  <1> QED BY <1>1, TapsHold, PTL

===============================================================================
