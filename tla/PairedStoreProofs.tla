-------------------------- MODULE PairedStoreProofs --------------------------
(***************************************************************************)
(* Proofs about PairedStore for any set of ids, any clock range and any    *)
(* expiry time.                                                            *)
(***************************************************************************)
EXTENDS PairedStore, TLAPS

-----------------------------------------------------------------------------
(* The inductive invariant, one conjunct per part of the argument *)

(* Ids are unique: what a store, a snapshot or the registry names was      *)
(* issued, and so was everything revoked.                                  *)
IssuedInv == /\ Held(devices) \subseteq issued
             /\ Held(disk) \subseteq issued
             /\ sessions \subseteq issued
             /\ revoked \subseteq issued
             /\ arg \subseteq issued

(* A thread that writes holds the lock, and only a loaded store is written. *)
WriterInv == \A t \in Thread :
                /\ pc[t] = "write" => writeLock = t /\ loadedOk
                /\ op[t] \in {"upsert", "forget"} =>
                      /\ t = "command" /\ pc[t] \in {"persist", "write"}
                      /\ \E id \in Ids : arg = {id}

(* A snapshot on its way to the file is no older than the last answer.     *)
SnapshotInv == \A t \in Thread : pc[t] = "write" =>
                  /\ Held(snap[t]) \subseteq issued
                  /\ Held(snap[t]) \intersect revoked = {}
                  /\ confirmed \subseteq Held(snap[t])
                  /\ op[t] = "forget" => arg \intersect Held(snap[t]) = {}
                  /\ op[t] = "upsert" => arg \intersect Held(devices) \subseteq Held(snap[t])

RevokedInv == /\ revoked \intersect (Held(devices) \union Held(disk) \union sessions) = {}
              /\ op["command"] = "forget" => arg \intersect Held(devices) = {}

(* What an unreadable file holds is unknown to this run. *)
UnloadedInv == up = "running" /\ ~loadedOk =>
                  /\ Held(disk) \intersect (Held(devices) \union sessions) = {}
                  /\ op["command"] = "forget" => arg \intersect Held(disk) = {}

SavedInv == /\ confirmed \subseteq Held(disk)
            /\ loadedOk => confirmed \subseteq Held(devices)

StoppedInv == up # "running" =>
                  /\ pc = [t \in Thread |-> "idle"]
                  /\ op = [t \in Thread |-> "none"]
                  /\ sessions = {} /\ devices = Empty /\ ~loadedOk /\ arg = {}
                  /\ writeLock = "free"

Inv == /\ TypeOK /\ IssuedInv /\ WriterInv /\ SnapshotInv
       /\ RevokedInv /\ UnloadedInv /\ SavedInv /\ StoppedInv

-----------------------------------------------------------------------------
(* Lemmas about stores *)

(* Entering an id adds it, removing it takes it out, pruning only takes    *)
(* entries out; all three keep a store a store.                            *)
LEMMA EnterHeld ==
    ASSUME NEW s \in Store, NEW id \in Ids, NEW time \in Time
    PROVE  /\ [s EXCEPT ![id] = time] \in Store
           /\ Held([s EXCEPT ![id] = time]) = Held(s) \union {id}
<1>1. time # NoDevice
  BY StoreAssumption DEF Time
<1> QED
  BY <1>1 DEF Store, Held

LEMMA RemoveHeld ==
    ASSUME NEW s \in Store, NEW id \in Ids
    PROVE  /\ [s EXCEPT ![id] = NoDevice] \in Store
           /\ Held([s EXCEPT ![id] = NoDevice]) = Held(s) \ {id}
BY DEF Store, Held

LEMMA LiveHeld ==
    ASSUME NEW s \in Store
    PROVE  /\ Live(s) \in Store
           /\ Held(Live(s)) \subseteq Held(s)
BY DEF Store, Held, Live

LEMMA EmptyHeld == Empty \in Store /\ Held(Empty) = {}
BY DEF Empty, Store, Held

-----------------------------------------------------------------------------
(* Type correctness *)

LEMMA TypeInit == Init => TypeOK
<1>1. 0 \in Time
  BY StoreAssumption DEF Time
<1> QED
  BY <1>1, EmptyHeld DEF Init, TypeOK, Ops, Thread

LEMMA TypeStep == TypeOK /\ [Next]_vars => TypeOK'
<1> SUFFICES ASSUME TypeOK, [Next]_vars PROVE TypeOK'
  OBVIOUS
<1> USE DEF TypeOK, Thread
<1>1. CASE Clock
  BY <1>1 DEF Clock, threadVars, history
<1>2. ASSUME NEW id \in Ids, CreateSession(id) \/ ResumeSession(id) PROVE TypeOK'
  BY <1>2 DEF CreateSession, ResumeSession, threadVars, history
<1>3. ASSUME NEW id \in Ids, RecordResume(id) PROVE TypeOK'
  BY <1>3, EnterHeld DEF RecordResume, Change, threadVars, history
<1>4. ASSUME NEW id \in Ids, Upsert(id) PROVE TypeOK'
  BY <1>4, EnterHeld DEF Upsert, Change, Call, At, Goto, Ops, history
<1>5. ASSUME NEW id \in Ids, Forget(id) PROVE TypeOK'
  BY <1>5, RemoveHeld DEF Forget, Change, Call, At, Goto, Ops
<1>6. ASSUME NEW id \in Ids, ForgetUnknown(id) PROVE TypeOK'
  BY <1>6 DEF ForgetUnknown, threadVars, history
<1>7. CASE Exit
  BY <1>7 DEF Exit, Call, At, Goto, Ops, history
<1>8. CASE Maintain
  <2>1. Live(devices) \in Store
    BY LiveHeld
  <2> QED
    BY <1>8, <2>1 DEF Maintain, Call, At, Goto, Ops
<1>9. ASSUME NEW t \in Thread, CheckDirty(t) PROVE TypeOK'
  BY <1>9 DEF CheckDirty, Return, At, Goto, Ops
<1>10. ASSUME NEW t \in Thread, Snapshot(t) PROVE TypeOK'
  BY <1>10 DEF Snapshot, At, Goto, history
<1>11. ASSUME NEW t \in Thread, SkipWrite(t) PROVE TypeOK'
  BY <1>11 DEF SkipWrite, Return, At, Goto, Ops
<1>12. ASSUME NEW t \in Thread, WriteOk(t) PROVE TypeOK'
  BY <1>12, EmptyHeld DEF WriteOk, Return, At, Goto, Ops, DirtyAfterWrite
<1>13. ASSUME NEW t \in Thread, WriteErr(t) PROVE TypeOK'
  BY <1>13, EmptyHeld DEF WriteErr, Return, At, Goto, Ops, DirtyAfterError
<1>14. CASE Crash \/ Terminate
  BY <1>14, EmptyHeld DEF Crash, Terminate, Stop, Ops
<1>15. ASSUME NEW readable \in BOOLEAN, NEW prune \in BOOLEAN, Boot(readable, prune)
       PROVE  TypeOK'
  <2>1. Live(disk) \in Store /\ Empty \in Store
    BY LiveHeld, EmptyHeld
  <2> QED
    BY <1>15, <2>1 DEF Boot, threadVars, Held
<1>16. CASE UNCHANGED vars
  BY <1>16 DEF vars, threadVars, history
<1> QED
  BY <1>1, <1>2, <1>3, <1>4, <1>5, <1>6, <1>7, <1>8, <1>9, <1>10, <1>11, <1>12,
     <1>13, <1>14, <1>15, <1>16 DEF Next, Persist

(* Every variable keeps its type.                                          *)
THEOREM TypeCorrect == Spec => []TypeOK
BY TypeInit, TypeStep, PTL DEF Spec

-----------------------------------------------------------------------------
(* The inductive invariant *)

LEMMA InvInit == Init => Inv
<1> SUFFICES ASSUME Init PROVE Inv
  OBVIOUS
<1>1. TypeOK
  BY TypeInit
<1> QED
  BY <1>1, EmptyHeld
  DEF Init, Inv, IssuedInv, WriterInv, SnapshotInv, RevokedInv, UnloadedInv,
      SavedInv, StoppedInv

(* The parts of Inv, to be unfolded by the steps of the next lemma. *)
LEMMA InvStep == Inv /\ [Next]_vars => Inv'
<1> SUFFICES ASSUME Inv, [Next]_vars PROVE Inv'
  OBVIOUS
<1>0. TypeOK /\ TypeOK'
  BY TypeStep DEF Inv
<1> USE DEF Inv, IssuedInv, WriterInv, SnapshotInv, RevokedInv, UnloadedInv,
            SavedInv, StoppedInv, Thread
<1>1. CASE Clock
  BY <1>0, <1>1 DEF Clock, threadVars, history, Held
<1>2. ASSUME NEW id \in Ids, CreateSession(id) PROVE Inv'
  BY <1>0, <1>2 DEF CreateSession, threadVars, history, Held
<1>3. ASSUME NEW id \in Ids, ResumeSession(id) PROVE Inv'
  BY <1>0, <1>3 DEF ResumeSession, threadVars, history, Held
<1>4. ASSUME NEW id \in Ids, RecordResume(id) PROVE Inv'
  <2>1. Held(devices') = Held(devices)
    <3>1. Held(devices') = Held(devices) \union {id}
      BY <1>0, <1>4, EnterHeld DEF RecordResume, Change, TypeOK
    <3> QED
      BY <3>1, <1>4 DEF RecordResume
  <2>2. UNCHANGED <<up, loadedOk, disk, sessions, issued, threadVars, history>>
    BY <1>4 DEF RecordResume
  <2> QED
    BY <1>0, <1>4, <2>1, <2>2 DEF threadVars, history, RecordResume, Held
<1>5. ASSUME NEW id \in Ids, Upsert(id) PROVE Inv'
  <2>1. Held(devices') = Held(devices) \union {id}
    BY <1>0, <1>5, EnterHeld DEF Upsert, Change, TypeOK
  <2>2. /\ UNCHANGED <<up, loadedOk, disk, sessions, issued, writeLock, snap, history>>
        /\ up = "running" /\ pc["command"] = "idle"
        /\ op' = [op EXCEPT !["command"] = "upsert"]
        /\ pc' = [pc EXCEPT !["command"] = "persist"]
        /\ id \in sessions /\ arg' = {id}
    BY <1>5 DEF Upsert, Call, At, Goto
  <2> QED
    BY <1>0, <2>1, <2>2 DEF history, Held, TypeOK
<1>6. ASSUME NEW id \in Ids, Forget(id) PROVE Inv'
  <2>1. Held(devices') = Held(devices) \ {id}
    BY <1>0, <1>6, RemoveHeld DEF Forget, Change, TypeOK
  <2>2. /\ UNCHANGED <<up, loadedOk, disk, sessions, issued, writeLock, snap, revoked>>
        /\ up = "running" /\ pc["command"] = "idle"
        /\ op' = [op EXCEPT !["command"] = "forget"]
        /\ pc' = [pc EXCEPT !["command"] = "persist"]
        /\ confirmed' = confirmed \ {id}
        /\ arg' = {id} /\ id \in Held(devices)
    BY <1>6 DEF Forget, Call, At, Goto
  <2> QED
    BY <1>0, <2>1, <2>2 DEF Held, TypeOK
<1>7. ASSUME NEW id \in Ids, ForgetUnknown(id) PROVE Inv'
  BY <1>0, <1>7 DEF ForgetUnknown, threadVars, history, Held
<1>8. CASE Exit
  BY <1>0, <1>8 DEF Exit, Call, At, Goto, history, Held, TypeOK
<1>9. CASE Maintain
  <2>1. Held(devices') \subseteq Held(devices)
    BY <1>0, <1>9, LiveHeld DEF Maintain, TypeOK
  <2>2. /\ UNCHANGED <<up, loadedOk, disk, sessions, issued, writeLock, snap, arg, revoked>>
        /\ up = "running" /\ pc["maint"] = "idle"
        /\ op' = [op EXCEPT !["maint"] = "maintain"]
        /\ pc' = [pc EXCEPT !["maint"] = "check"]
        /\ confirmed' = confirmed \ (Held(devices) \ Held(devices'))
    BY <1>9 DEF Maintain, Call, At, Goto
  <2> QED
    BY <1>0, <2>1, <2>2 DEF Held, TypeOK
<1>10. ASSUME NEW t \in Thread, CheckDirty(t) PROVE Inv'
  BY <1>0, <1>10 DEF CheckDirty, Return, At, Goto, Held, TypeOK, Durable
<1>11. ASSUME NEW t \in Thread, Snapshot(t) PROVE Inv'
  BY <1>0, <1>11 DEF Snapshot, At, Goto, history, Held, TypeOK, LockFree, Writable
<1>12. ASSUME NEW t \in Thread, SkipWrite(t) PROVE Inv'
  BY <1>0, <1>12 DEF SkipWrite, Return, At, Goto, Held, TypeOK, LockFree, Writable, Durable
<1>13. ASSUME NEW t \in Thread, WriteOk(t) PROVE Inv'
  BY <1>0, <1>13 DEF WriteOk, Return, At, Goto, Held, TypeOK, Durable
<1>14. ASSUME NEW t \in Thread, WriteErr(t) PROVE Inv'
  BY <1>0, <1>14 DEF WriteErr, Return, At, Goto, Held, TypeOK, Durable
<1>15. CASE Crash \/ Terminate
  BY <1>0, <1>15, EmptyHeld DEF Crash, Terminate, Stop, Held, TypeOK
<1>16. ASSUME NEW readable \in BOOLEAN, NEW prune \in BOOLEAN, Boot(readable, prune)
       PROVE  Inv'
  <2>1. Held(Live(disk)) \subseteq Held(disk) /\ Held(Empty) = {}
    BY <1>0, LiveHeld, EmptyHeld DEF TypeOK
  <2> QED
    BY <1>0, <1>16, <2>1 DEF Boot, threadVars, Held, TypeOK
<1>17. CASE UNCHANGED vars
  BY <1>0, <1>17 DEF vars, threadVars, history, Held
<1> QED
  BY <1>1, <1>2, <1>3, <1>4, <1>5, <1>6, <1>7, <1>8, <1>9, <1>10, <1>11, <1>12,
     <1>13, <1>14, <1>15, <1>16, <1>17 DEF Next, Persist

LEMMA Invariance == Spec => []Inv
BY InvInit, InvStep, PTL DEF Spec

(* An id whose removal was reported durable is never trusted again, in     *)
(* memory or in the file (forget, "revocation must outlive a crash").      *)
THEOREM RevocationIsFinal == Spec => []RevokedNeverReturns
<1>1. Inv => RevokedNeverReturns
  BY DEF Inv, RevokedInv, RevokedNeverReturns
<1> QED
  BY <1>1, Invariance, PTL

(* A pairing reported saved is in the file until it is revoked or expires: *)
(* no concurrent writer of persist drops it.                               *)
THEOREM SavedPairingsLast == Spec => []SavedPairingIsOnDisk
<1>1. Inv => SavedPairingIsOnDisk
  BY DEF Inv, SavedInv, SavedPairingIsOnDisk
<1> QED
  BY <1>1, Invariance, PTL

(* Both answers hold for good, whatever the two writers do.                *)
THEOREM AnswersLast == Spec => []AnswersAreKept
<1>1. RevokedNeverReturns /\ SavedPairingIsOnDisk => AnswersAreKept
  BY DEF AnswersAreKept
<1> QED
  BY <1>1, RevocationIsFinal, SavedPairingsLast, PTL

(* A file that could not be loaded is not written by any step of this run. *)
THEOREM UnreadableFileUntouched == Spec => UnreadableFileIsKept
<1>1. Inv /\ [Next]_vars => (up = "running" /\ ~loadedOk => disk' = disk)
  <2> SUFFICES ASSUME Inv, [Next]_vars, up = "running", ~loadedOk PROVE disk' = disk
    OBVIOUS
  <2>1. ASSUME NEW t \in Thread, WriteOk(t) PROVE FALSE
    BY <2>1 DEF Inv, WriterInv, WriteOk, At
  <2>2. CASE UNCHANGED vars
    BY <2>2 DEF vars
  <2>3. CASE Next
    BY <2>1, <2>3 DEF Next, Persist, Clock, CreateSession, ResumeSession, RecordResume,
       Upsert, Forget, ForgetUnknown, Exit, Maintain, CheckDirty, Snapshot, SkipWrite,
       WriteErr, Crash, Terminate, Stop, Boot
  <2> QED
    BY <2>2, <2>3
<1> QED
  BY <1>1, Invariance, PTL DEF Spec, UnreadableFileIsKept

-----------------------------------------------------------------------------
(* No change is lost between the memory and the file *)

(* Without the mark, every snapshot on its way is what the memory holds,   *)
(* and if there is none the file agrees with the memory.                   *)
LeftInv == up = "running" /\ loadedOk /\ ~dirty =>
              /\ \A t \in Thread : pc[t] = "write" => snap[t] = devices
              /\ (\A t \in Thread : pc[t] # "write") => \A i \in Ids \ stale : disk[i] = devices[i]

(* A step that neither writes nor marks leaves the memory alone, and so    *)
(* all that the file owes it.                                              *)
LEMMA LeftKept ==
    ASSUME LeftInv, UNCHANGED <<up, loadedOk, devices, disk, snap, stale>>, dirty' = dirty,
           \A t \in Thread : pc'[t] = "write" <=> pc[t] = "write"
    PROVE  LeftInv'
BY DEF LeftInv

LEMMA LeftStep == Inv /\ LeftInv /\ [Next]_vars => LeftInv'
<1> SUFFICES ASSUME Inv, LeftInv, [Next]_vars PROVE LeftInv'
  OBVIOUS
<1>t. TypeOK
  BY DEF Inv
<1>1. CASE Clock \/ Exit
  BY <1>t, <1>1, LeftKept DEF Clock, Exit, Call, At, Goto, threadVars, history, TypeOK
<1>2. ASSUME NEW id \in Ids, CreateSession(id) \/ ResumeSession(id) \/ ForgetUnknown(id)
      PROVE  LeftInv'
  BY <1>2, LeftKept DEF CreateSession, ResumeSession, ForgetUnknown, threadVars, history
<1>3. ASSUME NEW id \in Ids, RecordResume(id) \/ Upsert(id) \/ Forget(id) PROVE LeftInv'
  BY <1>3 DEF RecordResume, Upsert, Forget, Change, LeftInv
<1>4. CASE Maintain
  <2>1. CASE devices' = devices
    BY <1>t, <1>4, <2>1, LeftKept DEF Maintain, Call, At, Goto, TypeOK
  <2>2. CASE devices' # devices
    BY <1>4, <2>2 DEF Maintain, LeftInv
  <2> QED
    BY <2>1, <2>2
<1>5. ASSUME NEW t \in Thread, CheckDirty(t) PROVE LeftInv'
  BY <1>t, <1>5, LeftKept DEF CheckDirty, Return, At, Goto, TypeOK
(* The lock was free, so this snapshot is the only one.                    *)
<1>6. ASSUME NEW t \in Thread, Snapshot(t) PROVE LeftInv'
  <2>1. /\ UNCHANGED <<up, loadedOk, devices, disk, stale>> /\ writeLock = "free"
        /\ snap' = [snap EXCEPT ![t] = devices] /\ pc' = [pc EXCEPT ![t] = "write"]
    BY <1>6 DEF Snapshot, LockFree, Goto, history
  <2>2. \A u \in Thread : pc[u] # "write"
    BY <2>1 DEF Inv, WriterInv, Thread
  <2>3. pc'[t] = "write" /\ snap'[t] = devices'
    BY <1>t, <2>1 DEF TypeOK
  <2>4. \A u \in Thread \ {t} : pc'[u] # "write"
    BY <1>t, <2>1, <2>2 DEF TypeOK
  <2> QED
    BY <2>3, <2>4 DEF LeftInv
<1>7. ASSUME NEW t \in Thread, SkipWrite(t) PROVE LeftInv'
  BY <1>7 DEF SkipWrite, Writable, LeftInv
(* What the only writer wrote is the memory, unless that is marked again.  *)
<1>8. ASSUME NEW t \in Thread, WriteOk(t) PROVE LeftInv'
  <2>1. /\ disk' = snap[t] /\ stale' = {} /\ dirty' = dirty /\ pc[t] = "write"
        /\ UNCHANGED <<up, devices, loadedOk>>
    BY <1>8 DEF WriteOk, DirtyAfterWrite, At
  <2>2. \A u \in Thread : pc'[u] # "write"
    BY <1>t, <1>8 DEF Inv, WriterInv, WriteOk, Return, At, Goto, TypeOK
  <2> QED
    BY <2>1, <2>2 DEF LeftInv
<1>9. ASSUME NEW t \in Thread, WriteErr(t) PROVE LeftInv'
  BY <1>9 DEF WriteErr, DirtyAfterError, LeftInv
<1>10. CASE Crash \/ Terminate
  BY <1>10 DEF Crash, Terminate, Stop, LeftInv
<1>11. ASSUME NEW readable \in BOOLEAN, NEW prune \in BOOLEAN, Boot(readable, prune)
       PROVE  LeftInv'
  <2>1. CASE ~readable
    BY <1>11, <2>1 DEF Boot, LeftInv
  <2>2. CASE readable
    <3>1. /\ devices' = Live(disk) /\ disk' \in {disk, devices'}
          /\ stale' = Held(disk') \ Held(devices') /\ pc' = pc
      BY <1>11, <2>2 DEF Boot, threadVars
    <3>2. \A u \in Thread : pc'[u] # "write"
      BY <1>11, <3>1 DEF Boot, Inv, StoppedInv
    <3>3. ASSUME NEW i \in Ids \ stale' PROVE disk'[i] = devices'[i]
      <4>1. devices'[i] \in {disk[i], NoDevice}
        BY <3>1 DEF Live
      <4> QED
        BY <3>1, <3>3, <4>1 DEF Held
    <3> QED
      BY <3>2, <3>3 DEF LeftInv
  <2> QED
    BY <2>1, <2>2
<1>12. CASE UNCHANGED vars
  BY <1>12 DEF vars, threadVars, history, LeftInv
<1> QED
  BY <1>1, <1>2, <1>3, <1>4, <1>5, <1>6, <1>7, <1>8, <1>9, <1>10, <1>11, <1>12
  DEF Next, Persist

(* What the memory holds and the file does not is marked for the next      *)
(* flush or on its way to the file, through writes that race, fail or are  *)
(* overtaken by a change (persist, flush_if_dirty).                        *)
THEOREM NoChangeIsLost == Spec => []NothingLeftBehind
<1>1. Init => LeftInv
  BY DEF Init, LeftInv
<1>2. LeftInv => NothingLeftBehind
  BY DEF LeftInv, NothingLeftBehind
<1> QED
  BY <1>1, <1>2, LeftStep, Invariance, PTL DEF Spec

-----------------------------------------------------------------------------
(* The concurrent store implements the abstract one *)

Staged == {Held(snap[t]) : t \in {u \in Thread : pc[u] = "write"}}

(* The write lock admits one writer, so at most one picture is staged.     *)
LEMMA OneWriter ==
    ASSUME Inv
    PROVE  /\ LockFree => Staged = {}
           /\ \A t \in Thread : pc[t] = "write" => Staged = {Held(snap[t])}
BY DEF Inv, WriterInv, LockFree, Staged, Thread, TypeOK

LEMMA RefinementStep == Inv /\ Inv' /\ [Next]_vars => [Abstract!Next]_(Abstract!vars)
<1> SUFFICES ASSUME Inv, Inv', [Next]_vars PROVE [Abstract!Next]_(Abstract!vars)
  OBVIOUS
<1>0. TypeOK /\ TypeOK'
  BY DEF Inv
<1> USE DEF Abstract!vars, Thread
<1>s. ASSUME UNCHANGED <<devices, disk, pc, snap, confirmed, revoked>>
      PROVE  UNCHANGED Abstract!vars
  BY <1>s DEF Held
<1>1. CASE Clock
  BY <1>1, <1>s DEF Clock, threadVars, history
<1>2. ASSUME NEW id \in Ids, CreateSession(id) \/ ResumeSession(id) \/ ForgetUnknown(id)
      PROVE  UNCHANGED Abstract!vars
  BY <1>2, <1>s DEF CreateSession, ResumeSession, ForgetUnknown, threadVars, history
<1>3. ASSUME NEW id \in Ids, RecordResume(id) PROVE UNCHANGED Abstract!vars
  <2>1. Held(devices') = Held(devices) \union {id}
    BY <1>0, <1>3, EnterHeld DEF RecordResume, Change, TypeOK
  <2>2. Held(devices') = Held(devices)
    BY <2>1, <1>3 DEF RecordResume
  <2> QED
    BY <1>3, <2>2 DEF RecordResume, threadVars, history, Held
<1>4. ASSUME NEW id \in Ids, Upsert(id) PROVE Abstract!Admit(id)
  <2>1. Held(devices') = Held(devices) \union {id}
    BY <1>0, <1>4, EnterHeld DEF Upsert, Change, TypeOK
  <2>2. id \notin revoked
    BY <1>4 DEF Upsert, Inv, RevokedInv
  <2>3. Staged' = Staged /\ UNCHANGED <<disk, confirmed, revoked>>
    BY <1>0, <1>4 DEF Upsert, Call, At, Goto, Staged, history, Held, TypeOK
  <2> QED
    BY <2>1, <2>2, <2>3 DEF Abstract!Admit, Staged, Held
<1>5. ASSUME NEW id \in Ids, Forget(id) PROVE Abstract!Withdraw({id})
  <2>1. Held(devices') = Held(devices) \ {id}
    BY <1>0, <1>5, RemoveHeld DEF Forget, Change, TypeOK
  <2>2. Staged' = Staged /\ UNCHANGED <<disk, revoked>> /\ confirmed' = confirmed \ {id}
    BY <1>0, <1>5 DEF Forget, Call, At, Goto, Staged, Held, TypeOK
  <2> QED
    BY <2>1, <2>2 DEF Abstract!Withdraw, Staged, Held
<1>6. CASE Exit
  BY <1>0, <1>6 DEF Exit, Call, At, Goto, history, TypeOK, Held
<1>7. CASE Maintain
  <2>1. Held(devices') \subseteq Held(devices)
    BY <1>0, <1>7, LiveHeld DEF Maintain, TypeOK
  <2>2. /\ Staged' = Staged /\ UNCHANGED <<disk, revoked>>
        /\ confirmed' = confirmed \ (Held(devices) \ Held(devices'))
    BY <1>0, <1>7 DEF Maintain, Call, At, Goto, Staged, Held, TypeOK
  <2>3. Abstract!Withdraw(Held(devices) \ Held(devices'))
    BY <2>1, <2>2 DEF Abstract!Withdraw, Staged, Held
  <2>4. Held(devices) \ Held(devices') \in SUBSET Ids
    BY DEF Held
  <2> QED
    BY <2>3, <2>4 DEF Abstract!Next
<1>8. ASSUME NEW t \in Thread, CheckDirty(t) PROVE UNCHANGED Abstract!vars
  <2>1. op[t] \notin {"upsert", "forget"}
    BY <1>8 DEF CheckDirty, At, Inv, WriterInv
  <2>2. Staged' = Staged /\ UNCHANGED <<devices, disk, confirmed, revoked>>
    BY <1>0, <1>8, <2>1 DEF CheckDirty, Return, At, Goto, Staged, Held, TypeOK
  <2> QED
    BY <2>2 DEF Staged, Held
<1>9. ASSUME NEW t \in Thread, Snapshot(t) PROVE Abstract!Stage
  <2>1. Staged = {} /\ pc'[t] = "write" /\ snap'[t] = devices
    BY <1>0, <1>9, OneWriter DEF Snapshot, Goto, TypeOK
  <2>2. Staged' = {Held(devices)}
    BY <1>0, <1>9, <2>1 DEF Snapshot, Goto, At, Staged, Held, TypeOK
  <2> QED
    BY <1>9, <2>1, <2>2 DEF Abstract!Stage, Snapshot, history, Staged, Held
<1>10. ASSUME NEW t \in Thread, SkipWrite(t) PROVE [Abstract!Next]_(Abstract!vars)
  <2>1. Staged = {} /\ Staged' = {} /\ UNCHANGED <<devices, disk, confirmed>>
    BY <1>0, <1>10, OneWriter DEF SkipWrite, Return, Goto, Staged, Held, TypeOK
  <2>2. CASE op[t] # "forget"
    <3>1. UNCHANGED revoked
      BY <1>10, <2>2 DEF SkipWrite, Return
    <3> QED
      BY <2>1, <3>1 DEF Staged, Held
  <2>3. CASE op[t] = "forget"
    <3>1. PICK id \in Ids : arg = {id}
      BY <2>3 DEF Inv, WriterInv
    <3>2. revoked' = revoked \union {id}
      BY <1>10, <2>3, <3>1 DEF SkipWrite, Return, Durable
    <3>3. id \notin Held(devices) \union Held(disk)'
      BY <2>1, <3>2 DEF Inv, RevokedInv, Held
    <3>4. Abstract!ConfirmRevoke(id)
      BY <2>1, <3>2, <3>3 DEF Abstract!ConfirmRevoke, Abstract!Abandon, Staged, Held
    <3> QED
      BY <3>4 DEF Abstract!Next
  <2> QED
    BY <2>2, <2>3
<1>11. ASSUME NEW t \in Thread, WriteOk(t) PROVE Abstract!Next
  <2>1. Staged = {Held(snap[t])} /\ Staged' = {}
    BY <1>0, <1>11, OneWriter, SMTT(20) DEF WriteOk, Return, At, Goto, Staged, Held, TypeOK,
       Inv, WriterInv
  <2>2. Held(disk)' = Held(snap[t]) /\ UNCHANGED devices
    BY <1>11 DEF WriteOk, Held
  <2>3. Abstract!Commit
    BY <2>1, <2>2 DEF Abstract!Commit, Staged, Held
  <2>4. CASE op[t] \notin {"upsert", "forget"}
    <3>1. UNCHANGED <<devices, confirmed, revoked>>
      BY <1>11, <2>4 DEF WriteOk, Return
    <3> QED
      BY <2>3, <3>1 DEF Abstract!Next, Abstract!Settle, Held
  <2>5. CASE op[t] = "upsert"
    <3>1. PICK id \in Ids : arg = {id}
      BY <2>5 DEF Inv, WriterInv
    <3>2. /\ confirmed' = confirmed \union ({id} \intersect Held(devices))
          /\ UNCHANGED revoked
      BY <1>11, <2>5, <3>1 DEF WriteOk, Return
    <3>3. confirmed' \subseteq Held(disk)'
      BY DEF Inv, SavedInv, Held
    <3>4. Abstract!ConfirmTrust(id)
      BY <2>2, <2>3, <3>2, <3>3 DEF Abstract!ConfirmTrust, Held
    <3> QED
      BY <3>4 DEF Abstract!Next
  <2>6. CASE op[t] = "forget"
    <3>1. PICK id \in Ids : arg = {id}
      BY <2>6 DEF Inv, WriterInv
    <3>2. revoked' = revoked \union {id} /\ UNCHANGED confirmed
      BY <1>11, <2>6, <3>1 DEF WriteOk, Return, Durable
    <3>3. id \notin Held(devices) \union Held(disk)'
      BY <2>2, <3>2 DEF Inv, RevokedInv, Held
    <3>4. Abstract!ConfirmRevoke(id)
      BY <2>2, <2>3, <3>2, <3>3 DEF Abstract!ConfirmRevoke, Held
    <3> QED
      BY <3>4 DEF Abstract!Next
  <2> QED
    BY <2>4, <2>5, <2>6
<1>12. ASSUME NEW t \in Thread, WriteErr(t) PROVE Abstract!Settle
  <2>1. Staged' = {} /\ UNCHANGED <<devices, disk, confirmed, revoked>>
    BY <1>0, <1>12, OneWriter DEF WriteErr, Return, At, Goto, Staged, Held, TypeOK,
       Inv, WriterInv, Durable
  <2> QED
    BY <2>1 DEF Abstract!Settle, Abstract!Abandon, Staged, Held
<1>13. CASE Crash \/ Terminate
  <2>1. devices' = Empty /\ Staged' = {} /\ UNCHANGED <<disk, confirmed, revoked>>
    BY <1>13 DEF Crash, Terminate, Stop, Staged
  <2> QED
    BY <2>1, EmptyHeld DEF Abstract!Next, Abstract!Stop, Staged, Held
<1>14. ASSUME NEW readable \in BOOLEAN, NEW prune \in BOOLEAN, Boot(readable, prune)
       PROVE  Abstract!Restart
  <2>1. Held(Live(disk)) \subseteq Held(disk) /\ Held(Empty) = {}
    BY <1>0, LiveHeld, EmptyHeld DEF TypeOK
  <2>2. Held(devices) = {} /\ Staged' = Staged /\ UNCHANGED revoked
    BY <1>14, EmptyHeld DEF Boot, threadVars, Staged, Held, Inv, StoppedInv
  <2>3. Held(devices') \subseteq Held(disk) /\ disk' \in {disk, devices'}
    BY <1>14, <2>1 DEF Boot
  <2>4. confirmed' \in {confirmed, confirmed \intersect Held(devices')}
    BY <1>14 DEF Boot
  <2> QED
    BY <2>2, <2>3, <2>4 DEF Abstract!Restart, Staged, Held
<1>15. CASE UNCHANGED vars
  BY <1>15, <1>s DEF vars, threadVars, history
<1> QED
  BY <1>1, <1>2, <1>3, <1>4, <1>5, <1>6, <1>7, <1>8, <1>9, <1>10, <1>11, <1>12,
     <1>13, <1>14, <1>15 DEF Next, Persist, Abstract!Next

(* The store, with its threads, lock, file and restarts, keeps the         *)
(* promises of TrustStore.                                                 *)
THEOREM StoreImplementsTrustStore == Spec => ImplementsTrustStore
<1>1. Init => Abstract!Init
  BY EmptyHeld DEF Init, Abstract!Init
<1>2. Inv /\ Inv' /\ [Next]_vars => [Abstract!Next]_(Abstract!vars)
  BY RefinementStep
<1> QED
  BY <1>1, <1>2, Invariance, PTL DEF Spec, ImplementsTrustStore, Abstract!Spec

=============================================================================
