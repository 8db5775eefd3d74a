----------------------------- MODULE PairedStore -----------------------------
(***************************************************************************)
(* net/paired.rs: the trusted-device store.  Three kinds of threads use    *)
(* it: the command thread (phone_accept_client -> upsert, phone_forget ->  *)
(* forget, RunEvent::Exit -> flush_if_dirty), the paired-maint thread      *)
(* (maintain), and the web-socket tasks, which only read or bump           *)
(* last_seen in memory (verify, record_resume).  An action is one critical *)
(* section of the state mutex or one file write.                           *)
(*                                                                         *)
(* A device is the time it was last seen; its label, digest and agent      *)
(* fields are not modelled.  REVOKE_EPOCH is modelled in PhoneSession.     *)
(***************************************************************************)
EXTENDS Integers, FiniteSets

CONSTANTS Ids,          \* pairing ids
          MaxTime,      \* the clock stays in 0..MaxTime
          TTL,          \* TRUSTED_TTL_SECS, in clock units
          NoDevice      \* no entry for an id

ASSUME StoreAssumption == /\ MaxTime \in Nat
                          /\ TTL \in Nat
                          /\ NoDevice \notin 0..MaxTime

VARIABLES now,          \* the wall clock: it may jump, backwards too
          up,           \* "running", "exited" (RunEvent::Exit) or "crashed"
          devices,      \* StoreState.devices
          loadedOk,     \* StoreState.loaded_ok
          dirty,        \* StoreState.dirty
          disk,         \* paired-devices.json; an absent file holds nothing
          sessions,     \* ids with a live session in the registry
          issued,       \* ids create_session has given out
          writeLock,    \* holder of write_lock, or "free"
          pc, op, snap, \* per thread: where it is, for which operation, and
                        \* the snapshot it is writing
          arg,          \* the id upsert or forget was called with, as a set
          confirmed,    \* history: ids whose pairing was reported saved
          revoked,      \* history: ids whose removal was reported durable
          owed,         \* history: removals in this run that are not durable
          stale         \* history: entries a failed prune left in the file

threadVars == <<writeLock, pc, op, snap, arg>>
history    == <<confirmed, revoked, owed, stale>>
vars == <<now, up, devices, loadedOk, dirty, disk, sessions, issued,
          threadVars, history>>

Thread == {"command", "maint"}
Time   == 0..MaxTime
Store  == [Ids -> Time \union {NoDevice}]
Ops    == {"none", "upsert", "forget", "exit", "maintain"}

Empty   == [i \in Ids |-> NoDevice]
Held(s) == {i \in Ids : s[i] # NoDevice}

TypeOK == /\ now \in Time
          /\ up \in {"running", "exited", "crashed"}
          /\ devices \in Store
          /\ loadedOk \in BOOLEAN
          /\ dirty \in BOOLEAN
          /\ disk \in Store
          /\ sessions \subseteq Ids
          /\ issued \subseteq Ids
          /\ writeLock \in Thread \union {"free"}
          /\ pc \in [Thread -> {"idle", "check", "persist", "write", "exiting"}]
          /\ op \in [Thread -> Ops]
          /\ snap \in [Thread -> Store]
          /\ arg \subseteq Ids
          /\ confirmed \subseteq Ids
          /\ revoked \subseteq Ids
          /\ owed \subseteq Ids
          /\ stale \subseteq Ids

Init == /\ now = 0
        /\ up = "crashed"
        /\ devices = Empty /\ disk = Empty
        /\ loadedOk = FALSE /\ dirty = FALSE
        /\ sessions = {} /\ issued = {}
        /\ writeLock = "free"
        /\ pc = [t \in Thread |-> "idle"]
        /\ op = [t \in Thread |-> "none"]
        /\ snap = [t \in Thread |-> Empty]
        /\ arg = {}
        /\ confirmed = {} /\ revoked = {} /\ owed = {} /\ stale = {}

-----------------------------------------------------------------------------
(* Helpers *)

(* A last_seen in the future has age 0, so a clock set back expires nobody. *)
Expired(seen) == now - seen > TTL
Live(s) == [i \in Ids |-> IF s[i] # NoDevice /\ Expired(s[i])
                          THEN NoDevice ELSE s[i]]

(* The memory is changed under the state mutex and marked for writing. *)
Change(s) == devices' = s /\ dirty' = TRUE

At(t, from) == up = "running" /\ pc[t] = from
Goto(t, to) == pc' = [pc EXCEPT ![t] = to]
Call(t, o, ids, to) == /\ At(t, "idle")
                       /\ op' = [op EXCEPT ![t] = o]
                       /\ arg' = IF t = "command" THEN ids ELSE arg
                       /\ Goto(t, to)
                       /\ UNCHANGED <<writeLock, snap>>

-----------------------------------------------------------------------------
(* The clock, and what the rest of the program does around the store *)

Clock == /\ now' \in Time \ {now}
         /\ UNCHANGED <<up, devices, loadedOk, dirty, disk, sessions, issued,
                        threadVars, history>>

(* session::create_session: a uuid nobody has seen before. *)
CreateSession(id) ==
    /\ up = "running"
    /\ id \notin issued
    /\ issued' = issued \union {id}
    /\ sessions' = sessions \union {id}
    /\ UNCHANGED <<now, up, devices, loadedOk, dirty, disk, threadVars, history>>

(* session::try_resume_trusted, as far as the store sees it: verify finds  *)
(* the id.  Its race with forget is PhoneSession's subject.                *)
ResumeSession(id) ==
    /\ up = "running"
    /\ id \in Held(devices) \ sessions
    /\ sessions' = sessions \union {id}
    /\ UNCHANGED <<now, up, devices, loadedOk, dirty, disk, issued,
                   threadVars, history>>

(* record_resume, from a socket task: memory only, no-op for unknown ids. *)
RecordResume(id) ==
    /\ up = "running"
    /\ id \in Held(devices)
    /\ Change([devices EXCEPT ![id] = now])
    /\ UNCHANGED <<now, up, loadedOk, disk, sessions, issued, threadVars, history>>

-----------------------------------------------------------------------------
(* Operations: their first critical section *)

Upsert(id) ==
    /\ id \in sessions
    /\ Call("command", "upsert", {id}, "persist")
    /\ Change([devices EXCEPT ![id] = now])
    /\ UNCHANGED <<now, up, loadedOk, disk, sessions, issued, history>>

(* forget of a known id; revoke_phone ends the session when it returns.    *)
Forget(id) ==
    /\ id \in Held(devices)
    /\ Call("command", "forget", {id}, "persist")
    /\ Change([devices EXCEPT ![id] = NoDevice])
    /\ confirmed' = confirmed \ {id}
    /\ UNCHANGED <<now, up, loadedOk, disk, sessions, issued, revoked, owed, stale>>

(* forget of an unknown id answers Ok(false) and writes nothing. *)
ForgetUnknown(id) ==
    /\ At("command", "idle")
    /\ id \notin Held(devices)
    /\ sessions' = sessions \ {id}
    /\ UNCHANGED <<now, up, devices, loadedOk, dirty, disk, issued, threadVars, history>>

Exit == /\ Call("command", "exit", {}, "check")
        /\ UNCHANGED <<now, up, devices, loadedOk, dirty, disk, sessions,
                       issued, history>>

(* maintain: prune what expired, then flush. *)
Maintain ==
    /\ Call("maint", "maintain", {}, "check")
    /\ devices' = Live(devices)
    /\ dirty' = (dirty \/ devices' # devices)
    /\ confirmed' = confirmed \ (Held(devices) \ Held(devices'))
    /\ UNCHANGED <<now, up, loadedOk, disk, sessions, issued, revoked, owed, stale>>

-----------------------------------------------------------------------------
(* flush_if_dirty and persist *)

(* forget answers Ok(true) unless persist failed. *)
Durable_Bug(result) == TRUE
Durable(result)     == result # "failed"

(* The operation of t returns: result is persist's Ok(true), Ok(false) or  *)
(* Err, or "clean" when flush_if_dirty found nothing to do.                *)
Return(t, result) ==
    /\ Goto(t, IF op[t] = "exit" THEN "exiting" ELSE "idle")
    /\ op' = [op EXCEPT ![t] = "none"]
    /\ arg' = IF t = "command" THEN {} ELSE arg
    /\ sessions' = IF op[t] = "forget" THEN sessions \ arg ELSE sessions
    /\ confirmed' = IF op[t] = "upsert" /\ result = "written"
                    THEN confirmed \union (arg \intersect Held(devices))
                    ELSE confirmed
    /\ revoked' = IF op[t] = "forget" /\ Durable(result)
                  THEN revoked \union arg ELSE revoked

CheckDirty(t) ==
    /\ At(t, "check")
    /\ \/ /\ dirty
          /\ Goto(t, "persist")
          /\ UNCHANGED <<op, arg, sessions, confirmed, revoked>>
       \/ /\ ~dirty
          /\ Return(t, "clean")
    /\ UNCHANGED <<now, up, devices, loadedOk, dirty, disk, issued, writeLock,
                   snap, owed, stale>>

(* What a write leaves in dirty: a change made while it ran keeps its mark, *)
(* and a failed write marks again.  Definitions ending in _Bug are mutants. *)
DirtyAfterWrite_Bug == FALSE
DirtyAfterWrite     == dirty
DirtyAfterError_Bug == dirty
DirtyAfterError     == TRUE

LockFree_Bug == TRUE
LockFree     == writeLock = "free"
Writable_Bug == TRUE
Writable     == loadedOk

(* Take write_lock, clear dirty and clone the map in one critical section. *)
Snapshot(t) ==
    /\ At(t, "persist")
    /\ LockFree
    /\ Writable
    /\ writeLock' = t
    /\ snap' = [snap EXCEPT ![t] = devices]
    /\ dirty' = FALSE
    /\ Goto(t, "write")
    /\ UNCHANGED <<now, up, devices, loadedOk, disk, sessions, issued, op, arg, history>>

(* A store that was not loaded is never written: Ok(false). *)
SkipWrite(t) ==
    /\ At(t, "persist")
    /\ LockFree
    /\ ~Writable
    /\ dirty' = FALSE
    /\ Return(t, "skipped")
    /\ UNCHANGED <<now, up, devices, loadedOk, disk, issued, writeLock, snap, owed, stale>>

(* write_store_file: temp file, fsync, rename.  The file changes in one    *)
(* step; write_lock is released on return.                                 *)
WriteOk(t) ==
    /\ At(t, "write")
    /\ disk' = snap[t]
    /\ writeLock' = "free"
    /\ snap' = [snap EXCEPT ![t] = Empty]
    /\ owed' = owed \intersect Held(snap[t])
    /\ stale' = {}
    /\ dirty' = DirtyAfterWrite
    /\ Return(t, "written")
    /\ UNCHANGED <<now, up, devices, loadedOk, issued>>

WriteErr(t) ==
    /\ At(t, "write")
    /\ dirty' = DirtyAfterError
    /\ writeLock' = "free"
    /\ snap' = [snap EXCEPT ![t] = Empty]
    /\ owed' = IF op[t] = "forget" THEN owed \union arg ELSE owed
    /\ Return(t, "failed")
    /\ UNCHANGED <<now, up, devices, loadedOk, disk, issued, stale>>

-----------------------------------------------------------------------------
(* Stopping and starting *)

(* The process ends, and with it its memory and its threads, wherever they *)
(* are: by a crash or a kill at any step, or by the return of the exit     *)
(* handler.                                                                *)
Stop(how) == /\ up = "running"
             /\ up' = how
             /\ devices' = Empty /\ loadedOk' = FALSE /\ dirty' = FALSE
             /\ sessions' = {}
             /\ writeLock' = "free"
             /\ pc' = [t \in Thread |-> "idle"]
             /\ op' = [t \in Thread |-> "none"]
             /\ snap' = [t \in Thread |-> Empty]
             /\ arg' = {}
             /\ owed' = {} /\ stale' = {}
             /\ UNCHANGED <<now, disk, issued, confirmed, revoked>>

Crash     == Stop("crashed")
Terminate == pc["command"] = "exiting" /\ Stop("exited")

(* init: everything in memory is new; prune says whether the rewrite that  *)
(* follows a prune succeeds.  Nothing else runs before setup returns.      *)
Boot(readable, prune) ==
    LET kept == IF readable THEN Live(disk) ELSE Empty
    IN  /\ up # "running"
        /\ up' = "running"
        /\ devices' = kept
        /\ loadedOk' = readable
        /\ dirty' = FALSE
        /\ disk' = IF readable /\ prune THEN kept ELSE disk
        /\ stale' = IF readable THEN Held(disk') \ Held(kept) ELSE {}
        /\ confirmed' = IF readable THEN confirmed \intersect Held(kept) ELSE confirmed
        /\ UNCHANGED <<now, sessions, issued, threadVars, revoked, owed>>

-----------------------------------------------------------------------------
Persist(t) == CheckDirty(t) \/ Snapshot(t) \/ SkipWrite(t) \/ WriteOk(t) \/ WriteErr(t)

Next == \/ Clock
        \/ \E id \in Ids : \/ CreateSession(id) \/ ResumeSession(id) \/ RecordResume(id)
                           \/ Upsert(id) \/ Forget(id) \/ ForgetUnknown(id)
        \/ Exit \/ Maintain
        \/ \E t \in Thread : Persist(t)
        \/ Crash \/ Terminate
        \/ \E readable, prune \in BOOLEAN : Boot(readable, prune)

Spec == Init /\ [][Next]_vars

(* A thread that can run does, the maintenance loop comes round again, and *)
(* writes do not fail for ever.                                            *)
Fairness == /\ WF_vars(Maintain)
            /\ \A t \in Thread : /\ WF_vars(CheckDirty(t))
                                 /\ SF_vars(Snapshot(t))
                                 /\ WF_vars(SkipWrite(t))
                                 /\ WF_vars(WriteOk(t) \/ WriteErr(t))
            /\ SF_vars(\E t \in Thread : WriteOk(t))

FairSpec == Spec /\ Fairness

-----------------------------------------------------------------------------
(* Properties *)

(* An id whose removal was reported durable is never trusted again, in     *)
(* memory or in the file, whatever crashes, write races, late resumes and  *)
(* clock jumps follow ("Revocation must survive a crash").                 *)
RevokedNeverReturns ==
    revoked \intersect (Held(devices) \union Held(disk)) = {}

(* A pairing reported saved stays in the file until it is revoked or       *)
(* expires: no other writer drops it with an older snapshot.               *)
SavedPairingIsOnDisk == confirmed \subseteq Held(disk)

(* What the user was told of a device, that it is removed or that it is    *)
(* paired, stays true (paired.rs:143, 403).                                *)
AnswersAreKept == RevokedNeverReturns /\ SavedPairingIsOnDisk

(* What the memory holds and the file does not is always either marked for *)
(* a later flush or on its way to the file: no change is silently lost.    *)
NothingLeftBehind ==
    up = "running" /\ loadedOk =>
        \/ dirty
        \/ \E t \in Thread : pc[t] = "write" /\ snap[t] = devices
        \/ \A i \in Ids \ stale : disk[i] = devices[i]

(* While the store could not be loaded, the file is left alone.            *)
UnreadableFileIsKept == [][up = "running" /\ ~loadedOk => disk' = disk]_vars

(* A removal whose write failed still reaches the file, unless the program *)
(* stops first.                                                            *)
RevocationIsRetried ==
    \A id \in Ids : (up = "running" /\ id \in owed) ~> (up # "running" \/ id \notin Held(disk))

(* The store keeps the abstract store's promises.                          *)
Abstract == INSTANCE TrustStore WITH
    trusted   <- Held(devices),
    durable   <- Held(disk),
    staged    <- {Held(snap[t]) : t \in {u \in Thread : pc[u] = "write"}},
    confirmed <- confirmed,
    revoked   <- revoked

ImplementsTrustStore == Abstract!Spec

=============================================================================
