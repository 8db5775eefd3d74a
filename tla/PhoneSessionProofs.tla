------------------------- MODULE PhoneSessionProofs -------------------------
(***************************************************************************)
(* Proofs about PhoneSession for any set of ids and sockets and any limit  *)
(* of strikes and epochs.                                                  *)
(***************************************************************************)
EXTENDS PhoneSession, TLAPS

-----------------------------------------------------------------------------
(* The inductive invariant, one conjunct per part of the argument *)

(* No entry means no channel, and only an expired session has used up its  *)
(* strikes.                                                                *)
Good(r) == /\ r \in Session
           /\ r.state = "none" => r = Absent
           /\ r.state # "expired" => r.strikes < MaxStrikes

RegistryInv == reg \in [Ids -> Session] /\ \A id \in Ids : Good(reg[id])

(* Ids are unique: what is in the registry or resuming was issued. *)
IssuedInv == /\ \A id \in Ids : reg[id].state # "none" => id \in issued
             /\ \A s \in Sockets :
                   sock[s].at \in {"unknown", "verify", "insert"} => sock[s].id \in issued
             /\ cmd.at \in {"remove", "dropInput"} => cmd.id \in issued

(* Acceptance is by the user: a resume only repeats it. *)
GrantedInv == /\ OnlyAcceptedPhonesAreLive
              /\ \A s \in Sockets : sock[s].at = "insert" => sock[s].id \in granted
              /\ cmd.at = "upsert" => cmd.id \in granted

(* A resume about to insert that has seen the current epoch verified trust *)
(* that nobody has revoked since.                                          *)
ResumeInv == \A s \in Sockets :
                /\ sock[s].at \in {"verify", "insert"} => sock[s].seen <= revokeEpoch
                /\ sock[s].at = "insert" /\ sock[s].seen = revokeEpoch =>
                      \/ sock[s].id \in store \union lapsed
                      \/ cmd.at = "upsert" /\ cmd.id = sock[s].id

(* What the command under way has revoked, and what earlier ones have. *)
Revoking(id) == cmd.at \in {"remove", "dropInput"} /\ cmd.revoke /\ cmd.id = id
Out(id)      == id \in forgotten \/ Revoking(id)

ForgottenInv ==
    \A id \in Ids : Out(id) =>
        /\ id \in issued
        /\ id \notin store
        /\ \A s \in Sockets : sock[s].at = "insert" /\ sock[s].id = id
                                  => sock[s].seen < revokeEpoch
        /\ cmd.at = "upsert" => cmd.id # id
        /\ id \in forgotten \/ cmd.at = "dropInput" => reg[id].state = "none"

(* What the registry, the store and the command under way keep together. *)
Trust == /\ IssuedInv /\ GrantedInv /\ ResumeInv
         /\ LiveSessionsAreTrusted /\ ForgottenInv

TypeInv == TypeOK /\ RegistryInv

Inv == TypeInv /\ Trust /\ AttachedTaskWillDetach

-----------------------------------------------------------------------------
(* Lemmas about one session *)

LEMMA Limits == /\ MaxStrikes \in Nat /\ 0 < MaxStrikes /\ 0 \in 0..MaxStrikes
                /\ MaxEpoch \in Nat /\ {0, 1} \subseteq 0..MaxEpoch
                /\ \A e \in 0..MaxEpoch : e < MaxEpoch => e + 1 \in 0..MaxEpoch
                /\ \A k \in 0..MaxStrikes : k < MaxStrikes => k + 1 \in 0..MaxStrikes
BY SessionAssumption

LEMMA Records == Good(Absent) /\ Off \in Task /\ Idle \in Command
<1>1. AnyId \in Ids
  BY SessionAssumption DEF AnyId
<1> QED
  BY <1>1, SessionAssumption
  DEF Good, Absent, Session, States, Off, Task, Idle, Command

LEMMA GoodEntry ==
    ASSUME NEW f \in [Ids -> Session], \A i \in Ids : Good(f[i]),
           NEW id \in Ids, NEW r, Good(r)
    PROVE  LET g == [f EXCEPT ![id] = r]
           IN  g \in [Ids -> Session] /\ \A i \in Ids : Good(g[i])
BY DEF Good

(* A sweep deletes a detached session, lets an unused one expire or ends a *)
(* grace period, and does nothing else.                                    *)
LEMMA SweptSession ==
    ASSUME NEW r, Good(r)
    PROVE  /\ Good(Swept(r))
           /\ \/ Swept(r) = Absent /\ r.tx = NoSocket /\ r.state \in {"created", "expired"}
              \/ /\ Swept(r).tx = r.tx /\ Swept(r).epoch = r.epoch
                 /\ \/ Swept(r).state = r.state
                    \/ r.state = "created" /\ Swept(r).state = "expired"
                    \/ r.state = "reconnecting" /\ Swept(r).state = "disconnected"
           /\ r.state = "none" => Swept(r) = r
<1>1. Aged(r) \in Session
  BY DEF Good, Aged, Session, States
<1>2. /\ Aged(r).tx = r.tx /\ Aged(r).epoch = r.epoch /\ Aged(r).strikes = r.strikes
      /\ \/ Aged(r).state = r.state
         \/ r.state = "created" /\ Aged(r).state = "expired"
         \/ r.state = "reconnecting" /\ Aged(r).state = "disconnected"
      /\ r.state = "none" => Aged(r) = r
  BY DEF Good, Aged, Session, States
<1> QED
  BY <1>1, <1>2, Records DEF Good, Swept

(* A detach takes the channel of a session with that epoch and of no other. *)
LEMMA DetachedSession ==
    ASSUME NEW r, Good(r), NEW epoch
    PROVE  /\ Good(Detached(r, epoch))
           /\ \/ Detached(r, epoch) = r /\ (r.state = "none" \/ r.epoch # epoch)
              \/ /\ r.state # "none" /\ r.epoch = epoch
                 /\ Detached(r, epoch).tx = NoSocket
                 /\ \/ /\ r.state = "accepted"
                       /\ Detached(r, epoch).state = "reconnecting"
                    \/ r.state = "pending" /\ Detached(r, epoch).state = "created"
                    \/ /\ r.state \notin {"accepted", "pending"}
                       /\ Detached(r, epoch).state = r.state
<1> DEFINE d == Detached(r, epoch)
<1>1. CASE r.state = "none" \/ r.epoch # epoch
  BY <1>1 DEF Detached
<1>2. CASE r.state # "none" /\ r.epoch = epoch /\ r.state = "accepted"
  <2>1. d = [r EXCEPT !.tx = NoSocket, !.state = "reconnecting", !.late = FALSE]
    BY <1>2 DEF Detached
  <2> QED
    BY <1>2, <2>1, SessionAssumption DEF Good, Session, States
<1>3. CASE r.state # "none" /\ r.epoch = epoch /\ r.state = "pending"
  <2>1. d = [r EXCEPT !.tx = NoSocket, !.state = "created", !.strikes = 0]
    BY <1>3 DEF Detached
  <2> QED
    BY <1>3, <2>1, Limits DEF Good, Session, States
<1>4. CASE r.state \notin {"none", "accepted", "pending"} /\ r.epoch = epoch
  <2>1. d = [r EXCEPT !.tx = NoSocket]
    BY <1>4 DEF Detached
  <2> QED
    BY <1>4, <2>1, SessionAssumption DEF Good, Session, States
<1> QED
  BY <1>1, <1>2, <1>3, <1>4

(* A queued farewell changes nothing else of a task. *)
LEMMA EndedTasks ==
    ASSUME sock \in [Sockets -> Task], NEW tx
    PROVE  /\ EndQueued(tx) \in [Sockets -> Task]
           /\ \A s \in Sockets : /\ EndQueued(tx)[s].at = sock[s].at
                                 /\ EndQueued(tx)[s].id = sock[s].id
                                 /\ EndQueued(tx)[s].epoch = sock[s].epoch
                                 /\ EndQueued(tx)[s].seen = sock[s].seen
<1>1. ASSUME NEW s \in Sockets
      PROVE  LET k == [sock[s] EXCEPT !.ended = TRUE]
             IN  /\ k \in Task
                 /\ k.at = sock[s].at /\ k.id = sock[s].id
                 /\ k.epoch = sock[s].epoch /\ k.seen = sock[s].seen
  BY DEF Task
<1> QED
  BY <1>1 DEF EndQueued

-----------------------------------------------------------------------------
(* Type correctness: a wrong token never counts past the limit *)

LEMMA TypeInit == Init => TypeInv
BY Records DEF Init, TypeInv, TypeOK, RegistryInv, Good

LEMMA SweptRegistry ==
    ASSUME RegistryInv
    PROVE  /\ SweptReg \in [Ids -> Session]
           /\ \A id \in Ids : SweptReg[id] = Swept(reg[id]) /\ Good(SweptReg[id])
<1>1. \A id \in Ids : Good(Swept(reg[id])) /\ Swept(reg[id]) \in Session
  BY SweptSession DEF RegistryInv, Good
<1> QED
  BY <1>1 DEF SweptReg

(* A step that changes one session leaves it good. *)
LEMMA TypeStep == TypeInv /\ [Next]_vars => TypeInv'
<1> SUFFICES ASSUME TypeInv, [Next]_vars PROVE TypeInv'
  OBVIOUS
<1>sw. /\ SweptReg \in [Ids -> Session]
       /\ \A id \in Ids : SweptReg[id] = Swept(reg[id]) /\ Good(SweptReg[id])
  BY SweptRegistry DEF TypeInv
<1>ok. RegistryInv /\ TypeOK
  BY DEF TypeInv
<1> DEFINE Clean == RegistryInv'
<1>a. ASSUME UNCHANGED reg PROVE Clean
  BY <1>a, <1>ok DEF RegistryInv
<1>b. ASSUME NEW id \in Ids, NEW r, Good(r), reg' = [reg EXCEPT ![id] = r] PROVE Clean
  BY <1>b, <1>ok, GoodEntry DEF RegistryInv
<1>c. ASSUME NEW id \in Ids, NEW r, Good(r), reg' = [SweptReg EXCEPT ![id] = r] PROVE Clean
  BY <1>c, <1>sw, GoodEntry DEF RegistryInv
<1>d. ASSUME reg' = SweptReg PROVE Clean
  BY <1>d, <1>sw DEF RegistryInv
<1>f. ASSUME NEW id \in Ids PROVE Good(reg[id]) /\ Good(Swept(reg[id]))
  BY <1>sw, <1>ok DEF RegistryInv
<1> HIDE DEF Clean
<1> SUFFICES TypeOK' /\ Clean
  BY DEF TypeInv, Clean
<1>t. Clean => reg' \in [Ids -> Session]
  BY DEF Clean, RegistryInv
<1> USE <1>t DEF history
<1>1. ASSUME NEW id \in Ids, Age(id) PROVE TypeOK' /\ Clean
  <2>1. PICK r : reg' = [reg EXCEPT ![id] = r] /\ Good(r)
    <3>1. CASE reg' = [reg EXCEPT ![id].old = TRUE]
      <4>1. reg' = [reg EXCEPT ![id] = [reg[id] EXCEPT !.old = TRUE]]
        BY <3>1
      <4>2. Good([reg[id] EXCEPT !.old = TRUE])
        <5>1. reg[id].state # "none"
          BY <1>1, <3>1 DEF Age
        <5> QED
          BY <1>f, <5>1 DEF Good, Session
      <4> QED
        BY <4>1, <4>2
    <3>2. CASE reg[id].state = "reconnecting" /\ reg' = [reg EXCEPT ![id].late = TRUE]
      <4>1. Good([reg[id] EXCEPT !.late = TRUE])
        BY <1>f, <3>2 DEF Good, Session
      <4> QED
        BY <3>2, <4>1
    <3> QED
      BY <1>1, <3>1, <3>2 DEF Age
  <2> QED
    BY <1>1, <1>b, <2>1, <1>ok DEF Age, TypeOK
<1>2. ASSUME NEW id \in Ids, Lapse(id) PROVE TypeOK' /\ Clean
  BY <1>2, <1>a, <1>ok DEF Lapse, TypeOK
<1>3. CASE Sweep
  BY <1>3, <1>d, <1>ok DEF Sweep, TypeOK
<1>4. CASE ReplaceGraph
  BY <1>4, <1>a, <1>ok DEF ReplaceGraph, TypeOK
<1>5. ASSUME NEW s \in Sockets, NEW id \in Ids, HelloBadToken(s, id) PROVE TypeOK' /\ Clean
  <2> DEFINE r == Swept(reg[id])
             n == IF TooMany(r.strikes + 1)
                  THEN [r EXCEPT !.strikes = r.strikes + 1, !.state = "expired",
                                 !.old = FALSE, !.late = FALSE]
                  ELSE [r EXCEPT !.strikes = r.strikes + 1]
  <2>1. r.state \notin {"none", "expired"} /\ reg' = [SweptReg EXCEPT ![id] = n]
    BY <1>5 DEF HelloBadToken
  <2>2. Good(r)
    BY <1>f
  <2> HIDE DEF r
  <2>3. Good(n)
    <3>1. r.strikes < MaxStrikes /\ r.strikes \in 0..MaxStrikes /\ r \in Session
      BY <2>1, <2>2 DEF Good, Session
    <3>2. r.strikes + 1 \in 0..MaxStrikes
      BY <3>1, Limits
    <3>3. CASE TooMany(r.strikes + 1)
      BY <2>1, <3>1, <3>2, <3>3 DEF Good, Session, States
    <3>4. CASE ~TooMany(r.strikes + 1)
      <4>1. r.strikes + 1 < MaxStrikes
        BY <3>2, <3>4, Limits DEF TooMany
      <4> QED
        BY <2>1, <3>1, <3>2, <3>4, <4>1 DEF Good, Session
    <3> QED
      BY <3>3, <3>4
  <2> HIDE DEF n
  <2>4. Clean
    BY <1>c, <2>1, <2>3
  <2> QED
    BY <1>5, <1>ok, <2>4 DEF HelloBadToken, TypeOK
<1>6. ASSUME NEW s \in Sockets, NEW id \in Ids, HelloBusy(s, id) PROVE TypeOK' /\ Clean
  <2> DEFINE r == Swept(reg[id])
             n == [r EXCEPT !.strikes = 0]
  <2>1. r.state \in {"pending", "accepted"} /\ reg' = [SweptReg EXCEPT ![id] = n]
    BY <1>6, <1>sw DEF HelloBusy, Busy
  <2>2. Good(r)
    BY <1>f
  <2> HIDE DEF r
  <2>3. Good(n)
    BY <2>1, <2>2, SessionAssumption DEF Good, Session
  <2> HIDE DEF n
  <2>4. Clean
    BY <1>c, <2>1, <2>3
  <2> QED
    BY <1>6, <1>ok, <2>4 DEF HelloBusy, TypeOK
<1>7. ASSUME NEW s \in Sockets, NEW id \in Ids, HelloUnknown(s, id) PROVE TypeOK' /\ Clean
  <2>1. [Off EXCEPT !.at = "unknown", !.id = id] \in Task
    BY Records DEF Task
  <2> QED
    BY <1>7, <1>d, <1>ok, <2>1 DEF HelloUnknown, TypeOK
<1>8. ASSUME NEW s \in Sockets, NEW id \in Ids, HelloAttach(s, id) PROVE TypeOK' /\ Clean
  <2> DEFINE r == Swept(reg[id])
             n == [r EXCEPT !.state = IF Resumable(r) THEN "accepted" ELSE "pending",
                            !.tx = s, !.epoch = r.epoch + 1, !.strikes = 0,
                            !.late = FALSE]
             k == [Off EXCEPT !.at = "ack", !.id = id, !.epoch = r.epoch + 1]
  <2>1. r.epoch < MaxEpoch /\ reg' = [SweptReg EXCEPT ![id] = n]
        /\ sock' = [sock EXCEPT ![s] = k]
    BY <1>8 DEF HelloAttach
  <2>2. Good(r)
    BY <1>f
  <2> HIDE DEF r
  <2>3. Good(n) /\ k \in Task
    <3>1. r \in Session /\ r.epoch + 1 \in 0..MaxEpoch
      BY <2>1, <2>2, Limits DEF Good, Session
    <3>2. n \in Session /\ n.state # "none" /\ n.strikes = 0
      BY <3>1, Limits DEF Session, States
    <3>3. k \in Task
      BY <3>1, Records DEF Task
    <3> QED
      BY <3>2, <3>3, Limits DEF Good
  <2> HIDE DEF n, k
  <2>4. Clean
    BY <1>c, <2>1, <2>3
  <2> QED
    BY <1>8, <1>ok, <2>1, <2>3, <2>4 DEF HelloAttach, TypeOK
<1>9. ASSUME NEW s \in Sockets, ReadEpoch(s) \/ Verify(s) \/ Refuse(s) PROVE TypeOK' /\ Clean
  BY <1>9, <1>a, <1>ok, Records DEF ReadEpoch, Verify, Refuse, TypeOK, Task
<1>10. ASSUME NEW s \in Sockets, Rehydrate(s) PROVE TypeOK' /\ Clean
  <2> DEFINE n == [Absent EXCEPT !.state = "accepted", !.tx = s, !.epoch = 1]
  <2>1. Good(n)
    <3>1. Absent \in Session /\ Absent.strikes = 0
      BY Records DEF Good, Absent
    <3>2. n \in Session /\ n.state = "accepted" /\ n.strikes = 0
      BY <3>1, Limits DEF Session, States
    <3> QED
      BY <3>2, Limits DEF Good
  <2>2. reg' = [reg EXCEPT ![sock[s].id] = n] /\ sock[s].id \in Ids
    BY <1>10, <1>ok DEF Rehydrate, TypeOK, Task
  <2> HIDE DEF n
  <2>3. Clean
    BY <1>b, <2>1, <2>2
  <2> DEFINE k == [sock[s] EXCEPT !.at = "hook", !.epoch = 1, !.sole = TRUE]
  <2>4. k \in Task
    <3>1. sock[s] \in Task /\ 1 \in 0..MaxEpoch
      BY <1>ok, Limits DEF TypeOK
    <3> QED
      BY <3>1 DEF Task
  <2>5. sock' = [sock EXCEPT ![s] = k]
    BY <1>10, <1>ok DEF Rehydrate, TypeOK
  <2>6. UNCHANGED <<issued, store, revokeEpoch, graph, cmd, history>>
    BY <1>10 DEF Rehydrate
  <2> HIDE DEF k
  <2>7. sock' \in [Sockets -> Task]
    BY <1>ok, <2>4, <2>5 DEF TypeOK
  <2> QED
    BY <1>ok, <2>3, <2>6, <2>7 DEF TypeOK
<1>11. ASSUME NEW s \in Sockets, ResumeHook(s) PROVE TypeOK' /\ Clean
  BY <1>11, <1>a, <1>ok DEF ResumeHook, Go, TypeOK, Task
<1>12. ASSUME NEW s \in Sockets, AckSent(s) \/ Leave(s) \/ PhoneLeaves(s)
       PROVE  TypeOK' /\ Clean
  BY <1>12, <1>a, <1>ok DEF AckSent, Leave, PhoneLeaves, Go, TypeOK, Task
<1>13. ASSUME NEW s \in Sockets, LinkDies(s) PROVE TypeOK' /\ Clean
  BY <1>13, <1>a, <1>ok DEF LinkDies, TypeOK, Task
<1>14. ASSUME NEW s \in Sockets, AckFailed(s) \/ Close(s) PROVE TypeOK' /\ Clean
  <2> DEFINE n == Detached(reg[sock[s].id], sock[s].epoch)
  <2>1. /\ reg' = [reg EXCEPT ![sock[s].id] = n]
        /\ sock' = [sock EXCEPT ![s] = Off]
        /\ sock[s].id \in Ids
        /\ UNCHANGED <<issued, store, revokeEpoch, graph, cmd, history>>
    BY <1>14, <1>ok DEF AckFailed, Close, Detach, TypeOK, Task
  <2>2. Good(n)
    BY <1>f, <2>1, DetachedSession
  <2> HIDE DEF n
  <2>3. Clean
    BY <1>b, <2>1, <2>2
  <2> QED
    BY <1>ok, <2>1, <2>3, Records DEF TypeOK
<1>15. ASSUME NEW id \in Ids, CreateSession(id) PROVE TypeOK' /\ Clean
  <2>1. Good([Absent EXCEPT !.state = "created"])
    BY Records DEF Good, Session, States, Absent
  <2> QED
    BY <1>15, <1>c, <1>ok, <2>1 DEF CreateSession, TypeOK
<1>16. ASSUME NEW id \in Ids, Accept(id) PROVE TypeOK' /\ Clean
  <2> DEFINE n == [reg[id] EXCEPT !.state = "accepted", !.old = FALSE]
  <2>1. reg' = [reg EXCEPT ![id] = n] /\ reg[id].state \in {"pending", "accepted"}
    BY <1>16, <1>ok DEF Accept, TypeOK
  <2>2. Good(n)
    BY <1>f, <2>1 DEF Good, Session, States
  <2> HIDE DEF n
  <2>3. Clean
    BY <1>b, <2>1, <2>2
  <2> QED
    BY <1>16, <1>ok, <2>3 DEF Accept, Start, Command, TypeOK
<1>17. ASSUME NEW id \in Ids, Reject(id) PROVE TypeOK' /\ Clean
  <2> DEFINE n == [reg[id] EXCEPT !.state = "expired", !.tx = NoSocket,
                                  !.old = FALSE, !.late = FALSE]
  <2>1. reg' = [reg EXCEPT ![id] = n]
    BY <1>17 DEF Reject
  <2>2. Good(n)
    BY <1>f DEF Good, Session, States
  <2> HIDE DEF n
  <2>3. Clean
    BY <1>b, <2>1, <2>2
  <2>4. sock' \in [Sockets -> Task]
    BY <1>17, <1>ok, EndedTasks DEF Reject, TypeOK
  <2> QED
    BY <1>17, <1>ok, <2>3, <2>4 DEF Reject, TypeOK
<1>18. ASSUME NEW id \in Ids, Forget(id) PROVE TypeOK' /\ Clean
  BY <1>18, <1>a, <1>ok DEF Forget, EpochAfter, Start, Command, TypeOK
<1>19. ASSUME NEW id \in Ids, Disconnect(id) PROVE TypeOK' /\ Clean
  BY <1>19, <1>a, <1>ok DEF Disconnect, Start, Command, TypeOK
<1>20. ASSUME NEW id \in Ids, RemoveInput(id) PROVE TypeOK' /\ Clean
  <2>1. cmd' \in Command
    <3>1. CASE Start("removeOnly", id, FALSE)
      BY <3>1 DEF Start, Command
    <3>2. CASE cmd' = cmd
      BY <3>2, <1>ok DEF TypeOK
    <3> QED
      BY <1>20, <3>1, <3>2 DEF RemoveInput
  <2> QED
    BY <1>20, <1>a, <1>ok, <2>1 DEF RemoveInput, TypeOK
<1>21. CASE AcceptUpsert \/ AcceptAddInput \/ DropInput
  BY <1>21, <1>a, <1>ok, Records
  DEF AcceptUpsert, AcceptAddInput, DropInput, Proceed, Command, TypeOK
<1>22. CASE RemoveSession \/ RemoveInputSession
  <2>1. SessionRemoved(cmd.id) /\ cmd.id \in Ids /\ cmd' \in Command
    BY <1>22, <1>ok, Records DEF RemoveSession, RemoveInputSession, Proceed, Command, TypeOK
  <2>2. Clean
    BY <1>b, <2>1, Records DEF SessionRemoved
  <2>3. sock' \in [Sockets -> Task]
    BY <2>1, <1>ok, EndedTasks DEF SessionRemoved, TypeOK
  <2> QED
    BY <1>22, <1>ok, <2>1, <2>2, <2>3 DEF RemoveSession, RemoveInputSession, TypeOK
<1>23. CASE UNCHANGED vars
  BY <1>23, <1>a, <1>ok DEF vars, TypeOK
<1> QED
  BY <1>1, <1>2, <1>3, <1>4, <1>5, <1>6, <1>7, <1>8, <1>9, <1>10, <1>11, <1>12, <1>13,
     <1>14, <1>15, <1>16, <1>17, <1>18, <1>19, <1>20, <1>21, <1>22, <1>23
  DEF Next, Hello, Resume, Serve, CommandBegins, CommandGoesOn

-----------------------------------------------------------------------------
(* Steps as the safety argument sees them: most only move tasks along and  *)
(* sessions down; what the user and the store decide is left to the rest.  *)

Resuming == {"unknown", "verify", "insert"}
Live     == {"accepted", "reconnecting", "disconnected"}

Quiet == UNCHANGED <<issued, store, revokeEpoch, cmd, history>>

(* A resume goes on only with the epoch it reads and the trust it finds. *)
SameResume(t) == /\ sock'[t].at = sock[t].at
                 /\ sock'[t].id = sock[t].id
                 /\ sock'[t].seen = sock[t].seen
ResumeMoves(t) ==
    sock'[t].at \in Resuming =>
        \/ SameResume(t)
        \/ sock'[t].at = "unknown" /\ sock'[t].id \in issued
        \/ /\ sock[t].at = "unknown" /\ sock'[t].at = "verify"
           /\ sock'[t].id = sock[t].id /\ sock'[t].seen = revokeEpoch
        \/ /\ sock[t].at = "verify" /\ sock'[t].at = "insert"
           /\ sock'[t].id = sock[t].id /\ sock'[t].seen = sock[t].seen
           /\ sock[t].id \in store

(* An accepted session stays accepted or ends.                             *)
Kept(id) == Active(id) => Active(id)' \/ reg'[id].state \in {"expired", "none"}

(* Without the user a session appears or comes alive only by a resume. *)
Resumed(id) == \E s \in Sockets : /\ sock[s].at = "insert" /\ sock[s].id = id
                                  /\ sock[s].seen = revokeEpoch
RegistryMoves(id) ==
    /\ reg[id].state = "none" => reg'[id].state = "none" \/ Resumed(id)
    /\ Active(id)' => Active(id) \/ Resumed(id)
    /\ Kept(id)

QuietStep == /\ Quiet
             /\ \A t \in Sockets : ResumeMoves(t)
             /\ \A id \in Ids : RegistryMoves(id)

Decides(id) == \/ Lapse(id) \/ CreateSession(id) \/ Accept(id) \/ Forget(id)
               \/ Disconnect(id) \/ RemoveInput(id)
Decision == (\E id \in Ids : Decides(id)) \/ CommandGoesOn

(* What a sweep, and a hello that only sweeps or changes a session it      *)
(* knows, does to the registry.                                            *)
LEMMA SweptMoves ==
    ASSUME RegistryInv, NEW id \in Ids
    PROVE  /\ reg[id].state = "none" => SweptReg[id].state = "none"
           /\ SweptReg[id].state \in Live <=> Active(id)
<1>1. Good(reg[id]) /\ SweptReg[id] = Swept(reg[id])
  BY SweptRegistry DEF RegistryInv
<1> QED
  BY <1>1, SweptSession DEF Active, Absent, Live

LEMMA StepIsQuiet == TypeInv /\ [Next]_vars => QuietStep \/ Decision
<1> SUFFICES ASSUME TypeInv, [Next]_vars, ~Decision PROVE QuietStep
  OBVIOUS
<1>ok. RegistryInv /\ TypeOK
  BY DEF TypeInv
<1>sw. /\ SweptReg \in [Ids -> Session]
       /\ \A id \in Ids : SweptReg[id] = Swept(reg[id]) /\ Good(SweptReg[id])
       /\ \A id \in Ids : /\ reg[id].state = "none" => SweptReg[id].state = "none"
                          /\ SweptReg[id].state \in Live <=> Active(id)
  BY <1>ok, SweptRegistry, SweptMoves
<1> DEFINE Tasks == \A t \in Sockets : ResumeMoves(t)
           Sessions == \A id \in Ids : RegistryMoves(id)
<1>a. ASSUME UNCHANGED sock PROVE Tasks
  BY <1>a DEF ResumeMoves, SameResume
<1>b. ASSUME NEW s \in Sockets, NEW k, sock' = [sock EXCEPT ![s] = k],
             k.at \notin Resuming
      PROVE  Tasks
  BY <1>b, <1>ok DEF ResumeMoves, SameResume, TypeOK
<1>c. ASSUME UNCHANGED reg PROVE Sessions
  BY <1>c DEF RegistryMoves, Active, Kept
<1>d. ASSUME NEW id \in Ids, NEW n, reg' = [reg EXCEPT ![id] = n],
             reg[id].state = "none" => n.state = "none",
             n.state \in Live => Active(id),
             Active(id) => n.state \in Live \union {"expired", "none"}
      PROVE  Sessions
  BY <1>d, <1>ok DEF RegistryMoves, Active, Kept, Live, TypeOK
<1>e. ASSUME reg' = SweptReg PROVE Sessions
  BY <1>e, <1>sw DEF RegistryMoves, Active, Kept, Live
<1>f. ASSUME NEW id \in Ids, NEW n, reg' = [SweptReg EXCEPT ![id] = n],
             SweptReg[id].state # "none",
             n.state \in Live => Active(id),
             Active(id) => n.state \in Live \union {"expired", "none"}
      PROVE  Sessions
  BY <1>f, <1>sw DEF RegistryMoves, Active, Kept, Live
<1> HIDE DEF Tasks, Sessions
<1> SUFFICES Quiet /\ Tasks /\ Sessions
  BY DEF QuietStep, Tasks, Sessions
<1>1. ASSUME NEW id \in Ids, Age(id) PROVE Quiet /\ Tasks /\ Sessions
  <2>1. PICK n : /\ reg' = [reg EXCEPT ![id] = n]
                 /\ n.state = reg[id].state
    <3>1. CASE reg' = [reg EXCEPT ![id].old = TRUE]
      <4>1. [reg[id] EXCEPT !.old = TRUE].state = reg[id].state
        BY <1>ok DEF TypeOK, Session
      <4> QED
        BY <3>1, <4>1
    <3>2. CASE reg' = [reg EXCEPT ![id].late = TRUE]
      <4>1. [reg[id] EXCEPT !.late = TRUE].state = reg[id].state
        BY <1>ok DEF TypeOK, Session
      <4> QED
        BY <3>2, <4>1
    <3> QED
      BY <1>1, <3>1, <3>2 DEF Age
  <2>2. Sessions
    BY <1>d, <2>1 DEF Active, Live
  <2> QED
    BY <1>1, <1>a, <2>2 DEF Age, Quiet
<1>2. CASE Sweep
  BY <1>2, <1>a, <1>e DEF Sweep, Quiet
<1>3. CASE ReplaceGraph
  BY <1>3, <1>a, <1>c DEF ReplaceGraph, Quiet
<1>4. ASSUME NEW s \in Sockets, NEW id \in Ids, HelloBadToken(s, id)
      PROVE  Quiet /\ Tasks /\ Sessions
  <2> DEFINE r == Swept(reg[id])
             n == IF TooMany(r.strikes + 1)
                  THEN [r EXCEPT !.strikes = r.strikes + 1, !.state = "expired",
                                 !.old = FALSE, !.late = FALSE]
                  ELSE [r EXCEPT !.strikes = r.strikes + 1]
  <2>1. r.state # "none" /\ reg' = [SweptReg EXCEPT ![id] = n]
    BY <1>4 DEF HelloBadToken
  <2>2. r \in Session /\ r = SweptReg[id]
    BY <1>sw
  <2> HIDE DEF r
  <2>3. n.state = r.state \/ n.state = "expired"
    BY <2>2 DEF Session
  <2> HIDE DEF n
  <2>4. Sessions
    BY <1>f, <1>sw, <2>1, <2>2, <2>3 DEF Live
  <2> QED
    BY <1>4, <1>a, <2>4 DEF HelloBadToken, Quiet
<1>5. ASSUME NEW s \in Sockets, NEW id \in Ids, HelloBusy(s, id)
      PROVE  Quiet /\ Tasks /\ Sessions
  <2> DEFINE r == Swept(reg[id])
             n == [r EXCEPT !.strikes = 0]
  <2>1. r.state \in {"pending", "accepted"} /\ reg' = [SweptReg EXCEPT ![id] = n]
    BY <1>5, <1>sw DEF HelloBusy, Busy
  <2>2. r \in Session /\ r = SweptReg[id]
    BY <1>sw
  <2> HIDE DEF r
  <2>3. n.state = r.state
    BY <2>2 DEF Session
  <2> HIDE DEF n
  <2>4. Sessions
    BY <1>f, <1>sw, <2>1, <2>2, <2>3
  <2> QED
    BY <1>5, <1>a, <2>4 DEF HelloBusy, Quiet
<1>6. ASSUME NEW s \in Sockets, NEW id \in Ids, HelloUnknown(s, id)
      PROVE  Quiet /\ Tasks /\ Sessions
  <2> DEFINE k == [Off EXCEPT !.at = "unknown", !.id = id]
  <2>1. k.at = "unknown" /\ k.id = id
    BY DEF Off
  <2>2. sock' = [sock EXCEPT ![s] = k] /\ id \in issued
    BY <1>6 DEF HelloUnknown
  <2> HIDE DEF k
  <2>3. Tasks
    BY <1>ok, <2>1, <2>2 DEF Tasks, ResumeMoves, SameResume, TypeOK
  <2> QED
    BY <1>6, <1>e, <2>3 DEF HelloUnknown, Quiet
<1>7. ASSUME NEW s \in Sockets, NEW id \in Ids, HelloAttach(s, id)
      PROVE  Quiet /\ Tasks /\ Sessions
  <2> DEFINE r == Swept(reg[id])
             n == [r EXCEPT !.state = IF Resumable(r) THEN "accepted" ELSE "pending",
                            !.tx = s, !.epoch = r.epoch + 1, !.strikes = 0,
                            !.late = FALSE]
             k == [Off EXCEPT !.at = "ack", !.id = id, !.epoch = r.epoch + 1]
  <2>1. r.state # "none" /\ reg' = [SweptReg EXCEPT ![id] = n]
        /\ sock' = [sock EXCEPT ![s] = k]
    BY <1>7 DEF HelloAttach
  <2>2. r \in Session /\ r = SweptReg[id]
    BY <1>sw
  <2> HIDE DEF r
  <2>3. n.state = IF Resumable(r) THEN "accepted" ELSE "pending"
    BY <2>2 DEF Session
  <2>4. k.at = "ack"
    BY DEF Off
  <2> HIDE DEF n, k
  <2>5. Sessions
    BY <1>f, <1>sw, <2>1, <2>2, <2>3 DEF Resumable, Live
  <2>6. Tasks
    BY <1>b, <2>1, <2>4 DEF Resuming
  <2> QED
    BY <1>7, <2>5, <2>6 DEF HelloAttach, Quiet
<1>8. ASSUME NEW s \in Sockets, ReadEpoch(s) \/ Verify(s) \/ Refuse(s)
      PROVE  Quiet /\ Tasks /\ Sessions
  <2>1. CASE ReadEpoch(s)
    BY <2>1, <1>ok, <1>c DEF ReadEpoch, Quiet, Tasks, ResumeMoves, SameResume, TypeOK, Task
  <2>2. CASE Verify(s)
    <3>1. Off.at = "off"
      BY DEF Off
    <3> QED
      BY <2>2, <1>ok, <1>c, <3>1
      DEF Verify, Quiet, Tasks, ResumeMoves, SameResume, Resuming, TypeOK, Task
  <2>3. CASE Refuse(s)
    BY <2>3, <1>b, <1>c DEF Refuse, Quiet, Off, Resuming
  <2> QED
    BY <1>8, <2>1, <2>2, <2>3
<1>9. ASSUME NEW s \in Sockets, Rehydrate(s) PROVE Quiet /\ Tasks /\ Sessions
  <2> DEFINE n == [Absent EXCEPT !.state = "accepted", !.tx = s, !.epoch = 1]
             k == [sock[s] EXCEPT !.at = "hook", !.epoch = 1, !.sole = TRUE]
  <2>1. /\ reg' = [reg EXCEPT ![sock[s].id] = n]
        /\ sock' = [sock EXCEPT ![s] = k]
        /\ Resumed(sock[s].id) /\ ~Active(sock[s].id)
    BY <1>9, <1>ok DEF Rehydrate, NotRevoked, Resumed, Active, TypeOK
  <2>2. k.at = "hook"
    BY <1>ok DEF TypeOK, Task
  <2> HIDE DEF n, k
  <2>3. Tasks
    BY <1>b, <2>1, <2>2 DEF Resuming
  <2>4. Sessions
    BY <1>ok, <2>1 DEF Sessions, RegistryMoves, Active, Kept, TypeOK
  <2> QED
    BY <1>9, <2>3, <2>4 DEF Rehydrate, Quiet
<1>10. ASSUME NEW s \in Sockets, ResumeHook(s) \/ AckSent(s) \/ Leave(s) \/ PhoneLeaves(s)
       PROVE  Quiet /\ Tasks /\ Sessions
  BY <1>10, <1>ok, <1>c
  DEF ResumeHook, AckSent, Leave, PhoneLeaves, Go, Quiet, Tasks, ResumeMoves, SameResume,
      Resuming, TypeOK, Task
<1>11. ASSUME NEW s \in Sockets, LinkDies(s) PROVE Quiet /\ Tasks /\ Sessions
  BY <1>11, <1>ok, <1>c DEF LinkDies, Quiet, Tasks, ResumeMoves, SameResume, TypeOK, Task
<1>12. ASSUME NEW s \in Sockets, AckFailed(s) \/ Close(s) PROVE Quiet /\ Tasks /\ Sessions
  <2> DEFINE n == Detached(reg[sock[s].id], sock[s].epoch)
  <2>1. /\ reg' = [reg EXCEPT ![sock[s].id] = n]
        /\ sock' = [sock EXCEPT ![s] = Off]
        /\ sock[s].id \in Ids
        /\ Quiet
    BY <1>12, <1>ok DEF AckFailed, Close, Detach, Quiet, TypeOK, Task
  <2>2. /\ reg[sock[s].id].state = "none" => n.state = "none"
        /\ n.state \in Live <=> Active(sock[s].id)
    BY <1>ok, <2>1, DetachedSession DEF RegistryInv, Active, Live
  <2> HIDE DEF n
  <2> QED
    BY <1>b, <1>d, <2>1, <2>2 DEF Off, Resuming
<1>13. ASSUME NEW id \in Ids, Reject(id) PROVE Quiet /\ Tasks /\ Sessions
  <2> DEFINE n == [reg[id] EXCEPT !.state = "expired", !.tx = NoSocket,
                                  !.old = FALSE, !.late = FALSE]
  <2>1. reg' = [reg EXCEPT ![id] = n] /\ reg[id].state # "none"
    BY <1>13 DEF Reject
  <2>2. n.state = "expired"
    BY <1>ok DEF TypeOK, Session
  <2> HIDE DEF n
  <2>3. Sessions
    BY <1>d, <2>1, <2>2 DEF Live
  <2>4. Tasks
    BY <1>13, <1>ok, EndedTasks DEF Reject, Tasks, ResumeMoves, SameResume, TypeOK
  <2> QED
    BY <1>13, <2>3, <2>4 DEF Reject, Quiet
<1>14. CASE UNCHANGED vars
  BY <1>14, <1>a, <1>c DEF vars, Quiet
<1> QED
  BY <1>1, <1>2, <1>3, <1>4, <1>5, <1>6, <1>7, <1>8, <1>9, <1>10, <1>11, <1>12, <1>13, <1>14
  DEF Next, Hello, Resume, Serve, CommandBegins, CommandGoesOn, Decision, Decides

-----------------------------------------------------------------------------
(* Every attached channel has its task, whatever the two do.               *)

LEMMA AttachedStep ==
    TypeInv /\ AttachedTaskWillDetach /\ [Next]_vars => AttachedTaskWillDetach'
<1> SUFFICES ASSUME TypeInv, AttachedTaskWillDetach, [Next]_vars
             PROVE  AttachedTaskWillDetach'
  OBVIOUS
<1>ok. RegistryInv /\ TypeOK
  BY DEF TypeInv
<1> DEFINE Places == {"hook", "ack", "loop", "closing"}
           Served(f, g, id) ==
              /\ f[id].tx # NoSocket => /\ f[id].tx \in Sockets
                                        /\ g[f[id].tx].at \in Places
                                        /\ g[f[id].tx].id = id
                                        /\ g[f[id].tx].epoch = f[id].epoch
              /\ f[id].state \in {"pending", "accepted"} => f[id].tx # NoSocket
           Goal == \A id \in Ids : Served(reg', sock', id)
<1>now. \A id \in Ids : Served(reg, sock, id) /\ Good(reg[id])
  BY <1>ok DEF AttachedTaskWillDetach, RegistryInv, Good, Session
<1>sw. /\ SweptReg \in [Ids -> Session]
       /\ \A id \in Ids : /\ Served(SweptReg, sock, id) /\ SweptReg[id] = Swept(reg[id])
                          /\ Good(SweptReg[id])
  <2>1. \A id \in Ids : SweptReg[id] = Swept(reg[id]) /\ Good(SweptReg[id])
    BY <1>ok, SweptRegistry
  <2>2. Absent.tx = NoSocket /\ Absent.state = "none"
    BY DEF Absent
  <2>3. ASSUME NEW id \in Ids PROVE Served(SweptReg, sock, id)
    <3>1. \/ SweptReg[id].tx = NoSocket /\ SweptReg[id].state = "none"
          \/ /\ SweptReg[id].tx = reg[id].tx /\ SweptReg[id].epoch = reg[id].epoch
             /\ SweptReg[id].state \in {"pending", "accepted"} =>
                   reg[id].state \in {"pending", "accepted"}
      BY <2>1, <2>2, <1>now, SweptSession
    <3> QED
      BY <3>1, <1>now
  <2> QED
    BY <1>ok, <2>1, <2>3, SweptRegistry
<1> SUFFICES Goal
  BY DEF AttachedTaskWillDetach
(* Tasks that keep their place among Places, their id and their epoch.     *)
<1>a. ASSUME NEW f, \A id \in Ids : Served(f, sock, id), reg' = f,
             \A t \in Sockets : sock[t].at \in Places =>
                 /\ sock'[t].at \in Places /\ sock'[t].id = sock[t].id
                 /\ sock'[t].epoch = sock[t].epoch
      PROVE  Goal
  BY <1>a
<1>b. ASSUME NEW f \in [Ids -> Session], \A id \in Ids : Served(f, sock, id),
             NEW id \in Ids, NEW n, reg' = [f EXCEPT ![id] = n],
             \A t \in Sockets : sock[t].at \in Places =>
                 /\ sock'[t].at \in Places /\ sock'[t].id = sock[t].id
                 /\ sock'[t].epoch = sock[t].epoch,
             \/ n.tx = NoSocket /\ n.state \notin {"pending", "accepted"}
             \/ /\ n.tx = f[id].tx /\ n.epoch = f[id].epoch
                /\ n.state \in {"pending", "accepted"} =>
                      f[id].state \in {"pending", "accepted"}
      PROVE  Goal
  BY <1>b
(* A task that enters Places for a session attached to it.                 *)
<1>c. ASSUME NEW f \in [Ids -> Session], \A id \in Ids : Served(f, sock, id),
             NEW id \in Ids, NEW n, NEW s \in Sockets, NEW k,
             reg' = [f EXCEPT ![id] = n], sock' = [sock EXCEPT ![s] = k],
             sock[s].at \notin Places,
             n.tx = s, k.at \in Places, k.id = id, k.epoch = n.epoch
      PROVE  Goal
  BY <1>c, <1>ok, SessionAssumption DEF TypeOK
<1>d. ASSUME UNCHANGED sock
      PROVE  \A t \in Sockets : sock[t].at \in Places =>
                 /\ sock'[t].at \in Places /\ sock'[t].id = sock[t].id
                 /\ sock'[t].epoch = sock[t].epoch
  BY <1>d
<1> HIDE DEF Served, Goal
<1>1. ASSUME NEW id \in Ids, Age(id) PROVE Goal
  <2>1. PICK n : /\ reg' = [reg EXCEPT ![id] = n]
                 /\ n.state = reg[id].state /\ n.tx = reg[id].tx /\ n.epoch = reg[id].epoch
    <3>1. CASE reg' = [reg EXCEPT ![id].old = TRUE]
      <4> DEFINE n == [reg[id] EXCEPT !.old = TRUE]
      <4>1. n.state = reg[id].state /\ n.tx = reg[id].tx /\ n.epoch = reg[id].epoch
        BY <1>ok DEF TypeOK, Session
      <4> QED
        BY <3>1, <4>1
    <3>2. CASE reg' = [reg EXCEPT ![id].late = TRUE]
      <4> DEFINE n == [reg[id] EXCEPT !.late = TRUE]
      <4>1. n.state = reg[id].state /\ n.tx = reg[id].tx /\ n.epoch = reg[id].epoch
        BY <1>ok DEF TypeOK, Session
      <4> QED
        BY <3>2, <4>1
    <3> QED
      BY <1>1, <3>1, <3>2 DEF Age
  <2>2. UNCHANGED sock
    BY <1>1 DEF Age
  <2> QED
    BY <1>b, <1>d, <1>now, <1>ok, <2>1, <2>2 DEF TypeOK
<1>2. CASE UNCHANGED <<reg, sock>>
  BY <1>2, <1>a, <1>d, <1>now
<1>3. CASE Sweep
  BY <1>3, <1>a, <1>d, <1>sw DEF Sweep
<1>4. ASSUME NEW s \in Sockets, NEW id \in Ids, HelloBadToken(s, id) PROVE Goal
  <2> DEFINE r == Swept(reg[id])
             n == IF TooMany(r.strikes + 1)
                  THEN [r EXCEPT !.strikes = r.strikes + 1, !.state = "expired",
                                 !.old = FALSE, !.late = FALSE]
                  ELSE [r EXCEPT !.strikes = r.strikes + 1]
  <2>1. UNCHANGED sock /\ reg' = [SweptReg EXCEPT ![id] = n]
    BY <1>4 DEF HelloBadToken
  <2>2. r \in Session /\ r = SweptReg[id]
    BY <1>sw DEF Good
  <2> HIDE DEF r
  <2>3. /\ n.tx = r.tx /\ n.epoch = r.epoch
        /\ n.state = r.state \/ n.state = "expired"
    BY <2>2 DEF Session
  <2> HIDE DEF n
  <2> QED
    BY <1>b, <1>d, <1>sw, <2>1, <2>2, <2>3
<1>5. ASSUME NEW s \in Sockets, NEW id \in Ids, HelloBusy(s, id) PROVE Goal
  <2> DEFINE r == Swept(reg[id])
             n == [r EXCEPT !.strikes = 0]
  <2>1. UNCHANGED sock /\ reg' = [SweptReg EXCEPT ![id] = n]
    BY <1>5, <1>sw DEF HelloBusy
  <2>2. r \in Session /\ r = SweptReg[id]
    BY <1>sw DEF Good
  <2> HIDE DEF r
  <2>3. n.tx = r.tx /\ n.epoch = r.epoch /\ n.state = r.state
    BY <2>2 DEF Session
  <2> HIDE DEF n
  <2> QED
    BY <1>b, <1>d, <1>sw, <2>1, <2>2, <2>3
<1>6. ASSUME NEW s \in Sockets, NEW id \in Ids, HelloUnknown(s, id) PROVE Goal
  <2> DEFINE k == [Off EXCEPT !.at = "unknown", !.id = id]
  <2>1. sock' = [sock EXCEPT ![s] = k] /\ sock[s].at = "off" /\ reg' = SweptReg
    BY <1>6 DEF HelloUnknown
  <2> HIDE DEF k
  <2> QED
    BY <1>a, <1>sw, <1>ok, <2>1 DEF TypeOK
<1>7. ASSUME NEW s \in Sockets, NEW id \in Ids, HelloAttach(s, id) PROVE Goal
  <2> DEFINE r == Swept(reg[id])
             n == [r EXCEPT !.state = IF Resumable(r) THEN "accepted" ELSE "pending",
                            !.tx = s, !.epoch = r.epoch + 1, !.strikes = 0,
                            !.late = FALSE]
             k == [Off EXCEPT !.at = "ack", !.id = id, !.epoch = r.epoch + 1]
  <2>1. reg' = [SweptReg EXCEPT ![id] = n] /\ sock' = [sock EXCEPT ![s] = k]
        /\ sock[s].at = "off"
    BY <1>7 DEF HelloAttach
  <2>2. r \in Session
    BY <1>sw DEF Good
  <2> HIDE DEF r
  <2>3. n.tx = s /\ n.epoch = r.epoch + 1
    BY <2>2 DEF Session
  <2>4. k.at = "ack" /\ k.id = id /\ k.epoch = r.epoch + 1
    BY DEF Off
  <2> HIDE DEF n, k
  <2> QED
    BY <1>c, <1>sw, <2>1, <2>3, <2>4
<1>8. ASSUME NEW s \in Sockets, ReadEpoch(s) \/ Verify(s) \/ Refuse(s) PROVE Goal
  <2>1. /\ reg' = reg /\ sock[s].at \notin Places
        /\ \A t \in Sockets : t # s => sock'[t] = sock[t]
    BY <1>8, <1>ok DEF ReadEpoch, Verify, Refuse, TypeOK
  <2> QED
    BY <1>a, <1>now, <2>1
<1>9. ASSUME NEW s \in Sockets, Rehydrate(s) PROVE Goal
  <2> DEFINE n == [Absent EXCEPT !.state = "accepted", !.tx = s, !.epoch = 1]
             k == [sock[s] EXCEPT !.at = "hook", !.epoch = 1, !.sole = TRUE]
  <2>1. /\ reg' = [reg EXCEPT ![sock[s].id] = n]
        /\ sock' = [sock EXCEPT ![s] = k]
        /\ sock[s].at = "insert" /\ sock[s].id \in Ids
    BY <1>9, <1>ok DEF Rehydrate, TypeOK, Task
  <2>2. n.tx = s /\ n.epoch = 1
    BY DEF Absent
  <2>3. k.at = "hook" /\ k.id = sock[s].id /\ k.epoch = 1
    BY <1>ok DEF TypeOK, Task
  <2>4. reg \in [Ids -> Session] /\ \A id \in Ids : Served(reg, sock, id)
    BY <1>ok, <1>now DEF TypeOK
  <2>5. sock[s].at \notin Places /\ k.at \in Places /\ k.epoch = n.epoch
    BY <2>1, <2>2, <2>3
  <2> DEFINE i == sock[s].id
  <2>6. i \in Ids /\ reg' = [reg EXCEPT ![i] = n] /\ k.id = i
    BY <2>1, <2>3
  <2> HIDE DEF n, k, i, Places
  <2> QED
    BY <1>ok, <2>1, <2>2, <2>4, <2>5, <2>6, SessionAssumption DEF Goal, Served, TypeOK
<1>10. ASSUME NEW s \in Sockets,
              ResumeHook(s) \/ AckSent(s) \/ Leave(s) \/ PhoneLeaves(s) \/ LinkDies(s)
       PROVE  Goal
  <2>1. /\ reg' = reg
        /\ \A t \in Sockets : sock[t].at \in Places =>
              /\ sock'[t].at \in Places /\ sock'[t].id = sock[t].id
              /\ sock'[t].epoch = sock[t].epoch
    BY <1>10, <1>ok
    DEF ResumeHook, AckSent, Leave, PhoneLeaves, LinkDies, Go, TypeOK, Task
  <2> QED
    BY <1>a, <1>now, <2>1
<1>11. ASSUME NEW s \in Sockets, AckFailed(s) \/ Close(s) PROVE Goal
  <2> DEFINE i == sock[s].id
             n == Detached(reg[i], sock[s].epoch)
  <2>1. reg' = [reg EXCEPT ![i] = n] /\ sock' = [sock EXCEPT ![s] = Off] /\ i \in Ids
    BY <1>11, <1>ok DEF AckFailed, Close, Detach, TypeOK, Task
  <2>2. \/ n = reg[i] /\ (reg[i].state = "none" \/ reg[i].epoch # sock[s].epoch)
        \/ n.tx = NoSocket /\ n.state \notin {"pending", "accepted"}
    BY <1>now, <2>1, DetachedSession
  <2> HIDE DEF n
  <2>3. reg[i].state = "none" => reg[i].tx = NoSocket
    BY <1>now, <2>1 DEF Good, Absent
  <2>4. n.tx # NoSocket => n = reg[i] /\ reg[i].tx # s
    BY <1>now, <2>1, <2>2, <2>3 DEF Served
  <2>5. \A id \in Ids : id # i => reg[id].tx # s
    BY <1>now, SessionAssumption DEF Served
  <2> QED
    BY <1>ok, <1>now, <2>1, <2>2, <2>4, <2>5 DEF Goal, Served, TypeOK
<1>12. ASSUME NEW id \in Ids, CreateSession(id) PROVE Goal
  <2> DEFINE n == [Absent EXCEPT !.state = "created"]
  <2>1. n.tx = NoSocket /\ n.state = "created"
    BY DEF Absent
  <2>2. reg' = [SweptReg EXCEPT ![id] = n] /\ UNCHANGED sock
    BY <1>12 DEF CreateSession
  <2> HIDE DEF n
  <2> QED
    BY <1>b, <1>d, <1>sw, <2>1, <2>2
<1>13. ASSUME NEW id \in Ids, Accept(id) PROVE Goal
  <2> DEFINE n == [reg[id] EXCEPT !.state = "accepted", !.old = FALSE]
  <2>1. reg' = [reg EXCEPT ![id] = n] /\ reg[id].state \in {"pending", "accepted"}
        /\ UNCHANGED sock
    BY <1>13, <1>ok DEF Accept, TypeOK
  <2>2. n.tx = reg[id].tx /\ n.epoch = reg[id].epoch
    BY <1>ok DEF TypeOK, Session
  <2> HIDE DEF n
  <2> QED
    BY <1>b, <1>d, <1>now, <1>ok, <2>1, <2>2 DEF TypeOK
<1>14. ASSUME NEW id \in Ids, Reject(id) PROVE Goal
  <2> DEFINE n == [reg[id] EXCEPT !.state = "expired", !.tx = NoSocket,
                                  !.old = FALSE, !.late = FALSE]
  <2>1. reg' = [reg EXCEPT ![id] = n] /\ sock' = EndQueued(reg[id].tx)
    BY <1>14 DEF Reject
  <2>2. n.tx = NoSocket /\ n.state \notin {"pending", "accepted"}
    BY <1>ok DEF TypeOK, Session
  <2>3. \A t \in Sockets : /\ sock'[t].at = sock[t].at /\ sock'[t].id = sock[t].id
                          /\ sock'[t].epoch = sock[t].epoch
    BY <1>ok, <2>1, EndedTasks DEF TypeOK
  <2> HIDE DEF n
  <2> QED
    BY <1>b, <1>now, <1>ok, <2>1, <2>2, <2>3 DEF TypeOK
<1>15. CASE RemoveSession \/ RemoveInputSession
  <2>1. SessionRemoved(cmd.id) /\ cmd.id \in Ids
    BY <1>15, <1>ok DEF RemoveSession, RemoveInputSession, TypeOK, Command
  <2> DEFINE i == cmd.id
             n == Absent
  <2>2. n.tx = NoSocket /\ n.state = "none"
    BY DEF Absent
  <2>3. reg' = [reg EXCEPT ![i] = n] /\ sock' = EndQueued(reg[i].tx) /\ i \in Ids
    BY <2>1 DEF SessionRemoved
  <2>4. \A t \in Sockets : /\ sock'[t].at = sock[t].at /\ sock'[t].id = sock[t].id
                          /\ sock'[t].epoch = sock[t].epoch
    BY <1>ok, <2>3, EndedTasks DEF TypeOK
  <2> HIDE DEF i, n
  <2> QED
    BY <1>b, <1>now, <1>ok, <2>2, <2>3, <2>4 DEF TypeOK
<1>16. ASSUME \/ ReplaceGraph
              \/ \E id \in Ids : Lapse(id) \/ Forget(id) \/ Disconnect(id) \/ RemoveInput(id)
              \/ AcceptUpsert \/ AcceptAddInput \/ DropInput
              \/ UNCHANGED vars
       PROVE  UNCHANGED <<reg, sock>>
  BY <1>16 DEF ReplaceGraph, Lapse, Forget, Disconnect, RemoveInput, AcceptUpsert,
               AcceptAddInput, DropInput, vars
<1> QED
  BY <1>1, <1>2, <1>3, <1>4, <1>5, <1>6, <1>7, <1>8, <1>9, <1>10, <1>11, <1>12, <1>13, <1>14,
     <1>15, <1>16
  DEF Next, Hello, Resume, Serve, CommandBegins, CommandGoesOn

-----------------------------------------------------------------------------
(* Trust is kept by quiet steps and by decisions *)

LEMMA TrustInit == Init => Trust /\ AttachedTaskWillDetach
<1> SUFFICES ASSUME Init PROVE Trust /\ AttachedTaskWillDetach
  OBVIOUS
<1>1. /\ \A id \in Ids : reg[id].state = "none" /\ reg[id].tx = NoSocket
      /\ \A s \in Sockets : sock[s].at = "off"
      /\ cmd.at = "idle"
  BY DEF Init, Absent, Off, Idle
<1>2. issued = store /\ granted = store /\ forgotten = {}
  BY DEF Init
<1> QED
  BY <1>1, <1>2
  DEF Trust, IssuedInv, GrantedInv, OnlyAcceptedPhonesAreLive, ResumeInv, Active,
      LiveSessionsAreTrusted, ForgottenInv, Out, Revoking, AttachedTaskWillDetach

LEMMA QuietKeepsTrust == TypeInv /\ Trust /\ QuietStep => Trust'
<1> SUFFICES ASSUME TypeInv, Trust, QuietStep PROVE Trust'
  OBVIOUS
<1>ok. TypeOK /\ IssuedInv /\ GrantedInv /\ ResumeInv /\ LiveSessionsAreTrusted /\ ForgottenInv
  BY DEF TypeInv, Trust
<1>q. /\ UNCHANGED <<issued, store, revokeEpoch, cmd, granted, forgotten, lapsed>>
      /\ \A t \in Sockets : ResumeMoves(t)
      /\ \A id \in Ids : RegistryMoves(id)
  BY DEF QuietStep, Quiet, history
<1>t. \A s \in Sockets : sock[s].id \in Ids /\ sock[s].seen \in Nat /\ revokeEpoch \in Nat
  BY <1>ok DEF TypeOK, Task
<1>1. IssuedInv'
  BY <1>ok, <1>q, <1>t
  DEF IssuedInv, ResumeMoves, SameResume, RegistryMoves, Resumed, Resuming
<1>2. GrantedInv'
  BY <1>ok, <1>q, <1>t
  DEF GrantedInv, OnlyAcceptedPhonesAreLive, ResumeMoves, SameResume, RegistryMoves,
      Resumed, Resuming
<1>3. ResumeInv'
  BY <1>ok, <1>q, <1>t DEF ResumeInv, ResumeMoves, SameResume, Resuming
<1>4. LiveSessionsAreTrusted'
  BY <1>ok, <1>q, <1>t DEF LiveSessionsAreTrusted, ResumeInv, RegistryMoves, Resumed
<1>5. ForgottenInv'
  <2> SUFFICES ASSUME NEW id \in Ids, Out(id)'
               PROVE  /\ id \in issued' /\ id \notin store'
                      /\ \A s \in Sockets : sock'[s].at = "insert" /\ sock'[s].id = id
                                               => sock'[s].seen < revokeEpoch'
                      /\ cmd'.at = "upsert" => cmd'.id # id
                      /\ id \in forgotten' \/ cmd'.at = "dropInput" => reg'[id].state = "none"
    BY DEF ForgottenInv
  <2>1. Out(id)
    BY <1>q DEF Out, Revoking
  <2>2. \A s \in Sockets : sock[s].at = "insert" /\ sock[s].id = id
                              => sock[s].seen < revokeEpoch
    BY <1>ok, <2>1 DEF ForgottenInv
  <2>3. ~Resumed(id)
    BY <1>t, <2>2 DEF Resumed
  <2>4. \A s \in Sockets : sock'[s].at = "insert" /\ sock'[s].id = id
                              => sock'[s].seen < revokeEpoch'
    BY <1>ok, <1>q, <2>1, <2>2 DEF ForgottenInv, ResumeMoves, SameResume, Resuming
  <2> QED
    BY <1>ok, <1>q, <2>1, <2>3, <2>4 DEF ForgottenInv, RegistryMoves
<1> QED
  BY <1>1, <1>2, <1>3, <1>4, <1>5 DEF Trust

(* A decision of the user or the store moves no resume.                    *)
LEMMA DecisionLeavesTasks == TypeInv /\ Decision => \A s \in Sockets : SameResume(s)
<1> SUFFICES ASSUME TypeInv, Decision PROVE \A s \in Sockets : SameResume(s)
  OBVIOUS
<1>ok. sock \in [Sockets -> Task]
  BY DEF TypeInv, TypeOK
<1>1. CASE RemoveSession \/ RemoveInputSession
  BY <1>1, <1>ok, EndedTasks DEF RemoveSession, RemoveInputSession, SessionRemoved, SameResume
<1>2. CASE (\E id \in Ids : Decides(id)) \/ AcceptUpsert \/ AcceptAddInput \/ DropInput
  BY <1>2 DEF Decides, Lapse, CreateSession, Accept, Forget, Disconnect, RemoveInput,
              AcceptUpsert, AcceptAddInput, DropInput, SameResume
<1> QED
  BY <1>1, <1>2 DEF Decision, CommandGoesOn

LEMMA DecisionKeepsTrust == TypeInv /\ Trust /\ Decision => Trust'
<1> SUFFICES ASSUME TypeInv, Trust, Decision PROVE Trust'
  OBVIOUS
<1>ok. TypeOK /\ IssuedInv /\ GrantedInv /\ ResumeInv /\ LiveSessionsAreTrusted /\ ForgottenInv
  BY DEF TypeInv, Trust
<1>s. \A s \in Sockets : /\ sock'[s].at = sock[s].at /\ sock'[s].id = sock[s].id
                         /\ sock'[s].seen = sock[s].seen
  BY DecisionLeavesTasks DEF SameResume
<1>t. /\ \A s \in Sockets : sock[s].id \in Ids /\ sock[s].seen \in Nat
      /\ revokeEpoch \in Nat /\ cmd.id \in Ids
  BY <1>ok DEF TypeOK, Task, Command
<1> USE DEF Resuming, history
<1>1. ASSUME NEW id \in Ids, Lapse(id) PROVE Trust'
  <2>1. IssuedInv'
    BY <1>1, <1>ok, <1>s DEF Lapse, IssuedInv
  <2>2. GrantedInv'
    BY <1>1, <1>ok, <1>s DEF Lapse, GrantedInv, OnlyAcceptedPhonesAreLive, Active
  <2>3. ResumeInv'
    BY <1>1, <1>ok, <1>s DEF Lapse, ResumeInv
  <2>4. LiveSessionsAreTrusted'
    BY <1>1, <1>ok DEF Lapse, LiveSessionsAreTrusted, Active
  <2>5. ForgottenInv'
    BY <1>1, <1>ok, <1>s DEF Lapse, ForgottenInv, Out, Revoking
  <2> QED
    BY <2>1, <2>2, <2>3, <2>4, <2>5 DEF Trust
<1>2. ASSUME NEW id \in Ids, CreateSession(id) PROVE Trust'
  <2>1. /\ \A i \in Ids : reg[i].state = "none" /\ i # id => reg'[i].state = "none"
        /\ \A i \in Ids : Active(i)' => Active(i)
    <3> DEFINE n == [Absent EXCEPT !.state = "created"]
    <3>1. n.state = "created"
      BY DEF Absent
    <3>2. reg' = [SweptReg EXCEPT ![id] = n]
      BY <1>2 DEF CreateSession
    <3>3. SweptReg \in [Ids -> Session] /\ RegistryInv
      BY SweptRegistry DEF TypeInv
    <3> HIDE DEF n
    <3> QED
      BY <3>1, <3>2, <3>3, SweptMoves DEF Active, Live
  <2>2. IssuedInv'
    BY <1>2, <1>ok, <1>s, <2>1 DEF CreateSession, IssuedInv
  <2>3. GrantedInv'
    BY <1>2, <1>ok, <1>s, <2>1 DEF CreateSession, GrantedInv, OnlyAcceptedPhonesAreLive
  <2>4. ResumeInv'
    BY <1>2, <1>ok, <1>s DEF CreateSession, ResumeInv
  <2>5. LiveSessionsAreTrusted'
    BY <1>2, <1>ok, <2>1 DEF CreateSession, LiveSessionsAreTrusted
  <2>6. ForgottenInv'
    BY <1>2, <1>ok, <1>s, <2>1 DEF CreateSession, ForgottenInv, Out, Revoking
  <2> QED
    BY <2>2, <2>3, <2>4, <2>5, <2>6 DEF Trust
<1>3. ASSUME NEW id \in Ids, Accept(id) PROVE Trust'
  <2>1. /\ \A i \in Ids : reg'[i].state = "none" <=> reg[i].state = "none"
        /\ \A i \in Ids : Active(i)' => Active(i) \/ i = id
        /\ reg[id].state # "none"
    BY <1>3, <1>ok DEF Accept, Active, TypeOK, Session
  <2>2. IssuedInv'
    BY <1>3, <1>ok, <1>s, <2>1 DEF Accept, Start, IssuedInv
  <2>3. GrantedInv'
    BY <1>3, <1>ok, <1>s, <2>1 DEF Accept, Start, GrantedInv, OnlyAcceptedPhonesAreLive
  <2>4. ResumeInv'
    BY <1>3, <1>ok, <1>s DEF Accept, Start, ResumeInv
  <2>5. LiveSessionsAreTrusted'
    BY <1>3, <1>ok, <2>1 DEF Accept, Start, LiveSessionsAreTrusted
  <2>6. ForgottenInv'
    BY <1>3, <1>ok, <1>s, <2>1 DEF Accept, Start, ForgottenInv, Out, Revoking
  <2> QED
    BY <2>2, <2>3, <2>4, <2>5, <2>6 DEF Trust
<1>4. ASSUME NEW id \in Ids, Forget(id) PROVE Trust'
  <2>1. IssuedInv'
    BY <1>4, <1>ok, <1>s DEF Forget, Start, IssuedInv
  <2>2. GrantedInv'
    BY <1>4, <1>ok, <1>s DEF Forget, Start, GrantedInv, OnlyAcceptedPhonesAreLive, Active
  <2>3. ResumeInv'
    BY <1>4, <1>ok, <1>s, <1>t DEF Forget, Start, EpochAfter, ResumeInv
  <2>4. LiveSessionsAreTrusted'
    BY <1>4, <1>ok DEF Forget, Start, LiveSessionsAreTrusted, Active
  <2>5. ForgottenInv'
    <3>1. /\ cmd.at = "idle" /\ id \in issued
          /\ store' = store \ {id}
          /\ UNCHANGED <<reg, issued, forgotten>>
      BY <1>4 DEF Forget, Start
    <3>2. /\ cmd'.at = "remove" /\ cmd'.id = id
          /\ cmd'.revoke => id \in store
      <4>1. cmd' = [at |-> "remove", id |-> id, revoke |-> id \in store]
        BY <1>4 DEF Forget, Start
      <4> QED
        BY <4>1, Zenon
    <3>3. \A i \in Ids : Out(i)' => i \in forgotten \/ (i = id /\ id \in store)
      BY <3>1, <3>2 DEF Out, Revoking
    <3>4. /\ revokeEpoch' \in Nat /\ revokeEpoch <= revokeEpoch'
          /\ id \in store => revokeEpoch < revokeEpoch'
      BY <1>4, <1>t DEF Forget, EpochAfter
    <3>5. \A s \in Sockets : sock[s].at = "insert" => sock[s].seen <= revokeEpoch
      BY <1>ok DEF ResumeInv
    <3>6. ASSUME NEW i \in Ids, i \in forgotten \/ (i = id /\ id \in store),
                 NEW s \in Sockets, sock[s].at = "insert", sock[s].id = i
          PROVE  sock[s].seen < revokeEpoch'
      BY <1>ok, <1>t, <3>4, <3>5, <3>6 DEF ForgottenInv, Out
    <3> QED
      BY <1>ok, <1>s, <3>1, <3>2, <3>3, <3>6 DEF ForgottenInv, Out
  <2> QED
    BY <2>1, <2>2, <2>3, <2>4, <2>5 DEF Trust
<1>5. ASSUME NEW id \in Ids, Disconnect(id) \/ RemoveInput(id) PROVE Trust'
  <2>1. /\ UNCHANGED <<reg, issued, store, revokeEpoch, granted, forgotten, lapsed>>
        /\ cmd.at = "idle"
        /\ \/ cmd' = cmd
           \/ cmd'.at = "removeOnly"
           \/ cmd'.at = "remove" /\ cmd'.id \in issued /\ ~cmd'.revoke
    BY <1>5 DEF Disconnect, RemoveInput, Start
  <2>2. IssuedInv'
    BY <1>ok, <1>s, <2>1 DEF IssuedInv
  <2>3. GrantedInv'
    BY <1>ok, <1>s, <2>1 DEF GrantedInv, OnlyAcceptedPhonesAreLive, Active
  <2>4. ResumeInv'
    BY <1>ok, <1>s, <2>1 DEF ResumeInv
  <2>5. LiveSessionsAreTrusted'
    BY <1>ok, <2>1 DEF LiveSessionsAreTrusted, Active
  <2>6. ForgottenInv'
    BY <1>ok, <1>s, <2>1 DEF ForgottenInv, Out, Revoking
  <2> QED
    BY <2>2, <2>3, <2>4, <2>5, <2>6 DEF Trust
<1>6. CASE AcceptUpsert \/ AcceptAddInput
  <2>1. /\ UNCHANGED <<reg, issued, revokeEpoch, granted, forgotten, lapsed>>
        /\ \/ /\ cmd.at = "upsert" /\ cmd'.at = "addInput"
              /\ store' = store \union {cmd.id}
           \/ cmd.at = "addInput" /\ cmd'.at = "idle" /\ store' = store
    BY <1>6, <1>ok DEF AcceptUpsert, AcceptAddInput, Proceed, Idle, TypeOK, Command
  <2>2. IssuedInv'
    BY <1>ok, <1>s, <2>1 DEF IssuedInv
  <2>3. GrantedInv'
    BY <1>ok, <1>s, <2>1 DEF GrantedInv, OnlyAcceptedPhonesAreLive, Active
  <2>4. ResumeInv'
    BY <1>ok, <1>s, <2>1 DEF ResumeInv
  <2>5. LiveSessionsAreTrusted'
    BY <1>ok, <2>1 DEF LiveSessionsAreTrusted, Active
  <2>6. ForgottenInv'
    BY <1>ok, <1>s, <2>1 DEF ForgottenInv, Out, Revoking
  <2> QED
    BY <2>2, <2>3, <2>4, <2>5, <2>6 DEF Trust
<1>7. CASE RemoveSession \/ RemoveInputSession
  <2>1. /\ UNCHANGED <<issued, store, revokeEpoch, granted, forgotten, lapsed>>
        /\ reg' = [reg EXCEPT ![cmd.id] = Absent]
        /\ \/ /\ cmd.at = "remove" /\ cmd'.at = "dropInput" /\ cmd'.id = cmd.id
              /\ cmd'.revoke = cmd.revoke
           \/ cmd.at = "removeOnly" /\ cmd'.at = "idle"
    BY <1>7, <1>ok
    DEF RemoveSession, RemoveInputSession, SessionRemoved, Proceed, Idle, TypeOK, Command
  <2>2. /\ reg'[cmd.id].state = "none"
        /\ \A i \in Ids : i # cmd.id => reg'[i] = reg[i]
    BY <1>ok, <1>t, <2>1 DEF Absent, TypeOK
  <2>3. IssuedInv'
    BY <1>ok, <1>s, <2>1, <2>2 DEF IssuedInv
  <2>4. GrantedInv'
    BY <1>ok, <1>s, <2>1, <2>2 DEF GrantedInv, OnlyAcceptedPhonesAreLive, Active
  <2>5. ResumeInv'
    BY <1>ok, <1>s, <2>1 DEF ResumeInv
  <2>6. LiveSessionsAreTrusted'
    BY <1>ok, <2>1, <2>2 DEF LiveSessionsAreTrusted, Active
  <2>7. ForgottenInv'
    BY <1>ok, <1>s, <2>1, <2>2 DEF ForgottenInv, Out, Revoking
  <2> QED
    BY <2>3, <2>4, <2>5, <2>6, <2>7 DEF Trust
<1>8. CASE DropInput
  <2>1. /\ UNCHANGED <<reg, issued, store, revokeEpoch, granted, lapsed>>
        /\ cmd.at = "dropInput" /\ cmd'.at = "idle"
        /\ forgotten' = IF cmd.revoke THEN forgotten \union {cmd.id} ELSE forgotten
    BY <1>8 DEF DropInput, Idle
  <2>2. IssuedInv'
    BY <1>ok, <1>s, <2>1 DEF IssuedInv
  <2>3. GrantedInv'
    BY <1>ok, <1>s, <2>1 DEF GrantedInv, OnlyAcceptedPhonesAreLive, Active
  <2>4. ResumeInv'
    BY <1>ok, <1>s, <2>1 DEF ResumeInv
  <2>5. LiveSessionsAreTrusted'
    BY <1>ok, <2>1 DEF LiveSessionsAreTrusted, Active
  <2>6. ForgottenInv'
    <3>1. \A i \in Ids : Out(i)' => Out(i)
      BY <2>1 DEF Out, Revoking
    <3>2. \A i \in Ids : i \in forgotten' => i \in forgotten \/ Revoking(i)
      BY <2>1 DEF Revoking
    <3> QED
      BY <1>ok, <1>s, <2>1, <3>1, <3>2 DEF ForgottenInv, Out
  <2> QED
    BY <2>2, <2>3, <2>4, <2>5, <2>6 DEF Trust
<1> QED
  BY <1>1, <1>2, <1>3, <1>4, <1>5, <1>6, <1>7, <1>8 DEF Decision, Decides, CommandGoesOn

LEMMA DecisionKeepsAcceptance ==
    TypeInv /\ IssuedInv /\ Decision => \A id \in Ids : Kept(id)
<1> SUFFICES ASSUME TypeInv, IssuedInv, Decision, NEW i \in Ids, Active(i) PROVE Kept(i)
  BY DEF Kept
<1>ok. TypeOK /\ RegistryInv
  BY DEF TypeInv
<1>1. ASSUME UNCHANGED reg PROVE Kept(i)
  BY <1>1 DEF Kept, Active
<1>2. ASSUME NEW id \in Ids, CreateSession(id) PROVE Kept(i)
  <2>1. SweptReg[i].state \in Live /\ SweptReg \in [Ids -> Session]
    BY <1>ok, SweptMoves, SweptRegistry
  <2>2. i # id
    BY <1>2 DEF CreateSession, IssuedInv, Active
  <2>3. reg'[i] = SweptReg[i]
    BY <1>2, <2>1, <2>2 DEF CreateSession
  <2> QED
    BY <2>1, <2>3 DEF Kept, Active, Live
<1>3. ASSUME NEW id \in Ids, Accept(id) PROVE Kept(i)
  BY <1>3, <1>ok DEF Accept, Kept, Active, TypeOK, Session
<1>4. CASE RemoveSession \/ RemoveInputSession
  <2>1. reg' = [reg EXCEPT ![cmd.id] = Absent]
    BY <1>4 DEF RemoveSession, RemoveInputSession, SessionRemoved
  <2>2. Absent.state = "none"
    BY DEF Absent
  <2> QED
    BY <1>ok, <2>1, <2>2 DEF Kept, Active, TypeOK
<1>5. ASSUME NEW id \in Ids, Lapse(id) \/ Forget(id) \/ Disconnect(id) \/ RemoveInput(id)
      PROVE  UNCHANGED reg
  BY <1>5 DEF Lapse, Forget, Disconnect, RemoveInput
<1>6. CASE AcceptUpsert \/ AcceptAddInput \/ DropInput
  BY <1>6, <1>1 DEF AcceptUpsert, AcceptAddInput, DropInput
<1> QED
  BY <1>1, <1>2, <1>3, <1>4, <1>5, <1>6 DEF Decision, Decides, CommandGoesOn

-----------------------------------------------------------------------------
(* Theorems *)

LEMMA InvStep == Inv /\ [Next]_vars => Inv'
BY TypeStep, AttachedStep, StepIsQuiet, QuietKeepsTrust, DecisionKeepsTrust DEF Inv

LEMMA InvHolds == Spec => []Inv
<1>1. Init => Inv
  BY TypeInit, TrustInit DEF Inv
<1> QED
  BY <1>1, InvStep, PTL DEF Spec

(* The registry, the tasks and the store hold what their types allow: in   *)
(* particular handle_hello never counts wrong tokens past                  *)
(* MAX_TOKEN_ATTEMPTS, which ends the session first.                       *)
THEOREM TypeCorrect == Spec => []TypeOK
<1>1. Inv => TypeOK
  BY DEF Inv, TypeInv
<1> QED
  BY <1>1, InvHolds, PTL

(* Only a phone the user accepted is ever live or trusted: neither a       *)
(* hello, nor a resume, nor any race of the two with the commands, gets a  *)
(* phone past the confirmation of phone_accept_client.                     *)
THEOREM OnlyAcceptedPhones == Spec => []OnlyAcceptedPhonesAreLive
<1>1. Inv => OnlyAcceptedPhonesAreLive
  BY DEF Inv, Trust, GrantedInv
<1> QED
  BY <1>1, InvHolds, PTL

(* A live session is trusted, unless the command that accepts or revokes   *)
(* it is under way or its trust expired: REVOKE_EPOCH stops a resume that  *)
(* read the store before phone_forget emptied it.                          *)
THEOREM NoZombieSessions == Spec => []LiveSessionsAreTrusted
<1>1. Inv => LiveSessionsAreTrusted
  BY DEF Inv, Trust
<1> QED
  BY <1>1, InvHolds, PTL

(* What phone_forget revoked is out of the store and the registry for      *)
(* good, whatever resumes were under way.                                  *)
THEOREM ForgottenForGood == Spec => []ForgottenStaysOut
<1>1. Inv => ForgottenStaysOut
  BY DEF Inv, TypeInv, TypeOK, Trust, ForgottenInv, Out, ForgottenStaysOut
<1> QED
  BY <1>1, InvHolds, PTL

(* Only trusted sessions live, and what was forgotten does not come back.  *)
THEOREM RevocationsHold == Spec => []RevocationHolds
<1>1. LiveSessionsAreTrusted /\ ForgottenStaysOut => RevocationHolds
  BY DEF RevocationHolds
<1> QED
  BY <1>1, NoZombieSessions, ForgottenForGood, PTL

(* An attached channel belongs to a running task that will hand its epoch  *)
(* to handle_disconnect, so that the session does not stay busy for ever.  *)
THEOREM TasksDetach == Spec => []AttachedTaskWillDetach
<1>1. Inv => AttachedTaskWillDetach
  BY DEF Inv
<1> QED
  BY <1>1, InvHolds, PTL

(* A session that was accepted stays accepted until it ends: drops, late   *)
(* returns and sweeps never make handle_hello ask the user again.          *)
THEOREM AcceptanceLasts == Spec => AcceptanceIsKept
<1>1. Inv /\ [Next]_vars => [\A id \in Ids : Kept(id)]_vars
  BY StepIsQuiet, DecisionKeepsAcceptance DEF Inv, Trust, QuietStep, RegistryMoves
<1>2. (\A id \in Ids : Kept(id)) =>
         \A id \in Ids : Active(id) => \/ Active(id)'
                                       \/ reg'[id].state \in {"expired", "none"}
  BY DEF Kept
<1> QED
  BY <1>1, <1>2, InvHolds, PTL DEF Spec, AcceptanceIsKept

=============================================================================
