---------------------------- MODULE PhoneSession ----------------------------
(***************************************************************************)
(* The life of a phone session on the desktop: the registry of             *)
(* net/session.rs, the web-socket tasks of net/server.rs and the phone     *)
(* commands of lib.rs, with the trust they consult (net/paired.rs, in      *)
(* memory; PairedStore models its file) and the mixer inputs they manage.  *)
(*                                                                         *)
(* Socket tasks run on two worker threads, commands one at a time on the   *)
(* command thread.  An action is one critical section of the registry, the *)
(* store or the application state, or one await of a socket task.          *)
(* Labels, agent names and media are not modelled.                         *)
(***************************************************************************)
EXTENDS Integers, FiniteSets

CONSTANTS Ids,          \* session ids
          Sockets,      \* web sockets that may be open at once
          NoSocket,     \* no channel attached
          MaxStrikes,   \* MAX_TOKEN_ATTEMPTS
          MaxEpoch      \* bound: connections per session

ASSUME SessionAssumption == /\ Ids # {}
                            /\ NoSocket \notin Sockets
                            /\ MaxStrikes \in Nat \ {0}
                            /\ MaxEpoch \in Nat \ {0}

VARIABLES reg,          \* the registry; state "none" stands for no entry
          sock,         \* the socket tasks
          issued,       \* ids create_session has given out
          store,        \* ids paired.rs trusts, in memory
          revokeEpoch,  \* REVOKE_EPOCH
          graph,        \* ids whose "phone:<id>" input is in the mixer graph
          cmd,          \* the command in progress on the command thread
          granted,      \* history: ids the user accepted, in any run
          forgotten,    \* history: ids phone_forget has revoked
          lapsed        \* history: ids whose trust expired since granted

history == <<granted, forgotten, lapsed>>
vars == <<reg, sock, issued, store, revokeEpoch, graph, cmd, history>>

States == {"none", "created", "pending", "accepted", "reconnecting",
           "disconnected", "expired"}

(* old: created_at is more than UNPAIRED_TTL ago; late: dropped_at is more *)
(* than RECONNECT_GRACE ago.                                               *)
Session == [state : States, tx : Sockets \union {NoSocket}, epoch : 0..MaxEpoch,
            strikes : 0..MaxStrikes, old : BOOLEAN, late : BOOLEAN]

Absent == [state |-> "none", tx |-> NoSocket, epoch |-> 0, strikes |-> 0,
           old |-> FALSE, late |-> FALSE]

(* seen: epoch_before; sole: the session holds the only sender of this     *)
(* task's channel; ended: a Bye or Rejected is queued; dead: the link is.  *)
Task == [at : {"off", "unknown", "verify", "insert", "hook", "ack", "loop", "closing"},
         id : Ids, epoch : 0..MaxEpoch, seen : Nat,
         sole : BOOLEAN, ended : BOOLEAN, dead : BOOLEAN]

Command == [at : {"idle", "upsert", "addInput", "remove", "dropInput", "removeOnly"},
            id : Ids, revoke : BOOLEAN]

TypeOK == /\ reg \in [Ids -> Session]
          /\ sock \in [Sockets -> Task]
          /\ issued \subseteq Ids
          /\ store \subseteq Ids
          /\ revokeEpoch \in Nat
          /\ graph \subseteq Ids
          /\ cmd \in Command
          /\ granted \subseteq Ids
          /\ forgotten \subseteq Ids
          /\ lapsed \subseteq Ids

AnyId == CHOOSE id \in Ids : TRUE
Off   == [at |-> "off", id |-> AnyId, epoch |-> 0, seen |-> 0,
          sole |-> FALSE, ended |-> FALSE, dead |-> FALSE]
Idle  == [at |-> "idle", id |-> AnyId, revoke |-> FALSE]

(* A start of the program: the registry and the graph are empty, the store *)
(* holds what earlier runs accepted.                                       *)
Init == /\ reg = [id \in Ids |-> Absent]
        /\ sock = [s \in Sockets |-> Off]
        /\ store \in SUBSET Ids
        /\ issued = store
        /\ granted = store
        /\ revokeEpoch = 0
        /\ graph = {}
        /\ cmd = Idle
        /\ forgotten = {}
        /\ lapsed = {}

-----------------------------------------------------------------------------
(* Helpers *)

Active(id) == reg[id].state \in {"accepted", "reconnecting", "disconnected"}

(* The channel's receiver lives as long as its task. *)
Open(r) == r.tx # NoSocket /\ sock[r.tx].at # "off"

Go(s, place) == sock' = [sock EXCEPT ![s].at = place]

(* sweep, on one session. *)
Aged(r) == IF r.state = "created" /\ r.old
           THEN [r EXCEPT !.state = "expired", !.old = FALSE]
           ELSE IF r.state = "reconnecting" /\ r.late
           THEN [r EXCEPT !.state = "disconnected", !.late = FALSE]
           ELSE r
Swept(r) == IF Aged(r).state = "expired" /\ r.tx = NoSocket THEN Absent ELSE Aged(r)
SweptReg == [id \in Ids |-> Swept(reg[id])]

(* handle_disconnect: only the owner of the epoch may detach.  Here and    *)
(* below, definitions ending in _Bug are mutants.                          *)
Detached_Bug(r, epoch) ==                 \* a pending phone drops like an accepted one
    IF r.state \in {"accepted", "pending"} /\ r.epoch = epoch
    THEN [r EXCEPT !.tx = NoSocket, !.state = "reconnecting"] ELSE r
Detached(r, epoch) ==
    IF r.state = "none" \/ r.epoch # epoch THEN r
    ELSE CASE r.state = "accepted" ->
                [r EXCEPT !.tx = NoSocket, !.state = "reconnecting", !.late = FALSE]
           [] r.state = "pending" ->
                [r EXCEPT !.tx = NoSocket, !.state = "created", !.strikes = 0]
           [] OTHER -> [r EXCEPT !.tx = NoSocket]

(* Push a Bye or Rejected to the attached socket. *)
EndQueued(tx) == [s \in Sockets |-> IF s = tx /\ sock[s].at # "off"
                                    THEN [sock[s] EXCEPT !.ended = TRUE] ELSE sock[s]]

-----------------------------------------------------------------------------
(* Time *)

Age(id) ==
    /\ \/ /\ reg[id].state \in {"created", "pending"} /\ ~reg[id].old
          /\ reg' = [reg EXCEPT ![id].old = TRUE]
       \/ /\ reg[id].state = "reconnecting" /\ ~reg[id].late
          /\ reg' = [reg EXCEPT ![id].late = TRUE]
    /\ UNCHANGED <<sock, issued, store, revokeEpoch, graph, cmd, history>>

(* sweep runs in list, status, create_session and handle_hello. *)
Sweep ==
    /\ reg' = SweptReg
    /\ UNCHANGED <<sock, issued, store, revokeEpoch, graph, cmd, history>>

(* paired::maintain drops a device not seen for TRUSTED_TTL; no epoch bump. *)
Lapse(id) ==
    /\ id \in store
    /\ store' = store \ {id}
    /\ lapsed' = lapsed \union {id}
    /\ UNCHANGED <<reg, sock, issued, revokeEpoch, graph, cmd, granted, forgotten>>

-----------------------------------------------------------------------------
(* Hello: handle_hello sweeps, then decides under the registry lock *)

TooMany(strikes) == strikes >= MaxStrikes

HelloBadToken(s, id) ==
    LET r == Swept(reg[id])
        strikes == r.strikes + 1
    IN  /\ sock[s].at = "off"
        /\ r.state \notin {"none", "expired"}
        /\ reg' = [SweptReg EXCEPT ![id] =
                      IF TooMany(strikes)
                      THEN [r EXCEPT !.strikes = strikes, !.state = "expired",
                                     !.old = FALSE, !.late = FALSE]
                      ELSE [r EXCEPT !.strikes = strikes]]
        /\ UNCHANGED <<sock, issued, store, revokeEpoch, graph, cmd, history>>

(* A live peer blocks a second hello; its correct token clears the strikes. *)
Busy(r) == Open(r) /\ r.state \in {"pending", "accepted"}

HelloBusy(s, id) ==
    LET r == Swept(reg[id])
    IN  /\ sock[s].at = "off"
        /\ Busy(r)
        /\ reg' = [SweptReg EXCEPT ![id].strikes = 0]
        /\ UNCHANGED <<sock, issued, store, revokeEpoch, graph, cmd, history>>

HelloUnknown(s, id) ==
    /\ sock[s].at = "off"
    /\ id \in issued
    /\ Swept(reg[id]).state \in {"none", "expired"}
    /\ reg' = SweptReg
    /\ sock' = [sock EXCEPT ![s] = [Off EXCEPT !.at = "unknown", !.id = id]]
    /\ UNCHANGED <<issued, store, revokeEpoch, graph, cmd, history>>

Resumable_Bug(r) == r.state \in {"accepted", "reconnecting"}
Resumable(r)     == r.state \in {"accepted", "reconnecting", "disconnected"}

HelloAttach(s, id) ==
    LET r == Swept(reg[id])
    IN  /\ sock[s].at = "off"
        /\ r.state \notin {"none", "expired"}
        /\ ~Busy(r)
        /\ r.epoch < MaxEpoch
        /\ reg' = [SweptReg EXCEPT ![id] =
                      [r EXCEPT !.state = IF Resumable(r) THEN "accepted" ELSE "pending",
                                !.tx = s, !.epoch = r.epoch + 1, !.strikes = 0,
                                !.late = FALSE]]
        /\ sock' = [sock EXCEPT ![s] = [Off EXCEPT !.at = "ack", !.id = id,
                                                   !.epoch = r.epoch + 1]]
        /\ UNCHANGED <<issued, store, revokeEpoch, graph, cmd, history>>

-----------------------------------------------------------------------------
(* try_resume_trusted, step by step *)

ReadEpoch(s) ==
    /\ sock[s].at = "unknown"
    /\ sock' = [sock EXCEPT ![s].at = "verify", ![s].seen = revokeEpoch]
    /\ UNCHANGED <<reg, issued, store, revokeEpoch, graph, cmd, history>>

Verify(s) ==
    /\ sock[s].at = "verify"
    /\ sock' = [sock EXCEPT ![s] = IF sock[s].id \in store
                                   THEN [sock[s] EXCEPT !.at = "insert"] ELSE Off]
    /\ UNCHANGED <<reg, issued, store, revokeEpoch, graph, cmd, history>>

NotRevoked_Bug(s) == TRUE
NotRevoked(s)     == revokeEpoch = sock[s].seen

Rehydrate(s) ==
    LET id == sock[s].id
    IN  /\ sock[s].at = "insert"
        /\ NotRevoked(s)
        /\ reg[id].state = "none"
        /\ reg' = [reg EXCEPT ![id] = [Absent EXCEPT !.state = "accepted", !.tx = s,
                                                     !.epoch = 1]]
        /\ sock' = [sock EXCEPT ![s].at = "hook", ![s].epoch = 1, ![s].sole = TRUE]
        /\ UNCHANGED <<issued, store, revokeEpoch, graph, cmd, history>>

Refuse(s) ==
    /\ sock[s].at = "insert"
    /\ ~NotRevoked(s) \/ reg[sock[s].id].state # "none"
    /\ sock' = [sock EXCEPT ![s] = Off]
    /\ UNCHANGED <<reg, issued, store, revokeEpoch, graph, cmd, history>>

(* fire_resume_hook takes the application lock, which remove_input holds   *)
(* until it has ended the session.                                         *)
ResumeHook(s) ==
    /\ sock[s].at = "hook"
    /\ cmd.at # "removeOnly"
    /\ graph' = graph \union {sock[s].id}
    /\ Go(s, "ack")
    /\ UNCHANGED <<reg, issued, store, revokeEpoch, cmd, history>>

-----------------------------------------------------------------------------
(* The rest of handle_socket *)

Detach(s) ==
    /\ reg' = [reg EXCEPT ![sock[s].id] = Detached(@, sock[s].epoch)]
    /\ sock' = [sock EXCEPT ![s] = Off]

AckSent(s) ==
    /\ sock[s].at = "ack"
    /\ ~sock[s].dead
    /\ Go(s, "loop")
    /\ UNCHANGED <<reg, issued, store, revokeEpoch, graph, cmd, history>>

AckFailed_Bug(s) ==                       \* returns without detaching
    /\ sock[s].at = "ack"
    /\ sock[s].dead
    /\ sock' = [sock EXCEPT ![s] = Off]
    /\ UNCHANGED <<reg, issued, store, revokeEpoch, graph, cmd, history>>
AckFailed(s) ==
    /\ sock[s].at = "ack"
    /\ sock[s].dead
    /\ Detach(s)
    /\ UNCHANGED <<issued, store, revokeEpoch, graph, cmd, history>>

(* The network: the link of an open socket breaks without a word. *)
LinkDies(s) ==
    /\ sock[s].at \in {"ack", "loop"}
    /\ ~sock[s].dead
    /\ sock' = [sock EXCEPT ![s].dead = TRUE]
    /\ UNCHANGED <<reg, issued, store, revokeEpoch, graph, cmd, history>>

(* The loop ends on a Bye or Rejected sent out, on a channel whose last    *)
(* sender is gone, or when the keepalive finds the link dead.              *)
KeepaliveFails_Bug(s) == FALSE
KeepaliveFails(s)     == sock[s].dead
MustLeave(s) == \/ sock[s].ended
                \/ sock[s].sole /\ reg[sock[s].id].tx # s
                \/ KeepaliveFails(s)

Leave(s) ==
    /\ sock[s].at = "loop"
    /\ MustLeave(s)
    /\ Go(s, "closing")
    /\ UNCHANGED <<reg, issued, store, revokeEpoch, graph, cmd, history>>

(* The phone says bye, closes the socket or sends a malformed frame. *)
PhoneLeaves(s) ==
    /\ sock[s].at = "loop"
    /\ Go(s, "closing")
    /\ UNCHANGED <<reg, issued, store, revokeEpoch, graph, cmd, history>>

(* After pc.close().await: handle_disconnect, then the task ends. *)
Close(s) ==
    /\ sock[s].at = "closing"
    /\ Detach(s)
    /\ UNCHANGED <<issued, store, revokeEpoch, graph, cmd, history>>

-----------------------------------------------------------------------------
(* Commands *)

Start(place, id, revoke) == /\ cmd.at = "idle"
                            /\ cmd' = [at |-> place, id |-> id, revoke |-> revoke]
Proceed(place) == cmd' = [cmd EXCEPT !.at = place]

CreateSession(id) ==
    /\ cmd.at = "idle"
    /\ id \notin issued
    /\ issued' = issued \union {id}
    /\ reg' = [SweptReg EXCEPT ![id] = [Absent EXCEPT !.state = "created"]]
    /\ UNCHANGED <<sock, store, revokeEpoch, graph, cmd, history>>

(* phone_accept_client: session::accept, then paired::upsert, then the     *)
(* mixer input.  A session in any other state answers an error.            *)
Accept(id) ==
    /\ reg[id].state \in {"pending", "accepted"}
    /\ Start("upsert", id, FALSE)
    /\ reg' = [reg EXCEPT ![id].state = "accepted", ![id].old = FALSE]
    /\ granted' = granted \union {id}
    /\ lapsed' = lapsed \ {id}
    /\ UNCHANGED <<sock, issued, store, revokeEpoch, graph, forgotten>>

AcceptUpsert ==
    /\ cmd.at = "upsert"
    /\ store' = store \union {cmd.id}
    /\ Proceed("addInput")
    /\ UNCHANGED <<reg, sock, issued, revokeEpoch, graph, history>>

AcceptAddInput ==
    /\ cmd.at = "addInput"
    /\ graph' = graph \union {cmd.id}
    /\ cmd' = Idle
    /\ UNCHANGED <<reg, sock, issued, store, revokeEpoch, history>>

(* phone_reject_client, legal in any state. *)
Reject(id) ==
    /\ cmd.at = "idle"
    /\ reg[id].state # "none"
    /\ sock' = EndQueued(reg[id].tx)
    /\ reg' = [reg EXCEPT ![id] = [@ EXCEPT !.state = "expired", !.tx = NoSocket,
                                            !.old = FALSE, !.late = FALSE]]
    /\ UNCHANGED <<issued, store, revokeEpoch, graph, cmd, history>>

EpochAfter_Bug(id) == revokeEpoch
EpochAfter(id)     == IF id \in store THEN revokeEpoch + 1 ELSE revokeEpoch

(* phone_forget: trust goes first, then the session, then the input.       *)
(* revoke: forget answered that it removed the device; an unknown one, one *)
(* that has just expired say, does not move REVOKE_EPOCH.                  *)
Forget(id) ==
    /\ id \in issued
    /\ Start("remove", id, id \in store)
    /\ store' = store \ {id}
    /\ revokeEpoch' = EpochAfter(id)
    /\ UNCHANGED <<reg, sock, issued, graph, history>>

(* phone_remove_session: as phone_forget, keeping trust. *)
Disconnect(id) ==
    /\ id \in issued
    /\ Start("remove", id, FALSE)
    /\ UNCHANGED <<reg, sock, issued, store, revokeEpoch, graph, history>>

SessionRemoved(id) == /\ sock' = EndQueued(reg[id].tx)
                      /\ reg' = [reg EXCEPT ![id] = Absent]

RemoveSession ==
    /\ cmd.at = "remove"
    /\ SessionRemoved(cmd.id)
    /\ Proceed("dropInput")
    /\ UNCHANGED <<issued, store, revokeEpoch, graph, history>>

DropInput ==
    /\ cmd.at = "dropInput"
    /\ graph' = graph \ {cmd.id}
    /\ forgotten' = IF cmd.revoke THEN forgotten \union {cmd.id} ELSE forgotten
    /\ cmd' = Idle
    /\ UNCHANGED <<reg, sock, issued, store, revokeEpoch, granted, lapsed>>

(* remove_input of a phone: when a bus cannot be rebuilt it returns early  *)
(* and the session stays.                                                  *)
RemoveInput(id) ==
    /\ id \in graph
    /\ graph' = graph \ {id}
    /\ \/ Start("removeOnly", id, FALSE)
       \/ cmd.at = "idle" /\ cmd' = cmd
    /\ UNCHANGED <<reg, sock, issued, store, revokeEpoch, history>>

RemoveInputSession ==
    /\ cmd.at = "removeOnly"
    /\ SessionRemoved(cmd.id)
    /\ cmd' = Idle
    /\ UNCHANGED <<issued, store, revokeEpoch, graph, history>>

(* add_input, which takes any phone, and the commands that replace the     *)
(* whole graph: load_preset, start_passthrough, clear_routes.  None of     *)
(* them touches a session.                                                 *)
ReplaceGraph ==
    /\ cmd.at = "idle"
    /\ graph' \in SUBSET Ids
    /\ UNCHANGED <<reg, sock, issued, store, revokeEpoch, cmd, history>>

-----------------------------------------------------------------------------
Hello(s) == \E id \in Ids : \/ HelloBadToken(s, id) \/ HelloBusy(s, id)
                            \/ HelloUnknown(s, id) \/ HelloAttach(s, id)

Resume(s) == ReadEpoch(s) \/ Verify(s) \/ Rehydrate(s) \/ Refuse(s) \/ ResumeHook(s)

Serve(s) == AckSent(s) \/ AckFailed(s) \/ Leave(s) \/ Close(s)

CommandBegins == \E id \in Ids : \/ CreateSession(id) \/ Accept(id) \/ Reject(id)
                                 \/ Forget(id) \/ Disconnect(id) \/ RemoveInput(id)

CommandGoesOn == \/ AcceptUpsert \/ AcceptAddInput \/ RemoveSession \/ DropInput
                 \/ RemoveInputSession

Next == \/ \E id \in Ids : Age(id) \/ Lapse(id)
        \/ Sweep
        \/ ReplaceGraph
        \/ \E s \in Sockets : \/ Hello(s) \/ Resume(s) \/ Serve(s)
                              \/ LinkDies(s) \/ PhoneLeaves(s)
        \/ CommandBegins \/ CommandGoesOn

Spec == Init /\ [][Next]_vars

(* Socket tasks and commands run on; the phones, the user, the network and *)
(* the clock owe nothing.                                                  *)
FairSpec == /\ Spec
            /\ WF_vars(CommandGoesOn)
            /\ \A s \in Sockets : WF_vars(Resume(s)) /\ WF_vars(Serve(s))

-----------------------------------------------------------------------------
(* Properties *)

(* Only a phone the user accepted, in this run or an earlier one, is ever  *)
(* live, and only such a phone is trusted.                                 *)
OnlyAcceptedPhonesAreLive ==
    \A id \in Ids : Active(id) \/ id \in store => id \in granted

(* No zombie session: a live session is trusted by the store, unless the   *)
(* command that accepts or revokes it is still under way or its trust      *)
(* expired.  A resume that raced phone_forget never survives it.           *)
LiveSessionsAreTrusted ==
    \A id \in Ids : Active(id) => \/ id \in store \union lapsed
                                  \/ cmd.id = id /\ cmd.at \in {"upsert", "remove"}

(* What phone_forget revoked stays out for good, whatever resume was under *)
(* way when it was called.                                                 *)
ForgottenStaysOut ==
    \A id \in forgotten : id \notin store /\ reg[id].state = "none"

(* Trust decides who is live, and its end is final (session.rs:480).       *)
RevocationHolds == LiveSessionsAreTrusted /\ ForgottenStaysOut

(* An attached channel belongs to a task that is still running, serves     *)
(* this session and will detach it: its epoch is the session's.  Waiting   *)
(* and live sessions are always attached.                                  *)
AttachedTaskWillDetach ==
    \A id \in Ids : LET r == reg[id] IN
        /\ r.tx # NoSocket => /\ sock[r.tx].at \in {"hook", "ack", "loop", "closing"}
                              /\ sock[r.tx].id = id
                              /\ sock[r.tx].epoch = r.epoch
        /\ r.state \in {"pending", "accepted"} => r.tx # NoSocket

(* Once accepted, a session is not asked again: drops and grace periods    *)
(* lead back to it or to its end, never to a second confirmation.          *)
AcceptanceIsKept ==
    [][\A id \in Ids : Active(id) => \/ Active(id)'
                                     \/ reg'[id].state \in {"expired", "none"}]_vars

(* A dead link is always released: no session stays busy on it.            *)
DeadLinkIsReleased ==
    \A s \in Sockets : (sock[s].at = "loop" /\ sock[s].dead) ~> sock[s].at = "off"

(* session.rs 172: "a stale ws task must not clear state written by its    *)
(* replacement": a channel is taken from a session that lives on only by   *)
(* the end of its own task.                                                *)
OnlyTheOwnerDetaches ==
    [][\A id \in Ids :
          reg[id].tx # NoSocket /\ reg'[id].tx = NoSocket
            /\ reg'[id].state \in {"created", "reconnecting", "disconnected"}
          => sock'[reg[id].tx].at = "off"]_vars

(* lib.rs 2549: "when a trusted phone auto-resumes, re-add its mixer-graph *)
(* input": disconnecting the previous session does not take the input of a *)
(* phone that has resumed meanwhile.                                       *)
ResumedPhoneKeepsItsInput ==
    [][\A id \in graph \ graph' : cmd.at = "dropInput" => ~Active(id)]_vars

=============================================================================
