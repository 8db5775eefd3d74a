------------------------------ MODULE PhoneLink ------------------------------
(***************************************************************************)
(* A phone and the desktop it is paired with: the page of PhoneClient and  *)
(* the sessions of PhoneSession, with the web sockets between them.        *)
(*                                                                         *)
(* Either side may notice the end of a socket long before the other, so    *)
(* the desktop may still serve the socket the phone lost when the phone    *)
(* says hello on a new one.  Messages on one socket stay in order, and     *)
(* are lost with it.  The phone's page takes no microphone here.           *)
(***************************************************************************)
EXTENDS Naturals, Sequences

CONSTANTS Phone,     \* the session the phone was paired with
          Others,    \* sessions of other phones
          Sockets, NoSocket, NoPairing, MaxStrikes, MaxEpoch,
          MaxTroubles, \* bound: links broken, pages reloaded, sessions ended
          MaxLoads     \* bound: pages loaded again

ASSUME LinkAssumption == /\ Phone \notin Others /\ NoSocket \notin Sockets /\ NoPairing # Phone
                         /\ {MaxStrikes, MaxEpoch} \subseteq Nat \ {0}
                         /\ {MaxTroubles, MaxLoads} \subseteq Nat

VARIABLES saved, page, link, media, mics, begin, swap, past,  \* of PhoneClient
          reg, sock, issued, store, revokeEpoch, graph, cmd,  \* of PhoneSession
          granted, forgotten, lapsed,
          on,      \* the phone's socket at the desktop, or NoSocket
          hellos,  \* sockets whose hello is under way
          resumed, \* sockets that need no confirmation
          down,    \* messages for the phone, by socket
          troubles \* how many there were

P == INSTANCE PhoneClient WITH Pairings <- {Phone}, MaxMics <- 0, OtherTab <- FALSE
D == INSTANCE PhoneSession WITH Ids <- {Phone} \union Others

phoneVars == <<saved, page, link, media, mics, begin, swap, past>>
deskVars  == <<reg, sock, issued, store, revokeEpoch, graph, cmd, granted, forgotten, lapsed>>
wireVars  == <<on, hellos, resumed, down, troubles>>
linkVars  == <<phoneVars, deskVars, wireVars>>

LinkTypeOK == /\ on \in Sockets \union {NoSocket}
              /\ (hellos \union resumed) \subseteq Sockets
              /\ \A s \in Sockets : \A k \in DOMAIN down[s] : down[s][k] \in P!Messages
              /\ troubles \in 0..MaxTroubles
              /\ link.ws = "open" <=> on # NoSocket

(* The phone has just scanned the QR code of a new session, or it is       *)
(* trusted since an earlier run of the desktop.                            *)
LinkInit == /\ P!ClientInit
            /\ \E s \in SUBSET Others : store \in {s, s \union {Phone}}
            /\ reg = [id \in {Phone} \union Others |->
                        IF id = Phone /\ Phone \notin store
                        THEN [D!Absent EXCEPT !.state = "created"] ELSE D!Absent]
            /\ issued = store \union {Phone} /\ granted = store
            /\ sock = [s \in Sockets |-> D!Off]
            /\ revokeEpoch = 0 /\ graph = {} /\ cmd = D!Idle /\ forgotten = {} /\ lapsed = {}
            /\ saved = IF Phone \in store THEN Phone ELSE NoPairing
            /\ page.creds = Phone
            /\ on = NoSocket /\ hellos = {} /\ resumed = {} /\ troubles = 0
            /\ down = [s \in Sockets |-> <<>>]

-----------------------------------------------------------------------------
(* The phone *)

Opens(s) == /\ sock[s].at = "off" /\ s \notin hellos
            /\ P!Open
            /\ on' = s
            /\ hellos' = hellos \union {s}
            /\ UNCHANGED <<deskVars, resumed, down, troubles>>

Reconnects == P!Reconnect /\ UNCHANGED <<deskVars, wireVars>>

(* The desktop's task is gone, or the link is. *)
Over == \/ sock[on].at = "off" /\ on \notin hellos /\ down[on] = <<>>
        \/ sock[on].dead

Trouble == troubles < MaxTroubles /\ troubles' = troubles + 1

(* What was on the way is lost.  Definitions ending in _Bug are mutants. *)
Leaves_Bug == UNCHANGED <<on, down, deskVars, hellos, resumed>>  \* the old socket stays
Leaves == /\ on' = NoSocket
          /\ down' = [s \in Sockets |-> IF s = on THEN <<>> ELSE down[s]]
          /\ UNCHANGED <<deskVars, hellos, resumed>>
SeesEnd  == on # NoSocket /\ Over /\ P!Lost /\ Leaves /\ UNCHANGED troubles
Loses    == on # NoSocket /\ P!Lost /\ Leaves /\ Trouble
NoAnswer == on = NoSocket /\ P!Lost /\ UNCHANGED <<deskVars, wireVars>>
Reloads  == /\ Trouble
            /\ \E hash \in {Phone, NoPairing} : P!Load(hash)
            /\ Leaves

Receives == /\ on # NoSocket /\ down[on] # <<>>
            /\ sock[on].at \in {"off", "loop", "closing"} /\ ~sock[on].dead
            /\ P!Receive(Head(down[on]))
            /\ down' = [down EXCEPT ![on] = Tail(@)]
            /\ on' = IF link'.ws = "open" THEN on ELSE NoSocket
            /\ UNCHANGED <<deskVars, hellos, resumed, troubles>>

-----------------------------------------------------------------------------
(* The desktop, with what it sends *)

Queued(to, ms) == [s \in Sockets |-> IF s = to /\ s = on THEN down[s] \o ms ELSE down[s]]
Say(s, m)      == down' = Queued(s, <<m>>)

Hello(s) ==
    /\ s \in hellos
    /\ hellos' = hellos \ {s}
    /\ \/ D!HelloBusy(s, Phone) /\ Say(s, "fatal") /\ UNCHANGED resumed
       \/ D!HelloUnknown(s, Phone) /\ UNCHANGED <<down, resumed>>
       \/ /\ D!HelloAttach(s, Phone)
          /\ resumed' = IF reg'[Phone].state = "accepted" THEN resumed \union {s} ELSE resumed
          /\ UNCHANGED down
    /\ UNCHANGED <<phoneVars, on, troubles>>

(* The hello of a socket the phone lost may be lost with it. *)
HelloVanishes(s) == /\ s \in hellos /\ on # s
                    /\ hellos' = hellos \ {s}
                    /\ UNCHANGED <<phoneVars, deskVars, on, resumed, down, troubles>>

Refused_Bug(s) == <<>>                      \* closes without a word
Refused(s) == IF sock'[s].at = "off" THEN <<"unknown">> ELSE <<>>
Trusted(s) == /\ D!ReadEpoch(s) \/ D!Verify(s) \/ D!Rehydrate(s) \/ D!Refuse(s) \/ D!ResumeHook(s)
              /\ down' = Queued(s, Refused(s))
              /\ resumed' = IF sock'[s].at = "hook" THEN resumed \union {s} ELSE resumed
              /\ UNCHANGED <<phoneVars, on, hellos, troubles>>

(* hello-ack comes before what was queued meanwhile. *)
Ack_Bug(s) == <<"ackGo", "accepted">>       \* nobody is asked
Ack(s) == IF s \in resumed THEN <<"ackGo", "accepted">> ELSE <<"ackWait">>
Acked_Bug(s) == down[s] \o Ack(s)           \* only then
Acked(s) == Ack(s) \o down[s]
Acks(s) == /\ D!AckSent(s)
           /\ down' = IF s = on THEN [down EXCEPT ![s] = Acked(s)] ELSE down
           /\ resumed' = resumed \ {s}
           /\ UNCHANGED <<phoneVars, on, hellos, troubles>>

(* Whatever the channel still held is not sent once the loop has ended     *)
(* without having had to send it.                                          *)
Serves(s) == /\ D!AckFailed(s) \/ D!Leave(s) \/ D!Close(s)
             /\ resumed' = resumed \ {s}
             /\ UNCHANGED <<phoneVars, on, hellos, down, troubles>>

(* The network tells the desktop of the end; a phone that is gone is found *)
(* out by the keepalive.                                                   *)
DesktopSeesEnd(s) == /\ on # s
                     /\ D!PhoneLeaves(s) \/ D!LinkDies(s)
                     /\ UNCHANGED <<phoneVars, wireVars>>
LinkBreaks(s) == /\ on = s /\ Trouble
                 /\ D!LinkDies(s)
                 /\ UNCHANGED <<phoneVars, on, hellos, resumed, down>>

(* The sweep that counts is the one before the hello. *)
GracePasses == D!Age(Phone) /\ UNCHANGED <<phoneVars, wireVars>>

(* Commands.  remove says bye with a reason that tells a kick, which       *)
(* phone_forget is, from a disconnect.                                     *)
Accepts == /\ reg[Phone].state = "pending"
           /\ D!Accept(Phone)
           /\ Say(reg[Phone].tx, "accepted")
           /\ UNCHANGED <<phoneVars, on, hellos, resumed, troubles>>
Rejects == /\ reg[Phone].state = "pending" /\ Trouble
           /\ D!Reject(Phone)
           /\ Say(reg[Phone].tx, "rejected")
           /\ UNCHANGED <<phoneVars, on, hellos, resumed>>
Forgets(id) == D!Forget(id) /\ Trouble /\ UNCHANGED <<phoneVars, on, hellos, resumed, down>>
Disconnects == D!Disconnect(Phone) /\ Trouble /\ UNCHANGED <<phoneVars, on, hellos, resumed, down>>
Removes == /\ D!RemoveSession
           /\ Say(reg[cmd.id].tx, IF cmd.revoke THEN "removed" ELSE "fatal")
           /\ UNCHANGED <<phoneVars, on, hellos, resumed, troubles>>
Finishes == D!AcceptUpsert \/ D!AcceptAddInput \/ D!DropInput

CommandGoesOn == Removes \/ (Finishes /\ UNCHANGED <<phoneVars, wireVars>>)

-----------------------------------------------------------------------------
PhoneNext == \/ \E s \in Sockets : Opens(s)
             \/ Reconnects \/ SeesEnd \/ Loses \/ NoAnswer \/ Reloads \/ Receives
DesktopNext == \/ \E s \in Sockets : Hello(s) \/ HelloVanishes(s) \/ Trusted(s) \/ Acks(s) \/ Serves(s)
                                       \/ DesktopSeesEnd(s) \/ LinkBreaks(s)
               \/ GracePasses
               \/ Accepts \/ Rejects \/ Disconnects
               \/ \E id \in {Phone} \union Others : Forgets(id)
               \/ CommandGoesOn
LinkNext == PhoneNext \/ DesktopNext

(* Both programs run on, sockets open at last, and who is left on a broken *)
(* one finds out.                                                          *)
PhoneWork   == SeesEnd \/ Receives
DesktopWork == \E s \in Sockets : Hello(s) \/ Trusted(s) \/ Acks(s) \/ Serves(s) \/ DesktopSeesEnd(s)
LinkFairness == /\ WF_linkVars(Reconnects) /\ SF_linkVars(\E s \in Sockets : Opens(s))
                /\ WF_linkVars(PhoneWork) /\ WF_linkVars(DesktopWork)

LinkSpec == LinkInit /\ [][LinkNext]_linkVars /\ LinkFairness

-----------------------------------------------------------------------------
(* Properties *)

(* Only a pairing the user accepted on the desktop is ever stored on the   *)
(* phone (main-phone.ts:171), and the phone offers its microphone to no    *)
(* desktop that did not.                                                   *)
AcceptedOnBothSides == /\ saved = Phone => Phone \in granted
                       /\ page.state = "negotiating" => Phone \in granted

(* While nothing is under way on the phone's socket, the two sides are in  *)
(* the same place: neither waits for the other's answer.                   *)
Settled == on # NoSocket /\ sock[on].at = "loop" /\ ~sock[on].dead /\ ~sock[on].ended /\ down[on] = <<>>
SidesAgree == Settled /\ reg[Phone].tx = on =>
                  /\ page.state = "waiting-accept" <=> reg[Phone].state = "pending"
                  /\ page.state = "negotiating" <=> reg[Phone].state = "accepted"

(* A phone that says hello gets an answer: its page waits for the user or  *)
(* for a microphone, or says why it ended.                                 *)
HelloIsAnswered == page.state \in {"reconnecting", "hello-sent"} ~>
                       page.state \in {"waiting-accept", "negotiating", "ended"}

(* user-guide.md:73 "Brief WiFi/sleep hiccup: it auto-recovers within the  *)
(* grace window": a phone whose session lives is not turned away, unless   *)
(* the user does something on the desktop.                                 *)
HiccupRecovers ==
    [][D!Active(Phone) /\ cmd.at = "idle" /\ page.state = "hello-sent" /\ page'.state = "ended"
         => page'.loads # page.loads]_linkVars

(* main-phone.ts:209 "Saved session gone/invalid - clear creds": not those *)
(* the desktop trusts.                                                     *)
TrustedCredsAreKept ==
    [][saved = Phone /\ saved' = NoPairing => Phone \notin store]_linkVars
=============================================================================
