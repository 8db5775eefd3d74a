----------------------------- MODULE PhoneClient -----------------------------
(***************************************************************************)
(* The page a phone opens: src/phone/main-phone.ts with the state machine, *)
(* the signaling socket and the microphone of src/phone/core.  A page      *)
(* keeps the pairing it was accepted with in local storage, reconnects     *)
(* after every loss of its socket, and opens and exchanges microphones in  *)
(* steps between which anything else may happen.                           *)
(*                                                                         *)
(* The desktop may send anything; PhoneLink puts PhoneSession in its       *)
(* place.  Capture options, levels, the low-data switch, the name of the   *)
(* device and the remote volume panel are not modelled.                    *)
(***************************************************************************)
EXTENDS Naturals

CONSTANTS Pairings,   \* pairings that QR codes carry
          NoPairing,
          MaxMics,    \* bound: microphones opened
          MaxLoads,   \* bound: times the page is loaded again
          OtherTab    \* whether another tab may write local storage

ASSUME ClientAssumption == /\ NoPairing \notin Pairings
                           /\ {MaxMics, MaxLoads} \subseteq Nat
                           /\ OtherTab \in BOOLEAN

VARIABLES saved, \* the pairing in local storage
          page,  \* its pairing, whether that one is saved, the machine's state
          link,  \* the signaling client
          media, \* what the page holds of its capture
          mics,  \* microphones open, and those whose track is enabled
          begin, \* beginCapture in progress
          swap,  \* applyCapture in progress
          past   \* history

clientVars == <<saved, page, link, media, mics, begin, swap, past>>

States == {"connecting", "hello-sent", "waiting-accept", "negotiating", "live", "reconnecting", "ended"}

(* Microphones and transports have numbers, 0 stands for none.  track: the *)
(* microphone the transport sends; offer: what became of its offer.        *)
NoMedia == [mic |-> 0, transport |-> 0, track |-> 0, offer |-> "none", awake |-> FALSE, muted |-> FALSE]
NoSwap  == [at |-> "off", next |-> 0, to |-> 0]

ClientTypeOK ==
    LET Number == 0..MaxMics IN
    /\ saved \in Pairings \union {NoPairing}
    /\ page \in [creds : Pairings \union {NoPairing}, persisted : BOOLEAN, state : States, loads : 0..MaxLoads]
    /\ link \in [ws : {"none", "opening", "open"}, timer : BOOLEAN, closed : BOOLEAN]
    /\ media \in [mic : Number, transport : Number, track : Number,
                  offer : {"none", "sent", "lost", "answered"}, awake : BOOLEAN, muted : BOOLEAN]
    /\ mics.enabled \subseteq mics.open /\ mics.open \subseteq 1..mics.count /\ mics.count \in Number
    /\ begin \in {"off", "mic", "awake", "offer"}
    /\ swap \in [at : {"off", "mic", "replace"}, next : Number, to : Number]

(* gesture: the user has tapped Start since the link was lost last.  late: *)
(* an exchange of microphones ended after its transport was closed.        *)
NoPast == [gesture |-> FALSE, late |-> FALSE]

-----------------------------------------------------------------------------
(* The machine: from where an event leads where; it is ignored elsewhere.  *)

NotEnded == States \ {"ended"}
Arrow == [open     |-> [from |-> {"connecting", "reconnecting"}, to |-> "hello-sent"],
          ackWait  |-> [from |-> {"hello-sent"}, to |-> "waiting-accept"],
          ackGo    |-> [from |-> {"hello-sent"}, to |-> "negotiating"],
          accepted |-> [from |-> {"waiting-accept"}, to |-> "negotiating"],
          ice      |-> [from |-> {"negotiating"}, to |-> "live"],
          lost     |-> [from |-> NotEnded, to |-> "reconnecting"],
          over     |-> [from |-> NotEnded, to |-> "ended"]]

Dispatched(event) == IF page.state \in Arrow[event].from THEN Arrow[event].to ELSE page.state
Dispatch(event)   == page' = [page EXCEPT !.state = Dispatched(event)]

(* A page as it is loaded: a QR code's pairing comes before the saved one, *)
(* and without any the page has ended.  Definitions ending in _Bug are     *)
(* mutants.                                                                *)
Persisted_Bug(hash, kept) == kept # NoPairing   \* there is a saved one
Persisted(hash, kept) == hash = NoPairing /\ kept # NoPairing
Loaded(hash, kept, loads) ==
    LET creds == IF hash = NoPairing THEN kept ELSE hash IN
    [creds |-> creds, persisted |-> Persisted(hash, kept), loads |-> loads,
     state |-> IF creds = NoPairing THEN "ended" ELSE "connecting"]
LinkOf(p) == [ws |-> IF p.state = "ended" THEN "none" ELSE "opening",
              timer |-> FALSE, closed |-> p.state = "ended"]

ClientInit ==
    /\ saved \in Pairings \union {NoPairing}
    /\ \E hash \in Pairings \union {NoPairing} : page = Loaded(hash, saved, 0)
    /\ link = LinkOf(page)
    /\ media = NoMedia /\ mics = [count |-> 0, open |-> {}, enabled |-> {}]
    /\ begin = "off" /\ swap = NoSwap /\ past = NoPast

(* The browser drops all a page held. *)
Load(hash) ==
    /\ page.loads < MaxLoads
    /\ page' = Loaded(hash, saved, page.loads + 1)
    /\ link' = LinkOf(page')
    /\ media' = NoMedia /\ mics' = [mics EXCEPT !.open = {}, !.enabled = {}]
    /\ begin' = "off" /\ swap' = NoSwap /\ past' = NoPast
    /\ UNCHANGED saved

-----------------------------------------------------------------------------
(* Microphones *)

LetGo(m) == [mics EXCEPT !.open = @ \ {m}, !.enabled = @ \ {m}]
With(m)    == [count |-> m, open |-> mics.open \union {m},
               enabled |-> IF media.muted THEN mics.enabled ELSE mics.enabled \union {m}]
NextMic    == mics.count + 1

Teardown == media' = NoMedia /\ mics' = LetGo(media.mic)

-----------------------------------------------------------------------------
(* The signaling socket *)

Open == /\ link.ws = "opening"
        /\ link' = [link EXCEPT !.ws = "open"]
        /\ Dispatch("open")
        /\ UNCHANGED <<saved, media, mics, begin, swap, past>>

(* onclose, of an attempt that failed or of a link that broke *)
Closed_Bug == [link EXCEPT !.timer = TRUE]  \* still holds the old socket
Closed     == [link EXCEPT !.ws = "none", !.timer = TRUE]
Lost == /\ link.ws # "none"
        /\ link' = Closed
        /\ Dispatch("lost")
        /\ Teardown
        /\ past' = [past EXCEPT !.gesture = FALSE]
        /\ UNCHANGED <<saved, begin, swap>>

(* connect does nothing while there is a socket. *)
Reconnect == /\ link.timer
             /\ link' = [link EXCEPT !.ws = IF @ = "none" THEN "opening" ELSE @, !.timer = FALSE]
             /\ UNCHANGED <<saved, page, media, mics, begin, swap, past>>

(* fail and stopStreaming *)
End == /\ Dispatch("over")
       /\ Teardown
       /\ link' = [ws |-> "none", timer |-> FALSE, closed |-> TRUE]
       /\ UNCHANGED <<begin, swap, past>>

-----------------------------------------------------------------------------
(* Messages of the desktop.  unknown: unknown-session or bad-token;        *)
(* fatal: an error with another fatal code, or a bye that revokes nothing. *)

Revoking == {"rejected", "unknown", "removed"}
Messages == {"ackWait", "ackGo", "accepted", "answer", "fatal"} \union Revoking

Receive(m) ==
    /\ link.ws = "open"
    /\ CASE m \in {"ackWait", "ackGo"} ->
              Dispatch(m) /\ UNCHANGED <<saved, link, media, mics, begin, swap, past>>
         [] m = "accepted" ->
              /\ saved' = page.creds
              /\ page' = [page EXCEPT !.persisted = TRUE, !.state = Dispatched("accepted")]
              /\ UNCHANGED <<link, media, mics, begin, swap, past>>
         [] m = "answer" ->
              /\ media' = [media EXCEPT !.offer = IF @ = "sent" THEN "answered" ELSE @]
              /\ UNCHANGED <<saved, page, link, mics, begin, swap, past>>
         [] OTHER ->
              /\ saved' = IF m \in Revoking /\ page.persisted THEN NoPairing ELSE saved
              /\ End

IceConnects == /\ media.offer = "answered"
               /\ Dispatch("ice")
               /\ UNCHANGED <<saved, link, media, mics, begin, swap, past>>

-----------------------------------------------------------------------------
(* beginCapture, from a tap on Start.  Whatever throws ends in teardown.   *)

Showing == page.state \in {"negotiating", "live"} /\ media.mic # 0  \* Mute, Stop and the options

BeginCapture == /\ page.state = "negotiating" /\ media.mic = 0 /\ begin = "off"
                /\ begin' = "mic"
                /\ past' = [past EXCEPT !.gesture = TRUE]
                /\ UNCHANGED <<saved, page, link, media, mics, swap>>

BeginFails == /\ begin # "off"
              /\ begin' = "off"
              /\ Teardown
              /\ UNCHANGED <<saved, page, link, swap, past>>

MicGranted == /\ begin = "mic" /\ mics.count < MaxMics
              /\ begin' = "awake"
              /\ media' = [media EXCEPT !.mic = NextMic]
              /\ mics' = With(NextMic)
              /\ UNCHANGED <<saved, page, link, swap, past>>

(* Without a microphone the constructor of the transport throws. *)
KeptAwake == /\ begin = "awake" /\ media.mic # 0
             /\ begin' = "offer"
             /\ media' = [media EXCEPT !.awake = TRUE, !.transport = mics.count, !.track = media.mic]
             /\ UNCHANGED <<saved, page, link, mics, swap, past>>

(* The offer of a transport that was closed meanwhile fails, or never      *)
(* settles.  send drops it when the socket is not open.                    *)
OfferMade == /\ begin = "offer" /\ media.transport # 0
             /\ begin' = "off"
             /\ media' = [media EXCEPT !.offer = IF link.ws = "open" THEN "sent" ELSE "lost"]
             /\ UNCHANGED <<saved, page, link, mics, swap, past>>

-----------------------------------------------------------------------------
(* applyCapture: another microphone into the transport that is there *)

ApplyCapture == /\ swap.at = "off" /\ media.transport # 0
                /\ Showing \/ begin = "off"  \* the user, or a device that is gone
                /\ swap' = [swap EXCEPT !.at = "mic"]
                /\ UNCHANGED <<saved, page, link, media, mics, begin, past>>

(* Opened, and stopped again if there is no transport any more. *)
SwapGranted == /\ swap.at = "mic" /\ mics.count < MaxMics
               /\ IF media.transport = 0
                  THEN swap' = NoSwap /\ mics' = [mics EXCEPT !.count = @ + 1]
                  ELSE swap' = [at |-> "replace", next |-> NextMic, to |-> media.transport] /\ mics' = With(NextMic)
               /\ UNCHANGED <<saved, page, link, media, begin, past>>

SwapFails_Bug == /\ swap.at # "off"         \* forgets the new microphone
                 /\ swap' = NoSwap
                 /\ UNCHANGED <<saved, page, link, media, mics, begin, past>>
SwapFails == /\ swap.at # "off"
             /\ swap' = NoSwap
             /\ mics' = LetGo(swap.next)
             /\ UNCHANGED <<saved, page, link, media, begin, past>>

(* The old microphone is stopped.  That the transport was closed meanwhile *)
(* need not keep replaceTrack from succeeding: its last step swallows      *)
(* errors.                                                                 *)
Stopped_Bug == LetGo(swap.next)           \* after mic was assigned
Stopped     == LetGo(media.mic)
SwapCommits == /\ swap.at = "replace"
               /\ swap' = NoSwap
               /\ mics' = Stopped
               /\ media' = [media EXCEPT !.mic = swap.next,
                                         !.track = IF media.transport = swap.to THEN swap.next ELSE @]
               /\ past' = [past EXCEPT !.late = @ \/ media.transport # swap.to]
               /\ UNCHANGED <<saved, page, link, begin>>

ToggleMute == /\ Showing
              /\ media' = [media EXCEPT !.muted = ~@]
              /\ mics' = [mics EXCEPT !.enabled = IF media.muted THEN @ \union ({media.mic} \intersect mics.open)
                                                                 ELSE @ \ {media.mic}]
              /\ UNCHANGED <<saved, page, link, begin, swap, past>>

StopStreaming == Showing /\ End /\ UNCHANGED saved

(* Another page of this origin is accepted with a pairing of its own. *)
OtherTabAccepted(p) == /\ OtherTab
                       /\ saved' = p
                       /\ UNCHANGED <<page, link, media, mics, begin, swap, past>>

-----------------------------------------------------------------------------
SocketStep == Open \/ Lost \/ Reconnect
MediaStep == \/ BeginCapture \/ BeginFails \/ MicGranted \/ KeptAwake \/ OfferMade
               \/ ApplyCapture \/ SwapGranted \/ SwapFails \/ SwapCommits
               \/ ToggleMute \/ StopStreaming

ClientNext == \/ \E hash \in Pairings \union {NoPairing} : Load(hash)
              \/ SocketStep
              \/ \E m \in Messages : Receive(m)
              \/ IceConnects
              \/ MediaStep
              \/ \E p \in Pairings : OtherTabAccepted(p)

ClientSpec == ClientInit /\ [][ClientNext]_clientVars

-----------------------------------------------------------------------------
(* Properties *)

(* The page that says live is heard: its microphone is open and is what a  *)
(* transport that was answered sends (main-phone.ts:265), whatever was     *)
(* lost, torn down, begun or exchanged on the way.                         *)
LiveIsHeard == page.state = "live" /\ ~past.late =>
                   /\ media.offer = "answered" /\ media.transport # 0
                   /\ media.mic \in mics.open /\ media.track = media.mic

(* Whatever was interrupted, a microphone that is on is one the page can   *)
(* stop, now or when the exchange is over (main-phone.ts:352).             *)
OpenMicsAreHeld == ~past.late => mics.open \subseteq {media.mic, swap.next}

(* Machine and socket agree: the page never waits for a socket that nobody *)
(* opens, nor keeps one after the end (signaling.ts:53).                   *)
LinkFollowsMachine ==
    CASE page.state = "ended"        -> link = [ws |-> "none", timer |-> FALSE, closed |-> TRUE]
      [] page.state = "connecting"   -> link.ws = "opening"
      [] page.state = "reconnecting" -> link.timer # (link.ws = "opening")
      [] OTHER                       -> link.ws = "open" /\ ~link.timer

(* main-phone.ts:185 "Saved creds are dead - clear them", 210 "A fresh-QR  *)
(* failure must not wipe another desktop's trust": what is cleared is the  *)
(* pairing that was refused.                                               *)
OnlyRefusedCredsGo == [][saved # NoPairing /\ saved' = NoPairing => saved = page.creds]_clientVars

(* main-phone.ts:241 "restart on reconnect needs a fresh gesture": after a *)
(* loss no microphone is on before the user taps Start again.              *)
MicNeedsAGesture == media.mic # 0 => past.gesture

(* main-phone.ts:352 "release the orphaned mic if the hot-swap never       *)
(* committed": also when its transport is gone.                            *)
OrphansAreReleased == mics.open \subseteq {media.mic, swap.next}

(* session.rs:211 "Phone has muted itself": a phone that shows and reports *)
(* so sends nothing.                                                       *)
MutedIsSilent == media.muted => media.track \notin mics.enabled
=============================================================================
