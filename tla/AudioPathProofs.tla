--------------------------- MODULE AudioPathProofs ---------------------------
(***************************************************************************)
(* Theorems about the parts of the audio path, for any constants: the      *)
(* phone's page, the shared captures, the life of an engine, the effects   *)
(* of a callback, the ring of an input and the packets of a phone.  Each   *)
(* part has an inductive invariant of its own; the theorems at the end are *)
(* about the composition of MCAudioPath.                                   *)
(***************************************************************************)
EXTENDS MCAudioPath, FiniteSetTheorems, WellFoundedInduction, TLAPS

-----------------------------------------------------------------------------
(* The page.  The types of its variables, as records *)

Number == 0..MaxMics

PageTypes ==
    /\ saved \in Pairings \union {NoPairing}
    /\ page \in [creds : Pairings \union {NoPairing}, persisted : BOOLEAN, state : States,
                 loads : 0..MaxLoads]
    /\ link \in [ws : {"none", "opening", "open"}, timer : BOOLEAN, closed : BOOLEAN]
    /\ media \in [mic : Number, transport : Number, track : Number,
                  offer : {"none", "sent", "lost", "answered"}, awake : BOOLEAN, muted : BOOLEAN]
    /\ mics \in [count : Number, open : SUBSET Number, enabled : SUBSET Number]
    /\ mics.enabled \subseteq mics.open /\ mics.open \subseteq 1..mics.count
    /\ begin \in {"off", "mic", "awake", "offer"}
    /\ swap \in [at : {"off", "mic", "replace"}, next : Number, to : Number]
    /\ past \in [gesture : BOOLEAN, late : BOOLEAN]

(* The machine and the socket: a timer only runs without a socket, and     *)
(* only an ended page has closed its link or knows no pairing.             *)
Served == {"hello-sent", "waiting-accept", "negotiating", "live"}
LinkInv ==
    /\ page.state = "ended" => link = [ws |-> "none", timer |-> FALSE, closed |-> TRUE]
    /\ page.state = "connecting" => link.ws = "opening"
    /\ page.state = "reconnecting" => \/ link.timer /\ link.ws # "opening"
                                      \/ ~link.timer /\ link.ws = "opening"
    /\ page.state \in Served => link.ws = "open" /\ ~link.timer
    /\ link.timer => link.ws = "none"
    /\ page.state = "connecting" => ~link.timer
    /\ page.creds = NoPairing => page.state = "ended"

(* What is under way for a capture: a transport sends the microphone that  *)
(* is held, and a begin or an exchange has what it still needs.            *)
MediaInv ==
    /\ media.mic # 0 => media.mic \in mics.open
    /\ mics.open \subseteq {media.mic, swap.next}
    /\ media.transport # 0 => media.mic # 0 /\ media.track = media.mic
    /\ media.offer # "none" => media.transport # 0 /\ begin = "off"
    /\ page.state = "live" => media.offer = "answered"
    /\ begin = "mic" => media.mic = 0
    /\ begin \in {"mic", "awake"} => media.transport = 0
    /\ begin = "awake" => swap.to < mics.count

(* Transports and exchanges are numbered as the microphones are opened.    *)
NumbersInv ==
    /\ media.transport <= mics.count /\ media.mic <= mics.count
    /\ swap.to <= mics.count /\ swap.next <= mics.count
    /\ swap.at = "replace" => swap.to # 0 /\ swap.next # 0
    /\ swap.at # "replace" => swap.to = 0 /\ swap.next = 0

SwapInv == swap.at = "replace" => swap.next \in mics.open /\ swap.next # media.mic

(* A saved pairing the page believes to be its own is.                     *)
SavedInv == ~OtherTab /\ page.persisted => saved \in {page.creds, NoPairing}

PageInv == /\ PageTypes /\ LinkInv /\ NumbersInv /\ SavedInv
           /\ ~past.late => MediaInv /\ SwapInv

(* What a step leaves alone.                                               *)
LEMMA LinkKept ==
    ASSUME PageInv, UNCHANGED <<saved, page, link>> PROVE LinkInv' /\ SavedInv'
  BY DEF PageInv, LinkInv, Served, SavedInv

LEMMA MediaKept ==
    ASSUME PageInv, UNCHANGED <<media, mics, begin, swap>>, past'.late = past.late,
           page'.state = "live" => page.state = "live" \/ media.offer = "answered"
    PROVE  NumbersInv' /\ (~past'.late => MediaInv' /\ SwapInv')
  BY DEF PageInv, NumbersInv, MediaInv, SwapInv

(* The link was lost or is over, or a begin failed.                        *)
LEMMA TeardownKeeps ==
    ASSUME PageInv, Teardown, UNCHANGED swap, begin' \in {begin, "off"},
           past'.late = past.late, ~past.late => page'.state # "live"
    PROVE  /\ media' \in [mic : Number, transport : Number, track : Number,
                          offer : {"none", "sent", "lost", "answered"},
                          awake : BOOLEAN, muted : BOOLEAN]
           /\ mics' \in [count : Number, open : SUBSET Number, enabled : SUBSET Number]
           /\ mics'.enabled \subseteq mics'.open /\ mics'.open \subseteq 1..mics'.count
           /\ NumbersInv' /\ (~past'.late => MediaInv' /\ SwapInv')
  <1>1. media' = NoMedia
    BY DEF Teardown
  <1>2. /\ mics' \in [count : Number, open : SUBSET Number, enabled : SUBSET Number]
        /\ mics'.count = mics.count
        /\ mics'.open = mics.open \ {media.mic} /\ mics'.enabled = mics.enabled \ {media.mic}
    BY DEF Teardown, LetGo, PageInv, PageTypes
  <1>3. media' \in [mic : Number, transport : Number, track : Number,
                    offer : {"none", "sent", "lost", "answered"},
                    awake : BOOLEAN, muted : BOOLEAN]
    BY <1>1, ClientAssumption DEF NoMedia, Number
  <1>4. mics'.enabled \subseteq mics'.open /\ mics'.open \subseteq 1..mics'.count
    BY <1>2 DEF PageInv, PageTypes
  <1>5. NumbersInv'
    BY <1>1, <1>2 DEF PageInv, PageTypes, NumbersInv, NoMedia, Number
  <1>6. ~past'.late => MediaInv' /\ SwapInv'
    BY <1>1, <1>2 DEF PageInv, PageTypes, MediaInv, SwapInv, NoMedia, Number, NumbersInv
  <1> QED BY <1>2, <1>3, <1>4, <1>5, <1>6

(* Where the machine goes.                                                 *)
LEMMA Arrows ==
    ASSUME page.state \in States
    PROVE  /\ \A event \in DOMAIN Arrow : Dispatched(event) \in States
           /\ Dispatched("open") = IF page.state \in {"connecting", "reconnecting"}
                                   THEN "hello-sent" ELSE page.state
           /\ Dispatched("ackWait") = IF page.state = "hello-sent" THEN "waiting-accept"
                                      ELSE page.state
           /\ Dispatched("ackGo") = IF page.state = "hello-sent" THEN "negotiating"
                                    ELSE page.state
           /\ Dispatched("accepted") = IF page.state = "waiting-accept" THEN "negotiating"
                                       ELSE page.state
           /\ Dispatched("ice") = IF page.state = "negotiating" THEN "live" ELSE page.state
           /\ Dispatched("lost") = IF page.state = "ended" THEN "ended" ELSE "reconnecting"
           /\ Dispatched("over") = "ended"
  BY DEF Dispatched, Arrow, NotEnded, States

(* A page as it is loaded.                                                 *)
LEMMA LoadedPage ==
    ASSUME NEW hash \in Pairings \union {NoPairing}, NEW kept \in Pairings \union {NoPairing},
           NEW loads \in 0..MaxLoads
    PROVE  LET p == Loaded(hash, kept, loads)
           IN  /\ p \in [creds : Pairings \union {NoPairing}, persisted : BOOLEAN,
                         state : States, loads : 0..MaxLoads]
               /\ p.state = IF p.creds = NoPairing THEN "ended" ELSE "connecting"
               /\ p.persisted => p.creds = kept
  <1> DEFINE p == Loaded(hash, kept, loads)
             creds == IF hash = NoPairing THEN kept ELSE hash
             state == IF creds = NoPairing THEN "ended" ELSE "connecting"
             on == Persisted(hash, kept)
  <1>1. p = [creds |-> creds, persisted |-> on, loads |-> loads, state |-> state]
    BY DEF Loaded
  <1>2. on \in BOOLEAN /\ (on => creds = kept)
    BY DEF Persisted
  <1>3. creds \in Pairings \union {NoPairing} /\ state \in States
    BY DEF States
  <1>4. state = IF creds = NoPairing THEN "ended" ELSE "connecting"
    OBVIOUS
  <1> HIDE DEF p, creds, state, on
  <1>5. p.creds = creds /\ p.persisted = on /\ p.state = state
    BY <1>1
  <1>6. p \in [creds : Pairings \union {NoPairing}, persisted : BOOLEAN, state : States,
               loads : 0..MaxLoads]
    BY <1>1, <1>2, <1>3
  <1> QED BY <1>2, <1>4, <1>5, <1>6 DEF p

LEMMA InitPage == ClientInit => PageInv
  <1> SUFFICES ASSUME ClientInit PROVE PageInv
    OBVIOUS
  <1>1. PICK hash \in Pairings \union {NoPairing} : page = Loaded(hash, saved, 0)
    BY DEF ClientInit
  <1>2. /\ saved \in Pairings \union {NoPairing} /\ link = LinkOf(page)
        /\ media = NoMedia /\ mics = [count |-> 0, open |-> {}, enabled |-> {}]
        /\ begin = "off" /\ swap = NoSwap /\ past = NoPast
    BY DEF ClientInit
  <1>3. /\ page \in [creds : Pairings \union {NoPairing}, persisted : BOOLEAN, state : States,
                     loads : 0..MaxLoads]
        /\ page.state = IF page.creds = NoPairing THEN "ended" ELSE "connecting"
        /\ page.persisted => page.creds = saved
    <2>1. 0 \in 0..MaxLoads
      BY ClientAssumption
    <2> QED BY <1>1, <1>2, <2>1, LoadedPage
  <1>4. PageTypes
    BY <1>2, <1>3, ClientAssumption DEF PageTypes, LinkOf, NoMedia, NoSwap, NoPast, Number
  <1>5. LinkInv
    BY <1>2, <1>3 DEF LinkInv, Served, LinkOf
  <1>6. SavedInv
    BY <1>3 DEF SavedInv
  <1>7. NumbersInv /\ MediaInv /\ SwapInv
    BY <1>2, <1>3 DEF NumbersInv, MediaInv, SwapInv, NoMedia, NoSwap
  <1> QED BY <1>4, <1>5, <1>6, <1>7 DEF PageInv

LEMMA LoadKeepsPage ==
    ASSUME PageInv, NEW hash \in Pairings \union {NoPairing}, Load(hash) PROVE PageInv'
  <1>1. /\ page.loads < MaxLoads /\ page' = Loaded(hash, saved, page.loads + 1)
        /\ link' = LinkOf(page')
        /\ media' = NoMedia /\ mics' = [mics EXCEPT !.open = {}, !.enabled = {}]
        /\ begin' = "off" /\ swap' = NoSwap /\ past' = NoPast /\ saved' = saved
    BY DEF Load
  <1>2. saved \in Pairings \union {NoPairing} /\ page.loads \in 0..MaxLoads
    BY DEF PageInv, PageTypes
  <1>3. /\ page' \in [creds : Pairings \union {NoPairing}, persisted : BOOLEAN, state : States,
                      loads : 0..MaxLoads]
        /\ page'.state = IF page'.creds = NoPairing THEN "ended" ELSE "connecting"
        /\ page'.persisted => page'.creds = saved
    BY <1>1, <1>2, ClientAssumption, LoadedPage
  <1>4. mics' = [count |-> mics.count, open |-> {}, enabled |-> {}] /\ mics.count \in Number
    BY <1>1 DEF PageInv, PageTypes
  <1>5. PageTypes'
    BY <1>1, <1>2, <1>3, <1>4, ClientAssumption
    DEF PageTypes, LinkOf, NoMedia, NoSwap, NoPast, Number
  <1>6. LinkInv'
    BY <1>1, <1>3 DEF LinkInv, Served, LinkOf
  <1>7. SavedInv'
    BY <1>1, <1>3 DEF SavedInv
  <1>8. NumbersInv' /\ MediaInv' /\ SwapInv'
    BY <1>1, <1>3, <1>4 DEF NumbersInv, MediaInv, SwapInv, NoMedia, NoSwap, Number
  <1> QED BY <1>5, <1>6, <1>7, <1>8 DEF PageInv

(* The steps of the socket, and the messages that end the page.            *)
LEMMA SocketKeepsPage == ASSUME PageInv, SocketStep PROVE PageInv'
  <1>t. PageTypes
    BY DEF PageInv
  <1>d. page.state \in States
    BY <1>t DEF PageTypes
  <1>1. CASE Open
    <2>1. /\ link.ws = "opening" /\ link' = [link EXCEPT !.ws = "open"]
          /\ page' = [page EXCEPT !.state = Dispatched("open")]
          /\ UNCHANGED <<saved, media, mics, begin, swap, past>>
      BY <1>1 DEF Open, Dispatch
    <2>2. /\ PageTypes' /\ page'.creds = page.creds /\ page'.persisted = page.persisted
          /\ page'.state = Dispatched("open")
          /\ link'.ws = "open" /\ link'.timer = link.timer /\ link'.closed = link.closed
      BY <1>t, <1>d, <2>1, Arrows DEF PageTypes, Arrow
    <2>3. page.state \in {"connecting", "reconnecting"} /\ ~link.timer
      BY <1>d, <2>1 DEF PageInv, LinkInv, Served, States
    <2>4. page'.state = "hello-sent"
      BY <1>d, <2>2, <2>3, Arrows
    <2>5. LinkInv' /\ SavedInv'
      BY <2>1, <2>2, <2>3, <2>4 DEF PageInv, LinkInv, Served, SavedInv
    <2>6. NumbersInv' /\ (~past'.late => MediaInv' /\ SwapInv')
      BY <2>1, <2>4, MediaKept
    <2> QED BY <2>2, <2>5, <2>6 DEF PageInv
  <1>2. CASE Lost
    <2>1. /\ link.ws # "none" /\ link' = [link EXCEPT !.ws = "none", !.timer = TRUE]
          /\ page' = [page EXCEPT !.state = Dispatched("lost")]
          /\ Teardown /\ past' = [past EXCEPT !.gesture = FALSE]
          /\ UNCHANGED <<saved, begin, swap>>
      BY <1>2 DEF Lost, Closed, Dispatch
    <2>2. /\ page' \in [creds : Pairings \union {NoPairing}, persisted : BOOLEAN,
                        state : States, loads : 0..MaxLoads]
          /\ page'.creds = page.creds /\ page'.persisted = page.persisted
          /\ page'.state = Dispatched("lost")
      BY <1>t, <1>d, <2>1, Arrows DEF PageTypes, Arrow
    <2>3. /\ link' \in [ws : {"none", "opening", "open"}, timer : BOOLEAN, closed : BOOLEAN]
          /\ link'.ws = "none" /\ link'.timer
      BY <1>t, <2>1 DEF PageTypes
    <2>4. /\ past' \in [gesture : BOOLEAN, late : BOOLEAN] /\ past'.late = past.late
      BY <1>t, <2>1 DEF PageTypes
    <2>5. page.state # "ended"
      BY <2>1 DEF PageInv, LinkInv, Served
    <2>6. page'.state = "reconnecting"
      BY <1>d, <2>2, <2>5, Arrows
    <2>7. LinkInv' /\ SavedInv'
      BY <2>1, <2>2, <2>3, <2>6 DEF PageInv, LinkInv, Served, SavedInv
    <2> QED BY <1>t, <2>1, <2>2, <2>3, <2>4, <2>6, <2>7, TeardownKeeps DEF PageInv, PageTypes
  <1>3. CASE Reconnect
    <2>1. /\ link.timer
          /\ link' = [link EXCEPT !.ws = IF @ = "none" THEN "opening" ELSE @, !.timer = FALSE]
          /\ UNCHANGED <<saved, page, media, mics, begin, swap, past>>
      BY <1>3 DEF Reconnect
    <2>2. link.ws = "none" /\ link.timer
      BY <2>1 DEF PageInv, LinkInv
    <2>3. /\ link' \in [ws : {"none", "opening", "open"}, timer : BOOLEAN, closed : BOOLEAN]
          /\ link'.ws = "opening" /\ ~link'.timer /\ link'.closed = link.closed
      BY <1>t, <2>1, <2>2 DEF PageTypes
    <2>4. page.state = "reconnecting"
      BY <1>d, <2>2 DEF PageInv, LinkInv, Served, States
    <2>5. LinkInv' /\ SavedInv'
      BY <2>1, <2>3, <2>4 DEF PageInv, LinkInv, Served, SavedInv
    <2>6. NumbersInv' /\ (~past'.late => MediaInv' /\ SwapInv')
      BY <2>1, MediaKept
    <2> QED BY <1>t, <2>1, <2>3, <2>5, <2>6 DEF PageInv, PageTypes
  <1> QED BY <1>1, <1>2, <1>3 DEF SocketStep

(* fail and stopStreaming; a revoking message also clears the pairing.     *)
LEMMA EndKeepsPage ==
    ASSUME PageInv, End, saved' \in {saved, NoPairing} PROVE PageInv'
  <1>t. PageTypes
    BY DEF PageInv
  <1>d. page.state \in States
    BY <1>t DEF PageTypes
  <1>1. /\ page' = [page EXCEPT !.state = Dispatched("over")] /\ Teardown
        /\ link' = [ws |-> "none", timer |-> FALSE, closed |-> TRUE]
        /\ UNCHANGED <<begin, swap, past>>
    BY DEF End, Dispatch
  <1>2. /\ page' \in [creds : Pairings \union {NoPairing}, persisted : BOOLEAN,
                      state : States, loads : 0..MaxLoads]
        /\ page'.creds = page.creds /\ page'.persisted = page.persisted
        /\ page'.state = "ended"
    BY <1>t, <1>d, <1>1, Arrows DEF PageTypes, States
  <1>3. LinkInv' /\ SavedInv'
    BY <1>1, <1>2 DEF PageInv, LinkInv, Served, SavedInv
  <1>4. saved' \in Pairings \union {NoPairing}
    BY <1>t DEF PageTypes
  <1> QED BY <1>t, <1>1, <1>2, <1>3, <1>4, TeardownKeeps DEF PageInv, PageTypes

LEMMA ReceiveKeepsPage == ASSUME PageInv, NEW m \in Messages, Receive(m) PROVE PageInv'
  <1>t. PageTypes
    BY DEF PageInv
  <1>d. page.state \in States
    BY <1>t DEF PageTypes
  <1>o. /\ link.ws = "open" /\ ~link.timer
        /\ page.state \in Served
    BY <1>d DEF Receive, PageInv, LinkInv, Served, States
  <1>1. CASE m \in {"ackWait", "ackGo"}
    <2>1. /\ page' = [page EXCEPT !.state = Dispatched(m)]
          /\ UNCHANGED <<saved, link, media, mics, begin, swap, past>>
      BY <1>1 DEF Receive, Dispatch
    <2>2. /\ PageTypes' /\ page'.creds = page.creds /\ page'.persisted = page.persisted
          /\ page'.state = Dispatched(m)
      BY <1>t, <1>d, <1>1, <2>1, Arrows DEF PageTypes, Arrow
    <2>3. /\ page'.state \in Served
          /\ page'.state = "live" => page.state = "live"
      BY <1>d, <1>o, <1>1, <2>2, Arrows DEF Served
    <2>4. LinkInv' /\ SavedInv'
      BY <1>o, <2>1, <2>2, <2>3 DEF PageInv, LinkInv, Served, SavedInv
    <2> QED BY <2>1, <2>2, <2>3, <2>4, MediaKept DEF PageInv
  <1>2. CASE m = "accepted"
    <2>1. /\ saved' = page.creds
          /\ page' = [page EXCEPT !.persisted = TRUE, !.state = Dispatched("accepted")]
          /\ UNCHANGED <<link, media, mics, begin, swap, past>>
      BY <1>2 DEF Receive
    <2>a. Dispatched("accepted") \in States
      BY <1>d, Arrows DEF Arrow
    <2>b. /\ page' \in [creds : Pairings \union {NoPairing}, persisted : BOOLEAN,
                        state : States, loads : 0..MaxLoads]
          /\ page'.creds = page.creds /\ page'.state = Dispatched("accepted")
      BY <1>t, <2>1, <2>a DEF PageTypes
    <2>c. page.creds \in Pairings \union {NoPairing}
      BY <1>t DEF PageTypes
    <2>2. PageTypes' /\ page'.creds = page.creds /\ page'.state = Dispatched("accepted")
      BY <1>t, <2>1, <2>b, <2>c DEF PageTypes
    <2>3. /\ page'.state \in Served
          /\ page'.state = "live" => page.state = "live"
      BY <1>d, <1>o, <2>2, Arrows DEF Served
    <2>4. LinkInv' /\ SavedInv'
      BY <1>o, <2>1, <2>2, <2>3 DEF PageInv, LinkInv, Served, SavedInv
    <2> QED BY <2>1, <2>2, <2>3, <2>4, MediaKept DEF PageInv
  <1>3. CASE m = "answer"
    <2>1. /\ media' = [media EXCEPT !.offer = IF @ = "sent" THEN "answered" ELSE @]
          /\ UNCHANGED <<saved, page, link, mics, begin, swap, past>>
      BY <1>3 DEF Receive
    <2>2. /\ PageTypes' /\ media'.mic = media.mic /\ media'.transport = media.transport
          /\ media'.track = media.track
          /\ media'.offer = IF media.offer = "sent" THEN "answered" ELSE media.offer
      BY <1>t, <2>1 DEF PageTypes
    <2>3. NumbersInv' /\ (~past'.late => MediaInv' /\ SwapInv')
      BY <2>1, <2>2 DEF PageInv, NumbersInv, MediaInv, SwapInv
    <2> QED BY <2>1, <2>2, <2>3, LinkKept DEF PageInv
  <1>4. CASE m \notin {"ackWait", "ackGo", "accepted", "answer"}
    BY <1>4, EndKeepsPage DEF Receive
  <1> QED BY <1>1, <1>2, <1>3, <1>4

LEMMA IceKeepsPage == ASSUME PageInv, IceConnects PROVE PageInv'
  <1>t. PageTypes
    BY DEF PageInv
  <1>d. page.state \in States
    BY <1>t DEF PageTypes
  <1>1. /\ media.offer = "answered" /\ page' = [page EXCEPT !.state = Dispatched("ice")]
        /\ UNCHANGED <<saved, link, media, mics, begin, swap, past>>
    BY DEF IceConnects, Dispatch
  <1>2. /\ PageTypes' /\ page'.creds = page.creds /\ page'.persisted = page.persisted
        /\ page'.state = IF page.state = "negotiating" THEN "live" ELSE page.state
    BY <1>t, <1>d, <1>1, Arrows DEF PageTypes, Arrow
  <1>3. LinkInv' /\ SavedInv'
    BY <1>1, <1>2 DEF PageInv, LinkInv, Served, SavedInv
  <1> QED BY <1>1, <1>2, <1>3, MediaKept DEF PageInv

(* The steps of beginCapture and applyCapture: another value of media,     *)
(* mics, begin or swap.                                                    *)
LEMMA MediaStepKeeps ==
    ASSUME PageInv, UNCHANGED <<saved, page, link>>, PageTypes', NumbersInv',
           ~past'.late => MediaInv' /\ SwapInv'
    PROVE  PageInv'
  BY LinkKept DEF PageInv

(* A microphone the page opens has a new number.                           *)
LEMMA WithMic ==
    ASSUME PageInv, mics.count < MaxMics
    PROVE  LET n == With(NextMic)
           IN  /\ NextMic = mics.count + 1 /\ NextMic \in Number /\ NextMic # 0
               /\ n \in [count : Number, open : SUBSET Number, enabled : SUBSET Number]
               /\ n.count = NextMic /\ n.open = mics.open \union {NextMic}
               /\ n.enabled \subseteq n.open /\ n.open \subseteq 1..n.count
  <1>1. /\ mics.count \in Number /\ mics.enabled \subseteq mics.open
        /\ mics.open \subseteq 1..mics.count
    BY DEF PageInv, PageTypes
  <1>2. NextMic = mics.count + 1 /\ NextMic \in Number /\ NextMic # 0
    BY <1>1, ClientAssumption DEF NextMic, Number
  <1>3. mics.open \union {NextMic} \subseteq 1..NextMic
    BY <1>1, <1>2 DEF Number
  <1>4. 1..NextMic \subseteq Number
    BY <1>2, ClientAssumption DEF Number
  <1> QED BY <1>1, <1>2, <1>3, <1>4 DEF With

LEMMA BeginKeepsPage ==
    ASSUME PageInv,
           \/ BeginCapture \/ BeginFails \/ MicGranted \/ KeptAwake \/ OfferMade
    PROVE  PageInv'
  <1>t. PageTypes /\ NumbersInv
    BY DEF PageInv
  <1>1. CASE BeginCapture
    <2>1. /\ page.state = "negotiating" /\ media.mic = 0 /\ begin = "off" /\ begin' = "mic"
          /\ past' = [past EXCEPT !.gesture = TRUE]
          /\ UNCHANGED <<saved, page, link, media, mics, swap>>
      BY <1>1 DEF BeginCapture
    <2>2. past' \in [gesture : BOOLEAN, late : BOOLEAN] /\ past'.late = past.late
      BY <1>t, <2>1 DEF PageTypes
    <2>3. PageTypes' /\ NumbersInv'
      BY <1>t, <2>1, <2>2 DEF PageTypes, NumbersInv
    <2>4. ~past'.late => MediaInv' /\ SwapInv'
      BY <2>1, <2>2 DEF PageInv, MediaInv, SwapInv
    <2> QED BY <2>1, <2>3, <2>4, MediaStepKeeps
  <1>2. CASE BeginFails
    <2>1. /\ begin # "off" /\ begin' = "off" /\ Teardown
          /\ UNCHANGED <<saved, page, link, swap, past>>
      BY <1>2 DEF BeginFails
    <2>2. ~past.late => page'.state # "live"
      BY <2>1 DEF PageInv, MediaInv
    <2> QED BY <1>t, <2>1, <2>2, TeardownKeeps, MediaStepKeeps DEF PageTypes
  <1>3. CASE MicGranted
    <2> DEFINE n == With(NextMic)
    <2>1. /\ begin = "mic" /\ mics.count < MaxMics /\ begin' = "awake"
          /\ media' = [media EXCEPT !.mic = NextMic] /\ mics' = n
          /\ UNCHANGED <<saved, page, link, swap, past>>
      BY <1>3 DEF MicGranted
    <2>2. /\ NextMic = mics.count + 1 /\ NextMic \in Number /\ NextMic # 0
          /\ n \in [count : Number, open : SUBSET Number, enabled : SUBSET Number]
          /\ n.count = NextMic /\ n.open = mics.open \union {NextMic}
          /\ n.enabled \subseteq n.open /\ n.open \subseteq 1..n.count
      BY <2>1, WithMic
    <2> HIDE DEF n
    <2>3. /\ media' \in [mic : Number, transport : Number, track : Number,
                         offer : {"none", "sent", "lost", "answered"},
                         awake : BOOLEAN, muted : BOOLEAN]
          /\ media'.mic = NextMic /\ media'.transport = media.transport
          /\ media'.offer = media.offer /\ media'.track = media.track
      BY <1>t, <2>1, <2>2 DEF PageTypes
    <2>4. PageTypes'
      BY <1>t, <2>1, <2>2, <2>3 DEF PageTypes
    <2>5. mics.count \in Number /\ media.transport \in Number /\ swap.to \in Number
          /\ swap.next \in Number /\ mics.open \subseteq 1..mics.count
      BY <1>t DEF PageTypes
    <2>6. NumbersInv'
      BY <1>t, <2>1, <2>2, <2>3, <2>5 DEF NumbersInv, Number
    <2>7. ~past'.late => MediaInv' /\ SwapInv'
      <3> SUFFICES ASSUME ~past.late PROVE MediaInv' /\ SwapInv'
        BY <2>1
      <3>1. MediaInv /\ SwapInv
        BY DEF PageInv
      <3>2. media.mic = 0 /\ media.transport = 0 /\ media.offer = "none"
        BY <1>t, <2>1, <3>1 DEF MediaInv
      <3>3. mics.open \subseteq {swap.next}
        BY <2>5, <3>1, <3>2 DEF MediaInv
      <3>4. MediaInv'
        BY <1>t, <2>1, <2>2, <2>3, <2>5, <3>1, <3>2, <3>3 DEF MediaInv, NumbersInv, Number
      <3>5. SwapInv'
        BY <1>t, <2>1, <2>2, <2>3, <2>5, <3>1 DEF SwapInv, NumbersInv, Number
      <3> QED BY <3>4, <3>5
    <2> QED BY <2>1, <2>4, <2>6, <2>7, MediaStepKeeps
  <1>4. CASE KeptAwake
    <2>1. /\ begin = "awake" /\ media.mic # 0 /\ begin' = "offer"
          /\ media' = [media EXCEPT !.awake = TRUE, !.transport = mics.count, !.track = media.mic]
          /\ UNCHANGED <<saved, page, link, mics, swap, past>>
      BY <1>4 DEF KeptAwake
    <2>2. /\ media' \in [mic : Number, transport : Number, track : Number,
                         offer : {"none", "sent", "lost", "answered"},
                         awake : BOOLEAN, muted : BOOLEAN]
          /\ media'.mic = media.mic /\ media'.transport = mics.count
          /\ media'.offer = media.offer /\ media'.track = media.mic
      BY <1>t, <2>1 DEF PageTypes
    <2>3. PageTypes'
      BY <1>t, <2>1, <2>2 DEF PageTypes
    <2>4. NumbersInv'
      BY <1>t, <2>1, <2>2 DEF PageTypes, NumbersInv, Number
    <2>5. ~past'.late => MediaInv' /\ SwapInv'
      BY <1>t, <2>1, <2>2 DEF PageInv, PageTypes, MediaInv, SwapInv, Number
    <2> QED BY <2>1, <2>3, <2>4, <2>5, MediaStepKeeps
  <1>5. CASE OfferMade
    <2>1. /\ begin = "offer" /\ media.transport # 0 /\ begin' = "off"
          /\ media' = [media EXCEPT !.offer = IF link.ws = "open" THEN "sent" ELSE "lost"]
          /\ UNCHANGED <<saved, page, link, mics, swap, past>>
      BY <1>5 DEF OfferMade
    <2>2. /\ media' \in [mic : Number, transport : Number, track : Number,
                         offer : {"none", "sent", "lost", "answered"},
                         awake : BOOLEAN, muted : BOOLEAN]
          /\ media'.mic = media.mic /\ media'.transport = media.transport
          /\ media'.track = media.track
      BY <1>t, <2>1 DEF PageTypes
    <2>3. PageTypes' /\ NumbersInv'
      BY <1>t, <2>1, <2>2 DEF PageTypes, NumbersInv
    <2>4. ~past'.late => MediaInv' /\ SwapInv'
      BY <2>1, <2>2 DEF PageInv, MediaInv, SwapInv
    <2> QED BY <2>1, <2>3, <2>4, MediaStepKeeps
  <1> QED BY <1>1, <1>2, <1>3, <1>4, <1>5

LEMMA SwapKeepsPage ==
    ASSUME PageInv,
           \/ ApplyCapture \/ SwapGranted \/ SwapFails \/ SwapCommits
    PROVE  PageInv'
  <1>t. PageTypes /\ NumbersInv
    BY DEF PageInv
  <1>n. /\ mics.count \in Number /\ media.transport \in Number /\ swap.to \in Number
        /\ swap.next \in Number /\ media.mic \in Number /\ mics.open \subseteq 1..mics.count
    BY <1>t DEF PageTypes
  <1>z. NoSwap \in [at : {"off", "mic", "replace"}, next : Number, to : Number]
    BY ClientAssumption DEF NoSwap, Number
  <1>1. CASE ApplyCapture
    <2>1. /\ swap.at = "off" /\ swap' = [swap EXCEPT !.at = "mic"]
          /\ UNCHANGED <<saved, page, link, media, mics, begin, past>>
      BY <1>1 DEF ApplyCapture
    <2>2. /\ swap' \in [at : {"off", "mic", "replace"}, next : Number, to : Number]
          /\ swap'.at = "mic" /\ swap'.next = swap.next /\ swap'.to = swap.to
      BY <1>t, <2>1 DEF PageTypes
    <2>3. PageTypes' /\ NumbersInv'
      BY <1>t, <2>1, <2>2 DEF PageTypes, NumbersInv
    <2>4. ~past'.late => MediaInv' /\ SwapInv'
      BY <2>1, <2>2 DEF PageInv, MediaInv, SwapInv
    <2> QED BY <2>1, <2>3, <2>4, MediaStepKeeps
  <1>2. CASE SwapGranted /\ media.transport = 0
    <2>1. /\ swap.at = "mic" /\ mics.count < MaxMics /\ swap' = NoSwap
          /\ mics' = [mics EXCEPT !.count = @ + 1]
          /\ UNCHANGED <<saved, page, link, media, begin, past>>
      BY <1>2 DEF SwapGranted
    <2>2. /\ mics' \in [count : Number, open : SUBSET Number, enabled : SUBSET Number]
          /\ mics'.count = mics.count + 1 /\ mics'.open = mics.open
          /\ mics'.enabled = mics.enabled
      BY <1>t, <2>1, ClientAssumption DEF PageTypes, Number
    <2>3. PageTypes'
      BY <1>t, <1>n, <1>z, <2>1, <2>2 DEF PageTypes, Number
    <2>4. NumbersInv'
      BY <1>t, <1>n, <2>1, <2>2 DEF NumbersInv, NoSwap, Number
    <2>5. ~past'.late => MediaInv' /\ SwapInv'
      BY <1>t, <1>n, <2>1, <2>2 DEF PageInv, MediaInv, SwapInv, NumbersInv, NoSwap, Number
    <2> QED BY <2>1, <2>3, <2>4, <2>5, MediaStepKeeps
  <1>3. CASE SwapGranted /\ media.transport # 0
    <2> DEFINE n == With(NextMic)
    <2>1. /\ swap.at = "mic" /\ mics.count < MaxMics /\ mics' = n
          /\ swap' = [at |-> "replace", next |-> NextMic, to |-> media.transport]
          /\ UNCHANGED <<saved, page, link, media, begin, past>>
      BY <1>3 DEF SwapGranted
    <2>2. /\ NextMic = mics.count + 1 /\ NextMic \in Number /\ NextMic # 0
          /\ n \in [count : Number, open : SUBSET Number, enabled : SUBSET Number]
          /\ n.count = NextMic /\ n.open = mics.open \union {NextMic}
          /\ n.enabled \subseteq n.open /\ n.open \subseteq 1..n.count
      BY <2>1, WithMic
    <2> HIDE DEF n
    <2>3. PageTypes'
      BY <1>t, <1>n, <2>1, <2>2 DEF PageTypes
    <2>4. NumbersInv'
      BY <1>3, <1>t, <1>n, <2>1, <2>2 DEF NumbersInv, Number
    <2>5. ~past'.late => MediaInv' /\ SwapInv'
      <3> SUFFICES ASSUME ~past.late PROVE MediaInv' /\ SwapInv'
        BY <2>1
      <3>1. MediaInv
        BY DEF PageInv
      <3>2. swap.next = 0 /\ swap.to = 0
        BY <1>t, <2>1 DEF NumbersInv
      <3>3. mics.open \subseteq {media.mic}
        BY <1>n, <3>1, <3>2 DEF MediaInv
      <3>4. MediaInv'
        BY <1>3, <2>1, <2>2, <3>1, <3>3 DEF MediaInv
      <3>5. SwapInv'
        BY <1>t, <1>n, <2>1, <2>2 DEF SwapInv, NumbersInv, Number
      <3> QED BY <3>4, <3>5
    <2> QED BY <2>1, <2>3, <2>4, <2>5, MediaStepKeeps
  <1>4. CASE SwapFails
    <2>1. /\ swap.at # "off" /\ swap' = NoSwap /\ mics' = LetGo(swap.next)
          /\ UNCHANGED <<saved, page, link, media, begin, past>>
      BY <1>4 DEF SwapFails
    <2>2. /\ mics' \in [count : Number, open : SUBSET Number, enabled : SUBSET Number]
          /\ mics'.count = mics.count /\ mics'.open = mics.open \ {swap.next}
          /\ mics'.enabled = mics.enabled \ {swap.next}
      BY <1>t, <2>1 DEF PageTypes, LetGo
    <2>3. PageTypes'
      BY <1>t, <1>z, <2>1, <2>2 DEF PageTypes
    <2>4. NumbersInv'
      BY <1>t, <1>n, <2>1, <2>2 DEF NumbersInv, NoSwap, Number
    <2>5. ~past'.late => MediaInv' /\ SwapInv'
      <3> SUFFICES ASSUME ~past.late PROVE MediaInv' /\ SwapInv'
        BY <2>1
      <3>1. MediaInv /\ SwapInv
        BY DEF PageInv
      <3>2. media.mic # 0 => media.mic # swap.next
        BY <1>t, <3>1 DEF SwapInv, NumbersInv
      <3>3. swap'.at = "off" /\ swap'.next = 0 /\ swap'.to = 0
        BY <2>1 DEF NoSwap
      <3>4. begin = "awake" => 0 < mics.count
        BY <1>n, <3>1 DEF MediaInv, Number
      <3> QED BY <2>1, <2>2, <3>1, <3>2, <3>3, <3>4 DEF MediaInv, SwapInv
    <2> QED BY <2>1, <2>3, <2>4, <2>5, MediaStepKeeps
  <1>5. CASE SwapCommits
    <2>1. /\ swap.at = "replace" /\ swap' = NoSwap /\ mics' = LetGo(media.mic)
          /\ media' = [media EXCEPT !.mic = swap.next,
                                    !.track = IF media.transport = swap.to THEN swap.next ELSE @]
          /\ past' = [past EXCEPT !.late = @ \/ media.transport # swap.to]
          /\ UNCHANGED <<saved, page, link, begin>>
      BY <1>5 DEF SwapCommits, Stopped
    <2>2. /\ mics' \in [count : Number, open : SUBSET Number, enabled : SUBSET Number]
          /\ mics'.count = mics.count /\ mics'.open = mics.open \ {media.mic}
          /\ mics'.enabled = mics.enabled \ {media.mic}
      BY <1>t, <2>1 DEF PageTypes, LetGo
    <2>3. /\ media' \in [mic : Number, transport : Number, track : Number,
                         offer : {"none", "sent", "lost", "answered"},
                         awake : BOOLEAN, muted : BOOLEAN]
          /\ media'.mic = swap.next /\ media'.transport = media.transport
          /\ media'.offer = media.offer
          /\ media.transport = swap.to => media'.track = swap.next
      BY <1>t, <1>n, <2>1 DEF PageTypes
    <2>4. /\ past' \in [gesture : BOOLEAN, late : BOOLEAN]
          /\ ~past'.late => ~past.late /\ media.transport = swap.to
      BY <1>t, <2>1 DEF PageTypes
    <2>5. PageTypes'
      BY <1>t, <1>z, <2>1, <2>2, <2>3, <2>4 DEF PageTypes
    <2>6. NumbersInv'
      BY <1>t, <1>n, <2>1, <2>2, <2>3 DEF NumbersInv, NoSwap, Number
    <2>7. ~past'.late => MediaInv' /\ SwapInv'
      <3> SUFFICES ASSUME ~past'.late PROVE MediaInv' /\ SwapInv'
        OBVIOUS
      <3>1. MediaInv /\ SwapInv /\ media.transport = swap.to /\ swap.to # 0 /\ swap.next # 0
        BY <1>t, <2>1, <2>4 DEF PageInv, NumbersInv
      <3>2. swap'.at = "off" /\ swap'.next = 0 /\ swap'.to = 0
        BY <2>1 DEF NoSwap
      <3> QED BY <2>1, <2>2, <2>3, <3>1, <3>2 DEF MediaInv, SwapInv
    <2> QED BY <2>1, <2>5, <2>6, <2>7, MediaStepKeeps
  <1> QED BY <1>1, <1>2, <1>3, <1>4, <1>5

LEMMA MuteKeepsPage == ASSUME PageInv, ToggleMute PROVE PageInv'
  <1>t. PageTypes /\ NumbersInv
    BY DEF PageInv
  <1> DEFINE e == IF media.muted THEN mics.enabled \union ({media.mic} \intersect mics.open)
                  ELSE mics.enabled \ {media.mic}
  <1>1. /\ media' = [media EXCEPT !.muted = ~@]
        /\ mics' = [mics EXCEPT !.enabled = e]
        /\ UNCHANGED <<saved, page, link, begin, swap, past>>
    BY <1>t DEF ToggleMute, PageTypes
  <1>2. e \subseteq mics.open
    BY <1>t DEF PageTypes
  <1> HIDE DEF e
  <1>3. /\ mics' \in [count : Number, open : SUBSET Number, enabled : SUBSET Number]
        /\ mics'.count = mics.count /\ mics'.open = mics.open /\ mics'.enabled = e
    BY <1>t, <1>1, <1>2 DEF PageTypes
  <1>4. /\ media' \in [mic : Number, transport : Number, track : Number,
                       offer : {"none", "sent", "lost", "answered"},
                       awake : BOOLEAN, muted : BOOLEAN]
        /\ media'.mic = media.mic /\ media'.transport = media.transport
        /\ media'.offer = media.offer /\ media'.track = media.track
    BY <1>t, <1>1 DEF PageTypes
  <1>5. PageTypes' /\ NumbersInv'
    BY <1>t, <1>1, <1>2, <1>3, <1>4 DEF PageTypes, NumbersInv
  <1>6. ~past'.late => MediaInv' /\ SwapInv'
    BY <1>1, <1>3, <1>4 DEF PageInv, MediaInv, SwapInv
  <1> QED BY <1>1, <1>5, <1>6, MediaStepKeeps

(* Every step of the page keeps its invariant.                             *)
LEMMA PageStep == ASSUME PageInv, [ClientNext]_clientVars PROVE PageInv'
  <1>1. CASE \E p \in Pairings : OtherTabAccepted(p)
    <2>1. PICK p \in Pairings : OtherTabAccepted(p)
      BY <1>1
    <2>2. /\ OtherTab /\ saved' = p
          /\ UNCHANGED <<page, link, media, mics, begin, swap, past>>
      BY <2>1 DEF OtherTabAccepted
    <2> QED BY <2>1, <2>2, MediaKept DEF PageInv, PageTypes, LinkInv, Served, SavedInv
  <1>2. CASE StopStreaming
    BY <1>2, EndKeepsPage DEF StopStreaming
  <1>3. CASE UNCHANGED clientVars
    BY <1>3, LinkKept, MediaKept DEF clientVars, PageInv, PageTypes
  <1> QED BY <1>1, <1>2, <1>3, LoadKeepsPage, SocketKeepsPage, ReceiveKeepsPage, IceKeepsPage,
             BeginKeepsPage, SwapKeepsPage, MuteKeepsPage DEF ClientNext, MediaStep

LEMMA PageInvIsHonest == PageInv => PageIsHonest
  <1> SUFFICES ASSUME PageInv PROVE PageIsHonest
    OBVIOUS
  <1>1. LiveIsHeard
    BY DEF PageInv, MediaInv, LiveIsHeard
  <1>2. OpenMicsAreHeld
    BY DEF PageInv, MediaInv, OpenMicsAreHeld
  <1>3. /\ page.state \in States /\ link.timer \in BOOLEAN
    BY DEF PageInv, PageTypes
  <1>4. page.state = "reconnecting" => link.timer # (link.ws = "opening")
    BY <1>3 DEF PageInv, LinkInv
  <1>5. LinkFollowsMachine
    BY <1>3, <1>4 DEF PageInv, LinkInv, Served, LinkFollowsMachine, States
  <1> QED BY <1>1, <1>2, <1>5 DEF PageIsHonest

(* With one tab, only a message that revokes clears the saved pairing, and *)
(* only the page's own.                                                    *)
LEMMA ClearedIsOwn ==
    ASSUME PageInv, ~OtherTab, [ClientNext]_clientVars, saved # NoPairing, saved' = NoPairing
    PROVE  saved = page.creds
  <1>1. saved' # saved
    OBVIOUS
  <1>2. PICK m \in Messages : Receive(m)
    BY <1>1 DEF ClientNext, clientVars, Load, SocketStep, Open, Lost, Reconnect, IceConnects,
       MediaStep, BeginCapture, BeginFails, MicGranted, KeptAwake, OfferMade, ApplyCapture,
       SwapGranted, SwapFails, SwapCommits, ToggleMute, StopStreaming, OtherTabAccepted
  <1>3. link.ws = "open"
    BY <1>2 DEF Receive
  <1>4. page.creds # NoPairing
    BY <1>3 DEF PageInv, LinkInv
  <1>5. page.persisted
    BY <1>1, <1>2, <1>4 DEF Receive
  <1> QED BY <1>5 DEF PageInv, SavedInv

-----------------------------------------------------------------------------
(* The shared captures *)

(* Who refers to a capture.                                                *)
Refers(b, c) == c \in {bus[b].cap, bus[b].joins}

(* The listed capture runs, or has failed and is about to be replaced; it  *)
(* was never told to stop.                                                 *)
EntryInv == entry # NoCapture => /\ cap[entry].thread \in {"loop", "left", "ended"}
                                 /\ ~cap[entry].stop

CapInv(c) == /\ cap[c].failed => cap[c].thread = "ended"
             /\ cap[c].thread = "setup" => \E b \in Buses : bus[b].pc = "wait" /\ bus[b].cap = c
             /\ cap[c].thread = "loop" =>
                  \/ c = entry
                  \/ cap[c].stop
                  \/ \E b \in Buses : bus[b].pc = "wait" /\ bus[b].cap = c

(* A capture that is being created is known to its creator only, and has   *)
(* no other subscriber.                                                    *)
OwnInv(b) == LET c == bus[b].cap IN
             /\ c # NoCapture /\ c # entry /\ bus[b].joins = NoCapture
             /\ cap[c].subs = {b} /\ ~cap[c].stop
             /\ cap[c].thread # "none"
             /\ \A x \in Buses \ {b} : ~Refers(x, c)

FedInv(b) == LET c == bus[b].cap IN
             /\ c # NoCapture /\ b \in cap[c].subs
             /\ c = entry \/ cap[c].failed

BusInv(b) == /\ bus[b].pc = "wait" => OwnInv(b)
             /\ bus[b].pc \in {"in", "retire", "displace"} => FedInv(b)

FeedsInv == /\ FeedsTypeOK /\ EntryInv
            /\ \A c \in Captures : CapInv(c)
            /\ \A b \in Buses : BusInv(b)

LEMMA InitFeeds == FeedsInit => FeedsInv
  BY FeedsAssumption DEF FeedsInit, FeedsInv, FeedsTypeOK, EntryInv, CapInv, BusInv, OwnInv, FedInv,
     NoThread, Outside, Capture, Threads, BusState, Joins

(* The blank records, from which the code makes the others.                *)
LEMMA Blank ==
    /\ Outside \in BusState /\ Outside.pc = "out"
    /\ Outside.cap = NoCapture /\ Outside.joins = NoCapture
    /\ NoThread \in Capture /\ NoThread.thread = "none" /\ NoThread.subs = {}
    /\ ~NoThread.stop /\ ~NoThread.failed
  <1>1. NoThread \in Capture
    BY DEF NoThread, Capture, Threads
  <1>2. NoThread.thread = "none" /\ NoThread.subs = {} /\ ~NoThread.stop /\ ~NoThread.failed
    BY DEF NoThread
  <1>3. Outside \in BusState
    BY DEF Outside, BusState
  <1>4. Outside.pc = "out" /\ Outside.cap = NoCapture /\ Outside.joins = NoCapture
    BY DEF Outside
  <1> QED BY <1>1, <1>2, <1>3, <1>4

(* A step of one bus that leaves the captures and the list alone.          *)
LEMMA BusMoves ==
    ASSUME FeedsInv, NEW b \in Buses, NEW r \in BusState, bus' = [bus EXCEPT ![b] = r],
           UNCHANGED <<entry, cap>>, bus[b].pc # "wait", r.pc # "wait",
           {r.cap, r.joins} \subseteq {bus[b].cap, bus[b].joins, NoCapture},
           r.pc \in {"in", "retire", "displace"} =>
             bus[b].pc \in {"in", "retire", "displace"} /\ r.cap = bus[b].cap
    PROVE  FeedsInv'
  <1>t. FeedsTypeOK
    BY DEF FeedsInv
  <1>1. /\ bus' \in [Buses -> BusState] /\ bus'[b] = r
        /\ \A x \in Buses \ {b} : bus'[x] = bus[x]
    BY <1>t DEF FeedsTypeOK
  <1>2. FeedsTypeOK' /\ EntryInv'
    BY <1>t, <1>1 DEF FeedsInv, FeedsTypeOK, EntryInv
  <1>3. ASSUME NEW c \in Captures PROVE CapInv(c)'
    BY <1>1 DEF FeedsInv, CapInv
  <1>4. ASSUME NEW x \in Buses PROVE BusInv(x)'
    <2>1. CASE x = b
      BY <1>1, <2>1 DEF FeedsInv, BusInv, FedInv
    <2>2. CASE x # b
      <3>1. bus'[x] = bus[x] /\ BusInv(x)
        BY <1>1, <2>2 DEF FeedsInv
      <3>2. bus[x].pc = "wait" => OwnInv(x)'
        BY <1>1, <2>2, <3>1 DEF BusInv, OwnInv, Refers
      <3> QED BY <1>1, <3>1, <3>2 DEF BusInv, FedInv
    <2> QED BY <2>1, <2>2
  <1> QED BY <1>2, <1>3, <1>4 DEF FeedsInv

LEMMA JoinKeepsFeeds == ASSUME FeedsInv, NEW b \in Buses, Join(b) PROVE FeedsInv'
  <1> DEFINE r == [bus[b] EXCEPT !.pc = AfterJoin[@], !.joins = NoCapture]
  <1>1. bus[b] \in BusState /\ bus[b].pc \in Joins
    BY DEF FeedsInv, FeedsTypeOK, Join
  <1>2. bus' = [bus EXCEPT ![b] = r] /\ UNCHANGED <<entry, cap>>
    BY DEF FeedsInv, FeedsTypeOK, Join
  <1>3. /\ r \in BusState /\ r.cap = bus[b].cap /\ r.joins = NoCapture
        /\ r.pc = AfterJoin[bus[b].pc]
    <2>1. AfterJoin[bus[b].pc] \in {"create", "in", "out"}
      BY <1>1 DEF Joins, AfterJoin
    <2> QED BY <1>1, <2>1 DEF BusState
  <1> HIDE DEF r
  <1>4. r.pc # "wait" /\ (r.pc = "in" => bus[b].pc \in {"retire", "displace"})
        /\ r.pc \notin {"retire", "displace"}
    BY <1>1, <1>3 DEF Joins, AfterJoin
  <1> QED BY <1>1, <1>2, <1>3, <1>4, BusMoves DEF Joins

LEMMA MissKeepsFeeds == ASSUME FeedsInv, NEW b \in Buses, Miss(b) PROVE FeedsInv'
  <1> DEFINE r == [bus[b] EXCEPT !.pc = "create"]
  <1>1. bus[b] \in BusState /\ bus[b].pc = "out"
    BY DEF FeedsInv, FeedsTypeOK, Miss
  <1>2. bus' = [bus EXCEPT ![b] = r] /\ UNCHANGED <<entry, cap>>
    BY DEF FeedsInv, FeedsTypeOK, Miss
  <1>3. r \in BusState /\ r.cap = bus[b].cap /\ r.joins = bus[b].joins /\ r.pc = "create"
    BY <1>1 DEF BusState
  <1> HIDE DEF r
  <1> QED BY <1>1, <1>2, <1>3, BusMoves

LEMMA AttachKeepsFeeds == ASSUME FeedsInv, NEW b \in Buses, Attach(b) PROVE FeedsInv'
  <1>t. FeedsTypeOK
    BY DEF FeedsInv
  <1> DEFINE r == [Outside EXCEPT !.pc = "in", !.cap = entry]
             n == [cap[entry] EXCEPT !.subs = @ \union {b}]
  <1>e. bus[b].pc = "out" /\ entry \in Captures /\ cap[entry] \in Capture
    BY <1>t DEF Attach, Alive, Listed, FeedsTypeOK
  <1>r. r \in BusState /\ r.pc = "in" /\ r.cap = entry /\ r.joins = NoCapture
    BY <1>e, Blank DEF BusState
  <1>1. /\ bus[b].pc = "out" /\ entry \in Captures /\ cap[entry] \in Capture
        /\ r \in BusState /\ r.pc = "in" /\ r.cap = entry /\ r.joins = NoCapture
    BY <1>e, <1>r
  <1>2. bus' = [bus EXCEPT ![b] = r] /\ cap' = [cap EXCEPT ![entry] = n] /\ UNCHANGED entry
    BY <1>t, <1>1 DEF Attach, FeedsTypeOK
  <1>3. /\ n \in Capture /\ n.thread = cap[entry].thread /\ n.stop = cap[entry].stop
        /\ n.failed = cap[entry].failed /\ n.subs = cap[entry].subs \union {b}
    BY <1>1 DEF Capture
  <1> HIDE DEF n, r
  <1>4. /\ cap' \in [Captures -> Capture] /\ cap'[entry] = n
        /\ \A c \in Captures \ {entry} : cap'[c] = cap[c]
        /\ bus' \in [Buses -> BusState] /\ bus'[b] = r
        /\ \A x \in Buses \ {b} : bus'[x] = bus[x]
    BY <1>t, <1>1, <1>2, <1>3 DEF FeedsTypeOK
  <1>5. FeedsTypeOK' /\ EntryInv'
    BY <1>t, <1>2, <1>3, <1>4 DEF FeedsInv, FeedsTypeOK, EntryInv
  <1>6. ASSUME NEW c \in Captures PROVE CapInv(c)'
    BY <1>1, <1>2, <1>3, <1>4 DEF FeedsInv, CapInv
  <1>7. ASSUME NEW x \in Buses PROVE BusInv(x)'
    <2>1. CASE x = b
      BY <1>1, <1>2, <1>3, <1>4, <2>1, FeedsAssumption DEF BusInv, FedInv
    <2>2. CASE x # b
      <3>1. bus'[x] = bus[x] /\ BusInv(x) /\ bus[x] \in BusState
        BY <1>t, <1>4, <2>2 DEF FeedsInv, FeedsTypeOK
      <3>2. bus[x].pc = "wait" => OwnInv(x)'
        BY <1>1, <1>2, <1>4, <2>2, <3>1 DEF BusInv, OwnInv, Refers, BusState
      <3>3. bus[x].pc \in {"in", "retire", "displace"} => FedInv(x)'
        BY <1>1, <1>2, <1>3, <1>4, <3>1 DEF BusInv, FedInv, BusState
      <3> QED BY <3>1, <3>2, <3>3 DEF BusInv
    <2> QED BY <2>1, <2>2
  <1> QED BY <1>5, <1>6, <1>7 DEF FeedsInv

(* A failed capture is unlisted: those it fed keep it, and know it failed. *)
LEMMA EvictKeepsFeeds == ASSUME FeedsInv, NEW b \in Buses, Evict(b) PROVE FeedsInv'
  <1>t. FeedsTypeOK
    BY DEF FeedsInv
  <1> DEFINE r == [Outside EXCEPT !.pc = "evict", !.joins = entry]
  <1>e. entry \in Captures /\ cap[entry].failed
    BY <1>t DEF Evict, Alive, Listed, FeedsTypeOK
  <1>r. r \in BusState /\ r.pc = "evict" /\ r.cap = NoCapture /\ r.joins = entry
    BY <1>e, Blank DEF BusState, Joins
  <1>1. /\ entry \in Captures /\ cap[entry].failed
        /\ r \in BusState /\ r.pc = "evict" /\ r.cap = NoCapture /\ r.joins = entry
        /\ entry' = NoCapture /\ bus' = [bus EXCEPT ![b] = r] /\ cap' = cap
    BY <1>e, <1>r DEF Evict
  <1> HIDE DEF r
  <1>2. /\ bus' \in [Buses -> BusState] /\ bus'[b] = r
        /\ \A x \in Buses \ {b} : bus'[x] = bus[x]
    BY <1>t, <1>1 DEF FeedsTypeOK
  <1>3. FeedsTypeOK' /\ EntryInv'
    BY <1>t, <1>1, <1>2 DEF FeedsTypeOK, EntryInv
  <1>4. ASSUME NEW c \in Captures PROVE CapInv(c)'
    <2>1. CapInv(c) /\ CapInv(entry) /\ bus[b].pc = "out"
      BY <1>1 DEF FeedsInv, Evict
    <2> QED BY <1>1, <1>2, <2>1 DEF CapInv
  <1>5. ASSUME NEW x \in Buses PROVE BusInv(x)'
    <2>1. CASE x = b
      BY <1>1, <1>2, <2>1 DEF BusInv
    <2>2. CASE x # b
      <3>1. bus'[x] = bus[x] /\ BusInv(x) /\ bus[x] \in BusState
        BY <1>t, <1>2, <2>2 DEF FeedsInv, FeedsTypeOK
      <3>2. bus[x].pc = "wait" => OwnInv(x)'
        BY <1>1, <1>2, <2>2, <3>1, FeedsAssumption DEF BusInv, OwnInv, Refers
      <3>3. bus[x].pc \in {"in", "retire", "displace"} => FedInv(x)'
        BY <1>1, <3>1 DEF BusInv, FedInv
      <3> QED BY <3>1, <3>2, <3>3 DEF BusInv
    <2> QED BY <2>1, <2>2
  <1> QED BY <1>3, <1>4, <1>5 DEF FeedsInv

(* A new capture takes a record that nobody refers to.                     *)
LEMMA SpawnKeepsFeeds == ASSUME FeedsInv, NEW b \in Buses, Spawn(b) PROVE FeedsInv'
  <1>t. FeedsTypeOK
    BY DEF FeedsInv
  <1> DEFINE s == CHOOSE d \in Captures : Unreferenced(d)
             r == [Outside EXCEPT !.pc = "wait", !.cap = s]
             n == [NoThread EXCEPT !.thread = "setup", !.subs = {b}]
  <1>1. s \in Captures /\ Unreferenced(s)
    BY DEF Spawn
  <1>2. /\ bus[b].pc = "create" /\ UNCHANGED entry
        /\ cap' = [cap EXCEPT ![s] = n] /\ bus' = [bus EXCEPT ![b] = r]
    BY <1>t DEF Spawn
  <1> HIDE DEF s
  <1>n. n \in Capture /\ n.thread = "setup" /\ n.subs = {b} /\ ~n.stop /\ ~n.failed
    BY Blank DEF Capture, Threads
  <1>r. r \in BusState /\ r.pc = "wait" /\ r.cap = s /\ r.joins = NoCapture
    BY <1>1, Blank DEF BusState
  <1>3. /\ r \in BusState /\ r.pc = "wait" /\ r.cap = s /\ r.joins = NoCapture
        /\ n \in Capture /\ n.thread = "setup" /\ n.subs = {b} /\ ~n.stop /\ ~n.failed
    BY <1>n, <1>r
  <1> HIDE DEF n, r
  <1>4. /\ cap' \in [Captures -> Capture] /\ cap'[s] = n
        /\ \A c \in Captures \ {s} : cap'[c] = cap[c]
        /\ bus' \in [Buses -> BusState] /\ bus'[b] = r
        /\ \A x \in Buses \ {b} : bus'[x] = bus[x]
    BY <1>t, <1>1, <1>2, <1>3 DEF FeedsTypeOK
  <1>5. s # entry /\ \A x \in Buses : s \notin {bus[x].cap, bus[x].joins}
    BY <1>1 DEF Unreferenced
  <1>6. FeedsTypeOK' /\ EntryInv'
    BY <1>t, <1>2, <1>4, <1>5 DEF FeedsInv, FeedsTypeOK, EntryInv
  <1>7. ASSUME NEW c \in Captures PROVE CapInv(c)'
    <2>1. CASE c = s
      BY <1>3, <1>4, <2>1 DEF CapInv
    <2>2. CASE c # s
      <3>1. CapInv(c) /\ cap'[c] = cap[c] /\ entry' = entry
        BY <1>2, <1>4, <2>2 DEF FeedsInv
      <3>2. \A x \in Buses : bus[x].pc = "wait" => bus'[x] = bus[x]
        BY <1>2, <1>4
      <3> QED BY <3>1, <3>2 DEF CapInv
    <2> QED BY <2>1, <2>2
  <1>8. ASSUME NEW x \in Buses PROVE BusInv(x)'
    <2>1. CASE x = b
      <3>1. OwnInv(b)'
        BY <1>1, <1>2, <1>3, <1>4, <1>5, FeedsAssumption DEF OwnInv, Refers
      <3> QED BY <1>3, <1>4, <2>1, <3>1 DEF BusInv
    <2>2. CASE x # b
      <3>1. bus'[x] = bus[x] /\ BusInv(x) /\ bus[x] \in BusState /\ bus[x].cap # s
        BY <1>t, <1>4, <1>5, <2>2 DEF FeedsInv, FeedsTypeOK
      <3>2. bus[x].cap # NoCapture => cap'[bus[x].cap] = cap[bus[x].cap]
        BY <1>4, <3>1 DEF BusState
      <3>3. bus[x].pc = "wait" => OwnInv(x)'
        BY <1>2, <1>3, <1>4, <2>2, <3>1, <3>2, FeedsAssumption DEF BusInv, OwnInv, Refers
      <3>4. bus[x].pc \in {"in", "retire", "displace"} => FedInv(x)'
        BY <1>2, <3>1, <3>2 DEF BusInv, FedInv
      <3> QED BY <3>1, <3>3, <3>4 DEF BusInv
    <2> QED BY <2>1, <2>2
  <1> QED BY <1>6, <1>7, <1>8 DEF FeedsInv

(* Another subscriber was first: the bus moves to the listed capture, and  *)
(* the one it created, which only it knows, is told to stop.               *)
LEMMA RetireKeepsFeeds == ASSUME FeedsInv, NEW b \in Buses, Retire(b) PROVE FeedsInv'
  <1>t. FeedsTypeOK
    BY DEF FeedsInv
  <1> DEFINE own == bus[b].cap
             r == [pc |-> "retire", cap |-> entry, joins |-> own]
             m == Retired(own)
             n == [cap[entry] EXCEPT !.subs = @ \union {b}]
  <1>1. /\ bus[b].pc = "wait" /\ OwnInv(b) /\ bus[b] \in BusState
        /\ cap[own].thread \in {"loop", "left", "ended"}
        /\ entry \in Captures /\ ~cap[entry].failed
    BY <1>t DEF Retire, SetUp, SomeoneWasFirst, Alive, Listed, FeedsInv, FeedsTypeOK, BusInv
  <1>2. own \in Captures /\ own # entry
    BY <1>1 DEF OwnInv, BusState
  <1>3. r \in BusState /\ cap[own] \in Capture /\ cap[entry] \in Capture
    BY <1>t, <1>1, <1>2 DEF FeedsTypeOK, BusState, Joins
  <1>4. /\ cap' = [[cap EXCEPT ![own] = m] EXCEPT ![entry] = n]
        /\ bus' = [bus EXCEPT ![b] = r] /\ entry' = entry
    BY <1>t, <1>1, <1>2, <1>3 DEF Retire, FeedsTypeOK
  <1>5. /\ n \in Capture /\ n.thread = cap[entry].thread /\ n.stop = cap[entry].stop
        /\ n.failed = cap[entry].failed /\ n.subs = cap[entry].subs \union {b}
    BY <1>3 DEF Capture
  <1>6. m \in Capture /\ m.thread = cap[own].thread /\ m.stop /\ m.failed = cap[own].failed
    BY <1>3 DEF Capture, Retired
  <1> HIDE DEF m, n
  <1>7. /\ cap' \in [Captures -> Capture] /\ cap'[entry] = n /\ cap'[own] = m
        /\ \A c \in Captures \ {entry, own} : cap'[c] = cap[c]
        /\ bus' \in [Buses -> BusState] /\ bus'[b] = r
        /\ \A x \in Buses \ {b} : bus'[x] = bus[x]
    BY <1>t, <1>1, <1>2, <1>3, <1>4, <1>5, <1>6 DEF FeedsTypeOK
  <1>8. FeedsTypeOK' /\ EntryInv'
    BY <1>t, <1>4, <1>5, <1>7 DEF FeedsInv, FeedsTypeOK, EntryInv
  <1> HIDE DEF own
  <1>9. ASSUME NEW c \in Captures PROVE CapInv(c)'
    <2>1. CapInv(c)
      BY DEF FeedsInv
    <2>2. CASE c = entry
      <3>1. cap[entry].thread # "setup"
        BY <1>1, FeedsAssumption DEF FeedsInv, EntryInv
      <3> QED BY <1>4, <1>5, <1>7, <2>1, <2>2, <3>1 DEF CapInv
    <2>3. CASE c = own
      BY <1>1, <1>2, <1>4, <1>6, <1>7, <2>1, <2>3 DEF CapInv
    <2>4. CASE c \notin {entry, own}
      <3>1. cap'[c] = cap[c] /\ entry' = entry
        BY <1>4, <1>7, <2>4
      <3>2. \A x \in Buses : bus[x].cap = c => bus'[x] = bus[x]
        BY <1>7, <2>4 DEF own
      <3> QED BY <2>1, <3>1, <3>2 DEF CapInv
    <2> QED BY <2>2, <2>3, <2>4
  <1>10. ASSUME NEW x \in Buses PROVE BusInv(x)'
    <2>1. CASE x = b
      BY <1>1, <1>4, <1>5, <1>7, <2>1, FeedsAssumption DEF BusInv, FedInv
    <2>2. CASE x # b
      <3>1. bus'[x] = bus[x] /\ BusInv(x) /\ bus[x] \in BusState /\ bus[x].cap # own
        BY <1>t, <1>1, <1>7, <2>2 DEF FeedsInv, FeedsTypeOK, OwnInv, Refers, own
      <3>2. bus[x].pc = "wait" => OwnInv(x)'
        <4> SUFFICES ASSUME bus[x].pc = "wait" PROVE OwnInv(x)'
          OBVIOUS
        <4>1. OwnInv(x) /\ bus[x].cap \in Captures \ {entry, own}
          BY <3>1 DEF BusInv, OwnInv, BusState
        <4>2. cap'[bus[x].cap] = cap[bus[x].cap]
          BY <1>7, <4>1
        <4> QED BY <1>4, <1>7, <3>1, <4>1, <4>2 DEF OwnInv, Refers
      <3>3. bus[x].pc \in {"in", "retire", "displace"} => FedInv(x)'
        BY <1>4, <1>5, <1>7, <3>1 DEF BusInv, FedInv, BusState
      <3> QED BY <3>1, <3>2, <3>3 DEF BusInv
    <2> QED BY <2>1, <2>2
  <1> QED BY <1>8, <1>9, <1>10 DEF FeedsInv

(* A capture that is set up is listed, in the place of one that has failed *)
(* or of none.                                                             *)
LEMMA PublishKeepsFeeds == ASSUME FeedsInv, NEW b \in Buses, Publish(b) PROVE FeedsInv'
  <1>t. FeedsTypeOK
    BY DEF FeedsInv
  <1> DEFINE own == bus[b].cap
             r == IF Listed THEN [bus[b] EXCEPT !.pc = "displace", !.joins = entry]
                            ELSE [bus[b] EXCEPT !.pc = "in"]
  <1>1. /\ bus[b].pc = "wait" /\ OwnInv(b) /\ bus[b] \in BusState
        /\ cap[own].thread \in {"loop", "left", "ended"}
        /\ entry # NoCapture => entry \in Captures /\ cap[entry].failed
    BY <1>t DEF Publish, SetUp, SomeoneWasFirst, Alive, Listed, FeedsInv, FeedsTypeOK, BusInv
  <1>2. own \in Captures /\ own # NoCapture /\ own # entry /\ bus[b].joins = NoCapture
    BY <1>1 DEF OwnInv, BusState
  <1>r. /\ r \in BusState /\ r.pc \in {"in", "displace"} /\ r.cap = own
        /\ r.joins \in {entry, NoCapture}
    BY <1>1, <1>2 DEF BusState, Joins, Listed
  <1>3. entry' = own /\ cap' = cap /\ bus' = [bus EXCEPT ![b] = r]
    BY <1>t DEF Publish, FeedsTypeOK
  <1> HIDE DEF r
  <1>4. /\ bus' \in [Buses -> BusState] /\ bus'[b] = r
        /\ \A x \in Buses \ {b} : bus'[x] = bus[x]
    BY <1>t, <1>3, <1>r DEF FeedsTypeOK
  <1>5. FeedsTypeOK' /\ EntryInv'
    BY <1>t, <1>1, <1>2, <1>3, <1>4 DEF FeedsTypeOK, EntryInv, OwnInv
  <1> HIDE DEF own
  <1>6. ASSUME NEW c \in Captures PROVE CapInv(c)'
    <2>1. CapInv(c)
      BY DEF FeedsInv
    <2>2. \A x \in Buses : bus[x].cap = c /\ c # own => bus'[x] = bus[x]
      BY <1>4 DEF own
    <2>3. c = own => c = entry' /\ cap[c].thread # "setup"
      BY <1>1, <1>3 DEF own
    <2>4. c = entry => cap[c].thread # "loop"
      BY <1>1, <2>1, FeedsAssumption DEF CapInv
    <2> QED BY <1>3, <2>1, <2>2, <2>3, <2>4 DEF CapInv
  <1>7. ASSUME NEW x \in Buses PROVE BusInv(x)'
    <2>1. CASE x = b
      BY <1>1, <1>2, <1>3, <1>4, <1>r, <2>1 DEF BusInv, FedInv, OwnInv, own
    <2>2. CASE x # b
      <3>1. bus'[x] = bus[x] /\ BusInv(x) /\ bus[x].cap # own
        BY <1>1, <1>4, <2>2 DEF FeedsInv, OwnInv, Refers, own
      <3>2. bus[x].pc = "wait" => OwnInv(x)'
        BY <1>2, <1>3, <1>4, <1>r, <3>1 DEF BusInv, OwnInv, Refers
      <3>3. bus[x].pc \in {"in", "retire", "displace"} => FedInv(x)'
        BY <1>1, <1>3, <3>1 DEF BusInv, FedInv
      <3> QED BY <3>1, <3>2, <3>3 DEF BusInv
    <2> QED BY <2>1, <2>2
  <1> QED BY <1>5, <1>6, <1>7 DEF FeedsInv

(* The record of a refused capture was its creator's alone.                *)
LEMMA RefusedKeepsFeeds == ASSUME FeedsInv, NEW b \in Buses, Refused(b) PROVE FeedsInv'
  <1>t. FeedsTypeOK
    BY DEF FeedsInv
  <1> DEFINE own == bus[b].cap
  <1>1. bus[b].pc = "wait" /\ OwnInv(b) /\ own \in Captures /\ own # entry
    BY <1>t DEF Refused, FeedsInv, FeedsTypeOK, BusInv, OwnInv, BusState
  <1>2. /\ cap' = [cap EXCEPT ![own] = NoThread]
        /\ bus' = [bus EXCEPT ![b] = Outside] /\ entry' = entry
    BY DEF Refused
  <1>3. /\ cap' \in [Captures -> Capture] /\ cap'[own] = NoThread
        /\ \A c \in Captures \ {own} : cap'[c] = cap[c]
        /\ bus' \in [Buses -> BusState] /\ bus'[b] = Outside
        /\ \A x \in Buses \ {b} : bus'[x] = bus[x]
    BY <1>t, <1>1, <1>2, Blank DEF FeedsTypeOK
  <1>4. FeedsTypeOK' /\ EntryInv'
    BY <1>t, <1>1, <1>2, <1>3 DEF FeedsInv, FeedsTypeOK, EntryInv
  <1> HIDE DEF own
  <1>5. ASSUME NEW c \in Captures PROVE CapInv(c)'
    <2>1. CapInv(c)
      BY DEF FeedsInv
    <2>2. CASE c = own
      BY <1>3, <2>2, Blank DEF CapInv
    <2>3. CASE c # own
      <3>1. cap'[c] = cap[c] /\ entry' = entry
        BY <1>2, <1>3, <2>3
      <3>2. \A x \in Buses : bus[x].cap = c => bus'[x] = bus[x]
        BY <1>3, <2>3 DEF own
      <3> QED BY <2>1, <3>1, <3>2 DEF CapInv
    <2> QED BY <2>2, <2>3
  <1>6. ASSUME NEW x \in Buses PROVE BusInv(x)'
    <2>1. CASE x = b
      BY <1>3, <2>1, Blank DEF BusInv
    <2>2. CASE x # b
      <3>1. bus'[x] = bus[x] /\ BusInv(x) /\ bus[x] \in BusState /\ bus[x].cap # own
        BY <1>t, <1>1, <1>3, <2>2 DEF FeedsInv, FeedsTypeOK, OwnInv, Refers, own
      <3>2. bus[x].cap # NoCapture => cap'[bus[x].cap] = cap[bus[x].cap]
        BY <1>3, <3>1 DEF BusState
      <3>3. bus[x].pc = "wait" => OwnInv(x)'
        BY <1>2, <1>3, <3>1, <3>2, Blank DEF BusInv, OwnInv, Refers
      <3>4. bus[x].pc \in {"in", "retire", "displace"} => FedInv(x)'
        BY <1>2, <3>1, <3>2 DEF BusInv, FedInv
      <3> QED BY <3>1, <3>3, <3>4 DEF BusInv
    <2> QED BY <2>1, <2>2
  <1> QED BY <1>4, <1>5, <1>6 DEF FeedsInv

(* The last one out stops the capture that is listed, which is then        *)
(* nobody's: whoever else it fed would be among its subscribers.           *)
LEMMA UnsubscribeKeepsFeeds ==
    ASSUME FeedsInv, NEW b \in Buses, Unsubscribe(b) PROVE FeedsInv'
  <1>t. FeedsTypeOK /\ bus[b].pc = "in"
    BY DEF FeedsInv, Unsubscribe
  <1>1. CASE ~Listed
    <2>1. bus' = [bus EXCEPT ![b] = Outside] /\ UNCHANGED <<entry, cap>>
      BY <1>1 DEF Unsubscribe
    <2> QED BY <1>t, <2>1, Blank, BusMoves
  <1>2. CASE Listed
    <2> DEFINE left == cap[entry].subs \ {b}
               n == [cap[entry] EXCEPT !.subs = left, !.stop = @ \/ Emptied(left)]
               r == IF Emptied(left) THEN [Outside EXCEPT !.pc = "last", !.joins = entry]
                                     ELSE Outside
    <2>1. entry \in Captures /\ cap[entry] \in Capture
      BY <1>t, <1>2 DEF Listed, FeedsTypeOK
    <2>2. /\ cap' = [cap EXCEPT ![entry] = n] /\ bus' = [bus EXCEPT ![b] = r]
          /\ entry' = IF Emptied(left) THEN NoCapture ELSE entry
      BY <1>t, <1>2 DEF Unsubscribe, FeedsTypeOK
    <2>3. /\ n \in Capture /\ n.thread = cap[entry].thread /\ n.failed = cap[entry].failed
          /\ n.subs = left /\ (n.stop <=> cap[entry].stop \/ Emptied(left))
      BY <2>1 DEF Capture, Emptied
    <2>4. /\ r \in BusState /\ r.pc \in {"last", "out"} /\ r.cap = NoCapture
          /\ r.joins \in {NoCapture, entry}
      BY <2>1, Blank DEF BusState, Joins
    <2> HIDE DEF n, r
    <2>5. /\ cap' \in [Captures -> Capture] /\ cap'[entry] = n
          /\ \A c \in Captures \ {entry} : cap'[c] = cap[c]
          /\ bus' \in [Buses -> BusState] /\ bus'[b] = r
          /\ \A x \in Buses \ {b} : bus'[x] = bus[x]
      BY <1>t, <2>1, <2>2, <2>3, <2>4 DEF FeedsTypeOK
    <2>6. FeedsTypeOK'
      BY <1>t, <2>2, <2>5 DEF FeedsTypeOK
    <2>7. EntryInv'
      BY <1>2, <2>2, <2>3, <2>5 DEF FeedsInv, EntryInv, Listed
    <2>8. ASSUME NEW c \in Captures PROVE CapInv(c)'
      <3>1. CapInv(c) /\ cap[entry].thread # "setup"
        BY <1>2 DEF FeedsInv, EntryInv, Listed
      <3>2. \A x \in Buses : bus[x].pc = "wait" => bus'[x] = bus[x]
        BY <1>t, <2>5
      <3>3. CASE c = entry
        BY <2>2, <2>3, <2>5, <3>1, <3>3 DEF CapInv
      <3>4. CASE c # entry
        BY <2>5, <3>1, <3>2, <3>4 DEF CapInv
      <3> QED BY <3>3, <3>4
    <2>9. ASSUME NEW x \in Buses PROVE BusInv(x)'
      <3>1. CASE x = b
        BY <2>4, <2>5, <3>1 DEF BusInv
      <3>2. CASE x # b
        <4>1. bus'[x] = bus[x] /\ BusInv(x) /\ bus[x] \in BusState
          BY <1>t, <2>5, <3>2 DEF FeedsInv, FeedsTypeOK
        <4>2. bus[x].pc = "wait" => OwnInv(x)'
          <5> SUFFICES ASSUME bus[x].pc = "wait" PROVE OwnInv(x)'
            OBVIOUS
          <5>1. OwnInv(x) /\ bus[x].cap \in Captures \ {entry}
            BY <4>1 DEF BusInv, OwnInv, BusState
          <5>2. cap'[bus[x].cap] = cap[bus[x].cap] /\ bus[x].cap \notin {entry', NoCapture}
            BY <2>2, <2>5, <5>1, FeedsAssumption
          <5> QED BY <2>4, <2>5, <4>1, <5>1, <5>2 DEF OwnInv, Refers
        <4>3. bus[x].pc \in {"in", "retire", "displace"} => FedInv(x)'
          <5> SUFFICES ASSUME bus[x].pc \in {"in", "retire", "displace"} PROVE FedInv(x)'
            OBVIOUS
          <5>1. FedInv(x) /\ bus[x].cap \in Captures
            BY <4>1 DEF BusInv, FedInv, BusState
          <5>2. CASE bus[x].cap = entry
            <6>1. x \in left
              BY <3>2, <5>1, <5>2 DEF FedInv
            <6> QED BY <2>2, <2>3, <2>5, <4>1, <5>1, <5>2, <6>1 DEF FedInv, Emptied
          <5>3. CASE bus[x].cap # entry
            BY <2>5, <4>1, <5>1, <5>3 DEF FedInv
          <5> QED BY <5>2, <5>3
        <4> QED BY <4>1, <4>2, <4>3 DEF BusInv
      <3> QED BY <3>1, <3>2
    <2> QED BY <2>6, <2>7, <2>8, <2>9 DEF FeedsInv
  <1> QED BY <1>1, <1>2

(* A step of a capture thread: what it records, and for whom, stays.       *)
LEMMA ThreadMoves ==
    ASSUME FeedsInv, NEW c \in Captures, NEW n \in Capture, cap' = [cap EXCEPT ![c] = n],
           UNCHANGED <<entry, bus>>, n.subs = cap[c].subs, n.stop = cap[c].stop,
           cap[c].failed => n.failed, n.failed => n.thread = "ended",
           n.thread \in {"loop", "left", "ended", "refused"},
           n.thread = "loop" => cap[c].thread = "setup",
           n.thread = "refused" => cap[c].thread = "setup"
    PROVE  FeedsInv'
  <1>t. FeedsTypeOK
    BY DEF FeedsInv
  <1>1. cap' \in [Captures -> Capture] /\ cap'[c] = n /\ \A d \in Captures \ {c} : cap'[d] = cap[d]
    BY <1>t DEF FeedsTypeOK
  <1>2. FeedsTypeOK'
    BY <1>t, <1>1 DEF FeedsTypeOK
  <1>3. EntryInv'
    BY <1>1 DEF FeedsInv, EntryInv
  <1>4. ASSUME NEW d \in Captures PROVE CapInv(d)'
    <2>1. CapInv(d)
      BY DEF FeedsInv
    <2>2. CASE d = c
      BY <1>1, <2>1, <2>2 DEF CapInv
    <2>3. CASE d # c
      BY <1>1, <2>1, <2>3 DEF CapInv
    <2> QED BY <2>2, <2>3
  <1>5. ASSUME NEW x \in Buses PROVE BusInv(x)'
    <2>1. BusInv(x) /\ bus[x] \in BusState
      BY <1>t DEF FeedsInv, FeedsTypeOK
    <2>2. bus[x].pc = "wait" => OwnInv(x)'
      BY <1>1, <2>1 DEF BusInv, OwnInv, Refers, BusState
    <2>3. bus[x].pc \in {"in", "retire", "displace"} => FedInv(x)'
      BY <1>1, <2>1 DEF BusInv, FedInv, BusState
    <2> QED BY <2>2, <2>3 DEF BusInv
  <1> QED BY <1>2, <1>3, <1>4, <1>5 DEF FeedsInv

LEMMA CaptureKeepsFeeds ==
    ASSUME FeedsInv, NEW c \in Captures, CaptureStep(c) PROVE FeedsInv'
  <1>1. cap[c] \in Capture /\ CapInv(c)
    BY DEF FeedsInv, FeedsTypeOK
  <1>2. ASSUME NEW from \in Threads, NEW to \in {"loop", "left", "refused"}, Become(c, from, to),
               to # "left" => from = "setup", from \in {"setup", "loop"}
        PROVE  FeedsInv'
    <2> DEFINE n == [cap[c] EXCEPT !.thread = to]
    <2>1. cap' = [cap EXCEPT ![c] = n] /\ UNCHANGED <<entry, bus>> /\ cap[c].thread = from
      BY <1>2 DEF Become, FeedsInv, FeedsTypeOK
    <2>2. /\ n \in Capture /\ n.thread = to /\ n.subs = cap[c].subs
          /\ n.stop = cap[c].stop /\ n.failed = cap[c].failed
      BY <1>1 DEF Capture, Threads
    <2>3. ~cap[c].failed
      BY <1>1, <1>2, <2>1 DEF CapInv
    <2> HIDE DEF n
    <2> QED BY <1>2, <2>1, <2>2, <2>3, ThreadMoves
  <1>3. ASSUME Finish(c) PROVE FeedsInv'
    <2> DEFINE n == [cap[c] EXCEPT !.thread = "ended", !.failed = ~cap[c].stop]
    <2>1. cap' = [cap EXCEPT ![c] = n] /\ UNCHANGED <<entry, bus>> /\ cap[c].thread = "left"
      BY <1>3 DEF Finish, FeedsInv, FeedsTypeOK
    <2>2. n \in Capture /\ n.thread = "ended" /\ n.subs = cap[c].subs /\ n.stop = cap[c].stop
      BY <1>1 DEF Capture, Threads
    <2>3. ~cap[c].failed
      BY <1>1, <2>1 DEF CapInv
    <2> HIDE DEF n
    <2> QED BY <2>1, <2>2, <2>3, ThreadMoves
  <1>4. ASSUME SetupOk(c) PROVE FeedsInv'
    BY <1>2, <1>4 DEF SetupOk, Threads
  <1>5. ASSUME SetupFails(c) PROVE FeedsInv'
    BY <1>2, <1>5 DEF SetupFails, Threads
  <1>6. ASSUME SeeStop(c) \/ ReadFails(c) PROVE FeedsInv'
    BY <1>2, <1>6 DEF SeeStop, ReadFails, Threads
  <1> QED BY <1>3, <1>4, <1>5, <1>6 DEF CaptureStep

LEMMA FeedsStep == ASSUME FeedsInv, [FeedsNext]_feedsVars PROVE FeedsInv'
  <1>1. ASSUME UNCHANGED feedsVars PROVE FeedsInv'
    BY <1>1 DEF feedsVars, FeedsInv, FeedsTypeOK, EntryInv, CapInv, BusInv, OwnInv, FedInv, Refers
  <1>2. ASSUME NEW b \in Buses, BusStep(b) PROVE FeedsInv'
    BY <1>2, AttachKeepsFeeds, EvictKeepsFeeds, MissKeepsFeeds, SpawnKeepsFeeds, RetireKeepsFeeds,
       PublishKeepsFeeds, RefusedKeepsFeeds, JoinKeepsFeeds, UnsubscribeKeepsFeeds DEF BusStep
  <1> QED BY <1>1, <1>2, CaptureKeepsFeeds DEF FeedsNext

LEMMA FeedsInvIsSafe == FeedsInv => FeedsAreSafe
  <1> SUFFICES ASSUME FeedsInv PROVE NoCaptureIsLeaked /\ EveryoneHears
    BY DEF FeedsAreSafe
  <1>1. NoCaptureIsLeaked
    BY DEF FeedsInv, CapInv, NoCaptureIsLeaked
  <1>2. EveryoneHears
    <2> SUFFICES ASSUME NEW b \in Buses, bus[b].pc \in {"in", "retire", "displace"}
                 PROVE  /\ b \in cap[bus[b].cap].subs
                        /\ \/ bus[b].cap = entry /\ ~cap[entry].stop
                           \/ cap[bus[b].cap].failed
      BY DEF EveryoneHears
    <2> QED BY DEF FeedsInv, BusInv, FedInv, EntryInv
  <1> QED BY <1>1, <1>2

-----------------------------------------------------------------------------
(* The engine's start and drop *)

Held == open.streams \union open.loopbacks \union open.phones

(* Where the thread may be while the caller is where it is.                *)
PhaseInv == /\ caller.pc = "none" => thread = "none"
            /\ caller.pc = "starting" => thread \in {"output", "inputs", "build", "play", "undo"}
            /\ caller.pc = "running" => thread = "parked"
            /\ caller.pc = "failed" => thread \in {"none", "ended"}
            /\ caller.pc = "dropping" => thread \in {"parked", "drop output", "drop inputs",
                                            "drop subscriptions", "drop phones", "ended"}
            /\ caller.pc = "dropped" => thread = "ended"

(* The vectors have an entry for each source so far, in the order asked.   *)
VectorsInv == /\ Len(built.channels) = Len(built.consumers)
              /\ Len(built.errors) = Len(built.consumers)
              /\ Len(built.fills) = Len(built.consumers)
              /\ Len(built.consumers) <= Len(specs)
              /\ \A k \in 1..Len(built.consumers) :
                    built.consumers[k] = specs[k] /\ built.fills[k] = specs[k]
              /\ thread \in {"build", "play", "parked"} => Len(built.consumers) = Len(specs)

(* Until the drop begins an input holds something unless its slot is       *)
(* silent; then the output goes, the streams, the captures and the phones. *)
HeldInv == /\ thread \in {"output", "inputs", "build", "play", "parked", "undo", "drop output"} =>
                /\ Held \subseteq 1..Len(built.consumers)
                /\ \A k \in 1..Len(built.consumers) : built.errors[k] = "none" <=> k \in Held
           /\ open.output => thread \in {"play", "parked", "undo", "drop output"}
           /\ thread \in {"none", "output", "ended"} => open = Nothing
           /\ thread \in {"drop subscriptions", "drop phones"} => open.streams = {}
           /\ thread = "drop phones" => open.loopbacks = {}

(* A running engine has told its caller of every source and of its error.  *)
ToldInv == caller.pc = "running" =>
             /\ Len(caller.inputs) = Len(specs)
             /\ \A k \in DOMAIN specs : caller.inputs[k] = <<specs[k], built.errors[k]>>

EngineInv == EngineStartTypeOK /\ PhaseInv /\ VectorsInv /\ HeldInv /\ ToldInv

LEMMA InitEngine == EngineStartInit => EngineInv
  <1> SUFFICES ASSUME EngineStartInit PROVE EngineInv
    OBVIOUS
  <1>1. EngineStartTypeOK
    BY DEF EngineStartInit, EngineStartTypeOK, Nothing, NoSlots, Vectors, Holders
  <1>2. built.consumers = <<>> /\ built.channels = <<>> /\ built.errors = <<>> /\ built.fills = <<>>
    BY DEF EngineStartInit, NoSlots
  <1>3. PhaseInv /\ VectorsInv /\ ToldInv
    BY <1>2 DEF EngineStartInit, PhaseInv, VectorsInv, ToldInv
  <1>4. HeldInv
    BY <1>2 DEF EngineStartInit, HeldInv, Nothing
  <1> QED BY <1>1, <1>3, <1>4 DEF EngineInv

Callers == [pc : {"none", "starting", "running", "failed", "dropping", "dropped"},
            inputs : Seq(Kinds \X {"none", "silent"}), tap : BOOLEAN]

(* A start finds everything closed, and its vectors empty.                 *)
LEMMA StartKeepsEngine ==
    ASSUME EngineInv, Idle, NEW s \in Seq(Kinds), NEW c \in Callers,
           NEW t \in {"none", "output", "inputs"}, specs' = s, built' = NoSlots,
           caller' = c, thread' = t, open' = open,
           \/ c.pc = "starting" /\ t \in {"output", "inputs"}
           \/ c.pc = "failed" /\ t = "none"
    PROVE  EngineInv'
  <1>1. open = Nothing
    BY DEF EngineInv, Idle, PhaseInv, HeldInv
  <1>2. /\ built'.consumers = <<>> /\ built'.channels = <<>>
        /\ built'.errors = <<>> /\ built'.fills = <<>> /\ built' \in Vectors
    BY DEF NoSlots, Vectors
  <1>3. EngineStartTypeOK'
    BY <1>2 DEF EngineInv, EngineStartTypeOK, Callers
  <1>4. PhaseInv' /\ ToldInv'
    BY DEF PhaseInv, ToldInv
  <1>5. VectorsInv'
    BY <1>2 DEF VectorsInv
  <1>6. Held' = {} /\ open'.streams = {} /\ open'.loopbacks = {} /\ ~open'.output /\ open' = Nothing
    BY <1>1 DEF Held, Nothing
  <1>7. HeldInv'
    <2>1. Len(built'.consumers) = 0
      BY <1>2
    <2>2. \A k \in 1..Len(built'.consumers) : FALSE
      BY <2>1
    <2> QED BY <1>6, <2>2 DEF HeldInv
  <1> QED BY <1>3, <1>4, <1>5, <1>7 DEF EngineInv

(* The caller drops the engine, or finds its thread ended.                 *)
LEMMA DropKeepsEngine == ASSUME EngineInv, DropEngine \/ JoinEngine PROVE EngineInv'
  <1>1. UNCHANGED <<thread, specs, built, open>>
    BY DEF DropEngine, JoinEngine
  <1>c. caller \in Callers
    BY DEF EngineInv, EngineStartTypeOK, Callers
  <1>d. caller' \in Callers
    <2>1. CASE DropEngine
      BY <1>c, <2>1 DEF DropEngine, Callers
    <2>2. CASE JoinEngine
      <3> DEFINE none == <<>>
      <3>1. none \in Seq(Kinds \X {"none", "silent"})
        OBVIOUS
      <3>2. caller' = [caller EXCEPT !.pc = "dropped", !.inputs = none]
        BY <2>2 DEF JoinEngine
      <3> HIDE DEF none
      <3> QED BY <1>c, <3>1, <3>2 DEF Callers
    <2> QED BY <2>1, <2>2
  <1>2. EngineStartTypeOK'
    BY <1>1, <1>d DEF EngineInv, EngineStartTypeOK, Callers
  <1>3. PhaseInv' /\ ToldInv'
    BY <1>1 DEF EngineInv, EngineStartTypeOK, DropEngine, JoinEngine, PhaseInv, ToldInv
  <1>4. VectorsInv' /\ HeldInv'
    BY <1>1 DEF EngineInv, VectorsInv, HeldInv, Held
  <1> QED BY <1>2, <1>3, <1>4 DEF EngineInv

(* An input gets the next entry of each vector, and holds something or is  *)
(* silent.                                                                 *)
LEMMA SlotAdded ==
    ASSUME EngineInv, NEW kind \in Kinds, NEW error \in {"none", "silent"}, Turn(kind),
           built' = WithSlot(kind, error), UNCHANGED <<thread, caller, specs>>,
           open' \in Holders, open'.output = open.output,
           Held' = IF error = "none" THEN Held \union {Here} ELSE Held
    PROVE  EngineInv'
  <1> DEFINE n == Len(built.consumers)
  <1>t. /\ built.consumers \in Seq(Kinds) /\ built.channels \in Seq(Kinds)
        /\ built.errors \in Seq({"none", "silent"}) /\ built.fills \in Seq(Kinds)
        /\ specs \in Seq(Kinds)
    BY DEF EngineInv, EngineStartTypeOK, Vectors
  <1>1. /\ built'.consumers = Append(built.consumers, kind)
        /\ built'.channels = Append(built.channels, kind)
        /\ built'.errors = Append(built.errors, error)
        /\ built'.fills = Append(built.fills, kind)
        /\ built' \in Vectors
    <2> DEFINE c == Append(built.consumers, kind)
               h == Append(built.channels, kind)
               e == Append(built.errors, error)
               f == Append(built.fills, kind)
    <2>1. c \in Seq(Kinds) /\ h \in Seq(Kinds) /\ e \in Seq({"none", "silent"}) /\ f \in Seq(Kinds)
      BY <1>t
    <2>2. built' = [consumers |-> c, channels |-> h, errors |-> e, fills |-> f]
      BY DEF WithSlot
    <2>3. c = Append(built.consumers, kind) /\ h = Append(built.channels, kind)
          /\ e = Append(built.errors, error) /\ f = Append(built.fills, kind)
      OBVIOUS
    <2> HIDE DEF c, h, e, f
    <2>4. built'.consumers = c /\ built'.channels = h /\ built'.errors = e /\ built'.fills = f
      BY <2>2
    <2> QED BY <2>1, <2>2, <2>3, <2>4 DEF Vectors
  <1>2. /\ thread = "inputs" /\ n \in Nat /\ n + 1 <= Len(specs) /\ specs[n + 1] = kind
        /\ Len(built.channels) = n /\ Len(built.errors) = n /\ Len(built.fills) = n
        /\ Here = n + 1
    BY <1>t DEF EngineInv, VectorsInv, Turn, Here, At
  <1>3. /\ Len(built'.consumers) = n + 1 /\ Len(built'.channels) = n + 1
        /\ Len(built'.errors) = n + 1 /\ Len(built'.fills) = n + 1
        /\ built'.consumers[n + 1] = kind /\ built'.fills[n + 1] = kind
        /\ built'.errors[n + 1] = error
        /\ \A k \in 1..n : /\ built'.consumers[k] = built.consumers[k]
                           /\ built'.fills[k] = built.fills[k]
                           /\ built'.errors[k] = built.errors[k]
    <2>1. /\ Len(built'.consumers) = n + 1 /\ built'.consumers[n + 1] = kind
          /\ \A k \in 1..n : built'.consumers[k] = built.consumers[k]
      BY <1>t, <1>1, <1>2
    <2>2. /\ Len(built'.fills) = n + 1 /\ built'.fills[n + 1] = kind
          /\ \A k \in 1..n : built'.fills[k] = built.fills[k]
      BY <1>t, <1>1, <1>2
    <2>3. /\ Len(built'.errors) = n + 1 /\ built'.errors[n + 1] = error
          /\ \A k \in 1..n : built'.errors[k] = built.errors[k]
      BY <1>t, <1>1, <1>2
    <2>4. Len(built'.channels) = n + 1
      BY <1>t, <1>1, <1>2
    <2> QED BY <2>1, <2>2, <2>3, <2>4
  <1>4. \A k \in 1..(n + 1) : k \in 1..n \/ k = n + 1
    BY <1>2
  <1>5. EngineStartTypeOK'
    BY <1>1 DEF EngineInv, EngineStartTypeOK
  <1>6. PhaseInv' /\ ToldInv'
    BY <1>2 DEF EngineInv, PhaseInv, ToldInv
  <1>7. \A k \in 1..n : built.consumers[k] = specs[k] /\ built.fills[k] = specs[k]
    BY DEF EngineInv, VectorsInv
  <1>8. VectorsInv'
    <2>1. \A k \in 1..(n + 1) : built'.consumers[k] = specs'[k] /\ built'.fills[k] = specs'[k]
      BY <1>2, <1>3, <1>4, <1>7
    <2> QED BY <1>2, <1>3, <2>1 DEF VectorsInv
  <1>9. HeldInv'
    <2>1. /\ Held \subseteq 1..n /\ (\A k \in 1..n : built.errors[k] = "none" <=> k \in Held)
          /\ ~open.output
      BY <1>2 DEF EngineInv, HeldInv
    <2>2. Held' \subseteq 1..(n + 1)
      BY <1>2, <2>1
    <2>3. \A k \in 1..(n + 1) : built'.errors[k] = "none" <=> k \in Held'
      BY <1>2, <1>3, <1>4, <2>1
    <2> QED BY <1>2, <1>3, <2>1, <2>2, <2>3 DEF HeldInv
  <1> QED BY <1>5, <1>6, <1>8, <1>9 DEF EngineInv

LEMMA InputsKeepEngine ==
    ASSUME EngineInv, AddDevice \/ AddLoopback \/ AddPhone PROVE EngineInv'
  <1>b. built.consumers \in Seq(Kinds) /\ open \in Holders
    BY DEF EngineInv, EngineStartTypeOK, Vectors
  <1>t. open \in Holders /\ Here \in Nat
    BY <1>b DEF Here
  <1>1. ASSUME AddDevice PROVE EngineInv'
    <2>1. /\ Turn("device") /\ built' = WithSlot("device", "none")
          /\ open' = [open EXCEPT !.streams = open.streams \union {Here}]
          /\ UNCHANGED <<thread, caller, specs>>
      BY <1>1 DEF AddDevice, Quiet
    <2>2. /\ open' \in Holders /\ open'.output = open.output
          /\ open'.streams = open.streams \union {Here}
          /\ open'.loopbacks = open.loopbacks /\ open'.phones = open.phones
      BY <1>t, <2>1 DEF Holders
    <2>3. Held' = Held \union {Here}
      BY <2>2 DEF Held
    <2> QED BY <2>1, <2>2, <2>3, SlotAdded DEF Kinds
  <1>2. ASSUME AddLoopback PROVE EngineInv'
    <2>1. Turn("loopback") /\ UNCHANGED <<thread, caller, specs>>
      BY <1>2 DEF AddLoopback, Quiet
    <2>2. CASE built' = WithSlot("loopback", "none") /\ open' = [open EXCEPT !.loopbacks = open.loopbacks \union {Here}]
      <3>1. /\ open' \in Holders /\ open'.output = open.output
            /\ open'.loopbacks = open.loopbacks \union {Here}
            /\ open'.streams = open.streams /\ open'.phones = open.phones
        BY <1>t, <2>2 DEF Holders
      <3>2. Held' = Held \union {Here}
        BY <3>1 DEF Held
      <3> QED BY <2>1, <2>2, <3>1, <3>2, SlotAdded DEF Kinds
    <2>3. CASE built' = WithSlot("loopback", "silent") /\ open' = open
      <3>1. Held' = Held
        BY <2>3 DEF Held
      <3> QED BY <1>t, <2>1, <2>3, <3>1, SlotAdded DEF Kinds
    <2> QED BY <1>2, <2>2, <2>3 DEF AddLoopback
  <1>3. ASSUME AddPhone PROVE EngineInv'
    <2>1. /\ Turn("phone") /\ built' = WithSlot("phone", "none")
          /\ open' = [open EXCEPT !.phones = open.phones \union {Here}]
          /\ UNCHANGED <<thread, caller, specs>>
      BY <1>3 DEF AddPhone, PhoneSlot, Quiet
    <2>2. /\ open' \in Holders /\ open'.output = open.output
          /\ open'.phones = open.phones \union {Here}
          /\ open'.streams = open.streams /\ open'.loopbacks = open.loopbacks
      BY <1>t, <2>1 DEF Holders
    <2>3. Held' = Held \union {Here}
      BY <2>2 DEF Held
    <2> QED BY <2>1, <2>2, <2>3, SlotAdded DEF Kinds
  <1> QED BY <1>1, <1>2, <1>3

(* The steps of the thread between the inputs, the report and the drop.    *)
LEMMA ThreadGoesOn ==
    ASSUME EngineInv, UNCHANGED <<caller, specs, built>>,
           \/ FindOutput \/ Fails \/ AllAdded \/ ReceiveStop
    PROVE  EngineInv'
  <1>1. open' = open
    BY DEF FindOutput, Fails, AllAdded, ReceiveStop
  <1>t. /\ built.consumers \in Seq(Kinds) /\ specs \in Seq(Kinds)
        /\ caller.tap \in BOOLEAN /\ Held' = Held
    BY <1>1 DEF EngineInv, EngineStartTypeOK, Vectors, Held
  <1>2. \/ thread = "output" /\ thread' = "inputs"
        \/ thread \in {"output", "build", "play", "inputs"} /\ thread' = "undo"
        \/ thread = "inputs" /\ thread' \in {"build", "play"} /\ Len(built.consumers) + 1 > Len(specs)
        \/ thread = "parked" /\ thread' = "drop output" /\ caller.pc = "dropping"
    BY DEF FindOutput, Fails, AllAdded, ReceiveStop, At, Goto, Here
  <1>3. EngineStartTypeOK'
    BY <1>1, <1>2 DEF EngineInv, EngineStartTypeOK
  <1>4. PhaseInv' /\ ToldInv'
    BY <1>2 DEF EngineInv, EngineStartTypeOK, PhaseInv, ToldInv
  <1>5. Len(built.consumers) + 1 > Len(specs) => Len(built.consumers) = Len(specs)
    BY <1>t DEF EngineInv, VectorsInv
  <1>6. VectorsInv'
    BY <1>2, <1>5 DEF EngineInv, VectorsInv
  <1>7. HeldInv'
    BY <1>1, <1>t, <1>2 DEF EngineInv, HeldInv
  <1> QED BY <1>3, <1>4, <1>6, <1>7 DEF EngineInv

(* The output is built last: by then every input holds what it will.       *)
LEMMA OutputKeepsEngine == ASSUME EngineInv, BuildOutput PROVE EngineInv'
  <1>t. open \in Holders /\ thread = "build" /\ thread' = "play"
        /\ UNCHANGED <<caller, specs, built>>
    BY DEF EngineInv, EngineStartTypeOK, BuildOutput, At, Goto, Quiet
  <1>1. /\ open' \in Holders /\ open'.streams = open.streams
        /\ open'.loopbacks = open.loopbacks /\ open'.phones = open.phones
    BY <1>t DEF BuildOutput, Holders
  <1>2. EngineStartTypeOK'
    BY <1>t, <1>1 DEF EngineInv, EngineStartTypeOK
  <1>3. PhaseInv' /\ ToldInv' /\ VectorsInv'
    BY <1>t DEF EngineInv, EngineStartTypeOK, PhaseInv, ToldInv, VectorsInv
  <1>4. Held' = Held
    BY <1>1 DEF Held
  <1>5. HeldInv'
    BY <1>t, <1>4 DEF EngineInv, HeldInv
  <1> QED BY <1>2, <1>3, <1>5 DEF EngineInv

(* The handle's inputs are as long as the sources, as no vector is shorter.*)
LEMMA ReportKeepsEngine == ASSUME EngineInv, Report PROVE EngineInv'
  <1> DEFINE n == Len(specs)
  <1>t. /\ specs \in Seq(Kinds) /\ built.errors \in Seq({"none", "silent"})
        /\ built.consumers \in Seq(Kinds) /\ caller \in Callers
    BY DEF EngineInv, EngineStartTypeOK, Vectors, Callers
  <1>1. /\ thread = "play" /\ thread' = "parked" /\ UNCHANGED <<specs, built, open>>
        /\ caller' = [caller EXCEPT !.pc = "running", !.inputs = Zipped]
    BY DEF Report, At, Goto
  <1>2. Len(built.channels) = n /\ Len(built.errors) = n /\ n \in Nat
    BY <1>t, <1>1 DEF EngineInv, VectorsInv
  <1>3. Zipped = [k \in 1..n |-> <<specs[k], built.errors[k]>>]
    BY <1>2 DEF Zipped, Shortest
  <1>4. /\ Zipped \in Seq(Kinds \X {"none", "silent"}) /\ Len(Zipped) = n
        /\ \A k \in 1..n : Zipped[k] = <<specs[k], built.errors[k]>>
    <2>1. \A k \in 1..n : specs[k] \in Kinds /\ built.errors[k] \in {"none", "silent"}
      BY <1>t, <1>2
    <2>2. Zipped \in [1..n -> Kinds \X {"none", "silent"}]
      BY <1>3, <2>1
    <2> QED BY <1>2, <1>3, <2>2
  <1>5. caller' \in Callers /\ caller'.pc = "running" /\ caller'.inputs = Zipped
    <2> DEFINE z == Zipped
    <2> HIDE DEF z
    <2>1. z \in Seq(Kinds \X {"none", "silent"})
      BY <1>4 DEF z
    <2>2. caller' = [caller EXCEPT !.pc = "running", !.inputs = z]
      BY <1>1 DEF z
    <2>3. caller' \in Callers /\ caller'.pc = "running" /\ caller'.inputs = z
      BY <1>t, <2>1, <2>2 DEF Callers
    <2> QED BY <2>3 DEF z
  <1>6. EngineStartTypeOK'
    BY <1>1, <1>5 DEF EngineInv, EngineStartTypeOK, Callers
  <1>7. PhaseInv' /\ VectorsInv'
    BY <1>1, <1>5 DEF EngineInv, PhaseInv, VectorsInv
  <1>8. Held' = Held
    BY <1>1 DEF Held
  <1>9. HeldInv'
    BY <1>1, <1>8 DEF EngineInv, HeldInv
  <1>10. DOMAIN specs = 1..n
    BY <1>t
  <1>11. ToldInv'
    BY <1>1, <1>4, <1>5, <1>10 DEF ToldInv
  <1> QED BY <1>6, <1>7, <1>9, <1>11 DEF EngineInv

LEMMA UndoKeepsEngine == ASSUME EngineInv, ReportError PROVE EngineInv'
  <1>1. /\ thread = "undo" /\ thread' = "ended" /\ UNCHANGED <<specs, built>> /\ open' = Nothing
        /\ caller' = [caller EXCEPT !.pc = "failed"] /\ caller \in Callers
    BY DEF EngineInv, EngineStartTypeOK, Callers, ReportError, At, Goto
  <1>2. caller' \in Callers /\ caller'.pc = "failed"
    BY <1>1 DEF Callers
  <1>3. open' \in Holders /\ ~open'.output
    BY <1>1 DEF Nothing, Holders
  <1>4. EngineStartTypeOK'
    BY <1>1, <1>2, <1>3 DEF EngineInv, EngineStartTypeOK, Callers
  <1>5. PhaseInv' /\ ToldInv' /\ VectorsInv'
    BY <1>1, <1>2 DEF EngineInv, PhaseInv, ToldInv, VectorsInv
  <1>6. HeldInv'
    BY <1>1, <1>3 DEF HeldInv
  <1> QED BY <1>4, <1>5, <1>6 DEF EngineInv

(* The drop releases one kind after the other, and at its end nothing is   *)
(* left.                                                                   *)
LEMMA ReleaseKeepsEngine ==
    ASSUME EngineInv, DropOutput \/ DropInputs \/ DropSubscriptions \/ DropPhones
    PROVE  EngineInv'
  <1>t. open \in Holders /\ UNCHANGED <<caller, specs, built>>
    BY DEF EngineInv, EngineStartTypeOK, DropOutput, DropInputs, DropSubscriptions, DropPhones,
       Released, Quiet
  <1>1. \/ thread = "drop output" /\ thread' = "drop inputs"
           /\ open' = [open EXCEPT !.output = FALSE]
        \/ thread = "drop inputs" /\ thread' = "drop subscriptions"
           /\ open' = [open EXCEPT !.streams = {}]
        \/ thread = "drop subscriptions" /\ thread' = "drop phones"
           /\ open' = [open EXCEPT !.loopbacks = {}]
        \/ thread = "drop phones" /\ thread' = "ended" /\ open' = [open EXCEPT !.phones = {}]
    BY DEF DropOutput, DropInputs, DropSubscriptions, DropPhones, Released, At, Goto
  <1>2. /\ open' \in Holders
        /\ thread' = "drop inputs" => ~open'.output
        /\ thread' = "drop subscriptions" => open'.output = open.output /\ open'.streams = {}
        /\ thread' = "drop phones" => /\ open'.output = open.output /\ open'.loopbacks = {}
                                      /\ open'.streams = open.streams
        /\ thread' = "ended" => /\ open'.output = open.output /\ open'.phones = {}
                                /\ open'.streams = open.streams
                                /\ open'.loopbacks = open.loopbacks
    BY <1>t, <1>1 DEF Holders
  <1>3. ~open'.output
    BY <1>1, <1>2 DEF EngineInv, HeldInv
  <1>4. thread' = "ended" => open' = Nothing
    <2> SUFFICES ASSUME thread' = "ended" PROVE open' = Nothing
      OBVIOUS
    <2>1. open'.streams = {} /\ open'.loopbacks = {} /\ open'.phones = {}
      BY <1>1, <1>2 DEF EngineInv, HeldInv
    <2> QED BY <1>2, <1>3, <2>1 DEF Holders, Nothing
  <1>5. EngineStartTypeOK'
    BY <1>t, <1>1, <1>2 DEF EngineInv, EngineStartTypeOK
  <1>6. PhaseInv' /\ ToldInv' /\ VectorsInv'
    BY <1>t, <1>1 DEF EngineInv, EngineStartTypeOK, PhaseInv, ToldInv, VectorsInv
  <1>7. HeldInv'
    BY <1>1, <1>2, <1>3, <1>4 DEF EngineInv, HeldInv
  <1> QED BY <1>5, <1>6, <1>7 DEF EngineInv

LEMMA EngineStep == ASSUME EngineInv, [EngineStartNext]_startVars PROVE EngineInv'
  <1>1. ASSUME UNCHANGED startVars PROVE EngineInv'
    <2>1. UNCHANGED <<caller, thread, specs, built, open>>
      BY <1>1 DEF startVars
    <2> QED BY <2>1 DEF EngineInv, EngineStartTypeOK, PhaseInv, VectorsInv, HeldInv, ToldInv, Held
  <1>2. ASSUME NEW s \in Specs, Start(s) PROVE EngineInv'
    <2> DEFINE none == <<>>
               c == [pc |-> IF Startable(s) THEN "starting" ELSE "failed",
                     inputs |-> none, tap |-> FALSE]
               t == IF Startable(s) THEN "output" ELSE "none"
    <2>1. s \in Seq(Kinds) /\ none \in Seq(Kinds \X {"none", "silent"})
      BY EngineStartAssumption
    <2>2. /\ Idle /\ specs' = s /\ built' = NoSlots /\ open' = open
          /\ caller' = c /\ thread' = t
      BY <1>2 DEF Start
    <2> HIDE DEF none
    <2>3. c \in Callers /\ c.pc = IF Startable(s) THEN "starting" ELSE "failed"
      BY <2>1 DEF Callers
    <2> HIDE DEF c
    <2> QED BY <2>1, <2>2, <2>3, StartKeepsEngine
  <1>3. ASSUME StartTap PROVE EngineInv'
    <2> DEFINE none == <<>>
               c == [pc |-> "starting", inputs |-> none, tap |-> TRUE]
    <2>1. <<"device">> \in Seq(Kinds) /\ none \in Seq(Kinds \X {"none", "silent"})
      BY DEF Kinds
    <2>2. /\ Idle /\ specs' = <<"device">> /\ built' = NoSlots /\ open' = open
          /\ caller' = c /\ thread' = "inputs"
      BY <1>3 DEF StartTap
    <2> HIDE DEF none
    <2>3. c \in Callers /\ c.pc = "starting"
      BY <2>1 DEF Callers
    <2> HIDE DEF c
    <2> QED BY <2>1, <2>2, <2>3, StartKeepsEngine
  <1>4. ASSUME FindOutput \/ Fails \/ AllAdded \/ ReceiveStop PROVE EngineInv'
    BY <1>4, ThreadGoesOn DEF FindOutput, Fails, AllAdded, ReceiveStop, Quiet
  <1>5. ASSUME EngineThread PROVE EngineInv'
    BY <1>4, <1>5, InputsKeepEngine, OutputKeepsEngine, ReportKeepsEngine, UndoKeepsEngine,
       ReleaseKeepsEngine DEF EngineThread
  <1> QED BY <1>1, <1>2, <1>3, <1>5, DropKeepsEngine DEF EngineStartNext

LEMMA EngineInvIsSafe == EngineInv => EngineIsSafe
  <1> SUFFICES ASSUME EngineInv PROVE SlotsAreAligned /\ ReleasedOnReturn
    BY DEF EngineIsSafe
  <1>t. /\ built.consumers \in Seq(Kinds) /\ built.fills \in Seq(Kinds) /\ specs \in Seq(Kinds)
        /\ built.errors \in Seq({"none", "silent"})
    BY DEF EngineInv, EngineStartTypeOK, Vectors
  <1>1. SlotsAreAligned
    <2> SUFFICES ASSUME caller.pc = "running"
                 PROVE  /\ Len(caller.inputs) = Len(specs)
                        /\ built.consumers = specs /\ built.fills = specs
                        /\ \A k \in DOMAIN specs :
                              /\ caller.inputs[k][1] = specs[k]
                              /\ caller.inputs[k][2] = "silent" <=> k \notin Held
      BY DEF SlotsAreAligned, Held
    <2>1. /\ thread = "parked" /\ Len(built.consumers) = Len(specs)
          /\ Len(built.fills) = Len(specs) /\ Len(built.errors) = Len(specs)
      BY DEF EngineInv, PhaseInv, VectorsInv
    <2>2. \A k \in 1..Len(specs) : built.consumers[k] = specs[k] /\ built.fills[k] = specs[k]
      BY <2>1 DEF EngineInv, VectorsInv
    <2>3. built.consumers = specs /\ built.fills = specs
      BY <1>t, <2>1, <2>2
    <2>4. ASSUME NEW k \in DOMAIN specs
          PROVE  caller.inputs[k][1] = specs[k] /\ (caller.inputs[k][2] = "silent" <=> k \notin Held)
      <3>1. k \in 1..Len(specs)
        BY <1>t
      <3>2. built.errors[k] \in {"none", "silent"}
        BY <1>t, <2>1, <3>1
      <3>3. built.errors[k] = "none" <=> k \in Held
        BY <2>1, <3>1 DEF EngineInv, HeldInv
      <3>4. caller.inputs[k] = <<specs[k], built.errors[k]>>
        BY DEF EngineInv, ToldInv
      <3> QED BY <3>2, <3>3, <3>4
    <2> QED BY <2>3, <2>4 DEF EngineInv, ToldInv
  <1>2. ReleasedOnReturn
    <2>1. Idle => open = Nothing
      BY DEF EngineInv, PhaseInv, HeldInv, Idle
    <2>2. ASSUME open.output, NEW k \in DOMAIN built.errors, built.errors[k] = "none"
          PROVE  k \in Held
      <3>1. k \in 1..Len(built.consumers)
        BY <1>t DEF EngineInv, VectorsInv
      <3> QED BY <2>2, <3>1 DEF EngineInv, HeldInv
    <2> QED BY <2>1, <2>2 DEF ReleasedOnReturn, Held
  <1> QED BY <1>1, <1>2

-----------------------------------------------------------------------------
(* The effects: the inductive invariant *)

Bounded == /\ config = [v \in Versions |-> config[v]]
           /\ \A v \in Versions : config[v].members \in [Groups -> SUBSET Slots]
           /\ gen \in 0..2 * MaxPublishes
           /\ stored \in [Fields -> Versions]
           /\ rd \in Reader
           /\ slots \in SlotState

(* A publish under way has stored some fields; between two, all agree.     *)
PublisherInv == \A f \in Fields : \/ stored[f] = Publishing
                                  \/ gen % 2 = 1 /\ stored[f] = Publishing - 1

(* A reload reads every field from the publish it started with or from a   *)
(* later one, and in the second case its last load of the generation can   *)
(* not return the value it started with.                                   *)
ReadInv == /\ rd.start % 2 = 0 /\ rd.start <= rd.due /\ rd.due <= gen
           /\ \A f \in Fields : rd.start \div 2 <= rd.saw[f]
           /\ \A f \in Fields : rd.snap[f] # -1 => /\ rd.start \div 2 <= rd.snap[f]
                                                   /\ rd.snap[f] <= stored[f]
                                                   /\ GenWithField(rd.snap[f]) <= rd.due

ReaderInv == /\ rd.sawGen <= gen
             /\ \A f \in Fields : rd.saw[f] <= stored[f]
             /\ rd.pc = "read" => ReadInv
             /\ rd.pc # "read" => \A f \in Fields : rd.snap[f] = -1

(* What the callback applies comes from one publish, and its state from    *)
(* what that publish enables.                                              *)
SlotsInv == /\ \A f, g \in Fields : slots.of[f] = slots.of[g]
            /\ \A f \in Fields : slots.of[f] <= Publishing
            /\ \A e \in Effects : On(slots.of, e) => slots.tail[e] # "stale"
            /\ \A g \in Groups : slots.held[g] \subseteq MembersOf(slots.of, g)

LiveInv == Bounded /\ PublisherInv /\ ReaderInv /\ SlotsInv

-----------------------------------------------------------------------------
(* Arithmetic, and what a publish does not change *)

LEMMA PublishBounds == MaxPublishes \in Nat /\ GenMod \in Nat /\ 2 * MaxPublishes < GenMod - 1
  BY LiveDspAssumption

(* Within the bound no two generations look alike.                         *)
LEMMA GenIsItself == ASSUME NEW k \in 0..2 * MaxPublishes PROVE k % GenMod = k /\ k \in 0..GenMod - 1
  BY PublishBounds

(* The number of the publish that is under way, or was the last.           *)
LEMMA PublishingBound ==
    ASSUME gen \in 0..2 * MaxPublishes
    PROVE  /\ Publishing \in Versions
           /\ gen % 2 = 0 => gen = 2 * Publishing
           /\ gen % 2 = 1 => gen = 2 * Publishing - 1
           /\ gen % 2 \in {0, 1}
  BY PublishBounds DEF Publishing, Versions

(* Every effect, every group and the order is a field.                     *)
LEMMA EffectsAreFields == Effects \subseteq Fields /\ Groups \subseteq Fields /\ "order" \in Fields
  BY DEF Fields

(* Larger is the maximum.                                                  *)
LEMMA LargerIs ==
    ASSUME NEW a \in Int, NEW b \in Int
    PROVE  Larger(a, b) \in {a, b} /\ Larger(a, b) >= a /\ Larger(a, b) >= b
  BY DEF Larger

(* What is applied looks the same after a step that leaves the publishes   *)
(* it was applied from alone.                                              *)
LEMMA SameSlots ==
    ASSUME LiveInv, UNCHANGED slots, Publishing' >= Publishing, Publishing' \in Int,
           \A v \in Versions : v <= Publishing => config'[v] = config[v]
    PROVE  SlotsInv'
  <1>1. \A f \in Fields : slots.of[f] \in Versions \union {-1}
    BY DEF LiveInv, Bounded, SlotState
  <1>2. Publishing \in Int
    BY PublishingBound DEF LiveInv, Bounded, Versions
  <1>3. \A f \in Fields : slots.of[f] = -1 \/ config'[slots.of[f]] = config[slots.of[f]]
    BY <1>1 DEF LiveInv, SlotsInv
  <1>4. \A f \in Fields : slots.of[f] <= Publishing'
    BY <1>1, <1>2, PublishBounds DEF LiveInv, SlotsInv, Versions
  <1>5. \A e \in Effects : On(slots.of, e)' <=> On(slots.of, e)
    BY <1>3, EffectsAreFields DEF On
  <1>6. \A g \in Groups : MembersOf(slots.of, g)' = MembersOf(slots.of, g)
    BY <1>3, EffectsAreFields DEF MembersOf
  <1> QED BY <1>4, <1>5, <1>6 DEF LiveInv, SlotsInv

-----------------------------------------------------------------------------
(* The publisher *)

(* EnterPublish: nothing that is in use is overwritten.                    *)
LEMMA EnterKeepsLive == ASSUME LiveInv, NEW c \in Sent, EnterPublish(c) PROVE LiveInv'
  <1>1. /\ gen % 2 = 0 /\ Publishing < MaxPublishes /\ gen' = gen + 1
        /\ UNCHANGED <<stored, rd, slots>>
    BY DEF EnterPublish
  <1>2. gen \in Nat /\ gen = 2 * Publishing /\ Publishing \in Versions
    BY <1>1, PublishingBound, PublishBounds DEF LiveInv, Bounded
  <1>3. Publishing' = Publishing + 1 /\ gen' % 2 = 1 /\ gen' \in 0..2 * MaxPublishes
    BY <1>1, <1>2, PublishBounds DEF Publishing, Versions
  <1>4. PICK x : /\ config' = [config EXCEPT ![Publishing + 1] = x]
                 /\ x.members \in [Groups -> SUBSET Slots]
    <2> DEFINE x == [c EXCEPT !.order = Packed(Normalized(@))]
    <2>1. x.members = c.members /\ c.members \in [Groups -> SUBSET Slots]
      BY LiveDspAssumption
    <2> QED BY <2>1 DEF EnterPublish
  <1>5. /\ config' = [v \in Versions |-> config'[v]]
        /\ \A v \in Versions : config'[v].members \in [Groups -> SUBSET Slots]
    BY <1>4 DEF LiveInv, Bounded
  <1>6. Bounded'
    BY <1>1, <1>3, <1>5 DEF LiveInv, Bounded
  <1>7. PublisherInv'
    BY <1>1, <1>2, <1>3, PublishBounds DEF LiveInv, PublisherInv, Versions
  <1>8. ReaderInv'
    <2>1. rd.sawGen \in Nat /\ rd.due \in Nat
      BY PublishBounds DEF LiveInv, Bounded, Reader
    <2> QED BY <1>1, <1>2, <2>1 DEF LiveInv, ReaderInv, ReadInv
  <1>9. \A v \in Versions : v <= Publishing => config'[v] = config[v]
    <2>1. ASSUME NEW v \in Versions, v <= Publishing PROVE v # Publishing + 1
      BY <1>2, <2>1, PublishBounds DEF Versions
    <2> QED BY <1>4, <2>1 DEF LiveInv, Bounded
  <1>10. SlotsInv'
    <2>1. Publishing' >= Publishing /\ Publishing' \in Int
      BY <1>2, <1>3, PublishBounds DEF Versions
    <2> QED BY <1>1, <1>9, <2>1, SameSlots
  <1> QED BY <1>6, <1>7, <1>8, <1>10 DEF LiveInv

(* StoreField: a field moves to the publish under way.                     *)
LEMMA StoreKeepsLive == ASSUME LiveInv, NEW f \in Fields, StoreField(f) PROVE LiveInv'
  <1>1. /\ gen % 2 = 1 /\ stored' = [stored EXCEPT ![f] = Publishing]
        /\ stored[f] < Publishing /\ UNCHANGED <<config, gen, rd, slots>>
    BY DEF StoreField
  <1>2. Publishing \in Versions /\ Publishing' = Publishing
    BY <1>1, PublishingBound DEF LiveInv, Bounded, Publishing
  <1>3. stored' \in [Fields -> Versions] /\ \A g \in Fields : stored'[g] >= stored[g]
    <2>1. \A g \in Fields : stored[g] \in Nat
      BY PublishBounds DEF LiveInv, Bounded, Versions
    <2> QED BY <1>1, <1>2, <2>1, PublishBounds DEF LiveInv, Bounded, Versions
  <1>4. Bounded'
    BY <1>1, <1>3 DEF LiveInv, Bounded
  <1>5. PublisherInv'
    BY <1>1, <1>2 DEF LiveInv, Bounded, PublisherInv
  <1>6. ReaderInv'
    <2>1. \A g \in Fields : /\ rd.saw[g] \in Int /\ rd.snap[g] \in Int
                            /\ stored[g] \in Int /\ stored'[g] \in Int
      <3>1. Versions \subseteq Int /\ -1 \in Int
        BY PublishBounds DEF Versions
      <3>2. stored \in [Fields -> Versions] /\ stored' \in [Fields -> Versions]
        BY <1>3 DEF LiveInv, Bounded
      <3>3. rd.saw \in [Fields -> Versions] /\ rd.snap \in [Fields -> Versions \union {-1}]
        BY DEF LiveInv, Bounded, Reader
      <3> QED BY <3>1, <3>2, <3>3
    <2>2. \A g \in Fields : rd.saw[g] <= stored'[g]
      BY <1>3, <2>1 DEF LiveInv, ReaderInv
    <2>3. rd.pc = "read" => ReadInv'
      BY <1>1, <1>3, <2>1 DEF LiveInv, ReaderInv, ReadInv, GenWithField
    <2> QED BY <1>1, <2>2, <2>3 DEF LiveInv, ReaderInv
  <1>7. SlotsInv'
    <2>1. Publishing' >= Publishing /\ Publishing' \in Int
      BY <1>2, PublishBounds DEF Versions
    <2> QED BY <1>1, <2>1, SameSlots
  <1> QED BY <1>4, <1>5, <1>6, <1>7 DEF LiveInv

(* ExitPublish: the number of the publish stays.                           *)
LEMMA ExitKeepsLive == ASSUME LiveInv, ExitPublish PROVE LiveInv'
  <1>1. /\ gen % 2 = 1 /\ gen' = gen + 1 /\ UNCHANGED <<config, stored, rd, slots>>
        /\ \A f \in Fields : stored[f] = Publishing
    BY DEF ExitPublish
  <1>2. gen = 2 * Publishing - 1 /\ Publishing \in Versions
    BY <1>1, PublishingBound DEF LiveInv, Bounded
  <1>3. gen' = 2 * Publishing /\ Publishing' = Publishing /\ gen' \in 0..2 * MaxPublishes
    <2>1. ASSUME NEW p \in Nat PROVE (2 * p + 1) \div 2 = p
      OBVIOUS
    <2>2. gen' = 2 * Publishing /\ Publishing \in Nat /\ Publishing <= MaxPublishes
      BY <1>1, <1>2, PublishBounds DEF Versions
    <2>3. Publishing' = (2 * Publishing + 1) \div 2
      BY <2>2 DEF Publishing
    <2> QED BY <2>1, <2>2, <2>3, PublishBounds
  <1>4. Bounded'
    BY <1>1, <1>3 DEF LiveInv, Bounded
  <1>5. PublisherInv'
    BY <1>1, <1>3 DEF PublisherInv
  <1>6. ReaderInv'
    <2>1. rd.sawGen \in Nat /\ rd.due \in Nat /\ gen \in Nat
      BY PublishBounds DEF LiveInv, Bounded, Reader
    <2> QED BY <1>1, <2>1 DEF LiveInv, ReaderInv, ReadInv
  <1>7. SlotsInv'
    <2>1. Publishing' >= Publishing /\ Publishing' \in Int
      BY <1>2, <1>3, PublishBounds DEF Versions
    <2> QED BY <1>1, <2>1, SameSlots
  <1> QED BY <1>4, <1>5, <1>6, <1>7 DEF LiveInv

-----------------------------------------------------------------------------
(* The reader *)

(* What a step of the reader may assume of the values it may load.         *)
LEMMA ReaderValues ==
    ASSUME LiveInv
    PROVE  /\ gen \in Nat /\ rd.sawGen \in Nat /\ rd.due \in Nat /\ rd.start \in Nat
           /\ \A f \in Fields : /\ rd.saw[f] \in Nat /\ stored[f] \in Nat
                                /\ rd.snap[f] \in Nat \union {-1}
  BY PublishBounds DEF LiveInv, Bounded, Reader, Versions

(* A step of the reader that leaves what is applied alone.                 *)
LEMMA ReaderStep ==
    ASSUME LiveInv, UNCHANGED <<config, gen, stored, slots>>, rd' \in Reader, ReaderInv'
    PROVE  LiveInv'
  <1>1. Publishing' = Publishing /\ Publishing \in Int
    BY PublishingBound, PublishBounds DEF LiveInv, Bounded, Publishing, Versions
  <1>2. SlotsInv'
    BY <1>1, SameSlots
  <1> QED BY <1>1, <1>2 DEF LiveInv, Bounded, PublisherInv

(* LoadGen: every field stored before the loaded generation is seen.       *)
LEMMA LoadGenKeepsLive == ASSUME LiveInv, NEW k \in 0..2 * MaxPublishes, LoadGen(k) PROVE LiveInv'
  <1> DEFINE seen == [f \in Fields |-> Larger(rd.saw[f], FieldsWithGen(k))]
  <1>1. /\ rd.pc = "idle" /\ k \in rd.sawGen..gen /\ UNCHANGED <<config, gen, stored, slots>>
    BY DEF LoadGen
  <1>2. k \in Nat /\ k <= gen
    BY <1>1, ReaderValues
  <1>3. \A f \in Fields : rd.snap[f] = -1
    BY <1>1 DEF LiveInv, ReaderInv
  <1>4. CASE Changed(k)
    <2> DEFINE y == [rd EXCEPT !.pc = "read", !.sawGen = k, !.start = k, !.due = k, !.saw = seen]
    <2>1. rd' = y /\ k % 2 = 0
      BY <1>4 DEF LoadGen, Changed
    <2>2. k \div 2 \in Versions /\ \A f \in Fields : k \div 2 <= stored[f]
      <3>1. \A f \in Fields : k <= 2 * stored[f]
        BY <1>2, <2>1, PublishingBound, ReaderValues, PublishBounds
           DEF LiveInv, Bounded, PublisherInv, Versions
      <3>2. \A f \in Fields : k \div 2 <= stored[f]
        BY <1>2, <3>1, ReaderValues
      <3>3. k \div 2 \in Versions
        BY PublishBounds DEF Versions
      <3> QED BY <3>2, <3>3
    <2>3. \A f \in Fields : seen[f] \in Versions /\ k \div 2 <= seen[f] /\ seen[f] <= stored[f]
      <3>1. \A f \in Fields : rd.saw[f] \in Versions /\ rd.saw[f] <= stored[f]
        BY DEF LiveInv, Bounded, Reader, ReaderInv
      <3> QED BY <2>2, <3>1, ReaderValues, PublishBounds DEF FieldsWithGen, Larger, Versions
    <2>4. seen \in [Fields -> Versions]
      BY <2>3
    <2> HIDE DEF seen
    <2>5. y \in Reader
      BY <2>4 DEF LiveInv, Bounded, Reader
    <2>6. /\ y.pc = "read" /\ y.sawGen = k /\ y.start = k /\ y.due = k /\ y.saw = seen
          /\ y.snap = rd.snap
      BY DEF LiveInv, Bounded, Reader
    <2> HIDE DEF y
    <2>7. ReaderInv'
      BY <1>1, <1>2, <1>3, <2>1, <2>3, <2>6 DEF ReaderInv, ReadInv
    <2> QED BY <1>1, <2>1, <2>5, <2>7, ReaderStep
  <1>5. CASE ~Changed(k)
    <2> DEFINE y == [rd EXCEPT !.pc = "block", !.sawGen = k]
    <2>1. rd' = y
      BY <1>5 DEF LoadGen
    <2>2. y \in Reader /\ y.pc = "block" /\ y.sawGen = k /\ y.saw = rd.saw /\ y.snap = rd.snap
      BY DEF LiveInv, Bounded, Reader
    <2>3. ReaderInv'
      BY <1>1, <1>2, <1>3, <2>1, <2>2 DEF LiveInv, ReaderInv
    <2> QED BY <1>1, <2>1, <2>2, <2>3, ReaderStep
  <1> QED BY <1>4, <1>5

(* LoadField: the next fence will make the field's publish visible.        *)
LEMMA LoadFieldKeepsLive ==
    ASSUME LiveInv, NEW f \in Fields, NEW v \in Versions, LoadField(f, v) PROVE LiveInv'
  <1> DEFINE due == Larger(rd.due, GenWithField(v))
             y   == [rd EXCEPT !.saw[f] = v, !.snap[f] = v, !.due = due]
  <1>1. /\ rd.pc = "read" /\ v \in rd.saw[f]..stored[f] /\ rd' = y
        /\ UNCHANGED <<config, gen, stored, slots>>
    BY DEF LoadField, LiveInv, Bounded, Reader
  <1>2. v \in Nat /\ rd.saw[f] <= v /\ v <= stored[f] /\ v <= MaxPublishes
    BY <1>1, ReaderValues, PublishBounds DEF Versions
  <1>3. ReadInv
    BY <1>1 DEF LiveInv, ReaderInv
  <1>4. GenWithField(v) \in Nat /\ GenWithField(v) <= gen
    <2>1. stored[f] <= Publishing
      BY PublishingBound, PublishBounds DEF LiveInv, Bounded, PublisherInv, Versions
    <2>2. v <= Publishing /\ Publishing \in Nat
      BY <1>2, <2>1, ReaderValues, PublishingBound, PublishBounds DEF LiveInv, Bounded, Versions
    <2> QED BY <1>2, <2>2, PublishingBound, ReaderValues DEF GenWithField, LiveInv, Bounded
  <1>5. due \in Nat /\ due <= gen /\ rd.due <= due /\ GenWithField(v) <= due
    BY <1>3, <1>4, ReaderValues DEF Larger, ReadInv
  <1>6. due \in 0..2 * MaxPublishes
    BY <1>5, PublishBounds DEF LiveInv, Bounded
  <1> HIDE DEF due
  <1>7. y \in Reader
    BY <1>6 DEF LiveInv, Bounded, Reader
  <1>8. /\ y.pc = rd.pc /\ y.sawGen = rd.sawGen /\ y.start = rd.start /\ y.due = due
        /\ y.saw = [rd.saw EXCEPT ![f] = v] /\ y.snap = [rd.snap EXCEPT ![f] = v]
        /\ rd.saw \in [Fields -> Versions] /\ rd.snap \in [Fields -> Versions \union {-1}]
    BY DEF LiveInv, Bounded, Reader
  <1> HIDE DEF y
  <1>9. rd.start \div 2 <= v
    <2>1. rd.start \div 2 \in Int /\ rd.start \div 2 <= rd.saw[f]
      BY <1>3, ReaderValues DEF ReadInv
    <2> QED BY <1>2, <2>1, ReaderValues
  <1>10. ReadInv'
    <2>1. rd.start <= due
      BY <1>3, <1>5, ReaderValues DEF ReadInv
    <2>2. \A g \in Fields : rd.start \div 2 <= y.saw[g]
      BY <1>3, <1>8, <1>9 DEF ReadInv
    <2>3. \A g \in Fields : y.snap[g] # -1 => /\ rd.start \div 2 <= y.snap[g]
                                              /\ y.snap[g] <= stored[g]
                                              /\ GenWithField(y.snap[g]) <= due
      <3>1. ASSUME NEW g \in Fields, rd.snap[g] # -1, GenWithField(rd.snap[g]) <= rd.due
            PROVE  GenWithField(rd.snap[g]) <= due
        BY <1>5, <3>1, ReaderValues DEF GenWithField
      <3> QED BY <1>2, <1>3, <1>5, <1>8, <1>9, <3>1 DEF ReadInv
    <2> QED BY <1>1, <1>3, <1>5, <1>8, <2>1, <2>2, <2>3 DEF ReadInv, GenWithField
  <1>11. ReaderInv'
    BY <1>1, <1>2, <1>8, <1>10 DEF LiveInv, ReaderInv
  <1> QED BY <1>1, <1>7, <1>11, ReaderStep

(* A reload that finds the generation it started with has read every field *)
(* from the publish that generation ended: the heart of the protocol.      *)
LEMMA WholePublish ==
    ASSUME LiveInv, rd.pc = "read", \A f \in Fields : rd.snap[f] # -1,
           NEW k \in 0..2 * MaxPublishes, Larger(rd.sawGen, rd.due) <= k,
           k % GenMod = rd.start % GenMod
    PROVE  \A f \in Fields : rd.snap[f] = rd.start \div 2
  <1>1. ReadInv /\ k \in Nat
    BY PublishBounds DEF LiveInv, ReaderInv
  <1>2. rd.start \in 0..2 * MaxPublishes
    BY DEF LiveInv, Bounded, Reader
  <1>3. k = rd.start
    BY <1>2, GenIsItself
  <1>4. rd.due = rd.start
    BY <1>1, <1>3, LargerIs, ReaderValues DEF ReadInv
  <1>5. ASSUME NEW f \in Fields PROVE rd.snap[f] = rd.start \div 2
    <2>1. rd.start \div 2 <= rd.snap[f] /\ GenWithField(rd.snap[f]) <= rd.start
      BY <1>1, <1>4 DEF ReadInv
    <2>2. rd.snap[f] \in Nat /\ rd.start \in Nat /\ rd.start % 2 = 0
      BY <1>1, ReaderValues DEF ReadInv
    <2> QED BY <2>1, <2>2 DEF GenWithField
  <1> QED BY <1>5

(* Applying a whole publish resets what comes on and forgets what a group  *)
(* held of other members.                                                  *)
LEMMA AppliedIsClean ==
    ASSUME LiveInv, UNCHANGED <<config, gen>>, NEW snap \in [Fields -> Versions],
           \A f, g \in Fields : snap[f] = snap[g], \A f \in Fields : snap[f] <= Publishing,
           slots' = Applied(snap)
    PROVE  SlotsInv' /\ slots' \in SlotState
  <1>1. /\ slots'.of = snap /\ slots'.tail = TailAfter(snap) /\ slots'.held = HeldAfter(snap)
        /\ slots'.last = rd.start % GenMod
    BY DEF Applied
  <1>2. Publishing' = Publishing
    BY DEF Publishing
  <1>3. \A e \in Effects : On(snap, e)' <=> On(snap, e)
    BY DEF On
  <1>4. \A g \in Groups : MembersOf(snap, g)' = MembersOf(snap, g)
    BY DEF MembersOf
  <1>5. \A e \in Effects : On(slots.of, e) => slots.tail[e] # "stale"
    BY DEF LiveInv, SlotsInv
  <1>6. \A e \in Effects : On(snap, e) => TailAfter(snap)[e] # "stale"
    BY <1>5 DEF TailAfter
  <1>7. \A g \in Groups : slots.held[g] \subseteq MembersOf(slots.of, g)
    BY DEF LiveInv, SlotsInv
  <1>8. \A g \in Groups : HeldAfter(snap)[g] \subseteq MembersOf(snap, g)
    BY <1>7 DEF HeldAfter
  <1>9. \A e \in Effects : On(slots.of, e)' => slots'.tail[e] # "stale"
    BY <1>1, <1>6 DEF On
  <1>10. \A g \in Groups : slots'.held[g] \subseteq MembersOf(slots.of, g)'
    BY <1>1, <1>8 DEF MembersOf
  <1>11. SlotsInv'
    BY <1>1, <1>2, <1>9, <1>10 DEF SlotsInv
  <1>12. slots' \in SlotState
    <2>1. rd.start % GenMod \in 0..GenMod - 1
      BY GenIsItself DEF LiveInv, Bounded, Reader
    <2>2. TailAfter(snap) \in [Effects -> {"clean", "running", "stale"}]
      BY DEF TailAfter, LiveInv, Bounded, SlotState
    <2>3. HeldAfter(snap) \in [Groups -> SUBSET Slots]
      BY DEF HeldAfter, LiveInv, Bounded, SlotState
    <2> QED BY <1>1, <2>1, <2>2, <2>3 DEF Applied, SlotState
  <1> QED BY <1>11, <1>12

(* Recheck: the reload is applied, or given up.                            *)
LEMMA RecheckKeepsLive == ASSUME LiveInv, NEW k \in 0..2 * MaxPublishes, Recheck(k) PROVE LiveInv'
  <1> DEFINE y == [rd EXCEPT !.pc = "block", !.sawGen = k, !.snap = [f \in Fields |-> -1]]
  <1>1. /\ rd.pc = "read" /\ \A f \in Fields : rd.snap[f] # -1
        /\ k \in Larger(rd.sawGen, rd.due)..gen /\ rd' = y
        /\ slots' = IF k % GenMod = rd.start % GenMod THEN Applied(rd.snap) ELSE slots
        /\ UNCHANGED <<config, gen, stored>>
    BY DEF Recheck
  <1>2. y \in Reader /\ y.pc = "block" /\ y.sawGen = k /\ y.saw = rd.saw
        /\ \A f \in Fields : y.snap[f] = -1
    BY DEF LiveInv, Bounded, Reader
  <1>3. Larger(rd.sawGen, rd.due) <= k /\ k <= gen
    BY <1>1, LargerIs, ReaderValues, PublishBounds
  <1> HIDE DEF y
  <1>4. ReaderInv'
    BY <1>1, <1>2, <1>3 DEF LiveInv, ReaderInv
  <1>5. Publishing' = Publishing /\ Publishing \in Nat
    BY <1>1, PublishingBound, PublishBounds DEF LiveInv, Bounded, Publishing, Versions
  <1>6. CASE k % GenMod = rd.start % GenMod
    <2>1. \A f \in Fields : rd.snap[f] = rd.start \div 2
      BY <1>1, <1>3, <1>6, WholePublish
    <2>2. rd.snap \in [Fields -> Versions]
      BY <1>1 DEF LiveInv, Bounded, Reader
    <2>3. \A f \in Fields : rd.snap[f] <= Publishing
      <3>1. \A f \in Fields : rd.snap[f] <= stored[f]
        BY <1>1 DEF LiveInv, ReaderInv, ReadInv
      <3>2. \A f \in Fields : stored[f] <= Publishing
        BY <1>5 DEF LiveInv, PublisherInv
      <3> QED BY <1>5, <3>1, <3>2, ReaderValues
    <2>4. SlotsInv' /\ slots' \in SlotState
      BY <1>1, <1>6, <2>1, <2>2, <2>3, AppliedIsClean
    <2> QED BY <1>1, <1>2, <1>4, <1>5, <2>4 DEF LiveInv, Bounded, PublisherInv
  <1>7. CASE k % GenMod # rd.start % GenMod
    BY <1>1, <1>2, <1>4, <1>7, ReaderStep
  <1> QED BY <1>6, <1>7

(* ProcessBlock: enabled effects run, disabled ones keep what they have.   *)
LEMMA BlockKeepsLive == ASSUME LiveInv, ProcessBlock PROVE LiveInv'
  <1> DEFINE y    == [rd EXCEPT !.pc = "idle"]
             tail == [e \in Effects |-> IF On(slots.of, e) THEN "running"
                                        ELSE IF slots.tail[e] = "running" THEN "stale" ELSE slots.tail[e]]
             held == [g \in Groups |-> IF On(slots.of, g) THEN slots.held[g] \union MembersOf(slots.of, g)
                                       ELSE slots.held[g]]
  <1>1. /\ rd.pc = "block" /\ rd' = y /\ UNCHANGED <<config, gen, stored>>
        /\ slots' = [slots EXCEPT !.tail = tail, !.held = held]
    BY DEF ProcessBlock, LiveInv, Bounded, SlotState
  <1>2. y \in Reader /\ y.pc = "idle" /\ y.sawGen = rd.sawGen /\ y.saw = rd.saw /\ y.snap = rd.snap
    BY DEF LiveInv, Bounded, Reader
  <1>3. ReaderInv'
    BY <1>1, <1>2 DEF LiveInv, ReaderInv
  <1>4. \A g \in Groups : slots.held[g] \subseteq MembersOf(slots.of, g) /\ slots.held[g] \subseteq Slots
    BY DEF LiveInv, SlotsInv, Bounded, SlotState
  <1>5. tail \in [Effects -> {"clean", "running", "stale"}]
    BY DEF LiveInv, Bounded, SlotState
  <1>6. \A e \in Effects : On(slots.of, e) => tail[e] # "stale"
    OBVIOUS
  <1>7. \A g \in Groups : held[g] \subseteq MembersOf(slots.of, g)
    BY <1>4
  <1>8. held \in [Groups -> SUBSET Slots]
    <2>1. \A g \in Groups : On(slots.of, g) => MembersOf(slots.of, g) \subseteq Slots
      BY EffectsAreFields DEF On, MembersOf, LiveInv, Bounded, SlotState
    <2> QED BY <1>4, <2>1
  <1> HIDE DEF y, tail, held
  <1>9. slots' \in SlotState /\ slots'.of = slots.of /\ slots'.tail = tail /\ slots'.held = held
    BY <1>1, <1>5, <1>8 DEF LiveInv, Bounded, SlotState
  <1>10. \A e \in Effects : On(slots.of, e)' <=> On(slots.of, e)
    BY <1>1, <1>9 DEF On
  <1>11. \A g \in Groups : MembersOf(slots.of, g)' = MembersOf(slots.of, g)
    BY <1>1, <1>9 DEF MembersOf
  <1>12. Publishing' = Publishing
    BY <1>1 DEF Publishing
  <1>13. SlotsInv'
    BY <1>6, <1>7, <1>9, <1>10, <1>11, <1>12 DEF LiveInv, SlotsInv
  <1> QED BY <1>1, <1>2, <1>3, <1>9, <1>12, <1>13 DEF LiveInv, Bounded, PublisherInv

-----------------------------------------------------------------------------
(* The invariant holds *)

(* A new engine starts bypassed, whatever its block was seeded with, ...   *)
LEMMA InitLive == LiveInit => LiveInv
  <1> SUFFICES ASSUME LiveInit PROVE LiveInv
    OBVIOUS
  <1>1. 0 \in Versions /\ 0 \in 0..2 * MaxPublishes /\ GenMod - 1 \in 0..GenMod - 1
    BY PublishBounds DEF Versions
  <1>2. gen = 0 /\ Publishing = 0
    BY DEF LiveInit, Publishing
  <1>3. PICK on \in SUBSET Effects :
          config = [v \in Versions |-> IF v = 0 THEN [Seed EXCEPT !.on = on] ELSE Seed]
    BY DEF LiveInit
  <1>4. \A v \in Versions : config[v].members \in [Groups -> SUBSET Slots]
    <2>1. Seed.members \in [Groups -> SUBSET Slots]
      BY DEF Seed
    <2>2. [Seed EXCEPT !.on = on].members = Seed.members
      BY DEF Seed
    <2> QED BY <1>3, <2>1, <2>2
  <1>5. rd \in Reader
    BY <1>1 DEF LiveInit, Reader
  <1>6. slots \in SlotState
    BY <1>1 DEF LiveInit, SlotState
  <1>7. Bounded
    BY <1>1, <1>2, <1>3, <1>4, <1>5, <1>6 DEF LiveInit, Bounded
  <1>8. PublisherInv /\ ReaderInv
    BY <1>2 DEF LiveInit, PublisherInv, ReaderInv
  <1>9. SlotsInv
    BY <1>2, EffectsAreFields DEF LiveInit, SlotsInv, On, MembersOf
  <1> QED BY <1>7, <1>8, <1>9 DEF LiveInv

(* ... and every step keeps the invariant.                                 *)
LEMMA LiveStep == ASSUME LiveInv, [LiveNext]_liveVars PROVE LiveInv'
  <1>1. CASE Publisher
    BY <1>1, StoreKeepsLive, ExitKeepsLive DEF Publisher
  <1>2. CASE Reload
    BY <1>2, LoadGenKeepsLive, RecheckKeepsLive, LoadFieldKeepsLive, BlockKeepsLive DEF Reload
  <1>3. CASE GenBecomesVisible
    <2> DEFINE y == [rd EXCEPT !.sawGen = gen]
    <2>1. rd' = y /\ UNCHANGED <<config, gen, stored, slots>>
      BY <1>3 DEF GenBecomesVisible
    <2>2. /\ y \in Reader /\ y.sawGen = gen /\ y.pc = rd.pc /\ y.saw = rd.saw /\ y.snap = rd.snap
          /\ y.start = rd.start /\ y.due = rd.due
      BY DEF LiveInv, Bounded, Reader
    <2> HIDE DEF y
    <2>3. ReaderInv'
      BY <2>1, <2>2, ReaderValues DEF LiveInv, ReaderInv, ReadInv, GenWithField
    <2> QED BY <2>1, <2>2, <2>3, ReaderStep
  <1>4. CASE UNCHANGED liveVars
    <2>1. UNCHANGED <<config, gen, stored, rd, slots>>
      BY <1>4 DEF liveVars
    <2>2. rd' \in Reader /\ ReaderInv'
      BY <2>1 DEF LiveInv, Bounded, ReaderInv, ReadInv, GenWithField
    <2> QED BY <2>1, <2>2, ReaderStep
  <1> QED BY <1>1, <1>2, <1>3, <1>4, EnterKeepsLive DEF LiveNext

LEMMA LiveInvIsSafe == LiveInv => LiveDspIsSafe
  BY DEF LiveInv, SlotsInv, LiveDspIsSafe, TornSetNeverApplied, NoStaleState


-----------------------------------------------------------------------------
(* The ring of one input: whole frames *)

Whole(n) == n % Channels = 0

(* A mono or stereo frame.                                                 *)
LEMMA OneOrTwo == Channels = 1 \/ Channels = 2
  BY InputRingAssumption

(* Whole frames add up to whole frames, ...                                *)
LEMMA WholeSum ==
    ASSUME NEW a \in Int, NEW b \in Int, Whole(a), Whole(b)
    PROVE  Whole(a + b) /\ Whole(a - b)
  <1>1. CASE Channels = 1
    BY <1>1 DEF Whole
  <1>2. CASE Channels = 2
    BY <1>2 DEF Whole
  <1> QED BY <1>1, <1>2, OneOrTwo

(* ... a number of frames has whole frames, ...                            *)
LEMMA WholeFrames ==
    ASSUME NEW n \in Nat
    PROVE  n * Channels \in Nat /\ Whole(n * Channels) /\ (n > 0 => n * Channels >= Channels)
  <1>1. CASE Channels = 1
    BY <1>1 DEF Whole
  <1>2. CASE Channels = 2
    BY <1>2 DEF Whole
  <1> QED BY <1>1, <1>2, OneOrTwo

(* ... and so have none and one.                                           *)
LEMMA WholeOne == Whole(0) /\ Whole(Channels) /\ Channels \in Nat /\ Channels > 0
  <1>1. CASE Channels = 1
    BY <1>1 DEF Whole
  <1>2. CASE Channels = 2
    BY <1>2 DEF Whole
  <1> QED BY <1>1, <1>2, OneOrTwo

(* A positive number of whole frames is at least one frame.                *)
LEMMA WholeAtLeast == ASSUME NEW a \in Nat, Whole(a), a > 0 PROVE a >= Channels
  <1>1. CASE Channels = 1
    BY <1>1
  <1>2. CASE Channels = 2
    BY <1>2 DEF Whole
  <1> QED BY <1>1, <1>2, OneOrTwo

-----------------------------------------------------------------------------
(* Aligned sequences: left and right of a frame side by side *)

AlignedAt(s, k) == /\ s[k].ch = (k - 1) % Channels
                   /\ Whole(k) => s[k].frame = s[k - Channels + 1].frame

Aligned(s) == \A k \in 1..Len(s) : AlignedAt(s, k)

(* What is left after whole frames are taken from the front is aligned, .. *)
LEMMA AlignedRest ==
    ASSUME NEW s \in Seq(Sample), Aligned(s), NEW d \in 0..Len(s), Whole(d)
    PROVE  /\ SubSeq(s, d + 1, Len(s)) \in Seq(Sample)
           /\ Len(SubSeq(s, d + 1, Len(s))) = Len(s) - d
           /\ Aligned(SubSeq(s, d + 1, Len(s)))
  <1> DEFINE t == SubSeq(s, d + 1, Len(s))
  <1>1. /\ t \in Seq(Sample) /\ Len(t) = Len(s) - d
        /\ \A k \in 1..Len(s) - d : t[k] = s[d + k]
    OBVIOUS
  <1>2. d \in Nat /\ Len(s) \in Nat
    OBVIOUS
  <1> HIDE DEF t
  <1>3. ASSUME NEW k \in 1..Len(s) - d PROVE AlignedAt(t, k)
    <2>1. d + k \in 1..Len(s) /\ t[k] = s[d + k]
      BY <1>1, <1>2
    <2>2. AlignedAt(s, d + k)
      BY <2>1 DEF Aligned
    <2>3. ((d + k) - 1) % Channels = (k - 1) % Channels
      BY <1>2, OneOrTwo DEF Whole
    <2>4. t[k].ch = (k - 1) % Channels
      BY <2>1, <2>2, <2>3 DEF AlignedAt
    <2>5. ASSUME Whole(k) PROVE t[k].frame = t[k - Channels + 1].frame
      <3>1. Whole(d + k) /\ k >= Channels
        BY <1>2, <2>5, WholeSum, WholeAtLeast
      <3>2. k - Channels + 1 \in 1..Len(s) - d /\ d + (k - Channels + 1) = (d + k) - Channels + 1
        BY <1>2, <3>1, WholeOne
      <3>3. t[k - Channels + 1] = s[(d + k) - Channels + 1]
        BY <1>1, <3>2
      <3>4. s[d + k].frame = s[(d + k) - Channels + 1].frame
        BY <2>2, <3>1, Zenon DEF AlignedAt
      <3> QED BY <2>1, <3>3, <3>4, Zenon
    <2> QED BY <2>4, <2>5 DEF AlignedAt
  <1> QED BY <1>1, <1>3 DEF Aligned, t

(* ... and so is any part from the front, ...                              *)
LEMMA AlignedFront ==
    ASSUME NEW s \in Seq(Sample), Aligned(s), NEW n \in 0..Len(s)
    PROVE  /\ SubSeq(s, 1, n) \in Seq(Sample) /\ Len(SubSeq(s, 1, n)) = n
           /\ Aligned(SubSeq(s, 1, n))
  <1> DEFINE t == SubSeq(s, 1, n)
  <1>1. t \in Seq(Sample) /\ Len(t) = n /\ \A k \in 1..n : t[k] = s[k]
    OBVIOUS
  <1>2. n \in Nat /\ Len(s) \in Nat /\ 1..n \subseteq 1..Len(s)
    OBVIOUS
  <1> HIDE DEF t
  <1>3. ASSUME NEW k \in 1..n, Whole(k) PROVE k - Channels + 1 \in 1..n
    BY <1>2, <1>3, WholeAtLeast, WholeOne
  <1>4. ASSUME NEW k \in 1..n PROVE AlignedAt(t, k)
    <2>1. AlignedAt(s, k) /\ t[k] = s[k]
      BY <1>1, <1>2 DEF Aligned
    <2>2. Whole(k) => t[k - Channels + 1] = s[k - Channels + 1]
      BY <1>1, <1>3
    <2> QED BY <2>1, <2>2 DEF AlignedAt
  <1> QED BY <1>1, <1>4 DEF Aligned, t

(* ... and whole frames followed by one more frame.                        *)
LEMMA AlignedMore ==
    ASSUME NEW s \in Seq(Sample), Aligned(s), Whole(Len(s)), NEW m \in Nat, Whole(m)
    PROVE  LET t == s \o [k \in 1..Channels |-> SampleOf(m + k - 1)]
           IN  t \in Seq(Sample) /\ Len(t) = Len(s) + Channels /\ Aligned(t)
  <1> DEFINE c == [k \in 1..Channels |-> SampleOf(m + k - 1)]
             t == s \o c
  <1>1. \A k \in 1..Channels : /\ m + k - 1 \in Nat
                               /\ (m + k - 1) \div Channels = m \div Channels
                               /\ (m + k - 1) % Channels = k - 1
    <2>1. CASE Channels = 1
      BY <2>1 DEF Whole
    <2>2. CASE Channels = 2
      BY <2>2 DEF Whole
    <2> QED BY <2>1, <2>2, OneOrTwo
  <1>2. m \div Channels \in Nat
    BY OneOrTwo
  <1>3. \A k \in 1..Channels : c[k].frame = m \div Channels /\ c[k].ch = k - 1
    BY <1>1 DEF SampleOf
  <1>4. c \in Seq(Sample) /\ Len(c) = Channels
    <2>1. ASSUME NEW n \in Nat PROVE SampleOf(n) \in Sample
      <3>1. n \div Channels \in Nat /\ n % Channels \in 0..Channels - 1
        BY OneOrTwo
      <3> QED BY <3>1 DEF SampleOf, Sample
    <2>2. ASSUME NEW k \in 1..Channels PROVE c[k] \in Sample
      BY <1>1, <2>1
    <2> QED BY <2>2, WholeOne
  <1> HIDE DEF c
  <1>5. /\ t \in Seq(Sample) /\ Len(t) = Len(s) + Channels
        /\ \A k \in 1..Len(s) : t[k] = s[k]
        /\ \A k \in 1..Channels : t[Len(s) + k] = c[k]
    BY <1>4, WholeOne
  <1> HIDE DEF t
  <1>6. Len(s) \in Nat
    OBVIOUS
  <1>7. ASSUME NEW k \in 1..Len(s) PROVE AlignedAt(t, k)
    <2>1. Whole(k) => k - Channels + 1 \in 1..Len(s)
      BY <1>6, WholeAtLeast, WholeOne
    <2>2. AlignedAt(s, k) /\ t[k] = s[k]
      BY <1>5 DEF Aligned
    <2> QED BY <1>5, <2>1, <2>2 DEF AlignedAt
  <1>8. ASSUME NEW j \in 1..Channels PROVE AlignedAt(t, Len(s) + j)
    <2>1. ((Len(s) + j) - 1) % Channels = j - 1
      BY <1>6, OneOrTwo DEF Whole
    <2>2. Whole(Len(s) + j) => (Len(s) + j) - Channels + 1 = Len(s) + 1
      BY <1>6, OneOrTwo DEF Whole
    <2>3. t[Len(s) + j] = c[j] /\ t[Len(s) + 1] = c[1]
      BY <1>5, WholeOne
    <2>4. c[j].ch = j - 1 /\ c[j].frame = m \div Channels /\ c[1].frame = m \div Channels
      BY <1>3, WholeOne
    <2>6. t[Len(s) + j].ch = ((Len(s) + j) - 1) % Channels
      BY <2>1, <2>3, <2>4
    <2>7. Whole(Len(s) + j) => t[Len(s) + j].frame = t[(Len(s) + j) - Channels + 1].frame
      BY <2>2, <2>3, <2>4
    <2> QED BY <2>6, <2>7, Zenon DEF AlignedAt
  <1>9. ASSUME NEW k \in 1..Len(t) PROVE k \in 1..Len(s) \/ \E j \in 1..Channels : k = Len(s) + j
    <2>1. k \in Nat /\ k <= Len(s) + Channels
      BY <1>5, <1>6, WholeOne
    <2>2. k > Len(s) => k - Len(s) \in 1..Channels /\ k = Len(s) + (k - Len(s))
      BY <1>6, <2>1, WholeOne
    <2> QED BY <1>6, <2>1, <2>2
  <1>10. ASSUME NEW k \in 1..Len(t) PROVE AlignedAt(t, k)
    BY <1>7, <1>8, <1>9
  <1>11. Aligned(t)
    BY <1>10 DEF Aligned
  <1> QED BY <1>5, <1>11 DEF t, c

-----------------------------------------------------------------------------
(* What the resync check drops *)

(* The target is not above the high-water mark.                            *)
LEMMA Backlogs ==
    /\ Target * Channels \in Nat /\ HighWater * Channels \in Nat
    /\ Target * Channels <= HighWater * Channels
    /\ Whole(Target * Channels)
  <1>1. Target \in Nat /\ HighWater \in Nat /\ Target <= HighWater
    BY InputRingAssumption
  <1>2. Target * Channels <= HighWater * Channels
    BY <1>1, OneOrTwo
  <1> QED BY <1>1, <1>2, WholeFrames

(* Whole frames are dropped; what is left is enough for the block, and not *)
(* more than the block and the high-water mark.                            *)
LEMMA ResyncDrops ==
    ASSUME NEW fill \in Nat, NEW need \in Nat, Whole(fill), Whole(need)
    PROVE  /\ ResyncDrop(fill, need) \in 0..fill /\ Whole(ResyncDrop(fill, need))
           /\ ResyncDrop(fill, need) > 0 => fill - ResyncDrop(fill, need) >= need
           /\ fill - ResyncDrop(fill, need) <= need + HighWater * Channels
  <1> DEFINE backlog == IF fill > need THEN fill - need ELSE 0
             target  == Target * Channels
             high    == HighWater * Channels
             excess  == backlog - target
  <1>1. target \in Nat /\ high \in Nat /\ target <= high /\ Whole(target) /\ Whole(0)
    BY Backlogs, WholeOne
  <1>2. /\ ResyncDrop(fill, need) = IF backlog > high THEN excess - (excess % Channels) ELSE 0
        /\ backlog \in Nat /\ Whole(backlog) /\ fill <= need + backlog /\ backlog <= fill
        /\ backlog > 0 => fill = need + backlog
    <2>1. ResyncDrop(fill, need) = IF backlog > high THEN excess - (excess % Channels) ELSE 0
      BY DEF ResyncDrop
    <2>2. fill > need => fill - need \in Nat /\ fill = need + (fill - need)
      OBVIOUS
    <2>3. Whole(fill - need)
      BY WholeSum
    <2>4. Whole(backlog)
      BY <1>1, <2>3
    <2>5. backlog \in Nat /\ fill <= need + backlog /\ backlog <= fill /\ (backlog > 0 => fill = need + backlog)
      OBVIOUS
    <2> QED BY <2>1, <2>4, <2>5
  <1> HIDE DEF backlog, target, high
  <1>3. excess \in Int /\ Whole(excess)
    BY <1>1, <1>2, WholeSum
  <1>4. excess % Channels = 0
    BY <1>3 DEF Whole
  <1> QED BY <1>1, <1>2, <1>3, <1>4 DEF high, target

-----------------------------------------------------------------------------
(* The inductive invariant *)

Shape == /\ ring \in Seq(Sample)
         /\ made \in Nat
         /\ src \in InCallback
         /\ out \in OutCallback
         /\ xrun \in Counters

WholeInv == /\ Whole(made) /\ Whole(Len(ring)) /\ Whole(src.left)
            /\ Whole(out.need) /\ Whole(out.drop)

PairInv == Aligned(ring) /\ Aligned(out.scratch)

(* The block asks for need of the samples that were there when it began;   *)
(* the capture callback only adds to them while it runs.                   *)
High == HighWater * Channels

BlockInv ==
    /\ out.pc \in {"trim", "count", "pop"} => /\ out.drop <= out.fill
                                              /\ out.drop > 0 => out.fill - out.drop >= out.need
                                              /\ out.fill - out.drop <= out.need + High
    /\ out.pc = "trim" => out.fill <= Len(ring) /\ Len(ring) <= out.fill + out.since
    /\ out.pc \in {"count", "pop"} => /\ out.fill - out.drop <= Len(ring)
                                      /\ Len(ring) <= out.fill - out.drop + out.since
    /\ out.pc \in {"short", "mix"} => Len(ring) <= High + out.since
    /\ out.pc = "short" => out.drop = 0 /\ Len(out.scratch) <= out.need

RingInv == Shape /\ WholeInv /\ PairInv /\ BlockInv /\ EverySampleIsCounted

(* What a pop adds to the counters of what was played, and was not.       *)
LEMMA SumsAreNat ==
    ASSUME NEW a \in Nat, NEW b \in Nat, NEW c \in Nat, c <= b
    PROVE  a + c \in Nat /\ a + b - c \in Nat
  OBVIOUS

(* The numbers the invariant is about, ...                                 *)
LEMMA Numbers ==
    ASSUME Shape
    PROVE  /\ Len(ring) \in Nat /\ made \in Nat /\ src.left \in Nat /\ src.over \in Nat
           /\ out.need \in Nat /\ out.drop \in Nat /\ out.fill \in Nat /\ out.since \in Nat
           /\ out.scratch \in Seq(Sample) /\ Len(out.scratch) \in Nat
           /\ xrun.over \in Nat /\ xrun.under \in Nat /\ xrun.overSeen \in Nat
           /\ xrun.underSeen \in Nat /\ xrun.heard \in Nat /\ xrun.zeroed \in Nat
           /\ High \in Nat /\ Channels \in Nat /\ Channels > 0
  <1>1. Len(ring) \in Nat /\ made \in Nat /\ src.left \in Nat /\ src.over \in Nat
    BY DEF Shape, InCallback
  <1>2. /\ out.need \in Nat /\ out.drop \in Nat /\ out.fill \in Nat /\ out.since \in Nat
        /\ out.scratch \in Seq(Sample) /\ Len(out.scratch) \in Nat
    BY DEF Shape, OutCallback
  <1>3. /\ xrun.over \in Nat /\ xrun.under \in Nat /\ xrun.overSeen \in Nat
        /\ xrun.underSeen \in Nat /\ xrun.heard \in Nat /\ xrun.zeroed \in Nat
    BY DEF Shape, Counters
  <1>4. High \in Nat /\ Channels \in Nat /\ Channels > 0
    BY Backlogs, WholeOne DEF High
  <1> QED BY <1>1, <1>2, <1>3, <1>4

(* ... and how a counter, or what is left to push, moves.                  *)
LEMMA CounterMoves ==
    ASSUME Shape, NEW v \in Nat
    PROVE  LET c == [xrun EXCEPT !.over = v]
           IN  /\ c \in Counters /\ c.over = v /\ c.under = xrun.under
               /\ c.overSeen = xrun.overSeen /\ c.underSeen = xrun.underSeen
               /\ c.heard = xrun.heard /\ c.zeroed = xrun.zeroed
  BY DEF Shape, Counters

LEMMA CallbackMoves ==
    ASSUME Shape, NEW l \in Nat, NEW o \in Nat
    PROVE  /\ LET c == [src EXCEPT !.left = l] IN c \in InCallback /\ c.left = l /\ c.over = src.over
           /\ LET c == [src EXCEPT !.left = l, !.over = o]
              IN  c \in InCallback /\ c.left = l /\ c.over = o
  BY DEF Shape, InCallback

-----------------------------------------------------------------------------
(* The capture callback *)

(* A block is captured: whole frames wait to be pushed.                    *)
LEMMA CaptureKeepsRing == ASSUME RingInv, NEW n \in 1..CaptureBlock, CaptureFrames(n) PROVE RingInv'
  <1>1. n \in Nat /\ n * Channels \in Nat /\ Whole(n * Channels)
    <2>1. n \in Nat
      BY InputRingAssumption
    <2> QED BY <2>1, WholeFrames
  <1>2. /\ src.over = 0 /\ src' = [src EXCEPT !.left = n * Channels]
        /\ UNCHANGED <<ring, made, out, xrun>>
    BY DEF CaptureFrames
  <1>3. src' \in InCallback /\ src'.left = n * Channels /\ src'.over = src.over
    BY <1>1, <1>2 DEF RingInv, Shape, InCallback
  <1> QED BY <1>1, <1>2, <1>3 DEF RingInv, Shape, WholeInv, PairInv, BlockInv, EverySampleIsCounted

(* A frame goes to the ring whole or not at all.                           *)
LEMMA PushKeepsRing == ASSUME RingInv, PushChunk PROVE RingInv'
  <1>0. Shape /\ WholeInv /\ PairInv /\ BlockInv /\ EverySampleIsCounted
    BY DEF RingInv
  <1>n. /\ Len(ring) \in Nat /\ made \in Nat /\ src.left \in Nat /\ src.over \in Nat
        /\ out.need \in Nat /\ out.drop \in Nat /\ out.fill \in Nat /\ out.since \in Nat
        /\ High \in Nat /\ Channels \in Nat /\ Channels > 0
        /\ xrun.over \in Nat /\ xrun.overSeen \in Nat /\ xrun.heard \in Nat
    BY <1>0, Numbers
  <1>1. /\ src.left > 0 /\ made' = made + Channels /\ xrun' = xrun
        /\ out' = IF out.pc = "idle" THEN out ELSE [out EXCEPT !.since = @ + Channels]
    BY DEF PushChunk, Chunk
  <1>2. src.left - Channels \in Nat /\ Whole(src.left - Channels) /\ Whole(made') /\ made' \in Nat
    <2>1. Whole(src.left) /\ Whole(made) /\ Whole(Channels)
      BY <1>0, WholeOne DEF WholeInv
    <2>2. src.left >= Channels
      BY <1>n, <1>1, <2>1, WholeAtLeast
    <2>3. src.left \in Int /\ made \in Int /\ Channels \in Int
      BY <1>n
    <2>4. Whole(src.left - Channels) /\ Whole(made + Channels)
      BY <2>1, <2>3, WholeSum
    <2>5. src.left - Channels \in Nat /\ made + Channels \in Nat
      BY <1>n, <2>2
    <2> QED BY <1>1, <2>4, <2>5
  <1>3. /\ out' \in OutCallback /\ out'.pc = out.pc /\ out'.need = out.need /\ out'.drop = out.drop
        /\ out'.fill = out.fill /\ out'.scratch = out.scratch
        /\ out.pc # "idle" => out'.since = out.since + Channels
    <2>1. ASSUME NEW v \in Nat
          PROVE  LET o == [out EXCEPT !.since = v]
                 IN  /\ o \in OutCallback /\ o.pc = out.pc /\ o.need = out.need /\ o.drop = out.drop
                     /\ o.fill = out.fill /\ o.scratch = out.scratch /\ o.since = v
      BY <1>0 DEF Shape, OutCallback
    <2>2. out.since + Channels \in Nat /\ out \in OutCallback
      BY <1>0, <1>n DEF Shape
    <2>3. out' = IF out.pc = "idle" THEN out ELSE [out EXCEPT !.since = out.since + Channels]
      BY <1>1
    <2> HIDE DEF OutCallback
    <2> QED BY <2>1, <2>2, <2>3
  <1>4. /\ ring' \in Seq(Sample) /\ Aligned(ring') /\ Whole(Len(ring')) /\ Len(ring') \in Nat
        /\ Len(ring') >= Len(ring) /\ Len(ring') <= Len(ring) + Channels
        /\ src' \in InCallback /\ src'.left = src.left - Channels
        /\ src'.over \in Nat /\ Len(ring') + src'.over = Len(ring) + src.over + Channels
    <2>1. CASE RingSize - Len(ring) >= Channels
      <3>1. /\ ring' = ring \o [k \in 1..Channels |-> SampleOf(made + k - 1)]
            /\ src' = [src EXCEPT !.left = src.left - Channels]
        BY <2>1 DEF PushChunk, Chunk
      <3>2. ring' \in Seq(Sample) /\ Len(ring') = Len(ring) + Channels /\ Aligned(ring')
        <4>1. ring \in Seq(Sample) /\ Aligned(ring) /\ Whole(Len(ring)) /\ made \in Nat /\ Whole(made)
          BY <1>0 DEF Shape, WholeInv, PairInv
        <4> QED BY <3>1, <4>1, AlignedMore
      <3>3. Whole(Len(ring) + Channels)
        BY <1>0, <1>n, WholeOne, WholeSum DEF WholeInv
      <3>4. src' \in InCallback /\ src'.left = src.left - Channels /\ src'.over = src.over
        BY <1>0, <1>n, <1>2, <3>1, CallbackMoves
      <3> QED BY <1>n, <3>2, <3>3, <3>4
    <2>2. CASE ~(RingSize - Len(ring) >= Channels)
      <3>1. /\ ring' = ring
            /\ src' = [src EXCEPT !.left = src.left - Channels, !.over = src.over + Channels]
        BY <2>2 DEF PushChunk, Chunk
      <3>2. src' \in InCallback /\ src'.left = src.left - Channels /\ src'.over = src.over + Channels
        <4>1. src.over + Channels \in Nat
          BY <1>n
        <4> QED BY <1>0, <1>2, <3>1, <4>1, CallbackMoves
      <3>3. ring \in Seq(Sample) /\ Aligned(ring) /\ Whole(Len(ring))
        BY <1>0 DEF Shape, WholeInv, PairInv
      <3>4. Len(ring) \in Nat /\ Channels \in Nat /\ Channels > 0 /\ src.over \in Nat
        BY <1>n
      <3>5. /\ ring' \in Seq(Sample) /\ Aligned(ring') /\ Whole(Len(ring'))
            /\ src' \in InCallback /\ src'.left = src.left - Channels /\ src'.over \in Nat
        BY <3>1, <3>2, <3>3, <3>4
      <3>6. /\ Len(ring') >= Len(ring) /\ Len(ring') <= Len(ring) + Channels
            /\ Len(ring') + src'.over = Len(ring) + src.over + Channels
        BY <3>1, <3>2, <3>4
      <3> QED BY <3>5, <3>6
    <2> QED BY <2>1, <2>2
  <1>5. Shape'
    BY <1>0, <1>1, <1>2, <1>3, <1>4 DEF Shape
  <1>6. WholeInv' /\ PairInv'
    BY <1>0, <1>2, <1>3, <1>4 DEF WholeInv, PairInv
  <1>7. BlockInv'
    <2>1. High' = High
      BY DEF High
    <2>2. CASE out.pc = "idle"
      BY <1>3, <2>2 DEF BlockInv
    <2>3. CASE out.pc # "idle"
      <3>1. out'.since = out.since + Channels /\ out'.fill = out.fill /\ out'.drop = out.drop
        BY <1>3, <2>3
      <3>n. /\ Len(ring) \in Nat /\ out.fill \in Nat /\ out.drop \in Nat /\ out.since \in Nat
            /\ Channels \in Nat
        BY <1>n
      <3>l. Len(ring') \in Nat /\ Len(ring') >= Len(ring) /\ Len(ring') <= Len(ring) + Channels
        BY <1>4
      <3>2. out.pc = "trim" => out'.fill <= Len(ring') /\ Len(ring') <= out'.fill + out'.since
        BY <1>0, <3>n, <3>l, <3>1 DEF BlockInv
      <3>3. out.pc \in {"count", "pop"} => /\ out'.fill - out'.drop <= Len(ring')
                                           /\ Len(ring') <= out'.fill - out'.drop + out'.since
        BY <1>0, <3>n, <3>l, <3>1 DEF BlockInv
      <3>4. out.pc \in {"short", "mix"} => Len(ring') <= High + out'.since
        BY <1>0, <1>n, <1>4, <3>1 DEF BlockInv
      <3> QED BY <1>0, <1>3, <2>1, <3>2, <3>3, <3>4 DEF BlockInv
    <2> QED BY <2>2, <2>3
  <1>8. EverySampleIsCounted'
    <2> DEFINE trimmed == IF out.pc = "count" THEN out.drop ELSE 0
    <2>1. made = Len(ring) + xrun.heard + xrun.over + xrun.overSeen + src.over + trimmed
      BY <1>0 DEF EverySampleIsCounted
    <2>2. trimmed \in Nat /\ trimmed' = trimmed
      BY <1>n, <1>3
    <2> HIDE DEF trimmed
    <2>3. made' = Len(ring') + xrun.heard + xrun.over + xrun.overSeen + src'.over + trimmed'
      <3>1. made' = made + Channels
        BY <1>1
      <3>2. /\ Len(ring') \in Nat /\ src'.over \in Nat
            /\ Len(ring') + src'.over = Len(ring) + src.over + Channels
        BY <1>4
      <3>3. /\ Len(ring) \in Nat /\ src.over \in Nat /\ Channels \in Nat
            /\ xrun.heard \in Nat /\ xrun.over \in Nat /\ xrun.overSeen \in Nat
        BY <1>n
      <3> DEFINE n == Len(ring)
                 h == xrun.heard
                 o == xrun.over
                 s == xrun.overSeen
                 v == src.over
                 m == Len(ring')
                 w == src'.over
      <3>4. /\ n \in Nat /\ h \in Nat /\ o \in Nat /\ s \in Nat /\ v \in Nat /\ m \in Nat /\ w \in Nat
            /\ m + w = n + v + Channels /\ made = n + h + o + s + v + trimmed
        BY <2>1, <3>2, <3>3
      <3> HIDE DEF n, h, o, s, v, m, w
      <3>5. made + Channels = m + h + o + s + w + trimmed
        BY <2>2, <3>3, <3>4
      <3> QED BY <2>2, <3>1, <3>5 DEF h, o, s, m, w
    <2> QED BY <1>0, <1>1, <1>3, <2>3 DEF EverySampleIsCounted, trimmed
  <1> QED BY <1>5, <1>6, <1>7, <1>8 DEF RingInv

(* What did not fit is added to the counter.                               *)
LEMMA CountPushedKeepsRing == ASSUME RingInv, CountPushed PROVE RingInv'
  <1>0. Shape /\ WholeInv /\ PairInv /\ BlockInv /\ EverySampleIsCounted
    BY DEF RingInv
  <1>n. /\ Len(ring) \in Nat /\ src.left \in Nat /\ src.over \in Nat /\ out.drop \in Nat
        /\ xrun.over \in Nat /\ xrun.overSeen \in Nat /\ xrun.heard \in Nat
    BY <1>0, Numbers
  <1>1. /\ xrun' = [xrun EXCEPT !.over = xrun.over + src.over] /\ src' = [src EXCEPT !.over = 0]
        /\ UNCHANGED <<ring, made, out>>
    BY DEF CountPushed, Added
  <1>2. src' \in InCallback /\ src'.left = src.left /\ src'.over = 0
    BY <1>0, <1>1 DEF Shape, InCallback
  <1>3. /\ xrun' \in Counters /\ xrun'.over = xrun.over + src.over /\ xrun'.under = xrun.under
        /\ xrun'.overSeen = xrun.overSeen /\ xrun'.underSeen = xrun.underSeen
        /\ xrun'.heard = xrun.heard /\ xrun'.zeroed = xrun.zeroed
    <2>1. xrun.over + src.over \in Nat
      BY <1>n
    <2> QED BY <1>0, <1>1, <2>1, CounterMoves
  <1>4. EverySampleIsCounted'
    BY <1>0, <1>n, <1>1, <1>2, <1>3 DEF EverySampleIsCounted
  <1>5. Shape' /\ WholeInv' /\ PairInv' /\ BlockInv'
    BY <1>0, <1>1, <1>2, <1>3 DEF Shape, WholeInv, PairInv, BlockInv, High
  <1> QED BY <1>4, <1>5 DEF RingInv

-----------------------------------------------------------------------------
(* The output callback *)

(* How the state of the block moves.                                       *)
LEMMA BlockMoves ==
    ASSUME Shape, NEW p \in {"idle", "trim", "count", "pop", "short", "mix"}
    PROVE  LET o == [out EXCEPT !.pc = p]
           IN  /\ o \in OutCallback /\ o.pc = p /\ o.need = out.need /\ o.drop = out.drop
               /\ o.fill = out.fill /\ o.scratch = out.scratch /\ o.since = out.since
  BY DEF Shape, OutCallback

(* A block begins: it decides how much to trim.                            *)
LEMMA BeginKeepsRing == ASSUME RingInv, NEW n \in 1..OutputBlock, BeginOutput(n) PROVE RingInv'
  <1> DEFINE need == Lesser(n * Channels, RingSize)
             drop == ResyncDrop(Len(ring), need)
             pc   == IF drop > 0 THEN "trim" ELSE "pop"
  <1>0. Shape /\ WholeInv /\ PairInv /\ BlockInv /\ EverySampleIsCounted
    BY DEF RingInv
  <1>1. /\ out.pc = "idle" /\ UNCHANGED <<ring, made, src, xrun>>
        /\ out' = [pc |-> pc, need |-> need, drop |-> drop, fill |-> Len(ring), scratch |-> <<>>,
                   since |-> 0]
    BY DEF BeginOutput
  <1>2. need \in Nat /\ Whole(need)
    <2>1. n \in Nat /\ RingSize \in Nat /\ Whole(RingSize)
      BY InputRingAssumption DEF Whole
    <2>2. n * Channels \in Nat /\ Whole(n * Channels)
      BY <2>1, WholeFrames
    <2> QED BY <2>1, <2>2 DEF Lesser
  <1>3. Len(ring) \in Nat /\ Whole(Len(ring))
    BY <1>0, Numbers DEF WholeInv
  <1> HIDE DEF need
  <1>4. /\ drop \in 0..Len(ring) /\ Whole(drop)
        /\ drop > 0 => Len(ring) - drop >= need
        /\ Len(ring) - drop <= need + High
    BY <1>2, <1>3, ResyncDrops DEF High
  <1> HIDE DEF drop
  <1>5. /\ out' \in OutCallback /\ out'.pc = pc /\ out'.need = need /\ out'.drop = drop
        /\ out'.fill = Len(ring) /\ out'.scratch = <<>> /\ out'.since = 0
    <2>1. drop \in Nat /\ pc \in {"trim", "pop"} /\ <<>> \in Seq(Sample)
      BY <1>3, <1>4
    <2> HIDE DEF pc
    <2> QED BY <1>1, <1>2, <1>3, <2>1 DEF OutCallback
  <1>6. Shape' /\ WholeInv'
    BY <1>0, <1>1, <1>2, <1>4, <1>5 DEF Shape, WholeInv
  <1>7. PairInv'
    BY <1>0, <1>1, <1>5 DEF PairInv, Aligned
  <1>8. BlockInv'
    <2>1. High' = High /\ Len(ring') = Len(ring) /\ drop \in Nat /\ drop <= Len(ring)
      BY <1>1, <1>3, <1>4 DEF High
    <2> QED BY <1>3, <1>4, <1>5, <2>1 DEF BlockInv
  <1>9. EverySampleIsCounted'
    BY <1>0, <1>1, <1>5 DEF EverySampleIsCounted
  <1> QED BY <1>6, <1>7, <1>8, <1>9 DEF RingInv

(* Trimming takes whole frames from the front of the ring, ...             *)
LEMMA DiscardKeepsRing == ASSUME RingInv, Discard PROVE RingInv'
  <1>0. Shape /\ WholeInv /\ PairInv /\ BlockInv /\ EverySampleIsCounted
    BY DEF RingInv
  <1>n. /\ Len(ring) \in Nat /\ made \in Nat /\ src.over \in Nat
        /\ out.need \in Nat /\ out.drop \in Nat /\ out.fill \in Nat /\ out.since \in Nat
        /\ xrun.over \in Nat /\ xrun.overSeen \in Nat /\ xrun.heard \in Nat
    BY <1>0, Numbers
  <1>1. /\ out.pc = "trim" /\ out' = [out EXCEPT !.pc = "count"] /\ UNCHANGED <<made, src, xrun>>
        /\ ring' = SubSeq(ring, out.drop + 1, Len(ring))
    BY DEF Discard
  <1>2. /\ out.drop <= out.fill /\ out.fill <= Len(ring) /\ Len(ring) <= out.fill + out.since
        /\ out.drop > 0 => out.fill - out.drop >= out.need
        /\ out.fill - out.drop <= out.need + High
    BY <1>0, <1>1 DEF BlockInv
  <1>3. /\ ring' \in Seq(Sample) /\ Len(ring') = Len(ring) - out.drop /\ Aligned(ring')
        /\ Whole(Len(ring) - out.drop)
    <2>1. out.drop \in 0..Len(ring) /\ Whole(out.drop) /\ Whole(Len(ring))
      BY <1>0, <1>n, <1>2 DEF WholeInv
    <2>2. ring \in Seq(Sample) /\ Aligned(ring)
      BY <1>0 DEF Shape, PairInv
    <2>3. Len(ring) \in Int /\ out.drop \in Int
      BY <1>n
    <2>4. Whole(Len(ring) - out.drop)
      BY <2>1, <2>3, WholeSum
    <2> QED BY <1>1, <2>1, <2>2, <2>4, AlignedRest
  <1>4. /\ out' \in OutCallback /\ out'.pc = "count" /\ out'.need = out.need
        /\ out'.drop = out.drop /\ out'.fill = out.fill /\ out'.scratch = out.scratch
        /\ out'.since = out.since
    BY <1>0, <1>1, BlockMoves
  <1>5. Shape' /\ WholeInv' /\ PairInv'
    BY <1>0, <1>1, <1>3, <1>4 DEF Shape, WholeInv, PairInv
  <1>6. BlockInv'
    <2>1. High' = High
      BY DEF High
    <2>2. out.fill - out.drop <= Len(ring') /\ Len(ring') <= out.fill - out.drop + out.since
      BY <1>n, <1>2, <1>3
    <2> QED BY <1>2, <1>4, <2>1, <2>2 DEF BlockInv
  <1>7. EverySampleIsCounted'
    <2>1. made = Len(ring) + xrun.heard + xrun.over + xrun.overSeen + src.over + 0
      BY <1>0, <1>1 DEF EverySampleIsCounted
    <2>2. made = Len(ring') + xrun.heard + xrun.over + xrun.overSeen + src.over + out.drop
      <3>n. /\ Len(ring) \in Nat /\ src.over \in Nat /\ out.drop \in Nat
            /\ xrun.over \in Nat /\ xrun.overSeen \in Nat /\ xrun.heard \in Nat
        BY <1>n
      <3>1. Len(ring') \in Nat /\ Len(ring) = Len(ring') + out.drop
        BY <1>n, <1>2, <1>3
      <3> DEFINE n == Len(ring)
                 h == xrun.heard
                 o == xrun.over
                 s == xrun.overSeen
                 v == src.over
                 m == Len(ring')
                 d == out.drop
      <3>2. /\ n \in Nat /\ h \in Nat /\ o \in Nat /\ s \in Nat /\ v \in Nat /\ m \in Nat /\ d \in Nat
            /\ n = m + d /\ made = n + h + o + s + v + 0
        BY <2>1, <3>n, <3>1
      <3> HIDE DEF n, h, o, s, v, m, d
      <3>3. made = m + h + o + s + v + d
        BY <3>2
      <3> QED BY <3>3 DEF h, o, s, v, m, d
    <2> QED BY <1>0, <1>1, <1>4, <2>2 DEF EverySampleIsCounted
  <1> QED BY <1>5, <1>6, <1>7 DEF RingInv

(* ... and what it took is added to the overruns.                          *)
LEMMA CountTrimmedKeepsRing == ASSUME RingInv, CountTrimmed PROVE RingInv'
  <1>0. Shape /\ WholeInv /\ PairInv /\ BlockInv /\ EverySampleIsCounted
    BY DEF RingInv
  <1>n. /\ Len(ring) \in Nat /\ src.over \in Nat /\ out.drop \in Nat
        /\ xrun.over \in Nat /\ xrun.overSeen \in Nat /\ xrun.heard \in Nat
    BY <1>0, Numbers
  <1>1. /\ out.pc = "count" /\ out' = [out EXCEPT !.pc = "pop"] /\ UNCHANGED <<ring, made, src>>
        /\ xrun' = [xrun EXCEPT !.over = xrun.over + out.drop]
    BY DEF CountTrimmed, Added
  <1>2. /\ out' \in OutCallback /\ out'.pc = "pop" /\ out'.need = out.need
        /\ out'.drop = out.drop /\ out'.fill = out.fill /\ out'.scratch = out.scratch
        /\ out'.since = out.since
    BY <1>0, <1>1, BlockMoves
  <1>3. /\ xrun' \in Counters /\ xrun'.over = xrun.over + out.drop /\ xrun'.under = xrun.under
        /\ xrun'.overSeen = xrun.overSeen /\ xrun'.underSeen = xrun.underSeen
        /\ xrun'.heard = xrun.heard /\ xrun'.zeroed = xrun.zeroed
    <2>1. xrun.over + out.drop \in Nat
      BY <1>n
    <2> QED BY <1>0, <1>1, <2>1, CounterMoves
  <1>4. Shape' /\ WholeInv' /\ PairInv' /\ BlockInv'
    BY <1>0, <1>1, <1>2, <1>3 DEF Shape, WholeInv, PairInv, BlockInv, High
  <1>5. EverySampleIsCounted'
    <2>1. made = Len(ring) + xrun.heard + xrun.over + xrun.overSeen + src.over + out.drop
      BY <1>0, <1>1 DEF EverySampleIsCounted
    <2>2. made = Len(ring) + xrun.heard + (xrun.over + out.drop) + xrun.overSeen + src.over + 0
      <3> DEFINE n == Len(ring)
                 h == xrun.heard
                 o == xrun.over
                 s == xrun.overSeen
                 v == src.over
                 d == out.drop
      <3>1. /\ n \in Nat /\ h \in Nat /\ o \in Nat /\ s \in Nat /\ v \in Nat /\ d \in Nat
            /\ made = n + h + o + s + v + d
        BY <1>n, <2>1
      <3> HIDE DEF n, h, o, s, v, d
      <3>2. made = n + h + (o + d) + s + v + 0
        BY <3>1
      <3> QED BY <3>2 DEF n, h, o, s, v, d
    <2> QED BY <1>0, <1>1, <1>2, <1>3, <2>2 DEF EverySampleIsCounted
  <1> QED BY <1>4, <1>5 DEF RingInv

(* Popping fills the block, or leaves the rest of it silent.               *)
LEMMA PopKeepsRing == ASSUME RingInv, PopSlice PROVE RingInv'
  <1> DEFINE got == Lesser(out.need, Len(ring))
             pc  == IF got < out.need THEN "short" ELSE "mix"
  <1>0. Shape /\ WholeInv /\ PairInv /\ BlockInv /\ EverySampleIsCounted
    BY DEF RingInv
  <1>n. /\ Len(ring) \in Nat /\ src.over \in Nat /\ High \in Nat
        /\ out.need \in Nat /\ out.drop \in Nat /\ out.fill \in Nat /\ out.since \in Nat
        /\ xrun.over \in Nat /\ xrun.overSeen \in Nat /\ xrun.heard \in Nat
        /\ xrun.zeroed \in Nat /\ xrun.under \in Nat /\ xrun.underSeen \in Nat
    BY <1>0, Numbers
  <1>1. /\ out.pc = "pop" /\ out' = [out EXCEPT !.pc = pc, !.scratch = SubSeq(ring, 1, got)]
        /\ ring' = SubSeq(ring, got + 1, Len(ring)) /\ UNCHANGED <<made, src>>
        /\ xrun' = [xrun EXCEPT !.heard = xrun.heard + got,
                                !.zeroed = xrun.zeroed + out.need - got]
    BY DEF PopSlice
  <1>2. /\ got \in Nat /\ got <= Len(ring) /\ got <= out.need
        /\ got < out.need => got = Len(ring)
        /\ got \in {out.need, Len(ring)}
    BY <1>n DEF Lesser
  <1>3. Whole(got)
    BY <1>0, <1>2 DEF WholeInv
  <1> HIDE DEF got
  <1>4. /\ ring' \in Seq(Sample) /\ Len(ring') = Len(ring) - got /\ Aligned(ring')
        /\ Whole(Len(ring) - got)
        /\ SubSeq(ring, 1, got) \in Seq(Sample) /\ Len(SubSeq(ring, 1, got)) = got
        /\ Aligned(SubSeq(ring, 1, got))
    <2>1. got \in 0..Len(ring) /\ Whole(Len(ring))
      BY <1>0, <1>n, <1>2 DEF WholeInv
    <2>2. ring \in Seq(Sample) /\ Aligned(ring)
      BY <1>0 DEF Shape, PairInv
    <2>3. Len(ring) \in Int /\ got \in Int
      BY <1>n, <1>2
    <2>4. Whole(Len(ring) - got)
      BY <1>3, <2>1, <2>3, WholeSum
    <2> QED BY <1>1, <1>3, <2>1, <2>2, <2>4, AlignedRest, AlignedFront
  <1>5. /\ out' \in OutCallback /\ out'.pc = pc /\ out'.need = out.need /\ out'.drop = out.drop
        /\ out'.fill = out.fill /\ out'.scratch = SubSeq(ring, 1, got) /\ out'.since = out.since
    <2> DEFINE popped == SubSeq(ring, 1, got)
               o      == [out EXCEPT !.pc = pc, !.scratch = popped]
    <2>1. pc \in {"short", "mix"} /\ popped \in Seq(Sample)
      BY <1>4
    <2>2. out' = o
      BY <1>1
    <2> HIDE DEF pc, popped
    <2>3. /\ o \in OutCallback /\ o.pc = pc /\ o.need = out.need /\ o.drop = out.drop
          /\ o.fill = out.fill /\ o.scratch = popped /\ o.since = out.since
      BY <1>0, <2>1 DEF Shape, OutCallback
    <2> HIDE DEF o
    <2>4. /\ out' \in OutCallback /\ out'.pc = pc /\ out'.need = out.need /\ out'.drop = out.drop
          /\ out'.fill = out.fill /\ out'.scratch = popped /\ out'.since = out.since
      BY <2>2, <2>3
    <2> QED BY <2>4 DEF popped
  <1>6. /\ xrun' \in Counters /\ xrun'.over = xrun.over /\ xrun'.under = xrun.under
        /\ xrun'.overSeen = xrun.overSeen /\ xrun'.underSeen = xrun.underSeen
        /\ xrun'.heard = xrun.heard + got /\ xrun'.zeroed = xrun.zeroed + out.need - got
    <2>1. ASSUME NEW v \in Nat, NEW w \in Nat
          PROVE  LET c == [xrun EXCEPT !.heard = v, !.zeroed = w]
                 IN  /\ c \in Counters /\ c.over = xrun.over /\ c.under = xrun.under
                     /\ c.overSeen = xrun.overSeen /\ c.underSeen = xrun.underSeen
                     /\ c.heard = v /\ c.zeroed = w
      BY <1>0 DEF Shape, Counters
    <2>2. xrun.heard + got \in Nat /\ xrun.zeroed + out.need - got \in Nat
      <3>1. /\ xrun.heard \in Nat /\ xrun.zeroed \in Nat /\ out.need \in Nat /\ got \in Nat
            /\ got <= out.need
        BY <1>n, <1>2
      <3> QED BY <3>1, SumsAreNat
    <2> DEFINE v == xrun.heard + got
               w == xrun.zeroed + out.need - got
               c == [xrun EXCEPT !.heard = v, !.zeroed = w]
    <2>3. v \in Nat /\ w \in Nat /\ xrun' = c
      BY <1>1, <2>2
    <2> HIDE DEF v, w
    <2>4. /\ c \in Counters /\ c.over = xrun.over /\ c.under = xrun.under
          /\ c.overSeen = xrun.overSeen /\ c.underSeen = xrun.underSeen /\ c.heard = v /\ c.zeroed = w
      BY <2>1, <2>3
    <2> HIDE DEF c
    <2> QED BY <2>3, <2>4 DEF v, w
  <1>7. Shape' /\ WholeInv' /\ PairInv'
    BY <1>0, <1>1, <1>4, <1>5, <1>6 DEF Shape, WholeInv, PairInv
  <1>8. BlockInv'
    <2>1. /\ out.drop <= out.fill /\ out.fill - out.drop <= out.need + High
          /\ out.drop > 0 => out.fill - out.drop >= out.need
          /\ out.fill - out.drop <= Len(ring) /\ Len(ring) <= out.fill - out.drop + out.since
      BY <1>0, <1>1 DEF BlockInv
    <2>2. Len(ring') <= High + out.since
      <3>1. CASE got < out.need
        BY <1>n, <1>2, <1>4, <3>1
      <3>2. CASE ~(got < out.need)
        <4>1. got = out.need
          BY <1>n, <1>2, <3>2
        <4> DEFINE kept == out.fill - out.drop
        <4>2. kept \in Int /\ kept <= out.need + High /\ Len(ring) <= kept + out.since
          BY <1>n, <2>1
        <4> HIDE DEF kept
        <4>3. /\ Len(ring) \in Nat /\ out.need \in Nat /\ out.since \in Nat /\ High \in Nat
              /\ Len(ring') = Len(ring) - out.need
          BY <1>n, <1>4, <4>1
        <4> QED BY <4>2, <4>3
      <3> QED BY <3>1, <3>2
    <2>3. got < out.need => out.drop = 0
      <3>1. ASSUME got < out.need, out.drop > 0 PROVE FALSE
        BY <1>n, <1>2, <2>1, <3>1
      <3> QED BY <1>n, <3>1
    <2>4. pc = "short" => got < out.need
      OBVIOUS
    <2>5. High' = High
      BY DEF High
    <2>6. pc \in {"short", "mix"}
      OBVIOUS
    <2> HIDE DEF pc
    <2> QED BY <1>2, <1>4, <1>5, <2>2, <2>3, <2>4, <2>5, <2>6 DEF BlockInv
  <1>9. EverySampleIsCounted'
    <2>1. made = Len(ring) + xrun.heard + xrun.over + xrun.overSeen + src.over + 0
      BY <1>0, <1>1 DEF EverySampleIsCounted
    <2>2. made = Len(ring') + (xrun.heard + got) + xrun.over + xrun.overSeen + src.over + 0
      <3>n. /\ Len(ring) \in Nat /\ src.over \in Nat /\ got \in Nat
            /\ xrun.over \in Nat /\ xrun.overSeen \in Nat /\ xrun.heard \in Nat
        BY <1>n, <1>2
      <3>1. Len(ring') \in Nat /\ Len(ring) = Len(ring') + got
        BY <1>n, <1>2, <1>4
      <3> DEFINE n == Len(ring)
                 h == xrun.heard
                 o == xrun.over
                 s == xrun.overSeen
                 v == src.over
                 m == Len(ring')
                 d == got
      <3>2. /\ n \in Nat /\ h \in Nat /\ o \in Nat /\ s \in Nat /\ v \in Nat /\ m \in Nat /\ d \in Nat
            /\ n = m + d /\ made = n + h + o + s + v + 0
        BY <2>1, <3>n, <3>1
      <3> HIDE DEF n, h, o, s, v, m, d
      <3>3. made = m + (h + d) + o + s + v + 0
        BY <3>2
      <3> QED BY <3>3 DEF h, o, s, v, m, d
    <2>3. xrun.zeroed = xrun.under + xrun.underSeen + 0
      BY <1>0, <1>1 DEF EverySampleIsCounted
    <2>4. xrun.zeroed + out.need - got = xrun.under + xrun.underSeen
                                         + IF pc = "short" THEN out.need - got ELSE 0
      BY <1>n, <1>2, <2>3
    <2>5. pc # "count"
      OBVIOUS
    <2> HIDE DEF pc
    <2> QED BY <1>1, <1>4, <1>5, <1>6, <2>2, <2>4, <2>5 DEF EverySampleIsCounted
  <1> QED BY <1>7, <1>8, <1>9 DEF RingInv

(* What was silent is added to the underruns.                              *)
LEMMA CountShortKeepsRing == ASSUME RingInv, CountShort PROVE RingInv'
  <1>0. Shape /\ WholeInv /\ PairInv /\ BlockInv /\ EverySampleIsCounted
    BY DEF RingInv
  <1>n. /\ out.need \in Nat /\ Len(out.scratch) \in Nat /\ Len(out.scratch) <= out.need
        /\ xrun.zeroed \in Nat /\ xrun.under \in Nat /\ xrun.underSeen \in Nat
    BY <1>0, Numbers DEF BlockInv, CountShort
  <1>1. /\ out.pc = "short" /\ out' = [out EXCEPT !.pc = "mix"] /\ UNCHANGED <<ring, made, src>>
        /\ xrun' = [xrun EXCEPT !.under = xrun.under + (out.need - Len(out.scratch))]
    BY DEF CountShort, Added
  <1>2. /\ out' \in OutCallback /\ out'.pc = "mix" /\ out'.need = out.need
        /\ out'.drop = out.drop /\ out'.fill = out.fill /\ out'.scratch = out.scratch
        /\ out'.since = out.since
    BY <1>0, <1>1, BlockMoves
  <1>3. /\ xrun' \in Counters /\ xrun'.over = xrun.over /\ xrun'.overSeen = xrun.overSeen
        /\ xrun'.underSeen = xrun.underSeen /\ xrun'.heard = xrun.heard
        /\ xrun'.zeroed = xrun.zeroed
        /\ xrun'.under = xrun.under + (out.need - Len(out.scratch))
    <2>1. ASSUME NEW v \in Nat
          PROVE  LET c == [xrun EXCEPT !.under = v]
                 IN  /\ c \in Counters /\ c.over = xrun.over /\ c.under = v
                     /\ c.overSeen = xrun.overSeen /\ c.underSeen = xrun.underSeen
                     /\ c.heard = xrun.heard /\ c.zeroed = xrun.zeroed
      BY <1>0 DEF Shape, Counters
    <2>2. xrun.under + (out.need - Len(out.scratch)) \in Nat
      BY <1>n
    <2> QED BY <1>1, <2>1, <2>2
  <1>4. Shape' /\ WholeInv' /\ PairInv' /\ BlockInv'
    BY <1>0, <1>1, <1>2, <1>3 DEF Shape, WholeInv, PairInv, BlockInv, High
  <1>5. EverySampleIsCounted'
    <2>1. xrun.zeroed = xrun.under + xrun.underSeen + (out.need - Len(out.scratch))
      BY <1>0, <1>1 DEF EverySampleIsCounted
    <2>2. xrun.zeroed = (xrun.under + (out.need - Len(out.scratch))) + xrun.underSeen + 0
      BY <1>n, <2>1
    <2> QED BY <1>0, <1>1, <1>2, <1>3, <2>2 DEF EverySampleIsCounted
  <1> QED BY <1>4, <1>5 DEF RingInv

(* The block is mixed, and the callback returns.                           *)
LEMMA MixedKeepsRing == ASSUME RingInv, Mixed PROVE RingInv'
  <1>0. Shape /\ WholeInv /\ PairInv /\ BlockInv /\ EverySampleIsCounted
    BY DEF RingInv
  <1>1. out.pc = "mix" /\ out' = Returned /\ UNCHANGED <<ring, made, src, xrun>>
    BY DEF Mixed
  <1>2. /\ out' \in OutCallback /\ out'.pc = "idle" /\ out'.need = 0 /\ out'.drop = 0
        /\ out'.scratch = <<>>
    BY <1>1 DEF Returned, OutCallback
  <1>3. Shape' /\ WholeInv' /\ PairInv' /\ BlockInv'
    BY <1>0, <1>1, <1>2, WholeOne DEF Shape, WholeInv, PairInv, BlockInv, Aligned
  <1>4. EverySampleIsCounted'
    BY <1>0, <1>1, <1>2 DEF EverySampleIsCounted
  <1> QED BY <1>3, <1>4 DEF RingInv

-----------------------------------------------------------------------------
(* The meter poll *)

(* A poll takes a counter: nothing is counted twice, and nothing is lost.  *)
LEMMA PollKeepsRing == ASSUME RingInv, PollUnder \/ PollOver PROVE RingInv'
  <1>0. Shape /\ WholeInv /\ PairInv /\ BlockInv /\ EverySampleIsCounted
    BY DEF RingInv
  <1>n. /\ Len(ring) \in Nat /\ src.over \in Nat /\ xrun.heard \in Nat
        /\ xrun.over \in Nat /\ xrun.overSeen \in Nat
        /\ xrun.under \in Nat /\ xrun.underSeen \in Nat
    BY <1>0, Numbers
  <1>1. UNCHANGED <<ring, made, src, out>>
    BY DEF PollUnder, PollOver
  <1>2. CASE PollUnder
    <2>1. xrun' = [xrun EXCEPT !.underSeen = xrun.underSeen + xrun.under, !.under = 0]
      BY <1>2 DEF PollUnder
    <2>2. ASSUME NEW v \in Nat
          PROVE  LET c == [xrun EXCEPT !.underSeen = v, !.under = 0]
                 IN  /\ c \in Counters /\ c.over = xrun.over /\ c.under = 0 /\ c.underSeen = v
                     /\ c.overSeen = xrun.overSeen /\ c.heard = xrun.heard /\ c.zeroed = xrun.zeroed
      BY <1>0 DEF Shape, Counters
    <2>3. /\ xrun' \in Counters /\ xrun'.over = xrun.over /\ xrun'.under = 0
          /\ xrun'.underSeen = xrun.underSeen + xrun.under /\ xrun'.overSeen = xrun.overSeen
          /\ xrun'.heard = xrun.heard /\ xrun'.zeroed = xrun.zeroed
      <3>1. xrun.underSeen + xrun.under \in Nat
        BY <1>n
      <3> QED BY <2>1, <2>2, <3>1
    <2>4. xrun.under + xrun.underSeen = 0 + (xrun.underSeen + xrun.under)
      BY <1>n
    <2>5. EverySampleIsCounted'
      BY <1>0, <1>1, <2>3, <2>4 DEF EverySampleIsCounted
    <2> QED BY <1>0, <1>1, <2>3, <2>5 DEF RingInv, Shape, WholeInv, PairInv, BlockInv, High
  <1>3. CASE PollOver
    <2>1. xrun' = [xrun EXCEPT !.overSeen = xrun.overSeen + xrun.over, !.over = 0]
      BY <1>3 DEF PollOver
    <2>2. ASSUME NEW v \in Nat
          PROVE  LET c == [xrun EXCEPT !.overSeen = v, !.over = 0]
                 IN  /\ c \in Counters /\ c.over = 0 /\ c.overSeen = v /\ c.under = xrun.under
                     /\ c.underSeen = xrun.underSeen /\ c.heard = xrun.heard /\ c.zeroed = xrun.zeroed
      BY <1>0 DEF Shape, Counters
    <2>3. /\ xrun' \in Counters /\ xrun'.over = 0 /\ xrun'.under = xrun.under
          /\ xrun'.overSeen = xrun.overSeen + xrun.over /\ xrun'.underSeen = xrun.underSeen
          /\ xrun'.heard = xrun.heard /\ xrun'.zeroed = xrun.zeroed
      <3>1. xrun.overSeen + xrun.over \in Nat
        BY <1>n
      <3> QED BY <2>1, <2>2, <3>1
    <2>4. Len(ring) + xrun.heard + xrun.over + xrun.overSeen
          = Len(ring) + xrun.heard + 0 + (xrun.overSeen + xrun.over)
      BY <1>n
    <2>5. EverySampleIsCounted'
      BY <1>0, <1>1, <2>3, <2>4 DEF EverySampleIsCounted
    <2> QED BY <1>0, <1>1, <2>3, <2>5 DEF RingInv, Shape, WholeInv, PairInv, BlockInv, High
  <1> QED BY <1>2, <1>3

-----------------------------------------------------------------------------
(* The invariant holds *)

(* It holds at first, ...                                                  *)
LEMMA InitRing == InputRingInit => RingInv
  <1> SUFFICES ASSUME InputRingInit PROVE RingInv
    OBVIOUS
  <1>1. /\ ring = <<>> /\ made = 0 /\ src = [left |-> 0, over |-> 0] /\ out = Returned
        /\ xrun = [over |-> 0, under |-> 0, overSeen |-> 0, underSeen |-> 0, heard |-> 0, zeroed |-> 0]
    BY DEF InputRingInit
  <1>2. Shape
    BY <1>1 DEF Shape, InCallback, OutCallback, Counters, Returned
  <1>3. Len(ring) = 0 /\ out.pc = "idle" /\ out.scratch = <<>> /\ out.need = 0 /\ out.drop = 0
    BY <1>1 DEF Returned
  <1>4. WholeInv /\ PairInv /\ BlockInv
    BY <1>1, <1>3, WholeOne DEF WholeInv, PairInv, BlockInv, Aligned
  <1>5. EverySampleIsCounted
    BY <1>1, <1>3 DEF EverySampleIsCounted
  <1> QED BY <1>2, <1>4, <1>5 DEF RingInv

(* ... and every step keeps it.                                            *)
LEMMA RingStep == ASSUME RingInv, [InputRingNext]_ringVars PROVE RingInv'
  <1>1. CASE OutputStep
    BY <1>1, BeginKeepsRing, DiscardKeepsRing, CountTrimmedKeepsRing, PopKeepsRing,
       CountShortKeepsRing, MixedKeepsRing DEF OutputStep
  <1>2. CASE UNCHANGED ringVars
    BY <1>2 DEF ringVars, RingInv, Shape, WholeInv, PairInv, BlockInv, EverySampleIsCounted, High
  <1> QED BY <1>1, <1>2, CaptureKeepsRing, PushKeepsRing, CountPushedKeepsRing, PollKeepsRing
          DEF InputRingNext

LEMMA RingInvIsSafe == RingInv => RingIsSafe
  <1> SUFFICES ASSUME RingInv PROVE RingIsSafe
    OBVIOUS
  <1>1. out.scratch \in Seq(Sample)
    BY Numbers DEF RingInv
  <1>2. ASSUME NEW k \in DOMAIN out.scratch
        PROVE  /\ out.scratch[k].ch = (k - 1) % Channels
               /\ k % Channels = 0 =>
                    out.scratch[k].frame = out.scratch[k - Channels + 1].frame
    <2>1. k \in 1..Len(out.scratch)
      BY <1>1
    <2> QED BY <2>1 DEF RingInv, PairInv, Aligned, AlignedAt, Whole
  <1>3. ChannelsStayPaired
    BY <1>2 DEF ChannelsStayPaired
  <1>4. TrimIsSafe
    BY DEF RingInv, BlockInv, TrimIsSafe, High
  <1> QED BY <1>3, <1>4 DEF RingInv, RingIsSafe

-----------------------------------------------------------------------------
(* The packets of a phone: sequence numbers                                *)

(* A number is so many whole turns and a rest.                             *)
LEMMA Turns ==
    ASSUME NEW m \in Nat, m > 0, NEW a \in Int
    PROVE  \E k \in Int : a = m * k + (a % m) /\ (a % m) \in 0..m - 1
  <1>1. (a % m) = a - m * (a \div m)
    BY SMT
  <1>2. a \div m \in Int /\ (a % m) \in 0..m - 1
    OBVIOUS
  <1> DEFINE k == a \div m
  <1> HIDE DEF k
  <1>3. a = m * k + (a % m)
    BY <1>1, <1>2 DEF k
  <1> QED BY <1>2, <1>3 DEF k

LEMMA Rest ==
    ASSUME NEW m \in Nat, m > 0, NEW k \in Int, NEW b \in 0..m - 1
    PROVE  (m * k + b) % m = b
  OBVIOUS

Shift == Base + Wire(Reorder) - Reorder

LEMMA HalfTurn ==
    /\ SeqMod \in Nat /\ SeqMod > 0 /\ SeqMod \div 2 \in Nat /\ SeqMod = 2 * (SeqMod \div 2)
    /\ Reorder \in Nat /\ Base \in Nat /\ Reorder < SeqMod \div 2 /\ Reorder < Base
  BY PhoneAudioAssumption

(* Within half a turn of the newest packet, the wire number of a packet    *)
(* tells which one it is: its extended number is its own, shifted.         *)
LEMMA ExtendIsNear ==
    ASSUME first \in Int, NEW p \in Int, NEW q \in Int, p - q \in -Reorder..Reorder
    PROVE  Extend(Shift + q, Wire(p)) = Shift + p
  <1> DEFINE m == SeqMod
             h == SeqMod \div 2
  <1>1. /\ m \in Nat /\ m > 0 /\ Reorder \in Nat /\ Base \in Nat
        /\ h \in Nat /\ m = 2 * h /\ Reorder < h
    BY HalfTurn
  <1>2. PICK k0 \in Int : Base = m * k0
    <2>0. Base \in Int
      BY <1>1
    <2>1. PICK k0 \in Int : Base = m * k0 + (Base % m)
      BY <1>1, <2>0, Turns
    <2>2. Base % m = 0
      BY PhoneAudioAssumption
    <2> HIDE DEF m
    <2> QED BY <1>1, <2>1, <2>2
  <1>3. PICK k1 \in Int : first + Reorder = m * k1 + Wire(Reorder) /\ Wire(Reorder) \in 0..m - 1
    <2>1. first + Reorder \in Int
      BY <1>1
    <2> QED BY <1>1, <2>1, Turns DEF Wire
  <1>4. PICK k2 \in Int : first + p = m * k2 + Wire(p) /\ Wire(p) \in 0..m - 1
    <2>1. first + p \in Int
      OBVIOUS
    <2> QED BY <1>1, <2>1, Turns DEF Wire
  <1> DEFINE k == k1 - k2 - k0
             b == p - q + h
             x == Wire(p) - (Shift + q) + h
  <1>5. x = m * k + b
    <2>1. /\ Wire(p) = first + p - m * k2
          /\ Shift = Base + (first + Reorder - m * k1) - Reorder
      <3> HIDE DEF m
      <3> QED BY <1>1, <1>3, <1>4 DEF Shift
    <2> DEFINE m0 == m * k0
               m1 == m * k1
               m2 == m * k2
    <2>2. m * k = m1 - m2 - m0
      BY <1>1
    <2>3. m0 \in Int /\ m1 \in Int /\ m2 \in Int
      BY <1>1
    <2>4. Wire(p) = first + p - m2 /\ Shift = m0 + (first + Reorder - m1) - Reorder
      BY <1>2, <2>1
    <2> HIDE DEF m0, m1, m2, m, h, k
    <2> QED BY <1>1, <2>2, <2>3, <2>4 DEF x, b
  <1>6. b \in 0..m - 1 /\ k \in Int
    BY <1>1
  <1>8. Shift \in Int
    BY <1>1, <1>3 DEF Shift
  <1>7. x % m = b
    <2> HIDE DEF m, h, k, b, x
    <2> QED BY <1>1, <1>5, <1>6, Rest
  <1>9. Extend(Shift + q, Wire(p)) = Shift + q + (x % m) - h
    BY <1>1 DEF Extend
  <1> HIDE DEF m, h, k, x
  <1> QED BY <1>1, <1>7, <1>8, <1>9 DEF b

-----------------------------------------------------------------------------
(* The jitter buffer, with its numbers shifted to those of the packets.    *)
Frames  == UNION {[D -> Packets] : D \in SUBSET Nat}
Buffers == [frames : Frames, highest : Nat \union {None}, next : Nat \union {None},
            target : AdaptFloor..AdaptCeil, clean : 0..AdaptShrinkAfter - 1]

(* A frame is under its own number, and later than what was released.      *)
Sound(j) ==
    /\ IsFiniteSet(DOMAIN j.frames)
    /\ \A e \in DOMAIN j.frames : j.frames[e] = e - Shift
    /\ j.highest # None => j.highest - Shift \in Packets
    /\ j.highest = None => j.next = None /\ DOMAIN j.frames = {}
    /\ j.next # None => j.next >= Shift /\ \A e \in DOMAIN j.frames : e >= j.next

(* The packet that is due.                                                 *)
Due(j) == IF j.next = None THEN 0 ELSE j.next - Shift

LEMMA FramesAre ==
    ASSUME NEW f PROVE f \in Frames <=> \E D \in SUBSET Nat : f \in [D -> Packets]
  BY DEF Frames

LEMMA FrameIs ==
    ASSUME NEW f \in Frames
    PROVE  DOMAIN f \subseteq Nat /\ \A e \in DOMAIN f : f[e] \in Packets
  <1>1. PICK D \in SUBSET Nat : f \in [D -> Packets]
    BY FramesAre
  <1> QED BY <1>1

Below == {p \in Nat \X Nat : p[1] < p[2]}

LEMMA SmallestIs ==
    ASSUME NEW S, S \subseteq Nat, S # {}
    PROVE  Smallest(S) \in S /\ \A x \in S : Smallest(S) <= x
  <1>1. IsWellFoundedOn(Below, Nat)
    BY NatLessThanWellFounded DEF Below, OpToRel
  <1>2. PICK n \in S : \A m \in S : ~(<<m, n>> \in Below)
    BY <1>1, WFMin
  <1>3. \A m \in S : n <= m
    <2>1. ASSUME NEW m \in S, m < n PROVE FALSE
      <3>1. <<m, n>> \in Nat \X Nat /\ <<m, n>>[1] < <<m, n>>[2]
        BY <2>1
      <3> QED BY <1>2, <3>1 DEF Below
    <2> QED BY <2>1
  <1> QED BY <1>2, <1>3 DEF Smallest

LEMMA ShiftIs == ASSUME first \in Int PROVE Shift \in Nat /\ Shift > 0
  <1>1. first + Reorder \in Int
    BY HalfTurn
  <1>2. Wire(Reorder) \in 0..SeqMod - 1
    BY <1>1, HalfTurn, Turns DEF Wire
  <1> QED BY <1>2, HalfTurn DEF Shift

(* The controller only moves its window, ...                               *)
SameFrames(j, k) == k.frames = j.frames /\ k.highest = j.highest /\ k.next = j.next

LEMMA ControllerMoves ==
    ASSUME NEW j \in Buffers, NEW k \in {NotedClean(j), NotedLoss(j)}
    PROVE  k \in Buffers /\ SameFrames(j, k)
  <1>1. /\ AdaptFloor \in Nat /\ AdaptCeil \in Nat /\ AdaptShrinkAfter \in Nat /\ AdaptShrinkAfter > 0
        /\ AdaptBump \in Nat /\ AdaptFloor <= AdaptCeil /\ AdaptBump > 0
    BY PhoneAudioAssumption
  <1>2. j.target \in AdaptFloor..AdaptCeil /\ j.clean \in 0..AdaptShrinkAfter - 1
    BY DEF Buffers
  <1>3. ASSUME NEW t \in AdaptFloor..AdaptCeil, NEW c \in 0..AdaptShrinkAfter - 1
        PROVE  LET g == [j EXCEPT !.clean = c, !.target = t]
                   h == [j EXCEPT !.clean = c]
               IN  /\ g \in Buffers /\ SameFrames(j, g)
                   /\ h \in Buffers /\ SameFrames(j, h)
    BY DEF Buffers, SameFrames
  <1>4. /\ j.clean + 1 < AdaptShrinkAfter => j.clean + 1 \in 0..AdaptShrinkAfter - 1
        /\ 0 \in 0..AdaptShrinkAfter - 1
        /\ Most(j.target - 1, AdaptFloor) \in AdaptFloor..AdaptCeil
        /\ Least(j.target + AdaptBump, AdaptCeil) \in AdaptFloor..AdaptCeil
    BY <1>1, <1>2 DEF Most, Least
  <1> QED BY <1>3, <1>4 DEF NotedClean, NotedLoss

LEMMA SoundAsFrames ==
    ASSUME NEW j, NEW k, SameFrames(j, k), Sound(j)
    PROVE  Sound(k) /\ Due(k) = Due(j)
  BY DEF Sound, SameFrames, Due

(* ... and what is released is what is due, or later.                      *)
Good(j, d) == /\ d.jb \in Buffers /\ Sound(d.jb) /\ d.tick \in Tick
              /\ Due(j) <= Due(d.jb)
              /\ d.tick.kind # "conceal" => Due(j) <= d.tick.of /\ d.tick.of < Due(d.jb)

LEMMA OldestIs ==
    ASSUME NEW j \in Buffers, DOMAIN j.frames # {}
    PROVE  /\ Oldest(j) \in DOMAIN j.frames /\ Oldest(j) \in Nat
           /\ \A x \in DOMAIN j.frames : Oldest(j) <= x /\ x \in Nat
  <1>1. DOMAIN j.frames \subseteq Nat
    BY FrameIs DEF Buffers
  <1> QED BY <1>1, SmallestIs DEF Oldest

LEMMA DecodedIsGood ==
    ASSUME first \in Int, NEW j \in Buffers, Sound(j), NextOf(j) \in DOMAIN j.frames
    PROVE  Good(j, Decoded(j))
  <1> DEFINE n == NextOf(j)
             f == Without(j.frames, n)
             k == [j EXCEPT !.next = n + 1, !.frames = f]
             t == [kind |-> "decode", of |-> j.frames[n]]
  <1>1. n \in DOMAIN j.frames /\ j.frames[n] = n - Shift /\ j.frames[n] \in Packets /\ n \in Nat
    BY FrameIs DEF Sound, Buffers
  <1>2. \A x \in DOMAIN j.frames : n <= x /\ x \in Nat
    <2>1. CASE j.next = None
      BY <2>1, OldestIs DEF NextOf
    <2>2. CASE j.next # None
      BY <2>2, FrameIs DEF NextOf, Sound, Buffers
    <2> QED BY <2>1, <2>2
  <1>3. Shift \in Nat /\ Shift > 0
    BY ShiftIs
  <1>4. f \in Frames /\ DOMAIN f = DOMAIN j.frames \ {n} /\ \A e \in DOMAIN f : f[e] = j.frames[e]
    <2>1. DOMAIN f = DOMAIN j.frames \ {n} /\ \A e \in DOMAIN f : f[e] = j.frames[e]
      BY DEF Without
    <2>2. DOMAIN j.frames \subseteq Nat /\ \A e \in DOMAIN j.frames : j.frames[e] \in Packets
      BY FrameIs DEF Buffers
    <2>3. f \in [DOMAIN j.frames \ {n} -> Packets]
      BY <2>2 DEF Without
    <2> QED BY <2>1, <2>2, <2>3, FramesAre
  <1>5. IsFiniteSet(DOMAIN f)
    BY <1>4, FS_Subset DEF Sound
  <1> HIDE DEF f, n
  <1>6. k \in Buffers /\ k.frames = f /\ k.next = n + 1 /\ k.highest = j.highest
    <2>1. ASSUME NEW x \in Nat, NEW g \in Frames
          PROVE  LET b == [j EXCEPT !.next = x, !.frames = g]
                 IN  b \in Buffers /\ b.frames = g /\ b.next = x /\ b.highest = j.highest
      BY DEF Buffers
    <2>2. n + 1 \in Nat
      BY <1>1
    <2> QED BY <1>4, <2>1, <2>2
  <1>7. t \in Tick /\ t.kind = "decode" /\ t.of = n - Shift
    <2>1. j.frames[n] \in -1..LastPacket
      BY <1>1 DEF Packets
    <2> QED BY <1>1, <2>1 DEF Tick
  <1>8. Decoded(j) = [jb |-> k, tick |-> t]
    BY DEF Decoded, n, f
  <1> HIDE DEF k, t
  <1>9. Sound(k)
    <2>1. j.highest # None /\ n >= Shift
      BY <1>1, <1>3 DEF Sound, Packets
    <2>2. \A e \in DOMAIN f : f[e] = e - Shift /\ e >= n + 1
      BY <1>1, <1>2, <1>4 DEF Sound
    <2>3. j.highest - Shift \in Packets
      BY <2>1 DEF Sound
    <2> QED BY <1>1, <1>3, <1>5, <1>6, <2>1, <2>2, <2>3 DEF Sound, None
  <1>10. Due(k) = n + 1 - Shift
    BY <1>1, <1>3, <1>6 DEF Due, None
  <1>11. Due(j) \in Int /\ Due(j) <= n - Shift
    BY <1>1, <1>3 DEF Due, NextOf, n, Packets
  <1> QED BY <1>1, <1>3, <1>6, <1>7, <1>8, <1>9, <1>10, <1>11 DEF Good

LEMMA ConcealedIsGood ==
    ASSUME first \in Int, NEW j \in Buffers, Sound(j), DOMAIN j.frames # {}
    PROVE  Good(j, Concealed(j))
  <1> DEFINE n == Oldest(j)
             k == [j EXCEPT !.next = n]
             t == [kind |-> "conceal"]
  <1>1. /\ n \in DOMAIN j.frames /\ j.frames[n] = n - Shift /\ j.frames[n] \in Packets /\ n \in Nat
        /\ \A x \in DOMAIN j.frames : n <= x
    BY FrameIs, OldestIs DEF Sound, Buffers
  <1>3. Shift \in Nat /\ Shift > 0 /\ n >= Shift
    BY <1>1, ShiftIs DEF Packets
  <1> HIDE DEF n
  <1>6. k \in Buffers /\ k.frames = j.frames /\ k.next = n /\ k.highest = j.highest
    BY <1>1 DEF Buffers
  <1>7. t \in Tick /\ t.kind = "conceal"
    BY DEF Tick
  <1>8. Concealed(j) = [jb |-> k, tick |-> t]
    BY DEF Concealed, n
  <1> HIDE DEF k, t
  <1>9. Sound(k)
    BY <1>1, <1>3, <1>6 DEF Sound, None
  <1>10. Due(k) = n - Shift
    BY <1>1, <1>6 DEF Due, None
  <1>11. Due(j) <= n - Shift
    <2>1. j.next # None => j.next \in Nat /\ j.next <= n
      BY <1>1 DEF Sound, Buffers
    <2> QED BY <1>1, <1>3, <2>1 DEF Due, Packets
  <1> QED BY <1>6, <1>7, <1>8, <1>9, <1>10, <1>11 DEF Good

LEMMA RecoveredIsGood ==
    ASSUME first \in Int, NEW j \in Buffers, Sound(j), DOMAIN j.frames # {},
           NextOf(j) \notin DOMAIN j.frames, Oldest(j) = j.next + 1
    PROVE  Good(j, Recovered(j))
  <1> DEFINE n == j.next
             k == [j EXCEPT !.next = n + 1]
             t == [kind |-> "recover", of |-> j.frames[n + 1] - 1]
  <1>1. /\ n + 1 \in DOMAIN j.frames /\ j.frames[n + 1] = (n + 1) - Shift
        /\ j.frames[n + 1] \in Packets /\ \A x \in DOMAIN j.frames : n + 1 <= x /\ x \in Nat
    <2>1. j.frames \in Frames /\ n + 1 \in DOMAIN j.frames
          /\ \A x \in DOMAIN j.frames : n + 1 <= x /\ x \in Nat
      BY OldestIs DEF Buffers
    <2>2. j.frames[n + 1] = (n + 1) - Shift
      <3>1. \A e \in DOMAIN j.frames : j.frames[e] = e - Shift
        BY DEF Sound
      <3> HIDE DEF n
      <3> QED BY <2>1, <3>1
    <2>3. j.frames[n + 1] \in Packets
      BY <2>1, FrameIs
    <2> QED BY <2>1, <2>2, <2>3
  <1>2. n # None /\ n \in Nat
    <2>1. n = None => NextOf(j) \in DOMAIN j.frames
      BY OldestIs DEF NextOf
    <2> QED BY <2>1 DEF Buffers
  <1>3. Shift \in Nat /\ Shift > 0 /\ n >= Shift
    BY <1>2, ShiftIs DEF Sound
  <1> HIDE DEF n
  <1>6. k \in Buffers /\ k.frames = j.frames /\ k.next = n + 1 /\ k.highest = j.highest
    <2>1. n + 1 \in Nat
      BY <1>2
    <2> QED BY <2>1 DEF Buffers
  <1>7. t \in Tick /\ t.kind = "recover" /\ t.of = n - Shift
    <2>1. n - Shift \in -1..LastPacket /\ j.frames[n + 1] - 1 = n - Shift
      BY <1>1, <1>2, <1>3, PhoneAudioAssumption DEF Packets
    <2> QED BY <2>1 DEF Tick
  <1>8. Recovered(j) = [jb |-> k, tick |-> t]
    BY DEF Recovered, n
  <1> HIDE DEF k, t
  <1>9. Sound(k)
    <2>1. j.highest # None
      BY <1>2 DEF Sound, n
    <2> QED BY <1>1, <1>2, <1>3, <1>6, <2>1 DEF Sound, None
  <1>10. Due(k) = n + 1 - Shift
    BY <1>2, <1>3, <1>6 DEF Due, None
  <1>11. Due(j) = n - Shift
    BY <1>2 DEF Due, None, n
  <1> QED BY <1>2, <1>3, <1>6, <1>7, <1>8, <1>9, <1>10, <1>11 DEF Good

(* One turn of the loop, in either mode.                                   *)
Release(j, mode) == IF mode = "adaptive" THEN DrainOneAdaptive(j) ELSE DrainOne(j)

LEMMA ReleaseIsGood ==
    ASSUME first \in Int, NEW j \in Buffers, Sound(j), DOMAIN j.frames # {}, NEW mode
    PROVE  Good(j, Release(j, mode))
  <1>1. Good(j, DrainOne(j))
    BY DecodedIsGood, ConcealedIsGood DEF DrainOne
  <1>2. ASSUME NEW k \in {NotedClean(j), NotedLoss(j)}
        PROVE  /\ k \in Buffers /\ Sound(k) /\ DOMAIN k.frames # {} /\ k.next = j.next
               /\ NextOf(k) = NextOf(j) /\ Oldest(k) = Oldest(j) /\ DOMAIN k.frames = DOMAIN j.frames
               /\ \A d : Good(k, d) => Good(j, d)
    <2>1. k \in Buffers /\ SameFrames(j, k)
      BY ControllerMoves
    <2>2. Sound(k) /\ Due(k) = Due(j)
      BY <2>1, SoundAsFrames
    <2> QED BY <2>1, <2>2 DEF SameFrames, NextOf, Oldest, Good
  <1>3. Good(j, DrainOneAdaptive(j))
    BY <1>2, DecodedIsGood, ConcealedIsGood, RecoveredIsGood DEF DrainOneAdaptive
  <1> QED BY <1>1, <1>3 DEF Release

-----------------------------------------------------------------------------
(* Definitions that count up: what they yield stays in a set that each of  *)
(* their steps stays in.                                                   *)
LEMMA Induction ==
    ASSUME NEW T \in SUBSET Nat, 0 \in T, \A n \in T : n + 1 \in T
    PROVE  T = Nat
  <1> DEFINE U == Nat \ T
  <1>1. SUFFICES ASSUME U # {} PROVE FALSE
    OBVIOUS
  <1>2. U \subseteq Nat
    OBVIOUS
  <1> DEFINE n == Smallest(U)
  <1>3. n \in U /\ \A x \in U : n <= x
    <2> HIDE DEF U
    <2> QED BY <1>1, <1>2, SmallestIs
  <1> HIDE DEF n
  <1>4. n # 0 /\ n - 1 \in Nat /\ (n - 1) + 1 = n /\ n - 1 \in T
    BY <1>3
  <1> QED BY <1>3, <1>4

LEMMA StaysIn ==
    ASSUME NEW n \in Nat, NEW A, NEW f, f[0] \in A,
           \A k \in 1..n : f[k - 1] \in A => f[k] \in A
    PROVE  \A k \in 0..n : f[k] \in A
  <1> DEFINE T == {k \in Nat : k <= n => f[k] \in A}
  <1>1. 0 \in T
    OBVIOUS
  <1>2. ASSUME NEW k \in T PROVE k + 1 \in T
    <2>1. CASE k + 1 <= n
      <3>1. k + 1 \in 1..n /\ (k + 1) - 1 = k /\ f[k] \in A
        BY <2>1
      <3> QED BY <3>1
    <2> QED BY <2>1
  <1>3. T = Nat
    <2>1. T \in SUBSET Nat
      OBVIOUS
    <2> HIDE DEF T
    <2> QED BY <1>1, <1>2, <2>1, Induction
  <1> QED BY <1>3

Counting(f, n, A, a, G) == /\ f \in [0..n -> A] /\ f[0] = a
                           /\ \A k \in 1..n : f[k] = G[<<f[k - 1], k>>]

LEMMA Counts ==
    ASSUME NEW n \in Nat, NEW A, NEW a \in A, NEW G \in [A \X (1..n) -> A]
    PROVE  \E f : Counting(f, n, A, a, G)
  <1> DEFINE T == {m \in Nat : m <= n => \E f : Counting(f, m, A, a, G)}
  <1>1. 0 \in T
    <2> DEFINE f == [k \in 0..0 |-> a]
    <2>1. f \in [0..0 -> A] /\ f[0] = a
      OBVIOUS
    <2> HIDE DEF f
    <2>2. Counting(f, 0, A, a, G)
      BY <2>1 DEF Counting
    <2> QED BY <2>2
  <1>2. ASSUME NEW m \in T PROVE m + 1 \in T
    <2>1. CASE m + 1 <= n
      <3>1. PICK f : Counting(f, m, A, a, G)
        BY <2>1
      <3>2. f \in [0..m -> A] /\ f[0] = a /\ \A k \in 1..m : f[k] = G[<<f[k - 1], k>>]
        BY <3>1 DEF Counting
      <3> DEFINE x == G[<<f[m], m + 1>>]
                 g == [k \in 0..m + 1 |-> IF k <= m THEN f[k] ELSE x]
      <3>3. x \in A
        <4>1. m \in 0..m /\ m + 1 \in 1..n
          BY <2>1
        <4>2. <<f[m], m + 1>> \in A \X (1..n)
          BY <3>2, <4>1
        <4> QED BY <4>2
      <3> HIDE DEF x
      <3>4. g \in [0..m + 1 -> A] /\ g[0] = a /\ g[m + 1] = x /\ \A k \in 0..m : g[k] = f[k]
        BY <3>2, <3>3
      <3> HIDE DEF g
      <3>5. ASSUME NEW k \in 1..m + 1 PROVE g[k] = G[<<g[k - 1], k>>]
        <4>1. CASE k = m + 1
          <5>1. k - 1 = m /\ g[k - 1] = f[m]
            BY <3>4, <4>1
          <5> QED BY <3>4, <4>1, <5>1 DEF x
        <4>2. CASE k # m + 1
          <5>1. k \in 1..m /\ k - 1 \in 0..m /\ k \in 0..m
            BY <4>2
          <5> QED BY <3>2, <3>4, <5>1
        <4> QED BY <4>1, <4>2
      <3>6. Counting(g, m + 1, A, a, G)
        BY <3>4, <3>5 DEF Counting
      <3> QED BY <3>6
    <2> QED BY <2>1
  <1>3. T = Nat
    <2>1. T \in SUBSET Nat
      OBVIOUS
    <2> HIDE DEF T
    <2> QED BY <1>1, <1>2, <2>1, Induction
  <1> QED BY <1>3

-----------------------------------------------------------------------------
(* Releasing what exceeds the window *)

(* given was released in the order it was spoken, after before, and all of *)
(* it before what is due now.                                              *)
Rising(given, before, due) ==
    /\ before < due
    /\ \A k \in DOMAIN given : given[k].kind # "conceal" =>
         /\ before < given[k].of /\ given[k].of < due
         /\ \A i \in 1..k - 1 : given[i].kind # "conceal" => given[i].of < given[k].of

Rounds(before) == {r \in [jb : Buffers, out : Seq(Tick)] :
                     Sound(r.jb) /\ Rising(r.out, before, Due(r.jb))}

OneRound(r, mode) == IF ~Above(r.jb, mode) THEN r
                 ELSE [jb |-> Release(r.jb, mode).jb, out |-> Append(r.out, Release(r.jb, mode).tick)]

LEMMA DueIs == ASSUME first \in Int, NEW j \in Buffers PROVE Due(j) \in Int
  BY ShiftIs DEF Due, Buffers

LEMMA TickIs ==
    ASSUME NEW t \in Tick
    PROVE  t.kind # "conceal" => t.of \in Packets \union {None}
  <1>1. \A x \in -1..LastPacket : x \in Packets \union {None}
    BY PhoneAudioAssumption DEF Packets, None
  <1> QED BY <1>1 DEF Tick

LEMMA RisingGrows ==
    ASSUME NEW given \in Seq(Tick), NEW before \in Packets \union {None}, NEW due \in Int,
           Rising(given, before, due), NEW t \in Tick, NEW later \in Int, due <= later,
           t.kind # "conceal" => due <= t.of /\ t.of < later
    PROVE  Rising(Append(given, t), before, later)
  <1> DEFINE n == Len(given)
             o == Append(given, t)
  <1>1. /\ n \in Nat /\ o \in Seq(Tick) /\ DOMAIN o = 1..n + 1 /\ DOMAIN given = 1..n
        /\ o[n + 1] = t /\ \A k \in 1..n : o[k] = given[k]
    OBVIOUS
  <1>2. before \in Int
    BY PhoneAudioAssumption DEF Packets, None
  <1>3. \A s \in Tick : s.kind # "conceal" => s.of \in Int
    BY TickIs, PhoneAudioAssumption DEF Packets, None
  <1> HIDE DEF o, n
  <1>4. ASSUME NEW k \in DOMAIN o, o[k].kind # "conceal"
        PROVE  /\ before < o[k].of /\ o[k].of < later
               /\ \A i \in 1..k - 1 : o[i].kind # "conceal" => o[i].of < o[k].of
    <2>1. CASE k = n + 1
      <3>1. t.of \in Int /\ due <= t.of /\ t.of < later /\ o[k] = t
        BY <1>1, <1>3, <1>4, <2>1
      <3>2. ASSUME NEW i \in 1..n, o[i].kind # "conceal" PROVE o[i].of < t.of
        <4>1. o[i] = given[i] /\ given[i] \in Tick /\ i \in DOMAIN given
          BY <1>1
        <4> QED BY <1>3, <3>1, <3>2, <4>1 DEF Rising
      <3>3. k - 1 = n
        BY <1>1, <2>1
      <3> QED BY <1>2, <3>1, <3>2, <3>3 DEF Rising
    <2>2. CASE k # n + 1
      <3>1. k \in 1..n /\ k \in DOMAIN given /\ o[k] = given[k] /\ given[k] \in Tick
            /\ \A i \in 1..k - 1 : i \in 1..n /\ o[i] = given[i]
        BY <1>1, <2>2
      <3>2. given[k].of \in Int
        BY <1>3, <1>4, <3>1
      <3> QED BY <1>2, <1>4, <3>1, <3>2 DEF Rising
    <2> QED BY <2>1, <2>2
  <1>5. before < later
    BY <1>2 DEF Rising
  <1> QED BY <1>4, <1>5 DEF Rising, o

LEMMA RoundStays ==
    ASSUME first \in Int, NEW before \in Packets \union {None}, NEW r \in Rounds(before),
           NEW mode \in Modes
    PROVE  OneRound(r, mode) \in Rounds(before)
  <1>1. r.jb \in Buffers /\ r.out \in Seq(Tick) /\ Sound(r.jb) /\ Rising(r.out, before, Due(r.jb))
    BY DEF Rounds
  <1>2. CASE Above(r.jb, mode)
    <2> DEFINE d == Release(r.jb, mode)
    <2>1. DOMAIN r.jb.frames # {}
      <3>0. AdaptFloor \in Nat /\ Window \in [Fixed -> Nat]
        BY PhoneAudioAssumption
      <3>1. r.jb.target \in Nat /\ (mode # "adaptive" => Window[mode] \in Nat)
        <4>1. r.jb.target \in AdaptFloor..AdaptCeil
          BY <1>1 DEF Buffers
        <4>2. mode # "adaptive" => mode \in Fixed
          BY DEF Modes
        <4> HIDE DEF Fixed
        <4> QED BY <3>0, <4>1, <4>2
      <3>2. Cardinality({}) = 0
        BY FS_EmptySet
      <3> QED BY <1>2, <3>1, <3>2 DEF Above
    <2>2. Good(r.jb, d)
      BY <1>1, <2>1, ReleaseIsGood
    <2> DEFINE o == Append(r.out, d.tick)
    <2> HIDE DEF d
    <2>3. /\ d.jb \in Buffers /\ Sound(d.jb) /\ d.tick \in Tick
          /\ Due(d.jb) \in Int /\ Due(r.jb) \in Int
      BY <1>1, <2>2, DueIs DEF Good
    <2>4. Rising(o, before, Due(d.jb))
      BY <1>1, <2>2, <2>3, RisingGrows DEF Good
    <2>5. o \in Seq(Tick)
      BY <1>1, <2>3
    <2>6. OneRound(r, mode) = [jb |-> d.jb, out |-> o]
      BY <1>2 DEF OneRound, d
    <2> HIDE DEF o
    <2> QED BY <2>3, <2>4, <2>5, <2>6 DEF Rounds
  <1>3. CASE ~Above(r.jb, mode)
    BY <1>3 DEF OneRound
  <1> QED BY <1>2, <1>3

LEMMA DrainedStays ==
    ASSUME first \in Int, NEW before \in Packets \union {None}, NEW j \in Buffers, Sound(j),
           before < Due(j), NEW mode \in Modes
    PROVE  Drained(j, mode) \in Rounds(before)
  <1> DEFINE n == 2 * Cardinality(DOMAIN j.frames)
             a == [jb |-> j, out |-> <<>>]
             A == Rounds(before)
             G == [p \in A \X (1..n) |-> OneRound(p[1], mode)]
  <1>1. n \in Nat
    BY FS_CardinalityType DEF Sound
  <1>2. a \in A
    <2>1. <<>> \in Seq(Tick) /\ DOMAIN <<>> = {}
      OBVIOUS
    <2>2. Rising(<<>>, before, Due(j))
      BY <2>1 DEF Rising
    <2> QED BY <2>1, <2>2 DEF Rounds
  <1>3. G \in [A \X (1..n) -> A]
    <2>1. \A r \in A : OneRound(r, mode) \in A
      BY RoundStays
    <2> HIDE DEF A, n
    <2> QED BY <2>1
  <1> DEFINE Is(f) == f = [k \in 0..n |-> IF k = 0 THEN [jb |-> j, out |-> <<>>]
                            ELSE LET r == f[k - 1] IN
                                 IF ~Above(r.jb, mode) THEN r
                                 ELSE LET d == IF mode = "adaptive" THEN DrainOneAdaptive(r.jb)
                                               ELSE DrainOne(r.jb)
                                      IN  [jb |-> d.jb, out |-> Append(r.out, d.tick)]]
             round == CHOOSE f : Is(f)
  <1>4. Drained(j, mode) = round[n]
    BY DEF Drained
  <1>5. ASSUME NEW f
        PROVE  Is(f) <=> f = [k \in 0..n |-> IF k = 0 THEN a ELSE OneRound(f[k - 1], mode)]
    BY DEF OneRound, Release
  <1>6. Is(round)
    <2>1. \E f : Counting(f, n, A, a, G)
      <3> HIDE DEF n, A, a, G
      <3> QED BY <1>1, <1>2, <1>3, Counts
    <2>2. PICK f : Counting(f, n, A, a, G)
      BY <2>1
    <2>3. f \in [0..n -> A] /\ f[0] = a /\ \A k \in 1..n : f[k] = G[<<f[k - 1], k>>]
      BY <2>2 DEF Counting
    <2>4. ASSUME NEW k \in 1..n PROVE f[k] = OneRound(f[k - 1], mode)
      <3>1. k - 1 \in 0..n
        BY <1>1
      <3>2. <<f[k - 1], k>> \in A \X (1..n)
        BY <2>3, <3>1
      <3> HIDE DEF A, n
      <3> QED BY <2>3, <3>2
    <2>5. f = [k \in 0..n |-> IF k = 0 THEN a ELSE OneRound(f[k - 1], mode)]
      <3> HIDE DEF A, n, a, G
      <3> QED BY <1>1, <2>3, <2>4
    <2>6. Is(f)
      <3> HIDE DEF Is
      <3> QED BY <1>5, <2>5
    <2> HIDE DEF Is
    <2> QED BY <2>6
  <1> HIDE DEF Is, round
  <1>7. round = [k \in 0..n |-> IF k = 0 THEN a ELSE OneRound(round[k - 1], mode)]
    BY <1>5, <1>6
  <1> HIDE DEF n, a, A
  <1>8. round[0] \in A /\ \A k \in 1..n : round[k - 1] \in A => round[k] \in A
    <2>1. round[0] = a /\ \A k \in 1..n : round[k] = OneRound(round[k - 1], mode)
      BY <1>1, <1>7
    <2>2. \A r \in A : OneRound(r, mode) \in A
      BY RoundStays DEF A
    <2> QED BY <1>2, <2>1, <2>2
  <1>9. \A k \in 0..n : round[k] \in A
    BY <1>1, <1>8, StaysIn
  <1> QED BY <1>1, <1>4, <1>9 DEF A

-----------------------------------------------------------------------------
(* What a packet adds to the buffer *)

LEMMA PacketNumber ==
    ASSUME first \in Int, jb \in Buffers, Sound(jb), NEW p \in Packets, Near(p)
    PROVE  IF jb.highest = None THEN Base + Wire(p) = Shift + p
           ELSE Extend(jb.highest, Wire(p)) = Shift + p
  <1>1. Reorder \in Nat /\ Base \in Nat /\ Shift \in Nat /\ Wire(Reorder) \in Int
    <2>1. first + Reorder \in Int
      BY HalfTurn
    <2> QED BY <2>1, HalfTurn, ShiftIs, Turns DEF Wire
  <1>2. CASE jb.highest = None
    <2>1. p = Reorder
      BY <1>2 DEF Near
    <2> QED BY <1>1, <1>2, <2>1 DEF Shift
  <1>3. CASE jb.highest # None
    <2> DEFINE q == jb.highest - Shift
    <2>1. jb.highest \in Nat
      BY <1>3 DEF Buffers
    <2>2. q \in Int /\ jb.highest = Shift + q /\ Newest = q
      BY <1>1, <2>1 DEF Newest, Shift
    <2>3. p \in Int
      BY DEF Packets
    <2>4. p - q \in -Reorder..Reorder
      BY <1>1, <1>3, <2>2, <2>3 DEF Near
    <2> HIDE DEF q
    <2> QED BY <1>3, <2>2, <2>3, <2>4, ExtendIsNear
  <1> QED BY <1>2, <1>3

LEMMA InsertedIsSound ==
    ASSUME first \in Int, jb \in Buffers, Sound(jb), NEW p \in Packets, Near(p)
    PROVE  LET j == Inserted(jb, Wire(p), p)
           IN  j \in Buffers /\ Sound(j) /\ Due(j) = Due(jb)
  <1> DEFINE e == IF jb.highest = None THEN Base + Wire(p) ELSE Extend(jb.highest, Wire(p))
             h == Most(jb.highest, e)
             seen == [jb EXCEPT !.highest = h]
             f == [x \in DOMAIN jb.frames \union {e} |-> IF x = e THEN p ELSE jb.frames[x]]
             more == [seen EXCEPT !.frames = f]
  <1>1. e = Shift + p
    BY PacketNumber
  <1>2. Shift \in Nat /\ Shift > 0 /\ p \in Nat /\ e \in Nat /\ e - Shift = p
    BY <1>1, ShiftIs DEF Packets
  <1>3. /\ h \in Nat /\ h # None /\ h - Shift \in Packets
    <2>1. jb.highest \in Nat \union {None}
      BY DEF Buffers
    <2>2. jb.highest # None => jb.highest - Shift \in Packets
      BY DEF Sound
    <2> HIDE DEF e
    <2> QED BY <1>2, <2>1, <2>2 DEF Most, None
  <1>4. /\ jb.frames \in Frames /\ DOMAIN jb.frames \subseteq Nat
        /\ \A x \in DOMAIN jb.frames : jb.frames[x] \in Packets
    BY FrameIs DEF Buffers
  <1> HIDE DEF e
  <1>5. /\ f \in Frames /\ DOMAIN f = DOMAIN jb.frames \union {e}
        /\ \A x \in DOMAIN f : f[x] = IF x = e THEN p ELSE jb.frames[x]
    <2>1. DOMAIN jb.frames \union {e} \in SUBSET Nat
      BY <1>2, <1>4
    <2>2. f \in [DOMAIN jb.frames \union {e} -> Packets]
      BY <1>4
    <2> QED BY <2>1, <2>2, FramesAre
  <1>6. IsFiniteSet(DOMAIN f)
    BY <1>5, FS_AddElement DEF Sound
  <1> HIDE DEF h, f
  <1>7. /\ seen \in Buffers /\ seen.highest = h /\ seen.frames = jb.frames /\ seen.next = jb.next
        /\ more \in Buffers /\ more.highest = h /\ more.frames = f /\ more.next = jb.next
    BY <1>3, <1>5 DEF Buffers
  <1>8. Inserted(jb, Wire(p), p) = IF jb.next # None /\ e < jb.next THEN seen ELSE more
    BY DEF Inserted, e, h, f
  <1> HIDE DEF seen, more
  <1>9. Sound(seen) /\ Due(seen) = Due(jb)
    BY <1>3, <1>7 DEF Sound, Due
  <1>10. Due(more) = Due(jb)
    BY <1>7 DEF Due
  <1>11. CASE ~(jb.next # None /\ e < jb.next)
    <2>1. ASSUME NEW x \in DOMAIN f PROVE f[x] = x - Shift
      BY <1>2, <1>5 DEF Sound
    <2>2. jb.next # None => jb.next >= Shift /\ \A x \in DOMAIN f : x >= jb.next
      <3>1. jb.next # None => jb.next \in Nat /\ e >= jb.next
        BY <1>2, <1>11 DEF Buffers
      <3> QED BY <1>5, <3>1 DEF Sound
    <2>3. Sound(more)
      BY <1>3, <1>6, <1>7, <2>1, <2>2 DEF Sound
    <2> QED BY <1>7, <1>8, <1>10, <1>11, <2>3
  <1> QED BY <1>7, <1>8, <1>9, <1>11

(* The last that was played is what was there before, or one of these.     *)
Played(given) == {given[k].of : k \in {i \in DOMAIN given : given[i].kind # "conceal"}}

LEMMA LastOfIs ==
    ASSUME NEW given \in Seq(Tick), NEW before
    PROVE  LastOf(given, before) \in {before} \union Played(given)
  <1> DEFINE n == Len(given)
             A == {before} \union Played(given)
             Next1(x, k) == IF given[k].kind = "conceal" THEN x ELSE given[k].of
             G == [p \in A \X (1..n) |-> Next1(p[1], p[2])]
  <1>1. n \in Nat /\ DOMAIN given = 1..n
    OBVIOUS
  <1>2. before \in A
    OBVIOUS
  <1>3. \A x \in A, k \in 1..n : Next1(x, k) \in A
    BY <1>1 DEF Played
  <1>4. G \in [A \X (1..n) -> A]
    <2> HIDE DEF A, n, Next1
    <2> QED BY <1>3
  <1> DEFINE Is(f) == f = [k \in 0..n |-> IF k = 0 THEN before
                            ELSE IF given[k].kind = "conceal" THEN f[k - 1] ELSE given[k].of]
             last == CHOOSE f : Is(f)
  <1>5. LastOf(given, before) = last[n]
    BY DEF LastOf
  <1>6. \A f : Is(f) <=> f = [k \in 0..n |-> IF k = 0 THEN before ELSE Next1(f[k - 1], k)]
    OBVIOUS
  <1>7. Is(last)
    <2>1. \E f : Counting(f, n, A, before, G)
      <3> HIDE DEF n, A, G
      <3> QED BY <1>1, <1>2, <1>4, Counts
    <2>2. PICK f : Counting(f, n, A, before, G)
      BY <2>1
    <2>3. f \in [0..n -> A] /\ f[0] = before /\ \A k \in 1..n : f[k] = G[<<f[k - 1], k>>]
      BY <2>2 DEF Counting
    <2>4. ASSUME NEW k \in 1..n PROVE f[k] = Next1(f[k - 1], k)
      <3>1. k - 1 \in 0..n
        BY <1>1
      <3>2. <<f[k - 1], k>> \in A \X (1..n)
        BY <2>3, <3>1
      <3> HIDE DEF A, n, Next1
      <3> QED BY <2>3, <3>2
    <2>5. f = [k \in 0..n |-> IF k = 0 THEN before ELSE Next1(f[k - 1], k)]
      <3> HIDE DEF A, n, G, Next1
      <3> QED BY <1>1, <2>3, <2>4
    <2>6. Is(f)
      <3> HIDE DEF Is
      <3> QED BY <1>6, <2>5
    <2> HIDE DEF Is
    <2> QED BY <2>6
  <1> HIDE DEF Is, last
  <1>8. last = [k \in 0..n |-> IF k = 0 THEN before ELSE Next1(last[k - 1], k)]
    BY <1>6, <1>7
  <1> HIDE DEF n, A, Next1
  <1>9. last[0] \in A /\ \A k \in 1..n : last[k - 1] \in A => last[k] \in A
    BY <1>1, <1>2, <1>3, <1>8
  <1>10. \A k \in 0..n : last[k] \in A
    BY <1>1, <1>9, StaysIn
  <1> QED BY <1>1, <1>5, <1>10 DEF A

-----------------------------------------------------------------------------
(* The feeds *)

ExactFeeds == {f \in Feed : f.stepTrim = f.trim /\ (f.fixed => f.stepTrim = 0)}

LEMMA ClampIs == ASSUME NEW x \in Int PROVE Clamp(x) \in -MaxTrim..MaxTrim
  BY PhoneAudioAssumption DEF Clamp, Most, Least

LEMMA PushedStaysExact ==
    ASSUME NEW f \in ExactFeeds, NEW adaptive \in BOOLEAN, NEW error \in {-1, 0, 1}
    PROVE  Pushed1(f, adaptive, error) \in ExactFeeds
  <1>1. DriftCadence \in Nat /\ DriftCadence > 0 /\ DriftStep \in Nat /\ MaxTrim \in Nat
    BY PhoneAudioAssumption
  <1>2. /\ f \in Feed /\ f.trim \in Int /\ f.trim = f.stepTrim /\ f.pushes \in 0..DriftCadence - 1
        /\ (f.fixed => f.stepTrim = 0)
    BY <1>1 DEF ExactFeeds, Feed
  <1> DEFINE g == [f EXCEPT !.fixed = ~adaptive]
  <1>3. /\ g \in Feed /\ g.fixed = ~adaptive /\ g.trim = f.trim /\ g.stepTrim = f.stepTrim
        /\ g.pushes = f.pushes
    BY <1>2 DEF Feed
  <1> HIDE DEF g
  <1>4. CASE ~adaptive
    <2>1. Restored(g) \in ExactFeeds
      <3> DEFINE m == [g EXCEPT !.trim = 0, !.stepTrim = 0]
      <3>1. 0 \in -MaxTrim..MaxTrim
        BY <1>1
      <3>2. m \in Feed /\ m.trim = 0 /\ m.stepTrim = 0
        BY <1>3, <3>1 DEF Feed
      <3>3. Restored(g) = m
        BY DEF Restored
      <3> HIDE DEF m
      <3> QED BY <3>2, <3>3 DEF ExactFeeds
    <2>2. g.trim = 0 => g \in ExactFeeds
      BY <1>2, <1>3 DEF ExactFeeds
    <2> QED BY <1>4, <2>1, <2>2 DEF Pushed1, g
  <1>5. CASE adaptive
    <2>1. g.fixed = FALSE
      BY <1>3, <1>5
    <2>2. CASE g.pushes + 1 < DriftCadence
      <3> DEFINE n == [g EXCEPT !.pushes = g.pushes + 1]
      <3>1. n \in Feed /\ n.fixed = FALSE /\ n.trim = g.trim /\ n.stepTrim = g.stepTrim
        BY <1>1, <1>2, <1>3, <2>1, <2>2 DEF Feed
      <3>2. Pushed1(f, adaptive, error) = n
        BY <1>5, <2>2 DEF Pushed1, g
      <3> QED BY <1>2, <1>3, <3>1, <3>2 DEF ExactFeeds
    <2>3. CASE ~(g.pushes + 1 < DriftCadence)
      <3> DEFINE n == [g EXCEPT !.pushes = 0]
                 t == Clamp(n.trim + error * DriftStep)
                 m == [n EXCEPT !.trim = t, !.stepTrim = t]
      <3>1. n \in Feed /\ n.fixed = FALSE /\ n.trim = g.trim /\ n.stepTrim = g.stepTrim
        BY <1>1, <1>3, <2>1 DEF Feed
      <3> HIDE DEF n
      <3>2. t \in -MaxTrim..MaxTrim
        <4>1. error * DriftStep \in Int /\ n.trim \in Int
          BY <1>1, <1>2, <1>3, <3>1
        <4>2. n.trim + error * DriftStep \in Int
          BY <4>1
        <4> QED BY <4>2, ClampIs
      <3> HIDE DEF t
      <3>3. m \in Feed /\ m.fixed = FALSE /\ m.trim = t /\ m.stepTrim = t
        BY <3>1, <3>2 DEF Feed
      <3>4. Pushed1(f, adaptive, error) = IF error = 0 THEN n ELSE m
        BY <1>5, <2>3 DEF Pushed1, Steered, g, n, t
      <3> QED BY <1>2, <1>3, <3>1, <3>3, <3>4 DEF ExactFeeds
    <2> QED BY <2>2, <2>3
  <1> QED BY <1>4, <1>5

LEMMA PushedTimesStaysExact ==
    ASSUME NEW f \in ExactFeeds, NEW adaptive \in BOOLEAN, NEW error \in {-1, 0, 1}, NEW n \in Nat
    PROVE  PushedTimes(f, adaptive, error, n) \in ExactFeeds
  <1> DEFINE A == ExactFeeds
             G == [p \in A \X (1..n) |-> Pushed1(p[1], adaptive, error)]
             Is(h) == h = [k \in 0..n |-> IF k = 0 THEN f ELSE Pushed1(h[k - 1], adaptive, error)]
             after == CHOOSE h : Is(h)
  <1>1. \A x \in A : Pushed1(x, adaptive, error) \in A
    BY PushedStaysExact
  <1> HIDE DEF A
  <1>2. G \in [A \X (1..n) -> A]
    BY <1>1
  <1>3. PushedTimes(f, adaptive, error, n) = IF f.subs = {} THEN f ELSE after[n]
    BY DEF PushedTimes
  <1>4. Is(after)
    <2>1. \E h : Counting(h, n, A, f, G)
      <3>1. f \in A
        BY DEF A
      <3> HIDE DEF G
      <3> QED BY <1>2, <3>1, Counts
    <2>2. PICK h : Counting(h, n, A, f, G)
      BY <2>1
    <2>3. h \in [0..n -> A] /\ h[0] = f /\ \A k \in 1..n : h[k] = G[<<h[k - 1], k>>]
      BY <2>2 DEF Counting
    <2>4. ASSUME NEW k \in 1..n PROVE h[k] = Pushed1(h[k - 1], adaptive, error)
      <3>1. k - 1 \in 0..n
        OBVIOUS
      <3>2. <<h[k - 1], k>> \in A \X (1..n)
        BY <2>3, <3>1
      <3> QED BY <2>3, <3>2
    <2>5. Is(h)
      <3> HIDE DEF G
      <3> QED BY <2>3, <2>4
    <2> HIDE DEF Is
    <2> QED BY <2>5
  <1> HIDE DEF after
  <1>5. after[0] \in A /\ \A k \in 1..n : after[k - 1] \in A => after[k] \in A
    <2>1. f \in A
      BY DEF A
    <2> QED BY <1>1, <1>4, <2>1
  <1>6. \A k \in 0..n : after[k] \in A
    <2> HIDE DEF Is
    <2> QED BY <1>5, StaysIn
  <1> QED BY <1>3, <1>6 DEF A

-----------------------------------------------------------------------------
(* The invariant *)

PacketsInv == /\ first \in 0..SeqMod - 1 /\ latency \in Modes
              /\ jb \in Buffers /\ Sound(jb)
              /\ ticks \in Seq(Tick) /\ upTo \in Packets \union {None}
              /\ Rising(ticks, upTo, Due(jb))
              /\ feed \in [Rates -> ExactFeeds]

LEMMA InitPackets == PhoneAudioInit => PacketsInv
  <1> SUFFICES ASSUME PhoneAudioInit PROVE PacketsInv
    OBVIOUS
  <1>1. /\ first \in FirstWires /\ latency = "balanced" /\ jb = NewBuffer /\ ticks = <<>>
        /\ upTo = None /\ feed = [r \in Rates |-> NewFeed]
    BY DEF PhoneAudioInit
  <1>2. first \in 0..SeqMod - 1 /\ latency \in Modes
    BY <1>1, PhoneAudioAssumption DEF Modes
  <1>3. Empty \in Frames /\ DOMAIN Empty = {}
    <2>1. Empty \in [{} -> Packets]
      BY DEF Empty
    <2> QED BY <2>1, FramesAre
  <1>4. jb \in Buffers
    BY <1>1, <1>3, PhoneAudioAssumption DEF NewBuffer, Buffers
  <1>5. Sound(jb) /\ Due(jb) = 0
    BY <1>1, <1>3, FS_EmptySet DEF NewBuffer, Sound, Due
  <1>6. Rising(ticks, upTo, Due(jb)) /\ ticks \in Seq(Tick)
    <2>1. DOMAIN <<>> = {} /\ <<>> \in Seq(Tick)
      OBVIOUS
    <2> QED BY <1>1, <1>5, <2>1 DEF Rising, None
  <1>7. NewFeed \in ExactFeeds
    BY PhoneAudioAssumption DEF NewFeed, ExactFeeds, Feed
  <1> QED BY <1>1, <1>2, <1>4, <1>5, <1>6, <1>7 DEF PacketsInv

LEMMA ArriveKeepsPackets == ASSUME PacketsInv, NEW p \in Packets, Arrive(p) PROVE PacketsInv'
  <1> DEFINE last == LastOf(ticks, upTo)
             j == Inserted(jb, Wire(p), p)
             after == Drained(j, latency)
  <1>1. first \in Int /\ first' = first /\ latency' = latency /\ Shift' = Shift /\ upTo' = last
    <2>1. first \in Int
      BY HalfTurn DEF PacketsInv
    <2> QED BY <2>1 DEF Arrive, Shift, Wire
  <1>2. j \in Buffers /\ Sound(j) /\ Due(j) = Due(jb)
    BY <1>1, InsertedIsSound DEF PacketsInv, Arrive
  <1>3. last \in Packets \union {None} /\ last < Due(j)
    <2>1. last \in {upTo} \union Played(ticks)
      BY LastOfIs DEF PacketsInv
    <2>2. \A x \in Played(ticks) : x \in Packets \union {None} /\ x < Due(jb)
      BY TickIs DEF PacketsInv, Played, Rising
    <2>3. upTo \in Packets \union {None} /\ upTo < Due(jb)
      BY DEF PacketsInv, Rising
    <2> QED BY <1>2, <2>1, <2>2, <2>3
  <1> HIDE DEF last
  <1>4. after \in Rounds(last)
    <2> HIDE DEF j
    <2> QED BY <1>1, <1>2, <1>3, DrainedStays DEF PacketsInv
  <1>5. jb' = after.jb /\ ticks' = after.out
    BY DEF Arrive
  <1>6. /\ jb' \in Buffers /\ ticks' \in Seq(Tick) /\ Sound(jb') /\ Rising(ticks', last, Due(jb'))
    <2> HIDE DEF after
    <2> QED BY <1>4, <1>5 DEF Rounds
  <1>7. Sound(jb)' /\ Due(jb)' = Due(jb')
    BY <1>1, <1>6 DEF Sound, Due
  <1>8. feed' \in [Rates -> ExactFeeds]
    <2>1. PICK played \in 0..Len(after.out), error \in {-1, 0, 1} :
            feed' = [r \in Rates |-> PushedTimes(feed[r], latency = "adaptive", error, played)]
      BY DEF Arrive
    <2>2. played \in Nat
      <3>1. after.out \in Seq(Tick)
        BY <1>5, <1>6
      <3> HIDE DEF after
      <3> QED BY <3>1
    <2>3. ASSUME NEW r \in Rates
          PROVE  PushedTimes(feed[r], latency = "adaptive", error, played) \in ExactFeeds
      <3>1. feed[r] \in ExactFeeds /\ (latency = "adaptive") \in BOOLEAN
        BY DEF PacketsInv
      <3> QED BY <2>2, <3>1, PushedTimesStaysExact
    <2> QED BY <2>1, <2>3
  <1>9. first' \in 0..SeqMod - 1 /\ latency' \in Modes
    BY <1>1 DEF PacketsInv
  <1>10. Rising(ticks, upTo, Due(jb))'
    BY <1>1, <1>6, <1>7 DEF Rising
  <1> QED BY <1>1, <1>3, <1>6, <1>7, <1>8, <1>9, <1>10 DEF PacketsInv

(* Of the subscriptions, only who listens changes.                         *)
LEMMA ListenersKeepPackets ==
    ASSUME PacketsInv, NEW b \in Listeners, SubscribePhone(b) \/ DropSubscription(b)
    PROVE  PacketsInv'
  <1> DEFINE r == RateOf[b]
  <1>1. r \in Rates /\ feed[r] \in ExactFeeds /\ feed \in [Rates -> ExactFeeds]
    BY DEF Rates, PacketsInv
  <1>2. ASSUME NEW S \in SUBSET Listeners PROVE [feed[r] EXCEPT !.subs = S] \in ExactFeeds
    BY <1>1 DEF ExactFeeds, Feed
  <1>3. feed[r].subs \in SUBSET Listeners
    BY <1>1 DEF ExactFeeds, Feed
  <1>4. NewFeed \in ExactFeeds
    BY PhoneAudioAssumption DEF NewFeed, ExactFeeds, Feed
  <1>5. \E f \in ExactFeeds : feed' = [feed EXCEPT ![r] = f]
    <2>1. CASE SubscribePhone(b)
      <3> DEFINE f == [feed[r] EXCEPT !.subs = feed[r].subs \union {b}]
      <3>1. f \in ExactFeeds
        BY <1>2, <1>3
      <3>2. feed' = [feed EXCEPT ![r] = f]
        BY <1>1, <2>1 DEF SubscribePhone
      <3> HIDE DEF f
      <3> QED BY <3>1, <3>2
    <2>2. CASE DropSubscription(b)
      <3> DEFINE f == WithoutListener(feed[r], b)
      <3>1. f \in ExactFeeds
        BY <1>2, <1>3, <1>4 DEF WithoutListener
      <3>2. feed' = [feed EXCEPT ![r] = f]
        BY <1>1, <2>2 DEF DropSubscription
      <3> HIDE DEF f
      <3> QED BY <3>1, <3>2
    <2> QED BY <2>1, <2>2
  <1>6. feed' \in [Rates -> ExactFeeds]
    BY <1>1, <1>5
  <1>7. UNCHANGED <<first, latency, jb, ticks, upTo>>
    BY DEF SubscribePhone, DropSubscription
  <1> QED BY <1>6, <1>7 DEF PacketsInv, Sound, Due, Rising, Shift, Wire

LEMMA PacketsStep == ASSUME PacketsInv, [PhoneAudioNext]_phoneAudioVars PROVE PacketsInv'
  <1>1. CASE \E m \in Modes : SetLatency(m)
    BY <1>1 DEF SetLatency, PacketsInv, Sound, Due, Rising, Shift, Wire
  <1>2. CASE UNCHANGED phoneAudioVars
    BY <1>2 DEF phoneAudioVars, PacketsInv, Sound, Due, Rising, Shift, Wire
  <1> QED BY <1>1, <1>2, ArriveKeepsPackets, ListenersKeepPackets DEF PhoneAudioNext

LEMMA PacketsInvIsSafe == PacketsInv => PhoneAudioIsSafe
  <1> SUFFICES ASSUME PacketsInv PROVE PhoneAudioIsSafe
    OBVIOUS
  <1>1. ASSUME NEW k \in DOMAIN ticks, ticks[k].kind # "conceal"
        PROVE  ticks[k].of > LastOf(SubSeq(ticks, 1, k - 1), upTo)
    <2> DEFINE s == SubSeq(ticks, 1, k - 1)
    <2>1. ticks \in Seq(Tick) /\ Rising(ticks, upTo, Due(jb))
      BY DEF PacketsInv
    <2>2. /\ k \in 1..Len(ticks) /\ s \in Seq(Tick) /\ DOMAIN s = 1..k - 1
          /\ \A i \in 1..k - 1 : s[i] = ticks[i]
      BY <2>1
    <2>3. upTo < ticks[k].of
          /\ \A i \in 1..k - 1 : ticks[i].kind # "conceal" => ticks[i].of < ticks[k].of
      BY <1>1, <2>1 DEF Rising
    <2> HIDE DEF s
    <2>4. \A x \in {upTo} \union Played(s) : x < ticks[k].of
      BY <2>2, <2>3 DEF Played
    <2>5. LastOf(s, upTo) < ticks[k].of
      BY <2>2, <2>4, LastOfIs
    <2>6. LastOf(s, upTo) \in Int /\ ticks[k].of \in Int
      <3>1. \A t \in Tick : t.kind # "conceal" => t.of \in Int
        BY TickIs, PhoneAudioAssumption DEF Packets, None
      <3>2. upTo \in Int
        BY PhoneAudioAssumption DEF PacketsInv, Packets, None
      <3>3. \A x \in {upTo} \union Played(s) : x \in Int
        BY <2>2, <3>1, <3>2 DEF Played
      <3> QED BY <1>1, <2>1, <2>2, <3>1, <3>3, LastOfIs
    <2> QED BY <2>5, <2>6 DEF s
  <1>2. FixedModeIsExact
    BY DEF PacketsInv, ExactFeeds, FixedModeIsExact
  <1> QED BY <1>1, <1>2 DEF PlayedInOrder, PhoneAudioIsSafe

LEMMA PacketsInvIsTyped == PacketsInv => PhoneAudioTypeOK
  <1> SUFFICES ASSUME PacketsInv PROVE PhoneAudioTypeOK
    OBVIOUS
  <1>1. DOMAIN jb.frames \subseteq Nat /\ \A e \in DOMAIN jb.frames : jb.frames[e] \in Packets
    BY FrameIs DEF PacketsInv, Buffers
  <1>2. JitterTypeOK
    BY <1>1 DEF PacketsInv, Buffers, JitterTypeOK
  <1>3. feed \in [Rates -> Feed]
    BY DEF PacketsInv, ExactFeeds
  <1> QED BY <1>2, <1>3 DEF PacketsInv, PhoneAudioTypeOK

-----------------------------------------------------------------------------
(* The stage order.  A list without repetitions that names every stage is  *)
(* a permutation of them.                                                  *)

Values(q) == {q[i] : i \in DOMAIN q}
Once(q) == \A i, j \in DOMAIN q : i # j => q[i] # q[j]
Lists == {q \in Seq(Effects) : Once(q)}

LEMMA Following ==
    ASSUME NEW T, NEW x \in T, NEW a \in Seq(T), NEW b \in Seq(T)
    PROVE  \A i \in 1..Len(a) : /\ i + 1 \in DOMAIN (<<x>> \o a \o b)
                                /\ (<<x>> \o a \o b)[i + 1] = a[i]
  <1> DEFINE s == <<x>> \o a
  <1>1. s \in Seq(T) /\ Len(s) = Len(a) + 1 /\ \A i \in 1..Len(a) : s[i + 1] = a[i]
    OBVIOUS
  <1> HIDE DEF s
  <1>2. Len(a) \in Nat /\ \A i \in 1..Len(a) : i + 1 \in 1..Len(s)
    BY <1>1
  <1>3. DOMAIN (s \o b) = 1..Len(s) + Len(b) /\ Len(b) \in Nat
        /\ \A i \in 1..Len(s) : (s \o b)[i] = s[i]
    BY <1>1
  <1> QED BY <1>1, <1>2, <1>3 DEF s

LEMMA StagesAre ==
    /\ Stages \in Lists /\ Values(Stages) = Effects /\ DOMAIN Stages = 1..Len(Stages)
    /\ Len(Stages) \in Nat /\ Len(Stages) <= 8
  <1>1. Stages \in Seq(STRING) /\ AutomixGroups \in Seq(STRING) /\ Len(Stages) <= 8
    BY LiveDspAssumption
  <1>2. Stages \in Seq(Effects) /\ DOMAIN Stages = 1..Len(Stages) /\ Len(Stages) \in Nat
    BY <1>1 DEF Effects
  <1>3. ASSUME NEW i \in DOMAIN Stages PROVE i + 1 \in DOMAIN FieldOrder /\ FieldOrder[i + 1] = Stages[i]
    <2> DEFINE T == STRING \union {"order"}
    <2>1. "order" \in T /\ Stages \in Seq(T) /\ AutomixGroups \in Seq(T) /\ i \in 1..Len(Stages)
      BY <1>1, <1>2
    <2> HIDE DEF T
    <2> QED BY <2>1, Following DEF FieldOrder
  <1>4. Once(Stages)
    <2>1. ASSUME NEW i \in DOMAIN Stages, NEW j \in DOMAIN Stages, i # j
          PROVE  FieldOrder[i + 1] # FieldOrder[j + 1]
      <3>1. i + 1 # j + 1
        BY <1>2, <2>1
      <3> QED BY <1>3, <3>1, LiveDspAssumption
    <2> QED BY <1>3, <2>1 DEF Once
  <1> QED BY <1>1, <1>2, <1>4 DEF Lists, Values, Effects

LEMMA Bijected ==
    ASSUME NEW q \in Lists
    PROVE  /\ ExistsBijection(1..Len(q), Values(q))
           /\ Cardinality(Values(q)) = Len(q)
  <1>1. q \in Seq(Effects) /\ DOMAIN q = 1..Len(q) /\ Len(q) \in Nat /\ Once(q)
    BY DEF Lists
  <1>2. q \in [1..Len(q) -> Values(q)]
    BY <1>1 DEF Values
  <1>3. q \in Bijection(1..Len(q), Values(q))
    BY <1>1, <1>2 DEF Bijection, Injection, Surjection, Once, Values, IsInjective
  <1>4. ExistsBijection(1..Len(q), Values(q))
    BY <1>3 DEF ExistsBijection
  <1> QED BY <1>1, <1>4, FS_CountingElements

LEMMA PermutationIs ==
    ASSUME NEW q \in Lists, Values(q) = Effects
    PROVE  Len(q) = Len(Stages) /\ q \in Permutations
  <1>1. Len(q) = Len(Stages)
    BY Bijected, StagesAre
  <1>2. q \in [DOMAIN Stages -> Effects] /\ Once(q)
    BY <1>1, StagesAre DEF Lists
  <1> QED BY <1>1, <1>2 DEF Permutations, Once

(* WithStage keeps such a list, and names one more stage.                  *)
LEMMA WithStageIs ==
    ASSUME NEW q \in Lists, NEW s \in Effects
    PROVE  WithStage(q, s) \in Lists /\ Values(WithStage(q, s)) = Values(q) \union {s}
  <1>1. q \in Seq(Effects) /\ DOMAIN q = 1..Len(q) /\ Len(q) \in Nat /\ Once(q)
    BY DEF Lists
  <1>2. CASE \E i \in DOMAIN q : q[i] = s
    BY <1>2 DEF WithStage, Values
  <1>3. CASE ~\E i \in DOMAIN q : q[i] = s
    <2> DEFINE r == Append(q, s)
    <2>1. /\ r \in Seq(Effects) /\ DOMAIN r = 1..Len(q) + 1 /\ r[Len(q) + 1] = s
          /\ \A i \in DOMAIN q : r[i] = q[i]
      BY <1>1
    <2>2. WithStage(q, s) = r
      BY <1>3 DEF WithStage
    <2> HIDE DEF r
    <2>3. \A i \in DOMAIN r : i \in DOMAIN q \/ i = Len(q) + 1
      BY <1>1, <2>1
    <2>4. Once(r)
      BY <1>1, <1>3, <2>1, <2>3 DEF Once
    <2>5. Values(r) = Values(q) \union {s}
      <3>1. DOMAIN q \subseteq DOMAIN r /\ Len(q) + 1 \in DOMAIN r
        BY <1>1, <2>1
      <3> QED BY <2>1, <2>3, <3>1 DEF Values
    <2> QED BY <2>1, <2>2, <2>4, <2>5 DEF Lists
  <1> QED BY <1>2, <1>3

LEMMA NormalizedIs ==
    ASSUME NEW o \in Seq(Effects)
    PROVE  Normalized(o) \in Permutations /\ Normalized(o) \in Lists /\ Values(Normalized(o)) = Effects
  <1> DEFINE all == o \o Stages
             n == Len(all)
             A == Lists
             none == <<>>
             G == [p \in A \X (1..n) |-> WithStage(p[1], all[p[2]])]
             Is(h) == h = [k \in 0..n |-> IF k = 0 THEN none ELSE WithStage(h[k - 1], all[k])]
             kept == CHOOSE h : Is(h)
  <1>1. /\ all \in Seq(Effects) /\ n \in Nat /\ DOMAIN all = 1..n
        /\ \A i \in DOMAIN Stages : Len(o) + i \in 1..n /\ all[Len(o) + i] = Stages[i]
    BY StagesAre DEF Lists
  <1>2. none \in A
    BY DEF Lists, Once
  <1>3. Normalized(o) = kept[n]
    BY DEF Normalized
  <1> HIDE DEF all, n
  <1>4. G \in [A \X (1..n) -> A]
    BY <1>1, WithStageIs
  <1>5. \E h : Is(h) /\ h \in [0..n -> A]
    <2>1. PICK h : Counting(h, n, A, none, G)
      <3> HIDE DEF G, A, none
      <3> QED BY <1>1, <1>2, <1>4, Counts
    <2>2. h \in [0..n -> A] /\ h[0] = none /\ \A k \in 1..n : h[k] = G[<<h[k - 1], k>>]
      BY <2>1 DEF Counting
    <2>3. ASSUME NEW k \in 1..n PROVE h[k] = WithStage(h[k - 1], all[k])
      <3>1. k - 1 \in 0..n
        BY <1>1
      <3>2. <<h[k - 1], k>> \in A \X (1..n)
        BY <2>2, <3>1
      <3> QED BY <2>2, <3>2
    <2>4. Is(h)
      <3> HIDE DEF G, A, none
      <3> QED BY <1>1, <2>2, <2>3
    <2> QED BY <2>2, <2>4
  <1>6. Is(kept)
    <2> HIDE DEF Is
    <2> QED BY <1>5
  <1> HIDE DEF kept
  <1>7. \A k \in 0..n : kept[k] \in A
    <2>1. kept[0] = none /\ \A k \in 1..n : kept[k] = WithStage(kept[k - 1], all[k])
      BY <1>1, <1>6
    <2>2. \A k \in 1..n : kept[k - 1] \in A => kept[k] \in A
      BY <1>1, <2>1, WithStageIs
    <2> HIDE DEF Is, A
    <2> QED BY <1>1, <1>2, <2>1, <2>2, StaysIn
  <1> DEFINE Full == {k \in 0..n : \A i \in 1..k : all[i] \in Values(kept[k])}
             at == [k \in 0..n |-> k]
  <1>8. \A k \in 0..n : at[k] \in Full
    <2>1. at[0] \in Full
      BY <1>1
    <2>2. ASSUME NEW k \in 1..n, at[k - 1] \in Full PROVE at[k] \in Full
      <3>1. k - 1 \in 0..n /\ k \in 0..n
        BY <1>1
      <3>2. kept[k] = WithStage(kept[k - 1], all[k]) /\ all[k] \in Effects /\ kept[k - 1] \in A
        BY <1>1, <1>6, <1>7, <3>1
      <3>3. Values(kept[k]) = Values(kept[k - 1]) \union {all[k]}
        BY <3>2, WithStageIs
      <3>4. \A i \in 1..k : i \in 1..k - 1 \/ i = k
        BY <1>1
      <3>5. \A i \in 1..k - 1 : all[i] \in Values(kept[k - 1])
        BY <2>2, <3>1
      <3> QED BY <3>1, <3>3, <3>4, <3>5
    <2> HIDE DEF at, Full
    <2> QED BY <1>1, <2>1, <2>2, StaysIn
  <1>9. n \in 0..n /\ kept[n] \in A /\ \A i \in 1..n : all[i] \in Values(kept[n])
    BY <1>1, <1>7, <1>8
  <1>10. Values(kept[n]) = Effects
    <2>1. Values(kept[n]) \subseteq Effects
      BY <1>9 DEF Lists, Values
    <2>2. ASSUME NEW s \in Effects PROVE s \in Values(kept[n])
      <3>1. PICK i \in DOMAIN Stages : s = Stages[i]
        BY DEF Effects
      <3> QED BY <1>1, <1>9, <3>1
    <2> QED BY <2>1, <2>2
  <1> QED BY <1>3, <1>9, <1>10, PermutationIs

LEMMA CodeIs ==
    ASSUME NEW s \in Effects
    PROVE  CodeOf(s) \in 1..Len(Stages) /\ Stages[CodeOf(s)] = s /\ StageOfCode(CodeOf(s) - 1) = s
  <1>1. \E i \in DOMAIN Stages : Stages[i] = s
    BY DEF Effects
  <1>2. CodeOf(s) \in DOMAIN Stages /\ Stages[CodeOf(s)] = s
    BY <1>1 DEF CodeOf
  <1>3. CodeOf(s) \in 1..Len(Stages) /\ (CodeOf(s) - 1) + 1 = CodeOf(s)
    BY <1>2, StagesAre
  <1> QED BY <1>2, <1>3 DEF StageOfCode

(* Division gives back what multiplication has shifted.                    *)
LEMMA Shifted ==
    ASSUME NEW c \in 0..7, NEW x \in Nat
    PROVE  (c + 8 * x) \div 8 = x /\ (c + 8 * x) % 8 = c
  OBVIOUS

(* What is packed comes out again, the first stage from the lowest bits.   *)
LEMMA PackedIs ==
    ASSUME NEW q \in [1..Len(Stages) -> Effects], Len(q) = Len(Stages)
    PROVE  Packed(q) \in Nat /\ Unpacked(Packed(q)) = q
  <1> DEFINE n == Len(Stages)
             Code(k) == CodeOf(q[n - k + 1]) - 1
             G == [x \in Nat \X (1..n) |-> Code(x[2]) + 8 * x[1]]
             Is(h) == h = [k \in 0..n |-> IF k = 0 THEN 0 ELSE Code(k) + 8 * h[k - 1]]
             packed == CHOOSE h : Is(h)
  <1>1. n \in Nat /\ n <= 8 /\ \A k \in 1..n : n - k + 1 \in 1..n
    BY StagesAre
  <1>2. ASSUME NEW k \in 1..n PROVE Code(k) \in 0..7
    <2>1. q[n - k + 1] \in Effects
      BY <1>1
    <2>2. CodeOf(q[n - k + 1]) \in 1..n
      BY <2>1, CodeIs
    <2> QED BY <1>1, <2>2
  <1>3. Packed(q) = packed[n]
    BY <1>1 DEF Packed
  <1> HIDE DEF Code
  <1>4. Is(packed) /\ packed \in [0..n -> Nat]
    <2>1. G \in [Nat \X (1..n) -> Nat]
      BY <1>2
    <2>2. PICK h : Counting(h, n, Nat, 0, G)
      <3> HIDE DEF G, n
      <3> QED BY <1>1, <2>1, Counts
    <2>3. h \in [0..n -> Nat] /\ h[0] = 0 /\ \A k \in 1..n : h[k] = G[<<h[k - 1], k>>]
      BY <2>2 DEF Counting
    <2>4. ASSUME NEW k \in 1..n PROVE h[k] = Code(k) + 8 * h[k - 1]
      <3>1. k - 1 \in 0..n
        BY <1>1
      <3>2. <<h[k - 1], k>> \in Nat \X (1..n)
        BY <2>3, <3>1
      <3> QED BY <2>3, <3>2
    <2>5. Is(h)
      <3> HIDE DEF G, n
      <3> QED BY <1>1, <2>3, <2>4
    <2>6. Is(packed)
      <3> HIDE DEF Is
      <3> QED BY <2>5
    <2> HIDE DEF packed
    <2>7. packed[0] = 0 /\ \A k \in 1..n : packed[k] = Code(k) + 8 * packed[k - 1]
      BY <1>1, <2>6
    <2>8. ASSUME NEW k \in 1..n, packed[k - 1] \in Nat PROVE packed[k] \in Nat
      <3>1. packed[k] = Code(k) + 8 * packed[k - 1] /\ Code(k) \in 0..7
        BY <1>2, <2>7
      <3> QED BY <2>8, <3>1
    <2>9. \A k \in 0..n : packed[k] \in Nat
      <3> HIDE DEF Is, n
      <3> QED BY <1>1, <2>7, <2>8, StaysIn
    <2> QED BY <2>6, <2>9
  <1> HIDE DEF packed
  <1>5. packed[n] \in Nat
    BY <1>1, <1>4
  <1>6. ASSUME NEW k \in 1..n
         PROVE  packed[k - 1] \in Nat /\ packed[k] \div 8 = packed[k - 1] /\ packed[k] % 8 = Code(k)
    <2>1. k - 1 \in 0..n /\ k \in 0..n /\ k # 0
      BY <1>1
    <2>2. packed[k - 1] \in Nat
      BY <1>4, <2>1
    <2>3. packed[k] = Code(k) + 8 * packed[k - 1]
      BY <1>4, <2>1
    <2>4. Code(k) \in 0..7
      BY <1>2
    <2>5. /\ (Code(k) + 8 * packed[k - 1]) \div 8 = packed[k - 1]
          /\ (Code(k) + 8 * packed[k - 1]) % 8 = Code(k)
      BY <2>2, <2>4, Shifted, Zenon
    <2> QED BY <2>2, <2>3, <2>5, Zenon
  <1> DEFINE v == packed[n]
             D == [x \in Nat \X (1..n) |-> x[1] \div 8]
             Halving(h) == h = [k \in 0..n |-> IF k = 0 THEN v ELSE h[k - 1] \div 8]
             rest == CHOOSE h : Halving(h)
  <1>7. Unpacked(v) = [i \in DOMAIN Stages |-> StageOfCode(rest[i - 1] % 8)]
    BY DEF Unpacked
  <1>8. Halving(rest)
    <2>1. D \in [Nat \X (1..n) -> Nat]
      OBVIOUS
    <2>2. PICK h : Counting(h, n, Nat, v, D)
      <3> HIDE DEF D, n, v
      <3> QED BY <1>1, <1>5, <2>1, Counts DEF v
    <2>3. h \in [0..n -> Nat] /\ h[0] = v /\ \A k \in 1..n : h[k] = D[<<h[k - 1], k>>]
      BY <2>2 DEF Counting
    <2>4. ASSUME NEW k \in 1..n PROVE h[k] = h[k - 1] \div 8
      <3>1. k - 1 \in 0..n
        BY <1>1
      <3>2. <<h[k - 1], k>> \in Nat \X (1..n)
        BY <2>3, <3>1
      <3> QED BY <2>3, <3>2
    <2>5. Halving(h)
      <3> HIDE DEF D, n, v
      <3> QED BY <1>1, <2>3, <2>4
    <2> HIDE DEF Halving
    <2> QED BY <2>5
  <1> HIDE DEF rest
  <1> DEFINE Even == {k \in 0..n : rest[k] = packed[n - k]}
             at == [k \in 0..n |-> k]
  <1>9. \A k \in 0..n : at[k] \in Even
    <2>1. at[0] \in Even
      BY <1>1, <1>8
    <2>2. ASSUME NEW k \in 1..n, at[k - 1] \in Even PROVE at[k] \in Even
      <3>1. k - 1 \in 0..n /\ k \in 0..n /\ n - k + 1 \in 1..n /\ (n - k + 1) - 1 = n - k /\ n - (k - 1) = n - k + 1
        BY <1>1
      <3>2. rest[k] = rest[k - 1] \div 8 /\ rest[k - 1] = packed[n - k + 1]
        BY <1>1, <1>8, <2>2, <3>1
      <3>3. packed[n - k + 1] \div 8 = packed[n - k]
        BY <1>6, <3>1
      <3> QED BY <3>1, <3>2, <3>3
    <2> HIDE DEF at, Even
    <2> QED BY <1>1, <2>1, <2>2, StaysIn
  <1>10. ASSUME NEW i \in 1..n PROVE StageOfCode(rest[i - 1] % 8) = q[i]
    <2>1. /\ i - 1 \in 0..n /\ n - i + 1 \in 1..n /\ n - (i - 1) = n - i + 1
          /\ n - (n - i + 1) + 1 = i
      BY <1>1
    <2>2. rest[i - 1] = packed[n - i + 1]
      BY <1>9, <2>1
    <2>3. rest[i - 1] % 8 = Code(n - i + 1)
      BY <1>6, <2>1, <2>2
    <2>4. Code(n - i + 1) = CodeOf(q[i]) - 1
      BY <2>1 DEF Code
    <2> QED BY <2>3, <2>4, CodeIs
  <1>11. Unpacked(v) = q
    BY <1>7, <1>10, StagesAre
  <1> QED BY <1>3, <1>5, <1>11

(* What a caller sends is normalized before it is packed, so the callback  *)
(* always unpacks an order of all stages.                                  *)
OrdersInv == /\ config \in [Versions -> Config]
             /\ \A v \in Versions : Unpacked(config[v].order) \in Permutations

LEMMA NormalizedUnpacks ==
    ASSUME NEW o \in Seq(Effects)
    PROVE  /\ Packed(Normalized(o)) \in Nat
           /\ Unpacked(Packed(Normalized(o))) \in Permutations
  <1> DEFINE q == Normalized(o)
  <1>1. q \in Lists /\ q \in Permutations /\ Values(q) = Effects
    BY NormalizedIs
  <1> HIDE DEF q
  <1>2. Len(q) = Len(Stages) /\ q \in Seq(Effects)
    BY <1>1, PermutationIs DEF Lists
  <1>3. q \in [1..Len(Stages) -> Effects]
    BY <1>2
  <1>4. Packed(q) \in Nat /\ Unpacked(Packed(q)) = q
    BY <1>2, <1>3, PackedIs
  <1> QED BY <1>1, <1>4 DEF q

LEMMA InitOrders == LiveInit => OrdersInv
  <1> SUFFICES ASSUME LiveInit PROVE OrdersInv
    OBVIOUS
  <1>1. Stages \in Lists /\ Values(Stages) = Effects /\ Stages \in [1..Len(Stages) -> Effects]
    BY StagesAre DEF Lists
  <1>2. Packed(Stages) \in Nat /\ Unpacked(Packed(Stages)) = Stages /\ Stages \in Permutations
    BY <1>1, PackedIs, PermutationIs
  <1>3. PICK on \in SUBSET Effects :
          config = [v \in Versions |-> IF v = 0 THEN [Seed EXCEPT !.on = on] ELSE Seed]
    BY DEF LiveInit
  <1>4. Seed \in Config /\ Seed.order = Packed(Stages)
    BY <1>2 DEF Seed, Config
  <1>5. [Seed EXCEPT !.on = on] \in Config /\ [Seed EXCEPT !.on = on].order = Seed.order
    BY <1>4 DEF Config
  <1> QED BY <1>2, <1>3, <1>4, <1>5 DEF OrdersInv

LEMMA OrdersStep == ASSUME OrdersInv, [LiveNext]_liveVars PROVE OrdersInv'
  <1>1. CASE UNCHANGED config
    BY <1>1 DEF OrdersInv
  <1>2. ASSUME NEW c \in Sent, EnterPublish(c) PROVE OrdersInv'
    <2> DEFINE packed == Packed(Normalized(c.order))
               x      == [c EXCEPT !.order = packed]
    <2>1. c \in [on : SUBSET (Effects \union Groups), members : [Groups -> SUBSET Slots],
                 order : Seq(Effects)]
      BY LiveDspAssumption
    <2>2. packed \in Nat /\ Unpacked(packed) \in Permutations
      BY <2>1, NormalizedUnpacks
    <2>3. config' = [config EXCEPT ![Publishing + 1] = x]
      BY <1>2 DEF EnterPublish
    <2> HIDE DEF packed
    <2>4. x \in Config /\ x.order = packed
      BY <2>1, <2>2 DEF Config
    <2> HIDE DEF x
    <2> QED BY <2>2, <2>3, <2>4 DEF OrdersInv
  <1>3. CASE \E f \in Fields : StoreField(f)
    BY <1>1, <1>3 DEF StoreField
  <1>4. CASE ExitPublish \/ GenBecomesVisible
    BY <1>1, <1>4 DEF ExitPublish, GenBecomesVisible
  <1>5. CASE Reload
    BY <1>1, <1>5 DEF Reload, LoadGen, LoadField, Recheck, ProcessBlock
  <1>6. CASE UNCHANGED liveVars
    BY <1>1, <1>6 DEF liveVars
  <1> QED BY <1>2, <1>3, <1>4, <1>5, <1>6 DEF LiveNext, Publisher

LEMMA LiveIsTyped == LiveInv /\ OrdersInv => LiveTypeOK
  BY DEF LiveInv, Bounded, OrdersInv, LiveTypeOK

-----------------------------------------------------------------------------
(* The ring holds no more than it has room for, and no more is captured    *)
(* than the bound says.                                                    *)
RoomInv == /\ Len(ring) <= RingSize
           /\ made + src.left <= MaxFrames * Channels

LEMMA InitRoom == InputRingInit => RoomInv
  <1> SUFFICES ASSUME InputRingInit PROVE RoomInv
    OBVIOUS
  <1>1. MaxFrames \in Nat /\ Channels \in Nat /\ RingSize \in Nat
    BY InputRingAssumption, WholeOne
  <1>2. MaxFrames * Channels \in Nat
    BY <1>1
  <1> HIDE DEF RoomInv
  <1> QED BY <1>1, <1>2 DEF InputRingInit, RoomInv

LEMMA RoomStep == ASSUME RingInv, RoomInv, [InputRingNext]_ringVars PROVE RoomInv'
  <1>n. /\ Len(ring) \in Nat /\ made \in Nat /\ src.left \in Nat /\ out.drop \in Nat /\ out.need \in Nat
        /\ Channels \in Nat /\ Channels > 0 /\ ring \in Seq(Sample)
    BY Numbers DEF RingInv, Shape
  <1>m. MaxFrames \in Nat /\ RingSize \in Nat /\ MaxFrames * Channels \in Nat
    <2>1. MaxFrames \in Nat /\ RingSize \in Nat
      BY InputRingAssumption
    <2> QED BY <1>n, <2>1
  <1> DEFINE bound == MaxFrames * Channels
  <1> HIDE DEF bound
  <1>b. bound \in Nat /\ (RoomInv <=> Len(ring) <= RingSize /\ made + src.left <= bound)
        /\ (RoomInv' <=> Len(ring') <= RingSize /\ made' + src'.left <= bound)
    BY <1>m DEF RoomInv, bound
  <1>1. ASSUME NEW n \in 1..CaptureBlock, CaptureFrames(n) PROVE RoomInv'
    <2> DEFINE m == n * Channels
    <2>1. src' = [src EXCEPT !.left = m] /\ made + m <= bound /\ UNCHANGED <<ring, made>>
      BY <1>1 DEF CaptureFrames, bound
    <2> HIDE DEF m
    <2>2. src'.left = m
      BY <2>1 DEF RingInv, Shape, InCallback
    <2> QED BY <1>b, <2>1, <2>2
  <1>2. CASE PushChunk
    <2>1. made' = made + Channels /\ src'.left = src.left - Channels
      BY <1>2 DEF PushChunk, Chunk, RingInv, Shape, InCallback
    <2>2. Len(ring') <= RingSize
      <3>1. CASE RingSize - Len(ring) >= Channels
        <4>1. ring' = ring \o [k \in 1..Channels |-> SampleOf(made + k - 1)]
          BY <1>2, <3>1 DEF PushChunk, Chunk
        <4>2. Len(ring') = Len(ring) + Channels
          BY <1>n, <4>1
        <4> QED BY <1>n, <1>m, <3>1, <4>2
      <3>2. CASE ~(RingSize - Len(ring) >= Channels)
        <4>1. ring' = ring
          BY <1>2, <3>2 DEF PushChunk, Chunk
        <4> QED BY <4>1, <1>b
      <3> QED BY <3>1, <3>2
    <2> QED BY <1>n, <1>b, <2>1, <2>2
  <1>3. CASE CountPushed
    <2>1. src' = [src EXCEPT !.over = 0] /\ UNCHANGED <<ring, made>>
      BY <1>3 DEF CountPushed
    <2>2. src'.left = src.left
      BY <2>1 DEF RingInv, Shape, InCallback
    <2> QED BY <1>b, <2>1, <2>2
  <1>4. ASSUME NEW k \in Nat, k <= Len(ring), ring' = SubSeq(ring, k + 1, Len(ring)),
               UNCHANGED <<made, src>>
        PROVE  RoomInv'
    <2>1. Len(ring') = Len(ring) - k
      BY <1>n, <1>4
    <2> QED BY <1>n, <1>m, <1>b, <1>4, <2>1
  <1>5. CASE Discard
    <2>1. out.drop <= Len(ring)
      BY <1>n, <1>5, Numbers DEF Discard, RingInv, BlockInv
    <2> QED BY <1>n, <1>4, <1>5, <2>1 DEF Discard
  <1>6. CASE PopSlice
    <2> DEFINE got == Lesser(out.need, Len(ring))
    <2>1. got \in Nat /\ got <= Len(ring)
      BY <1>n DEF Lesser
    <2>2. ring' = SubSeq(ring, got + 1, Len(ring)) /\ UNCHANGED <<made, src>>
      BY <1>6 DEF PopSlice
    <2> HIDE DEF got
    <2> QED BY <1>4, <2>1, <2>2
  <1>7. CASE UNCHANGED <<ring, made, src>>
    BY <1>7 DEF RoomInv
  <1>8. CASE OutputStep
    BY <1>5, <1>6, <1>7, <1>8 DEF OutputStep, BeginOutput, CountTrimmed, CountShort, Mixed
  <1>9. CASE PollUnder \/ PollOver \/ UNCHANGED ringVars
    BY <1>7, <1>9 DEF PollUnder, PollOver, ringVars
  <1> QED BY <1>1, <1>2, <1>3, <1>8, <1>9 DEF InputRingNext

LEMMA RingIsTyped == RingInv /\ RoomInv => InputRingTypeOK
  <1> SUFFICES ASSUME RingInv, RoomInv PROVE InputRingTypeOK
    OBVIOUS
  <1>1. made \in Nat /\ src.left \in Nat
    BY Numbers DEF RingInv
  <1>2. MaxFrames * Channels \in Nat
    <2>1. MaxFrames \in Nat /\ Channels \in Nat
      BY InputRingAssumption, WholeOne
    <2> QED BY <2>1
  <1> DEFINE bound == MaxFrames * Channels
  <1> HIDE DEF bound
  <1>3. made \in 0..bound
    BY <1>1, <1>2 DEF RoomInv, bound
  <1> QED BY <1>3 DEF bound, RingInv, Shape, RoomInv, InputRingTypeOK

LEMMA PageIsTyped == PageInv => ClientTypeOK
  BY DEF PageInv, PageTypes, ClientTypeOK, Number

-----------------------------------------------------------------------------
(* The parts side by side *)

Inv == /\ PageInv /\ FeedsInv /\ EngineInv /\ LiveInv /\ OrdersInv
       /\ RingInv /\ RoomInv /\ PacketsInv

LEMMA InitInv == Init => Inv
  BY InitPage, InitFeeds, InitEngine, InitLive, InitOrders, InitRing, InitRoom, InitPackets
     DEF Init, Inv

(* A step belongs to one part, and leaves the others where they are.       *)
LEMMA StepOfPart ==
    ASSUME [Next]_vars
    PROVE  /\ [ClientNext]_clientVars /\ [FeedsNext]_feedsVars /\ [EngineStartNext]_startVars
           /\ [LiveNext]_liveVars /\ [InputRingNext]_ringVars
           /\ [PhoneAudioNext]_phoneAudioVars
  <1>1. CASE UNCHANGED vars
    BY <1>1 DEF vars
  <1>2. CASE Next
    BY <1>2 DEF Next, Alone
  <1> QED BY <1>1, <1>2

LEMMA InvHolds == Spec => []Inv
  <1>1. Inv /\ [Next]_vars => Inv'
    BY StepOfPart, PageStep, FeedsStep, EngineStep, LiveStep, OrdersStep, RingStep, RoomStep,
       PacketsStep DEF Inv
  <1> QED BY InitInv, <1>1, PTL DEF Spec

(* What the page of a phone shows is so, after any order of reloads,       *)
(* messages, losses of the socket, permissions granted late, changes of    *)
(* microphone and taps: it says it is live while a microphone that is open *)
(* is what its transport sends, it keeps no microphone open that it does   *)
(* not use, and its state agrees with its socket and its timer             *)
(* (main-phone.ts:265, 352, signaling.ts:55).                              *)
THEOREM PageTellsTheTruth == Spec => []PageIsHonest
  BY InvHolds, PageInvIsHonest, PTL DEF Inv

(* However many engines subscribe to a source, leave it and find its       *)
(* capture broken, in any order, no capture thread is left that nobody can *)
(* stop and no subscriber is cut off by what another one does; and an      *)
(* engine that runs has one aligned slot per source, and one that has      *)
(* failed to start or was dropped holds nothing (loopback.rs:201,          *)
(* mixer.rs:806).                                                          *)
THEOREM SourcesStaySafe == Spec => []SourcesAreSafe
  <1>1. Inv => SourcesAreSafe
    BY FeedsInvIsSafe, EngineInvIsSafe DEF Inv, SourcesAreSafe
  <1> QED BY InvHolds, <1>1, PTL

(* The callback applies all of a publish or nothing of it, whatever older  *)
(* values its relaxed loads return and however many publishes run while it *)
(* reloads; what comes on starts clean (publish, reload_if_changed and     *)
(* apply, live.rs 458, 559 and 909).                                       *)
THEOREM LiveUpdatesAreSafe == Spec => []LiveDspIsSafe
  BY InvHolds, LiveInvIsSafe, PTL DEF Inv

(* Left and right of a frame stay together, every sample and every silent  *)
(* one is counted once, and a block leaves at most the high-water mark and *)
(* what came in meanwhile, without having been cut short by the trim       *)
(* (mixer.rs 305, 358, 393 and 971).                                       *)
THEOREM RingStaysSafe == Spec => []RingIsSafe
  BY InvHolds, RingInvIsSafe, PTL DEF Inv

(* However the network delays, doubles and loses the packets of a phone,   *)
(* across the wrap of their numbers and through every change of the        *)
(* latency mode, what is decoded or reconstructed is later than all that   *)
(* was played before; and no feed keeps a trim that the drift compensator  *)
(* does not know of, or that outlives the adaptive mode (insert and drain, *)
(* jitter.rs 193 and 265, push_decoded_48k, remote.rs:239).                *)
THEOREM PhonePlaysInOrder == Spec => []PhoneAudioIsSafe
  BY InvHolds, PacketsInvIsSafe, PTL DEF Inv

(* In a browser with one tab of the page, a pairing is forgotten only      *)
(* because the desktop has refused that pairing (main-phone.ts:185, 210).  *)
(* With a second tab it is not so: see ClientTabs.cfg.                     *)
THEOREM OnlyTheRefusedIsCleared == OtherTab = FALSE => (Spec => OnlyRefusedCredsGo)
  <1> SUFFICES ASSUME OtherTab = FALSE PROVE Spec => OnlyRefusedCredsGo
    OBVIOUS
  <1>1. Inv /\ [Next]_vars =>
          [saved # NoPairing /\ saved' = NoPairing => saved = page.creds]_clientVars
    BY StepOfPart, ClearedIsOwn DEF Inv
  <1> QED BY InvHolds, <1>1, PTL DEF Spec, OnlyRefusedCredsGo

(* Every variable keeps to its type, for any number of effects up to eight *)
(* and any orders callers send: the callback always unpacks an order in    *)
(* which every stage stands exactly once, "regardless of what the UI sent" *)
(* (normalize_order, pack_order and unpack_order, config.rs:395, live.rs   *)
(* 29 and 51); the ring holds no more than it has room for, and the jitter *)
(* buffer and its controller stay within their bounds.                     *)
THEOREM TypesCorrect == Spec => []TypesOK
  <1>1. Inv => TypesOK
    BY PageIsTyped, PacketsInvIsTyped, RingIsTyped, LiveIsTyped
       DEF Inv, FeedsInv, EngineInv, TypesOK
  <1> QED BY InvHolds, <1>1, PTL

==============================================================================
