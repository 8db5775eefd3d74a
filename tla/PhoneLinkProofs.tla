--------------------------- MODULE PhoneLinkProofs ---------------------------
(***************************************************************************)
(* Theorems about a phone and its desktop together, for any sockets, any   *)
(* sessions of other phones and any number of broken links and reloads.    *)
(***************************************************************************)
EXTENDS PhoneLink, TLAPS, SequenceTheorems

Ids == {Phone} \union Others

-----------------------------------------------------------------------------
(* The inductive invariant, one conjunct per part of the argument *)

(* The page: it opens a socket only where its machine waits for one.       *)
PageInv ==
    /\ saved \in {Phone, NoPairing}
    /\ page \in [creds : {Phone, NoPairing}, persisted : BOOLEAN, state : P!States, loads : 0..MaxLoads]
    /\ link \in [ws : {"none", "opening", "open"}, timer : BOOLEAN, closed : BOOLEAN]
    /\ link.ws = "opening" => page.state \in {"connecting", "reconnecting"}
    /\ link.timer => link.ws = "none" /\ page.state = "reconnecting"
    /\ page.state = "ended" => link.ws = "none"

(* The desktop.  Only this phone has socket tasks.  The socket attached to *)
(* its session is served by a task of the session's epoch.                 *)
DeskTypes == /\ reg \in [Ids -> D!Session] /\ sock \in [Sockets -> D!Task]
             /\ revokeEpoch \in Nat /\ store \subseteq Ids /\ cmd \in D!Command
             /\ granted \subseteq Ids

Attached  == {"hook", "ack", "loop", "closing"}
OwnerInv  == LET r == reg[Phone] IN
             r.tx # NoSocket => /\ r.state \in {"pending", "accepted"}
                                /\ sock[r.tx].at \in Attached /\ sock[r.tx].epoch = r.epoch
TasksInv  == /\ \A s \in Sockets : sock[s].at # "off" => sock[s].id = Phone
             /\ \A id \in Others : reg[id].tx = NoSocket

(* Whoever is live, trusted or about to resume was accepted by the user.   *)
GrantInv  == /\ D!Active(Phone) \/ Phone \in store => Phone \in granted
             /\ \A s \in Sockets : sock[s].at \in {"insert", "hook"} => Phone \in granted
             /\ cmd.at = "upsert" => cmd.id = Phone /\ Phone \in granted

DeskInv == DeskTypes /\ OwnerInv /\ TasksInv /\ GrantInv

(* The sockets between them.                                               *)
WireTypes == /\ on \in Sockets \union {NoSocket}
             /\ (hellos \union resumed) \subseteq Sockets
             /\ down \in [Sockets -> Seq(P!Messages)]
             /\ troubles \in 0..MaxTroubles
             /\ link.ws = "open" <=> on # NoSocket
WireInv == /\ WireTypes
           /\ \A s \in Sockets : s # on => down[s] = <<>>
           /\ \A s \in hellos : sock[s].at = "off"
           /\ \A s \in resumed : sock[s].at \in {"hook", "ack"}

(* What tells the phone that it was accepted is true.                      *)
Tells(m)   == m \in {"ackGo", "accepted"}
Neutral(q) == \A k \in DOMAIN q : ~Tells(q[k])
WordInv == /\ resumed # {} => Phone \in granted
           /\ \A s \in Sockets : Phone \in granted \/ Neutral(down[s])
           /\ AcceptedOnBothSides

(* Where the page will be when it has received what is on the way: while   *)
(* hello is decided, while the answer to it is due, and afterwards.        *)
AtHello == page.state = "hello-sent" /\ down[on] = <<>>
AtAck   == /\ page.state = "hello-sent"
           /\ \/ reg[Phone].state = "accepted" /\ on \in resumed /\ down[on] = <<>>
              \/ reg[Phone].state = "pending" /\ on \notin resumed /\ down[on] = <<>>
              \/ reg[Phone].state = "accepted" /\ on \notin resumed /\ down[on] = <<"accepted">>
Asked   == \/ page.state = "hello-sent" /\ down[on] = <<"ackWait">>
           \/ page.state = "waiting-accept" /\ down[on] = <<>>
Told    == \/ page.state = "hello-sent" /\ down[on] \in {<<"ackWait", "accepted">>, <<"ackGo", "accepted">>}
           \/ page.state = "waiting-accept" /\ down[on] = <<"accepted">>
           \/ page.state = "negotiating" /\ down[on] \in {<<"accepted">>, <<>>}
AtLoop  == \/ reg[Phone].state = "pending" /\ Asked
           \/ reg[Phone].state = "accepted" /\ Told
StageInv == on # NoSocket =>
              /\ on \in hellos \/ sock[on].at \in {"unknown", "verify", "insert"} => AtHello
              /\ reg[Phone].tx = on /\ sock[on].at \in {"hook", "ack"} => AtAck
              /\ reg[Phone].tx = on /\ sock[on].at = "loop" => AtLoop

(* What ends the phone's session is the last it is sent on a socket: after *)
(* that the socket is attached no more.                                    *)
Final(m)   == m \notin {"ackWait", "ackGo", "accepted", "answer"}
EndsOnce(q) == \A k \in DOMAIN q : Final(q[k]) => k = Len(q)
GoesOn(q)   == \A k \in DOMAIN q : ~Final(q[k])
LastInv == \A s \in Sockets : EndsOnce(down[s]) /\ (reg[Phone].tx = s => GoesOn(down[s]))

Inv == PageInv /\ DeskInv /\ WireInv /\ WordInv /\ LastInv /\ StageInv

-----------------------------------------------------------------------------
(* The page *)

LEMMA OpenIs ==
    ASSUME PageInv, P!Open
    PROVE  PageInv' /\ page'.state = "hello-sent" /\ link'.ws = "open" /\ saved' = saved
           /\ link.ws = "opening"
  BY DEF PageInv, P!Open, P!Dispatch, P!Dispatched, P!Arrow, P!States

LEMMA LostIs ==
    ASSUME PageInv, P!Lost
    PROVE  PageInv' /\ page'.state = "reconnecting" /\ link'.ws = "none" /\ saved' = saved
  BY DEF PageInv, P!Lost, P!Dispatch, P!Dispatched, P!Arrow, P!States, P!NotEnded, P!Closed

LEMMA ReconnectIs ==
    ASSUME PageInv, P!Reconnect
    PROVE  PageInv' /\ page' = page /\ link'.ws # "open" /\ link.ws # "open" /\ saved' = saved
  BY DEF PageInv, P!Reconnect

LEMMA LoadIs ==
    ASSUME PageInv, NEW hash \in {Phone, NoPairing}, P!Load(hash)
    PROVE  PageInv' /\ page'.state \in {"ended", "connecting"} /\ link'.ws # "open" /\ saved' = saved
  <1> DEFINE c == IF hash = NoPairing THEN saved ELSE hash
             n == page.loads + 1
             st == IF c = NoPairing THEN "ended" ELSE "connecting"
             b == hash = NoPairing /\ saved # NoPairing
  <1>1. /\ page.loads \in 0..MaxLoads /\ page.loads < MaxLoads /\ saved' = saved
        /\ page' = [creds |-> c, persisted |-> b, loads |-> n, state |-> st]
        /\ link' = P!LinkOf(page')
    BY DEF PageInv, P!Load, P!Loaded, P!Persisted
  <1>2. c \in {Phone, NoPairing} /\ b \in BOOLEAN /\ st \in {"ended", "connecting"}
    BY DEF PageInv
  <1>3. n \in 0..MaxLoads
    BY <1>1, LinkAssumption
  <1> HIDE DEF c, n, st, b
  <1>4. /\ page' \in [creds : {Phone, NoPairing}, persisted : BOOLEAN, state : P!States, loads : 0..MaxLoads]
        /\ page'.state = st
    BY <1>1, <1>2, <1>3 DEF P!States
  <1> QED BY <1>1, <1>2, <1>4 DEF PageInv, P!LinkOf

LEMMA ReceiveIs ==
    ASSUME PageInv, NEW m \in P!Messages, P!Receive(m)
    PROVE  /\ PageInv' /\ link.ws = "open"
           /\ m = "ackWait" => page'.state = IF page.state = "hello-sent" THEN "waiting-accept" ELSE page.state
           /\ m = "ackGo" => page'.state = IF page.state = "hello-sent" THEN "negotiating" ELSE page.state
           /\ m = "accepted" => page'.state = IF page.state = "waiting-accept" THEN "negotiating" ELSE page.state
           /\ m = "answer" => page'.state = page.state
           /\ m \in {"ackWait", "ackGo", "accepted", "answer"} => link'.ws = "open"
           /\ m \notin {"ackWait", "ackGo", "accepted", "answer"} => link'.ws = "none" /\ page'.state = "ended"
           /\ m # "accepted" => saved' \in {saved, NoPairing}
  <1> USE DEF P!Dispatch, P!Dispatched, P!Arrow, P!NotEnded, P!States
  <1>1. link.ws = "open" /\ page.state # "ended" /\ ~link.timer
    BY DEF PageInv, P!Receive
  <1>2. CASE m \in {"ackWait", "ackGo"}
    BY <1>1, <1>2 DEF PageInv, P!Receive
  <1>3. CASE m = "accepted"
    <2> DEFINE st == IF page.state = "waiting-accept" THEN "negotiating" ELSE page.state
    <2>1. /\ saved' = page.creds /\ link' = link
          /\ page' = [page EXCEPT !.persisted = TRUE, !.state = st]
      BY <1>3 DEF P!Receive
    <2>2. st \in P!States /\ st # "ended" /\ (page.state = "reconnecting" => st = "reconnecting")
      BY <1>1 DEF PageInv
    <2> HIDE DEF st
    <2>3. PageInv' /\ page'.state = st
      BY <1>1, <2>1, <2>2 DEF PageInv
    <2> QED BY <1>1, <1>3, <2>1, <2>3 DEF st
  <1>4. CASE m = "answer"
    BY <1>1, <1>4 DEF PageInv, P!Receive
  <1>5. CASE m \notin {"ackWait", "ackGo", "accepted", "answer"}
    <2> DEFINE gone == m \in P!Revoking /\ page.persisted
    <2>1. saved' = (IF gone THEN NoPairing ELSE saved) /\ P!End
      BY <1>5 DEF P!Receive
    <2>2. page' = [page EXCEPT !.state = "ended"]
      BY <1>1, <2>1 DEF PageInv, P!End
    <2>3. link' = [ws |-> "none", timer |-> FALSE, closed |-> TRUE]
      BY <2>1 DEF P!End
    <2>4. saved' \in {saved, NoPairing}
      BY <2>1
    <2> HIDE DEF gone
    <2>5. PageInv'
      BY <2>2, <2>3, <2>4 DEF PageInv
    <2> QED BY <1>1, <1>5, <2>2, <2>3, <2>4, <2>5 DEF PageInv
  <1> QED BY <1>2, <1>3, <1>4, <1>5

-----------------------------------------------------------------------------
(* Sessions, tasks and queues *)

LEMMA Records == /\ D!Absent \in D!Session /\ D!Off \in D!Task /\ D!Idle \in D!Command
                 /\ D!AnyId \in Ids /\ Phone \in Ids
                 /\ D!Off.at = "off" /\ D!Absent.tx = NoSocket /\ D!Absent.state = "none"
                 /\ {0, 1} \subseteq 0..MaxEpoch /\ 0 \in 0..MaxStrikes
                 /\ \A e \in 0..MaxEpoch : e < MaxEpoch => e + 1 \in 0..MaxEpoch
  <1>1. /\ {0, 1} \subseteq 0..MaxEpoch /\ 0 \in 0..MaxStrikes
        /\ \A e \in 0..MaxEpoch : e < MaxEpoch => e + 1 \in 0..MaxEpoch
    BY LinkAssumption
  <1>2. D!AnyId \in Ids /\ Phone \in Ids
    BY DEF D!AnyId, Ids
  <1> QED
    BY <1>1, <1>2, LinkAssumption DEF D!Absent, D!Off, D!Idle, D!Session, D!States, D!Task, D!Command, Ids

LEMMA Entry ==
    ASSUME NEW f \in [Ids -> D!Session], NEW id \in Ids, NEW r \in D!Session
    PROVE  LET g == [f EXCEPT ![id] = r] IN
           g \in [Ids -> D!Session] /\ g[id] = r /\ \A i \in Ids : i # id => g[i] = f[i]
  OBVIOUS

LEMMA Place ==
    ASSUME sock \in [Sockets -> D!Task], NEW s \in Sockets, NEW k \in D!Task,
           sock' = [sock EXCEPT ![s] = k]
    PROVE  /\ sock' \in [Sockets -> D!Task]
           /\ sock'[s] = k
           /\ \A t \in Sockets : t # s => sock'[t] = sock[t]
  OBVIOUS

(* A task that goes on to the next place.                                  *)
LEMMA Gone ==
    ASSUME sock \in [Sockets -> D!Task], NEW s \in Sockets,
           NEW p \in {"verify", "insert", "ack", "loop", "closing"}, D!Go(s, p)
    PROVE  /\ sock' \in [Sockets -> D!Task]
           /\ sock'[s].at = p /\ sock'[s].id = sock[s].id /\ sock'[s].epoch = sock[s].epoch
           /\ \A t \in Sockets : t # s => sock'[t] = sock[t]
  <1> DEFINE k == [sock[s] EXCEPT !.at = p]
  <1>1. k \in D!Task /\ k.at = p /\ k.id = sock[s].id /\ k.epoch = sock[s].epoch
    BY DEF D!Task
  <1>2. sock' = [sock EXCEPT ![s] = k]
    BY DEF D!Go
  <1> HIDE DEF k
  <1> QED BY <1>1, <1>2, Place

(* A queued farewell changes nothing else of a task.                       *)
LEMMA Ended ==
    ASSUME sock \in [Sockets -> D!Task], NEW tx, sock' = D!EndQueued(tx)
    PROVE  /\ sock' \in [Sockets -> D!Task]
           /\ \A t \in Sockets : /\ sock'[t].at = sock[t].at /\ sock'[t].id = sock[t].id
                                 /\ sock'[t].epoch = sock[t].epoch
  <1>1. ASSUME NEW t \in Sockets
        PROVE  LET k == [sock[t] EXCEPT !.ended = TRUE] IN
               /\ k \in D!Task
               /\ k.at = sock[t].at /\ k.id = sock[t].id /\ k.epoch = sock[t].epoch
    BY DEF D!Task
  <1> QED BY <1>1 DEF D!EndQueued

(* A sweep leaves a phone that is attached alone, and makes none live.     *)
LEMMA SweptIs ==
    ASSUME NEW r \in D!Session
    PROVE  /\ D!Swept(r) \in D!Session
           /\ r.state \in {"pending", "accepted"} \/ D!Swept(r).state \in {"pending", "accepted"}
                => D!Swept(r) = r
           /\ r.tx = NoSocket => D!Swept(r).tx = NoSocket
           /\ D!Swept(r).state \in {"accepted", "reconnecting", "disconnected"}
                => r.state \in {"accepted", "reconnecting", "disconnected"}
  <1>1. D!Aged(r) \in D!Session /\ D!Aged(r).tx = r.tx
    BY DEF D!Aged, D!Session, D!States
  <1>2. /\ r.state \in {"pending", "accepted"} \/ D!Aged(r).state \in {"pending", "accepted"}
             => D!Aged(r) = r
        /\ D!Aged(r).state \in {"accepted", "reconnecting", "disconnected"}
             => r.state \in {"accepted", "reconnecting", "disconnected"}
    BY DEF D!Aged, D!Session, D!States
  <1> QED BY <1>1, <1>2, Records DEF D!Swept

LEMMA SweptRegIs ==
    ASSUME DeskTypes
    PROVE  /\ D!SweptReg \in [Ids -> D!Session]
           /\ \A id \in Ids : D!SweptReg[id] = D!Swept(reg[id])
  <1>1. \A id \in Ids : D!Swept(reg[id]) \in D!Session
    BY SweptIs DEF DeskTypes
  <1> QED BY <1>1 DEF D!SweptReg, Ids

(* Only a session with the task's epoch is detached, and it is live after  *)
(* that only if it was.                                                    *)
LEMMA DetachedIs ==
    ASSUME NEW r \in D!Session, NEW epoch
    PROVE  LET d == D!Detached(r, epoch) IN
           /\ d \in D!Session
           /\ d.tx # NoSocket => d = r /\ (r.epoch # epoch \/ r.state = "none")
           /\ d.state \in {"accepted", "reconnecting", "disconnected"}
                => r.state \in {"accepted", "reconnecting", "disconnected"}
  <1> DEFINE d == D!Detached(r, epoch)
  <1>1. CASE r.state = "none" \/ r.epoch # epoch
    BY <1>1 DEF D!Detached
  <1>2. CASE r.state = "accepted" /\ r.epoch = epoch
    <2>1. d = [r EXCEPT !.tx = NoSocket, !.state = "reconnecting", !.late = FALSE]
      BY <1>2 DEF D!Detached
    <2> QED BY <1>2, <2>1 DEF D!Session, D!States
  <1>3. CASE r.state = "pending" /\ r.epoch = epoch
    <2>1. d = [r EXCEPT !.tx = NoSocket, !.state = "created", !.strikes = 0]
      BY <1>3 DEF D!Detached
    <2> QED BY <1>3, <2>1, Records DEF D!Session, D!States
  <1>4. CASE r.state \notin {"none", "accepted", "pending"} /\ r.epoch = epoch
    <2>1. d = [r EXCEPT !.tx = NoSocket]
      BY <1>4 DEF D!Detached
    <2> QED BY <1>4, <2>1 DEF D!Session, D!States
  <1> QED BY <1>1, <1>2, <1>3, <1>4

(* What is said reaches the phone on its own socket only.                  *)
LEMMA QueuedIs ==
    ASSUME WireTypes, NEW to, NEW ms \in Seq(P!Messages), down' = Queued(to, ms)
    PROVE  /\ down' \in [Sockets -> Seq(P!Messages)]
           /\ \A t \in Sockets : ~(t = to /\ t = on) => down'[t] = down[t]
           /\ to = on /\ on \in Sockets => down'[on] = down[on] \o ms
  <1>1. \A t \in Sockets : down[t] \o ms \in Seq(P!Messages)
    BY DEF WireTypes
  <1> QED BY <1>1 DEF Queued, WireTypes

(* Words after words.                                                      *)
LEMMA Joined ==
    ASSUME NEW a \in Seq(P!Messages), NEW b \in Seq(P!Messages)
    PROVE  /\ Neutral(a) /\ Neutral(b) => Neutral(a \o b)
           /\ GoesOn(a) /\ GoesOn(b) => GoesOn(a \o b)
           /\ GoesOn(a) /\ EndsOnce(b) => EndsOnce(a \o b)
  <1> DEFINE c == a \o b
  <1>1. /\ Len(a) \in Nat /\ Len(b) \in Nat /\ Len(c) = Len(a) + Len(b)
        /\ DOMAIN a = 1..Len(a) /\ DOMAIN b = 1..Len(b) /\ DOMAIN c = 1..Len(c)
        /\ \A k \in 1..Len(c) : c[k] = IF k <= Len(a) THEN a[k] ELSE b[k - Len(a)]
    OBVIOUS
  <1> HIDE DEF c, Final
  <1>5. \A k \in DOMAIN c :
           \/ k \in DOMAIN a /\ c[k] = a[k]
           \/ k - Len(a) \in DOMAIN b /\ c[k] = b[k - Len(a)]
    <2> TAKE k \in DOMAIN c
    <2>1. k \in 1..(Len(a) + Len(b))
      BY <1>1
    <2>2. CASE k <= Len(a)
      <3>1. k \in 1..Len(a)
        BY <1>1, <2>1, <2>2
      <3>2. c[k] = a[k]
        BY <1>1, <2>2
      <3> QED BY <1>1, <3>1, <3>2
    <2>3. CASE ~(k <= Len(a))
      <3>1. k - Len(a) \in 1..Len(b)
        BY <1>1, <2>1, <2>3
      <3>2. c[k] = b[k - Len(a)]
        BY <1>1, <2>3
      <3> QED BY <1>1, <3>1, <3>2
    <2> QED BY <2>2, <2>3
  <1>2. Neutral(a) /\ Neutral(b) => Neutral(c)
    BY <1>5 DEF Neutral
  <1>3. GoesOn(a) /\ GoesOn(b) => GoesOn(c)
    BY <1>5 DEF GoesOn
  <1>4. GoesOn(a) /\ EndsOnce(b) => EndsOnce(c)
    <2> SUFFICES ASSUME GoesOn(a), EndsOnce(b), NEW k \in DOMAIN c, Final(c[k]) PROVE k = Len(c)
      BY DEF EndsOnce
    <2>1. k - Len(a) \in DOMAIN b /\ Final(b[k - Len(a)])
      BY <1>5 DEF GoesOn
    <2>2. k - Len(a) = Len(b) /\ k \in Nat
      BY <1>1, <2>1 DEF EndsOnce
    <2> QED BY <1>1, <2>2
  <1> QED BY <1>2, <1>3, <1>4 DEF c

LEMMA TwoWords == \A a, b \in P!Messages : <<a>> \o <<b>> = <<a, b>>
  <1> TAKE a, b \in P!Messages
  <1> DEFINE q == <<a>> \o <<b>>
             v == <<a, b>>
  <1>1. q \in Seq(P!Messages) /\ v \in Seq(P!Messages) /\ Len(q) = 2 /\ Len(v) = 2
    OBVIOUS
  <1>2. q[1] = a /\ q[2] = b /\ v[1] = a /\ v[2] = b
    OBVIOUS
  <1> HIDE DEF q, v
  <1>3. Len(q) = Len(v) /\ \A i \in 1..Len(q) : q[i] = v[i]
    BY <1>1, <1>2
  <1>4. q = v
    BY <1>1, <1>3, SeqEqual, Zenon
  <1> QED BY <1>4 DEF q, v

LEMMA Words ==
    /\ GoesOn(<<>>) /\ EndsOnce(<<>>) /\ Neutral(<<>>)
    /\ \A m \in P!Messages : /\ <<m>> \in Seq(P!Messages) /\ EndsOnce(<<m>>)
                             /\ ~Tells(m) => Neutral(<<m>>)
                             /\ ~Final(m) => GoesOn(<<m>>)
    /\ <<"ackGo", "accepted">> \in Seq(P!Messages) /\ GoesOn(<<"ackGo", "accepted">>)
    /\ {"ackWait", "ackGo", "accepted", "fatal", "unknown", "rejected", "removed"} \subseteq P!Messages
    /\ ~Final("ackWait") /\ ~Final("accepted")
    /\ \A m \in {"ackWait", "fatal", "unknown", "rejected", "removed"} : ~Tells(m)
  BY DEF GoesOn, EndsOnce, Neutral, Tells, Final, P!Messages, P!Revoking

-----------------------------------------------------------------------------
(* The steps of the phone *)

LEMMA DeskStill == ASSUME DeskInv, UNCHANGED deskVars PROVE DeskInv'
  BY DEF DeskInv, DeskTypes, OwnerInv, TasksInv, GrantInv, deskVars, D!Active

LEMMA PageStill == ASSUME PageInv, UNCHANGED phoneVars PROVE PageInv'
  BY DEF PageInv, phoneVars

LEMMA OpensKeeps == ASSUME Inv, NEW s \in Sockets, Opens(s) PROVE Inv'
  <1> USE DEF Inv
  <1>1. P!Open /\ on' = s /\ hellos' = hellos \union {s} /\ sock[s].at = "off"
        /\ UNCHANGED <<deskVars, resumed, down, troubles>>
    BY DEF Opens
  <1>2. /\ PageInv' /\ page'.state = "hello-sent" /\ link'.ws = "open" /\ saved' = saved
        /\ link.ws = "opening"
    BY <1>1, OpenIs
  <1>3. DeskInv' BY <1>1, DeskStill
  <1>4. on = NoSocket /\ \A t \in Sockets : down[t] = <<>>
    BY <1>2, LinkAssumption DEF WireInv, WireTypes
  <1>5. WireInv'
    BY <1>1, <1>2, <1>4, LinkAssumption DEF WireInv, WireTypes, deskVars
  <1>6. WordInv'
    BY <1>1, <1>2, <1>4 DEF WordInv, AcceptedOnBothSides, deskVars, Neutral
  <1>7. StageInv'
    BY <1>1, <1>2, <1>4, LinkAssumption DEF StageInv, AtHello, DeskInv, OwnerInv, Attached, deskVars
  <1>8. LastInv' BY <1>1 DEF LastInv, deskVars, EndsOnce, GoesOn, Final
  <1> QED BY <1>2, <1>3, <1>5, <1>6, <1>7, <1>8

(* The page lets go of its socket, and what was on the way is lost.        *)
LEMMA LeavesKeeps ==
    ASSUME Inv, Leaves, PageInv', link'.ws # "open", troubles' \in 0..MaxTroubles,
           saved' = saved, page'.state # "negotiating"
    PROVE  Inv'
  <1> USE DEF Inv
  <1>1. on' = NoSocket /\ UNCHANGED <<deskVars, hellos, resumed>>
        /\ down' = [s \in Sockets |-> IF s = on THEN <<>> ELSE down[s]]
    BY DEF Leaves
  <1>2. DeskInv' BY <1>1, DeskStill
  <1>3. down' = [s \in Sockets |-> <<>>]
    BY <1>1 DEF WireInv, WireTypes
  <1>4. WireInv'
    <2>1. down' \in [Sockets -> Seq(P!Messages)]
      BY <1>3
    <2> QED BY <1>1, <1>3, <2>1 DEF WireInv, WireTypes, deskVars
  <1>5. WordInv'
    BY <1>1, <1>3 DEF WordInv, AcceptedOnBothSides, deskVars, Neutral
  <1>6. StageInv'
    BY <1>1 DEF StageInv
  <1>7. LastInv' BY <1>3, Words DEF LastInv
  <1> QED BY <1>2, <1>4, <1>5, <1>6, <1>7

LEMMA PhoneStaysAway ==
    ASSUME Inv, PageInv', UNCHANGED <<deskVars, wireVars>>, link.ws # "open", link'.ws # "open",
           saved' = saved, page'.state = "negotiating" => page.state = "negotiating"
    PROVE  Inv'
  <1> USE DEF Inv
  <1>2. DeskInv' BY DeskStill
  <1>3. on = NoSocket /\ on' = NoSocket
    BY DEF WireInv, WireTypes, wireVars
  <1>4. WireInv' BY DEF WireInv, WireTypes, deskVars, wireVars
  <1>5. WordInv' BY DEF WordInv, AcceptedOnBothSides, deskVars, wireVars, Neutral
  <1>6. StageInv' BY <1>3 DEF StageInv
  <1>7. LastInv' BY DEF LastInv, deskVars, wireVars, EndsOnce, GoesOn, Final
  <1> QED BY <1>2, <1>4, <1>5, <1>6, <1>7

LEMMA PhoneLeavesKeeps == ASSUME Inv, SeesEnd \/ Loses \/ Reloads PROVE Inv'
  <1> USE DEF Inv
  <1>1. ASSUME P!Lost, Leaves, troubles' \in 0..MaxTroubles PROVE Inv'
    BY <1>1, LostIs, LeavesKeeps
  <1>2. troubles' \in 0..MaxTroubles
    BY LinkAssumption DEF SeesEnd, Loses, Reloads, Trouble, WireInv, WireTypes
  <1>3. CASE SeesEnd \/ Loses
    BY <1>1, <1>2, <1>3 DEF SeesEnd, Loses
  <1>4. CASE Reloads
    <2>1. PICK hash \in {Phone, NoPairing} : P!Load(hash)
      BY <1>4 DEF Reloads
    <2>2. PageInv' /\ page'.state \in {"ended", "connecting"} /\ link'.ws # "open" /\ saved' = saved
      BY <2>1, LoadIs
    <2> QED BY <1>2, <1>4, <2>2, LeavesKeeps DEF Reloads
  <1> QED BY <1>3, <1>4

LEMMA PhoneWaitsKeeps == ASSUME Inv, Reconnects \/ NoAnswer PROVE Inv'
  <1> USE DEF Inv
  <1>1. CASE Reconnects
    BY <1>1, ReconnectIs, PhoneStaysAway DEF Reconnects
  <1>2. CASE NoAnswer
    <2>1. link.ws # "open"
      BY <1>2 DEF NoAnswer, WireInv, WireTypes
    <2> QED BY <1>2, <2>1, LostIs, PhoneStaysAway DEF NoAnswer
  <1> QED BY <1>1, <1>2

(* A message moves the page on by one place of the stage.                  *)
LEMMA ReceivesKeeps == ASSUME Inv, Receives PROVE Inv'
  <1> USE DEF Inv
  <1> DEFINE q == down[on]
             m == Head(q)
             rest == Tail(q)
             Kept == m \in {"ackWait", "ackGo", "accepted", "answer"}
  <1>1. /\ on \in Sockets /\ q \in Seq(P!Messages) /\ q # <<>>
        /\ sock[on].at \in {"off", "loop", "closing"}
        /\ P!Receive(m) /\ down' = [down EXCEPT ![on] = rest]
        /\ on' = (IF link'.ws = "open" THEN on ELSE NoSocket)
        /\ UNCHANGED <<deskVars, hellos, resumed, troubles>>
    BY DEF Receives, WireInv, WireTypes
  <1>2. /\ m \in P!Messages /\ rest \in Seq(P!Messages)
        /\ m = q[1] /\ 1 \in DOMAIN q
        /\ \A k \in DOMAIN rest : k + 1 \in DOMAIN q /\ rest[k] = q[k + 1]
    BY <1>1
  <1>3. /\ PageInv' /\ link.ws = "open"
        /\ m = "ackWait" => page'.state = IF page.state = "hello-sent" THEN "waiting-accept" ELSE page.state
        /\ m = "ackGo" => page'.state = IF page.state = "hello-sent" THEN "negotiating" ELSE page.state
        /\ m = "accepted" => page'.state = IF page.state = "waiting-accept" THEN "negotiating" ELSE page.state
        /\ m = "answer" => page'.state = page.state
        /\ Kept => link'.ws = "open"
        /\ ~Kept => link'.ws = "none" /\ page'.state = "ended"
        /\ m # "accepted" => saved' \in {saved, NoPairing}
    <2> HIDE DEF m
    <2> QED BY <1>1, <1>2, ReceiveIs
  <1>4. /\ \A t \in Sockets : t # on => down'[t] = <<>>
        /\ down'[on] = rest /\ down' \in [Sockets -> Seq(P!Messages)]
    <2> HIDE DEF rest
    <2> QED BY <1>1, <1>2 DEF WireInv, WireTypes
  <1>5. DeskInv' BY <1>1, DeskStill
  <1>6. Phone \in granted \/ (~Tells(m) /\ Neutral(rest))
    <2>1. Phone \in granted \/ Neutral(q)
      BY <1>1 DEF WordInv
    <2> HIDE DEF q, m, rest
    <2> QED BY <1>2, <2>1 DEF Neutral
  <1>7. WordInv'
    <2>1. \A t \in Sockets : Phone \in granted \/ Neutral(down'[t])
      <3> HIDE DEF q, m, rest
      <3> QED BY <1>4, <1>6, Words
    <2>2. granted' = granted /\ resumed' = resumed
      BY <1>1 DEF deskVars
    <2>3. saved' = Phone => Phone \in granted
      <3> HIDE DEF q, m
      <3> QED BY <1>3, <1>6, LinkAssumption DEF WordInv, AcceptedOnBothSides, Tells
    <2>4. page'.state = "negotiating" => Phone \in granted
      <3> HIDE DEF q, m
      <3> QED BY <1>3, <1>6 DEF WordInv, AcceptedOnBothSides, Tells
    <2> QED BY <2>1, <2>2, <2>3, <2>4 DEF WordInv, AcceptedOnBothSides
  <1>10. LastInv'
    <2>1. EndsOnce(rest) /\ (reg[Phone].tx = on => GoesOn(rest))
      <3>1. EndsOnce(q) /\ (reg[Phone].tx = on => GoesOn(q)) /\ Len(rest) = Len(q) - 1 /\ Len(q) \in Nat
        BY <1>1 DEF LastInv
      <3>2. \A k \in DOMAIN rest : k \in Nat
        BY <1>2
      <3> HIDE DEF q, m, rest, Final
      <3> QED BY <1>2, <3>1, <3>2 DEF EndsOnce, GoesOn
    <2>2. reg' = reg
      BY <1>1 DEF deskVars
    <2> HIDE DEF rest
    <2> QED BY <1>4, <2>1, <2>2, Words DEF LastInv
  <1>8. CASE ~Kept
    <2>1. on' = NoSocket /\ link'.ws = "none"
      BY <1>1, <1>3, <1>8
    <2>2. rest = <<>>
      <3>1. EndsOnce(q) /\ Final(q[1])
        BY <1>1, <1>2, <1>8 DEF LastInv, Final
      <3>2. Len(q) = 1
        BY <1>2, <3>1 DEF EndsOnce
      <3>3. Len(rest) = 0
        BY <1>1, <3>2
      <3> QED BY <1>2, <3>3
    <2>3. WireInv'
      <3> HIDE DEF q, m, rest
      <3> QED BY <1>1, <1>4, <2>1, <2>2 DEF WireInv, WireTypes, deskVars
    <2>4. StageInv'
      BY <2>1 DEF StageInv
    <2> QED BY <1>3, <1>5, <1>7, <1>10, <2>3, <2>4
  <1>9. CASE Kept
    <2>1. on' = on /\ link'.ws = "open"
      BY <1>1, <1>3, <1>9
    <2>2. WireInv'
      <3> HIDE DEF q, m, rest
      <3> QED BY <1>1, <1>4, <2>1, LinkAssumption DEF WireInv, WireTypes, deskVars
    <2>3. StageInv'
      <3>1. ~(on \in hellos \/ sock[on].at \in {"unknown", "verify", "insert", "hook", "ack"})
        BY <1>1, LinkAssumption DEF StageInv, AtHello
      <3>2. ASSUME AtLoop PROVE AtLoop'
        <4>0. reg' = reg /\ on' = on
          BY <1>1, <2>1 DEF deskVars
        <4>1. CASE q = <<"ackWait">>
          BY <4>1, <1>3, <1>4, <3>2, <4>0 DEF AtLoop, Asked, Told
        <4>2. CASE q = <<"ackWait", "accepted">>
          BY <4>2, <1>3, <1>4, <3>2, <4>0 DEF AtLoop, Asked, Told
        <4>3. CASE q = <<"ackGo", "accepted">>
          <5>1. m = "ackGo" /\ rest = <<"accepted">>
            BY <4>3
          <5>2. reg[Phone].state = "accepted" /\ page.state = "hello-sent"
            BY <4>3, <3>2 DEF AtLoop, Asked, Told
          <5> HIDE DEF m, rest
          <5> QED BY <1>3, <1>4, <4>0, <5>1, <5>2 DEF AtLoop, Told
        <4>4. CASE q = <<"accepted">>
          BY <4>4, <1>3, <1>4, <3>2, <4>0 DEF AtLoop, Asked, Told
        <4> QED BY <1>1, <3>2, <4>1, <4>2, <4>3, <4>4 DEF AtLoop, Asked, Told
      <3> QED BY <1>1, <2>1, <3>1, <3>2, LinkAssumption DEF StageInv, deskVars
    <2> QED BY <1>3, <1>5, <1>7, <1>10, <2>2, <2>3
  <1> QED BY <1>8, <1>9

-----------------------------------------------------------------------------
(* What the steps of the desktop have in common *)

(* One task moves on, and the sessions stay as they are.                   *)
LEMMA TaskMoves ==
    ASSUME DeskInv, UNCHANGED <<reg, store, revokeEpoch, cmd, granted>>,
           NEW s \in Sockets, sock' \in [Sockets -> D!Task],
           \A t \in Sockets : t # s => sock'[t] = sock[t],
           sock'[s].at # "off" => sock'[s].id = Phone,
           reg[Phone].tx = s => sock'[s].at \in Attached /\ sock'[s].epoch = sock[s].epoch,
           sock'[s].at \in {"insert", "hook"} => Phone \in granted
    PROVE  DeskInv'
  <1>1. \A t \in Sockets : t # s => sock'[t].at = sock[t].at /\ sock'[t].id = sock[t].id
                                      /\ sock'[t].epoch = sock[t].epoch
    OBVIOUS
  <1>2. DeskTypes' BY DEF DeskInv, DeskTypes
  <1>3. reg[Phone].tx \in Sockets \union {NoSocket}
    BY Records DEF DeskInv, DeskTypes, D!Session
  <1>4. OwnerInv' BY <1>1, <1>3 DEF DeskInv, OwnerInv, Attached
  <1>5. TasksInv' BY <1>1 DEF DeskInv, TasksInv
  <1>6. GrantInv' BY <1>1 DEF DeskInv, GrantInv, D!Active
  <1> QED BY <1>2, <1>4, <1>5, <1>6 DEF DeskInv

(* What the desktop's steps do to queues, and to the rest of the wire.     *)
LEMMA DeskSays ==
    ASSUME Inv, UNCHANGED phoneVars, on' = on, troubles' \in 0..MaxTroubles, DeskInv',
           NEW to, NEW ms \in Seq(P!Messages), down' = Queued(to, ms),
           granted \subseteq granted',
           hellos' \subseteq hellos, resumed' \subseteq Sockets, resumed' # {} => Phone \in granted',
           \A s \in hellos' : sock'[s].at = "off",
           \A s \in resumed' : sock'[s].at \in {"hook", "ack"},
           to = on /\ on \in Sockets => GoesOn(down[on]),
           EndsOnce(ms),
           Phone \in granted' \/ Neutral(ms),
           \/ reg'[Phone].tx = reg[Phone].tx /\ (to = on => reg[Phone].tx # on \/ GoesOn(ms))
           \/ reg'[Phone].tx = NoSocket
           \/ reg'[Phone].tx # to /\ down[reg'[Phone].tx] = <<>>
    PROVE  PageInv' /\ DeskInv' /\ WireInv' /\ WordInv' /\ LastInv'
  <1> USE DEF Inv
  <1>1. PageInv' BY PageStill
  <1>2. /\ down' \in [Sockets -> Seq(P!Messages)]
        /\ \A t \in Sockets : ~(t = to /\ t = on) => down'[t] = down[t]
        /\ to = on /\ on \in Sockets => down'[on] = down[on] \o ms
    BY QueuedIs DEF WireInv
  <1>3. WireInv'
    BY <1>2 DEF WireInv, WireTypes, phoneVars
  <1>4. ASSUME NEW t \in Sockets PROVE Phone \in granted' \/ Neutral(down'[t])
    <2>1. down[t] \in Seq(P!Messages) /\ (Phone \in granted' \/ Neutral(down[t]))
      BY DEF WireInv, WireTypes, WordInv
    <2>2. CASE t = to /\ t = on
      BY <1>2, <2>1, <2>2, Joined
    <2> QED BY <1>2, <2>1, <2>2
  <1>5. WordInv'
    BY <1>4 DEF WordInv, AcceptedOnBothSides, phoneVars
  <1>6. LastInv'
    <2> SUFFICES ASSUME NEW t \in Sockets
                 PROVE  EndsOnce(down'[t]) /\ (reg'[Phone].tx = t => GoesOn(down'[t]))
      BY DEF LastInv
    <2>1. /\ down[t] \in Seq(P!Messages)
          /\ EndsOnce(down[t]) /\ (reg[Phone].tx = t => GoesOn(down[t]))
      BY DEF WireInv, WireTypes, LastInv
    <2>2. CASE t = to /\ t = on
      <3>1. down'[t] = down[t] \o ms /\ GoesOn(down[t])
        BY <1>2, <2>2
      <3>2. EndsOnce(down[t] \o ms) /\ (GoesOn(ms) => GoesOn(down[t] \o ms))
        BY <2>1, <3>1, Joined
      <3>3. reg'[Phone].tx = t => GoesOn(ms)
        BY <2>2, LinkAssumption
      <3> QED BY <3>1, <3>2, <3>3
    <2>3. CASE ~(t = to /\ t = on)
      BY <1>2, <2>1, <2>3, Words, LinkAssumption
    <2> QED BY <2>2, <2>3
  <1> QED BY <1>1, <1>3, <1>5, <1>6

LEMMA Silence == ASSUME WireTypes, down' = down PROVE down' = Queued(NoSocket, <<>>)
  BY LinkAssumption DEF Queued, WireTypes

(* A step that says nothing.                                               *)
LEMMA DeskIsSilent ==
    ASSUME Inv, UNCHANGED <<phoneVars, on, down>>, troubles' \in 0..MaxTroubles, DeskInv',
           granted \subseteq granted',
           hellos' \subseteq hellos, resumed' \subseteq Sockets, resumed' # {} => Phone \in granted',
           \A s \in hellos' : sock'[s].at = "off",
           \A s \in resumed' : sock'[s].at \in {"hook", "ack"},
           \/ reg'[Phone].tx = reg[Phone].tx
           \/ reg'[Phone].tx = NoSocket
           \/ down[reg'[Phone].tx] = <<>>
    PROVE  PageInv' /\ DeskInv' /\ WireInv' /\ WordInv' /\ LastInv'
  <1>1. down' = Queued(NoSocket, <<>>) /\ NoSocket \notin Sockets
    BY Silence, LinkAssumption DEF Inv, WireInv
  <1>2. reg'[Phone].tx \in Sockets \union {NoSocket}
    BY Records DEF DeskInv, DeskTypes, D!Session
  <1> DEFINE ms == <<>>
  <1>3. /\ ms \in Seq(P!Messages) /\ EndsOnce(ms) /\ Neutral(ms) /\ GoesOn(ms)
        /\ down' = Queued(NoSocket, ms)
    BY <1>1, Words
  <1>4. \/ reg'[Phone].tx = reg[Phone].tx
        \/ reg'[Phone].tx = NoSocket
        \/ reg'[Phone].tx # NoSocket /\ down[reg'[Phone].tx] = <<>>
    OBVIOUS
  <1> HIDE DEF ms
  <1> QED BY <1>1, <1>3, <1>4, DeskSays

(* Nothing of the phone's socket changes.                                  *)
LEMMA StageStays ==
    ASSUME Inv, UNCHANGED <<page, on>>, hellos' \subseteq hellos, on \in resumed' <=> on \in resumed,
           on \in Sockets => down'[on] = down[on] /\ sock'[on].at = sock[on].at,
           reg'[Phone].tx = on => reg[Phone].tx = on /\ reg'[Phone].state = reg[Phone].state
    PROVE  StageInv'
  <1>1. on # NoSocket => on \in Sockets
    BY DEF Inv, WireInv, WireTypes
  <1> QED BY <1>1 DEF Inv, StageInv, AtHello, AtAck, AtLoop, Asked, Told

(* The registry changes, and no task moves.                                *)
LEMMA EntriesChange ==
    ASSUME DeskInv, DeskTypes', granted \subseteq granted', store' \subseteq store,
           \A t \in Sockets : /\ sock'[t].at = sock[t].at /\ sock'[t].id = sock[t].id
                              /\ sock'[t].epoch = sock[t].epoch,
           \A id \in Others : reg'[id].tx = NoSocket,
           reg'[Phone].tx # NoSocket => /\ reg'[Phone].tx = reg[Phone].tx
                                        /\ reg'[Phone].state \in {"pending", "accepted"}
                                        /\ reg'[Phone].epoch = reg[Phone].epoch,
           D!Active(Phone)' => D!Active(Phone) \/ Phone \in granted',
           cmd'.at = "upsert" => cmd'.id = Phone /\ Phone \in granted'
    PROVE  DeskInv'
  <1>1. reg[Phone].tx \in Sockets \union {NoSocket}
    BY Records DEF DeskInv, DeskTypes, D!Session
  <1>2. OwnerInv' BY <1>1 DEF DeskInv, OwnerInv, Attached
  <1>3. TasksInv' BY DEF DeskInv, TasksInv
  <1>4. GrantInv' BY DEF DeskInv, GrantInv
  <1> QED BY <1>2, <1>3, <1>4 DEF DeskInv

(* What the invariant says of the desktop, for the steps below.            *)
LEMMA DeskFacts ==
    ASSUME Inv
    PROVE  /\ DeskTypes /\ reg[Phone] \in D!Session /\ reg[Phone].tx \in Sockets \union {NoSocket}
           /\ Phone \in Ids /\ Others \subseteq Ids
           /\ resumed \subseteq Sockets /\ hellos \subseteq Sockets
           /\ on # NoSocket => on \in Sockets
           /\ troubles \in 0..MaxTroubles
           /\ \A s \in Sockets : s # on => down[s] = <<>>
           /\ \A s \in hellos : sock[s].at = "off"
           /\ \A s \in resumed : sock[s].at \in {"hook", "ack"}
           /\ resumed # {} => Phone \in granted
           /\ \A s \in Sockets : reg[Phone].tx = s => GoesOn(down[s])
  BY Records DEF Inv, DeskInv, DeskTypes, D!Session, WireInv, WireTypes, WordInv, LastInv, Ids

-----------------------------------------------------------------------------
(* Hello *)

LEMMA HelloBusyKeeps ==
    ASSUME Inv, NEW s \in hellos, Hello(s), D!HelloBusy(s, Phone), Say(s, "fatal"), UNCHANGED resumed
    PROVE  Inv'
  <1> USE DEF Inv
  <1>1. /\ s \in Sockets /\ sock[s].at = "off" /\ hellos' = hellos \ {s}
        /\ UNCHANGED <<phoneVars, on, troubles>>
    BY DeskFacts DEF Hello
  <1>2. /\ D!Busy(D!Swept(reg[Phone])) /\ reg' = [D!SweptReg EXCEPT ![Phone].strikes = 0]
        /\ UNCHANGED <<sock, store, revokeEpoch, cmd, granted>>
    BY DEF D!HelloBusy, D!history
  <1>3. D!Swept(reg[Phone]) = reg[Phone] /\ reg[Phone].tx # NoSocket
        /\ reg[Phone].state \in {"pending", "accepted"}
    BY <1>2, DeskFacts, SweptIs DEF D!Busy, D!Open
  <1> DEFINE n == [reg[Phone] EXCEPT !.strikes = 0]
  <1>4. /\ n \in D!Session /\ n.tx = reg[Phone].tx /\ n.state = reg[Phone].state
        /\ n.epoch = reg[Phone].epoch
    BY DeskFacts, Records DEF D!Session
  <1>5. reg' = [D!SweptReg EXCEPT ![Phone] = n]
    BY <1>2, <1>3, DeskFacts, SweptRegIs
  <1> HIDE DEF n
  <1>6. reg' \in [Ids -> D!Session] /\ reg'[Phone] = n
        /\ \A id \in Ids : id # Phone => reg'[id] = D!Swept(reg[id])
    BY <1>4, <1>5, DeskFacts, SweptRegIs
  <1>7. \A id \in Others : reg'[id].tx = NoSocket
    BY <1>6, DeskFacts, SweptIs, LinkAssumption DEF DeskInv, TasksInv, DeskTypes
  <1>8. DeskTypes'
    BY <1>2, <1>6 DEF DeskInv, DeskTypes
  <1>9. DeskInv'
    BY <1>2, <1>3, <1>4, <1>6, <1>7, <1>8, EntriesChange DEF DeskInv, GrantInv, D!Active
  <1>10. reg[Phone].tx # s
    BY <1>1, <1>3, LinkAssumption DEF DeskInv, OwnerInv, Attached
  <1>11. s = on => down[on] = <<>>
    BY <1>1, LinkAssumption DEF StageInv, AtHello
  <1>12. PageInv' /\ DeskInv' /\ WireInv' /\ WordInv' /\ LastInv'
    <2> DEFINE ms == <<"fatal">>
    <2>1. ms \in Seq(P!Messages) /\ EndsOnce(ms) /\ Neutral(ms) /\ down' = Queued(s, ms)
      BY Words DEF Say
    <2> HIDE DEF ms
    <2>2. s = on => GoesOn(down[on])
      BY <1>11, Words
    <2> QED BY <1>1, <1>2, <1>4, <1>6, <1>9, <1>10, <2>1, <2>2, DeskFacts, DeskSays
  <1>13. StageInv'
    <2>1. CASE s = on
      BY <1>1, <1>2, <1>4, <1>6, <1>10, <2>1 DEF StageInv, phoneVars
    <2>2. CASE s # on
      <3>1. on \in Sockets => down'[on] = down[on]
        BY <2>2 DEF Say, Queued
      <3> QED BY <1>1, <1>2, <1>4, <1>6, <2>2, <3>1, StageStays DEF phoneVars
    <2> QED BY <2>1, <2>2
  <1> QED BY <1>12, <1>13

LEMMA HelloUnknownKeeps ==
    ASSUME Inv, NEW s \in hellos, Hello(s), D!HelloUnknown(s, Phone), UNCHANGED <<down, resumed>>
    PROVE  Inv'
  <1> USE DEF Inv
  <1>1. /\ s \in Sockets /\ sock[s].at = "off" /\ hellos' = hellos \ {s}
        /\ UNCHANGED <<phoneVars, on, troubles>>
    BY DeskFacts DEF Hello
  <1> DEFINE k == [D!Off EXCEPT !.at = "unknown", !.id = Phone]
  <1>2. /\ D!Swept(reg[Phone]).state \in {"none", "expired"} /\ reg' = D!SweptReg
        /\ sock' = [sock EXCEPT ![s] = k]
        /\ UNCHANGED <<store, revokeEpoch, cmd, granted>>
    BY DEF D!HelloUnknown, D!history
  <1>3. k \in D!Task /\ k.at = "unknown" /\ k.id = Phone
    BY Records DEF D!Task, Ids
  <1> HIDE DEF k
  <1>4. /\ sock' \in [Sockets -> D!Task] /\ sock'[s].at = "unknown" /\ sock'[s].id = Phone
        /\ \A t \in Sockets : t # s => sock'[t] = sock[t]
    BY <1>1, <1>2, <1>3, Place DEF DeskInv, DeskTypes
  <1>5. reg' \in [Ids -> D!Session] /\ \A id \in Ids : reg'[id] = D!Swept(reg[id])
    BY <1>2, DeskFacts, SweptRegIs
  <1>6. reg[Phone].tx = NoSocket /\ reg'[Phone].tx = NoSocket
    BY <1>2, <1>5, DeskFacts, SweptIs DEF DeskInv, OwnerInv
  <1>7. \A id \in Others : reg'[id].tx = NoSocket
    BY <1>5, DeskFacts, SweptIs DEF DeskInv, TasksInv, DeskTypes
  <1>8. DeskInv'
    <2>1. DeskTypes'
      BY <1>2, <1>4, <1>5 DEF DeskInv, DeskTypes
    <2>2. OwnerInv'
      BY <1>6 DEF OwnerInv
    <2>3. TasksInv'
      BY <1>4, <1>7 DEF DeskInv, TasksInv
    <2>4. ~D!Active(Phone)'
      BY <1>2, <1>5, DeskFacts DEF D!Active
    <2>5. GrantInv'
      BY <1>2, <1>4, <2>4 DEF DeskInv, GrantInv
    <2> QED BY <2>1, <2>2, <2>3, <2>5 DEF DeskInv
  <1>9. PageInv' /\ DeskInv' /\ WireInv' /\ WordInv' /\ LastInv'
    BY <1>1, <1>2, <1>4, <1>6, <1>8, DeskFacts, DeskIsSilent
  <1>10. StageInv'
    BY <1>1, <1>4, <1>6, DeskFacts, LinkAssumption DEF StageInv, AtHello, phoneVars
  <1> QED BY <1>9, <1>10

(* The session was attached to no socket, or it would have been busy.      *)
LEMMA HelloAttachKeeps ==
    ASSUME Inv, NEW s \in hellos, Hello(s), D!HelloAttach(s, Phone), UNCHANGED down,
           resumed' = IF reg'[Phone].state = "accepted" THEN resumed \union {s} ELSE resumed
    PROVE  Inv'
  <1> USE DEF Inv
  <1>1. /\ s \in Sockets /\ sock[s].at = "off" /\ hellos' = hellos \ {s}
        /\ UNCHANGED <<phoneVars, on, troubles>>
    BY DeskFacts DEF Hello
  <1> DEFINE r == D!Swept(reg[Phone])
             st == IF D!Resumable(r) THEN "accepted" ELSE "pending"
             n == [r EXCEPT !.state = st, !.tx = s, !.epoch = r.epoch + 1, !.strikes = 0, !.late = FALSE]
             k == [D!Off EXCEPT !.at = "ack", !.id = Phone, !.epoch = r.epoch + 1]
  <1>2. /\ ~D!Busy(r) /\ r.epoch < MaxEpoch
        /\ reg' = [D!SweptReg EXCEPT ![Phone] = n]
        /\ sock' = [sock EXCEPT ![s] = k]
        /\ UNCHANGED <<store, revokeEpoch, cmd, granted>>
    BY DEF D!HelloAttach, D!history
  <1>3. r \in D!Session /\ r.epoch + 1 \in 0..MaxEpoch
    <2>1. r \in D!Session
      BY DeskFacts, SweptIs
    <2> HIDE DEF r
    <2> QED BY <1>2, <2>1, Records DEF D!Session
  <1>4. st = "accepted" => D!Active(Phone)
    BY DeskFacts, SweptIs DEF D!Resumable, D!Active
  <1>5. st \in {"accepted", "pending"}
    OBVIOUS
  <1>6. reg[Phone].tx = NoSocket
    <2> SUFFICES ASSUME reg[Phone].tx # NoSocket PROVE FALSE
      OBVIOUS
    <2>1. reg[Phone].state \in {"pending", "accepted"} /\ sock[reg[Phone].tx].at # "off"
      BY DEF DeskInv, OwnerInv, Attached
    <2>2. r = reg[Phone]
      BY <2>1, DeskFacts, SweptIs
    <2> QED BY <1>2, <2>1, <2>2 DEF D!Busy, D!Open
  <1> HIDE DEF st, r
  <1>7. /\ n \in D!Session /\ n.tx = s /\ n.state = st /\ n.epoch = r.epoch + 1
        /\ k \in D!Task /\ k.at = "ack" /\ k.id = Phone /\ k.epoch = r.epoch + 1
    <2>1. n \in D!Session /\ n.tx = s /\ n.state = st /\ n.epoch = r.epoch + 1
      BY <1>1, <1>3, <1>5, Records DEF D!Session, D!States
    <2>2. k \in D!Task /\ k.at = "ack" /\ k.id = Phone /\ k.epoch = r.epoch + 1
      BY <1>3, Records DEF D!Task, Ids
    <2> QED BY <2>1, <2>2
  <1> HIDE DEF n, k
  <1>8. reg' \in [Ids -> D!Session] /\ reg'[Phone] = n
        /\ \A id \in Ids : id # Phone => reg'[id] = D!Swept(reg[id])
    BY <1>2, <1>7, DeskFacts, SweptRegIs
  <1>9. /\ sock' \in [Sockets -> D!Task] /\ sock'[s] = k
        /\ \A t \in Sockets : t # s => sock'[t] = sock[t]
    BY <1>1, <1>2, <1>7, Place DEF DeskInv, DeskTypes
  <1>10. DeskInv'
    <2>1. DeskTypes'
      BY <1>2, <1>8, <1>9 DEF DeskInv, DeskTypes
    <2>2. OwnerInv'
      BY <1>5, <1>7, <1>8, <1>9 DEF OwnerInv, Attached
    <2>3. TasksInv'
      <3>1. \A id \in Others : reg'[id].tx = NoSocket
        BY <1>8, DeskFacts, SweptIs, LinkAssumption DEF DeskInv, TasksInv, DeskTypes
      <3> QED BY <1>7, <1>9, <3>1 DEF DeskInv, TasksInv
    <2>4. D!Active(Phone)' => D!Active(Phone)
      BY <1>4, <1>5, <1>7, <1>8 DEF D!Active
    <2>5. GrantInv'
      BY <1>2, <1>7, <1>9, <2>4 DEF DeskInv, GrantInv
    <2> QED BY <2>1, <2>2, <2>3, <2>5 DEF DeskInv
  <1>11. resumed' \subseteq Sockets /\ (resumed' # {} => Phone \in granted')
    BY <1>1, <1>2, <1>4, <1>7, <1>8, DeskFacts DEF DeskInv, GrantInv
  <1>12. /\ s \notin resumed /\ down[s] = <<>>
         /\ s = on => page.state = "hello-sent"
    BY <1>1, DeskFacts, LinkAssumption DEF StageInv, AtHello
  <1>13. PageInv' /\ DeskInv' /\ WireInv' /\ WordInv' /\ LastInv'
    <2>1. \A t \in hellos' : sock'[t].at = "off"
      BY <1>1, <1>9, DeskFacts
    <2>2. \A t \in resumed' : sock'[t].at \in {"hook", "ack"}
      BY <1>7, <1>9, DeskFacts
    <2> QED BY <1>1, <1>2, <1>7, <1>8, <1>10, <1>11, <1>12, <2>1, <2>2, DeskFacts, DeskIsSilent
  <1>14. StageInv'
    <2>1. CASE s = on
      <3>1. sock'[on].at = "ack" /\ on \notin hellos' /\ page' = page
        BY <1>1, <1>7, <1>9, <2>1 DEF phoneVars
      <3>2. reg'[Phone].state = st
        BY <1>7, <1>8
      <3>3. AtAck'
        BY <1>1, <1>5, <1>12, <2>1, <3>1, <3>2 DEF AtAck, phoneVars
      <3> QED BY <1>1, <3>1, <3>3 DEF StageInv
    <2>2. CASE s # on
      <3>1. reg'[Phone].tx # on /\ (on \in Sockets => sock'[on].at = sock[on].at)
        BY <1>7, <1>8, <1>9, <2>2
      <3>2. on \in resumed' <=> on \in resumed
        BY <2>2
      <3> QED BY <1>1, <2>2, <3>1, <3>2, StageStays DEF phoneVars
    <2> QED BY <2>1, <2>2
  <1> QED BY <1>13, <1>14

LEMMA HelloKeeps == ASSUME Inv, NEW s \in Sockets, Hello(s) \/ HelloVanishes(s) PROVE Inv'
  <1>1. CASE Hello(s)
    BY <1>1, HelloBusyKeeps, HelloUnknownKeeps, HelloAttachKeeps DEF Hello
  <1>2. CASE HelloVanishes(s)
    <2> USE DEF Inv
    <2>1. /\ UNCHANGED <<phoneVars, deskVars, on, resumed, down, troubles>> /\ hellos' = hellos \ {s}
          /\ on # s
      BY <1>2 DEF HelloVanishes
    <2>2. DeskInv' BY <2>1, DeskStill
    <2>3. PageInv' /\ DeskInv' /\ WireInv' /\ WordInv' /\ LastInv'
      BY <2>1, <2>2, DeskFacts, DeskIsSilent DEF deskVars
    <2>4. StageInv'
      BY <2>1, StageStays DEF deskVars, phoneVars
    <2> QED BY <2>3, <2>4
  <1> QED BY <1>1, <1>2

-----------------------------------------------------------------------------
(* The resume of a trusted phone *)

LEMMA ReadEpochKeeps == ASSUME Inv, NEW s \in Sockets, Trusted(s), D!ReadEpoch(s) PROVE Inv'
  <1> USE DEF Inv
  <1> DEFINE k == [sock[s] EXCEPT !.at = "verify", !.seen = revokeEpoch]
  <1>1. /\ sock[s].at = "unknown"
        /\ sock' = [sock EXCEPT ![s].at = "verify", ![s].seen = revokeEpoch]
        /\ UNCHANGED <<reg, store, revokeEpoch, cmd, granted>>
    BY DEF D!ReadEpoch, D!history
  <1>2. k \in D!Task /\ k.at = "verify" /\ k.id = sock[s].id
    BY DEF DeskInv, DeskTypes, D!Task
  <1>3. sock' = [sock EXCEPT ![s] = k]
    BY <1>1 DEF DeskInv, DeskTypes
  <1> HIDE DEF k
  <1>4. /\ sock' \in [Sockets -> D!Task] /\ sock'[s].at = "verify" /\ sock'[s].id = Phone
        /\ \A t \in Sockets : t # s => sock'[t] = sock[t]
    BY <1>1, <1>2, <1>3, Place DEF DeskInv, DeskTypes, TasksInv
  <1>5. reg[Phone].tx # s
    BY <1>1, LinkAssumption DEF DeskInv, OwnerInv, Attached
  <1>6. DeskInv'
    BY <1>1, <1>4, <1>5, TaskMoves
  <1>7. /\ down' = Queued(s, <<>>) /\ resumed' = resumed
        /\ UNCHANGED <<phoneVars, on, hellos, troubles>>
    BY <1>4 DEF Trusted, Refused
  <1>8. down' = down
    BY <1>7, DeskFacts DEF Queued, WireInv, WireTypes
  <1>9. PageInv' /\ DeskInv' /\ WireInv' /\ WordInv' /\ LastInv'
    BY <1>1, <1>4, <1>6, <1>7, <1>8, DeskFacts, DeskIsSilent
  <1>10. StageInv'
    BY <1>1, <1>4, <1>5, <1>7, <1>8, DeskFacts DEF StageInv, AtHello, AtAck, AtLoop, Asked, Told, phoneVars
  <1> QED BY <1>9, <1>10

(* A task that gives up says so.                                           *)
LEMMA TurnedAway ==
    ASSUME Inv, NEW s \in Sockets, sock[s].at \in {"verify", "insert"}, sock' = [sock EXCEPT ![s] = D!Off],
           UNCHANGED <<reg, store, revokeEpoch, cmd, granted>>, Trusted(s)
    PROVE  Inv'
  <1> USE DEF Inv
  <1>1. /\ sock' \in [Sockets -> D!Task] /\ sock'[s].at = "off"
        /\ \A t \in Sockets : t # s => sock'[t] = sock[t]
    BY Records, Place DEF DeskInv, DeskTypes
  <1>2. reg[Phone].tx # s
    BY LinkAssumption DEF DeskInv, OwnerInv, Attached
  <1>3. DeskInv'
    BY <1>1, <1>2, TaskMoves
  <1> DEFINE ms == <<"unknown">>
  <1>4. /\ down' = Queued(s, ms) /\ resumed' = resumed
        /\ UNCHANGED <<phoneVars, on, hellos, troubles>>
    BY <1>1 DEF Trusted, Refused
  <1>5. ms \in Seq(P!Messages) /\ EndsOnce(ms) /\ Neutral(ms)
    BY Words
  <1> HIDE DEF ms
  <1>6. s = on => down[on] = <<>>
    BY LinkAssumption DEF StageInv, AtHello
  <1>7. PageInv' /\ DeskInv' /\ WireInv' /\ WordInv' /\ LastInv'
    <2>1. \A t \in hellos' : sock'[t].at = "off"
      BY <1>1, <1>4, DeskFacts
    <2>2. \A t \in resumed' : sock'[t].at \in {"hook", "ack"}
      BY <1>1, <1>4, DeskFacts
    <2>3. s = on => GoesOn(down[on])
      BY <1>6, Words
    <2> QED BY <1>2, <1>3, <1>4, <1>5, <2>1, <2>2, <2>3, DeskFacts, DeskSays
  <1>8. StageInv'
    <2>1. CASE s = on
      <3>1. on \notin hellos' /\ sock'[on].at = "off" /\ reg'[Phone].tx # on /\ on' = on
        BY <1>1, <1>2, <1>4, <2>1, DeskFacts
      <3> QED BY <3>1 DEF StageInv
    <2>2. CASE s # on
      <3>1. on \in Sockets => down'[on] = down[on]
        BY <1>4, <2>2 DEF Queued
      <3> QED BY <1>1, <1>4, <2>2, <3>1, StageStays DEF phoneVars
    <2> QED BY <2>1, <2>2
  <1> QED BY <1>7, <1>8

LEMMA VerifyKeeps == ASSUME Inv, NEW s \in Sockets, Trusted(s), D!Verify(s) PROVE Inv'
  <1> USE DEF Inv
  <1> DEFINE k == [sock[s] EXCEPT !.at = "insert"]
  <1>1. /\ sock[s].at = "verify"
        /\ sock' = [sock EXCEPT ![s] = IF sock[s].id \in store THEN k ELSE D!Off]
        /\ UNCHANGED <<reg, store, revokeEpoch, cmd, granted>>
    BY DEF D!Verify, D!history
  <1>2. CASE sock[s].id \notin store
    BY <1>1, <1>2, TurnedAway
  <1>3. CASE sock[s].id \in store
    <2>1. k \in D!Task /\ k.at = "insert" /\ k.id = sock[s].id
      BY DEF DeskInv, DeskTypes, D!Task
    <2>2. sock' = [sock EXCEPT ![s] = k]
      BY <1>1, <1>3
    <2> HIDE DEF k
    <2>3. /\ sock' \in [Sockets -> D!Task] /\ sock'[s].at = "insert" /\ sock'[s].id = Phone
          /\ \A t \in Sockets : t # s => sock'[t] = sock[t]
      BY <1>1, <2>1, <2>2, Place DEF DeskInv, DeskTypes, TasksInv
    <2>4. reg[Phone].tx # s
      BY <1>1, LinkAssumption DEF DeskInv, OwnerInv, Attached
    <2>5. Phone \in granted
      BY <1>1, <1>3 DEF DeskInv, TasksInv, GrantInv
    <2>6. DeskInv'
      BY <1>1, <2>3, <2>4, <2>5, TaskMoves
    <2>7. /\ down' = Queued(s, <<>>) /\ resumed' = resumed
          /\ UNCHANGED <<phoneVars, on, hellos, troubles>>
      BY <2>3 DEF Trusted, Refused
    <2>8. down' = down
      BY <2>7, DeskFacts DEF Queued, WireInv, WireTypes
    <2>9. PageInv' /\ DeskInv' /\ WireInv' /\ WordInv' /\ LastInv'
      BY <1>1, <2>3, <2>6, <2>7, <2>8, DeskFacts, DeskIsSilent
    <2>10. StageInv'
      BY <1>1, <2>3, <2>4, <2>7, <2>8, DeskFacts DEF StageInv, AtHello, AtAck, AtLoop, Asked, Told, phoneVars
    <2> QED BY <2>9, <2>10
  <1> QED BY <1>2, <1>3

LEMMA RehydrateKeeps == ASSUME Inv, NEW s \in Sockets, Trusted(s), D!Rehydrate(s) PROVE Inv'
  <1> USE DEF Inv
  <1> DEFINE n == [D!Absent EXCEPT !.state = "accepted", !.tx = s, !.epoch = 1]
             k == [sock[s] EXCEPT !.at = "hook", !.epoch = 1, !.sole = TRUE]
  <1>1. /\ sock[s].at = "insert" /\ sock[s].id = Phone
        /\ reg[Phone].state = "none" /\ reg' = [reg EXCEPT ![Phone] = n]
        /\ sock' = [sock EXCEPT ![s].at = "hook", ![s].epoch = 1, ![s].sole = TRUE]
        /\ UNCHANGED <<store, revokeEpoch, cmd, granted>>
    BY DEF D!Rehydrate, D!history, DeskInv, TasksInv
  <1>2. n \in D!Session /\ n.tx = s /\ n.state = "accepted" /\ n.epoch = 1
    BY Records DEF D!Session, D!States
  <1>3. k \in D!Task /\ k.at = "hook" /\ k.id = Phone /\ k.epoch = 1
    BY <1>1, Records DEF DeskInv, DeskTypes, D!Task
  <1>4. sock' = [sock EXCEPT ![s] = k]
    BY <1>1 DEF DeskInv, DeskTypes
  <1> HIDE DEF n, k
  <1>5. /\ sock' \in [Sockets -> D!Task] /\ sock'[s] = k
        /\ \A t \in Sockets : t # s => sock'[t] = sock[t]
    BY <1>3, <1>4, Place DEF DeskInv, DeskTypes
  <1>6. reg' \in [Ids -> D!Session] /\ reg'[Phone] = n /\ \A id \in Ids : id # Phone => reg'[id] = reg[id]
    BY <1>1, <1>2, DeskFacts, Entry DEF DeskInv, DeskTypes
  <1>7. Phone \in granted
    BY <1>1 DEF DeskInv, GrantInv
  <1>8. DeskInv'
    <2>1. DeskTypes'
      BY <1>1, <1>5, <1>6 DEF DeskInv, DeskTypes
    <2>2. OwnerInv'
      BY <1>2, <1>3, <1>5, <1>6 DEF OwnerInv, Attached
    <2>3. TasksInv'
      BY <1>3, <1>5, <1>6, DeskFacts, LinkAssumption DEF DeskInv, TasksInv
    <2>4. GrantInv'
      BY <1>1, <1>7 DEF DeskInv, GrantInv
    <2> QED BY <2>1, <2>2, <2>3, <2>4 DEF DeskInv
  <1>9. /\ down' = Queued(s, <<>>) /\ resumed' = resumed \union {s}
        /\ UNCHANGED <<phoneVars, on, hellos, troubles>>
    BY <1>3, <1>5 DEF Trusted, Refused
  <1>10. down' = down
    BY <1>9, DeskFacts DEF Queued, WireInv, WireTypes
  <1>11. down[s] = <<>> /\ (s = on => page.state = "hello-sent")
    BY <1>1, DeskFacts, LinkAssumption DEF StageInv, AtHello
  <1>12. PageInv' /\ DeskInv' /\ WireInv' /\ WordInv' /\ LastInv'
    <2>1. \A t \in hellos' : sock'[t].at = "off"
      BY <1>1, <1>5, <1>9, DeskFacts
    <2>2. \A t \in resumed' : sock'[t].at \in {"hook", "ack"}
      BY <1>3, <1>5, <1>9, DeskFacts
    <2> QED BY <1>1, <1>2, <1>6, <1>7, <1>8, <1>9, <1>10, <1>11, <2>1, <2>2, DeskFacts, DeskIsSilent
  <1>13. StageInv'
    <2>1. CASE s = on
      <3>1. sock'[on].at = "hook" /\ on \notin hellos'
        BY <1>1, <1>3, <1>5, <1>9, <2>1, DeskFacts
      <3>2. AtAck'
        BY <1>2, <1>6, <1>9, <1>10, <1>11, <2>1 DEF AtAck, phoneVars
      <3> QED BY <1>9, <3>1, <3>2 DEF StageInv
    <2>2. CASE s # on
      BY <1>2, <1>5, <1>6, <1>9, <1>10, <2>2, StageStays DEF phoneVars
    <2> QED BY <2>1, <2>2
  <1> QED BY <1>12, <1>13

LEMMA ResumeHookKeeps == ASSUME Inv, NEW s \in Sockets, Trusted(s), D!ResumeHook(s) PROVE Inv'
  <1> USE DEF Inv
  <1>1. sock[s].at = "hook" /\ D!Go(s, "ack") /\ UNCHANGED <<reg, store, revokeEpoch, cmd, granted>>
    BY DEF D!ResumeHook, D!history
  <1>2. /\ sock' \in [Sockets -> D!Task] /\ sock'[s].at = "ack" /\ sock'[s].id = sock[s].id
        /\ sock'[s].epoch = sock[s].epoch /\ \A t \in Sockets : t # s => sock'[t] = sock[t]
    BY <1>1, Gone DEF DeskInv, DeskTypes
  <1>3. sock[s].id = Phone
    BY <1>1 DEF DeskInv, TasksInv
  <1>4. DeskInv'
    BY <1>1, <1>2, <1>3, TaskMoves DEF Attached
  <1>5. /\ down' = Queued(s, <<>>) /\ resumed' = resumed
        /\ UNCHANGED <<phoneVars, on, hellos, troubles>>
    BY <1>2 DEF Trusted, Refused
  <1>6. down' = down
    BY <1>5, DeskFacts DEF Queued, WireInv, WireTypes
  <1>7. PageInv' /\ DeskInv' /\ WireInv' /\ WordInv' /\ LastInv'
    BY <1>1, <1>2, <1>4, <1>5, <1>6, DeskFacts, DeskIsSilent
  <1>8. StageInv'
    BY <1>1, <1>2, <1>5, <1>6, DeskFacts DEF StageInv, AtHello, AtAck, AtLoop, Asked, Told, phoneVars
  <1> QED BY <1>7, <1>8

LEMMA TrustedKeeps == ASSUME Inv, NEW s \in Sockets, Trusted(s) PROVE Inv'
  <1>1. CASE D!Refuse(s)
    <2>1. /\ sock[s].at \in {"verify", "insert"} /\ sock' = [sock EXCEPT ![s] = D!Off]
          /\ UNCHANGED <<reg, store, revokeEpoch, cmd, granted>>
      BY <1>1 DEF D!Refuse, D!history
    <2> QED BY <2>1, TurnedAway
  <1> QED BY <1>1, ReadEpochKeeps, VerifyKeeps, RehydrateKeeps, ResumeHookKeeps DEF Trusted

-----------------------------------------------------------------------------
(* The rest of a socket task *)

LEMMA AcksKeeps == ASSUME Inv, NEW s \in Sockets, Acks(s) PROVE Inv'
  <1> USE DEF Inv
  <1> DEFINE a == Ack(s)
             q == down[s]
  <1>1. /\ sock[s].at = "ack" /\ D!Go(s, "loop") /\ UNCHANGED <<reg, store, revokeEpoch, cmd, granted>>
        /\ down' = (IF s = on THEN [down EXCEPT ![s] = a \o q] ELSE down)
        /\ resumed' = resumed \ {s} /\ UNCHANGED <<phoneVars, on, hellos, troubles>>
    BY DEF Acks, Acked, D!AckSent, D!history
  <1>2. /\ sock' \in [Sockets -> D!Task] /\ sock'[s].at = "loop" /\ sock'[s].id = Phone
        /\ sock'[s].epoch = sock[s].epoch /\ \A t \in Sockets : t # s => sock'[t] = sock[t]
    BY <1>1, Gone DEF DeskInv, DeskTypes, TasksInv
  <1>3. DeskInv'
    BY <1>1, <1>2, TaskMoves DEF Attached
  <1>4. /\ a \in Seq(P!Messages) /\ GoesOn(a) /\ (Phone \in granted \/ Neutral(a))
        /\ a = IF s \in resumed THEN <<"ackGo", "accepted">> ELSE <<"ackWait">>
    BY Words, DeskFacts DEF Ack
  <1>5. q \in Seq(P!Messages) /\ EndsOnce(q) /\ (reg[Phone].tx = s => GoesOn(q))
        /\ (Phone \in granted \/ Neutral(q))
    BY DEF WireInv, WireTypes, LastInv, WordInv
  <1> HIDE DEF a
  <1>6. PageInv'
    BY <1>1, PageStill
  <1>7. /\ down' \in [Sockets -> Seq(P!Messages)]
        /\ \A t \in Sockets : ~(t = s /\ s = on) => down'[t] = down[t]
        /\ s = on => down'[s] = a \o q
    <2>1. a \o q \in Seq(P!Messages)
      BY <1>4, <1>5
    <2> QED BY <1>1, <2>1 DEF WireInv, WireTypes
  <1>8. WireInv'
    <2>1. \A t \in hellos' : sock'[t].at = "off"
      BY <1>1, <1>2, DeskFacts
    <2>2. \A t \in resumed' : sock'[t].at \in {"hook", "ack"}
      BY <1>1, <1>2, DeskFacts
    <2> QED BY <1>1, <1>7, <2>1, <2>2 DEF WireInv, WireTypes, phoneVars
  <1>9. WordInv'
    <2>1. s = on => Phone \in granted \/ Neutral(down'[s])
      BY <1>4, <1>5, <1>7, Joined
    <2> QED BY <1>1, <1>7, <2>1 DEF WordInv, AcceptedOnBothSides, phoneVars
  <1>10. LastInv'
    <2>1. s = on => EndsOnce(down'[s]) /\ (reg[Phone].tx = s => GoesOn(down'[s]))
      BY <1>4, <1>5, <1>7, Joined
    <2> QED BY <1>1, <1>7, <2>1 DEF LastInv
  <1>11. StageInv'
    <2>1. CASE s = on
      <3>1. sock'[on].at = "loop" /\ on \notin hellos'
        BY <1>1, <1>2, <2>1, DeskFacts
      <3>2. ASSUME reg[Phone].tx = on PROVE AtLoop'
        <4>1. AtAck /\ reg' = reg /\ page' = page /\ on' = on
          BY <1>1, <2>1, <3>2, LinkAssumption DEF StageInv, phoneVars
        <4>2. /\ <<"ackWait">> \o <<>> = <<"ackWait">>
              /\ <<"ackGo", "accepted">> \o <<>> = <<"ackGo", "accepted">>
              /\ <<"ackWait">> \o <<"accepted">> = <<"ackWait", "accepted">>
          <5>1. <<"ackWait">> \o <<>> = <<"ackWait">>
            OBVIOUS
          <5>2. <<"ackGo", "accepted">> \o <<>> = <<"ackGo", "accepted">>
            OBVIOUS
          <5>3. <<"ackWait">> \o <<"accepted">> = <<"ackWait", "accepted">>
            BY TwoWords DEF P!Messages
          <5> QED BY <5>1, <5>2, <5>3
        <4>3. down'[on] = a \o down[on]
          BY <1>7, <2>1
        <4> QED BY <1>4, <2>1, <4>1, <4>2, <4>3 DEF AtAck, AtLoop, Asked, Told
      <3> QED BY <1>1, <3>1, <3>2 DEF StageInv
    <2>2. CASE s # on
      BY <1>1, <1>2, <1>7, <2>2, StageStays DEF phoneVars
    <2> QED BY <2>1, <2>2
  <1> QED BY <1>3, <1>6, <1>8, <1>9, <1>10, <1>11

(* A task that ends detaches the session if it still holds it.             *)
LEMMA DetachKeeps ==
    ASSUME Inv, NEW s \in Sockets, sock[s].at \in {"ack", "closing"}, D!Detach(s),
           UNCHANGED <<store, revokeEpoch, cmd, granted>>,
           resumed' = resumed \ {s}, UNCHANGED <<phoneVars, on, hellos, down, troubles>>
    PROVE  Inv'
  <1> USE DEF Inv
  <1> DEFINE e == sock[s].epoch
             n == D!Detached(reg[Phone], e)
  <1>1. reg' = [reg EXCEPT ![Phone] = n] /\ sock' = [sock EXCEPT ![s] = D!Off]
    BY DEF D!Detach, DeskInv, DeskTypes, TasksInv, Ids
  <1>2. /\ n \in D!Session
        /\ n.tx # NoSocket => n = reg[Phone] /\ (reg[Phone].epoch # e \/ reg[Phone].state = "none")
        /\ n.state \in {"accepted", "reconnecting", "disconnected"}
             => reg[Phone].state \in {"accepted", "reconnecting", "disconnected"}
    BY DeskFacts, DetachedIs
  <1> HIDE DEF n
  <1>3. reg' \in [Ids -> D!Session] /\ reg'[Phone] = n /\ \A id \in Ids : id # Phone => reg'[id] = reg[id]
    BY <1>1, <1>2, DeskFacts, Entry DEF DeskInv, DeskTypes
  <1>4. /\ sock' \in [Sockets -> D!Task] /\ sock'[s].at = "off"
        /\ \A t \in Sockets : t # s => sock'[t] = sock[t]
    BY <1>1, Records, Place DEF DeskInv, DeskTypes
  <1>5. n.tx # NoSocket => n = reg[Phone] /\ reg[Phone].tx # s
    BY <1>2 DEF DeskInv, OwnerInv
  <1>6. DeskInv'
    <2>1. DeskTypes'
      BY <1>3, <1>4 DEF DeskInv, DeskTypes
    <2>2. OwnerInv'
      BY <1>3, <1>4, <1>5, DeskFacts DEF DeskInv, OwnerInv, Attached
    <2>3. TasksInv'
      BY <1>3, <1>4, DeskFacts, LinkAssumption DEF DeskInv, TasksInv
    <2>4. GrantInv'
      BY <1>2, <1>3, <1>4 DEF DeskInv, GrantInv, D!Active
    <2> QED BY <2>1, <2>2, <2>3, <2>4 DEF DeskInv
  <1>7. PageInv' /\ DeskInv' /\ WireInv' /\ WordInv' /\ LastInv'
    <2>1. \A t \in hellos' : sock'[t].at = "off"
      BY <1>4, DeskFacts
    <2>2. \A t \in resumed' : sock'[t].at \in {"hook", "ack"}
      BY <1>4, DeskFacts
    <2> QED BY <1>3, <1>5, <1>6, <2>1, <2>2, DeskFacts, DeskIsSilent
  <1>8. StageInv'
    <2>1. CASE s = on
      <3>1. on \notin hellos' /\ sock'[on].at = "off"
        BY <1>4, <2>1, DeskFacts
      <3> QED BY <3>1 DEF StageInv
    <2>2. CASE s # on
      <3>1. reg'[Phone].tx = on /\ on # NoSocket => reg'[Phone] = reg[Phone]
        BY <1>3, <1>5
      <3>2. CASE on = NoSocket
        BY <3>2 DEF StageInv
      <3>3. CASE on # NoSocket
        BY <1>4, <2>2, <3>1, <3>3, StageStays DEF phoneVars
      <3> QED BY <3>2, <3>3
    <2> QED BY <2>1, <2>2
  <1> QED BY <1>7, <1>8

(* The loop ends, or the link does, and nothing is said about it.          *)
LEMMA LoopEndsKeeps ==
    ASSUME Inv, NEW s \in Sockets, sock[s].at = "loop", D!Go(s, "closing"),
           UNCHANGED <<reg, store, revokeEpoch, cmd, granted>>,
           resumed' \subseteq resumed, resumed \ {s} \subseteq resumed',
           UNCHANGED <<phoneVars, on, hellos, down, troubles>>
    PROVE  Inv'
  <1> USE DEF Inv
  <1>1. /\ sock' \in [Sockets -> D!Task] /\ sock'[s].at = "closing" /\ sock'[s].id = Phone
        /\ sock'[s].epoch = sock[s].epoch /\ \A t \in Sockets : t # s => sock'[t] = sock[t]
    BY Gone DEF DeskInv, DeskTypes, TasksInv
  <1>2. DeskInv'
    BY <1>1, TaskMoves DEF Attached
  <1>3. PageInv' /\ DeskInv' /\ WireInv' /\ WordInv' /\ LastInv'
    <2>1. \A t \in resumed' : sock'[t].at \in {"hook", "ack"}
      BY <1>1, DeskFacts
    <2> QED BY <1>1, <1>2, <2>1, DeskFacts, DeskIsSilent
  <1>4. StageInv'
    <2>1. CASE s = on
      <3>1. on \notin hellos' /\ sock'[on].at = "closing"
        BY <1>1, <2>1, DeskFacts
      <3> QED BY <3>1 DEF StageInv
    <2>2. CASE s # on
      BY <1>1, <2>2, StageStays DEF phoneVars
    <2> QED BY <2>1, <2>2
  <1> QED BY <1>3, <1>4

LEMMA ServesKeeps == ASSUME Inv, NEW s \in Sockets, Serves(s) PROVE Inv'
  <1>1. resumed' = resumed \ {s} /\ UNCHANGED <<phoneVars, on, hellos, down, troubles>>
    BY DEF Serves
  <1>2. CASE D!AckFailed(s) \/ D!Close(s)
    BY <1>1, <1>2, DetachKeeps DEF D!AckFailed, D!Close, D!history
  <1>3. CASE D!Leave(s)
    BY <1>1, <1>3, LoopEndsKeeps DEF D!Leave, D!history
  <1> QED BY <1>2, <1>3 DEF Serves

LEMMA LinkDiesKeeps ==
    ASSUME Inv, NEW s \in Sockets, D!LinkDies(s), troubles' \in 0..MaxTroubles,
           UNCHANGED <<phoneVars, on, hellos, resumed, down>>
    PROVE  Inv'
  <1> USE DEF Inv
  <1> DEFINE k == [sock[s] EXCEPT !.dead = TRUE]
  <1>1. /\ sock[s].at \in {"ack", "loop"} /\ sock' = [sock EXCEPT ![s].dead = TRUE]
        /\ UNCHANGED <<reg, store, revokeEpoch, cmd, granted>>
    BY DEF D!LinkDies, D!history
  <1>2. k \in D!Task /\ k.at = sock[s].at /\ k.id = sock[s].id /\ k.epoch = sock[s].epoch
    BY DEF DeskInv, DeskTypes, D!Task
  <1>3. sock' = [sock EXCEPT ![s] = k]
    BY <1>1
  <1> HIDE DEF k
  <1>4. /\ sock' \in [Sockets -> D!Task] /\ sock'[s].at = sock[s].at /\ sock'[s].id = Phone
        /\ sock'[s].epoch = sock[s].epoch /\ \A t \in Sockets : t # s => sock'[t] = sock[t]
    BY <1>1, <1>2, <1>3, Place DEF DeskInv, DeskTypes, TasksInv
  <1>5. DeskInv'
    BY <1>1, <1>4, TaskMoves DEF Attached
  <1>6. PageInv' /\ DeskInv' /\ WireInv' /\ WordInv' /\ LastInv'
    <2>1. \A t \in hellos' \union resumed' : sock'[t].at = sock[t].at
      BY <1>4, DeskFacts
    <2> QED BY <1>1, <1>5, <2>1, DeskFacts, DeskIsSilent
  <1>7. StageInv'
    BY <1>1, <1>4, StageStays DEF phoneVars
  <1> QED BY <1>6, <1>7

LEMMA EndsKeeps == ASSUME Inv, NEW s \in Sockets, DesktopSeesEnd(s) \/ LinkBreaks(s) PROVE Inv'
  <1>1. CASE DesktopSeesEnd(s) /\ D!PhoneLeaves(s)
    BY <1>1, LoopEndsKeeps DEF DesktopSeesEnd, D!PhoneLeaves, D!history, wireVars
  <1>2. CASE DesktopSeesEnd(s) /\ D!LinkDies(s)
    BY <1>2, LinkDiesKeeps, DeskFacts DEF DesktopSeesEnd, wireVars
  <1>3. CASE LinkBreaks(s)
    <2>1. troubles' \in 0..MaxTroubles
      BY <1>3, DeskFacts, LinkAssumption DEF LinkBreaks, Trouble
    <2> QED BY <1>3, <2>1, LinkDiesKeeps DEF LinkBreaks
  <1> QED BY <1>1, <1>2, <1>3 DEF DesktopSeesEnd

-----------------------------------------------------------------------------
(* Time and commands *)

LEMMA GracePassesKeeps == ASSUME Inv, GracePasses PROVE Inv'
  <1> USE DEF Inv
  <1>1. D!Age(Phone) /\ UNCHANGED <<phoneVars, wireVars>>
    BY DEF GracePasses
  <1>2. PICK n \in D!Session : /\ reg' = [reg EXCEPT ![Phone] = n]
                               /\ n.tx = reg[Phone].tx /\ n.state = reg[Phone].state
                               /\ n.epoch = reg[Phone].epoch
    <2>1. CASE reg' = [reg EXCEPT ![Phone].old = TRUE]
      <3> DEFINE n == [reg[Phone] EXCEPT !.old = TRUE]
      <3>1. n \in D!Session /\ n.tx = reg[Phone].tx /\ n.state = reg[Phone].state /\ n.epoch = reg[Phone].epoch
        BY DeskFacts DEF D!Session
      <3>2. reg' = [reg EXCEPT ![Phone] = n]
        BY <2>1
      <3> HIDE DEF n
      <3> QED BY <3>1, <3>2
    <2>2. CASE reg' = [reg EXCEPT ![Phone].late = TRUE]
      <3> DEFINE n == [reg[Phone] EXCEPT !.late = TRUE]
      <3>1. n \in D!Session /\ n.tx = reg[Phone].tx /\ n.state = reg[Phone].state /\ n.epoch = reg[Phone].epoch
        BY DeskFacts DEF D!Session
      <3>2. reg' = [reg EXCEPT ![Phone] = n]
        BY <2>2
      <3> HIDE DEF n
      <3> QED BY <3>1, <3>2
    <2> QED BY <1>1, <2>1, <2>2 DEF D!Age
  <1>3. UNCHANGED <<sock, store, revokeEpoch, cmd, granted>>
    BY <1>1 DEF D!Age, D!history
  <1>4. reg' \in [Ids -> D!Session] /\ reg'[Phone] = n /\ \A id \in Ids : id # Phone => reg'[id] = reg[id]
    BY <1>2, DeskFacts, Entry DEF DeskInv, DeskTypes
  <1>5. DeskTypes'
    BY <1>3, <1>4 DEF DeskInv, DeskTypes
  <1>6. \A id \in Others : reg'[id].tx = NoSocket
    BY <1>4, DeskFacts, LinkAssumption DEF DeskInv, TasksInv
  <1>7. DeskInv'
    BY <1>2, <1>3, <1>4, <1>5, <1>6, EntriesChange DEF DeskInv, OwnerInv, GrantInv, D!Active
  <1>8. PageInv' /\ DeskInv' /\ WireInv' /\ WordInv' /\ LastInv'
    BY <1>1, <1>2, <1>3, <1>4, <1>7, DeskFacts, DeskIsSilent DEF wireVars
  <1>9. StageInv'
    BY <1>1, <1>2, <1>3, <1>4, StageStays DEF wireVars, phoneVars
  <1> QED BY <1>8, <1>9

LEMMA AcceptsKeeps == ASSUME Inv, Accepts PROVE Inv'
  <1> USE DEF Inv
  <1> DEFINE tx == reg[Phone].tx
             n == [reg[Phone] EXCEPT !.state = "accepted", !.old = FALSE]
             ms == <<"accepted">>
  <1>1. /\ reg[Phone].state = "pending" /\ D!Accept(Phone) /\ down' = Queued(tx, ms)
        /\ UNCHANGED <<phoneVars, on, hellos, troubles, resumed>>
    BY DEF Accepts, Say
  <1>2. /\ reg' = [reg EXCEPT ![Phone].state = "accepted", ![Phone].old = FALSE]
        /\ granted' = granted \union {Phone} /\ cmd' = [at |-> "upsert", id |-> Phone, revoke |-> FALSE]
        /\ UNCHANGED <<sock, store, revokeEpoch>>
    BY <1>1 DEF D!Accept, D!Start
  <1>3. n \in D!Session /\ n.tx = tx /\ n.state = "accepted" /\ n.epoch = reg[Phone].epoch
    BY DeskFacts DEF D!Session, D!States
  <1>4. reg' = [reg EXCEPT ![Phone] = n]
    BY <1>2 DEF DeskInv, DeskTypes
  <1>5. ms \in Seq(P!Messages) /\ EndsOnce(ms) /\ GoesOn(ms)
    BY Words
  <1> HIDE DEF n, ms
  <1>6. reg' \in [Ids -> D!Session] /\ reg'[Phone] = n /\ \A id \in Ids : id # Phone => reg'[id] = reg[id]
    BY <1>3, <1>4, DeskFacts, Entry DEF DeskInv, DeskTypes
  <1>7. DeskTypes'
    BY <1>2, <1>6, DeskFacts DEF DeskInv, DeskTypes, D!Command, Ids
  <1>8. \A id \in Others : reg'[id].tx = NoSocket
    BY <1>6, DeskFacts, LinkAssumption DEF DeskInv, TasksInv
  <1>9. DeskInv'
    BY <1>2, <1>3, <1>6, <1>7, <1>8, EntriesChange DEF DeskInv
  <1>10. PageInv' /\ DeskInv' /\ WireInv' /\ WordInv' /\ LastInv'
    BY <1>1, <1>2, <1>3, <1>5, <1>6, <1>9, DeskFacts, DeskSays
  <1>11. StageInv'
    <2>1. CASE tx = on /\ on # NoSocket
      <3>1. down'[on] = down[on] \o <<"accepted">>
        BY <1>1, <2>1, DeskFacts DEF Queued, ms
      <3>2. /\ sock[on].at \in Attached /\ sock' = sock /\ on' = on /\ page' = page
            /\ hellos' = hellos /\ resumed' = resumed
        BY <1>1, <1>2, <2>1 DEF DeskInv, OwnerInv, phoneVars
      <3>3. on \notin hellos
        BY <2>1, <3>2, DeskFacts DEF Attached
      <3>4. /\ <<>> \o <<"accepted">> = <<"accepted">>
            /\ <<"ackWait">> \o <<"accepted">> = <<"ackWait", "accepted">>
        BY TwoWords DEF P!Messages
      <3>5. ASSUME AtAck PROVE AtAck'
        BY <1>1, <1>3, <1>6, <3>1, <3>2, <3>4, <3>5 DEF AtAck
      <3>6. ASSUME AtLoop PROVE AtLoop'
        BY <1>1, <1>3, <1>6, <3>1, <3>2, <3>4, <3>6 DEF AtLoop, Asked, Told
      <3> QED BY <2>1, <3>2, <3>3, <3>5, <3>6 DEF StageInv, Attached
    <2>2. CASE on # NoSocket /\ tx # on
      <3>1. down'[on] = down[on]
        BY <1>1, <2>2, DeskFacts DEF Queued
      <3> QED BY <1>1, <1>2, <1>3, <1>6, <2>2, <3>1, StageStays DEF phoneVars
    <2>3. CASE on = NoSocket
      BY <1>1, <2>3 DEF StageInv
    <2> QED BY <2>1, <2>2, <2>3
  <1> QED BY <1>10, <1>11

(* Reject, and the end of the session in phone_forget and                  *)
(* phone_remove_session: the channel is told once and taken away.          *)
LEMMA EndKeeps ==
    ASSUME Inv, NEW id \in Ids, NEW n \in D!Session, n.tx = NoSocket,
           n.state \in {"none", "expired"},
           reg' = [reg EXCEPT ![id] = n], sock' = D!EndQueued(reg[id].tx),
           NEW m \in P!Messages, ~Tells(m), Say(reg[id].tx, m),
           cmd' \in D!Command, cmd'.at # "upsert", UNCHANGED <<store, revokeEpoch, granted>>,
           troubles' \in 0..MaxTroubles, UNCHANGED <<phoneVars, on, hellos, resumed>>
    PROVE  Inv'
  <1> USE DEF Inv
  <1> DEFINE tx == reg[id].tx
             ms == <<m>>
  <1>1. /\ ms \in Seq(P!Messages) /\ EndsOnce(ms) /\ Neutral(ms) /\ down' = Queued(tx, ms)
    BY Words DEF Say
  <1> HIDE DEF ms
  <1>2. reg' \in [Ids -> D!Session] /\ reg'[id] = n /\ \A i \in Ids : i # id => reg'[i] = reg[i]
    BY Entry DEF DeskInv, DeskTypes
  <1>3. /\ sock' \in [Sockets -> D!Task]
        /\ \A t \in Sockets : /\ sock'[t].at = sock[t].at /\ sock'[t].id = sock[t].id
                              /\ sock'[t].epoch = sock[t].epoch
    BY Ended DEF DeskInv, DeskTypes
  <1>4. DeskTypes'
    BY <1>2, <1>3 DEF DeskInv, DeskTypes
  <1>5. \A i \in Others : reg'[i].tx = NoSocket
    BY <1>2, DeskFacts DEF DeskInv, TasksInv
  <1>6. reg'[Phone].tx # NoSocket => id # Phone /\ reg'[Phone] = reg[Phone]
    BY <1>2, DeskFacts
  <1>7. DeskInv'
    <2>1. D!Active(Phone)' => D!Active(Phone)
      BY <1>2, DeskFacts DEF D!Active
    <2> QED BY <1>3, <1>4, <1>5, <1>6, <2>1, EntriesChange DEF DeskInv, OwnerInv
  <1>8. id # Phone => tx = NoSocket
    BY DEF DeskInv, TasksInv, Ids
  <1>9. PageInv' /\ DeskInv' /\ WireInv' /\ WordInv' /\ LastInv'
    <2>1. tx = on /\ on \in Sockets => GoesOn(down[on])
      BY <1>8, DeskFacts, LinkAssumption
    <2>2. \A t \in hellos' : sock'[t].at = "off"
      BY <1>3, DeskFacts
    <2>3. \A t \in resumed' : sock'[t].at \in {"hook", "ack"}
      BY <1>3, DeskFacts
    <2>4. \/ reg'[Phone].tx = NoSocket
          \/ reg'[Phone].tx = reg[Phone].tx /\ tx = NoSocket
      BY <1>6, <1>8
    <2>5. CASE reg'[Phone].tx = NoSocket
      BY <1>1, <1>7, <2>1, <2>2, <2>3, <2>5, DeskFacts, DeskSays
    <2>6. CASE reg'[Phone].tx # NoSocket
      <3>1. reg'[Phone].tx = reg[Phone].tx /\ tx = NoSocket /\ down' = down
        BY <1>1, <2>4, <2>6, LinkAssumption DEF Queued, WireInv, WireTypes
      <3> QED BY <1>7, <2>2, <2>3, <3>1, DeskFacts, DeskIsSilent
    <2> QED BY <2>5, <2>6
  <1>10. StageInv'
    <2>1. CASE on = NoSocket
      BY <2>1 DEF StageInv
    <2>2. CASE on # NoSocket /\ tx # on
      <3>1. down'[on] = down[on]
        BY <1>1, <2>2, DeskFacts DEF Queued
      <3>2. reg'[Phone].tx = on => reg'[Phone] = reg[Phone]
        BY <1>6, <2>2
      <3> QED BY <1>3, <2>2, <3>1, <3>2, StageStays DEF phoneVars
    <2>3. CASE on # NoSocket /\ tx = on
      <3>1. id = Phone /\ reg'[Phone].tx # on
        BY <1>2, <1>8, <2>3
      <3>2. sock[on].at \in Attached /\ sock'[on].at = sock[on].at
        BY <1>3, <2>3, <3>1, DeskFacts DEF DeskInv, OwnerInv
      <3>3. on \notin hellos
        BY <3>2, DeskFacts DEF Attached
      <3> QED BY <3>1, <3>2, <3>3 DEF StageInv, Attached
    <2> QED BY <2>1, <2>2, <2>3
  <1> QED BY <1>9, <1>10

LEMMA RejectsKeeps == ASSUME Inv, Rejects PROVE Inv'
  <1> DEFINE n == [reg[Phone] EXCEPT !.state = "expired", !.tx = NoSocket, !.old = FALSE, !.late = FALSE]
  <1>1. /\ reg' = [reg EXCEPT ![Phone] = n] /\ sock' = D!EndQueued(reg[Phone].tx)
        /\ Say(reg[Phone].tx, "rejected") /\ cmd' = cmd /\ cmd.at = "idle"
        /\ UNCHANGED <<store, revokeEpoch, granted>> /\ UNCHANGED <<phoneVars, on, hellos, resumed>>
    BY DEF Rejects, D!Reject, D!history
  <1>2. n \in D!Session /\ n.tx = NoSocket /\ n.state = "expired"
    BY DeskFacts DEF D!Session, D!States
  <1>3. troubles' \in 0..MaxTroubles
    BY DeskFacts, LinkAssumption DEF Rejects, Trouble
  <1>4. cmd' \in D!Command /\ cmd'.at # "upsert"
    BY <1>1, DeskFacts DEF DeskTypes
  <1> HIDE DEF n
  <1> QED BY <1>1, <1>2, <1>3, <1>4, DeskFacts, Words, EndKeeps

LEMMA RemovesKeeps == ASSUME Inv, Removes PROVE Inv'
  <1> DEFINE m == IF cmd.revoke THEN "removed" ELSE "fatal"
  <1>1. /\ reg' = [reg EXCEPT ![cmd.id] = D!Absent] /\ sock' = D!EndQueued(reg[cmd.id].tx)
        /\ Say(reg[cmd.id].tx, m) /\ cmd' = [cmd EXCEPT !.at = "dropInput"]
        /\ UNCHANGED <<store, revokeEpoch, granted>> /\ UNCHANGED <<phoneVars, on, hellos, resumed, troubles>>
    BY DEF Removes, D!RemoveSession, D!SessionRemoved, D!Proceed, D!history
  <1>2. cmd.id \in Ids /\ cmd' \in D!Command /\ cmd'.at # "upsert"
    BY <1>1, DeskFacts DEF DeskTypes, D!Command, Ids
  <1>3. m \in P!Messages /\ ~Tells(m)
    BY Words
  <1> HIDE DEF m
  <1> QED BY <1>1, <1>2, <1>3, DeskFacts, Records, EndKeeps

(* The other steps of commands touch neither the session nor its socket.   *)
LEMMA StoreChanges ==
    ASSUME Inv, UNCHANGED <<reg, sock, granted>>, revokeEpoch' \in Nat,
           store' \subseteq Ids, Phone \in store' => Phone \in granted,
           cmd' \in D!Command, cmd'.at # "upsert",
           troubles' \in 0..MaxTroubles, UNCHANGED <<phoneVars, on, hellos, resumed, down>>
    PROVE  Inv'
  <1> USE DEF Inv
  <1>1. DeskInv'
    BY DEF DeskInv, DeskTypes, OwnerInv, TasksInv, GrantInv, D!Active
  <1>2. PageInv' /\ DeskInv' /\ WireInv' /\ WordInv' /\ LastInv'
    BY <1>1, DeskFacts, DeskIsSilent
  <1>3. StageInv'
    BY StageStays DEF phoneVars
  <1> QED BY <1>2, <1>3

LEMMA CommandsKeep ==
    ASSUME Inv, (\E id \in Ids : Forgets(id)) \/ Disconnects \/ CommandGoesOn
    PROVE  Inv'
  <1>1. /\ store \subseteq Ids /\ revokeEpoch \in Nat /\ cmd \in D!Command
        /\ Phone \in store => Phone \in granted
        /\ cmd.at = "upsert" => cmd.id = Phone /\ Phone \in granted
    BY DEF Inv, DeskInv, DeskTypes, GrantInv
  <1>2. ASSUME NEW id \in Ids, Forgets(id) PROVE Inv'
    <2>1. /\ UNCHANGED <<reg, sock, granted>> /\ store' = store \ {id}
          /\ revokeEpoch' = IF id \in store THEN revokeEpoch + 1 ELSE revokeEpoch
          /\ UNCHANGED <<phoneVars, on, hellos, resumed, down>>
      BY <1>2 DEF Forgets, D!Forget, D!EpochAfter, D!history
    <2>2. cmd' \in D!Command /\ cmd'.at # "upsert"
      BY <1>2 DEF Forgets, D!Forget, D!Start, D!Command, Ids
    <2>3. troubles' \in 0..MaxTroubles
      BY <1>2, DeskFacts, LinkAssumption DEF Forgets, Trouble
    <2> QED BY <1>1, <2>1, <2>2, <2>3, StoreChanges
  <1>3. CASE Disconnects
    <2>1. /\ UNCHANGED <<reg, sock, granted, store, revokeEpoch>>
          /\ UNCHANGED <<phoneVars, on, hellos, resumed, down>>
      BY <1>3 DEF Disconnects, D!Disconnect, D!history
    <2>2. cmd' \in D!Command /\ cmd'.at # "upsert"
      BY <1>3, Records DEF Disconnects, D!Disconnect, D!Start, D!Command, Ids
    <2>3. troubles' \in 0..MaxTroubles
      BY <1>3, DeskFacts, LinkAssumption DEF Disconnects, Trouble
    <2> QED BY <1>1, <2>1, <2>2, <2>3, StoreChanges
  <1>4. CASE Removes
    BY <1>4, RemovesKeeps
  <1>5. CASE Finishes /\ UNCHANGED <<phoneVars, wireVars>>
    <2>1. /\ UNCHANGED <<reg, sock, granted, revokeEpoch>>
          /\ UNCHANGED <<phoneVars, on, hellos, resumed, down, troubles>>
      BY <1>5 DEF Finishes, D!AcceptUpsert, D!AcceptAddInput, D!DropInput, D!history, wireVars
    <2>2. cmd' \in D!Command /\ cmd'.at # "upsert"
      BY <1>1, <1>5, Records DEF Finishes, D!AcceptUpsert, D!AcceptAddInput, D!DropInput, D!Proceed, D!Command, D!Idle
    <2>3. store' \subseteq Ids /\ (Phone \in store' => Phone \in granted)
      BY <1>1, <1>5, DeskFacts DEF Finishes, D!AcceptUpsert, D!AcceptAddInput, D!DropInput
    <2> QED BY <1>1, <2>1, <2>2, <2>3, DeskFacts, StoreChanges
  <1> QED BY <1>2, <1>3, <1>4, <1>5 DEF CommandGoesOn

-----------------------------------------------------------------------------
(* The whole *)

LEMMA InitIs == LinkInit => Inv
  <1> SUFFICES ASSUME LinkInit PROVE Inv
    OBVIOUS
  <1> USE DEF Inv
  <1> DEFINE c == [D!Absent EXCEPT !.state = "created"]
             r == IF Phone \notin store THEN c ELSE D!Absent
  <1>1. /\ P!ClientInit /\ store \subseteq Ids /\ granted = store
        /\ reg = [id \in Ids |-> IF id = Phone THEN r ELSE D!Absent]
        /\ sock = [s \in Sockets |-> D!Off] /\ revokeEpoch = 0 /\ cmd = D!Idle
        /\ saved = (IF Phone \in store THEN Phone ELSE NoPairing) /\ page.creds = Phone
        /\ on = NoSocket /\ hellos = {} /\ resumed = {} /\ troubles = 0
        /\ down = [s \in Sockets |-> <<>>]
    BY DEF LinkInit, Ids
  <1>2. c \in D!Session /\ c.tx = NoSocket /\ c.state = "created"
    BY Records DEF D!Session, D!States
  <1>3. r \in D!Session /\ r.tx = NoSocket /\ r.state \in {"created", "none"}
    BY <1>2, Records
  <1> HIDE DEF c, r
  <1>4. DeskInv
    <2>1. reg \in [Ids -> D!Session] /\ \A id \in Ids : reg[id].tx = NoSocket /\ reg[id].state \in {"created", "none"}
      BY <1>1, <1>3, Records
    <2>2. sock \in [Sockets -> D!Task] /\ \A s \in Sockets : sock[s].at = "off"
      BY <1>1, Records
    <2>3. cmd \in D!Command /\ cmd.at = "idle"
      BY <1>1, Records DEF D!Idle
    <2>4. DeskTypes
      BY <1>1, <2>1, <2>2, <2>3 DEF DeskTypes
    <2>5. OwnerInv /\ TasksInv
      BY <2>1, <2>2, Records DEF OwnerInv, TasksInv, Ids
    <2>6. GrantInv
      BY <1>1, <2>1, <2>2, <2>3, Records DEF GrantInv, D!Active
    <2> QED BY <2>4, <2>5, <2>6 DEF DeskInv
  <1>5. PageInv /\ link.ws # "open" /\ page.state \in {"ended", "connecting"}
    <2>1. PICK hash \in {Phone, NoPairing} : page = P!Loaded(hash, saved, 0)
      BY <1>1 DEF P!ClientInit
    <2> DEFINE b == hash = NoPairing /\ saved # NoPairing
               st == IF (IF hash = NoPairing THEN saved ELSE hash) = NoPairing THEN "ended" ELSE "connecting"
    <2>2. /\ page = [creds |-> IF hash = NoPairing THEN saved ELSE hash, persisted |-> b,
                     loads |-> 0, state |-> st]
          /\ link = P!LinkOf(page) /\ b \in BOOLEAN /\ st \in {"ended", "connecting"}
      BY <1>1, <2>1 DEF P!Loaded, P!Persisted, P!ClientInit
    <2> HIDE DEF b, st
    <2>3. 0 \in 0..MaxLoads
      BY LinkAssumption
    <2> QED BY <1>1, <2>2, <2>3 DEF PageInv, P!LinkOf, P!States
  <1>6. WireInv
    <2>1. 0 \in 0..MaxTroubles
      BY LinkAssumption
    <2> QED BY <1>1, <1>5, <2>1 DEF WireInv, WireTypes
  <1>7. WordInv
    BY <1>1, <1>5, Words, LinkAssumption DEF WordInv, AcceptedOnBothSides
  <1>8. LastInv /\ StageInv
    BY <1>1, Words DEF LastInv, StageInv
  <1> QED BY <1>4, <1>5, <1>6, <1>7, <1>8

LEMMA StillKeeps == Inv /\ UNCHANGED linkVars => Inv'
  <1> SUFFICES ASSUME Inv, UNCHANGED linkVars PROVE Inv'
    OBVIOUS
  <1> USE DEF Inv
  <1>1. DeskInv' BY DeskStill DEF linkVars
  <1>2. PageInv' /\ DeskInv' /\ WireInv' /\ WordInv' /\ LastInv'
    BY <1>1, DeskFacts, DeskIsSilent DEF linkVars, deskVars, wireVars
  <1>3. StageInv'
    BY StageStays DEF linkVars, phoneVars, deskVars, wireVars
  <1> QED BY <1>2, <1>3

LEMMA InvStep == Inv /\ [LinkNext]_linkVars => Inv'
  <1> SUFFICES ASSUME Inv, LinkNext PROVE Inv'
    BY StillKeeps
  <1>1. CASE PhoneNext
    BY <1>1, OpensKeeps, PhoneWaitsKeeps, PhoneLeavesKeeps, ReceivesKeeps DEF PhoneNext
  <1>2. CASE DesktopNext
    BY <1>2, HelloKeeps, TrustedKeeps, AcksKeeps, ServesKeeps, EndsKeeps, GracePassesKeeps, AcceptsKeeps,
       RejectsKeeps, CommandsKeep DEF DesktopNext, Ids
  <1> QED BY <1>1, <1>2 DEF LinkNext

LEMMA InvHolds == LinkSpec => []Inv
  BY InitIs, InvStep, PTL DEF LinkSpec

(* The socket of the page is the one the desktop's messages travel on: on  *)
(* is set exactly while the signaling client holds an open socket          *)
(* (signaling.ts:53), and what travels is what the page understands.       *)
THEOREM LinkTypeCorrect == LinkSpec => []LinkTypeOK
  <1>1. Inv => LinkTypeOK
    BY DEF Inv, WireInv, WireTypes, LinkTypeOK
  <1> QED BY <1>1, InvHolds, PTL

(* A pairing in the phone's local storage (main-phone.ts:171), and a page  *)
(* that offers its microphone, mean that the user has accepted that phone  *)
(* on the desktop, however often either was interrupted on the way.        *)
THEOREM AcceptanceIsMutual == LinkSpec => []AcceptedOnBothSides
  <1>1. Inv => AcceptedOnBothSides
    BY DEF Inv, WordInv
  <1> QED BY <1>1, InvHolds, PTL

(* When all that was sent on the phone's socket has arrived, the page      *)
(* waits for the user exactly if its session is pending (session.rs), and  *)
(* offers its microphone exactly if it is accepted: the acknowledgement    *)
(* and the acceptance are neither lost nor overtaken.                      *)
THEOREM SidesStayTogether == LinkSpec => []SidesAgree
  <1>1. Inv => SidesAgree
    <2> SUFFICES ASSUME Inv, Settled, reg[Phone].tx = on
                 PROVE  /\ page.state = "waiting-accept" <=> reg[Phone].state = "pending"
                        /\ page.state = "negotiating" <=> reg[Phone].state = "accepted"
      BY DEF SidesAgree
    <2>1. AtLoop /\ down[on] = <<>>
      BY DEF Settled, Inv, StageInv
    <2> QED BY <2>1 DEF AtLoop, Asked, Told
  <1> QED BY <1>1, InvHolds, PTL

(* The two programs are those of PhoneSession and PhoneClient: each step   *)
(* here is one of theirs, or leaves them alone, so that what the           *)
(* composition adds is only the order of the messages between them.        *)
THEOREM BothFollowTheirPrograms ==
    LinkSpec => [][D!Next]_deskVars /\ [][P!ClientNext]_phoneVars
  <1>1. ASSUME LinkNext PROVE D!Next \/ UNCHANGED deskVars
    <2> USE DEF D!Next
    <2>1. CASE PhoneNext
      BY <2>1 DEF PhoneNext, Opens, Reconnects, SeesEnd, Loses, NoAnswer, Reloads, Receives, Leaves
    <2>2. ASSUME NEW s \in Sockets, Hello(s) \/ HelloVanishes(s) PROVE D!Next \/ UNCHANGED deskVars
      BY <2>2 DEF Hello, HelloVanishes, D!Hello
    <2>3. ASSUME NEW s \in Sockets, Trusted(s) \/ Acks(s) \/ Serves(s) \/ DesktopSeesEnd(s) \/ LinkBreaks(s)
          PROVE  D!Next
      BY <2>3 DEF Trusted, Acks, Serves, DesktopSeesEnd, LinkBreaks, D!Resume, D!Serve
    <2>4. CASE GracePasses
      BY <2>4 DEF GracePasses
    <2>5. CASE Accepts \/ Rejects \/ Disconnects \/ \E id \in {Phone} \union Others : Forgets(id)
      BY <2>5 DEF Accepts, Rejects, Disconnects, Forgets, D!CommandBegins
    <2>6. CASE CommandGoesOn
      BY <2>6 DEF CommandGoesOn, Removes, Finishes, D!CommandGoesOn
    <2> QED BY <1>1, <2>1, <2>2, <2>3, <2>4, <2>5, <2>6 DEF LinkNext, DesktopNext
  <1>2. ASSUME Inv, LinkNext PROVE P!ClientNext \/ UNCHANGED phoneVars
    <2>1. CASE DesktopNext
      BY <2>1 DEF DesktopNext, Hello, HelloVanishes, Trusted, Acks, Serves, DesktopSeesEnd, LinkBreaks,
         GracePasses, Accepts, Rejects, Disconnects, Forgets, CommandGoesOn, Removes
    <2>2. CASE \/ \E s \in Sockets : Opens(s)
               \/ Reconnects \/ SeesEnd \/ Loses \/ NoAnswer
      BY <2>2 DEF Opens, Reconnects, SeesEnd, Loses, NoAnswer, P!ClientNext, P!SocketStep
    <2>3. CASE Reloads
      BY <2>3 DEF Reloads, P!ClientNext
    <2>4. CASE Receives
      <3>1. Head(down[on]) \in P!Messages
        <4>1. down[on] \in Seq(P!Messages) /\ down[on] # <<>>
          BY <1>2, <2>4, DeskFacts DEF Receives, Inv, WireInv, WireTypes
        <4> QED BY <4>1
      <3> QED BY <2>4, <3>1 DEF Receives, P!ClientNext
    <2> QED BY <1>2, <2>1, <2>2, <2>3, <2>4 DEF LinkNext, PhoneNext
  <1>3. [LinkNext]_linkVars => [D!Next]_deskVars
    BY <1>1 DEF linkVars
  <1>4. Inv /\ [LinkNext]_linkVars => [P!ClientNext]_phoneVars
    BY <1>2 DEF linkVars
  <1> QED BY <1>3, <1>4, InvHolds, PTL DEF LinkSpec
=============================================================================
