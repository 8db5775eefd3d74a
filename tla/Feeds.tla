------------------------------- MODULE Feeds -------------------------------
(***************************************************************************)
(* Shared loopback captures (audio/loopback.rs): the buses that listen to  *)
(* one source at one rate share a capture thread.  The first subscriber    *)
(* creates it without holding the manager's lock, the last one stops it,   *)
(* and one that fails is replaced by the next subscriber.  This is one key *)
(* of the manager's map; the keys do not touch each other.                 *)
(*                                                                         *)
(* A critical section of the map's lock is one step; joining a thread is a *)
(* step of its own, as the code lets go of the lock before it joins.       *)
(* Engines start under the lock of the application state today; the code   *)
(* is written for subscribers that run at the same time, and so is this.   *)
(***************************************************************************)
EXTENDS FiniteSets

CONSTANTS Buses,      \* the engines that may listen
          Captures    \* capture threads that may exist at a time

CONSTANT NoCapture
ASSUME FeedsAssumption == NoCapture \notin Captures

VARIABLES entry,      \* the ManagedCapture under the key, or NoCapture
          cap,        \* the capture threads
          bus         \* what each bus is doing, and its capture

feedsVars == <<entry, cap, bus>>

(* A thread that is "left" has left its loop but not yet looked at stop;   *)
(* a "refused" one has ended because its client could not be set up.       *)
Threads  == {"none", "setup", "loop", "left", "ended", "refused"}
Capture  == [thread : Threads, stop : BOOLEAN, failed : BOOLEAN, subs : SUBSET Buses]

(* "create": about to spawn; "wait": for the result of the set-up; the     *)
(* joins: of an evicted, a retired, a displaced or a last-left capture;    *)
(* "in": subscribe has returned and the Subscription is alive.             *)
Joins    == {"evict", "retire", "displace", "last"}
BusState == [pc : {"out", "create", "wait", "in"} \union Joins,
             cap : Captures \union {NoCapture},    \* where its producer is
             joins : Captures \union {NoCapture}]  \* whose thread it joins

FeedsTypeOK == /\ entry \in Captures \union {NoCapture}
               /\ cap \in [Captures -> Capture]
               /\ bus \in [Buses -> BusState]

NoThread == [thread |-> "none", stop |-> FALSE, failed |-> FALSE, subs |-> {}]
Outside  == [pc |-> "out", cap |-> NoCapture, joins |-> NoCapture]

FeedsInit == /\ entry = NoCapture
             /\ cap = [c \in Captures |-> NoThread]
             /\ bus = [b \in Buses |-> Outside]

Listed == entry # NoCapture
Alive  == Listed /\ ~cap[entry].failed

(* A record nobody refers to any more: every Arc of it is gone. *)
Unreferenced(c) == /\ c # entry
                   /\ cap[c].thread \in {"none", "ended"}
                   /\ \A b \in Buses : c \notin {bus[b].cap, bus[b].joins}

-----------------------------------------------------------------------------
(* subscribe.  Definitions ending in _Bug are mutants. *)

Attach(b) == /\ bus[b].pc = "out"
             /\ Alive
             /\ cap' = [cap EXCEPT ![entry].subs = @ \union {b}]
             /\ bus' = [bus EXCEPT ![b] = [Outside EXCEPT !.pc = "in", !.cap = entry]]
             /\ UNCHANGED entry

(* Those still attached to an evicted capture are fed no more. *)
Evict(b) == /\ bus[b].pc = "out"
            /\ Listed /\ ~Alive
            /\ entry' = NoCapture
            /\ bus' = [bus EXCEPT ![b] = [Outside EXCEPT !.pc = "evict", !.joins = entry]]
            /\ UNCHANGED cap

Miss(b) == /\ bus[b].pc = "out"
           /\ ~Listed
           /\ bus' = [bus EXCEPT ![b].pc = "create"]
           /\ UNCHANGED <<entry, cap>>

Spawn(b) == /\ bus[b].pc = "create"
            /\ \E c \in Captures : Unreferenced(c)
            /\ LET c == CHOOSE d \in Captures : Unreferenced(d) IN
                  /\ cap' = [cap EXCEPT ![c] = [NoThread EXCEPT !.thread = "setup", !.subs = {b}]]
                  /\ bus' = [bus EXCEPT ![b] = [Outside EXCEPT !.pc = "wait", !.cap = c]]
            /\ UNCHANGED entry

SetUp(b) == bus[b].pc = "wait" /\ cap[bus[b].cap].thread \in {"loop", "left", "ended"}

SomeoneWasFirst_Bug == FALSE                 \* the map is not looked at again
SomeoneWasFirst     == Alive

Retired_Bug(c) == [cap[c] EXCEPT !.subs = {}]
Retired(c)     == [cap[c] EXCEPT !.subs = {}, !.stop = TRUE]

(* A concurrent subscriber was first: attach to its capture, retire ours. *)
Retire(b) == LET own == bus[b].cap IN
    /\ SetUp(b)
    /\ SomeoneWasFirst
    /\ cap' = [cap EXCEPT ![own] = Retired(own), ![entry].subs = @ \union {b}]
    /\ bus' = [bus EXCEPT ![b] = [pc |-> "retire", cap |-> entry, joins |-> own]]
    /\ UNCHANGED entry
Publish(b) == /\ SetUp(b)
              /\ ~SomeoneWasFirst
              /\ entry' = bus[b].cap
              /\ bus' = [bus EXCEPT ![b] = IF Listed THEN [@ EXCEPT !.pc = "displace", !.joins = entry]
                                                     ELSE [@ EXCEPT !.pc = "in"]]
              /\ UNCHANGED cap
Refused(b) == LET own == bus[b].cap IN
    /\ bus[b].pc = "wait"
    /\ cap[own].thread = "refused"
    /\ cap' = [cap EXCEPT ![own] = NoThread]
    /\ bus' = [bus EXCEPT ![b] = Outside]
    /\ UNCHANGED entry

(* JoinHandle::join; after an eviction subscribe goes on to create. *)
AfterJoin == [evict |-> "create", retire |-> "in", displace |-> "in", last |-> "out"]

Join(b) == /\ bus[b].pc \in Joins
           /\ cap[bus[b].joins].thread = "ended"
           /\ bus' = [bus EXCEPT ![b].pc = AfterJoin[@], ![b].joins = NoCapture]
           /\ UNCHANGED <<entry, cap>>

Emptied(left)     == left = {}

(* unsubscribe, by key: it looks at the capture that is listed now, also   *)
(* when the bus was attached to one that has been evicted.                 *)
Unsubscribe(b) ==
    /\ bus[b].pc = "in"
    /\ IF Listed
       THEN LET left == cap[entry].subs \ {b} IN
            /\ cap' = [cap EXCEPT ![entry].subs = left, ![entry].stop = @ \/ Emptied(left)]
            /\ entry' = IF Emptied(left) THEN NoCapture ELSE entry
            /\ bus' = [bus EXCEPT ![b] = IF Emptied(left) THEN [Outside EXCEPT !.pc = "last", !.joins = entry]
                                                      ELSE Outside]
       ELSE /\ bus' = [bus EXCEPT ![b] = Outside]
            /\ UNCHANGED <<entry, cap>>
-----------------------------------------------------------------------------
(* The capture thread: setup_capture, run_capture_loop and its end *)

Become(c, from, to) == /\ cap[c].thread = from
                       /\ cap' = [cap EXCEPT ![c].thread = to]
                       /\ UNCHANGED <<entry, bus>>

SetupOk(c)    == Become(c, "setup", "loop")
SetupFails(c) == Become(c, "setup", "refused")
SeeStop(c)    == cap[c].stop /\ Become(c, "loop", "left")
ReadFails(c)  == Become(c, "loop", "left")

Finish(c) == /\ cap[c].thread = "left"
             /\ cap' = [cap EXCEPT ![c].thread = "ended", ![c].failed = ~cap[c].stop]
             /\ UNCHANGED <<entry, bus>>

CaptureStep(c) == SetupOk(c) \/ SetupFails(c) \/ SeeStop(c) \/ ReadFails(c) \/ Finish(c)
BusStep(b)     == Attach(b) \/ Evict(b) \/ Miss(b) \/ Spawn(b) \/ Retire(b) \/ Publish(b)
                  \/ Refused(b) \/ Join(b) \/ Unsubscribe(b)

FeedsNext == \/ \E b \in Buses : BusStep(b)
             \/ \E c \in Captures : CaptureStep(c)

(* A thread that may run does: the loop wakes every 20 ms to look at stop, *)
(* and a join returns once the thread has ended.                           *)
FeedsFairness == /\ \A c \in Captures : WF_feedsVars(SeeStop(c)) /\ WF_feedsVars(Finish(c))
                 /\ \A b \in Buses : WF_feedsVars(Join(b))
FeedsSpec     == FeedsInit /\ [][FeedsNext]_feedsVars

-----------------------------------------------------------------------------
(* A capture thread past its set-up is the one under the key, the one its  *)
(* creator is about to publish or retire, or told to stop, or about to end *)
(* by itself: no subscriber's race leaves a thread that records for nobody *)
(* and that nothing can stop any more (loopback.rs:201).                   *)
NoCaptureIsLeaked ==
    \A c \in Captures : cap[c].thread = "loop" =>
        c = entry \/ cap[c].stop \/ \E b \in Buses : bus[b].pc = "wait" /\ bus[b].cap = c

(* A bus whose subscription stands is fed by the listed capture, unless    *)
(* its own capture broke: moving a subscriber between captures or the      *)
(* leaving of another one never cuts it off (loopback.rs:209 and 250).     *)
EveryoneHears ==
    \A b \in Buses : bus[b].pc \in {"in", "retire", "displace"} =>
        /\ b \in cap[bus[b].cap].subs
        /\ \/ bus[b].cap = entry /\ ~cap[entry].stop
           \/ cap[bus[b].cap].failed

FeedsAreSafe == NoCaptureIsLeaked /\ EveryoneHears

(* Whoever joins a capture thread gets away from it: a retired or emptied  *)
(* capture was told to stop, an evicted or displaced one has failed and is *)
(* about to end (loopback.rs:143, 219, 233 and 266).                       *)
JoinsReturn == \A b \in Buses : bus[b].pc \in Joins ~> bus[b].pc \notin Joins
=============================================================================
