---------------------------- MODULE CableHelper ----------------------------
(***************************************************************************)
(* The query of the virtual cable's helper program (src-tauri/src/amvc.rs, *)
(* capture_helper_status): the helper writes its status into a pipe, a     *)
(* thread drains the pipe up to a limit, and the query polls for the exit  *)
(* of the helper until a timeout, then kills it.                           *)
(***************************************************************************)
EXTENDS Naturals

CONSTANTS Outputs,     \* the lengths of the output the helper may have
          PipeSize, Limit, Timeout

ASSUME HelperAssumption == /\ Outputs \subseteq Nat
                           /\ {PipeSize, Limit, Timeout} \subseteq Nat \ {0}

VARIABLES helper,      \* the process: state, what it wants to write, has written
          pipe,        \* written and not read yet
          reader,      \* the draining thread: how much it has, whether it ended
          query        \* the command: at, clock, answer

helperVars == <<helper, pipe, reader, query>>

CableHelperTypeOK ==
    /\ helper \in [state : {"none", "runs", "success", "failure", "killed"},
                   left : Nat, wrote : Nat]
    /\ pipe \in 0..PipeSize
    /\ reader \in [got : 0..(Limit + 1), at : {"reads", "ended"}]
    /\ query \in [at : {"idle", "polls", "joins", "answered"}, clock : 0..Timeout,
                  answer : {"none", "status", "unavailable", "timeout"}]

NewQuery == [at |-> "idle", clock |-> 0, answer |-> "none"]
CableHelperInit == /\ helper = [state |-> "none", left |-> 0, wrote |-> 0]
                   /\ pipe = 0
                   /\ reader = [got |-> 0, at |-> "ended"]
                   /\ query = NewQuery

HelperRuns == helper.state = "runs"
Answer(a) == query' = [query EXCEPT !.at = "answered", !.answer = a]

(* The helper is absent or cannot be launched, or it starts with some      *)
(* output to write.                                                        *)
NoHelper == query.at = "idle" /\ Answer("unavailable") /\ UNCHANGED <<helper, pipe, reader>>
Launch(n) == /\ query.at = "idle"
             /\ helper' = [state |-> "runs", left |-> n, wrote |-> 0]
             /\ pipe' = 0
             /\ reader' = [got |-> 0, at |-> "reads"]
             /\ query' = [query EXCEPT !.at = "polls"]

(* The helper blocks while the pipe is full, breaks when nobody reads it,  *)
(* and exits when it has written everything, or fails before.              *)
Write == /\ HelperRuns /\ helper.left > 0 /\ reader.at = "reads" /\ pipe < PipeSize
         /\ helper' = [helper EXCEPT !.left = @ - 1, !.wrote = @ + 1]
         /\ pipe' = pipe + 1
         /\ UNCHANGED <<reader, query>>
Exit == /\ HelperRuns /\ helper.left = 0
        /\ helper' = [helper EXCEPT !.state = "success"]
        /\ UNCHANGED <<pipe, reader, query>>
Break == /\ HelperRuns
         /\ helper' = [helper EXCEPT !.state = "failure"]
         /\ UNCHANGED <<pipe, reader, query>>

(* Definitions ending in _Bug are mutants.                                 *)
(* The thread reads at most one byte more than the limit: enough to know   *)
(* that the output is too long.                                            *)
ReadLimit == Limit + 1
Drain_Bug == /\ reader.at = "reads" /\ pipe > 0
             /\ pipe' = pipe - 1
             /\ reader' = [reader EXCEPT !.got = @ + 1]
             /\ UNCHANGED <<helper, query>>
Drain == /\ reader.at = "reads" /\ pipe > 0 /\ reader.got < ReadLimit
         /\ pipe' = pipe - 1
         /\ reader' = [reader EXCEPT !.got = @ + 1]
         /\ UNCHANGED <<helper, query>>
DrainEnds == /\ reader.at = "reads"
             /\ reader.got = ReadLimit \/ (pipe = 0 /\ ~HelperRuns)
             /\ reader' = [reader EXCEPT !.at = "ended"]
             /\ pipe' = 0
             /\ UNCHANGED <<helper, query>>

Tick == /\ query.at = "polls" /\ query.clock < Timeout
        /\ query' = [query EXCEPT !.clock = @ + 1]
        /\ UNCHANGED <<helper, pipe, reader>>
SeeExit == /\ query.at = "polls" /\ ~HelperRuns
           /\ IF helper.state = "success" THEN query' = [query EXCEPT !.at = "joins"]
              ELSE Answer("unavailable")
           /\ UNCHANGED <<helper, pipe, reader>>
PollFails == query.at = "polls" /\ Answer("unavailable") /\ UNCHANGED <<helper, pipe, reader>>
GiveUp == /\ query.at = "polls" /\ HelperRuns /\ query.clock = Timeout
          /\ helper' = [helper EXCEPT !.state = "killed"]
          /\ Answer("timeout")
          /\ UNCHANGED <<pipe, reader>>
JoinReader == /\ query.at = "joins" /\ reader.at = "ended"
              /\ IF reader.got <= Limit THEN Answer("status") ELSE Answer("unavailable")
              /\ UNCHANGED <<helper, pipe, reader>>

CableHelperNext == \/ NoHelper \/ \E n \in Outputs : Launch(n)
                   \/ Write \/ Exit \/ Break \/ Drain \/ DrainEnds
                   \/ Tick \/ SeeExit \/ PollFails \/ GiveUp \/ JoinReader

(***************************************************************************)
(* A status the query returns is the whole output of a helper that         *)
(* succeeded, and is within the limit (amvc.rs:147); after a timeout the   *)
(* helper does not run on (amvc.rs:128).                                   *)
(***************************************************************************)
StatusIsWhole ==
    /\ query.answer = "status" => /\ helper.state = "success" /\ helper.left = 0
                                  /\ reader.got = helper.wrote /\ helper.wrote <= Limit
    /\ query.answer = "timeout" => ~HelperRuns
=============================================================================
