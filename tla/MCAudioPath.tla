---------------------------- MODULE MCAudioPath ----------------------------
(* The parts of the audio path side by side, from a phone's microphone to  *)
(* the engine: a behaviour exercises one of them, and leaves the others in *)
(* their initial state.                                                    *)
EXTENDS PhoneClient, PhoneAudio, Feeds, InputRing, LiveDsp, EngineStart

MCStages  == <<"hpf", "comp">>
MCGroups  == <<"g">>
MCSent    == {[on |-> {}, members |-> [g \in {"g"} |-> {}], order |-> <<>>],
              [on |-> {"hpf", "g"}, members |-> [g \in {"g"} |-> {"s1"}], order |-> <<"comp", "comp">>]}
MCWindow  == [fastest |-> 1, balanced |-> 2]
MCRateOf  == [a |-> "48000"]
MCSpecs   == {<<>>, <<"device">>, <<"loopback", "phone">>, <<"phone", "device", "loopback">>,
              <<"device", "device", "device", "device">>}

VARIABLE part

vars == <<part, clientVars, liveVars, feedsVars, phoneAudioVars, ringVars, startVars>>

Parts == {"page", "dsp", "feeds", "phone", "ring", "engine"}

Init == /\ part \in Parts
        /\ ClientInit /\ LiveInit /\ FeedsInit /\ PhoneAudioInit /\ InputRingInit /\ EngineStartInit
        /\ part = "page" \/ (saved = NoPairing /\ page.creds = NoPairing)
        /\ part = "dsp" \/ config[0].on = {}

Alone(p) == /\ part = p
            /\ UNCHANGED part
            /\ p # "page" => UNCHANGED clientVars
            /\ p # "dsp" => UNCHANGED liveVars
            /\ p # "feeds" => UNCHANGED feedsVars
            /\ p # "phone" => UNCHANGED phoneAudioVars
            /\ p # "ring" => UNCHANGED ringVars
            /\ p # "engine" => UNCHANGED startVars

Next == \/ Alone("page") /\ ClientNext
        \/ Alone("dsp") /\ LiveNext
        \/ Alone("feeds") /\ FeedsNext
        \/ Alone("phone") /\ PhoneAudioNext
        \/ Alone("ring") /\ InputRingNext
        \/ Alone("engine") /\ EngineStartNext

Fairness == /\ WF_vars(Alone("dsp") /\ Publisher)
            /\ WF_vars(Alone("dsp") /\ Reload)
            /\ WF_vars(Alone("dsp") /\ GenBecomesVisible)
            /\ FeedsFairness
            /\ EngineStartFairness

Spec == Init /\ [][Next]_vars /\ Fairness

TypesOK == /\ ClientTypeOK /\ PhoneAudioTypeOK /\ FeedsTypeOK
           /\ InputRingTypeOK /\ LiveTypeOK /\ EngineStartTypeOK

(* What a phone's page shows of its microphones and its link is so         *)
(* (main-phone.ts:265, 352, signaling.ts:55).                              *)
PageIsHonest == LiveIsHeard /\ OpenMicsAreHeld /\ LinkFollowsMachine

(* The threads that produce and play the samples, as they start, fail and  *)
(* end (loopback.rs:201, mixer.rs:806).                                    *)
SourcesAreSafe == FeedsAreSafe /\ EngineIsSafe

(* PublishedIsApplied, in the behaviours that exercise the live effects    *)
(* (live.rs:559): the callback of the others does not run.                 *)
PublishedIsHeard == part = "dsp" => PublishedIsApplied

(* Nobody waits for ever for another thread: joins of capture threads      *)
(* (loopback.rs:143), starts and drops of engines (mixer.rs:1263, 318).    *)
ThreadsReturn == JoinsReturn /\ StartAndDropReturn

(* Whatever is published, joined, started or dropped comes to its end.     *)
NothingHangs == PublishedIsHeard /\ ThreadsReturn
=============================================================================
