------------------------------ MODULE MCRouter ------------------------------
EXTENDS Router, TLC

CONSTANTS mic, app, phone, speaker

(* One saved preset: the microphone on A1. *)
SavedPresets == {[sends   |-> (mic :> {"A1"}),
                  enabled |-> ("A1" :> TRUE),
                  output  |-> ("A1" :> speaker)]}

=============================================================================
