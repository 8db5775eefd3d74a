----------------------------- MODULE MCConsole -----------------------------
(* Console on two fader positions, with one preset.                        *)
EXTENDS Console

MCPresets == {[vol |-> 1, muted |-> TRUE, on |-> FALSE, gain |-> Absent, send |-> FALSE]}
=============================================================================
