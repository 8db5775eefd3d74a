---------------------------- MODULE MCPhoneClient ----------------------------
(* PhoneClient with two pairings and up to three microphones. *)
EXTENDS PhoneClient

=============================================================================
