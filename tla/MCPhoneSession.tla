--------------------------- MODULE MCPhoneSession ---------------------------
(* One phone that may have two web sockets open: its old connection and    *)
(* the one it resumes with.                                                *)
EXTENDS PhoneSession

=============================================================================
