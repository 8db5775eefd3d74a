---------------------------- MODULE MCPairedStore ----------------------------
(* Two devices; a clock of two instants, so that a device seen at one has  *)
(* expired at the next and a clock set back is a step too.                 *)
EXTENDS PairedStore

=============================================================================
