-------------------------- MODULE MCTerminalFanout --------------------------
(* Small instances of TerminalFanout for TLC. *)
EXTENDS TerminalFanout

CONSTANT v1
=============================================================================
