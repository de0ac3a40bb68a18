------------------------------ MODULE MCEngine ------------------------------
(* Engine for TLC: a plain prompt and a slash command.            *)
EXTENDS Engine

CONSTANTS hello, command

=============================================================================
