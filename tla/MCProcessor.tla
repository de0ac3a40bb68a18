---------------------------- MODULE MCProcessor ----------------------------
(* Processor for TLC, in units of delay in which the third attempt meets   *)
(* both caps and a server may ask for no delay or for more than is allowed. *)
EXTENDS Processor

AskedFor == {0, MaxDelay + 1}
=============================================================================
