------------------------------- MODULE MCLock -------------------------------
(* Lock for TLC: four callers, as many records.                            *)
EXTENDS Lock

CONSTANTS c1, c2, c3, c4, o1, o2, o3, o4

=============================================================================
