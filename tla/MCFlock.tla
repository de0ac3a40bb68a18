------------------------------ MODULE MCFlock ------------------------------
(* Instances of Flock for TLC. *)
EXTENDS Flock

CONSTANTS p1, p2, p3

MCProcs == {p1, p2, p3}
OneLate == {p3}
=============================================================================
