----------------------------- MODULE MCEditing -----------------------------
(* Instances of Editing for TLC. *)
EXTENDS Editing, TLC

CONSTANTS c1, c2, c3, s1, s2, u1

MCCalls == {c1, c2, c3}
MCSessionOf == [c \in MCCalls |-> IF c = c3 THEN s2 ELSE s1]
\* The other session has one call, which nothing of its own comes before: what counts is
\* what it writes unasked.
MCToolsOf == [c \in MCCalls |-> IF c = c3 THEN {"create", "update", "add"} ELSE Kinds]
Symmetry == Permutations({c1, c2})
=============================================================================
