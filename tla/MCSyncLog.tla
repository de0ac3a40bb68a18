----------------------------- MODULE MCSyncLog -----------------------------
(* Instances of SyncLog for TLC. *)
EXTENDS SyncLog, TLC

CONSTANTS w1, w2, r1, r2, v1, v2

MCWriters == {w1, w2}
MCReplayers == {r1, r2}
MCValues == {v1, v2}
Symmetry == Permutations(MCWriters) \cup Permutations(MCReplayers) \cup Permutations(MCValues)
=============================================================================
