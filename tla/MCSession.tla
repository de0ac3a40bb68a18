----------------------------- MODULE MCSession -----------------------------
(* SessionState for TLC.  In the run for a violation callers and runner    *)
(* objects are interchangeable; in the passing run, which checks liveness, *)
(* each caller has a role and nothing is taken for symmetric.              *)
EXTENDS SessionState, TLC

CONSTANTS waiter, canceller, client

AnyUse == [c \in Callers |-> Ops]

Roles == [c \in Callers |->
            CASE c = waiter    -> {"ensureRunning", "startShell"}
              [] c = canceller -> {"cancel"}
              [] OTHER         -> Ops]

Symmetry == Permutations(Callers) \cup Permutations(Runners)
=============================================================================
