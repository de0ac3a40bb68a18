------------------------------ MODULE MCRunner ------------------------------
(* Runner for TLC's run for stranded waiters: one caller that waits for    *)
(* runs, one that cancels, and one that may use the runner meanwhile.      *)
EXTENDS Runner

CONSTANTS waiter, canceller, starter

Roles == [c \in Callers |->
            CASE c = waiter    -> {"ensureRunning"}
              [] c = canceller -> {"cancel"}
              [] OTHER         -> {"ensureRunning", "startShell"}]
=============================================================================
