---------------------------- MODULE SingleFlight ----------------------------
(***************************************************************************)
(* What effect/runner.ts promises its callers: a runner does one thing at  *)
(* a time, those who ask for a run while there is one share it, the        *)
(* outcome of a run is decided once and after the run is over, and only    *)
(* work that a cancel took is reported as cancelled.  Of the runner's      *)
(* state, of fibers, locks and finishers it knows nothing.                 *)
(***************************************************************************)

CONSTANTS Callers, Runners, Tasks, NoTask, NoRunner

VARIABLES
  owner,     \* the runner a task was given to
  life,      \* how far a task is
  outcome,   \* of a run: open, or how it was decided; shells have none
  waits      \* the run each caller waits for

flightVars == <<owner, life, outcome, waits>>

\* stopping: a cancel has taken it and it is cleaning up.  stopped: it was told to stop
\* and has.  dropped: a cancel has taken it before it began.
Lives   == {"none", "queued", "working", "stopping", "dropped", "over", "stopped"}
Decided == {"success", "failure", "cancelled"}

FlightInit ==
  /\ owner = [i \in Tasks |-> NoRunner]
  /\ life = [i \in Tasks |-> "none"]
  /\ outcome = [i \in Tasks |-> "none"]
  /\ waits = [c \in Callers |-> NoTask]

\* What a runner has to do, apart from what a cancel took.
Of(r)     == {i \in Tasks : owner[i] = r /\ life[i] \in {"queued", "working"}}
IsRun(i)  == outcome[i] # "none"
Become(i, l) == life' = [life EXCEPT ![i] = l]

Give(r, i, l, o) ==
  /\ life[i] = "none" /\ Become(i, l)
  /\ owner' = [owner EXCEPT ![i] = r]
  /\ outcome' = [outcome EXCEPT ![i] = o]
Wait(c, i) == waits[c] = NoTask /\ waits' = [waits EXCEPT ![c] = i]

Start(c, r, i) == Of(r) = {} /\ Give(r, i, "working", "open") /\ Wait(c, i)
Fork(r, i)     == Of(r) = {} /\ Give(r, i, "working", "none") /\ UNCHANGED waits

\* A run asked for while a shell executes waits for it; one at a time.
Queue(c, r, i) ==
  /\ \A j \in Of(r) : ~ IsRun(j)
  /\ Give(r, i, "queued", "open")
  /\ Wait(c, i)

\* Nobody joins a run that a cancel has taken, or that is decided.
Join(c, i) ==
  /\ outcome[i] = "open" /\ life[i] \in {"queued", "working", "over"}
  /\ Wait(c, i)
  /\ UNCHANGED <<owner, life, outcome>>

Begin(i) ==
  /\ life[i] = "queued"
  /\ \A j \in Of(owner[i]) : j = i
  /\ Become(i, "working")
  /\ UNCHANGED <<owner, outcome, waits>>

\* A cancel takes all that its runner has to do.
Take(r) ==
  /\ life' = [i \in Tasks |-> IF i \notin Of(r) THEN life[i]
                              ELSE IF life[i] = "working" THEN "stopping" ELSE "dropped"]
  /\ UNCHANGED <<owner, outcome, waits>>

End(i) ==
  /\ \/ life[i] \in {"working", "stopping"} /\ Become(i, "over")
     \/ life[i] = "stopping" /\ Become(i, "stopped")
  /\ UNCHANGED <<owner, outcome, waits>>

Decide(i, e) ==
  /\ outcome[i] = "open"
  /\ \/ life[i] = "over" /\ e \in {"success", "failure"}
     \/ life[i] = "stopped" /\ e \in {"cancelled", "failure"}
  /\ outcome' = [outcome EXCEPT ![i] = e]
  /\ UNCHANGED <<owner, life, waits>>

Drop(i) ==
  /\ life[i] = "dropped" /\ Become(i, "over")
  /\ outcome' = [outcome EXCEPT ![i] = "cancelled"]
  /\ UNCHANGED <<owner, waits>>

Answer(c) ==
  /\ waits[c] # NoTask /\ outcome[waits[c]] \in Decided
  /\ waits' = [waits EXCEPT ![c] = NoTask]
  /\ UNCHANGED <<owner, life, outcome>>

FlightNext ==
  \/ \E c \in Callers : Answer(c)
  \/ \E r \in Runners : Take(r)
  \/ \E i \in Tasks : \/ Begin(i) \/ End(i) \/ Drop(i)
                      \/ \E e \in Decided : Decide(i, e)
                      \/ \E r \in Runners : Fork(r, i)
                      \/ \E c \in Callers : \/ Join(c, i)
                                            \/ \E r \in Runners : Start(c, r, i) \/ Queue(c, r, i)

FlightSpec == FlightInit /\ [][FlightNext]_flightVars
=============================================================================
