------------------------------ MODULE EventLog ------------------------------
(***************************************************************************)
(* What SyncEvent promises (sync/README.md: "a basic event sourcing system *)
(* for session replayability", "total ordering with a simple sequence id", *)
(* "multiple other devices" that "replay them locally"): one log of        *)
(* numbered events without gaps or repetitions; rows that are the          *)
(* projection of the log; and a copy elsewhere that has applied exactly    *)
(* the first so many events of it.  Once the session is removed, the log   *)
(* starts again, and nothing is promised of the copy.                      *)
(***************************************************************************)
EXTENDS Naturals, Projection

VARIABLES
  log,       \* the events: [seq, data]
  next,      \* the number of the next event
  view,      \* the rows of the device that writes
  copied,    \* how many events the copy has applied
  copyView,  \* the rows of the copy
  closed     \* the session was removed

logVars == <<log, next, view, copied, copyView, closed>>

LogInit ==
  /\ log = {} /\ next = 0 /\ view = NoRows
  /\ copied = 0 /\ copyView = NoRows
  /\ closed = FALSE

Publish(data) ==
  /\ Accepts(view, data)
  /\ log' = log \cup {[seq |-> next, data |-> data]}
  /\ next' = next + 1
  /\ view' = Apply(view, data)
  /\ UNCHANGED <<copied, copyView, closed>>

Forget ==
  /\ log' = {} /\ next' = 0 /\ closed' = TRUE
  /\ UNCHANGED <<view, copied, copyView>>

Copy ==
  /\ ~closed
  /\ \E entry \in log :
       /\ entry.seq = copied
       /\ Accepts(copyView, entry.data)
       /\ copyView' = Apply(copyView, entry.data)
  /\ copied' = copied + 1
  /\ UNCHANGED <<log, next, view, closed>>

Drift ==
  /\ closed
  /\ copied' \in Nat
  /\ copyView' \in Views
  /\ UNCHANGED <<log, next, view, closed>>

LogNext == (\E data \in Data : Publish(data)) \/ Forget \/ Copy \/ Drift

LogSpec == LogInit /\ [][LogNext]_logVars

-----------------------------------------------------------------------------
\* The numbers of the log are 0 to next - 1, each given once.
Gapless ==
  /\ \A entry \in log : entry.seq \in 0 .. next - 1
  /\ \A n \in 0 .. next - 1 : \E entry \in log : entry.seq = n
  /\ \A e, f \in log : e.seq = f.seq => e = f
=============================================================================
