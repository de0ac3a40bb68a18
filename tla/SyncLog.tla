------------------------------ MODULE SyncLog ------------------------------
(***************************************************************************)
(* sync/index.ts and storage/db.ts for one session (an aggregate), with    *)
(* EPOCHCLI_EXPERIMENTAL_WORKSPACES set: without it no log is kept.        *)
(*                                                                         *)
(* Several processes write one SQLite file; each runs events in immediate  *)
(* transactions and announces them after the commit.  On another device    *)
(* processes replay announced events, in any order, some twice and some    *)
(* never, into a file of their own.  A transaction's writes are seen by    *)
(* others at its commit, so they are one step; that the number of an event *)
(* is read before it, under the transaction's lock, is another.            *)
(***************************************************************************)
EXTENDS Integers, FiniteSets, Projection

CONSTANTS Writers,    \* the processes of the device that may write
          Replayers,  \* the processes of the device that copies
          Nobody,
          MaxRuns     \* bound: events run

ASSUME WritersAssumption == Nobody \notin Writers
ASSUME BoundAssumption == MaxRuns \in Nat

VARIABLES
  db,        \* the writers' file
  copy,      \* the replayers' file
  lock,      \* the writer in a transaction
  work,      \* what each writer is doing
  replaying, \* the event each replayer found to be the next
  announced, \* the events emitted after their commit
  runs,      \* how many events were run; also the ids, which ascend
  forgotten  \* the session's log was removed

vars == <<db, copy, lock, work, replaying, announced, runs, forgotten>>

Seqs == 0 .. MaxRuns
Event == [id : 1 .. MaxRuns, seq : Seqs, data : Data]
NoEvent == [id |-> 0]

\* seq is the row of event_sequence, -1 if there is none.
File == [view : Views, seq : -1 .. MaxRuns, events : SUBSET Event]
Empty == [view |-> NoRows, seq |-> -1, events |-> {}]

Work == [at : {"idle", "tx", "emit", "found", "erase"}, event : Event \cup {NoEvent}]
Idle == [at |-> "idle", event |-> NoEvent]

Deleting(w) == w.event # NoEvent /\ w.event.data.kind = "deleted"

Init ==
  /\ db = Empty
  /\ copy = Empty
  /\ lock = Nobody
  /\ work = [w \in Writers |-> Idle]
  /\ replaying = [r \in Replayers |-> NoEvent]
  /\ announced = {}
  /\ runs = 0
  /\ forgotten = FALSE

-----------------------------------------------------------------------------
(* run *)

\* A session is created once; the other events are run by whoever has its id.
Legal(w, data) ==
  CASE data.kind = "created" -> runs = 0 /\ work[w].at = "idle"
    [] data.kind = "deleted" -> work[w].at = "found"
    [] OTHER -> runs > 0 /\ work[w].at = "idle"

\* Variant: the transaction is deferred: the number is read without the lock.
Begin_Deferred(w, data) ==
  /\ Legal(w, data)
  /\ runs < MaxRuns
  /\ runs' = runs + 1
  /\ work' = [work EXCEPT ![w] =
                [at |-> "tx", event |-> [id |-> runs + 1, seq |-> db.seq + 1, data |-> data]]]
  /\ UNCHANGED <<db, copy, lock, replaying, announced, forgotten>>

\* The immediate transaction begins; the event takes the number after the last.
Begin(w, data) ==
  /\ Legal(w, data)
  /\ lock = Nobody
  /\ runs < MaxRuns
  /\ lock' = w
  /\ runs' = runs + 1
  /\ work' = [work EXCEPT ![w] =
                [at |-> "tx", event |-> [id |-> runs + 1, seq |-> db.seq + 1, data |-> data]]]
  /\ UNCHANGED <<db, copy, replaying, announced, forgotten>>

\* process(): the projector, the sequence row and the event in one transaction.
Logged(file, event) ==
  [view |-> Apply(file.view, event.data), seq |-> event.seq, events |-> file.events \cup {event}]

\* Variant: the id is not a key.
Admits_Twice(file, event) == Accepts(file.view, event.data)

\* The projector does not throw and the event's id, a primary key, is new.
Admits(file, event) ==
  Accepts(file.view, event.data) /\ \A e \in file.events : e.id # event.id

Commit(w) ==
  /\ work[w].at = "tx"
  /\ Admits(db, work[w].event)
  /\ db' = Logged(db, work[w].event)
  /\ work' = [work EXCEPT ![w].at = "emit"]
  /\ lock' = Nobody
  /\ UNCHANGED <<copy, replaying, announced, runs, forgotten>>

\* Variant: the effects are run also when the transaction fails.
Rollback_Emits(w) ==
  /\ work[w].at = "tx"
  /\ ~Admits(db, work[w].event)
  /\ work' = [work EXCEPT ![w].at = "emit"]
  /\ lock' = Nobody
  /\ UNCHANGED <<db, copy, replaying, announced, runs, forgotten>>

\* The projector throws; nothing is written and the effects are not run.
Rollback(w) ==
  /\ work[w].at = "tx"
  /\ ~Admits(db, work[w].event)
  /\ work' = [work EXCEPT ![w] = Idle]
  /\ lock' = Nobody
  /\ UNCHANGED <<db, copy, replaying, announced, runs, forgotten>>

\* The effects of the transaction, after its commit.
Emit(w) ==
  /\ work[w].at = "emit"
  /\ announced' = announced \cup {work[w].event}
  /\ work' = [work EXCEPT ![w] =
                IF Deleting(work[w]) THEN [Idle EXCEPT !.at = "erase"] ELSE Idle]
  /\ UNCHANGED <<db, copy, lock, replaying, runs, forgotten>>

-----------------------------------------------------------------------------
(* Session.remove: look the session up, run "deleted", forget the log *)

Find(w) ==
  /\ work[w].at = "idle"
  /\ db.view.session # None
  /\ work' = [work EXCEPT ![w].at = "found"]
  /\ UNCHANGED <<db, copy, lock, replaying, announced, runs, forgotten>>

Erase(w) ==
  /\ work[w].at = "erase"
  /\ lock = Nobody
  /\ db' = [db EXCEPT !.seq = -1, !.events = {}]
  /\ work' = [work EXCEPT ![w] = Idle]
  /\ forgotten' = TRUE
  /\ UNCHANGED <<copy, lock, replaying, announced, runs>>

\* Variant: the transaction of a process that died stays open.
Crash_KeepsLock(w) ==
  /\ work[w].at # "idle"
  /\ work' = [work EXCEPT ![w] = Idle]
  /\ UNCHANGED <<db, copy, lock, replaying, announced, runs, forgotten>>

\* A process dies: an open transaction is rolled back, effects not yet run are lost.
Crash(w) ==
  /\ work[w].at # "idle"
  /\ work' = [work EXCEPT ![w] = Idle]
  /\ lock' = IF lock = w THEN Nobody ELSE lock
  /\ UNCHANGED <<db, copy, replaying, announced, runs, forgotten>>

-----------------------------------------------------------------------------
(* replay, on the other device *)

\* Variant: events that follow a gap are taken too.
Receive_Gaps(r, event) ==
  /\ replaying[r] = NoEvent
  /\ event.seq > copy.seq
  /\ replaying' = [replaying EXCEPT ![r] = event]
  /\ UNCHANGED <<db, copy, lock, work, announced, runs, forgotten>>

\* An event that is already there is ignored, one that is not the next is refused.
\* The last number is read outside the transaction that applies the event.
Receive(r, event) ==
  /\ replaying[r] = NoEvent
  /\ event.seq = copy.seq + 1
  /\ replaying' = [replaying EXCEPT ![r] = event]
  /\ UNCHANGED <<db, copy, lock, work, announced, runs, forgotten>>

Replay(r) ==
  /\ replaying[r] # NoEvent
  /\ copy' = IF Admits(copy, replaying[r]) THEN Logged(copy, replaying[r]) ELSE copy
  /\ replaying' = [replaying EXCEPT ![r] = NoEvent]
  /\ UNCHANGED <<db, lock, work, announced, runs, forgotten>>

-----------------------------------------------------------------------------
Run(w) == \E data \in Data : Begin(w, data)

Next ==
  \/ \E w \in Writers :
       Run(w) \/ Commit(w) \/ Rollback(w) \/ Emit(w) \/ Find(w) \/ Erase(w) \/ Crash(w)
  \/ \E r \in Replayers : (\E event \in announced : Receive(r, event)) \/ Replay(r)

Spec == Init /\ [][Next]_vars

-----------------------------------------------------------------------------
(* Properties *)

SyncTypeOK ==
  /\ db \in File
  /\ copy \in File
  /\ lock \in Writers \cup {Nobody}
  /\ work \in [Writers -> Work]
  /\ replaying \in [Replayers -> Event \cup {NoEvent}]
  /\ announced \in SUBSET Event
  /\ runs \in 0 .. MaxRuns
  /\ forgotten \in BOOLEAN
  /\ \A w \in Writers : lock = w <=> work[w].at = "tx"

\* The log, the rows and the copy are an event log, its projection and a prefix of it
\* (see EventLog): however many processes run and replay, and whenever they crash.
Entries(events) == {[seq |-> e.seq, data |-> e.data] : e \in events}

Log == INSTANCE EventLog
         WITH log <- Entries(db.events), next <- db.seq + 1, view <- db.view,
              copied <- copy.seq + 1, copyView <- copy.view, closed <- forgotten

ImplementsLog == Log!LogSpec

\* The numbers in the file are gapless and given once, in both incarnations of a log.
LogGapless == Log!Gapless

\* What was announced, to the bus and to those who record it, was committed
\* (nothing that was rolled back is announced), and no two events got one number.
OnlyCommittedAnnounced == ~forgotten => announced \subseteq db.events

\* The copy holds the events the writers' file has up to its own last number.
CopyIsPrefix == ~forgotten => copy.events = {e \in db.events : e.seq <= copy.seq}

\* The event of a file with a number, and the rows after each of its first events.
EventAt(file, n) == CHOOSE e \in file.events : e.seq = n

RowsOf(file) ==
  LET rows[n \in 0 .. file.seq + 1] ==
        IF n = 0 THEN NoRows ELSE Apply(rows[n - 1], EventAt(file, n - 1).data)
  IN  rows

Projected(file) == RowsOf(file)[file.seq + 1]

\* Rebuilding the rows from the log gives the rows ("session replayability"), in the
\* writers' file and in the copy, as long as the log stands.
RowsAreProjection == ~forgotten => db.view = Projected(db) /\ copy.view = Projected(copy)
=============================================================================
