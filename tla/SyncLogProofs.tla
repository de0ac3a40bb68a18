--------------------------- MODULE SyncLogProofs ---------------------------
(***************************************************************************)
(* Proofs about SyncLog for any number of writers, replayers, values and   *)
(* events: the invariants of its runs, and that it implements EventLog.    *)
(* The projectors enter only by the fact that they map views to views.     *)
(***************************************************************************)
EXTENDS SyncLog, WellFoundedInduction, TLAPS

-----------------------------------------------------------------------------
(* The inductive invariant *)

\* Numbers of the log are given once, and the sequence row bounds them.
Numbered ==
  /\ db.seq < runs
  /\ \A e \in db.events : e.seq <= db.seq
  /\ \A e, f \in db.events : e.seq = f.seq => e = f

\* The event of an open transaction has the next number; one whose effects are
\* still to be run is in the log.
Pending ==
  \A w \in Writers :
    /\ work[w].at \in {"tx", "emit"} => work[w].event \in Event
    /\ work[w].at = "tx" => work[w].event.seq = db.seq + 1 /\ work[w].event.seq < runs
    /\ work[w].at = "emit" /\ ~forgotten => work[w].event \in db.events

\* What is being replayed was announced, and is not further than the next event.
Copying ==
  /\ \A r \in Replayers : replaying[r] # NoEvent =>
       /\ replaying[r] \in announced
       /\ ~forgotten => replaying[r].seq <= copy.seq + 1
  /\ ~forgotten => copy.seq <= db.seq

IInv ==
  /\ SyncTypeOK
  /\ Numbered
  /\ Pending
  /\ OnlyCommittedAnnounced
  /\ Copying
  /\ CopyIsPrefix

-----------------------------------------------------------------------------
(* Facts about the operators *)

\* The projectors map views to views: no event leaves a row that is no row.
LEMMA ApplyType == \A v \in Views, d \in Data : Apply(v, d) \in Views
<1> SUFFICES ASSUME NEW v \in Views, NEW d \in Data
             PROVE  Apply(v, d) \in Views
  OBVIOUS
<1>1. d.kind \in Written \cup Erased /\ d.value \in Values \cup {None}
  BY DEF Data
<1>2. CASE d.kind \in {"created", "updated"}
  BY <1>1, <1>2 DEF Apply, Views
<1>3. CASE d.kind = "deleted"
  BY <1>3 DEF Apply, Views, NoRows
<1>4. CASE d.kind = "message"
  BY <1>1, <1>4 DEF Apply, Views
<1>5. CASE d.kind = "messageRemoved"
  BY <1>5 DEF Apply, Views
<1>6. CASE d.kind = "part"
  BY <1>1, <1>6 DEF Apply, Views
<1>7. CASE d.kind = "partRemoved"
  BY <1>7 DEF Apply, Views
<1> QED
  BY <1>1, <1>2, <1>3, <1>4, <1>5, <1>6, <1>7 DEF Written, Erased

\* NoEvent is no event.
LEMMA NoEventIsNone == NoEvent \notin Event
  BY BoundAssumption DEF NoEvent, Event

\* Applying an event to a file gives a file whose last number is the event's.
LEMMA LoggedType ==
  ASSUME NEW file \in File, NEW event \in Event
  PROVE  /\ Logged(file, event) \in File
         /\ Logged(file, event).view = Apply(file.view, event.data)
         /\ Logged(file, event).seq = event.seq
         /\ Logged(file, event).events = file.events \cup {event}
<1>1. event.data \in Data /\ event.seq \in 0 .. MaxRuns
  BY DEF Event, Seqs
<1>2. file.view \in Views /\ file.events \in SUBSET Event
  BY DEF File
<1>3. Apply(file.view, event.data) \in Views
  BY <1>1, <1>2, ApplyType
<1>4. event.seq \in -1 .. MaxRuns
  BY <1>1, BoundAssumption
<1> QED
  BY <1>2, <1>3, <1>4 DEF Logged, File

-----------------------------------------------------------------------------
(* The invariant is inductive: one lemma for each action *)

\* The invariant holds at the start.
LEMMA InitInv == Init => IInv
<1> SUFFICES ASSUME Init PROVE IInv
  OBVIOUS
<1>1. Empty \in File
  BY BoundAssumption DEF Empty, File, Views, NoRows
<1>2. Idle \in Work
  BY DEF Idle, Work
<1>3. SyncTypeOK
  <2>1. Idle.at = "idle" /\ runs \in 0 .. MaxRuns
    BY BoundAssumption DEF Idle, Init
  <2>2. /\ \A w \in Writers : work[w] = Idle
        /\ lock \notin Writers
    BY WritersAssumption DEF Init
  <2>3. work \in [Writers -> Work] /\ replaying \in [Replayers -> Event \cup {NoEvent}]
    BY <1>2 DEF Init
  <2> QED
    BY <1>1, <2>1, <2>2, <2>3 DEF Init, SyncTypeOK
<1>4. Numbered /\ OnlyCommittedAnnounced /\ CopyIsPrefix
  BY DEF Init, Empty, Numbered, OnlyCommittedAnnounced, CopyIsPrefix
<1>5. Pending
  BY DEF Init, Idle, Pending
<1>6. Copying
  BY DEF Init, Empty, Copying
<1> QED
  BY <1>3, <1>4, <1>5, <1>6 DEF IInv

\* An event begins: nobody else is in a transaction, so its number is the next
\* and will be when it commits.
LEMMA BeginInv ==
  ASSUME IInv, NEW w \in Writers, NEW data \in Data, Begin(w, data)
  PROVE  IInv'
<1> USE DEF IInv
<1> PICK e : e = [id |-> runs + 1, seq |-> db.seq + 1, data |-> data]
  OBVIOUS
<1> PICK k : k = [at |-> "tx", event |-> e]
  OBVIOUS
<1>1. /\ lock = Nobody /\ runs < MaxRuns /\ lock' = w /\ runs' = runs + 1
      /\ work' = [work EXCEPT ![w] = k]
      /\ UNCHANGED <<db, copy, replaying, announced, forgotten>>
  BY DEF Begin
<1>2. /\ runs \in Nat /\ db.seq \in -1 .. MaxRuns /\ db.seq < runs
      /\ work \in [Writers -> Work]
  BY BoundAssumption DEF SyncTypeOK, Numbered, File
<1>3. e \in Event
  BY <1>1, <1>2, BoundAssumption DEF Event, Seqs
<1>4. k \in Work /\ k.at = "tx" /\ k.event = e /\ e.seq = db.seq + 1
  BY <1>3 DEF Work
<1>5. work'[w] = k /\ \A v \in Writers : v # w => work'[v] = work[v]
  BY <1>1, <1>2
<1>6. SyncTypeOK'
  <2>1. work' \in [Writers -> Work]
    BY <1>1, <1>2, <1>4
  <2>2. \A v \in Writers : lock' = v <=> work'[v].at = "tx"
    BY <1>1, <1>4, <1>5, WritersAssumption DEF SyncTypeOK
  <2> QED
    BY <1>1, <1>2, <2>1, <2>2, BoundAssumption DEF SyncTypeOK
<1>7. Numbered'
  BY <1>1, <1>2 DEF Numbered
<1>8. Pending'
  <2> SUFFICES ASSUME NEW v \in Writers
               PROVE  /\ work'[v].at \in {"tx", "emit"} => work'[v].event \in Event
                      /\ work'[v].at = "tx" =>
                           work'[v].event.seq = db'.seq + 1 /\ work'[v].event.seq < runs'
                      /\ work'[v].at = "emit" /\ ~forgotten' => work'[v].event \in db'.events
    BY DEF Pending
  <2>1. CASE v = w
    BY <2>1, <1>1, <1>2, <1>3, <1>4, <1>5
  <2>2. CASE v # w
    <3>1. work'[v] = work[v] /\ work[v].at # "tx"
      BY <2>2, <1>1, <1>5, WritersAssumption DEF SyncTypeOK
    <3> QED
      BY <3>1, <1>1 DEF Pending
  <2> QED
    BY <2>1, <2>2
<1>9. OnlyCommittedAnnounced' /\ Copying' /\ CopyIsPrefix'
  BY <1>1 DEF OnlyCommittedAnnounced, Copying, CopyIsPrefix
<1> QED
  BY <1>6, <1>7, <1>8, <1>9

\* An event is committed: it is in the log, with the next number.
LEMMA CommitInv ==
  ASSUME IInv, NEW w \in Writers, Commit(w)
  PROVE  IInv'
<1> USE DEF IInv
<1> PICK e : e = work[w].event
  OBVIOUS
<1>1. /\ work[w].at = "tx"
      /\ db' = Logged(db, e)
      /\ work' = [work EXCEPT ![w].at = "emit"]
      /\ lock' = Nobody
      /\ UNCHANGED <<copy, replaying, announced, runs, forgotten>>
  BY DEF Commit
<1>2. e \in Event /\ e.seq = db.seq + 1 /\ e.seq < runs /\ lock = w
  BY <1>1 DEF Pending, SyncTypeOK
<1>3. db \in File /\ db.seq \in Int /\ db.events \in SUBSET Event /\ work \in [Writers -> Work]
  BY DEF SyncTypeOK, File
<1>4. db' \in File /\ db'.seq = e.seq /\ db'.events = db.events \cup {e}
  BY <1>1, <1>2, <1>3, LoggedType
<1>5. work'[w].at = "emit" /\ work'[w].event = e /\ \A v \in Writers : v # w => work'[v] = work[v]
  BY <1>1, <1>3 DEF Work
<1>6. \A x \in db.events : x.seq \in Int /\ x.seq <= db.seq
  BY <1>3 DEF Numbered, Event, Seqs
<1>7. SyncTypeOK'
  <2>1. work' \in [Writers -> Work]
    BY <1>1, <1>3 DEF Work
  <2>2. \A v \in Writers : lock' = v <=> work'[v].at = "tx"
    BY <1>1, <1>2, <1>5, WritersAssumption DEF SyncTypeOK
  <2> QED
    BY <1>1, <1>4, <2>1, <2>2 DEF SyncTypeOK
<1>8. Numbered'
  BY <1>1, <1>2, <1>3, <1>4, <1>6 DEF Numbered
<1>9. Pending'
  <2> SUFFICES ASSUME NEW v \in Writers
               PROVE  /\ work'[v].at \in {"tx", "emit"} => work'[v].event \in Event
                      /\ work'[v].at = "tx" =>
                           work'[v].event.seq = db'.seq + 1 /\ work'[v].event.seq < runs'
                      /\ work'[v].at = "emit" /\ ~forgotten' => work'[v].event \in db'.events
    BY DEF Pending
  <2>1. CASE v = w
    BY <2>1, <1>2, <1>4, <1>5
  <2>2. CASE v # w
    <3>1. work'[v] = work[v] /\ work[v].at # "tx"
      BY <2>2, <1>2, <1>5 DEF SyncTypeOK
    <3> QED
      BY <3>1, <1>1, <1>4 DEF Pending
  <2> QED
    BY <2>1, <2>2
<1>10. OnlyCommittedAnnounced'
  BY <1>1, <1>4 DEF OnlyCommittedAnnounced
<1>11. copy.seq \in Int
  BY DEF SyncTypeOK, File
<1>12. Copying'
  BY <1>1, <1>2, <1>3, <1>4, <1>11 DEF Copying
<1>13. CopyIsPrefix'
  <2> SUFFICES ASSUME ~forgotten
               PROVE  copy.events = {x \in db'.events : x.seq <= copy.seq}
    BY <1>1 DEF CopyIsPrefix
  <2>1. copy.seq <= db.seq /\ copy.events = {x \in db.events : x.seq <= copy.seq}
    BY DEF Copying, CopyIsPrefix
  <2>2. ~ e.seq <= copy.seq
    BY <2>1, <1>2, <1>3, <1>11
  <2> QED
    BY <2>1, <2>2, <1>4
<1> QED
  BY <1>7, <1>8, <1>9, <1>10, <1>12, <1>13

\* A writer leaves a transaction without a trace: its projector threw, or it died.
LEMMA LeaveInv ==
  ASSUME IInv, NEW w \in Writers, work' = [work EXCEPT ![w] = Idle],
         lock' = IF lock = w THEN Nobody ELSE lock,
         UNCHANGED <<db, copy, replaying, announced, runs, forgotten>>
  PROVE  IInv'
<1> USE DEF IInv
<1>1. work \in [Writers -> Work] /\ Idle \in Work /\ Idle.at = "idle"
  BY DEF SyncTypeOK, Idle, Work
<1>2. work'[w] = Idle /\ \A v \in Writers : v # w => work'[v] = work[v]
  BY <1>1
<1>3. SyncTypeOK'
  <2>1. work' \in [Writers -> Work]
    BY <1>1
  <2>2. \A v \in Writers : lock' = v <=> work'[v].at = "tx"
    BY <1>1, <1>2, WritersAssumption DEF SyncTypeOK
  <2> QED
    BY <2>1, <2>2 DEF SyncTypeOK
<1>4. Pending'
  BY <1>1, <1>2 DEF Pending
<1> QED
  BY <1>3, <1>4 DEF Numbered, OnlyCommittedAnnounced, Copying, CopyIsPrefix

\* What is announced is in the log.
LEMMA EmitInv ==
  ASSUME IInv, NEW w \in Writers, Emit(w)
  PROVE  IInv'
<1> USE DEF IInv
<1> PICK e : e = work[w].event
  OBVIOUS
<1> PICK k : k = IF Deleting(work[w]) THEN [Idle EXCEPT !.at = "erase"] ELSE Idle
  OBVIOUS
<1>1. /\ work[w].at = "emit"
      /\ announced' = announced \cup {e}
      /\ work' = [work EXCEPT ![w] = k]
      /\ UNCHANGED <<db, copy, lock, replaying, runs, forgotten>>
  BY DEF Emit
<1>2. e \in Event /\ (~forgotten => e \in db.events) /\ lock # w
  BY <1>1 DEF Pending, SyncTypeOK
<1>3. k \in Work /\ k.at \in {"erase", "idle"}
  BY DEF Idle, Work
<1>4. work \in [Writers -> Work]
  BY DEF SyncTypeOK
<1>5. work'[w] = k /\ \A v \in Writers : v # w => work'[v] = work[v]
  BY <1>1, <1>4
<1>6. SyncTypeOK'
  <2>1. work' \in [Writers -> Work]
    BY <1>1, <1>3, <1>4
  <2>2. \A v \in Writers : lock' = v <=> work'[v].at = "tx"
    BY <1>1, <1>2, <1>3, <1>5 DEF SyncTypeOK
  <2> QED
    BY <1>1, <1>2, <2>1, <2>2 DEF SyncTypeOK
<1>7. Pending'
  BY <1>1, <1>3, <1>5 DEF Pending
<1>8. OnlyCommittedAnnounced'
  BY <1>1, <1>2 DEF OnlyCommittedAnnounced
<1> QED
  BY <1>1, <1>6, <1>7, <1>8 DEF Numbered, Copying, CopyIsPrefix

\* Looking a session up changes nothing that is stored.
LEMMA FindInv ==
  ASSUME IInv, NEW w \in Writers, Find(w)
  PROVE  IInv'
<1> USE DEF IInv
<1>1. /\ work[w].at = "idle"
      /\ work' = [work EXCEPT ![w].at = "found"]
      /\ UNCHANGED <<db, copy, lock, replaying, announced, runs, forgotten>>
  BY DEF Find
<1>2. work \in [Writers -> Work] /\ lock # w
  BY <1>1 DEF SyncTypeOK
<1>3. work'[w].at = "found" /\ \A v \in Writers : v # w => work'[v] = work[v]
  BY <1>1, <1>2 DEF Work
<1>4. SyncTypeOK'
  <2>1. work' \in [Writers -> Work]
    BY <1>1, <1>2 DEF Work
  <2>2. \A v \in Writers : lock' = v <=> work'[v].at = "tx"
    BY <1>1, <1>2, <1>3 DEF SyncTypeOK
  <2> QED
    BY <1>1, <2>1, <2>2 DEF SyncTypeOK
<1>5. Pending'
  BY <1>1, <1>3 DEF Pending
<1> QED
  BY <1>1, <1>4, <1>5 DEF Numbered, OnlyCommittedAnnounced, Copying, CopyIsPrefix

\* The log is forgotten while nobody is in a transaction.
LEMMA EraseInv ==
  ASSUME IInv, NEW w \in Writers, Erase(w)
  PROVE  IInv'
<1> USE DEF IInv
<1>1. /\ lock = Nobody
      /\ db' = [db EXCEPT !.seq = -1, !.events = {}]
      /\ work' = [work EXCEPT ![w] = Idle]
      /\ forgotten' = TRUE
      /\ UNCHANGED <<copy, lock, replaying, announced, runs>>
  BY DEF Erase
<1>2. work \in [Writers -> Work] /\ Idle \in Work /\ Idle.at = "idle" /\ db \in File
  BY DEF SyncTypeOK, Idle, Work
<1>3. work'[w] = Idle /\ \A v \in Writers : v # w => work'[v] = work[v]
  BY <1>1, <1>2
<1>4. db' \in File /\ db'.seq = -1 /\ db'.events = {}
  <2>1. db' = [view |-> db.view, seq |-> -1, events |-> {}] /\ db.view \in Views
    BY <1>1, <1>2 DEF File
  <2>2. -1 \in -1 .. MaxRuns /\ {} \in SUBSET Event
    BY BoundAssumption
  <2> QED
    BY <2>1, <2>2 DEF File
<1>5. \A v \in Writers : work[v].at # "tx"
  BY <1>1, WritersAssumption DEF SyncTypeOK
<1>6. SyncTypeOK'
  <2>1. work' \in [Writers -> Work]
    BY <1>1, <1>2
  <2>2. \A v \in Writers : lock' = v <=> work'[v].at = "tx"
    BY <1>1, <1>2, <1>3, <1>5, WritersAssumption
  <2> QED
    BY <1>1, <1>4, <2>1, <2>2 DEF SyncTypeOK
<1>7. Numbered'
  BY <1>1, <1>4, BoundAssumption DEF Numbered, SyncTypeOK
<1>8. Pending'
  BY <1>1, <1>2, <1>3, <1>5 DEF Pending
<1> QED
  BY <1>1, <1>6, <1>7, <1>8 DEF OnlyCommittedAnnounced, Copying, CopyIsPrefix

\* An announced event is taken if its number is the next.
LEMMA ReceiveInv ==
  ASSUME IInv, NEW r \in Replayers, NEW e \in announced, Receive(r, e)
  PROVE  IInv'
<1> USE DEF IInv
<1>1. /\ e.seq = copy.seq + 1
      /\ replaying' = [replaying EXCEPT ![r] = e]
      /\ UNCHANGED <<db, copy, lock, work, announced, runs, forgotten>>
  BY DEF Receive
<1>2. e \in Event /\ replaying \in [Replayers -> Event \cup {NoEvent}]
  BY DEF SyncTypeOK
<1>3. replaying'[r] = e /\ \A s \in Replayers : s # r => replaying'[s] = replaying[s]
  BY <1>1, <1>2
<1>4. e.seq \in Int
  BY <1>2 DEF Event, Seqs
<1>5. SyncTypeOK'
  <2>1. replaying' \in [Replayers -> Event \cup {NoEvent}]
    BY <1>1, <1>2
  <2> QED
    BY <1>1, <2>1 DEF SyncTypeOK
<1>6. Copying'
  BY <1>1, <1>3, <1>4 DEF Copying
<1> QED
  BY <1>1, <1>5, <1>6 DEF Numbered, Pending, OnlyCommittedAnnounced, CopyIsPrefix

\* An event that is applied while the log stands is the next one of the log: had
\* another process applied it meanwhile, its id would be in the file.
LEMMA AdmittedIsNext ==
  ASSUME IInv, ~forgotten, NEW r \in Replayers, replaying[r] # NoEvent,
         Admits(copy, replaying[r])
  PROVE  replaying[r] \in db.events /\ replaying[r].seq = copy.seq + 1
<1> USE DEF IInv
<1> PICK e : e = replaying[r]
  OBVIOUS
<1>1. e \in db.events /\ e.seq <= copy.seq + 1
  BY DEF Copying, OnlyCommittedAnnounced
<1>2. e \notin copy.events
  BY DEF Admits
<1>3. ~ e.seq <= copy.seq
  BY <1>1, <1>2 DEF CopyIsPrefix
<1>4. e.seq \in Int /\ copy.seq \in Int
  BY <1>1 DEF SyncTypeOK, File, Event, Seqs
<1> QED
  BY <1>1, <1>3, <1>4

\* Applying an announced event keeps the copy a prefix of the log.
LEMMA ReplayInv ==
  ASSUME IInv, NEW r \in Replayers, Replay(r)
  PROVE  IInv'
<1> USE DEF IInv
<1> PICK e : e = replaying[r]
  OBVIOUS
<1>1. /\ e # NoEvent
      /\ copy' = IF Admits(copy, e) THEN Logged(copy, e) ELSE copy
      /\ replaying' = [replaying EXCEPT ![r] = NoEvent]
      /\ UNCHANGED <<db, lock, work, announced, runs, forgotten>>
  BY DEF Replay
<1>2. e \in Event /\ e.seq \in Int /\ copy \in File /\ copy.seq \in Int
  BY <1>1 DEF SyncTypeOK, File, Event, Seqs
<1>3. /\ replaying \in [Replayers -> Event \cup {NoEvent}]
      /\ replaying' \in [Replayers -> Event \cup {NoEvent}]
      /\ replaying'[r] = NoEvent
      /\ \A s \in Replayers : s # r => replaying'[s] = replaying[s]
  BY <1>1 DEF SyncTypeOK
<1>4. copy' \in File
  BY <1>1, <1>2, LoggedType
<1>5. SyncTypeOK'
  BY <1>1, <1>3, <1>4 DEF SyncTypeOK
<1>6. Numbered' /\ Pending' /\ OnlyCommittedAnnounced'
  BY <1>1 DEF Numbered, Pending, OnlyCommittedAnnounced
<1>7. CASE ~forgotten /\ Admits(copy, e)
  <2>1. e \in db.events /\ e.seq = copy.seq + 1
    BY <1>1, <1>7, AdmittedIsNext
  <2>2. copy'.seq = e.seq /\ copy'.events = copy.events \cup {e}
    BY <1>1, <1>2, <1>7, LoggedType
  <2>3. Copying'
    <3>1. ASSUME NEW s \in Replayers, replaying'[s] # NoEvent
          PROVE  replaying'[s] \in announced /\ replaying'[s].seq <= copy'.seq + 1
      <4>1. replaying'[s] = replaying[s] /\ replaying[s] \in Event
        BY <3>1, <1>3
      <4>2. replaying[s] \in announced /\ replaying[s].seq <= copy.seq + 1
        BY <3>1, <4>1, <1>7 DEF Copying
      <4>3. replaying[s].seq \in Int
        BY <4>1 DEF Event, Seqs
      <4> QED
        BY <4>1, <4>2, <4>3, <2>1, <2>2, <1>2
    <3>2. copy'.seq <= db'.seq
      BY <2>1, <2>2, <1>1 DEF Numbered
    <3> QED
      BY <3>1, <3>2, <1>1 DEF Copying
  <2>4. CopyIsPrefix'
    <3>1. copy.events = {x \in db.events : x.seq <= copy.seq}
      BY <1>7 DEF CopyIsPrefix
    <3>2. \A x \in db.events : x.seq \in Int /\ (x.seq = e.seq => x = e)
      BY <2>1 DEF Numbered, SyncTypeOK, File, Event, Seqs
    <3>3. \A x \in db.events : x.seq <= copy'.seq <=> x.seq <= copy.seq \/ x = e
      BY <3>2, <2>1, <2>2, <1>2
    <3>4. copy'.events = {x \in db.events : x.seq <= copy'.seq}
      BY <3>1, <3>3, <2>1, <2>2
    <3> QED
      BY <3>4, <1>1 DEF CopyIsPrefix
  <2> QED
    BY <1>5, <1>6, <2>3, <2>4
<1>8. CASE ~forgotten /\ ~Admits(copy, e)
  <2>1. copy' = copy
    BY <1>1, <1>8
  <2>2. Copying'
    BY <2>1, <1>1, <1>3 DEF Copying
  <2>3. CopyIsPrefix'
    BY <2>1, <1>1 DEF CopyIsPrefix
  <2> QED
    BY <1>5, <1>6, <2>2, <2>3
<1>9. CASE forgotten
  BY <1>1, <1>3, <1>5, <1>6, <1>9 DEF Copying, CopyIsPrefix
<1> QED
  BY <1>7, <1>8, <1>9

\* Every step keeps the invariant.
LEMMA NextInv == IInv /\ [Next]_vars => IInv'
<1> SUFFICES ASSUME IInv, [Next]_vars
             PROVE  IInv'
  OBVIOUS
<1>1. ASSUME NEW w \in Writers, NEW data \in Data, Begin(w, data) PROVE IInv'
  BY <1>1, BeginInv
<1>2. ASSUME NEW w \in Writers, Commit(w) PROVE IInv'
  BY <1>2, CommitInv
<1>3. ASSUME NEW w \in Writers, Rollback(w) \/ Crash(w) PROVE IInv'
  <2>1. lock' = IF lock = w THEN Nobody ELSE lock
    BY <1>3 DEF Rollback, Crash, IInv, SyncTypeOK
  <2> QED
    BY <1>3, <2>1, LeaveInv DEF Rollback, Crash
<1>4. ASSUME NEW w \in Writers, Emit(w) PROVE IInv'
  BY <1>4, EmitInv
<1>5. ASSUME NEW w \in Writers, Find(w) PROVE IInv'
  BY <1>5, FindInv
<1>6. ASSUME NEW w \in Writers, Erase(w) PROVE IInv'
  BY <1>6, EraseInv
<1>7. ASSUME NEW r \in Replayers, NEW e \in announced, Receive(r, e) PROVE IInv'
  BY <1>7, ReceiveInv
<1>8. ASSUME NEW r \in Replayers, Replay(r) PROVE IInv'
  BY <1>8, ReplayInv
<1>9. CASE UNCHANGED vars
  BY <1>9 DEF vars, IInv, SyncTypeOK, Numbered, Pending, OnlyCommittedAnnounced, Copying,
              CopyIsPrefix
<1> QED
  BY <1>1, <1>2, <1>3, <1>4, <1>5, <1>6, <1>7, <1>8, <1>9 DEF Next, Run

LEMMA Invariance == Spec => []IInv
  BY InitInv, NextInv, PTL DEF Spec

-----------------------------------------------------------------------------
(* The theorems *)

\* The variables keep their types, and the writer in a transaction is the one that
\* holds the lock of the file, whoever crashes.
THEOREM SyncTypes == Spec => []SyncTypeOK
  BY Invariance, PTL DEF IInv

\* Whatever is announced was committed to the log.
THEOREM CommittedAnnounced == Spec => []OnlyCommittedAnnounced
  BY Invariance, PTL DEF IInv

\* The copy is a prefix of the log in whatever order, however often and by however
\* many processes the events are replayed.
THEOREM CopyPrefix == Spec => []CopyIsPrefix
  BY Invariance, PTL DEF IInv

-----------------------------------------------------------------------------
(* SyncLog implements EventLog *)

\* The instance of EventLog speaks of the same projection.
LEMMA SameProjection ==
  /\ Log!Data = Data
  /\ Log!Views = Views
  /\ Log!NoRows = NoRows
  /\ \A v, d : (Log!Accepts(v, d) <=> Accepts(v, d)) /\ Log!Apply(v, d) = Apply(v, d)
<1>1. Log!Data = Data /\ Log!Views = Views /\ Log!NoRows = NoRows
  BY DEF Log!Data, Data, Log!Written, Written, Log!Erased, Erased, Log!Views, Views,
         Log!NoRows, NoRows
<1>2. ASSUME NEW v, NEW d PROVE Log!Accepts(v, d) <=> Accepts(v, d)
  BY DEF Log!Accepts, Accepts
<1>3. ASSUME NEW v, NEW d PROVE Log!Apply(v, d) = Apply(v, d)
  BY DEF Log!Apply, Apply, Log!NoRows, NoRows
<1> QED
  BY <1>1, <1>2, <1>3

\* The entries of a log with one event more.
LEMMA EntriesGrow ==
  ASSUME NEW events, NEW e
  PROVE  Entries(events \cup {e}) = Entries(events) \cup {[seq |-> e.seq, data |-> e.data]}
  BY DEF Entries

\* An empty log has no entries.
LEMMA EntriesNone == Entries({}) = {}
  BY DEF Entries

\* A commit publishes the next entry.
LEMMA CommitPublishes ==
  ASSUME IInv, NEW w \in Writers, Commit(w)
  PROVE  Log!LogNext
<1> PICK e : e = work[w].event
  OBVIOUS
<1>1. /\ work[w].at = "tx"
      /\ Admits(db, e)
      /\ db' = Logged(db, e)
      /\ UNCHANGED <<copy, forgotten>>
  BY DEF Commit
<1>2. e \in Event /\ e.seq = db.seq + 1 /\ db \in File /\ db.seq \in Int
  BY <1>1 DEF IInv, Pending, SyncTypeOK, File
<1>3. e.data \in Data
  BY <1>2 DEF Event
<1>4. /\ db'.seq = db.seq + 1
      /\ db'.view = Apply(db.view, e.data)
      /\ db'.events = db.events \cup {e}
  BY <1>1, <1>2, LoggedType
<1>5. Entries(db'.events) = Entries(db.events) \cup {[seq |-> db.seq + 1, data |-> e.data]}
  BY <1>2, <1>4, EntriesGrow
<1>6. Accepts(db.view, e.data)
  BY <1>1 DEF Admits
<1>7. Log!Publish(e.data)
  BY <1>1, <1>2, <1>4, <1>5, <1>6, SameProjection DEF Log!Publish
<1> QED
  BY <1>3, <1>7, SameProjection DEF Log!LogNext

\* Forgetting a session's log starts it again.
LEMMA EraseForgets ==
  ASSUME IInv, NEW w \in Writers, Erase(w)
  PROVE  Log!LogNext
<1>1. db' = [db EXCEPT !.seq = -1, !.events = {}] /\ forgotten' = TRUE /\ copy' = copy
  BY DEF Erase
<1>2. db \in File
  BY DEF IInv, SyncTypeOK
<1>3. db' = [view |-> db.view, seq |-> -1, events |-> {}]
  BY <1>1, <1>2 DEF File
<1>4. db'.seq + 1 = 0 /\ db'.view = db.view /\ Entries(db'.events) = {}
  BY <1>3, EntriesNone
<1>5. Log!Forget
  BY <1>1, <1>4 DEF Log!Forget
<1> QED
  BY <1>5 DEF Log!LogNext

\* A replay copies the next entry, or does nothing; once the log is forgotten it may
\* do anything to the copy.
LEMMA ReplayCopies ==
  ASSUME IInv, NEW r \in Replayers, Replay(r)
  PROVE  [Log!LogNext]_(Log!logVars)
<1> PICK e : e = replaying[r]
  OBVIOUS
<1>1. /\ e # NoEvent
      /\ copy' = IF Admits(copy, e) THEN Logged(copy, e) ELSE copy
      /\ UNCHANGED <<db, forgotten>>
  BY DEF Replay
<1>2. e \in Event /\ copy \in File /\ copy.seq \in Int
  BY <1>1 DEF IInv, SyncTypeOK, File
<1>3. CASE ~Admits(copy, e)
  <2>1. copy' = copy
    BY <1>1, <1>3
  <2> QED
    BY <2>1, <1>1 DEF Log!logVars
<1>4. CASE Admits(copy, e) /\ ~forgotten
  <2>1. e \in db.events /\ e.seq = copy.seq + 1
    BY <1>1, <1>4, AdmittedIsNext
  <2>2. copy'.seq = copy.seq + 1 /\ copy'.view = Apply(copy.view, e.data)
    BY <1>1, <1>2, <1>4, <2>1, LoggedType
  <2>3. Accepts(copy.view, e.data)
    BY <1>4 DEF Admits
  <2> PICK entry : entry = [seq |-> e.seq, data |-> e.data]
    OBVIOUS
  <2>4. entry \in Entries(db.events) /\ entry.seq = copy.seq + 1 /\ entry.data = e.data
    BY <2>1 DEF Entries
  <2>5. /\ ~forgotten
        /\ Accepts(copy.view, entry.data)
        /\ copy'.view = Apply(copy.view, entry.data)
        /\ copy'.seq + 1 = (copy.seq + 1) + 1
    BY <1>4, <2>2, <2>3, <2>4
  <2>6. Log!Copy
    BY <2>4, <2>5, <1>1, SameProjection DEF Log!Copy
  <2> QED
    BY <2>6 DEF Log!LogNext
<1>5. CASE Admits(copy, e) /\ forgotten
  <2>1. copy' \in File
    BY <1>1, <1>2, <1>5, LoggedType
  <2>2. copy'.seq + 1 \in Nat /\ copy'.view \in Views
    BY <2>1, BoundAssumption DEF File
  <2>3. Log!Drift
    BY <2>2, <1>1, <1>5, SameProjection DEF Log!Drift
  <2> QED
    BY <2>3 DEF Log!LogNext
<1> QED
  BY <1>3, <1>4, <1>5

\* Every step is a step of the log or leaves it alone.
LEMMA StepImplements == IInv /\ [Next]_vars => [Log!LogNext]_(Log!logVars)
<1> SUFFICES ASSUME IInv, [Next]_vars
             PROVE  [Log!LogNext]_(Log!logVars)
  OBVIOUS
<1>1. ASSUME NEW w \in Writers, Commit(w) PROVE Log!LogNext
  BY <1>1, CommitPublishes
<1>2. ASSUME NEW w \in Writers, Erase(w) PROVE Log!LogNext
  BY <1>2, EraseForgets
<1>3. ASSUME NEW r \in Replayers, Replay(r) PROVE [Log!LogNext]_(Log!logVars)
  BY <1>3, ReplayCopies
<1>4. ASSUME UNCHANGED <<db, copy, forgotten>> PROVE UNCHANGED Log!logVars
  BY <1>4 DEF Log!logVars
<1>5. ASSUME NEW w \in Writers,
             Run(w) \/ Rollback(w) \/ Emit(w) \/ Find(w) \/ Crash(w)
      PROVE  UNCHANGED <<db, copy, forgotten>>
  BY <1>5 DEF Run, Begin, Rollback, Emit, Find, Crash
<1>6. ASSUME NEW r \in Replayers, NEW e \in announced, Receive(r, e)
      PROVE  UNCHANGED <<db, copy, forgotten>>
  BY <1>6 DEF Receive
<1>7. CASE UNCHANGED vars
  BY <1>4, <1>7 DEF vars
<1>8. CASE Next
  <2>1. CASE \E w \in Writers :
               Run(w) \/ Commit(w) \/ Rollback(w) \/ Emit(w) \/ Find(w) \/ Erase(w) \/ Crash(w)
    <3> PICK w \in Writers :
          Run(w) \/ Commit(w) \/ Rollback(w) \/ Emit(w) \/ Find(w) \/ Erase(w) \/ Crash(w)
      BY <2>1
    <3>1. CASE Commit(w)
      BY <3>1, <1>1
    <3>2. CASE Erase(w)
      BY <3>2, <1>2
    <3>3. CASE Run(w) \/ Rollback(w) \/ Emit(w) \/ Find(w) \/ Crash(w)
      BY <3>3, <1>4, <1>5
    <3> QED
      BY <3>1, <3>2, <3>3
  <2>2. CASE \E r \in Replayers : (\E e \in announced : Receive(r, e)) \/ Replay(r)
    BY <2>2, <1>3, <1>4, <1>6
  <2> QED
    BY <1>8, <2>1, <2>2 DEF Next
<1> QED
  BY <1>7, <1>8

\* The initial states are initial states of the log.
LEMMA InitImplements == Init => Log!LogInit
<1> SUFFICES ASSUME Init PROVE Log!LogInit
  OBVIOUS
<1>1. /\ db.seq = -1 /\ db.view = NoRows /\ db.events = {}
      /\ copy.seq = -1 /\ copy.view = NoRows /\ forgotten = FALSE
  BY DEF Init, Empty
<1> QED
  BY <1>1, EntriesNone, SameProjection DEF Log!LogInit

\* The processes, transactions, effects, replays and crashes of sync/index.ts and
\* storage/db.ts implement one event log with its projection and a prefix copy.
THEOREM Refinement == Spec => ImplementsLog
<1>1. Spec => Log!LogInit /\ [][Log!LogNext]_(Log!logVars)
  BY Invariance, InitImplements, StepImplements, PTL DEF Spec
<1> QED
  BY <1>1 DEF ImplementsLog, Log!LogSpec

\* The log's own invariant, kept by every step of the log whose last number is one.
LEMMA GaplessStep ==
  ASSUME Log!Gapless, db.seq + 1 \in Nat, [Log!LogNext]_(Log!logVars)
  PROVE  Log!Gapless'
<1> PICK n : n = db.seq + 1
  OBVIOUS
<1> PICK S : S = Entries(db.events)
  OBVIOUS
<1>1. /\ n \in Nat
      /\ \A x \in S : x.seq \in 0 .. n - 1
      /\ \A i \in 0 .. n - 1 : \E x \in S : x.seq = i
      /\ \A x, y \in S : x.seq = y.seq => x = y
  BY DEF Log!Gapless
<1>2. CASE \E data \in Log!Data : Log!Publish(data)
  <2> PICK data \in Log!Data : Log!Publish(data)
    BY <1>2
  <2> PICK new : new = [seq |-> n, data |-> data]
    OBVIOUS
  <2>1. new.seq = n /\ Entries(db.events)' = S \cup {new} /\ (db.seq + 1)' = n + 1
    BY DEF Log!Publish
  <2>2. \A x \in S \cup {new} : x.seq \in 0 .. n
    BY <1>1, <2>1
  <2>3. \A i \in 0 .. n : \E x \in S \cup {new} : x.seq = i
    <3> SUFFICES ASSUME NEW i \in 0 .. n PROVE \E x \in S \cup {new} : x.seq = i
      OBVIOUS
    <3>1. CASE i = n
      BY <3>1, <2>1
    <3>2. CASE i \in 0 .. n - 1
      BY <3>2, <1>1
    <3> QED
      BY <3>1, <3>2, <1>1
  <2>4. \A x, y \in S \cup {new} : x.seq = y.seq => x = y
    BY <1>1, <2>1
  <2>5. (n + 1) - 1 = n
    BY <1>1
  <2> QED
    BY <2>1, <2>2, <2>3, <2>4, <2>5 DEF Log!Gapless
<1>3. CASE Log!Forget
  BY <1>3 DEF Log!Forget, Log!Gapless
<1>4. CASE Log!Copy \/ Log!Drift \/ UNCHANGED Log!logVars
  <2>1. Entries(db.events)' = S /\ (db.seq + 1)' = n
    BY <1>4 DEF Log!Copy, Log!Drift, Log!logVars
  <2> QED
    BY <2>1, <1>1 DEF Log!Gapless
<1> QED
  BY <1>2, <1>3, <1>4 DEF Log!LogNext

\* The numbers of the log are 0 to the last, each given once, whoever runs events at
\* the same time, whatever is rolled back, and again after the log was forgotten.
THEOREM Gapless == Spec => []LogGapless
<1>1. Init => Log!Gapless
  <2> SUFFICES ASSUME Init PROVE Log!Gapless
    OBVIOUS
  <2>1. db.seq + 1 = 0 /\ Entries(db.events) = {}
    BY EntriesNone DEF Init, Empty
  <2> QED
    BY <2>1 DEF Log!Gapless
<1>2. IInv => db.seq + 1 \in Nat
  BY BoundAssumption DEF IInv, SyncTypeOK, File
<1>3. IInv /\ Log!Gapless /\ [Next]_vars => Log!Gapless'
  BY <1>2, StepImplements, GaplessStep
<1>4. Spec => []Log!Gapless
  BY <1>1, <1>3, Invariance, PTL DEF Spec
<1> QED
  BY <1>4 DEF LogGapless
-----------------------------------------------------------------------------
(* The rows are the projection of the log *)

\* A set of numbers that is not empty has a least one.
LEMMA LeastElement ==
  ASSUME NEW T, T \subseteq Nat, T # {}
  PROVE  \E m \in T : \A k \in T : m <= k
<1>1. PICK m \in T : \A k \in T : ~ (<<k, m>> \in OpToRel(<, Nat))
  BY NatLessThanWellFounded, WFMin
<1>2. \A k \in T : ~ k < m
  <2> SUFFICES ASSUME NEW k \in T, k < m PROVE FALSE
    OBVIOUS
  <2>1. <<k, m>> \in Nat \X Nat
    OBVIOUS
  <2>2. <<k, m>> \in OpToRel(<, Nat)
    BY <2>1 DEF OpToRel
  <2> QED
    BY <1>1, <2>2
<1>3. m \in Nat /\ \A k \in T : k \in Nat
  OBVIOUS
<1>4. \A k \in T : m <= k
  BY <1>2, <1>3
<1> QED
  BY <1>4

\* The rows after each of the first events of a file.
Replays(file, rows) ==
  rows = [n \in 0 .. file.seq + 1 |->
            IF n = 0 THEN NoRows ELSE Apply(rows[n - 1], EventAt(file, n - 1).data)]

\* The events of a file are numbered from 0 to its last number, and projecting them in
\* that order gives its rows.
Complete(file) ==
  /\ \A n \in 0 .. file.seq : \E e \in file.events : e.seq = n
  /\ \A e \in file.events : e.seq <= file.seq
  /\ \A e, f \in file.events : e.seq = f.seq => e = f
  /\ \E rows : Replays(file, rows) /\ rows[file.seq + 1] = file.view

BothComplete == ~forgotten => Complete(db) /\ Complete(copy)

\* What Replays says of the rows at each number.
LEMMA ReplaysPoints ==
  ASSUME NEW file, NEW rows, Replays(file, rows)
  PROVE  /\ DOMAIN rows = 0 .. file.seq + 1
         /\ rows = [n \in 0 .. file.seq + 1 |-> rows[n]]
         /\ \A n \in 0 .. file.seq + 1 :
              rows[n] = IF n = 0 THEN NoRows ELSE Apply(rows[n - 1], EventAt(file, n - 1).data)
  BY DEF Replays

\* There is one way to replay a file: at the least number at which two ways differed
\* they would have applied the same event to the same rows.
LEMMA ReplaysOnce ==
  ASSUME NEW file, file.seq \in Int, NEW u, NEW v, Replays(file, u), Replays(file, v)
  PROVE  u = v
<1> DEFINE Differ == {n \in 0 .. file.seq + 1 : u[n] # v[n]}
<1>1. /\ u = [n \in 0 .. file.seq + 1 |-> u[n]]
      /\ v = [n \in 0 .. file.seq + 1 |-> v[n]]
  BY ReplaysPoints
<1>2. \A n \in 0 .. file.seq + 1 :
        /\ u[n] = IF n = 0 THEN NoRows ELSE Apply(u[n - 1], EventAt(file, n - 1).data)
        /\ v[n] = IF n = 0 THEN NoRows ELSE Apply(v[n - 1], EventAt(file, n - 1).data)
  BY ReplaysPoints
<1>3. ASSUME Differ # {} PROVE FALSE
  <2> Differ \subseteq Nat
    OBVIOUS
  <2>1. PICK m \in Differ : \A k \in Differ : m <= k
    <3> HIDE DEF Differ
    <3> QED
      BY <1>3, LeastElement
  <2>2. m \in 0 .. file.seq + 1 /\ u[m] # v[m]
    BY <2>1
  <2>3. m # 0
    BY <1>2, <2>2
  <2>4. m - 1 \in 0 .. file.seq + 1 /\ ~ m <= m - 1
    BY <2>2, <2>3
  <2>5. u[m - 1] = v[m - 1]
    BY <2>1, <2>4
  <2> QED
    BY <1>2, <2>2, <2>3, <2>5
<1>4. \A n \in 0 .. file.seq + 1 : u[n] = v[n]
  BY <1>3
<1> QED
  BY <1>1, <1>4

\* The rows of a complete file are the ones its events give.
LEMMA CompleteProjected ==
  ASSUME NEW file, file.seq \in Int, Complete(file)
  PROVE  file.view = Projected(file)
<1>1. PICK rows : Replays(file, rows) /\ rows[file.seq + 1] = file.view
  BY DEF Complete
<1>2. RowsOf(file) = CHOOSE u : Replays(file, u)
  BY DEF RowsOf, Replays
<1>3. Replays(file, RowsOf(file))
  BY <1>1, <1>2
<1>4. RowsOf(file) = rows
  BY <1>1, <1>3, ReplaysOnce
<1> QED
  BY <1>1, <1>4 DEF Projected

\* The event with a number is the one that has it.
LEMMA EventAtIs ==
  ASSUME NEW file, NEW n, NEW e \in file.events, e.seq = n,
         \A f, g \in file.events : f.seq = g.seq => f = g
  PROVE  EventAt(file, n) = e
<1>1. EventAt(file, n) \in file.events /\ EventAt(file, n).seq = n
  BY DEF EventAt
<1> QED
  BY <1>1

\* A file stays complete when the next event is applied to it.
LEMMA CompleteGrows ==
  ASSUME NEW file \in File, Complete(file), NEW e \in Event, e.seq = file.seq + 1
  PROVE  Complete(Logged(file, e))
<1> PICK new : new = Logged(file, e)
  OBVIOUS
<1> PICK s : s = file.seq
  OBVIOUS
<1>1. /\ new.view = Apply(file.view, e.data)
      /\ new.seq = s + 1
      /\ new.events = file.events \cup {e}
  BY LoggedType
<1>2. s \in Int /\ 0 <= s + 1 /\ file.events \subseteq Event
  BY DEF File
<1>3. \A f \in file.events : f.seq \in Int /\ f.seq <= s
  BY <1>2 DEF Complete, Event, Seqs
<1>4. \A f, g \in new.events : f.seq = g.seq => f = g
  BY <1>1, <1>2, <1>3 DEF Complete
<1>5. \A n \in 0 .. new.seq : \E f \in new.events : f.seq = n
  <2> SUFFICES ASSUME NEW n \in 0 .. s + 1 PROVE \E f \in new.events : f.seq = n
    BY <1>1
  <2>1. CASE n = s + 1
    BY <2>1, <1>1
  <2>2. CASE n \in 0 .. s
    BY <2>2, <1>1 DEF Complete
  <2> QED
    BY <2>1, <2>2, <1>2
<1>6. \A f \in new.events : f.seq <= new.seq
  BY <1>1, <1>2, <1>3
<1>7. \A n \in 0 .. s : EventAt(new, n) = EventAt(file, n)
  <2> SUFFICES ASSUME NEW n \in 0 .. s PROVE EventAt(new, n) = EventAt(file, n)
    OBVIOUS
  <2>1. PICK f \in file.events : f.seq = n
    BY DEF Complete
  <2>2. EventAt(file, n) = f
    BY <2>1, EventAtIs DEF Complete
  <2>3. EventAt(new, n) = f
    BY <2>1, <1>1, <1>4, EventAtIs
  <2> QED
    BY <2>2, <2>3
<1>8. EventAt(new, s + 1) = e
  BY <1>1, <1>4, EventAtIs
<1>9. PICK rows : Replays(file, rows) /\ rows[s + 1] = file.view
  BY DEF Complete
<1>10. \A n \in 0 .. s + 1 :
         rows[n] = IF n = 0 THEN NoRows ELSE Apply(rows[n - 1], EventAt(file, n - 1).data)
  BY <1>9, ReplaysPoints
<1> DEFINE more == [n \in 0 .. (s + 1) + 1 |-> IF n = (s + 1) + 1 THEN new.view ELSE rows[n]]
<1>11. \A n \in 0 .. (s + 1) + 1 :
         more[n] = IF n = 0 THEN NoRows ELSE Apply(more[n - 1], EventAt(new, n - 1).data)
  <2> SUFFICES ASSUME NEW n \in 0 .. (s + 1) + 1
               PROVE  more[n] = IF n = 0 THEN NoRows
                                ELSE Apply(more[n - 1], EventAt(new, n - 1).data)
    OBVIOUS
  <2>1. CASE n = (s + 1) + 1
    <3>1. n # 0 /\ n - 1 = s + 1 /\ more[n] = new.view /\ more[s + 1] = rows[s + 1]
      BY <2>1, <1>2
    <3> QED
      BY <3>1, <1>1, <1>8, <1>9
  <2>2. CASE n = 0
    BY <2>2, <1>2, <1>10
  <2>3. CASE n \in 1 .. s + 1
    <3>1. n # 0 /\ n - 1 \in 0 .. s /\ n \in 0 .. s + 1
      BY <2>3, <1>2
    <3>2. more[n] = rows[n] /\ more[n - 1] = rows[n - 1]
      BY <2>3, <1>2
    <3> QED
      BY <3>1, <3>2, <1>7, <1>10
  <2> QED
    BY <2>1, <2>2, <2>3, <1>2
<1>12. Replays(new, more)
  BY <1>1, <1>11 DEF Replays
<1>13. more[new.seq + 1] = new.view
  BY <1>1, <1>2
<1> QED
  BY <1>4, <1>5, <1>6, <1>12, <1>13 DEF Complete

\* An empty file is complete.
LEMMA EmptyComplete == Complete(Empty)
<1> PICK none : none = [n \in 0 .. 0 |-> NoRows]
  OBVIOUS
<1>1. Empty.view = NoRows /\ Empty.seq = -1 /\ Empty.events = {}
  BY DEF Empty
<1>2. \A n \in 0 .. 0 : n = 0
  OBVIOUS
<1>3. Replays(Empty, none) /\ none[0] = NoRows
  BY <1>1, <1>2 DEF Replays
<1> QED
  BY <1>1, <1>3 DEF Complete

\* Every step keeps both files complete while the log stands.
LEMMA NextComplete == IInv /\ BothComplete /\ [Next]_vars => BothComplete'
<1> SUFFICES ASSUME IInv, BothComplete, [Next]_vars
             PROVE  BothComplete'
  OBVIOUS
<1>1. ASSUME NEW w \in Writers, Commit(w) PROVE BothComplete'
  <2> PICK e : e = work[w].event
    OBVIOUS
  <2>1. work[w].at = "tx" /\ db' = Logged(db, e) /\ UNCHANGED <<copy, forgotten>>
    BY <1>1 DEF Commit
  <2>2. e \in Event /\ e.seq = db.seq + 1 /\ db \in File
    BY <2>1 DEF IInv, Pending, SyncTypeOK
  <2>3. ~forgotten => Complete(db')
    BY <2>1, <2>2, CompleteGrows DEF BothComplete
  <2> QED
    BY <2>1, <2>3 DEF BothComplete
<1>2. ASSUME NEW w \in Writers, Erase(w) PROVE BothComplete'
  BY <1>2 DEF Erase, BothComplete
<1>3. ASSUME NEW r \in Replayers, Replay(r) PROVE BothComplete'
  <2> PICK e : e = replaying[r]
    OBVIOUS
  <2>1. /\ e # NoEvent
        /\ copy' = IF Admits(copy, e) THEN Logged(copy, e) ELSE copy
        /\ UNCHANGED <<db, forgotten>>
    BY <1>3 DEF Replay
  <2>2. e \in Event /\ copy \in File
    BY <2>1 DEF IInv, SyncTypeOK
  <2>3. CASE ~forgotten /\ Admits(copy, e)
    <3>1. e.seq = copy.seq + 1
      BY <2>1, <2>3, AdmittedIsNext
    <3>2. Complete(copy')
      BY <3>1, <2>1, <2>2, <2>3, CompleteGrows DEF BothComplete
    <3> QED
      BY <3>2, <2>1 DEF BothComplete
  <2>4. CASE forgotten \/ ~Admits(copy, e)
    BY <2>1, <2>4 DEF BothComplete
  <2> QED
    BY <2>3, <2>4
<1>4. ASSUME UNCHANGED <<db, copy, forgotten>> PROVE BothComplete'
  BY <1>4 DEF BothComplete
<1>5. ASSUME NEW w \in Writers,
             Run(w) \/ Rollback(w) \/ Emit(w) \/ Find(w) \/ Crash(w)
      PROVE  BothComplete'
  BY <1>4, <1>5 DEF Run, Begin, Rollback, Emit, Find, Crash
<1>6. ASSUME NEW r \in Replayers, NEW e \in announced, Receive(r, e)
      PROVE  BothComplete'
  BY <1>4, <1>6 DEF Receive
<1>7. CASE UNCHANGED vars
  BY <1>4, <1>7 DEF vars
<1>8. CASE Next
  <2>1. CASE \E w \in Writers :
               Run(w) \/ Commit(w) \/ Rollback(w) \/ Emit(w) \/ Find(w) \/ Erase(w) \/ Crash(w)
    BY <2>1, <1>1, <1>2, <1>5
  <2>2. CASE \E r \in Replayers : (\E e \in announced : Receive(r, e)) \/ Replay(r)
    BY <2>2, <1>3, <1>6
  <2> QED
    BY <1>8, <2>1, <2>2 DEF Next
<1> QED
  BY <1>7, <1>8

\* While the log stands, projecting its events in the order of their numbers gives the
\* rows, in the writers' file and in the copy, however many processes run and replay
\* events and whenever they crash.
THEOREM RowsFromLog == Spec => []RowsAreProjection
<1>1. Init => BothComplete
  BY EmptyComplete DEF Init, BothComplete
<1>2. IInv /\ BothComplete => RowsAreProjection
  <2> SUFFICES ASSUME IInv, BothComplete, ~forgotten
               PROVE  db.view = Projected(db) /\ copy.view = Projected(copy)
    BY DEF RowsAreProjection
  <2>1. db.seq \in Int /\ copy.seq \in Int
    BY DEF IInv, SyncTypeOK, File
  <2> QED
    BY <2>1, CompleteProjected DEF BothComplete
<1> QED
  BY <1>1, <1>2, NextComplete, Invariance, PTL DEF Spec
=============================================================================
