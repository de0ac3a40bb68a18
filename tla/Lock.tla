-------------------------------- MODULE Lock --------------------------------
(***************************************************************************)
(* The read-write lock of one key: util/lock.ts.                           *)
(*                                                                         *)
(* The record of a key is created when it is first asked for and dropped   *)
(* from the map once nobody holds or awaits it.  Who has asked keeps a     *)
(* reference to the record it asked at, while process looks up the map     *)
(* again: records have identities here.  Every call is synchronous.        *)
(***************************************************************************)
EXTENDS Sequences

CONSTANTS
  Clients,   \* callers of read and write
  Records,   \* identities of records
  NoRecord

ASSUME RecordsAssumption == NoRecord \notin Records

VARIABLES
  locks,   \* the key's record, or NoRecord
  lock,    \* the records
  at,      \* what each client is doing
  ref      \* the record each client refers to

vars == <<locks, lock, at, ref>>

\* readers counts one per reader: the set of those who have it is kept in its place.
\* waitingReaders are all woken together, so that their order is left out.
Lock   == [readers: SUBSET Clients, writer: BOOLEAN,
           waitingReaders: SUBSET Clients, waitingWriters: Seq(Clients)]
Unused == [readers |-> {}, writer |-> FALSE, waitingReaders |-> {}, waitingWriters |-> <<>>]
Doings == {"idle", "reading", "writing", "awaits read", "awaits write"}
Queue(l) == {l.waitingWriters[i] : i \in DOMAIN l.waitingWriters}

\* A record knows its clients, and they it.
Knows(o, l) ==
  /\ l.readers        = {c \in Clients : at[c] = "reading" /\ ref[c] = o}
  /\ l.waitingReaders = {c \in Clients : at[c] = "awaits read" /\ ref[c] = o}
  /\ Queue(l)         = {c \in Clients : at[c] = "awaits write" /\ ref[c] = o}
  /\ l.writer <=> \E c \in Clients : at[c] = "writing" /\ ref[c] = o

LockTypeOK ==
  /\ locks \in Records \cup {NoRecord}
  /\ lock \in [Records -> Lock]
  /\ at \in [Clients -> Doings]
  /\ ref \in [Clients -> Records \cup {NoRecord}]
  /\ \A c \in Clients : at[c] = "idle" <=> ref[c] = NoRecord
  /\ \A o \in Records : Knows(o, lock[o])

Init ==
  /\ locks = NoRecord /\ lock = [o \in Records |-> Unused]
  /\ at = [c \in Clients |-> "idle"] /\ ref = [c \in Clients |-> NoRecord]

(***************************************************************************)
(* read and write: get finds or makes the record.                          *)
(***************************************************************************)
Fresh(o) == \A c \in Clients : ref[c] # o

\* o is the record that get returns, l its contents.
Get(o, l) == IF locks = NoRecord THEN Fresh(o) /\ l = Unused
             ELSE o = locks /\ l = lock[o]

Becomes(c, o, l, how) == /\ locks' = o /\ lock' = [lock EXCEPT ![o] = l]
                         /\ at' = [at EXCEPT ![c] = how] /\ ref' = [ref EXCEPT ![c] = o]

\* Variant: a reader walks past the writers that wait.
CanRead_Barges(l) == ~ l.writer

CanRead(l)  == ~ l.writer /\ l.waitingWriters = <<>>

CanWrite(l) == ~ l.writer /\ l.readers = {}

Read(c) ==
  /\ at[c] = "idle"
  /\ \E o \in Records : \E l \in {Unused, lock[o]} :
       /\ Get(o, l)
       /\ \/ /\ CanRead(l)
             /\ Becomes(c, o, [l EXCEPT !.readers = @ \cup {c}], "reading")
          \/ /\ ~ CanRead(l)
             /\ Becomes(c, o, [l EXCEPT !.waitingReaders = @ \cup {c}], "awaits read")

Write(c) ==
  /\ at[c] = "idle"
  /\ \E o \in Records : \E l \in {Unused, lock[o]} :
       /\ Get(o, l)
       /\ \/ /\ CanWrite(l)
             /\ Becomes(c, o, [l EXCEPT !.writer = TRUE], "writing")
          \/ /\ ~ CanWrite(l)
             /\ Becomes(c, o, [l EXCEPT !.waitingWriters = Append(@, c)], "awaits write")

(***************************************************************************)
(* dispose: the holder lets go at its own record, process then looks at    *)
(* the one in the map.                                                     *)
(***************************************************************************)
Released(c) == IF at[c] = "reading" THEN [lock[ref[c]] EXCEPT !.readers = @ \ {c}]
                                    ELSE [lock[ref[c]] EXCEPT !.writer = FALSE]
Left(c)     == [lock EXCEPT ![ref[c]] = Released(c)]
Idle(c, f)  == [f EXCEPT ![c] = "idle"]

\* Variant: the record is dropped although the readers just woken have it.
Dropped_Always(l) == TRUE

\* After the readers have been woken there is nobody left to wait.
Dropped(l) == l.waitingReaders = {}

\* Variant: the writer that is woken keeps its place in the queue.
Shifted_Kept(q) == q

Shifted(q) == Tail(q)

\* Variant: a lock let go of is left for the next caller to find.
PassOn_Left(c, m) == lock' = m /\ at' = Idle(c, at) /\ UNCHANGED locks

PassOn(c, m) ==
  LET l == m[locks]
      held == IF locks = NoRecord THEN TRUE ELSE l.writer \/ l.readers # {}
  IN  \/ /\ held
         /\ lock' = m /\ at' = Idle(c, at) /\ UNCHANGED locks
      \/ /\ ~ held /\ l.waitingWriters # <<>>
         /\ lock' = [m EXCEPT ![locks] = [l EXCEPT !.writer = TRUE,
                                                   !.waitingWriters = Shifted(@)]]
         /\ at' = [Idle(c, at) EXCEPT ![Head(l.waitingWriters)] = "writing"]
         /\ UNCHANGED locks
      \/ /\ ~ held /\ l.waitingWriters = <<>>
         /\ lock' = [m EXCEPT ![locks] = [l EXCEPT !.readers = l.waitingReaders,
                                                   !.waitingReaders = {}]]
         /\ at' = Idle(c, [d \in Clients |-> IF d \in l.waitingReaders
                                             THEN "reading" ELSE at[d]])
         /\ locks' = IF Dropped(l) THEN NoRecord ELSE locks

Dispose(c) ==
  /\ at[c] \in {"reading", "writing"}
  /\ PassOn(c, Left(c))
  /\ ref' = [ref EXCEPT ![c] = NoRecord]

Next == \E c \in Clients : Read(c) \/ Write(c) \/ Dispose(c)

Spec == Init /\ [][Next]_vars

\* Who holds the lock lets go of it (summary.ts 138).
FairSpec == Spec /\ \A c \in Clients : WF_vars(Dispose(c))

(***************************************************************************)
(* Properties.                                                             *)
(***************************************************************************)
\* While a writer has the key nobody else does, at whatever record they got it
\* (lock.ts 51, 77).
Exclusive ==
  \A c, d \in Clients : at[c] = "writing" /\ at[d] \in {"reading", "writing"} => c = d

\* Nobody waits at a key that is free, or at a record that the map has lost
\* (lock.ts 24-45).
NobodyForgotten ==
  \A c \in Clients : at[c] \in {"awaits read", "awaits write"} =>
    /\ ref[c] = locks
    /\ \E d \in Clients : at[d] \in {"reading", "writing"} /\ ref[d] = locks

\* "Prioritize writers to prevent starvation" (lock.ts 28): while a writer waits nobody
\* starts to read, and a writer that waits gets its turn.
WritersFirst ==
  [][\A c, d \in Clients : at[c] = "awaits write" /\ at'[c] = "awaits write"
       /\ at'[d] = "reading" => at[d] = "reading"]_vars
WritersServed == \A c \in Clients : at[c] = "awaits write" ~> at[c] = "writing"

\* However often the record of the key is made and dropped, its callers see one lock
\* (see ReadWriteLock): what they hold is decided by what all of them do, the writers
\* take their turns in order, and a lock that is let go of is passed on at once.
WritersInOrder == IF locks = NoRecord THEN <<>> ELSE lock[locks].waitingWriters

RW == INSTANCE ReadWriteLock WITH doing <- at, queue <- WritersInOrder

ImplementsReadWriteLock == RW!RWSpec

=============================================================================
