----------------------------- MODULE LockProofs -----------------------------
(***************************************************************************)
(* Theorems about Lock, for any set of clients and of records: exclusion,  *)
(* nobody forgotten, and the priority of writers.                          *)
(*                                                                         *)
(* The invariant adds to LockTypeOK what the code relies on without saying *)
(* it: everybody who refers to a record refers to the one in the map, a    *)
(* record in the map is held by someone, a writer has it alone, and nobody *)
(* is queued twice.                                                        *)
(***************************************************************************)
EXTENDS Lock, SequenceTheorems, TLAPS

Elems(q)    == {q[i] : i \in DOMAIN q}
Distinct(q) == \A i, j \in DOMAIN q : q[i] = q[j] => i = j

Holds(c) == at[c] \in {"reading", "writing"}

\* Everybody is at the record of the map.
OneRecord == \A c \in Clients : ref[c] # NoRecord => ref[c] = locks

\* The map keeps no record that nobody holds.
Held == locks # NoRecord => \E c \in Clients : Holds(c)

\* A writer is alone.
Alone == \A c, d \in Clients : at[c] = "writing" /\ Holds(d) => c = d

QueuedOnce == \A o \in Records : Distinct(lock[o].waitingWriters)

IInv == LockTypeOK /\ OneRecord /\ Held /\ Alone /\ QueuedOnce

-----------------------------------------------------------------------------
(* Queues.                                                                  *)

\* A writer that joins the end of a queue it is not in.
LEMMA Joined ==
  ASSUME NEW q \in Seq(Clients), NEW c \in Clients, Distinct(q), c \notin Elems(q)
  PROVE  /\ Append(q, c) \in Seq(Clients)
         /\ Elems(Append(q, c)) = Elems(q) \cup {c}
         /\ Distinct(Append(q, c))
<1> DEFINE r == Append(q, c)
<1>1. /\ r \in Seq(Clients) /\ DOMAIN r = 1..(Len(q) + 1)
      /\ DOMAIN q = 1..Len(q) /\ Len(q) \in Nat
      /\ \A i \in 1..Len(q) : r[i] = q[i]
      /\ r[Len(q) + 1] = c
  BY AppendProperties
<1> HIDE DEF r
<1>2. Elems(r) = Elems(q) \cup {c}
  BY <1>1 DEF Elems
<1>3. Distinct(r)
  BY <1>1 DEF Distinct, Elems
<1> QED BY <1>1, <1>2, <1>3 DEF r

\* The first of a queue leaves it.
LEMMA Shifting ==
  ASSUME NEW q \in Seq(Clients), Distinct(q), q # <<>>
  PROVE  /\ Head(q) \in Elems(q)
         /\ Shifted(q) \in Seq(Clients)
         /\ Elems(Shifted(q)) = Elems(q) \ {Head(q)}
         /\ Distinct(Shifted(q))
<1> DEFINE r == Shifted(q)
<1>1. /\ r \in Seq(Clients) /\ DOMAIN r = 1..(Len(q) - 1)
      /\ DOMAIN q = 1..Len(q) /\ Len(q) \in Nat \ {0}
      /\ \A i \in 1..(Len(q) - 1) : r[i] = q[i + 1]
      /\ Head(q) = q[1]
  BY DEF Shifted
<1> HIDE DEF r
<1>2. Distinct(r)
  BY <1>1 DEF Distinct
<1>3. ASSUME NEW x \in Elems(r) PROVE x \in Elems(q) \ {Head(q)}
  <2>1. PICK i \in 1..(Len(q) - 1) : x = r[i]
    BY <1>1, <1>3 DEF Elems
  <2>2. x = q[i + 1] /\ i + 1 \in DOMAIN q /\ i + 1 # 1 /\ 1 \in DOMAIN q
    BY <1>1, <2>1
  <2> QED BY <1>1, <2>2 DEF Distinct, Elems
<1>4. ASSUME NEW x \in Elems(q) \ {Head(q)} PROVE x \in Elems(r)
  <2>1. PICK i \in 1..Len(q) : x = q[i]
    BY <1>1, <1>4 DEF Elems
  <2>2. i - 1 \in 1..(Len(q) - 1)
    BY <1>1, <1>4, <2>1
  <2>3. r[i - 1] = q[i]
    BY <1>1, <2>2
  <2> QED BY <1>1, <2>1, <2>2, <2>3 DEF Elems
<1>5. Head(q) \in Elems(q)
  BY <1>1 DEF Elems
<1> QED BY <1>1, <1>2, <1>3, <1>4, <1>5 DEF r

\* An empty queue has no one in it, and no other has.
LEMMA EmptyQueue ==
  ASSUME NEW q \in Seq(Clients)
  PROVE  q = <<>> <=> Elems(q) = {}
<1>1. q = <<>> => Elems(q) = {}
  BY DEF Elems
<1>2. q # <<>> => q[1] \in Elems(q)
  BY DEF Elems
<1> QED BY <1>1, <1>2

-----------------------------------------------------------------------------
(* Joining: read and write.                                                 *)

\* What get returns: a record that everybody is at, and its contents.
LEMMA Got ==
  ASSUME IInv, NEW o \in Records, NEW l, Get(o, l)
  PROVE  /\ l \in Lock /\ Distinct(l.waitingWriters)
         /\ Knows(o, l)
         /\ \A d \in Clients : ref[d] # NoRecord => ref[d] = o
         /\ locks = o \/ l = Unused
<1>1. CASE locks = NoRecord
  <2>1. \A d \in Clients : ref[d] = NoRecord
    BY <1>1 DEF IInv, OneRecord
  <2>2. l = Unused
    BY <1>1 DEF Get
  <2>3. <<>> \in Seq(Clients) /\ DOMAIN <<>> = {}
    OBVIOUS
  <2>4. l \in Lock /\ Distinct(l.waitingWriters)
    BY <2>2, <2>3 DEF Unused, Lock, Distinct
  <2>5. Knows(o, l)
    BY <2>1, <2>2, <2>3, RecordsAssumption DEF Knows, Queue, Unused
  <2> QED BY <2>1, <2>2, <2>4, <2>5
<1>2. CASE locks # NoRecord
  BY <1>2 DEF Get, IInv, OneRecord, QueuedOnce, LockTypeOK
<1> QED BY <1>1, <1>2

\* A record nobody is at, before or after a step that leaves it alone.
LEMMA Nobody ==
  ASSUME NEW p \in Records, Knows(p, lock[p]), lock'[p] = lock[p],
         \A d \in Clients : ref[d] # p /\ ref'[d] # p
  PROVE  Knows(p, lock[p])'
  BY DEF Knows, Queue

\* Whoever joins a record leaves the others as they were: nobody is at them.
LEMMA Elsewhere ==
  ASSUME IInv, NEW c \in Clients, NEW o \in Records, NEW l, NEW how,
         \A d \in Clients : ref[d] # NoRecord => ref[d] = o,
         at[c] = "idle", Becomes(c, o, l, how),
         NEW p \in Records, p # o
  PROVE  Knows(p, lock[p])'
<1>1. lock'[p] = lock[p] /\ Knows(p, lock[p])
  BY DEF Becomes, IInv, LockTypeOK
<1>2. \A d \in Clients : ref[d] # p /\ ref'[d] # p
  BY RecordsAssumption DEF Becomes, IInv, LockTypeOK
<1> QED BY <1>1, <1>2, Nobody

\* A client that joins a record, as l contains it afterwards.
LEMMA Joins ==
  ASSUME IInv, NEW c \in Clients, NEW o \in Records, NEW l \in Lock, NEW how \in Doings,
         at[c] = "idle", how # "idle", Becomes(c, o, l, how),
         \A d \in Clients : ref[d] # NoRecord => ref[d] = o,
         Distinct(l.waitingWriters), Knows(o, l)',
         how = "writing" => \A d \in Clients : ~ Holds(d),
         how = "reading" => \A d \in Clients : at[d] # "writing",
         how \in {"awaits read", "awaits write"} => \E d \in Clients : Holds(d)
  PROVE  IInv'
<1>1. locks' = o /\ lock' = [lock EXCEPT ![o] = l]
      /\ at' = [at EXCEPT ![c] = how] /\ ref' = [ref EXCEPT ![c] = o]
  BY DEF Becomes
<1>2. lock'[o] = l /\ \A p \in Records : p # o => lock'[p] = lock[p]
  BY <1>1 DEF IInv, LockTypeOK
<1>3. /\ at'[c] = how /\ ref'[c] = o
      /\ \A d \in Clients : d # c => at'[d] = at[d] /\ ref'[d] = ref[d]
  BY <1>1 DEF IInv, LockTypeOK
<1>4. LockTypeOK'
  <2>1. /\ locks' \in Records /\ lock' \in [Records -> Lock]
        /\ at' \in [Clients -> Doings] /\ ref' \in [Clients -> Records \cup {NoRecord}]
    BY <1>1 DEF IInv, LockTypeOK
  <2>2. \A d \in Clients : at'[d] = "idle" <=> ref'[d] = NoRecord
    BY <1>3, RecordsAssumption DEF IInv, LockTypeOK
  <2>3. ASSUME NEW p \in Records PROVE Knows(p, lock[p])'
    <3>1. CASE p = o
      BY <1>2, <3>1
    <3>2. CASE p # o
      BY <3>2, Elsewhere
    <3> QED BY <3>1, <3>2
  <2> QED BY <2>1, <2>2, <2>3 DEF LockTypeOK
<1>5. OneRecord'
  BY <1>1, <1>3 DEF OneRecord
<1>6. Held'
  BY <1>3 DEF Held, Holds, Doings
<1>7. Alone'
  BY <1>3 DEF IInv, Alone, Holds, Doings
<1>8. QueuedOnce'
  BY <1>2 DEF IInv, QueuedOnce
<1> QED BY <1>4, <1>5, <1>6, <1>7, <1>8 DEF IInv

\* What a record says of everybody, once everybody is at it.
LEMMA Says ==
  ASSUME IInv, NEW o \in Records, NEW l \in Lock, Knows(o, l),
         \A d \in Clients : ref[d] # NoRecord => ref[d] = o
  PROVE  /\ l.writer <=> \E d \in Clients : at[d] = "writing"
         /\ l.readers = {d \in Clients : at[d] = "reading"}
         /\ l.waitingReaders = {d \in Clients : at[d] = "awaits read"}
         /\ Queue(l) = {d \in Clients : at[d] = "awaits write"}
<1>1. \A d \in Clients : at[d] # "idle" => ref[d] = o
  BY DEF IInv, LockTypeOK
<1> QED BY <1>1 DEF Knows

\* Who is doing a at o, once c has come there to do b.
LEMMA Arrives ==
  ASSUME NEW c \in Clients, NEW o \in Records, NEW a, NEW b \in Doings,
         at \in [Clients -> Doings], ref \in [Clients -> Records \cup {NoRecord}],
         at[c] # a, at' = [at EXCEPT ![c] = b], ref' = [ref EXCEPT ![c] = o]
  PROVE  {d \in Clients : at'[d] = a /\ ref'[d] = o}
           = {d \in Clients : at[d] = a /\ ref[d] = o} \cup (IF a = b THEN {c} ELSE {})
  OBVIOUS

\* read keeps the invariant.
LEMMA ReadKeeps ==
  ASSUME IInv, NEW c \in Clients, Read(c)
  PROVE  IInv'
<1>0. PICK o \in Records : \E l \in {Unused, lock[o]} :
        /\ Get(o, l)
        /\ \/ CanRead(l) /\ Becomes(c, o, [l EXCEPT !.readers = @ \cup {c}], "reading")
           \/ ~ CanRead(l) /\ Becomes(c, o, [l EXCEPT !.waitingReaders = @ \cup {c}],
                                       "awaits read")
  BY DEF Read
<1>1. PICK l \in {Unused, lock[o]} :
        /\ Get(o, l)
        /\ \/ CanRead(l) /\ Becomes(c, o, [l EXCEPT !.readers = @ \cup {c}], "reading")
           \/ ~ CanRead(l) /\ Becomes(c, o, [l EXCEPT !.waitingReaders = @ \cup {c}],
                                       "awaits read")
  BY <1>0
<1>2. /\ at[c] = "idle" /\ l \in Lock /\ Distinct(l.waitingWriters) /\ Knows(o, l)
      /\ \A d \in Clients : ref[d] # NoRecord => ref[d] = o
      /\ locks = o \/ l = Unused
  BY <1>1, Got DEF Read
<1>3. /\ l.writer <=> \E d \in Clients : at[d] = "writing"
      /\ Queue(l) = {d \in Clients : at[d] = "awaits write"}
  BY <1>2, Says
<1>4. /\ at \in [Clients -> Doings] /\ ref \in [Clients -> Records \cup {NoRecord}]
      /\ ref[c] = NoRecord
  BY <1>2 DEF IInv, LockTypeOK
<1>5. CASE CanRead(l) /\ Becomes(c, o, [l EXCEPT !.readers = @ \cup {c}], "reading")
  <2>a. PICK k : k = [l EXCEPT !.readers = @ \cup {c}]
    OBVIOUS
  <2>1. /\ k \in Lock /\ k.readers = l.readers \cup {c} /\ k.writer = l.writer
        /\ k.waitingReaders = l.waitingReaders /\ k.waitingWriters = l.waitingWriters
    BY <2>a, <1>2 DEF Lock
  <2>2. /\ at' = [at EXCEPT ![c] = "reading"] /\ ref' = [ref EXCEPT ![c] = o]
    BY <1>5 DEF Becomes
  <2>3. Knows(o, k)'
    <3>1. /\ k.readers = {d \in Clients : at'[d] = "reading" /\ ref'[d] = o}
          /\ k.waitingReaders = {d \in Clients : at'[d] = "awaits read" /\ ref'[d] = o}
          /\ Queue(k) = {d \in Clients : at'[d] = "awaits write" /\ ref'[d] = o}
      <4>1. /\ l.readers = {d \in Clients : at[d] = "reading" /\ ref[d] = o}
            /\ l.waitingReaders = {d \in Clients : at[d] = "awaits read" /\ ref[d] = o}
            /\ Queue(l) = {d \in Clients : at[d] = "awaits write" /\ ref[d] = o}
        BY <1>2 DEF Knows
      <4>2. Queue(k) = Queue(l)
        BY <2>1 DEF Queue
      <4>3. at[c] \notin {"reading", "awaits read", "awaits write"}
        BY <1>2
      <4>4. /\ {d \in Clients : at'[d] = "reading" /\ ref'[d] = o}
                 = {d \in Clients : at[d] = "reading" /\ ref[d] = o} \cup {c}
            /\ {d \in Clients : at'[d] = "awaits read" /\ ref'[d] = o}
                 = {d \in Clients : at[d] = "awaits read" /\ ref[d] = o}
            /\ {d \in Clients : at'[d] = "awaits write" /\ ref'[d] = o}
                 = {d \in Clients : at[d] = "awaits write" /\ ref[d] = o}
        BY <1>4, <2>2, <4>3, Arrives DEF Doings
      <4> QED BY <2>1, <4>1, <4>2, <4>4
    <3>2. k.writer <=> \E d \in Clients : at'[d] = "writing" /\ ref'[d] = o
      BY <1>2, <1>4, <2>1, <2>2 DEF Knows
    <3> QED BY <3>1, <3>2 DEF Knows, Queue
  <2>4. \A d \in Clients : at[d] # "writing"
    BY <1>3, <1>5 DEF CanRead
  <2>5. Becomes(c, o, k, "reading") /\ "reading" \in Doings
    BY <1>5, <2>a DEF Doings
  <2> QED BY <1>2, <2>1, <2>3, <2>4, <2>5, Joins
<1>6. CASE ~ CanRead(l) /\ Becomes(c, o, [l EXCEPT !.waitingReaders = @ \cup {c}], "awaits read")
  <2>a. PICK k : k = [l EXCEPT !.waitingReaders = @ \cup {c}]
    OBVIOUS
  <2>1. /\ k \in Lock /\ k.readers = l.readers /\ k.writer = l.writer
        /\ k.waitingReaders = l.waitingReaders \cup {c} /\ k.waitingWriters = l.waitingWriters
    BY <2>a, <1>2 DEF Lock
  <2>2. /\ at' = [at EXCEPT ![c] = "awaits read"] /\ ref' = [ref EXCEPT ![c] = o]
    BY <1>6 DEF Becomes
  <2>3. Knows(o, k)'
    <3>1. /\ k.readers = {d \in Clients : at'[d] = "reading" /\ ref'[d] = o}
          /\ k.waitingReaders = {d \in Clients : at'[d] = "awaits read" /\ ref'[d] = o}
          /\ Queue(k) = {d \in Clients : at'[d] = "awaits write" /\ ref'[d] = o}
      <4>1. /\ l.readers = {d \in Clients : at[d] = "reading" /\ ref[d] = o}
            /\ l.waitingReaders = {d \in Clients : at[d] = "awaits read" /\ ref[d] = o}
            /\ Queue(l) = {d \in Clients : at[d] = "awaits write" /\ ref[d] = o}
        BY <1>2 DEF Knows
      <4>2. Queue(k) = Queue(l)
        BY <2>1 DEF Queue
      <4>3. at[c] \notin {"reading", "awaits read", "awaits write"}
        BY <1>2
      <4>4. /\ {d \in Clients : at'[d] = "reading" /\ ref'[d] = o}
                 = {d \in Clients : at[d] = "reading" /\ ref[d] = o}
            /\ {d \in Clients : at'[d] = "awaits read" /\ ref'[d] = o}
                 = {d \in Clients : at[d] = "awaits read" /\ ref[d] = o} \cup {c}
            /\ {d \in Clients : at'[d] = "awaits write" /\ ref'[d] = o}
                 = {d \in Clients : at[d] = "awaits write" /\ ref[d] = o}
        BY <1>4, <2>2, <4>3, Arrives DEF Doings
      <4> QED BY <2>1, <4>1, <4>2, <4>4
    <3>2. k.writer <=> \E d \in Clients : at'[d] = "writing" /\ ref'[d] = o
      BY <1>2, <1>4, <2>1, <2>2 DEF Knows
    <3> QED BY <3>1, <3>2 DEF Knows, Queue
  <2>4. \E d \in Clients : Holds(d)
    <3>1. l # Unused
      <4>1. ~ Unused.writer /\ Unused.waitingWriters = <<>>
        BY DEF Unused
      <4> QED BY <1>6, <4>1 DEF CanRead
    <3> QED BY <1>2, <3>1, RecordsAssumption DEF IInv, Held
  <2>5. Becomes(c, o, k, "awaits read") /\ "awaits read" \in Doings
    BY <1>6, <2>a DEF Doings
  <2> QED BY <1>2, <2>1, <2>3, <2>4, <2>5, Joins
<1> QED BY <1>1, <1>5, <1>6

\* write keeps the invariant.
LEMMA WriteKeeps ==
  ASSUME IInv, NEW c \in Clients, Write(c)
  PROVE  IInv'
<1>0. PICK o \in Records : \E l \in {Unused, lock[o]} :
        /\ Get(o, l)
        /\ \/ CanWrite(l) /\ Becomes(c, o, [l EXCEPT !.writer = TRUE], "writing")
           \/ ~ CanWrite(l) /\ Becomes(c, o, [l EXCEPT !.waitingWriters = Append(@, c)],
                                        "awaits write")
  BY DEF Write
<1>1. PICK l \in {Unused, lock[o]} :
        /\ Get(o, l)
        /\ \/ CanWrite(l) /\ Becomes(c, o, [l EXCEPT !.writer = TRUE], "writing")
           \/ ~ CanWrite(l) /\ Becomes(c, o, [l EXCEPT !.waitingWriters = Append(@, c)],
                                        "awaits write")
  BY <1>0
<1>2. /\ at[c] = "idle" /\ l \in Lock /\ Distinct(l.waitingWriters) /\ Knows(o, l)
      /\ \A d \in Clients : ref[d] # NoRecord => ref[d] = o
      /\ locks = o \/ l = Unused
  BY <1>1, Got DEF Write
<1>3. /\ l.writer <=> \E d \in Clients : at[d] = "writing"
      /\ l.readers = {d \in Clients : at[d] = "reading"}
      /\ Queue(l) = {d \in Clients : at[d] = "awaits write"}
  BY <1>2, Says
<1>4. /\ at \in [Clients -> Doings] /\ ref \in [Clients -> Records \cup {NoRecord}]
      /\ ref[c] = NoRecord
  BY <1>2 DEF IInv, LockTypeOK
<1>5. CASE CanWrite(l) /\ Becomes(c, o, [l EXCEPT !.writer = TRUE], "writing")
  <2>a. PICK k : k = [l EXCEPT !.writer = TRUE]
    OBVIOUS
  <2>1. /\ k \in Lock /\ k.readers = l.readers /\ k.writer
        /\ k.waitingReaders = l.waitingReaders /\ k.waitingWriters = l.waitingWriters
    BY <2>a, <1>2 DEF Lock
  <2>2. /\ at' = [at EXCEPT ![c] = "writing"] /\ ref' = [ref EXCEPT ![c] = o]
    BY <1>5 DEF Becomes
  <2>3. Knows(o, k)'
    <3>1. /\ k.readers = {d \in Clients : at'[d] = "reading" /\ ref'[d] = o}
          /\ k.waitingReaders = {d \in Clients : at'[d] = "awaits read" /\ ref'[d] = o}
          /\ Queue(k) = {d \in Clients : at'[d] = "awaits write" /\ ref'[d] = o}
      <4>1. /\ l.readers = {d \in Clients : at[d] = "reading" /\ ref[d] = o}
            /\ l.waitingReaders = {d \in Clients : at[d] = "awaits read" /\ ref[d] = o}
            /\ Queue(l) = {d \in Clients : at[d] = "awaits write" /\ ref[d] = o}
        BY <1>2 DEF Knows
      <4>2. Queue(k) = Queue(l)
        BY <2>1 DEF Queue
      <4>3. at[c] \notin {"reading", "awaits read", "awaits write"}
        BY <1>2
      <4>4. /\ {d \in Clients : at'[d] = "reading" /\ ref'[d] = o}
                 = {d \in Clients : at[d] = "reading" /\ ref[d] = o}
            /\ {d \in Clients : at'[d] = "awaits read" /\ ref'[d] = o}
                 = {d \in Clients : at[d] = "awaits read" /\ ref[d] = o}
            /\ {d \in Clients : at'[d] = "awaits write" /\ ref'[d] = o}
                 = {d \in Clients : at[d] = "awaits write" /\ ref[d] = o}
        BY <1>4, <2>2, <4>3, Arrives DEF Doings
      <4> QED BY <2>1, <4>1, <4>2, <4>4
    <3>2. k.writer <=> \E d \in Clients : at'[d] = "writing" /\ ref'[d] = o
      BY <1>2, <1>4, <2>1, <2>2 DEF Knows
    <3> QED BY <3>1, <3>2 DEF Knows, Queue
  <2>4. \A d \in Clients : ~ Holds(d)
    BY <1>3, <1>5 DEF CanWrite, Holds
  <2>5. Becomes(c, o, k, "writing") /\ "writing" \in Doings
    BY <1>5, <2>a DEF Doings
  <2> QED BY <1>2, <2>1, <2>3, <2>4, <2>5, Joins
<1>6. CASE ~ CanWrite(l) /\ Becomes(c, o, [l EXCEPT !.waitingWriters = Append(@, c)],
                                    "awaits write")
  <2>0. /\ l.waitingWriters \in Seq(Clients) /\ c \notin Elems(l.waitingWriters)
        /\ Queue(l) = Elems(l.waitingWriters)
    BY <1>2, <1>3 DEF Lock, Queue, Elems
  <2>a. PICK k : k = [l EXCEPT !.waitingWriters = Append(@, c)]
    OBVIOUS
  <2>1. /\ k \in Lock /\ k.readers = l.readers /\ k.writer = l.writer
        /\ k.waitingReaders = l.waitingReaders
        /\ k.waitingWriters = Append(l.waitingWriters, c)
    BY <2>a, <1>2, <2>0, Joined DEF Lock
  <2>2. Distinct(k.waitingWriters) /\ Queue(k) = Queue(l) \cup {c}
    <3>1. Queue(k) = Elems(k.waitingWriters)
      BY DEF Queue, Elems
    <3> QED BY <1>2, <2>0, <2>1, <3>1, Joined
  <2>3. /\ at' = [at EXCEPT ![c] = "awaits write"] /\ ref' = [ref EXCEPT ![c] = o]
    BY <1>6 DEF Becomes
  <2>4. Knows(o, k)'
    <3>1. /\ k.readers = {d \in Clients : at'[d] = "reading" /\ ref'[d] = o}
          /\ k.waitingReaders = {d \in Clients : at'[d] = "awaits read" /\ ref'[d] = o}
          /\ Queue(k) = {d \in Clients : at'[d] = "awaits write" /\ ref'[d] = o}
      <4>1. /\ l.readers = {d \in Clients : at[d] = "reading" /\ ref[d] = o}
            /\ l.waitingReaders = {d \in Clients : at[d] = "awaits read" /\ ref[d] = o}
            /\ Queue(l) = {d \in Clients : at[d] = "awaits write" /\ ref[d] = o}
        BY <1>2 DEF Knows
      <4>2. Queue(k) = Queue(l) \cup {c}
        BY <2>2
      <4>3. at[c] \notin {"reading", "awaits read", "awaits write"}
        BY <1>2
      <4>4. /\ {d \in Clients : at'[d] = "reading" /\ ref'[d] = o}
                 = {d \in Clients : at[d] = "reading" /\ ref[d] = o}
            /\ {d \in Clients : at'[d] = "awaits read" /\ ref'[d] = o}
                 = {d \in Clients : at[d] = "awaits read" /\ ref[d] = o}
            /\ {d \in Clients : at'[d] = "awaits write" /\ ref'[d] = o}
                 = {d \in Clients : at[d] = "awaits write" /\ ref[d] = o} \cup {c}
        BY <1>4, <2>3, <4>3, Arrives DEF Doings
      <4> QED BY <2>1, <4>1, <4>2, <4>4
    <3>2. k.writer <=> \E d \in Clients : at'[d] = "writing" /\ ref'[d] = o
      BY <1>2, <1>4, <2>1, <2>3 DEF Knows
    <3> QED BY <3>1, <3>2 DEF Knows, Queue
  <2>5. \E d \in Clients : Holds(d)
    <3>1. l # Unused
      <4>1. ~ Unused.writer /\ Unused.readers = {}
        BY DEF Unused
      <4> QED BY <1>6, <4>1 DEF CanWrite
    <3> QED BY <1>2, <3>1, RecordsAssumption DEF IInv, Held
  <2>6. Becomes(c, o, k, "awaits write") /\ "awaits write" \in Doings
    BY <1>6, <2>a DEF Doings
  <2> QED BY <1>2, <2>1, <2>2, <2>4, <2>5, <2>6, Joins
<1> QED BY <1>1, <1>5, <1>6

-----------------------------------------------------------------------------
(* Letting go: dispose.                                                     *)

\* What the record says when its holder has let go, before process looks at it.
LEMMA LetGo ==
  ASSUME IInv, NEW c \in Clients, Holds(c)
  PROVE  /\ locks \in Records /\ ref[c] = locks
         /\ Released(c) \in Lock /\ Distinct(Released(c).waitingWriters)
         /\ Released(c).writer <=> \E d \in Clients : d # c /\ at[d] = "writing"
         /\ Released(c).readers = {d \in Clients : d # c /\ at[d] = "reading"}
         /\ Released(c).waitingReaders = {d \in Clients : at[d] = "awaits read"}
         /\ Queue(Released(c)) = {d \in Clients : at[d] = "awaits write"}
<1>1. locks \in Records /\ ref[c] = locks
  BY DEF IInv, LockTypeOK, OneRecord, Holds
<1>2. PICK l : l = lock[locks]
  OBVIOUS
<1>3. PICK k : k = Released(c)
  OBVIOUS
<1>4. /\ l \in Lock /\ Knows(locks, l) /\ Distinct(l.waitingWriters)
      /\ \A d \in Clients : ref[d] # NoRecord => ref[d] = locks
  BY <1>1, <1>2 DEF IInv, LockTypeOK, OneRecord, QueuedOnce
<1>5. /\ l.writer <=> \E d \in Clients : at[d] = "writing"
      /\ l.readers = {d \in Clients : at[d] = "reading"}
      /\ l.waitingReaders = {d \in Clients : at[d] = "awaits read"}
      /\ Queue(l) = {d \in Clients : at[d] = "awaits write"}
  BY <1>1, <1>4, Says
<1>6. CASE at[c] = "reading"
  <2>1. /\ k \in Lock /\ k.readers = l.readers \ {c} /\ k.writer = l.writer
        /\ k.waitingReaders = l.waitingReaders /\ k.waitingWriters = l.waitingWriters
    BY <1>1, <1>2, <1>3, <1>4, <1>6 DEF Released, Lock
  <2>2. Queue(k) = Queue(l)
    BY <2>1 DEF Queue
  <2>3. k.writer <=> \E d \in Clients : d # c /\ at[d] = "writing"
    BY <1>5, <1>6, <2>1
  <2>4. k.readers = {d \in Clients : d # c /\ at[d] = "reading"}
    BY <1>5, <2>1
  <2> QED BY <1>1, <1>3, <1>4, <1>5, <2>1, <2>2, <2>3, <2>4
<1>7. CASE at[c] = "writing"
  <2>1. /\ k \in Lock /\ k.readers = l.readers /\ ~ k.writer
        /\ k.waitingReaders = l.waitingReaders /\ k.waitingWriters = l.waitingWriters
    BY <1>1, <1>2, <1>3, <1>4, <1>7 DEF Released, Lock
  <2>2. Queue(k) = Queue(l)
    BY <2>1 DEF Queue
  <2>3. ~ \E d \in Clients : d # c /\ at[d] = "writing"
    BY <1>7 DEF IInv, Alone, Holds
  <2>4. k.readers = {d \in Clients : d # c /\ at[d] = "reading"}
    BY <1>5, <1>7, <2>1
  <2> QED BY <1>1, <1>3, <1>4, <1>5, <2>1, <2>2, <2>3, <2>4
<1> QED BY <1>6, <1>7 DEF Holds

\* c has gone, and k is what the record has become.
LEMMA Remains ==
  ASSUME IInv, NEW c \in Clients, Holds(c),
         NEW k \in Lock, Distinct(k.waitingWriters), lock' = [lock EXCEPT ![locks] = k],
         ref' = [ref EXCEPT ![c] = NoRecord], at' \in [Clients -> Doings],
         \A d \in Clients : at'[d] = "idle" <=> d = c \/ at[d] = "idle",
         k.writer <=> \E d \in Clients : at'[d] = "writing",
         k.readers = {d \in Clients : at'[d] = "reading"},
         k.waitingReaders = {d \in Clients : at'[d] = "awaits read"},
         Queue(k) = {d \in Clients : at'[d] = "awaits write"},
         \/ locks' = locks /\ \E d \in Clients : Holds(d)'
         \/ locks' = NoRecord /\ \A d \in Clients : at'[d] = "idle",
         \A d, e \in Clients : at'[d] = "writing" /\ Holds(e)' => d = e
  PROVE  IInv'
<1>1. /\ locks \in Records
      /\ \A d \in Clients : ref[d] \in {locks, NoRecord} /\ (at[d] = "idle" <=> ref[d] = NoRecord)
      /\ ref \in [Clients -> Records \cup {NoRecord}]
  BY LetGo DEF IInv, LockTypeOK, OneRecord
<1>2. \A d \in Clients : ref'[d] = IF at'[d] = "idle" THEN NoRecord ELSE locks
  BY <1>1, RecordsAssumption
<1>3. lock'[locks] = k /\ \A p \in Records : p # locks => lock'[p] = lock[p]
  BY <1>1 DEF IInv, LockTypeOK
<1>4. LockTypeOK'
  <2>1. locks' \in Records \cup {NoRecord} /\ lock' \in [Records -> Lock]
    BY <1>1 DEF IInv, LockTypeOK
  <2>2. ref' \in [Clients -> Records \cup {NoRecord}]
    BY <1>1
  <2>3. \A d \in Clients : at'[d] = "idle" <=> ref'[d] = NoRecord
    BY <1>1, <1>2, RecordsAssumption
  <2>4. ASSUME NEW p \in Records PROVE Knows(p, lock[p])'
    <3>1. CASE p # locks
      <4>1. lock'[p] = lock[p] /\ Knows(p, lock[p])
        BY <1>3, <3>1 DEF IInv, LockTypeOK
      <4>2. p # NoRecord
        BY RecordsAssumption
      <4>3. \A d \in Clients : ref[d] # p
        BY <1>1, <3>1, <4>2
      <4>4. \A d \in Clients : ref'[d] # p
        BY <1>2, <3>1, <4>2
      <4> QED BY <4>1, <4>3, <4>4, Nobody
    <3>2. CASE p = locks
      <4>1. \A d \in Clients : at'[d] # "idle" => ref'[d] = p
        BY <1>2, <3>2
      <4>2. /\ k.readers = {d \in Clients : at'[d] = "reading" /\ ref'[d] = p}
            /\ k.waitingReaders = {d \in Clients : at'[d] = "awaits read" /\ ref'[d] = p}
            /\ Queue(k) = {d \in Clients : at'[d] = "awaits write" /\ ref'[d] = p}
        BY <4>1
      <4>3. k.writer <=> \E d \in Clients : at'[d] = "writing" /\ ref'[d] = p
        <5>1. (\E d \in Clients : at'[d] = "writing")
                <=> \E d \in Clients : at'[d] = "writing" /\ ref'[d] = p
          BY <4>1
        <5> QED BY <5>1
      <4>4. Knows(p, k)'
        BY <4>2, <4>3 DEF Knows, Queue
      <4> QED BY <1>3, <3>2, <4>4
    <3> QED BY <3>1, <3>2
  <2> QED BY <2>1, <2>2, <2>3, <2>4 DEF LockTypeOK
<1>5. OneRecord'
  BY <1>2 DEF OneRecord
<1>6. Held'
  BY DEF Held
<1>7. Alone'
  BY DEF Alone
<1>8. QueuedOnce'
  BY <1>3 DEF IInv, QueuedOnce
<1> QED BY <1>4, <1>5, <1>6, <1>7, <1>8 DEF IInv

\* The key is held still: nobody is let in.
LEMMA HeldStill ==
  ASSUME IInv, NEW c \in Clients, Holds(c), ref' = [ref EXCEPT ![c] = NoRecord],
         Released(c).writer \/ Released(c).readers # {},
         lock' = [lock EXCEPT ![locks] = Released(c)], at' = Idle(c, at), UNCHANGED locks
  PROVE  IInv'
<1>1. PICK k : k = Released(c)
  OBVIOUS
<1>2. /\ k \in Lock /\ Distinct(k.waitingWriters)
      /\ k.writer <=> \E d \in Clients : d # c /\ at[d] = "writing"
      /\ k.readers = {d \in Clients : d # c /\ at[d] = "reading"}
      /\ k.waitingReaders = {d \in Clients : at[d] = "awaits read"}
      /\ Queue(k) = {d \in Clients : at[d] = "awaits write"}
  BY <1>1, LetGo
<1>3. /\ at \in [Clients -> Doings] /\ at' \in [Clients -> Doings]
      /\ at'[c] = "idle" /\ \A d \in Clients : d # c => at'[d] = at[d]
  BY DEF IInv, LockTypeOK, Idle, Doings
<1>4. k.writer <=> \E d \in Clients : at'[d] = "writing"
  <2>1. (\E d \in Clients : d # c /\ at[d] = "writing") <=> \E d \in Clients : at'[d] = "writing"
    BY <1>3
  <2> QED BY <1>2, <2>1
<1>5. /\ k.readers = {d \in Clients : at'[d] = "reading"}
      /\ k.waitingReaders = {d \in Clients : at'[d] = "awaits read"}
      /\ Queue(k) = {d \in Clients : at'[d] = "awaits write"}
  BY <1>2, <1>3 DEF Holds
<1>6. \E d \in Clients : Holds(d)'
  <2>1. CASE k.writer
    BY <1>4, <2>1 DEF Holds
  <2>2. CASE k.readers # {}
    BY <1>5, <2>2 DEF Holds
  <2> QED BY <1>1, <2>1, <2>2
<1>7. \A d, e \in Clients : at'[d] = "writing" /\ Holds(e)' => d = e
  BY <1>3 DEF IInv, Alone, Holds
<1>8. \A d \in Clients : at'[d] = "idle" <=> d = c \/ at[d] = "idle"
  BY <1>3
<1> QED BY <1>1, <1>2, <1>3, <1>4, <1>5, <1>6, <1>7, <1>8, Remains

\* The first of the writers gets the key.
LEMMA WriterNext ==
  ASSUME IInv, NEW c \in Clients, Holds(c), ref' = [ref EXCEPT ![c] = NoRecord],
         NEW l, l = Released(c), ~ l.writer, l.readers = {}, l.waitingWriters # <<>>,
         lock' = [lock EXCEPT ![locks] = [l EXCEPT !.writer = TRUE,
                                                   !.waitingWriters = Shifted(@)]],
         at' = [Idle(c, at) EXCEPT ![Head(l.waitingWriters)] = "writing"],
         UNCHANGED locks
  PROVE  IInv'
<1>1. /\ l \in Lock /\ Distinct(l.waitingWriters)
      /\ \A d \in Clients : d # c => at[d] # "writing"
      /\ \A d \in Clients : d # c => at[d] # "reading"
      /\ l.waitingReaders = {d \in Clients : at[d] = "awaits read"}
      /\ Queue(l) = {d \in Clients : at[d] = "awaits write"}
  <2>1. /\ l.readers = {d \in Clients : d # c /\ at[d] = "reading"}
        /\ l.writer <=> \E d \in Clients : d # c /\ at[d] = "writing"
    BY LetGo
  <2>2. \A d \in Clients : d # c => at[d] # "reading"
    BY <2>1
  <2>3. \A d \in Clients : d # c => at[d] # "writing"
    BY <2>1
  <2> QED BY LetGo, <2>2, <2>3
<1>2. PICK w : w = Head(l.waitingWriters)
  OBVIOUS
<1>3. PICK k : k = [l EXCEPT !.writer = TRUE, !.waitingWriters = Shifted(@)]
  OBVIOUS
<1>4. /\ w \in Queue(l) /\ k \in Lock /\ Distinct(k.waitingWriters) /\ k.writer
      /\ k.readers = {} /\ k.waitingReaders = l.waitingReaders /\ Queue(k) = Queue(l) \ {w}
  <2>1. l.waitingWriters \in Seq(Clients) /\ Queue(l) = Elems(l.waitingWriters)
    BY <1>1 DEF Lock, Queue, Elems
  <2>2. /\ k \in Lock /\ k.writer /\ k.readers = {} /\ k.waitingReaders = l.waitingReaders
        /\ k.waitingWriters = Shifted(l.waitingWriters)
    BY <1>1, <1>3, <2>1, Shifting DEF Lock
  <2>3. Queue(k) = Elems(k.waitingWriters)
    BY DEF Queue, Elems
  <2> QED BY <1>1, <1>2, <2>1, <2>2, <2>3, Shifting
<1>5. w \in Clients /\ at[w] = "awaits write" /\ w # c
  BY <1>1, <1>4 DEF Holds
<1>6. /\ at' \in [Clients -> Doings] /\ at'[c] = "idle" /\ at'[w] = "writing"
      /\ \A d \in Clients : d # c /\ d # w => at'[d] = at[d]
  BY <1>2, <1>5 DEF IInv, LockTypeOK, Idle, Doings
<1>7. /\ k.readers = {d \in Clients : at'[d] = "reading"}
      /\ k.waitingReaders = {d \in Clients : at'[d] = "awaits read"}
      /\ Queue(k) = {d \in Clients : at'[d] = "awaits write"}
  <2>1. \A d \in Clients : at'[d] # "reading"
    BY <1>1, <1>5, <1>6
  <2>2. \A d \in Clients : at'[d] = "awaits read" <=> at[d] = "awaits read"
    BY <1>5, <1>6 DEF Holds
  <2>3. \A d \in Clients : at'[d] = "awaits write" <=> at[d] = "awaits write" /\ d # w
    BY <1>5, <1>6 DEF Holds
  <2>4. Queue(k) = Queue(l) \ {w}
    BY <1>4
  <2>5. Queue(k) = {d \in Clients : at'[d] = "awaits write"}
    BY <1>1, <2>3, <2>4
  <2> QED BY <1>1, <1>4, <2>1, <2>2, <2>5
<1>8. k.writer <=> \E d \in Clients : at'[d] = "writing"
  BY <1>4, <1>5, <1>6
<1>9. /\ \E d \in Clients : Holds(d)'
      /\ \A d, e \in Clients : at'[d] = "writing" /\ Holds(e)' => d = e
  <2>1. \A d \in Clients : at'[d] \in {"reading", "writing"} => d = w
    BY <1>1, <1>5, <1>6
  <2> QED BY <1>5, <1>6, <2>1 DEF Holds
<1>10. \A d \in Clients : at'[d] = "idle" <=> d = c \/ at[d] = "idle"
  BY <1>5, <1>6
<1> QED BY <1>3, <1>4, <1>6, <1>7, <1>8, <1>9, <1>10, Remains

\* All the readers that wait get the key, or the record goes.
LEMMA ReadersNext ==
  ASSUME IInv, NEW c \in Clients, Holds(c), ref' = [ref EXCEPT ![c] = NoRecord],
         NEW l, l = Released(c), ~ l.writer, l.readers = {}, l.waitingWriters = <<>>,
         lock' = [lock EXCEPT ![locks] = [l EXCEPT !.readers = l.waitingReaders,
                                                   !.waitingReaders = {}]],
         at' = Idle(c, [d \in Clients |-> IF d \in l.waitingReaders THEN "reading" ELSE at[d]]),
         locks' = IF Dropped(l) THEN NoRecord ELSE locks
  PROVE  IInv'
<1>1. /\ l \in Lock /\ Distinct(l.waitingWriters)
      /\ \A d \in Clients : d # c => at[d] # "writing"
      /\ \A d \in Clients : d # c => at[d] # "reading"
      /\ l.waitingReaders = {d \in Clients : at[d] = "awaits read"}
      /\ Queue(l) = {d \in Clients : at[d] = "awaits write"}
  <2>1. /\ l.readers = {d \in Clients : d # c /\ at[d] = "reading"}
        /\ l.writer <=> \E d \in Clients : d # c /\ at[d] = "writing"
    BY LetGo
  <2>2. \A d \in Clients : d # c => at[d] # "reading"
    BY <2>1
  <2>3. \A d \in Clients : d # c => at[d] # "writing"
    BY <2>1
  <2> QED BY LetGo, <2>2, <2>3
<1>2. Queue(l) = {} /\ l.waitingWriters \in Seq(Clients)
  BY <1>1, EmptyQueue DEF Queue, Elems, Lock
<1>3. PICK k : k = [l EXCEPT !.readers = l.waitingReaders, !.waitingReaders = {}]
  OBVIOUS
<1>4. /\ k \in Lock /\ k.readers = l.waitingReaders /\ k.waitingReaders = {}
      /\ ~ k.writer /\ k.waitingWriters = l.waitingWriters /\ Queue(k) = {}
  <2>1. /\ k \in Lock /\ k.readers = l.waitingReaders /\ k.waitingReaders = {}
        /\ k.writer = l.writer /\ k.waitingWriters = l.waitingWriters
    BY <1>1, <1>3 DEF Lock
  <2> QED BY <1>2, <2>1 DEF Queue
<1>5. /\ at' \in [Clients -> Doings] /\ at'[c] = "idle"
      /\ \A d \in Clients : d # c =>
            at'[d] = IF at[d] = "awaits read" THEN "reading" ELSE at[d]
  BY <1>1 DEF IInv, LockTypeOK, Idle, Doings
<1>6. /\ k.readers = {d \in Clients : at'[d] = "reading"}
      /\ k.waitingReaders = {d \in Clients : at'[d] = "awaits read"}
      /\ Queue(k) = {d \in Clients : at'[d] = "awaits write"}
  <2>1. \A d \in Clients : at'[d] = "reading" <=> at[d] = "awaits read"
    BY <1>1, <1>5 DEF Holds
  <2>2. \A d \in Clients : at'[d] # "awaits read"
    BY <1>5
  <2>3. \A d \in Clients : at'[d] # "awaits write"
    BY <1>1, <1>2, <1>5
  <2> QED BY <1>1, <1>2, <1>4, <2>1, <2>2, <2>3
<1>7. \A d \in Clients : at'[d] # "writing"
  BY <1>1, <1>5
<1>8. \/ locks' = locks /\ \E d \in Clients : Holds(d)'
      \/ locks' = NoRecord /\ \A d \in Clients : at'[d] = "idle"
  <2>1. CASE l.waitingReaders = {}
    <3>1. \A d \in Clients : at'[d] = "idle"
      BY <1>1, <1>2, <1>5, <2>1 DEF IInv, LockTypeOK, Doings
    <3> QED BY <2>1, <3>1 DEF Dropped
  <2>2. CASE l.waitingReaders # {}
    BY <1>4, <1>6, <2>2 DEF Dropped, Holds
  <2> QED BY <2>1, <2>2
<1>9. \A d \in Clients : at'[d] = "idle" <=> d = c \/ at[d] = "idle"
  BY <1>5
<1>10. Distinct(k.waitingWriters)
  BY <1>1, <1>4
<1>11. k.writer <=> \E d \in Clients : at'[d] = "writing"
  BY <1>4, <1>7
<1>12. \A d, e \in Clients : at'[d] = "writing" /\ Holds(e)' => d = e
  BY <1>7
<1> QED BY <1>3, <1>4, <1>5, <1>6, <1>8, <1>9, <1>10, <1>11, <1>12, Remains

\* dispose keeps the invariant.
LEMMA DisposeKeeps ==
  ASSUME IInv, NEW c \in Clients, Dispose(c)
  PROVE  IInv'
<1>1. Holds(c) /\ ref' = [ref EXCEPT ![c] = NoRecord] /\ PassOn(c, Left(c))
  BY DEF Dispose, Holds
<1>2. locks \in Records /\ locks # NoRecord /\ ref[c] = locks /\ lock \in [Records -> Lock]
  BY <1>1, LetGo, RecordsAssumption DEF IInv, LockTypeOK
<1>3. PICK l : l = Released(c)
  OBVIOUS
<1>4. /\ Left(c) = [lock EXCEPT ![locks] = l] /\ Left(c)[locks] = l
      /\ \A k : [Left(c) EXCEPT ![locks] = k] = [lock EXCEPT ![locks] = k]
  BY <1>2, <1>3 DEF Left
<1>5. CASE /\ l.writer \/ l.readers # {}
           /\ lock' = Left(c) /\ at' = Idle(c, at) /\ UNCHANGED locks
  BY <1>1, <1>3, <1>4, <1>5, HeldStill
<1>6. CASE /\ ~ l.writer /\ l.readers = {} /\ l.waitingWriters # <<>>
           /\ lock' = [Left(c) EXCEPT ![locks] = [l EXCEPT !.writer = TRUE,
                                                   !.waitingWriters = Shifted(@)]]
           /\ at' = [Idle(c, at) EXCEPT ![Head(l.waitingWriters)] = "writing"]
           /\ UNCHANGED locks
  BY <1>1, <1>3, <1>4, <1>6, WriterNext
<1>7. CASE /\ ~ l.writer /\ l.readers = {} /\ l.waitingWriters = <<>>
           /\ lock' = [Left(c) EXCEPT ![locks] = [l EXCEPT !.readers = l.waitingReaders,
                                                   !.waitingReaders = {}]]
           /\ at' = Idle(c, [d \in Clients |-> IF d \in l.waitingReaders
                                               THEN "reading" ELSE at[d]])
           /\ locks' = IF Dropped(l) THEN NoRecord ELSE locks
  BY <1>1, <1>3, <1>4, <1>7, ReadersNext
<1> QED BY <1>1, <1>2, <1>4, <1>5, <1>6, <1>7 DEF PassOn

-----------------------------------------------------------------------------
(* The theorems.                                                            *)

\* The invariant holds from the start and every step keeps it.
LEMMA Invariance == Spec => []IInv
<1>1. Init => IInv
  <2> SUFFICES ASSUME Init PROVE IInv
    OBVIOUS
  <2>1. <<>> \in Seq(Clients) /\ DOMAIN <<>> = {}
    OBVIOUS
  <2>2. Unused \in Lock
    BY <2>1 DEF Unused, Lock
  <2>3. \A o \in Records : Knows(o, lock[o]) /\ Distinct(lock[o].waitingWriters)
    BY <2>1 DEF Init, Knows, Queue, Unused, Distinct
  <2>4. LockTypeOK
    BY <2>2, <2>3 DEF Init, LockTypeOK, Doings
  <2>5. OneRecord /\ Held /\ Alone /\ QueuedOnce
    BY <2>3 DEF Init, OneRecord, Held, Alone, QueuedOnce
  <2> QED BY <2>4, <2>5 DEF IInv
<1>2. IInv /\ [Next]_vars => IInv'
  <2>1. ASSUME IInv, NEW c \in Clients, Read(c) \/ Write(c) \/ Dispose(c) PROVE IInv'
    BY <2>1, ReadKeeps, WriteKeeps, DisposeKeeps
  <2>2. ASSUME IInv, UNCHANGED vars PROVE IInv'
    <3>1. locks' = locks /\ lock' = lock /\ at' = at /\ ref' = ref
      BY <2>2 DEF vars
    <3>2. ASSUME NEW o \in Records PROVE Knows(o, lock[o])'
      <4>1. Knows(o, lock[o])
        BY <2>2 DEF IInv, LockTypeOK
      <4>2. PICK l : l = lock[o]
        OBVIOUS
      <4>3. /\ l.readers = {c \in Clients : at'[c] = "reading" /\ ref'[c] = o}
            /\ l.waitingReaders = {c \in Clients : at'[c] = "awaits read" /\ ref'[c] = o}
            /\ Queue(l) = {c \in Clients : at'[c] = "awaits write" /\ ref'[c] = o}
            /\ l.writer <=> \E c \in Clients : at'[c] = "writing" /\ ref'[c] = o
        BY <3>1, <4>1, <4>2 DEF Knows
      <4>4. Knows(o, l)'
        BY <4>3 DEF Knows, Queue
      <4> QED BY <3>1, <4>2, <4>4
    <3>3. LockTypeOK'
      BY <2>2, <3>1, <3>2 DEF IInv, LockTypeOK
    <3>4. OneRecord' /\ Held' /\ Alone' /\ QueuedOnce'
      BY <2>2, <3>1 DEF IInv, OneRecord, Held, Holds, Alone, QueuedOnce
    <3> QED BY <3>3, <3>4 DEF IInv
  <2> QED BY <2>1, <2>2 DEF Next
<1> QED BY <1>1, <1>2, PTL DEF Spec

\* The record and those who refer to it agree.
THEOREM LockTypes == Spec => []LockTypeOK
<1>1. IInv => LockTypeOK
  BY DEF IInv
<1> QED BY <1>1, Invariance, PTL

\* A writer has the key to itself, whatever the number of callers and records: the
\* record that process drops from the map is never one that somebody has or awaits, so
\* that a later caller cannot get in at another one.
THEOREM Exclusion == Spec => []Exclusive
<1>1. IInv => Exclusive
  BY DEF IInv, Alone, Exclusive, Holds
<1> QED BY <1>1, Invariance, PTL

\* Whoever waits does so at the record in the map, and somebody holds that record whose
\* dispose will look at it.
THEOREM NoneForgotten == Spec => []NobodyForgotten
<1>1. IInv => NobodyForgotten
  <2> SUFFICES ASSUME IInv, NEW c \in Clients, at[c] \in {"awaits read", "awaits write"}
               PROVE  /\ ref[c] = locks
                      /\ \E d \in Clients : at[d] \in {"reading", "writing"} /\ ref[d] = locks
    BY DEF NobodyForgotten
  <2>1. \A d \in Clients : at[d] # "idle" => ref[d] = locks /\ locks # NoRecord
    BY DEF IInv, LockTypeOK, OneRecord
  <2>2. PICK d \in Clients : Holds(d)
    BY <2>1 DEF IInv, Held
  <2> QED BY <2>1, <2>2 DEF Holds
<1> QED BY <1>1, Invariance, PTL

\* While a writer waits nobody starts to read, neither a caller that has just come nor
\* the readers that wait.
THEOREM WritersPriority == Spec => WritersFirst
<1>1. ASSUME IInv, [Next]_vars, NEW c \in Clients, NEW d \in Clients,
             at[c] = "awaits write", at'[c] = "awaits write", at'[d] = "reading"
      PROVE  at[d] = "reading"
  <2> SUFFICES ASSUME at[d] # "reading" PROVE FALSE
    OBVIOUS
  <2>1. at \in [Clients -> Doings]
    BY <1>1 DEF IInv, LockTypeOK
  <2>2. PICK e \in Clients : Read(e) \/ Write(e) \/ Dispose(e)
    BY <1>1 DEF Next, vars
  <2>3. CASE Read(e)
    <3>1. PICK o \in Records : \E l \in {Unused, lock[o]} :
            /\ Get(o, l)
            /\ \/ CanRead(l) /\ Becomes(e, o, [l EXCEPT !.readers = @ \cup {e}], "reading")
               \/ ~ CanRead(l) /\ Becomes(e, o, [l EXCEPT !.waitingReaders = @ \cup {e}],
                                           "awaits read")
      BY <2>3 DEF Read
    <3>2. PICK l \in {Unused, lock[o]} :
            /\ Get(o, l)
            /\ \/ CanRead(l) /\ at' = [at EXCEPT ![e] = "reading"]
               \/ at' = [at EXCEPT ![e] = "awaits read"]
      BY <3>1 DEF Becomes
    <3>3. CanRead(l)
      BY <1>1, <2>1, <3>2
    <3>4. Queue(l) = {x \in Clients : at[x] = "awaits write"}
      BY <1>1, <3>2, Got, Says
    <3>5. Queue(l) = {}
      BY <3>3 DEF CanRead, Queue
    <3> QED BY <1>1, <3>4, <3>5
  <2>4. CASE Write(e)
    <3>1. at' = [at EXCEPT ![e] = "writing"] \/ at' = [at EXCEPT ![e] = "awaits write"]
      BY <2>4 DEF Write, Becomes
    <3> QED BY <1>1, <2>1, <3>1
  <2>5. CASE Dispose(e)
    <3>1. Holds(e) /\ locks \in Records /\ ref[e] = locks /\ lock \in [Records -> Lock]
      BY <1>1, <2>5, LetGo DEF Dispose, Holds, IInv, LockTypeOK
    <3>2. PICK l : l = Released(e)
      OBVIOUS
    <3>3. Left(e)[locks] = l /\ Queue(l) = {x \in Clients : at[x] = "awaits write"}
      BY <1>1, <3>1, <3>2, LetGo DEF Left
    <3>4. \/ at' = Idle(e, at)
          \/ at' = [Idle(e, at) EXCEPT ![Head(l.waitingWriters)] = "writing"]
          \/ l.waitingWriters = <<>>
      BY <2>5, <3>3 DEF Dispose, PassOn
    <3>5. CASE l.waitingWriters = <<>>
      <4>1. Queue(l) = {}
        BY <3>5 DEF Queue
      <4> QED BY <1>1, <3>3, <4>1
    <3>6. CASE l.waitingWriters # <<>>
      BY <1>1, <2>1, <3>4, <3>6 DEF Idle, Doings
    <3> QED BY <3>5, <3>6
  <2> QED BY <2>2, <2>3, <2>4, <2>5
<1>2. IInv /\ [Next]_vars =>
        [\A c, d \in Clients : at[c] = "awaits write" /\ at'[c] = "awaits write"
           /\ at'[d] = "reading" => at[d] = "reading"]_vars
  BY <1>1
<1> QED BY <1>2, Invariance, PTL DEF Spec, WritersFirst

-----------------------------------------------------------------------------
(* Lock implements ReadWriteLock.                                           *)

\* The writers in order are those of the record that get returns.
LEMMA GotOrder ==
  ASSUME IInv, NEW o \in Records, NEW l, Get(o, l)
  PROVE  WritersInOrder = l.waitingWriters
  BY DEF Get, WritersInOrder, Unused

\* A client that joins the record at o leaves there the writers in order.
LEMMA BecomesOrder ==
  ASSUME IInv, NEW c \in Clients, NEW o \in Records, NEW l, NEW how, Becomes(c, o, l, how)
  PROVE  WritersInOrder' = l.waitingWriters
<1>1. locks' = o /\ lock'[o] = l /\ o # NoRecord
  BY RecordsAssumption DEF Becomes, IInv, LockTypeOK
<1> QED BY <1>1 DEF WritersInOrder

\* read is AskToRead: the record knows whether a writer has the key or waits.
LEMMA ReadImplements ==
  ASSUME IInv, NEW c \in Clients, Read(c)
  PROVE  RW!AskToRead(c)
<1>0. PICK o \in Records : \E l \in {Unused, lock[o]} :
        /\ Get(o, l)
        /\ \/ CanRead(l) /\ Becomes(c, o, [l EXCEPT !.readers = @ \cup {c}], "reading")
           \/ ~ CanRead(l) /\ Becomes(c, o, [l EXCEPT !.waitingReaders = @ \cup {c}],
                                       "awaits read")
  BY DEF Read
<1>1. PICK l \in {Unused, lock[o]} :
        /\ Get(o, l)
        /\ \/ CanRead(l) /\ Becomes(c, o, [l EXCEPT !.readers = @ \cup {c}], "reading")
           \/ ~ CanRead(l) /\ Becomes(c, o, [l EXCEPT !.waitingReaders = @ \cup {c}],
                                       "awaits read")
  BY <1>0
<1>2. at[c] = "idle" /\ l \in Lock /\ WritersInOrder = l.waitingWriters
  BY <1>1, Got, GotOrder DEF Read
<1>3. l.writer <=> \E d \in Clients : at[d] = "writing"
  BY <1>1, Got, Says
<1>4. CanRead(l) <=> RW!Shareable
  BY <1>2, <1>3 DEF CanRead, RW!Shareable
<1>5. CASE CanRead(l) /\ Becomes(c, o, [l EXCEPT !.readers = @ \cup {c}], "reading")
  <2>1. WritersInOrder' = [l EXCEPT !.readers = @ \cup {c}].waitingWriters
    BY <1>5, BecomesOrder
  <2>2. WritersInOrder' = WritersInOrder
    BY <1>2, <2>1 DEF Lock
  <2>3. at' = [at EXCEPT ![c] = "reading"]
    BY <1>5 DEF Becomes
  <2> QED BY <1>2, <1>4, <1>5, <2>2, <2>3 DEF RW!AskToRead
<1>6. CASE ~ CanRead(l) /\ Becomes(c, o, [l EXCEPT !.waitingReaders = @ \cup {c}], "awaits read")
  <2>1. WritersInOrder' = [l EXCEPT !.waitingReaders = @ \cup {c}].waitingWriters
    BY <1>6, BecomesOrder
  <2>2. WritersInOrder' = WritersInOrder
    BY <1>2, <2>1 DEF Lock
  <2>3. at' = [at EXCEPT ![c] = "awaits read"]
    BY <1>6 DEF Becomes
  <2> QED BY <1>2, <1>4, <1>6, <2>2, <2>3 DEF RW!AskToRead
<1> QED BY <1>1, <1>5, <1>6

\* write is AskToWrite: the record knows whether anybody has the key.
LEMMA WriteImplements ==
  ASSUME IInv, NEW c \in Clients, Write(c)
  PROVE  RW!AskToWrite(c)
<1>0. PICK o \in Records : \E l \in {Unused, lock[o]} :
        /\ Get(o, l)
        /\ \/ CanWrite(l) /\ Becomes(c, o, [l EXCEPT !.writer = TRUE], "writing")
           \/ ~ CanWrite(l) /\ Becomes(c, o, [l EXCEPT !.waitingWriters = Append(@, c)],
                                        "awaits write")
  BY DEF Write
<1>1. PICK l \in {Unused, lock[o]} :
        /\ Get(o, l)
        /\ \/ CanWrite(l) /\ Becomes(c, o, [l EXCEPT !.writer = TRUE], "writing")
           \/ ~ CanWrite(l) /\ Becomes(c, o, [l EXCEPT !.waitingWriters = Append(@, c)],
                                        "awaits write")
  BY <1>0
<1>2. at[c] = "idle" /\ l \in Lock /\ WritersInOrder = l.waitingWriters
  BY <1>1, Got, GotOrder DEF Write
<1>3. /\ l.writer <=> \E d \in Clients : at[d] = "writing"
      /\ l.readers = {d \in Clients : at[d] = "reading"}
  BY <1>1, Got, Says
<1>4. CanWrite(l) <=> RW!Free
  BY <1>3 DEF CanWrite, RW!Free, RW!Holder
<1>5. CASE CanWrite(l) /\ Becomes(c, o, [l EXCEPT !.writer = TRUE], "writing")
  <2>1. WritersInOrder' = [l EXCEPT !.writer = TRUE].waitingWriters
    BY <1>5, BecomesOrder
  <2>2. WritersInOrder' = WritersInOrder
    BY <1>2, <2>1 DEF Lock
  <2>3. at' = [at EXCEPT ![c] = "writing"]
    BY <1>5 DEF Becomes
  <2> QED BY <1>2, <1>4, <1>5, <2>2, <2>3 DEF RW!AskToWrite
<1>6. CASE ~ CanWrite(l) /\ Becomes(c, o, [l EXCEPT !.waitingWriters = Append(@, c)],
                                    "awaits write")
  <2>1. WritersInOrder' = [l EXCEPT !.waitingWriters = Append(@, c)].waitingWriters
    BY <1>6, BecomesOrder
  <2>2. WritersInOrder' = Append(WritersInOrder, c)
    BY <1>2, <2>1 DEF Lock
  <2>3. at' = [at EXCEPT ![c] = "awaits write"]
    BY <1>6 DEF Becomes
  <2> QED BY <1>2, <1>4, <1>6, <2>2, <2>3 DEF RW!AskToWrite
<1> QED BY <1>1, <1>5, <1>6

\* Letting go is leaving others to read, or passing the lock on.
LEMMA DisposeImplements ==
  ASSUME IInv, NEW c \in Clients, Dispose(c)
  PROVE  RW!Leave(c) \/ RW!ToWriter(c) \/ RW!ToReaders(c)
<1>1. Holds(c) /\ PassOn(c, Left(c))
  BY DEF Dispose, Holds
<1>2. locks \in Records /\ locks # NoRecord /\ ref[c] = locks /\ lock \in [Records -> Lock]
  BY <1>1, LetGo, RecordsAssumption DEF IInv, LockTypeOK
<1>3. PICK l : l = Released(c)
  OBVIOUS
<1>4. /\ Left(c) = [lock EXCEPT ![locks] = l] /\ Left(c)[locks] = l
      /\ \A k : [Left(c) EXCEPT ![locks] = k] = [lock EXCEPT ![locks] = k]
  BY <1>2, <1>3 DEF Left
<1>5. /\ l \in Lock
      /\ l.writer <=> \E d \in Clients : d # c /\ at[d] = "writing"
      /\ l.readers = {d \in Clients : d # c /\ at[d] = "reading"}
      /\ l.waitingReaders = {d \in Clients : at[d] = "awaits read"}
  BY <1>1, <1>3, LetGo
<1>6. WritersInOrder = l.waitingWriters
  <2>1. lock[locks] \in Lock /\ WritersInOrder = lock[locks].waitingWriters
    BY <1>2 DEF WritersInOrder
  <2> QED BY <1>2, <1>3, <2>1 DEF Released, Lock
<1>7. RW!Holder(c) /\ at \in [Clients -> Doings]
  BY <1>1 DEF Holds, RW!Holder, IInv, LockTypeOK
<1>8. CASE /\ l.writer \/ l.readers # {}
           /\ lock' = Left(c) /\ at' = Idle(c, at) /\ UNCHANGED locks
  <2>1. \E d \in Clients : d # c /\ RW!Holder(d)
    BY <1>5, <1>8 DEF RW!Holder
  <2>2. WritersInOrder' = WritersInOrder
    BY <1>2, <1>4, <1>6, <1>8 DEF WritersInOrder
  <2> QED BY <1>7, <1>8, <2>1, <2>2 DEF RW!Leave, Idle
<1>9. ASSUME ~ l.writer, l.readers = {} PROVE RW!Last(c)
  BY <1>5, <1>7, <1>9 DEF RW!Last, RW!Holder
<1>10. CASE /\ ~ l.writer /\ l.readers = {} /\ l.waitingWriters # <<>>
            /\ lock' = [Left(c) EXCEPT ![locks] = [l EXCEPT !.writer = TRUE,
                                                    !.waitingWriters = Shifted(@)]]
            /\ at' = [Idle(c, at) EXCEPT ![Head(l.waitingWriters)] = "writing"]
            /\ UNCHANGED locks
  <2> PICK k : k = [l EXCEPT !.writer = TRUE, !.waitingWriters = Shifted(@)]
    OBVIOUS
  <2>1. k.waitingWriters = Tail(l.waitingWriters)
    BY <1>5 DEF Lock, Shifted
  <2>2. lock'[locks] = k
    BY <1>2, <1>4, <1>10
  <2>3. WritersInOrder' = Tail(WritersInOrder)
    BY <1>2, <1>6, <1>10, <2>1, <2>2 DEF WritersInOrder
  <2>4. at' = [at EXCEPT ![c] = "idle", ![Head(WritersInOrder)] = "writing"]
    BY <1>6, <1>10 DEF Idle
  <2> QED BY <1>6, <1>9, <1>10, <2>3, <2>4 DEF RW!ToWriter
<1>11. CASE /\ ~ l.writer /\ l.readers = {} /\ l.waitingWriters = <<>>
            /\ lock' = [Left(c) EXCEPT ![locks] = [l EXCEPT !.readers = l.waitingReaders,
                                                    !.waitingReaders = {}]]
            /\ at' = Idle(c, [d \in Clients |-> IF d \in l.waitingReaders
                                                THEN "reading" ELSE at[d]])
            /\ locks' = IF Dropped(l) THEN NoRecord ELSE locks
  <2> PICK k : k = [l EXCEPT !.readers = l.waitingReaders, !.waitingReaders = {}]
    OBVIOUS
  <2>1. k.waitingWriters = <<>>
    BY <1>5, <1>11 DEF Lock
  <2>2. lock'[locks] = k
    BY <1>2, <1>4, <1>11
  <2>3. WritersInOrder' = <<>>
    BY <1>11, <2>1, <2>2 DEF WritersInOrder
  <2>4. at' = [d \in Clients |-> IF d = c THEN "idle"
                                 ELSE IF at[d] = "awaits read" THEN "reading" ELSE at[d]]
    BY <1>5, <1>11 DEF Idle
  <2> QED BY <1>6, <1>9, <1>11, <2>3, <2>4 DEF RW!ToReaders
<1> QED BY <1>1, <1>2, <1>4, <1>8, <1>10, <1>11 DEF PassOn

\* However often records are made and dropped, the callers of a key see one lock that
\* passes from its last holder to the first writer that waits, or to all the readers.
THEOREM Refinement == Spec => ImplementsReadWriteLock
<1>1. Init => RW!RWInit
  BY DEF Init, RW!RWInit, WritersInOrder
<1>2. IInv /\ [Next]_vars => [RW!RWNext]_(RW!rwVars)
  <2> SUFFICES ASSUME IInv, [Next]_vars PROVE [RW!RWNext]_(RW!rwVars)
    OBVIOUS
  <2>1. CASE Next
    <3> PICK c \in Clients : Read(c) \/ Write(c) \/ Dispose(c)
      BY <2>1 DEF Next
    <3> QED BY ReadImplements, WriteImplements, DisposeImplements DEF RW!RWNext
  <2>2. CASE UNCHANGED vars
    BY <2>2 DEF vars, RW!rwVars, WritersInOrder
  <2> QED BY <2>1, <2>2
<1>3. Spec => RW!RWInit /\ [][RW!RWNext]_(RW!rwVars)
  BY <1>1, <1>2, Invariance, PTL DEF Spec
<1> QED BY <1>3 DEF ImplementsReadWriteLock, RW!RWSpec

=============================================================================
