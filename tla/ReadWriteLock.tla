--------------------------- MODULE ReadWriteLock ---------------------------
(***************************************************************************)
(* What util/lock.ts promises its callers: one lock per key that readers   *)
(* share and a writer has to itself, writers getting it in the order in    *)
(* which they asked and before the readers that wait, and a lock that is   *)
(* let go of passed on in the same step.  Of records, of the map and of    *)
(* their creation and removal it knows nothing.                            *)
(***************************************************************************)
EXTENDS Sequences

CONSTANT Clients   \* callers of read and write

VARIABLES
  doing,   \* what each client is doing
  queue    \* the writers that wait, in the order in which they asked

rwVars == <<doing, queue>>

Holder(c) == doing[c] \in {"reading", "writing"}
Free      == \A c \in Clients : ~ Holder(c)
Shareable == queue = <<>> /\ \A c \in Clients : doing[c] # "writing"

RWInit == doing = [c \in Clients |-> "idle"] /\ queue = <<>>

AskToRead(c) ==
  /\ doing[c] = "idle"
  /\ doing' = [doing EXCEPT ![c] = IF Shareable THEN "reading" ELSE "awaits read"]
  /\ UNCHANGED queue

AskToWrite(c) ==
  /\ doing[c] = "idle"
  /\ IF Free THEN doing' = [doing EXCEPT ![c] = "writing"] /\ UNCHANGED queue
             ELSE doing' = [doing EXCEPT ![c] = "awaits write"] /\ queue' = Append(queue, c)

\* A reader lets go while others read.
Leave(c) ==
  /\ Holder(c)
  /\ \E d \in Clients : d # c /\ Holder(d)
  /\ doing' = [doing EXCEPT ![c] = "idle"]
  /\ UNCHANGED queue

Last(c) == Holder(c) /\ \A d \in Clients : Holder(d) => d = c

\* The last holder passes the lock on to the first writer that waits ...
ToWriter(c) ==
  /\ Last(c)
  /\ queue # <<>>
  /\ doing' = [doing EXCEPT ![c] = "idle", ![Head(queue)] = "writing"]
  /\ queue' = Tail(queue)

\* ... or to all the readers that wait, if there are any.
ToReaders(c) ==
  /\ Last(c)
  /\ queue = <<>>
  /\ doing' = [d \in Clients |-> IF d = c THEN "idle"
                                 ELSE IF doing[d] = "awaits read" THEN "reading"
                                 ELSE doing[d]]
  /\ UNCHANGED queue

RWNext == \E c \in Clients :
            AskToRead(c) \/ AskToWrite(c) \/ Leave(c) \/ ToWriter(c) \/ ToReaders(c)

RWSpec == RWInit /\ [][RWNext]_rwVars
=============================================================================
