------------------------------- MODULE Flock -------------------------------
(***************************************************************************)
(* util/flock.ts: a lock between processes made of a directory.  Whoever   *)
(* makes the directory owns the lock; a heartbeat file in it is touched    *)
(* while the lock is held, so that others can tell an owner that crashed   *)
(* (the directory is stale) and clean up under a second directory, the     *)
(* breaker.  A file meta.json holds the owner's token, which a release     *)
(* compares before it removes the directory.                               *)
(*                                                                         *)
(* Time is kept as the age of files in ticks: a file older than Stale is   *)
(* stale.  In one tick a process that is not late ends what it is doing    *)
(* and has its heartbeat timer served; a late one is stopped.              *)
(***************************************************************************)
EXTENDS Integers, FiniteSets

CONSTANTS Procs,        \* the processes that contend for one key
          Nobody,       \* the owner of what a crash left behind
          Stale,        \* staleMs in ticks
          MaxTries,     \* attempts that fit into a tick (a sleep is never 0 long for ever)
          MaxFaults,    \* bound: crashes, and ticks that a process was late, in one behaviour
          Late          \* the processes that may be stopped while time goes on

ASSUME ProcsAssumption == Nobody \notin Procs /\ IsFiniteSet(Procs) /\ Late \subseteq Procs
ASSUME BoundsAssumption == /\ Stale \in Nat \ {0}
                           /\ MaxTries \in Nat \ {0}
                           /\ MaxFaults \in Nat

VARIABLES
  dir,       \* the lock directory
  breaker,   \* the breaker directory
  pc,        \* where each process is in acquire or release
  tries,     \* the attempts of each process in this tick
  faults,    \* the crashes and late ticks so far
  spoiled    \* history: something happened that the lock does not withstand (see Spoils)

vars == <<dir, breaker, pc, tries, faults, spoiled>>

NoFile == -1
Ages == 0 .. Stale + 1
Owners == Procs \cup {Nobody}

\* "by" tells which process made a directory: its identity, for the properties.
Dirs == [there : BOOLEAN, by : Owners, age : Ages,
         heartbeat : Ages \cup {NoFile}, meta : Ages \cup {NoFile}, token : Owners]
Breakers == [there : BOOLEAN, by : Owners, age : Ages]

NoDir == [there |-> FALSE, by |-> Nobody, age |-> 0,
          heartbeat |-> NoFile, meta |-> NoFile, token |-> Nobody]
NoBreaker == [there |-> FALSE, by |-> Nobody, age |-> 0]

InBreaker == {"relook", "wipe", "wiping", "remake", "unbreakWon", "unbreakLost"}
Pcs == {"idle", "try", "look", "claim", "lookBreaker", "break", "heartbeat", "meta",
        "hold", "check", "drop", "dropping", "scrap", "scrapping", "wait"} \cup InBreaker

FlockTypeOK ==
  /\ dir \in Dirs
  /\ breaker \in Breakers
  /\ pc \in [Procs -> Pcs]
  /\ tries \in [Procs -> 0 .. MaxTries]
  /\ faults \in 0 .. MaxFaults
  /\ spoiled \in BOOLEAN
  /\ ~dir.there => dir = NoDir
  /\ dir.meta = NoFile => dir.token = Nobody

Init ==
  /\ dir = NoDir
  /\ breaker = NoBreaker
  /\ pc = [p \in Procs |-> "idle"]
  /\ tries = [p \in Procs |-> 0]
  /\ faults = 0
  /\ spoiled = FALSE

-----------------------------------------------------------------------------
(* What the file system holds *)

MadeBy(p) == [there |-> TRUE, by |-> p, age |-> 0,
              heartbeat |-> NoFile, meta |-> NoFile, token |-> Nobody]

\* Variant: the age of the metadata decides.
IsStale_ByMeta ==
  /\ dir.there
  /\ IF dir.meta # NoFile THEN dir.meta > Stale ELSE dir.age > Stale

\* stale(): the heartbeat decides, without one the metadata, then the directory.
IsStale ==
  /\ dir.there
  /\ IF dir.heartbeat # NoFile THEN dir.heartbeat > Stale
     ELSE IF dir.meta # NoFile THEN dir.meta > Stale
     ELSE dir.age > Stale

Older(age) == IF age = NoFile \/ age > Stale THEN age ELSE age + 1

\* A recursive rm unlinks either file first, then the rest and the directory.
Unlinked(file) ==
  IF ~dir.there THEN dir
  ELSE IF file = "heartbeat" THEN [dir EXCEPT !.heartbeat = NoFile, !.age = 0]
  ELSE [dir EXCEPT !.meta = NoFile, !.token = Nobody, !.age = 0]

\* A release loses the heartbeat first, and meta.json, as old as the lock, makes what is
\* left look stale.
Spoils(p, file) == pc[p] = "drop" /\ file = "heartbeat" /\ dir.meta > Stale

\* p is done with the lock: what is left of its directory has no owner.
Disowned(d, p) == [d EXCEPT !.by = IF @ = p THEN Nobody ELSE @,
                            !.token = IF @ = p THEN Nobody ELSE @]

Go(p, from, to) == pc[p] = from /\ pc' = [pc EXCEPT ![p] = to]

-----------------------------------------------------------------------------
(* acquire *)

Acquire(p) ==
  /\ Go(p, "idle", "try")
  /\ tries[p] < MaxTries
  /\ tries' = [tries EXCEPT ![p] = @ + 1]
  /\ UNCHANGED <<dir, breaker, faults, spoiled>>

MakeDir(p) ==
  /\ ~dir.there
  /\ Go(p, "try", "heartbeat")
  /\ dir' = MadeBy(p)
  /\ UNCHANGED <<breaker, tries, faults, spoiled>>

FindDir(p) ==
  /\ dir.there
  /\ Go(p, "try", "look")
  /\ UNCHANGED <<dir, breaker, tries, faults, spoiled>>

Look(p) ==
  /\ Go(p, "look", IF IsStale THEN "claim" ELSE "wait")
  /\ UNCHANGED <<dir, breaker, tries, faults, spoiled>>

Claim(p) ==
  /\ ~breaker.there
  /\ Go(p, "claim", "relook")
  /\ breaker' = [there |-> TRUE, by |-> p, age |-> 0]
  /\ UNCHANGED <<dir, tries, faults, spoiled>>

ClaimTaken(p) ==
  /\ breaker.there
  /\ Go(p, "claim", "lookBreaker")
  /\ UNCHANGED <<dir, breaker, tries, faults, spoiled>>

LookBreaker(p) ==
  /\ Go(p, "lookBreaker", IF breaker.there /\ breaker.age > Stale THEN "break" ELSE "wait")
  /\ UNCHANGED <<dir, breaker, tries, faults, spoiled>>

\* Variant: an old breaker is left where it is.
BreakBreaker_Leaves(p) ==
  /\ Go(p, "break", "wait")
  /\ UNCHANGED <<dir, breaker, tries, faults, spoiled>>

\* The breaker was old when it was looked at; whatever is there now is removed.
BreakBreaker(p) ==
  /\ Go(p, "break", "wait")
  /\ breaker' = NoBreaker
  /\ UNCHANGED <<dir, tries, faults, spoiled>>

\* Variant: no second look under the breaker.
Relook_Trusts(p) ==
  /\ Go(p, "relook", "wipe")
  /\ UNCHANGED <<dir, breaker, tries, faults, spoiled>>

Relook(p) ==
  /\ Go(p, "relook", IF IsStale THEN "wipe" ELSE "unbreakLost")
  /\ UNCHANGED <<dir, breaker, tries, faults, spoiled>>

Remake(p) ==
  /\ IF dir.there THEN Go(p, "remake", "unbreakLost") /\ dir' = dir
                  ELSE Go(p, "remake", "unbreakWon") /\ dir' = MadeBy(p)
  /\ UNCHANGED <<breaker, tries, faults, spoiled>>

\* The finally: removes the breaker at this path, whoever made it.
Unbreak(p) ==
  /\ Go(p, "unbreakWon", "heartbeat") \/ Go(p, "unbreakLost", "wait")
  /\ breaker' = NoBreaker
  /\ UNCHANGED <<dir, tries, faults, spoiled>>

\* Both files are written with "wx": only if the directory is there and the file is not.
WriteHeartbeat(p) ==
  /\ IF dir.there /\ dir.heartbeat = NoFile
     THEN /\ Go(p, "heartbeat", "meta")
          /\ dir' = [dir EXCEPT !.heartbeat = 0, !.age = 0]
     ELSE Go(p, "heartbeat", "scrap") /\ dir' = dir
  /\ UNCHANGED <<breaker, tries, faults, spoiled>>

WriteMeta(p) ==
  /\ IF dir.there /\ dir.meta = NoFile
     THEN /\ Go(p, "meta", "hold")
          /\ dir' = [dir EXCEPT !.meta = 0, !.token = p, !.age = 0]
     ELSE Go(p, "meta", "scrap") /\ dir' = dir
  /\ UNCHANGED <<breaker, tries, faults, spoiled>>

Retry(p) ==
  /\ Go(p, "wait", "try")
  /\ tries[p] < MaxTries
  /\ tries' = [tries EXCEPT ![p] = @ + 1]
  /\ UNCHANGED <<dir, breaker, faults, spoiled>>

\* The time is up, or the signal aborts the wait.
GiveUp(p) ==
  /\ Go(p, "wait", "idle")
  /\ UNCHANGED <<dir, breaker, tries, faults, spoiled>>

-----------------------------------------------------------------------------
(* The three recursive removals: a stale lock's, a failed acquire's, a release's *)

BeginRm(p) ==
  /\ Go(p, "wipe", "wiping") \/ Go(p, "scrap", "scrapping") \/ Go(p, "drop", "dropping")
  /\ \E file \in {"heartbeat", "meta"} :
       dir' = Unlinked(file) /\ spoiled' = (spoiled \/ Spoils(p, file))
  /\ UNCHANGED <<breaker, tries, faults>>

\* Variant: the files go, the directory's own entry stays behind.
EndRm_LeavesFiles(p) ==
  /\ Go(p, "wiping", "remake") \/ Go(p, "scrapping", "idle") \/ Go(p, "dropping", "idle")
  /\ dir' = [dir EXCEPT !.there = FALSE]
  /\ UNCHANGED <<breaker, tries, faults, spoiled>>

EndRm(p) ==
  /\ Go(p, "wiping", "remake") \/ Go(p, "scrapping", "idle") \/ Go(p, "dropping", "idle")
  /\ dir' = NoDir
  /\ UNCHANGED <<breaker, tries, faults, spoiled>>

-----------------------------------------------------------------------------
(* release *)

\* The timer is cleared first: from here on p's heartbeat ages.
Release(p) ==
  /\ Go(p, "hold", "check")
  /\ UNCHANGED <<dir, breaker, tries, faults, spoiled>>

CheckToken(p) ==
  /\ IF dir.token = p
     THEN Go(p, "check", "drop") /\ dir' = dir
     ELSE Go(p, "check", "idle") /\ dir' = Disowned(dir, p)
  /\ UNCHANGED <<breaker, tries, faults, spoiled>>

-----------------------------------------------------------------------------
(* The environment *)

\* A process dies and another takes its name; what it made stays behind.
Crash(p) ==
  /\ pc[p] # "idle"
  /\ faults < MaxFaults
  /\ faults' = faults + 1
  /\ pc' = [pc EXCEPT ![p] = "idle"]
  /\ dir' = Disowned(dir, p)
  /\ breaker' = [breaker EXCEPT !.by = IF @ = p THEN Nobody ELSE @]
  /\ spoiled' = (spoiled \/ breaker.by = p)
  /\ UNCHANGED tries

\* The timers that are served touch the heartbeat file at the path, whose ever it is.
Touched(late) == \E p \in Procs \ late : pc[p] = "hold"

Busy(p) == pc[p] \notin {"idle", "wait"}

Tick ==
  \E late \in {{}} \cup {{p} : p \in {q \in Late : Busy(q)}} :
    /\ \A p \in Procs \ late : Busy(p) => pc[p] = "hold"
    /\ dir' = IF ~dir.there THEN dir
              ELSE [dir EXCEPT !.age = Older(@), !.meta = Older(@),
                               !.heartbeat = IF @ # NoFile /\ Touched(late) THEN 0 ELSE Older(@)]
    /\ breaker' = IF breaker.there THEN [breaker EXCEPT !.age = Older(@)] ELSE breaker
    /\ tries' = [p \in Procs |-> 0]
    /\ late # {} => faults < MaxFaults
    /\ faults' = IF late = {} THEN faults ELSE faults + 1
    /\ spoiled' = (spoiled \/ late # {})
    /\ UNCHANGED pc

-----------------------------------------------------------------------------
\* What a process does without being asked, and owes.
Proceed(p) ==
  \/ MakeDir(p) \/ FindDir(p) \/ Look(p)
  \/ Claim(p) \/ ClaimTaken(p) \/ LookBreaker(p) \/ BreakBreaker(p)
  \/ Relook(p) \/ Remake(p) \/ Unbreak(p)
  \/ WriteHeartbeat(p) \/ WriteMeta(p) \/ Retry(p)
  \/ BeginRm(p) \/ EndRm(p) \/ CheckToken(p)

Next ==
  \/ \E p \in Procs : Proceed(p) \/ Acquire(p) \/ GiveUp(p) \/ Release(p) \/ Crash(p)
  \/ Tick

Spec == Init /\ [][Next]_vars

\* Processes run unless they crash, and time goes on.
FairSpec ==
  Spec /\ SF_vars(Tick) /\ \A p \in Procs : WF_vars(Proceed(p)) /\ WF_vars(Release(p))

-----------------------------------------------------------------------------
(* Properties *)

Holding == {p \in Procs : pc[p] = "hold"}

\* Two processes never hold the lock (withLock's promise), whoever crashed and however
\* many contend for a stale lock, in behaviours without the three things it does not
\* withstand: a crash in the middle of a cleanup; an operation or a heartbeat that is late;
\* and, of a lock held for longer than staleMs, a release whose rm unlinks the heartbeat
\* before meta.json.
Exclusive == ~spoiled => Cardinality(Holding) <= 1

\* On the same condition a holder's lock is whole: its directory is its own and has its
\* token and its heartbeat, so that its release will succeed and nobody judges it stale.
HolderIntact ==
  ~spoiled => \A p \in Holding : dir.by = p /\ dir.token = p /\ dir.heartbeat \in 0 .. Stale

\* A stale cleanup removes a directory only when its maker is gone
\* ("automatic recovery after crashed owners"), and a release or a failed acquire
\* only its own, however the steps of the processes fall.
RemovesOwnOrDead ==
  [][\A p \in Procs :
       ~spoiled /\ dir.there /\ ~dir'.there /\ EndRm(p) => dir.by \in {p, Nobody}]_vars

\* A lock that a crash left behind does not stay while somebody contends for it.
DeadLock == dir.there /\ dir.by = Nobody /\ \E p \in Procs : pc[p] # "idle"
DeadLocksGo == ~<>[]DeadLock
=============================================================================
