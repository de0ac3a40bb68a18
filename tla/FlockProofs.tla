---------------------------- MODULE FlockProofs ----------------------------
(***************************************************************************)
(* Proofs about Flock for any number of processes, any staleMs and any     *)
(* number of faults: until something happens that the lock does not        *)
(* withstand (spoiled), nobody else gets a lock that is held.              *)
(***************************************************************************)
EXTENDS Flock, FiniteSetTheorems, TLAPS

-----------------------------------------------------------------------------
(* The inductive invariant *)

\* Where a process owns the lock directory.
Live == {"unbreakWon", "heartbeat", "meta", "hold", "check", "drop", "dropping"}

\* What the directory of a process looks like while it is acquired, held and released.
Owned(p) ==
  /\ dir.there = TRUE
  /\ dir.by = p
  /\ pc[p] \in {"unbreakWon", "heartbeat"} =>
       dir.heartbeat = NoFile /\ dir.meta = NoFile /\ dir.age = 0
  /\ pc[p] = "meta" => dir.heartbeat = 0 /\ dir.meta = NoFile
  /\ pc[p] \in {"hold", "check", "drop"} => dir.heartbeat = 0 /\ dir.token = p
  /\ pc[p] = "dropping" =>
       dir.heartbeat = 0 \/ (dir.heartbeat = NoFile /\ dir.meta \in 0 .. Stale)

\* The directory belongs to the one live process that made it, or to none.
DirOwned == /\ \A p \in Procs : pc[p] \in Live => Owned(p)
            /\ \A p \in Procs : dir.by = p => pc[p] \in Live

\* The breaker belongs to the one process that is cleaning up, and was made in this tick.
BreakerOwned ==
  /\ \A p \in Procs : pc[p] \in InBreaker => breaker.there = TRUE /\ breaker.by = p
  /\ breaker.there = TRUE =>
       breaker.by \in Procs /\ pc[breaker.by] \in InBreaker /\ breaker.age = 0

\* A breaker never gets old, and no acquire finds another's files in its directory.
NoRepair == \A p \in Procs : pc[p] \notin {"break", "scrap", "scrapping"}

\* What is being removed as stale is there and belongs to nobody.
WipesDead == \A p \in Procs :
               pc[p] \in {"wipe", "wiping"} => dir.there = TRUE /\ dir.by = Nobody

Sound == DirOwned /\ BreakerOwned /\ NoRepair /\ WipesDead

IInv == FlockTypeOK /\ (~spoiled => Sound)

-----------------------------------------------------------------------------
(* Facts about the operators *)

\* Where a process can go next is a place of the program.
LEMMA GoType ==
  ASSUME pc \in [Procs -> Pcs], NEW p \in Procs, NEW from, NEW to \in Pcs, Go(p, from, to)
  PROVE  /\ pc' \in [Procs -> Pcs]
         /\ pc[p] = from /\ pc'[p] = to
         /\ \A q \in Procs : q # p => pc'[q] = pc[q]
  BY DEF Go

\* An older file has an age.
LEMMA OlderType ==
  /\ \A age \in Ages : Older(age) \in Ages
  /\ \A age \in Ages \cup {NoFile} : Older(age) \in Ages \cup {NoFile}
  /\ Older(NoFile) = NoFile
  /\ \A age \in Ages \cup {NoFile} : Older(age) = NoFile => age = NoFile
  BY BoundsAssumption DEF Ages, NoFile, Older

\* The types of the records.
LEMMA RecordTypes ==
  /\ 0 \in Ages
  /\ NoDir \in Dirs /\ NoDir.there = FALSE /\ NoDir.by = Nobody /\ NoDir.meta = NoFile
  /\ NoDir.token = Nobody
  /\ NoBreaker \in Breakers /\ NoBreaker.there = FALSE /\ NoBreaker.by = Nobody
<1>1. 0 \in Ages /\ Nobody \in Owners
  BY BoundsAssumption DEF Ages, Owners
<1> QED
  BY <1>1 DEF NoDir, NoBreaker, Dirs, Breakers

\* A new directory is its maker's, and has no files.
LEMMA MadeType ==
  ASSUME NEW p \in Procs
  PROVE  /\ MadeBy(p) \in Dirs /\ MadeBy(p).there = TRUE /\ MadeBy(p).by = p
         /\ MadeBy(p).heartbeat = NoFile /\ MadeBy(p).meta = NoFile /\ MadeBy(p).age = 0
         /\ MadeBy(p).token = Nobody
<1>1. 0 \in Ages /\ p \in Owners /\ Nobody \in Owners
  BY BoundsAssumption DEF Ages, Owners
<1> QED
  BY <1>1 DEF MadeBy, Dirs

\* The directory while its owner is alive and on time is not stale.
LEMMA LiveNotStale ==
  ASSUME FlockTypeOK, Sound, NEW p \in Procs, pc[p] \in Live
  PROVE  ~IsStale
<1>1. Owned(p)
  BY DEF Sound, DirOwned
<1>2. \/ dir.heartbeat = 0
      \/ dir.heartbeat = NoFile /\ dir.meta = NoFile /\ dir.age = 0
      \/ dir.heartbeat = NoFile /\ dir.meta \in 0 .. Stale
  BY <1>1 DEF Owned, Live
<1> QED
  BY <1>2, BoundsAssumption DEF IsStale, NoFile

-----------------------------------------------------------------------------
(* Types *)

LEMMA InitType == Init => FlockTypeOK
<1> SUFFICES ASSUME Init PROVE FlockTypeOK
  OBVIOUS
<1>1. "idle" \in Pcs /\ 0 \in 0 .. MaxTries /\ 0 \in 0 .. MaxFaults
  BY BoundsAssumption DEF Pcs
<1> QED
  BY <1>1, RecordTypes DEF Init, FlockTypeOK

\* Steps of one process that leave both directories alone.
LEMMA TypeMoves ==
  ASSUME FlockTypeOK, NEW p \in Procs,
         \/ Acquire(p) \/ FindDir(p) \/ Look(p) \/ ClaimTaken(p) \/ LookBreaker(p)
         \/ Relook(p) \/ Retry(p) \/ GiveUp(p) \/ Release(p)
  PROVE  FlockTypeOK'
<1>1. UNCHANGED <<dir, breaker, faults, spoiled>>
  BY DEF Acquire, FindDir, Look, ClaimTaken, LookBreaker, Relook, Retry, GiveUp, Release
<1>2. tries' \in [Procs -> 0 .. MaxTries]
  BY BoundsAssumption
     DEF FlockTypeOK, Acquire, FindDir, Look, ClaimTaken, LookBreaker, Relook, Retry, GiveUp,
         Release
<1>3. pc' \in [Procs -> Pcs]
  BY DEF FlockTypeOK, Pcs, InBreaker, Go, Acquire, FindDir, Look, ClaimTaken, LookBreaker,
         Relook, Retry, GiveUp, Release
<1> QED
  BY <1>1, <1>2, <1>3 DEF FlockTypeOK

\* Steps that make or remove the breaker.
LEMMA TypeBreaker ==
  ASSUME FlockTypeOK, NEW p \in Procs, Claim(p) \/ BreakBreaker(p) \/ Unbreak(p)
  PROVE  FlockTypeOK'
<1>1. UNCHANGED <<dir, tries, faults, spoiled>>
  BY DEF Claim, BreakBreaker, Unbreak
<1>2. pc' \in [Procs -> Pcs]
  BY DEF FlockTypeOK, Pcs, InBreaker, Go, Claim, BreakBreaker, Unbreak
<1>3. breaker' \in Breakers
  <2>1. CASE Claim(p)
    <3>1. p \in Owners /\ 0 \in Ages
      BY RecordTypes DEF Owners
    <3> QED
      BY <2>1, <3>1 DEF Claim, Breakers
  <2>2. CASE BreakBreaker(p) \/ Unbreak(p)
    BY <2>2, RecordTypes DEF BreakBreaker, Unbreak
  <2> QED
    BY <2>1, <2>2
<1> QED
  BY <1>1, <1>2, <1>3 DEF FlockTypeOK

\* Steps that make the directory, or remove it.
LEMMA TypeMake ==
  ASSUME FlockTypeOK, NEW p \in Procs, MakeDir(p) \/ Remake(p) \/ EndRm(p)
  PROVE  FlockTypeOK'
<1>1. UNCHANGED <<breaker, tries, faults, spoiled>>
  BY DEF MakeDir, Remake, EndRm
<1>2. pc' \in [Procs -> Pcs]
  BY DEF FlockTypeOK, Pcs, InBreaker, Go, MakeDir, Remake, EndRm
<1>3. dir' \in {dir, NoDir, MadeBy(p)}
  BY DEF MakeDir, Remake, EndRm
<1>4. dir' \in Dirs /\ (~dir'.there => dir' = NoDir) /\ (dir'.meta = NoFile => dir'.token = Nobody)
  BY <1>3, RecordTypes, MadeType DEF FlockTypeOK
<1> QED
  BY <1>1, <1>2, <1>4 DEF FlockTypeOK

\* Steps that write or unlink a file.
LEMMA TypeFiles ==
  ASSUME FlockTypeOK, NEW p \in Procs, WriteHeartbeat(p) \/ WriteMeta(p) \/ BeginRm(p)
  PROVE  FlockTypeOK'
<1>1. UNCHANGED <<breaker, tries, faults>> /\ spoiled' \in BOOLEAN
  BY DEF WriteHeartbeat, WriteMeta, BeginRm, FlockTypeOK
<1>2. pc' \in [Procs -> Pcs]
  BY DEF FlockTypeOK, Pcs, InBreaker, Go, WriteHeartbeat, WriteMeta, BeginRm
<1>3. \/ dir' = dir
      \/ dir.there /\ dir' = [dir EXCEPT !.heartbeat = 0, !.age = 0]
      \/ dir.there /\ dir' = [dir EXCEPT !.meta = 0, !.token = p, !.age = 0]
      \/ dir.there /\ dir' = [dir EXCEPT !.heartbeat = NoFile, !.age = 0]
      \/ dir.there /\ dir' = [dir EXCEPT !.meta = NoFile, !.token = Nobody, !.age = 0]
  BY DEF WriteHeartbeat, WriteMeta, BeginRm, Unlinked
<1>4. /\ dir \in Dirs /\ 0 \in Ages /\ 0 # NoFile /\ p \in Owners /\ Nobody \in Owners
      /\ dir.meta = NoFile => dir.token = Nobody
      /\ ~dir.there => dir = NoDir
  BY RecordTypes DEF FlockTypeOK, NoFile, Owners
<1>5. dir' \in Dirs /\ dir'.there = dir.there /\ (dir'.meta = NoFile => dir'.token = Nobody)
  <2>1. CASE dir' = dir
    BY <2>1, <1>4
  <2>2. CASE dir' = [dir EXCEPT !.heartbeat = 0, !.age = 0]
    BY <2>2, <1>4 DEF Dirs
  <2>3. CASE dir' = [dir EXCEPT !.meta = 0, !.token = p, !.age = 0]
    BY <2>3, <1>4 DEF Dirs
  <2>4. CASE dir' = [dir EXCEPT !.heartbeat = NoFile, !.age = 0]
    BY <2>4, <1>4 DEF Dirs
  <2>5. CASE dir' = [dir EXCEPT !.meta = NoFile, !.token = Nobody, !.age = 0]
    BY <2>5, <1>4 DEF Dirs
  <2> QED
    BY <2>1, <2>2, <2>3, <2>4, <2>5, <1>3
<1>6. ~dir'.there => dir' = NoDir
  BY <1>3, <1>4, <1>5
<1> QED
  BY <1>1, <1>2, <1>5, <1>6 DEF FlockTypeOK

\* Who is done with a directory, or dead, is not named in it.
LEMMA DisownedType ==
  ASSUME FlockTypeOK, NEW p \in Procs, NEW d, d = Disowned(dir, p)
  PROVE  /\ d \in Dirs /\ d.there = dir.there /\ d.age = dir.age
         /\ d.heartbeat = dir.heartbeat /\ d.meta = dir.meta
         /\ d.by = IF dir.by = p THEN Nobody ELSE dir.by
         /\ d.token = IF dir.token = p THEN Nobody ELSE dir.token
         /\ ~d.there => d = NoDir
         /\ d.meta = NoFile => d.token = Nobody
<1> PICK b : b = IF dir.by = p THEN Nobody ELSE dir.by
  OBVIOUS
<1> PICK t : t = IF dir.token = p THEN Nobody ELSE dir.token
  OBVIOUS
<1>1. dir \in Dirs /\ b \in Owners /\ t \in Owners
  BY DEF FlockTypeOK, Dirs, Owners
<1>2. d = [dir EXCEPT !.by = b, !.token = t]
  BY DEF Disowned
<1>3. /\ d \in Dirs /\ d.there = dir.there /\ d.age = dir.age
      /\ d.heartbeat = dir.heartbeat /\ d.meta = dir.meta /\ d.by = b /\ d.token = t
  BY <1>1, <1>2 DEF Dirs
<1>4. ~d.there => d = NoDir
  <2> SUFFICES ASSUME ~d.there PROVE d = NoDir
    OBVIOUS
  <2>1. dir = NoDir
    BY <1>3 DEF FlockTypeOK
  <2>2. b = Nobody /\ t = Nobody
    BY <2>1, RecordTypes
  <2> QED
    BY <1>2, <2>1, <2>2 DEF NoDir
<1> QED
  BY <1>3, <1>4 DEF FlockTypeOK

\* A release that finds another's token, and a crash.
LEMMA TypeDisowns ==
  ASSUME FlockTypeOK, NEW p \in Procs, CheckToken(p) \/ Crash(p)
  PROVE  FlockTypeOK'
<1> PICK d : d = Disowned(dir, p)
  OBVIOUS
<1>1. /\ dir' = dir \/ dir' = d
      /\ tries' = tries
  BY DEF CheckToken, Crash
<1>2. pc' \in [Procs -> Pcs]
  BY DEF FlockTypeOK, Pcs, InBreaker, Go, CheckToken, Crash
<1>3. dir' \in Dirs /\ (~dir'.there => dir' = NoDir) /\ (dir'.meta = NoFile => dir'.token = Nobody)
  BY <1>1, DisownedType DEF FlockTypeOK
<1>4. CASE CheckToken(p)
  BY <1>1, <1>2, <1>3, <1>4 DEF CheckToken, FlockTypeOK
<1>5. CASE Crash(p)
  <2> PICK b : b = IF breaker.by = p THEN Nobody ELSE breaker.by
    OBVIOUS
  <2>1. breaker \in Breakers /\ b \in Owners
    BY DEF FlockTypeOK, Breakers, Owners
  <2>2. breaker' = [breaker EXCEPT !.by = b]
    BY <1>5 DEF Crash
  <2>3. breaker' \in Breakers
    BY <2>1, <2>2 DEF Breakers
  <2>4. faults' \in 0 .. MaxFaults
    BY <1>5, BoundsAssumption DEF Crash, FlockTypeOK
  <2>5. spoiled' \in BOOLEAN
    BY <1>5 DEF Crash
  <2> QED
    BY <1>1, <1>2, <1>3, <2>3, <2>4, <2>5 DEF FlockTypeOK
<1> QED
  BY <1>4, <1>5

\* What a tick does to the directory.
LEMMA TickDir ==
  ASSUME FlockTypeOK, NEW late, dir.there, NEW d,
         d = [dir EXCEPT !.age = Older(@), !.meta = Older(@),
                         !.heartbeat = IF @ # NoFile /\ Touched(late) THEN 0 ELSE Older(@)]
  PROVE  /\ d \in Dirs /\ d.there = dir.there /\ d.by = dir.by /\ d.token = dir.token
         /\ d.meta = Older(dir.meta)
         /\ dir.heartbeat # NoFile /\ Touched(late) => d.heartbeat = 0
<1> PICK h : h = IF dir.heartbeat # NoFile /\ Touched(late) THEN 0 ELSE Older(dir.heartbeat)
  OBVIOUS
<1> PICK a : a = Older(dir.age)
  OBVIOUS
<1> PICK m : m = Older(dir.meta)
  OBVIOUS
<1>1. dir \in Dirs
  BY DEF FlockTypeOK
<1>2. dir.age \in Ages /\ dir.meta \in Ages \cup {NoFile} /\ dir.heartbeat \in Ages \cup {NoFile}
  BY <1>1 DEF Dirs
<1>3. a \in Ages /\ m \in Ages \cup {NoFile} /\ h \in Ages \cup {NoFile}
  BY <1>2, OlderType, RecordTypes
<1>4. d = [dir EXCEPT !.age = a, !.meta = m, !.heartbeat = h]
  OBVIOUS
<1> QED
  BY <1>1, <1>3, <1>4 DEF Dirs

LEMMA TypeTick == FlockTypeOK /\ Tick => FlockTypeOK'
<1> SUFFICES ASSUME FlockTypeOK, Tick PROVE FlockTypeOK'
  OBVIOUS
<1> PICK late \in {{}} \cup {{p} : p \in {q \in Late : Busy(q)}} :
      /\ dir' = IF ~dir.there THEN dir
                ELSE [dir EXCEPT !.age = Older(@), !.meta = Older(@),
                        !.heartbeat = IF @ # NoFile /\ Touched(late) THEN 0 ELSE Older(@)]
      /\ breaker' = IF breaker.there THEN [breaker EXCEPT !.age = Older(@)] ELSE breaker
      /\ tries' = [p \in Procs |-> 0]
      /\ late # {} => faults < MaxFaults
      /\ faults' = IF late = {} THEN faults ELSE faults + 1
      /\ spoiled' = (spoiled \/ late # {})
      /\ UNCHANGED pc
  BY DEF Tick
<1>1. tries' \in [Procs -> 0 .. MaxTries] /\ faults' \in 0 .. MaxFaults /\ spoiled' \in BOOLEAN
  BY BoundsAssumption DEF FlockTypeOK
<1>2. breaker' \in Breakers
  <2> PICK a : a = Older(breaker.age)
    OBVIOUS
  <2>1. breaker \in Breakers /\ a \in Ages
    BY OlderType DEF FlockTypeOK, Breakers
  <2>2. breaker' = [breaker EXCEPT !.age = a] \/ breaker' = breaker
    OBVIOUS
  <2> QED
    BY <2>1, <2>2 DEF Breakers
<1>3. dir' \in Dirs /\ (~dir'.there => dir' = NoDir) /\ (dir'.meta = NoFile => dir'.token = Nobody)
  <2>1. CASE ~dir.there
    BY <2>1 DEF FlockTypeOK
  <2>2. CASE dir.there
    <3>1. /\ dir' \in Dirs /\ dir'.there = dir.there /\ dir'.token = dir.token
          /\ dir'.meta = Older(dir.meta)
      BY <2>2, TickDir
    <3>2. dir.meta \in Ages \cup {NoFile}
      BY DEF FlockTypeOK, Dirs
    <3> QED
      BY <2>2, <3>1, <3>2, OlderType DEF FlockTypeOK
  <2> QED
    BY <2>1, <2>2
<1> QED
  BY <1>1, <1>2, <1>3 DEF FlockTypeOK

LEMMA NextType == FlockTypeOK /\ [Next]_vars => FlockTypeOK'
<1> SUFFICES ASSUME FlockTypeOK, [Next]_vars PROVE FlockTypeOK'
  OBVIOUS
<1>1. CASE UNCHANGED vars
  BY <1>1 DEF vars, FlockTypeOK
<1>2. CASE Tick
  BY <1>2, TypeTick
<1>3. ASSUME NEW p \in Procs, Proceed(p) \/ Acquire(p) \/ GiveUp(p) \/ Release(p) \/ Crash(p)
      PROVE  FlockTypeOK'
  BY <1>3, TypeMoves, TypeBreaker, TypeMake, TypeFiles, TypeDisowns DEF Proceed
<1> QED
  BY <1>1, <1>2, <1>3 DEF Next

-----------------------------------------------------------------------------
(* The lock stays sound: one lemma for each kind of step *)

LEMMA InitSound == Init => Sound
<1> SUFFICES ASSUME Init PROVE Sound
  OBVIOUS
<1>1. \A p \in Procs : pc[p] = "idle" /\ p # Nobody
  BY ProcsAssumption DEF Init
<1>2. dir.by = Nobody /\ breaker.there = FALSE
  BY RecordTypes DEF Init
<1> QED
  BY <1>1, <1>2 DEF Sound, DirOwned, BreakerOwned, NoRepair, WipesDead, Live, InBreaker

\* A process that owns nothing moves on to where it owns nothing.
LEMMA SoundMoves ==
  ASSUME FlockTypeOK, Sound, NEW p \in Procs, NEW to,
         UNCHANGED <<dir, breaker>>, pc' = [pc EXCEPT ![p] = to],
         pc[p] \notin Live \cup InBreaker,
         to \notin Live \cup InBreaker \cup {"break", "scrap", "scrapping", "wipe", "wiping"}
  PROVE  Sound'
<1>1. pc'[p] = to /\ \A q \in Procs : q # p => pc'[q] = pc[q]
  BY DEF FlockTypeOK
<1>2. DirOwned'
  BY <1>1 DEF Sound, DirOwned, Owned
<1>3. BreakerOwned'
  BY <1>1 DEF Sound, BreakerOwned
<1>4. NoRepair' /\ WipesDead'
  BY <1>1 DEF Sound, NoRepair, WipesDead
<1> QED
  BY <1>2, <1>3, <1>4 DEF Sound

\* Looking at the lock and the breaker, waiting, trying again and giving up.
LEMMA SoundWaits ==
  ASSUME FlockTypeOK, Sound, NEW p \in Procs,
         \/ Acquire(p) \/ FindDir(p) \/ Look(p) \/ ClaimTaken(p) \/ LookBreaker(p)
         \/ Retry(p) \/ GiveUp(p)
  PROVE  Sound'
<1>1. UNCHANGED <<dir, breaker>>
  BY DEF Acquire, FindDir, Look, ClaimTaken, LookBreaker, Retry, GiveUp
<1>2. ~(breaker.there /\ breaker.age > Stale)
  BY BoundsAssumption DEF Sound, BreakerOwned, FlockTypeOK, Breakers
<1>3. \E to \in {"try", "look", "claim", "wait", "lookBreaker", "idle"} :
        pc' = [pc EXCEPT ![p] = to]
  BY <1>2 DEF Acquire, FindDir, Look, ClaimTaken, LookBreaker, Retry, GiveUp, Go
<1>4. pc[p] \in {"idle", "try", "look", "claim", "lookBreaker", "wait"}
  BY DEF Acquire, FindDir, Look, ClaimTaken, LookBreaker, Retry, GiveUp, Go
<1> QED
  BY <1>1, <1>3, <1>4, SoundMoves DEF Live, InBreaker

\* A directory is made where there was none: nobody owned one, nobody is wiping one.
LEMMA SoundMakeDir ==
  ASSUME FlockTypeOK, Sound, NEW p \in Procs, MakeDir(p)
  PROVE  Sound'
<1>1. /\ ~dir.there /\ dir' = MadeBy(p) /\ breaker' = breaker
      /\ pc[p] = "try" /\ pc'[p] = "heartbeat"
      /\ \A q \in Procs : q # p => pc'[q] = pc[q]
  BY DEF MakeDir, Go, FlockTypeOK
<1>2. \A q \in Procs : pc[q] \notin Live \cup {"wipe", "wiping"}
  BY <1>1 DEF Sound, DirOwned, Owned, WipesDead
<1>3. DirOwned'
  <2>1. Owned(p)'
    BY <1>1, MadeType DEF Owned
  <2>2. \A q \in Procs : pc'[q] \in Live => q = p
    BY <1>1, <1>2
  <2>3. \A q \in Procs : dir'.by = q => pc'[q] \in Live
    BY <1>1, MadeType DEF Live
  <2> QED
    BY <2>1, <2>2, <2>3 DEF DirOwned
<1>4. BreakerOwned'
  BY <1>1 DEF Sound, BreakerOwned, InBreaker
<1>5. NoRepair' /\ WipesDead'
  BY <1>1, <1>2 DEF Sound, NoRepair, WipesDead
<1> QED
  BY <1>3, <1>4, <1>5 DEF Sound

\* Nobody is in the breaker when one is made.
LEMMA SoundClaim ==
  ASSUME FlockTypeOK, Sound, NEW p \in Procs, Claim(p)
  PROVE  Sound'
<1>1. /\ ~breaker.there /\ dir' = dir
      /\ breaker'.there = TRUE /\ breaker'.by = p /\ breaker'.age = 0
      /\ pc[p] = "claim" /\ pc'[p] = "relook"
      /\ \A q \in Procs : q # p => pc'[q] = pc[q]
  BY DEF Claim, Go, FlockTypeOK
<1>2. \A q \in Procs : pc[q] \notin InBreaker
  BY <1>1 DEF Sound, BreakerOwned
<1>3. DirOwned'
  BY <1>1 DEF Sound, DirOwned, Owned, Live
<1>4. BreakerOwned'
  BY <1>1, <1>2 DEF BreakerOwned, InBreaker
<1>5. NoRepair' /\ WipesDead'
  BY <1>1 DEF Sound, NoRepair, WipesDead
<1> QED
  BY <1>3, <1>4, <1>5 DEF Sound

\* A step inside the breaker that leaves both directories alone.
LEMMA SoundInside ==
  ASSUME FlockTypeOK, Sound, NEW p \in Procs, NEW to,
         UNCHANGED <<dir, breaker>>, pc' = [pc EXCEPT ![p] = to],
         pc[p] \in InBreaker \ Live, to \in InBreaker \ Live,
         to \in {"wipe", "wiping"} => dir.there = TRUE /\ dir.by = Nobody
  PROVE  Sound'
<1>1. pc'[p] = to /\ \A q \in Procs : q # p => pc'[q] = pc[q]
  BY DEF FlockTypeOK
<1>2. DirOwned'
  BY <1>1 DEF Sound, DirOwned, Owned
<1>3. BreakerOwned'
  BY <1>1 DEF Sound, BreakerOwned
<1>4. NoRepair' /\ WipesDead'
  BY <1>1 DEF Sound, NoRepair, WipesDead, InBreaker
<1> QED
  BY <1>2, <1>3, <1>4 DEF Sound

\* What is stale at the second look belongs to nobody: a live owner's is not stale.
LEMMA SoundRelook ==
  ASSUME FlockTypeOK, Sound, NEW p \in Procs, Relook(p)
  PROVE  Sound'
<1>1. UNCHANGED <<dir, breaker>> /\ pc[p] = "relook"
  BY DEF Relook, Go
<1>2. IsStale => dir.there = TRUE /\ dir.by = Nobody
  <2> SUFFICES ASSUME IsStale PROVE dir.there = TRUE /\ dir.by = Nobody
    OBVIOUS
  <2>1. \A q \in Procs : pc[q] \notin Live
    BY LiveNotStale
  <2>2. dir.by \notin Procs
    BY <2>1 DEF Sound, DirOwned
  <2>3. dir.by \in Owners /\ dir.there \in BOOLEAN
    BY DEF FlockTypeOK, Dirs
  <2> QED
    BY <2>2, <2>3 DEF Owners, IsStale
<1>3. \/ IsStale /\ pc' = [pc EXCEPT ![p] = "wipe"]
      \/ pc' = [pc EXCEPT ![p] = "unbreakLost"]
  BY DEF Relook, Go
<1> QED
  BY <1>1, <1>2, <1>3, SoundInside DEF InBreaker, Live

\* The cleaner makes the directory anew, or finds that another was faster.
LEMMA SoundRemake ==
  ASSUME FlockTypeOK, Sound, NEW p \in Procs, Remake(p)
  PROVE  Sound'
<1>1. CASE dir.there
  <2>1. UNCHANGED <<dir, breaker>> /\ pc[p] = "remake" /\ pc' = [pc EXCEPT ![p] = "unbreakLost"]
    BY <1>1 DEF Remake, Go
  <2> QED
    BY <2>1, SoundInside DEF InBreaker, Live
<1>2. CASE ~dir.there
  <2>1. /\ dir' = MadeBy(p) /\ breaker' = breaker
        /\ pc[p] = "remake" /\ pc'[p] = "unbreakWon"
        /\ \A q \in Procs : q # p => pc'[q] = pc[q]
    BY <1>2 DEF Remake, Go, FlockTypeOK
  <2>2. \A q \in Procs : pc[q] \notin Live \cup {"wipe", "wiping"}
    BY <1>2 DEF Sound, DirOwned, Owned, WipesDead
  <2>3. DirOwned'
    <3>1. Owned(p)'
      BY <2>1, MadeType DEF Owned
    <3>2. \A q \in Procs : pc'[q] \in Live => q = p
      BY <2>1, <2>2
    <3>3. \A q \in Procs : dir'.by = q => pc'[q] \in Live
      BY <2>1, MadeType DEF Live
    <3> QED
      BY <3>1, <3>2, <3>3 DEF DirOwned
  <2>4. BreakerOwned'
    BY <2>1 DEF Sound, BreakerOwned, InBreaker
  <2>5. NoRepair' /\ WipesDead'
    BY <2>1, <2>2 DEF Sound, NoRepair, WipesDead
  <2> QED
    BY <2>3, <2>4, <2>5 DEF Sound
<1> QED
  BY <1>1, <1>2

\* The cleaner removes the breaker, which is its own.
LEMMA SoundUnbreak ==
  ASSUME FlockTypeOK, Sound, NEW p \in Procs, Unbreak(p)
  PROVE  Sound'
<1>1. /\ dir' = dir /\ breaker' = NoBreaker
      /\ \/ pc[p] = "unbreakWon" /\ pc'[p] = "heartbeat"
         \/ pc[p] = "unbreakLost" /\ pc'[p] = "wait"
      /\ \A q \in Procs : q # p => pc'[q] = pc[q]
  BY DEF Unbreak, Go, FlockTypeOK
<1>2. \A q \in Procs : q # p => pc[q] \notin InBreaker
  BY <1>1 DEF Sound, BreakerOwned, InBreaker
<1>3. DirOwned'
  BY <1>1 DEF Sound, DirOwned, Owned, Live
<1>4. BreakerOwned'
  BY <1>1, <1>2, RecordTypes DEF BreakerOwned, InBreaker
<1>5. NoRepair' /\ WipesDead'
  BY <1>1 DEF Sound, NoRepair, WipesDead
<1> QED
  BY <1>3, <1>4, <1>5 DEF Sound

\* A step of the directory's owner that keeps it: nobody else owns it or removes it.
LEMMA SoundOwner ==
  ASSUME FlockTypeOK, Sound, NEW p \in Procs, NEW to,
         pc[p] \in Live \ InBreaker, to \in Live \ InBreaker,
         pc' = [pc EXCEPT ![p] = to], breaker' = breaker, dir'.by = dir.by, Owned(p)'
  PROVE  Sound'
<1>1. pc'[p] = to /\ \A q \in Procs : q # p => pc'[q] = pc[q]
  BY DEF FlockTypeOK
<1>2. dir.by = p /\ p # Nobody
  BY ProcsAssumption DEF Sound, DirOwned, Owned
<1>3. \A q \in Procs : q # p => pc[q] \notin Live \cup {"wipe", "wiping"}
  BY <1>2 DEF Sound, DirOwned, Owned, WipesDead
<1>4. DirOwned'
  BY <1>1, <1>2, <1>3 DEF DirOwned
<1>5. BreakerOwned'
  BY <1>1 DEF Sound, BreakerOwned
<1>6. NoRepair' /\ WipesDead'
  BY <1>1, <1>3 DEF Sound, NoRepair, WipesDead, Live, InBreaker
<1> QED
  BY <1>4, <1>5, <1>6 DEF Sound

\* The owner's directory is as it left it: both files can be written.
LEMMA SoundWrites ==
  ASSUME FlockTypeOK, Sound, NEW p \in Procs, WriteHeartbeat(p) \/ WriteMeta(p)
  PROVE  Sound'
<1>1. dir \in Dirs /\ breaker' = breaker
  BY DEF FlockTypeOK, WriteHeartbeat, WriteMeta
<1>2. CASE WriteHeartbeat(p)
  <2>1. pc[p] = "heartbeat"
    BY <1>2 DEF WriteHeartbeat, Go
  <2>2. dir.there = TRUE /\ dir.by = p /\ dir.heartbeat = NoFile /\ dir.meta = NoFile
    BY <2>1 DEF Sound, DirOwned, Owned, Live
  <2>3. pc' = [pc EXCEPT ![p] = "meta"] /\ dir' = [dir EXCEPT !.heartbeat = 0, !.age = 0]
    BY <1>2, <2>2 DEF WriteHeartbeat, Go
  <2>4. pc'[p] = "meta"
    BY <2>3 DEF FlockTypeOK
  <2>5. dir'.by = dir.by /\ Owned(p)'
    BY <1>1, <2>2, <2>3, <2>4 DEF Dirs, Owned
  <2> QED
    BY <1>1, <2>1, <2>3, <2>5, SoundOwner DEF Live, InBreaker
<1>3. CASE WriteMeta(p)
  <2>1. pc[p] = "meta"
    BY <1>3 DEF WriteMeta, Go
  <2>2. dir.there = TRUE /\ dir.by = p /\ dir.heartbeat = 0 /\ dir.meta = NoFile
    BY <2>1 DEF Sound, DirOwned, Owned, Live
  <2>3. pc' = [pc EXCEPT ![p] = "hold"] /\ dir' = [dir EXCEPT !.meta = 0, !.token = p, !.age = 0]
    BY <1>3, <2>2 DEF WriteMeta, Go
  <2>4. pc'[p] = "hold"
    BY <2>3 DEF FlockTypeOK
  <2>5. dir'.by = dir.by /\ Owned(p)'
    BY <1>1, <2>2, <2>3, <2>4 DEF Dirs, Owned
  <2> QED
    BY <1>1, <2>1, <2>3, <2>5, SoundOwner DEF Live, InBreaker
<1> QED
  BY <1>2, <1>3

\* A release stops the heartbeat and finds its own token.
LEMMA SoundRelease ==
  ASSUME FlockTypeOK, Sound, NEW p \in Procs, Release(p) \/ CheckToken(p)
  PROVE  Sound'
<1>1. pc[p] \in {"hold", "check"}
  BY DEF Release, CheckToken, Go
<1>2. dir.there = TRUE /\ dir.by = p /\ dir.heartbeat = 0 /\ dir.token = p
  BY <1>1 DEF Sound, DirOwned, Owned, Live
<1>3. /\ UNCHANGED <<dir, breaker>>
      /\ \E to \in {"check", "drop"} : pc' = [pc EXCEPT ![p] = to]
  BY <1>2 DEF Release, CheckToken, Go
<1> PICK to \in {"check", "drop"} : pc' = [pc EXCEPT ![p] = to]
  BY <1>3
<1>4. pc'[p] = to
  BY DEF FlockTypeOK
<1>5. dir'.by = dir.by /\ Owned(p)'
  BY <1>2, <1>3, <1>4 DEF Owned
<1> QED
  BY <1>1, <1>3, <1>5, SoundOwner DEF Live, InBreaker

\* A removal begins: of a dead owner's directory, or of the releaser's own.
LEMMA SoundBeginRm ==
  ASSUME FlockTypeOK, Sound, NEW p \in Procs, BeginRm(p), ~spoiled'
  PROVE  Sound'
<1>1. pc[p] \in {"wipe", "drop"}
  BY DEF BeginRm, Go, Sound, NoRepair
<1>2. dir.there = TRUE
  BY <1>1 DEF Sound, WipesDead, DirOwned, Owned, Live
<1>3. /\ breaker' = breaker
      /\ \/ dir' = [dir EXCEPT !.meta = NoFile, !.token = Nobody, !.age = 0]
         \/ /\ dir' = [dir EXCEPT !.heartbeat = NoFile, !.age = 0]
            /\ pc[p] = "drop" => ~(dir.meta > Stale)
  BY <1>2 DEF BeginRm, Unlinked, Spoils
<1>4. /\ dir'.there = dir.there /\ dir'.by = dir.by
      /\ \/ dir'.heartbeat = dir.heartbeat
         \/ /\ dir'.heartbeat = NoFile /\ dir'.meta = dir.meta
            /\ pc[p] = "drop" => ~(dir.meta > Stale)
  BY <1>3 DEF FlockTypeOK, Dirs
<1>5. CASE pc[p] = "wipe"
  <2>1. pc'[p] = "wiping" /\ \A q \in Procs : q # p => pc'[q] = pc[q]
    BY <1>5 DEF BeginRm, Go, FlockTypeOK
  <2>2. dir.by = Nobody
    BY <1>5 DEF Sound, WipesDead
  <2>3. \A q \in Procs : pc[q] \notin Live
    BY <2>2, ProcsAssumption DEF Sound, DirOwned, Owned
  <2>4. DirOwned'
    BY <1>4, <2>1, <2>2, <2>3, ProcsAssumption DEF DirOwned, Live
  <2>5. BreakerOwned'
    BY <1>3, <1>5, <2>1 DEF Sound, BreakerOwned, InBreaker
  <2>6. NoRepair' /\ WipesDead'
    BY <1>2, <1>4, <2>1, <2>2 DEF Sound, NoRepair, WipesDead
  <2> QED
    BY <2>4, <2>5, <2>6 DEF Sound
<1>6. CASE pc[p] = "drop"
  <2>1. pc' = [pc EXCEPT ![p] = "dropping"]
    BY <1>6 DEF BeginRm, Go
  <2>2. pc'[p] = "dropping"
    BY <2>1 DEF FlockTypeOK
  <2>3. dir.by = p /\ dir.heartbeat = 0 /\ dir.token = p /\ p # Nobody
    BY <1>6, ProcsAssumption DEF Sound, DirOwned, Owned, Live
  <2>4. dir.meta \in Ages
    BY <2>3 DEF FlockTypeOK, Dirs
  <2>5. dir'.heartbeat = 0 \/ (dir'.heartbeat = NoFile /\ dir'.meta \in 0 .. Stale)
    BY <1>4, <1>6, <2>3, <2>4, BoundsAssumption DEF Ages
  <2>6. Owned(p)'
    BY <1>2, <1>4, <2>2, <2>3, <2>5 DEF Owned
  <2> QED
    BY <1>3, <1>4, <1>6, <2>1, <2>6, SoundOwner DEF Live, InBreaker
<1> QED
  BY <1>1, <1>5, <1>6

\* Nobody owns a directory that a cleanup removes, only the releaser its own.
LEMMA RemovalOwner ==
  ASSUME FlockTypeOK, Sound, NEW p \in Procs, EndRm(p)
  PROVE  /\ (pc[p] = "wiping" /\ dir.by = Nobody) \/ (pc[p] = "dropping" /\ dir.by = p)
         /\ \A q \in Procs : q # p => pc[q] \notin Live
<1>1. pc[p] \in {"wiping", "dropping"}
  BY DEF EndRm, Go, Sound, NoRepair
<1>2. (pc[p] = "wiping" /\ dir.by = Nobody) \/ (pc[p] = "dropping" /\ dir.by = p)
  <2>1. CASE pc[p] = "wiping"
    BY <2>1 DEF Sound, WipesDead
  <2>2. CASE pc[p] = "dropping"
    BY <2>2 DEF Sound, DirOwned, Owned, Live
  <2> QED
    BY <1>1, <2>1, <2>2
<1>3. \A q \in Procs : pc[q] \in Live => dir.by = q /\ q # Nobody
  BY ProcsAssumption DEF Sound, DirOwned, Owned
<1> QED
  BY <1>2, <1>3

LEMMA SoundEndRm ==
  ASSUME FlockTypeOK, Sound, NEW p \in Procs, EndRm(p)
  PROVE  Sound'
<1>1. /\ dir' = NoDir /\ breaker' = breaker
      /\ \/ pc[p] = "wiping" /\ pc'[p] = "remake"
         \/ pc[p] = "dropping" /\ pc'[p] = "idle"
      /\ \A q \in Procs : q # p => pc'[q] = pc[q]
  BY DEF EndRm, Go, FlockTypeOK, Sound, NoRepair
<1>2. /\ (pc[p] = "wiping" /\ dir.by = Nobody) \/ (pc[p] = "dropping" /\ dir.by = p)
      /\ \A q \in Procs : q # p => pc[q] \notin Live
  BY RemovalOwner
<1>3. \A q \in Procs : q # p => pc[q] \notin {"wipe", "wiping"}
  <2>1. CASE pc[p] = "wiping"
    BY <2>1 DEF Sound, BreakerOwned, InBreaker
  <2>2. CASE dir.by = p
    BY <2>2, ProcsAssumption DEF Sound, WipesDead
  <2> QED
    BY <1>2, <2>1, <2>2
<1>4. DirOwned'
  BY <1>1, <1>2, RecordTypes, ProcsAssumption DEF DirOwned, Live
<1>5. BreakerOwned'
  BY <1>1 DEF Sound, BreakerOwned, InBreaker
<1>6. NoRepair' /\ WipesDead'
  BY <1>1, <1>3 DEF Sound, NoRepair, WipesDead
<1> QED
  BY <1>4, <1>5, <1>6 DEF Sound

\* A crash outside a cleanup: the directory has no owner any more.
LEMMA SoundCrash ==
  ASSUME FlockTypeOK, Sound, NEW p \in Procs, Crash(p), ~spoiled'
  PROVE  Sound'
<1> PICK d : d = Disowned(dir, p)
  OBVIOUS
<1>1. /\ dir' = d
      /\ breaker.by # p
      /\ breaker' = [breaker EXCEPT !.by = IF @ = p THEN Nobody ELSE @]
      /\ pc'[p] = "idle"
      /\ \A q \in Procs : q # p => pc'[q] = pc[q]
  BY DEF Crash, FlockTypeOK
<1>2. breaker' = breaker
  BY <1>1 DEF FlockTypeOK, Breakers
<1>3. /\ d.there = dir.there /\ d.age = dir.age
      /\ d.heartbeat = dir.heartbeat /\ d.meta = dir.meta
      /\ d.by = IF dir.by = p THEN Nobody ELSE dir.by
      /\ d.token = IF dir.token = p THEN Nobody ELSE dir.token
  BY DisownedType
<1>4. DirOwned'
  <2>1. ASSUME NEW q \in Procs, pc'[q] \in Live PROVE Owned(q)'
    <3>1. q # p /\ pc'[q] = pc[q] /\ Owned(q)
      BY <1>1, <2>1 DEF Sound, DirOwned, Live
    <3> QED
      BY <1>1, <1>3, <3>1 DEF Owned
  <2>2. ASSUME NEW q \in Procs, dir'.by = q PROVE pc'[q] \in Live
    <3>1. q # p /\ dir.by = q
      BY <1>1, <1>3, <2>2, ProcsAssumption
    <3> QED
      BY <1>1, <3>1 DEF Sound, DirOwned
  <2> QED
    BY <2>1, <2>2 DEF DirOwned
<1>5. BreakerOwned'
  BY <1>1, <1>2 DEF Sound, BreakerOwned, InBreaker
<1>6. NoRepair' /\ WipesDead'
  BY <1>1, <1>3 DEF Sound, NoRepair, WipesDead
<1> QED
  BY <1>4, <1>5, <1>6 DEF Sound

\* Time passes: only holders are at work, and the holder's heartbeat is touched.
LEMMA SoundTick ==
  ASSUME FlockTypeOK, Sound, Tick, ~spoiled'
  PROVE  Sound'
<1>1. /\ pc' = pc
      /\ \A p \in Procs : pc[p] \in {"idle", "wait", "hold"}
      /\ dir' = IF ~dir.there THEN dir
                ELSE [dir EXCEPT !.age = Older(@), !.meta = Older(@),
                        !.heartbeat = IF @ # NoFile /\ Touched({}) THEN 0 ELSE Older(@)]
      /\ breaker' = IF breaker.there THEN [breaker EXCEPT !.age = Older(@)] ELSE breaker
  BY DEF Tick, Busy
<1>2. ~breaker.there /\ breaker' = breaker
  BY <1>1 DEF Sound, BreakerOwned, InBreaker, FlockTypeOK, Breakers
<1>3. \A p \in Procs : pc[p] \in Live <=> pc[p] = "hold"
  BY <1>1 DEF Live
<1>4. DirOwned'
  <2>1. ASSUME NEW p \in Procs, pc[p] = "hold" PROVE Owned(p)' /\ dir'.by = dir.by
    <3>1. dir.there = TRUE /\ dir.by = p /\ dir.heartbeat = 0 /\ dir.token = p
      BY <2>1 DEF Sound, DirOwned, Owned, Live
    <3>2. Touched({}) /\ 0 # NoFile
      BY <2>1 DEF Touched, NoFile
    <3>3. /\ dir'.there = dir.there /\ dir'.by = dir.by /\ dir'.token = dir.token
          /\ dir'.heartbeat = 0
      BY <1>1, <3>1, <3>2, TickDir
    <3> QED
      BY <1>1, <2>1, <3>1, <3>3 DEF Owned
  <2>2. dir'.by = dir.by
    BY <1>1, TickDir
  <2> QED
    BY <1>1, <1>3, <2>1, <2>2 DEF Sound, DirOwned
<1>5. BreakerOwned'
  BY <1>1, <1>2 DEF Sound, BreakerOwned
<1>6. NoRepair' /\ WipesDead'
  BY <1>1 DEF Sound, NoRepair, WipesDead
<1> QED
  BY <1>4, <1>5, <1>6 DEF Sound

\* Every step keeps the invariant.
LEMMA NextInv == IInv /\ [Next]_vars => IInv'
<1> SUFFICES ASSUME IInv, [Next]_vars PROVE IInv'
  OBVIOUS
<1>1. FlockTypeOK'
  BY NextType DEF IInv
<1> SUFFICES ASSUME ~spoiled' PROVE Sound'
  BY <1>1 DEF IInv
<1>2. FlockTypeOK
  BY DEF IInv
<1>3. CASE UNCHANGED vars
  BY <1>3 DEF vars, IInv, Sound, DirOwned, Owned, BreakerOwned, NoRepair, WipesDead
<1>4. CASE Tick
  <2>1. Sound
    BY <1>4 DEF Tick, IInv
  <2> QED
    BY <1>2, <1>4, <2>1, SoundTick
<1>5. ASSUME NEW p \in Procs, Proceed(p) \/ Acquire(p) \/ GiveUp(p) \/ Release(p) \/ Crash(p)
      PROVE  Sound'
  <2>1. ~spoiled
    BY <1>5 DEF Proceed, Acquire, GiveUp, Release, Crash, MakeDir, FindDir, Look, Claim,
                ClaimTaken, LookBreaker, BreakBreaker, Relook, Remake, Unbreak, WriteHeartbeat,
                WriteMeta, Retry, BeginRm, EndRm, CheckToken
  <2>2. Sound
    BY <2>1 DEF IInv
  <2>3. ~BreakBreaker(p)
    BY <2>2 DEF Sound, NoRepair, BreakBreaker, Go
  <2>4. CASE \/ Acquire(p) \/ FindDir(p) \/ Look(p) \/ ClaimTaken(p) \/ LookBreaker(p)
             \/ Retry(p) \/ GiveUp(p)
    BY <1>2, <2>2, <2>4, SoundWaits
  <2>5. CASE MakeDir(p) \/ Claim(p) \/ Relook(p) \/ Remake(p) \/ Unbreak(p)
    BY <1>2, <2>2, <2>5, SoundMakeDir, SoundClaim, SoundRelook, SoundRemake, SoundUnbreak
  <2>6. CASE WriteHeartbeat(p) \/ WriteMeta(p) \/ Release(p) \/ CheckToken(p)
    BY <1>2, <2>2, <2>6, SoundWrites, SoundRelease
  <2>7. CASE BeginRm(p) \/ EndRm(p) \/ Crash(p)
    BY <1>2, <2>2, <2>7, SoundBeginRm, SoundEndRm, SoundCrash
  <2> QED
    BY <1>5, <2>3, <2>4, <2>5, <2>6, <2>7 DEF Proceed
<1> QED
  BY <1>3, <1>4, <1>5 DEF Next

LEMMA Invariance == Spec => []IInv
<1>1. Init => IInv
  BY InitType, InitSound DEF IInv
<1> QED
  BY <1>1, NextInv, PTL DEF Spec

-----------------------------------------------------------------------------
(* The theorems *)

\* The files and the processes keep their types, whatever crashes and is late.
THEOREM FlockTypes == Spec => []FlockTypeOK
  BY InitType, NextType, PTL DEF Spec

\* No two processes hold the lock at once, of any number that contend for it and
\* clean up after each other's crashes, as long as none crashed inside a cleanup, none
\* was late, and no release of a lock older than staleMs unlinked its heartbeat first.
THEOREM Exclusion == Spec => []Exclusive
<1>1. IInv => Exclusive
  <2> SUFFICES ASSUME IInv, ~spoiled PROVE Cardinality(Holding) <= 1
    BY DEF Exclusive
  <2>1. \A p \in Holding : dir.by = p
    BY DEF Holding, IInv, Sound, DirOwned, Owned, Live
  <2>2. Holding \subseteq {dir.by}
    BY <2>1
  <2>3. IsFiniteSet({dir.by}) /\ Cardinality({dir.by}) = 1
    BY FS_Singleton
  <2>4. Cardinality(Holding) <= Cardinality({dir.by})
    BY <2>2, <2>3, FS_Subset
  <2> QED
    BY <2>3, <2>4
<1> QED
  BY <1>1, Invariance, PTL

\* On the same condition the lock of a holder is whole.
THEOREM Intact == Spec => []HolderIntact
<1>1. IInv => HolderIntact
  BY BoundsAssumption DEF HolderIntact, Holding, IInv, Sound, DirOwned, Owned, Live
<1> QED
  BY <1>1, Invariance, PTL

\* On the same condition a removal takes a dead process's directory, or the remover's.
THEOREM Removals == Spec => RemovesOwnOrDead
<1>1. IInv /\ [Next]_vars =>
        [\A p \in Procs :
           ~spoiled /\ dir.there /\ ~dir'.there /\ EndRm(p) => dir.by \in {p, Nobody}]_vars
  BY RemovalOwner DEF IInv
<1> QED
  BY <1>1, Invariance, PTL DEF Spec, RemovesOwnOrDead
=============================================================================
