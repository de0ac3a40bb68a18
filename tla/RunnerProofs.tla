---------------------------- MODULE RunnerProofs ----------------------------
(***************************************************************************)
(* Proofs about Runner and about SessionState over it, for any number of   *)
(* callers, runners and handles.                                           *)
(*                                                                         *)
(* The safety properties are not inductive on their own: what a finisher   *)
(* does depends on the state still naming live handles, and what a cancel  *)
(* does on the handles it captured before it let go of the lock.  IInv     *)
(* says both, and how far each handle's Deferred can be; Captures says     *)
(* what a cancel has behind it; BusyBacked who will reset the status;      *)
(* TakenGone that what a cancel took does not come back, on which the      *)
(* refinement of SingleFlight rests.                                       *)
(***************************************************************************)
EXTENDS SessionState, TLAPS

LivePhases == {"forked", "working", "exited", "notify", "notifying", "settle"}

\* Handles up to ids are made, the others untouched.
HandlesMade ==
  \A i \in Ids : /\ i > ids => work[i] = NoWork
                 /\ i <= ids => work[i].kind \in {"run", "shell"} /\ work[i].runner \in Runners

\* A run's Deferred is open until its finisher is through; a run that never started
\* is queued, about to be failed, or failed.  A shell has no Deferred.
HandlesOK ==
  \A i \in Ids :
    /\ work[i].kind = "run" =>
         /\ work[i].phase \in LivePhases => work[i].done = "open"
         /\ work[i].phase = "ended" => work[i].done \in Settled
         /\ work[i].phase = "exited" => work[i].exit # "none"
         /\ work[i].phase \in {"notify", "notifying", "settle"} => work[i].exit # "none"
         /\ work[i].phase = "unborn" =>
              \/ work[i].done = "cancelled"
              \/ /\ work[i].done = "open"
                 /\ \/ /\ state[work[i].runner].tag = "ShellThenRun"
                       /\ state[work[i].runner].run = i
                    \/ \E c \in Callers : At(c, "failPending") /\ call[c].run = i
    /\ work[i].kind = "shell" =>
         work[i].done = "none" /\ work[i].phase \notin {"unborn", "settle"}

\* What each tag promises about the handles in the state.
IsLive(i, kind, r) == /\ i \in Ids /\ work[i].kind = kind /\ work[i].runner = r
                      /\ work[i].phase \in {"forked", "working", "exited"}
StateBacked ==
  \A r \in Runners :
    /\ state[r].tag = "Running" => IsLive(state[r].run, "run", r) /\ state[r].shell = NoId
    /\ state[r].tag = "Shell" => IsLive(state[r].shell, "shell", r) /\ state[r].run = NoId
    /\ state[r].tag = "ShellThenRun" =>
         /\ IsLive(state[r].shell, "shell", r)
         /\ LET i == state[r].run
            IN  /\ i \in Ids /\ work[i].kind = "run" /\ work[i].runner = r
                /\ work[i].phase = "unborn" /\ work[i].done = "open"
    /\ state[r].tag = "Idle" => state[r].run = NoId /\ state[r].shell = NoId

\* What a caller between two effects knows about the handles it captured.
CallsBacked ==
  \A c \in Callers :
    /\ call[c].pc \in {"interrupt", "awaitFiber", "awaitDone"} =>
         LET i == call[c].run
         IN  /\ i \in Ids /\ work[i].kind = "run" /\ work[i].phase # "unborn"
             /\ call[c].pc = "interrupt" => ~ Current(i)
    /\ call[c].pc = "failPending" =>
         LET i == call[c].run
         IN  /\ i \in Ids /\ work[i].kind = "run" /\ work[i].phase = "unborn"
             /\ state[work[i].runner].run # i
    /\ call[c].pc \in {"failPending", "abort", "grace", "awaitStop"} =>
         call[c].shell \in Ids /\ work[call[c].shell].kind = "shell"
    /\ call[c].pc = "onBusy" => call[c].runner \in Runners /\ state[call[c].runner].tag = "Idle"

\* The shell a cancel is about to stop is not in its runner's state any more.
StoppedLeft(c) ==
  call[c].pc \in {"failPending", "abort", "grace"} => ~ Current(call[c].shell)
ShellsLeft == \A c \in Callers : StoppedLeft(c)

\* The lock admits one startShell at a time.
OneInLock ==
  \A c, d \in Callers :
    At(c, "onBusy") /\ At(d, "onBusy") /\ call[c].runner = call[d].runner => c = d

IInv == /\ TypeOK /\ HandlesMade /\ HandlesOK /\ StateBacked /\ CallsBacked /\ ShellsLeft
        /\ OneInLock /\ LiveWorkIsCurrent

LEMMA InitIInv == Init => IInv
  BY MaxIdsAssumption, NoRunnerAssumption
     DEF Init, IInv, TypeOK, HandlesMade, HandlesOK, StateBacked, CallsBacked, OneInLock, ShellsLeft,
         StoppedLeft, LiveWorkIsCurrent, Alive, At, State, Tags, Work, Phases, Call, IdleState, NoWork, NoCall,
         Ids, NoId, LivePhases, Exits, Settled, CancelPcs, Ops

\* A step that only moves one caller, neither out of nor into a place where others
\* depend on it, preserves everything.
Harmless(c, v) ==
  /\ call[c].pc \notin {"interrupt", "failPending"}
  /\ v.pc \notin {"onBusy", "interrupt", "failPending", "awaitStop"}
  /\ v.pc \in {"awaitFiber", "awaitDone"} =>
       call[c].pc \in {"awaitFiber", "awaitDone"} /\ v.run = call[c].run
  /\ v.pc \in {"abort", "grace"} =>
       call[c].pc \in {"abort", "grace"} /\ v.shell = call[c].shell
  /\ call[c].pc \in {"abort", "grace"} =>
       v.pc \in {"abort", "grace"} \/ HasExited(call[c].shell)

\* What is not current stays so, unless a handle is made.
LEMMA StaysLeft ==
  ASSUME IInv, NEW d \in Callers,
         \A j \in Ids : work[j].kind # "none" /\ Current(j)' => Current(j),
         call'[d].pc \in {"failPending", "abort", "grace"} =>
           call[d].pc \in {"failPending", "abort", "grace"} /\ call'[d].shell = call[d].shell
  PROVE  StoppedLeft(d)'
<1> SUFFICES ASSUME call'[d].pc \in {"failPending", "abort", "grace"}, Current(call[d].shell)'
             PROVE  FALSE
  BY DEF StoppedLeft, Current
<1>1. PICK j \in Ids : j = call[d].shell /\ work[j].kind = "shell"
  BY DEF IInv, CallsBacked
<1>2. ~ Current(j) BY <1>1 DEF IInv, ShellsLeft, StoppedLeft, Current
<1>3. j' = call'[d].shell BY <1>1
<1> QED BY <1>1, <1>2, <1>3 DEF Current

LEMMA CallerMoves ==
  ASSUME IInv, NEW c \in Callers, NEW v \in Call, Harmless(c, v),
         call' = [call EXCEPT ![c] = v], UNCHANGED <<state, ids, work>>
  PROVE  IInv'
<1> USE DEF IInv
<1>1. TypeOK' BY DEF TypeOK
<1>2. HandlesMade' BY DEF HandlesMade
<1>3. \A d \in Callers : d # c => call'[d] = call[d] BY DEF TypeOK
<1>4. call'[c] = v BY DEF TypeOK
<1>5. HandlesOK' BY <1>3, <1>4 DEF HandlesOK, Harmless, At
<1>6. StateBacked' BY DEF StateBacked, IsLive
<1>7. CallsBacked'
  <2> SUFFICES ASSUME NEW d \in Callers
               PROVE  /\ call'[d].pc \in {"interrupt", "awaitFiber", "awaitDone"} =>
                           LET i == call'[d].run
                           IN  /\ i \in Ids /\ work[i].kind = "run" /\ work[i].phase # "unborn"
                               /\ call'[d].pc = "interrupt" => ~ Current(i)
                      /\ call'[d].pc = "failPending" =>
                           LET i == call'[d].run
                           IN  /\ i \in Ids /\ work[i].kind = "run" /\ work[i].phase = "unborn"
                               /\ state[work[i].runner].run # i
                      /\ call'[d].pc \in {"failPending", "abort", "grace", "awaitStop"} =>
                           call'[d].shell \in Ids /\ work[call'[d].shell].kind = "shell"
                      /\ call'[d].pc = "onBusy" =>
                           call'[d].runner \in Runners /\ state[call'[d].runner].tag = "Idle"
    BY DEF CallsBacked, Current
  <2>1. CASE d # c BY <1>3, <2>1 DEF CallsBacked
  <2>2. CASE d = c BY <1>4, <2>2 DEF CallsBacked, Harmless
  <2> QED BY <2>1, <2>2
<1>8. OneInLock' BY <1>3, <1>4 DEF OneInLock, At, Harmless
<1>9. LiveWorkIsCurrent'
  <2>1. \A i \in Ids : Alive(i) /\ CancelPending(i) => CancelPending(i)'
    BY <1>3, <1>4 DEF Alive, CancelPending, At, Harmless, HasExited
  <2> QED BY <2>1 DEF LiveWorkIsCurrent, Doomed, Alive, Current
<1>10. ShellsLeft'
  <2>1. \A j \in Ids : Current(j)' => Current(j) BY DEF Current
  <2>2. \A d \in Callers : call'[d].pc \in {"failPending", "abort", "grace"} =>
          call[d].pc \in {"failPending", "abort", "grace"} /\ call'[d].shell = call[d].shell
    BY <1>3, <1>4 DEF Harmless
  <2> QED BY <2>1, <2>2, StaysLeft DEF ShellsLeft
<1> QED BY <1>1, <1>2, <1>5, <1>6, <1>7, <1>8, <1>9, <1>10

\* Moving one call's pc keeps it a call.
LEMMA CallPc ==
  ASSUME TypeOK, NEW c \in Callers,
         NEW pc \in {"out", "ready", "await", "awaitShell", "onBusy"} \cup CancelPcs
  PROVE  /\ [call[c] EXCEPT !.pc = pc] \in Call
         /\ [call[c] EXCEPT !.pc = pc].pc = pc
         /\ [call[c] EXCEPT !.pc = pc].run = call[c].run
         /\ [call[c] EXCEPT !.pc = pc].shell = call[c].shell
         /\ [call[c] EXCEPT !.pc = pc].runner = call[c].runner
  BY DEF TypeOK, Call

LEMMA GoIsUpdate ==
  ASSUME TypeOK, NEW c \in Callers, NEW pc, Go(c, pc)
  PROVE  call' = [call EXCEPT ![c] = [call[c] EXCEPT !.pc = pc]]
  BY DEF TypeOK, Go

LEMMA NoCallType == NoCall \in Call /\ NoCall.pc = "out"
  BY DEF NoCall, Call, Ops

\* The steps of callers that only move them.
LEMMA QuietCallers ==
  ASSUME IInv, NEW c \in Callers, NEW r,
         \/ r \in Runners /\ \E op \in Ops : Obtain(c, r, op)
         \/ r \in Runners /\ (JoinRun(c, r) \/ RefuseShell(c, r) \/ CancelNothing(c, r))
         \/ ReturnRun(c) \/ ReturnShell(c)
         \/ CancelAwaitFiber(c) \/ CancelAwaitDone(c) \/ StopShellAbort(c) \/ StopShellDone(c)
         \/ IdleIfCurrent(c) \/ CancelIdleBegin(c) \/ CancelIdleEnd(c)
  PROVE  IInv'
<1> USE DEF IInv
<1>1. CASE r \in Runners /\ \E op \in Ops : Obtain(c, r, op)
  <2> PICK op \in Ops : Obtain(c, r, op) BY <1>1
  <2> DEFINE v == [NoCall EXCEPT !.pc = "ready", !.op = op, !.runner = r]
  <2>1. v \in Call /\ v.pc = "ready" BY <1>1 DEF NoCall, Call
  <2>2. call' = [call EXCEPT ![c] = v] /\ UNCHANGED <<state, ids, work>> BY DEF Obtain
  <2>3. Harmless(c, v) BY <2>1 DEF Harmless, Obtain, At
  <2> HIDE DEF v
  <2> QED BY <2>1, <2>2, <2>3, CallerMoves
<1>2. CASE r \in Runners /\ JoinRun(c, r)
  <2> DEFINE v == [call[c] EXCEPT !.pc = "await", !.run = state[r].run]
  <2>1. state[r].run \in Ids \cup {NoId} BY <1>2 DEF TypeOK, State
  <2>2. v \in Call /\ v.pc = "await" BY <2>1 DEF TypeOK, Call
  <2>3. call' = [call EXCEPT ![c] = v] /\ UNCHANGED <<state, ids, work>>
    BY <1>2 DEF JoinRun, AwaitRun
  <2>4. Harmless(c, v) BY <1>2, <2>2 DEF Harmless, JoinRun, Entering, At
  <2> HIDE DEF v
  <2> QED BY <2>2, <2>3, <2>4, CallerMoves
<1>3. ASSUME Return(c), UNCHANGED <<state, ids, work>>,
             call[c].pc \notin {"interrupt", "failPending", "abort", "grace"}
      PROVE  IInv'
  <2>1. Harmless(c, NoCall) BY <1>3, NoCallType DEF Harmless
  <2> QED BY <1>3, <2>1, NoCallType, CallerMoves DEF Return
<1>4. ASSUME NEW pc \in {"awaitDone", "idleCheck", "grace", "notify", "notifying"}, Go(c, pc),
             UNCHANGED <<state, ids, work>>, Harmless(c, [call[c] EXCEPT !.pc = pc])
      PROVE  IInv'
  <2>1. [call[c] EXCEPT !.pc = pc] \in Call BY CallPc DEF CancelPcs
  <2> QED BY <1>4, <2>1, GoIsUpdate, CallerMoves
<1>5. CASE RefuseShell(c, r) \/ CancelNothing(c, r) \/ ReturnRun(c) \/ ReturnShell(c) \/ CancelIdleEnd(c)
  BY <1>3, <1>5 DEF RefuseShell, CancelNothing, ReturnRun, ReturnShell, CancelIdleEnd, Entering, At
<1>6. CASE CancelAwaitFiber(c)
  <2>1. Harmless(c, [call[c] EXCEPT !.pc = "awaitDone"])
    BY <1>6, CallPc DEF CancelAwaitFiber, At, Harmless, CancelPcs
  <2> QED BY <1>4, <1>6, <2>1 DEF CancelAwaitFiber
<1>7. CASE CancelAwaitDone(c) \/ StopShellDone(c)
  <2>1. Harmless(c, [call[c] EXCEPT !.pc = "idleCheck"])
    BY <1>7, CallPc DEF CancelAwaitDone, StopShellDone, At, Harmless, CancelPcs
  <2> QED BY <1>4, <1>7, <2>1 DEF CancelAwaitDone, StopShellDone
<1>8. CASE StopShellAbort(c)
  <2>1. Harmless(c, [call[c] EXCEPT !.pc = "grace"])
    BY <1>8, CallPc DEF StopShellAbort, At, Harmless, CancelPcs
  <2> QED BY <1>4, <1>8, <2>1 DEF StopShellAbort
<1>9. CASE CancelIdleBegin(c)
  <2>1. Harmless(c, [call[c] EXCEPT !.pc = "notifying"])
    BY <1>9, CallPc DEF CancelIdleBegin, At, Harmless, CancelPcs
  <2> QED BY <1>4, <1>9, <2>1 DEF CancelIdleBegin
<1>10. CASE IdleIfCurrent(c)
  <2>1. Harmless(c, [call[c] EXCEPT !.pc = "notify"])
    BY <1>10, CallPc DEF IdleIfCurrent, At, Harmless, CancelPcs
  <2>2. CASE Go(c, "notify") BY <1>4, <1>10, <2>1, <2>2 DEF IdleIfCurrent
  <2>3. CASE Return(c) BY <1>3, <1>10, <2>3 DEF IdleIfCurrent, At
  <2> QED BY <1>10, <2>2, <2>3 DEF IdleIfCurrent
<1> QED BY <1>1, <1>2, <1>5, <1>6, <1>7, <1>8, <1>9, <1>10

\* Fibers past their work: a step of one that is no longer current.
FinishMove(i, w) ==
  /\ work[i].phase \in {"exited", "notify", "notifying", "settle"} /\ ~ Current(i)
  /\ w.kind = work[i].kind /\ w.runner = work[i].runner /\ w.exit = work[i].exit
  /\ w.phase \in {"notifying", "settle", "ended"}
  /\ w.kind = "run" => \/ w.phase # "ended" /\ w.done = "open"
                       \/ w.phase = "ended" /\ w.done \in Settled
  /\ w.kind = "shell" => w.phase # "settle" /\ w.done = "none"

LEMMA FiberMoves ==
  ASSUME IInv, NEW i \in Ids, NEW w \in Work, FinishMove(i, w),
         work' = [work EXCEPT ![i] = w], UNCHANGED <<state, ids, call>>
  PROVE  IInv'
<1> USE DEF IInv
<1>1. TypeOK' BY DEF TypeOK
<1>2. \A j \in Ids : j # i => work'[j] = work[j] BY DEF TypeOK
<1>3. work'[i] = w BY DEF TypeOK
<1>4. work[i].kind \in {"run", "shell"} /\ work[i].runner \in Runners /\ i <= ids
  BY MaxIdsAssumption DEF HandlesMade, FinishMove, NoWork, TypeOK, Ids
<1>5. HandlesMade' BY <1>2, <1>3, <1>4, MaxIdsAssumption DEF HandlesMade, FinishMove, TypeOK, Ids
<1>6. HandlesOK'
  <2>1. w.kind = "run" => w.exit # "none" /\ w.phase # "unborn"
    BY DEF HandlesOK, FinishMove, LivePhases
  <2> QED BY <1>2, <1>3, <1>4, <2>1 DEF HandlesOK, FinishMove, LivePhases, At
<1>7. StateBacked'
  <2>1. \A r \in Runners : /\ state[r].tag = "Running" => state[r].run # i
                           /\ state[r].tag \in {"Shell", "ShellThenRun"} => state[r].shell # i
                           /\ state[r].tag = "ShellThenRun" => state[r].run # i
    BY DEF StateBacked, IsLive, FinishMove, Current
  <2> QED BY <1>2, <2>1 DEF StateBacked, IsLive
<1>8. CallsBacked' BY <1>2, <1>3 DEF CallsBacked, FinishMove, Current
<1>9. OneInLock' BY DEF OneInLock, At
<1>10. LiveWorkIsCurrent'
  BY <1>2, <1>3 DEF LiveWorkIsCurrent, Alive, Doomed, CancelPending, Current, At, FinishMove
<1>11. ShellsLeft'
  <2>1. \A j \in Ids : Current(j)' => Current(j) BY <1>2, <1>3 DEF Current, FinishMove
  <2> QED BY <2>1, StaysLeft DEF ShellsLeft
<1> QED BY <1>1, <1>5, <1>6, <1>7, <1>8, <1>9, <1>10, <1>11

\* A fiber whose finisher has run is not in any runner's state.
LEMMA PastIsNotCurrent ==
  ASSUME IInv, NEW i \in Ids, work[i].phase \in {"notify", "notifying", "settle"}
  PROVE  ~ Current(i) /\ work[i].kind \in {"run", "shell"}
<1>1. work[i].kind \in {"run", "shell"} /\ work[i].runner \in Runners
  BY MaxIdsAssumption DEF IInv, HandlesMade, NoWork, TypeOK, Ids
<1> QED BY <1>1 DEF IInv, StateBacked, IsLive, Current

\* A finisher that finds its work current makes the runner idle.
LEMMA FinisherGivesBack ==
  ASSUME IInv, NEW i \in Ids, work[i].phase = "exited", Current(i),
         state[work[i].runner].tag \in {"Running", "Shell"},
         Unlocked(work[i].runner), Phase(i, "notify"),
         state' = [state EXCEPT ![work[i].runner] = IdleState], UNCHANGED <<ids, call>>
  PROVE  IInv'
<1> USE DEF IInv
<1> DEFINE r == work[i].runner
           w == [work[i] EXCEPT !.phase = "notify"]
<1>1. work[i].kind \in {"run", "shell"} /\ r \in Runners /\ i <= ids
  BY MaxIdsAssumption DEF HandlesMade, NoWork, TypeOK, Ids
<1>2. /\ w \in Work /\ w.phase = "notify" /\ w.kind = work[i].kind /\ w.runner = r
      /\ w.exit = work[i].exit /\ w.done = work[i].done /\ w.intr = work[i].intr
  BY DEF TypeOK, Work, Phases
<1>3. work' = [work EXCEPT ![i] = w] BY DEF Phase, TypeOK
<1> HIDE DEF w
<1>4. \A j \in Ids : j # i => work'[j] = work[j] BY <1>3 DEF TypeOK
<1>5. work'[i] = w BY <1>3 DEF TypeOK
<1>6. \A q \in Runners : q # r => state'[q] = state[q] BY DEF TypeOK
<1>7. state'[r] = IdleState BY <1>1 DEF TypeOK
<1>8. TypeOK'
  <2>1. IdleState \in State BY DEF IdleState, State, Tags
  <2> QED BY <1>1, <1>2, <1>3, <2>1 DEF TypeOK
<1>9. HandlesMade' BY <1>1, <1>2, <1>4, <1>5, MaxIdsAssumption DEF HandlesMade, TypeOK, Ids
<1>10. HandlesOK'
  <2>1. \A j \in Ids : state[work[j].runner].tag = "ShellThenRun" /\ work[j].kind = "run"
                       => work[j].runner # r
    BY DEF Current
  <2>2. \A j \in Ids : work[j].kind = "run" => work[j].runner \in Runners
    BY MaxIdsAssumption DEF HandlesMade, NoWork, TypeOK, Ids
  <2>3. \A j \in Ids : work[j].kind = "run" /\ work[j].runner # r
                       => state'[work[j].runner] = state[work[j].runner]
    BY <1>6, <2>2
  <2>4. w.kind = "run" => w.done = "open" /\ w.exit # "none"
    BY <1>2 DEF HandlesOK, LivePhases
  <2>5. w.kind = "shell" => w.done = "none" BY <1>2 DEF HandlesOK
  <2> QED BY <1>1, <1>2, <1>4, <1>5, <2>1, <2>2, <2>3, <2>4, <2>5 DEF HandlesOK, LivePhases, At
<1>11. StateBacked'
  <2>1. \A q \in Runners : q # r =>
          /\ state[q].tag = "Running" => state[q].run # i
          /\ state[q].tag \in {"Shell", "ShellThenRun"} => state[q].shell # i
          /\ state[q].tag = "ShellThenRun" => state[q].run # i
    BY DEF StateBacked, IsLive
  <2> QED BY <1>1, <1>4, <1>6, <1>7, <2>1 DEF StateBacked, IsLive, IdleState, NoId
<1>12. CallsBacked'
  <2>1. \A j \in Ids : Current(j)' => Current(j)
    BY <1>1, <1>2, <1>4, <1>5, <1>6, <1>7 DEF Current, IdleState
  <2>2. \A j \in Ids : work'[j].kind = work[j].kind /\ work'[j].runner = work[j].runner
                       /\ (work'[j].phase = "unborn" <=> work[j].phase = "unborn")
    BY <1>2, <1>4, <1>5
  <2>3. \A j \in Ids : state[work[j].runner].run # j /\ work[j].kind = "run"
                       => state'[work[j].runner].run # j
    <3>1. \A j \in Ids : work[j].kind = "run" => work[j].runner \in Runners
      BY MaxIdsAssumption DEF HandlesMade, NoWork, TypeOK, Ids
    <3> QED BY <1>6, <1>7, <3>1 DEF IdleState, NoId, Ids
  <2>4. \A q \in Runners : state[q].tag = "Idle" => state'[q].tag = "Idle"
    BY <1>6, <1>7 DEF IdleState
  <2> QED BY <2>1, <2>2, <2>3, <2>4 DEF CallsBacked
<1>13. OneInLock' BY DEF OneInLock, At
<1>14. LiveWorkIsCurrent'
  <2>1. \A j \in Ids : Alive(j)' => j # i /\ Alive(j) BY <1>2, <1>4, <1>5 DEF Alive
  <2>2. \A j \in Ids : Alive(j)' /\ Doomed(j) => Doomed(j)'
    BY <1>4, <2>1 DEF Doomed, CancelPending, At
  <2>3. \A j \in Ids : j # i /\ Current(j) /\ Alive(j) => Current(j)'
    <3>1. \A j \in Ids : Alive(j) => work[j].runner \in Runners
      BY MaxIdsAssumption DEF HandlesMade, NoWork, TypeOK, Ids, Alive
    <3>2. \A j \in Ids : j # i /\ Current(j) => work[j].runner # r BY DEF Current
    <3> QED BY <1>4, <1>6, <3>1, <3>2 DEF Current
  <2> QED BY <2>1, <2>2, <2>3 DEF LiveWorkIsCurrent
<1>15. ShellsLeft'
  <2>1. \A j \in Ids : Current(j)' => Current(j)
    BY <1>1, <1>2, <1>4, <1>5, <1>6, <1>7 DEF Current, IdleState
  <2> QED BY <2>1, StaysLeft DEF ShellsLeft
<1> QED BY <1>8, <1>9, <1>10, <1>11, <1>12, <1>13, <1>14, <1>15

\* The steps of a fiber after its work.
LEMMA MadeHandle ==
  ASSUME IInv, NEW i \in Ids, work[i].kind # "none" \/ work[i].phase # "unborn"
  PROVE  work[i].kind \in {"run", "shell"} /\ work[i].runner \in Runners /\ i <= ids
  BY MaxIdsAssumption DEF IInv, HandlesMade, NoWork, TypeOK, Ids

LEMMA PhaseMoves ==
  ASSUME IInv, NEW i \in Ids, NEW p \in {"notifying", "settle", "ended"}, Phase(i, p),
         work[i].phase \in {"exited", "notify", "notifying", "settle"}, ~ Current(i),
         work[i].kind = "run" => p # "ended", work[i].kind = "shell" => p # "settle",
         UNCHANGED <<state, ids, call>>
  PROVE  IInv'
<1> DEFINE w == [work[i] EXCEPT !.phase = p]
<1>1. /\ w \in Work /\ w.phase = p /\ w.kind = work[i].kind /\ w.runner = work[i].runner
      /\ w.exit = work[i].exit /\ w.done = work[i].done
  BY DEF IInv, TypeOK, Work, Phases
<1>2. work' = [work EXCEPT ![i] = w] BY DEF Phase, IInv, TypeOK
<1> HIDE DEF w
<1>3. work[i].kind = "run" => work[i].done = "open" BY DEF IInv, HandlesOK, LivePhases
<1>4. work[i].kind = "shell" => work[i].done = "none" BY DEF IInv, HandlesOK
<1>5. FinishMove(i, w) BY <1>1, <1>3, <1>4 DEF FinishMove
<1> QED BY <1>1, <1>2, <1>5, FiberMoves

LEMMA FinishRunIInv == ASSUME IInv, NEW i \in Ids, FinishRun(i) PROVE IInv'
<1>1. work[i].kind = "run" /\ work[i].phase = "exited" /\ Unlocked(work[i].runner)
      /\ UNCHANGED <<ids, call>>
  BY DEF FinishRun
<1>2. work[i].runner \in Runners BY <1>1, MadeHandle
<1>3. CASE state[work[i].runner].tag = "Running" /\ state[work[i].runner].run = i
  <2>1. Phase(i, "notify") /\ state' = [state EXCEPT ![work[i].runner] = IdleState]
    BY <1>3 DEF FinishRun
  <2>2. Current(i) BY <1>3 DEF Current
  <2> QED BY <1>1, <1>3, <2>1, <2>2, FinisherGivesBack
<1>4. CASE ~ (state[work[i].runner].tag = "Running" /\ state[work[i].runner].run = i)
  <2>1. Phase(i, "settle") /\ UNCHANGED state BY <1>4 DEF FinishRun
  <2>2. ~ Current(i) BY <1>1, <1>2, <1>4 DEF Current, IInv, StateBacked, IsLive
  <2> QED BY <1>1, <2>1, <2>2, PhaseMoves
<1> QED BY <1>3, <1>4

LEMMA CompleteIInv == ASSUME IInv, NEW i \in Ids, Complete(i) PROVE IInv'
<1> DEFINE w == [work[i] EXCEPT !.phase = "ended", !.done = Outcome(work[i].exit)]
<1>1. work[i].phase = "settle" /\ work' = [work EXCEPT ![i] = w] /\ UNCHANGED <<state, ids, call>>
  BY DEF Complete
<1>2. ~ Current(i) /\ work[i].kind = "run"
  BY <1>1, PastIsNotCurrent DEF IInv, HandlesOK
<1>3. work[i].exit \in {"success", "failure", "interrupt"}
  BY <1>1, <1>2 DEF IInv, HandlesOK, TypeOK, Work, Exits
<1>4. Outcome(work[i].exit) \in Settled BY <1>3 DEF Outcome, Settled
<1>5. /\ w \in Work /\ w.phase = "ended" /\ w.kind = work[i].kind /\ w.runner = work[i].runner
      /\ w.exit = work[i].exit /\ w.done \in Settled
  BY <1>4 DEF IInv, TypeOK, Work, Phases
<1> HIDE DEF w
<1>6. FinishMove(i, w) BY <1>1, <1>2, <1>5 DEF FinishMove
<1> QED BY <1>1, <1>5, <1>6, FiberMoves

LEMMA IdleCallbackIInv == ASSUME IInv, NEW i \in Ids, IdleBegin(i) \/ IdleEnd(i) PROVE IInv'
<1>1. work[i].phase \in {"notify", "notifying"} /\ UNCHANGED <<state, ids, call>>
  BY DEF IdleBegin, IdleEnd
<1>2. ~ Current(i) /\ work[i].kind \in {"run", "shell"} BY <1>1, PastIsNotCurrent
<1>3. CASE IdleBegin(i) BY <1>1, <1>2, <1>3, PhaseMoves DEF IdleBegin
<1>4. CASE IdleEnd(i) /\ work[i].kind = "run" BY <1>1, <1>2, <1>4, PhaseMoves DEF IdleEnd
<1>5. CASE IdleEnd(i) /\ work[i].kind = "shell" BY <1>1, <1>2, <1>5, PhaseMoves DEF IdleEnd
<1> QED BY <1>2, <1>3, <1>4, <1>5

\* The work ends; it stays in the state until its finisher has the lock.
LEMMA WorkExitIInv == ASSUME IInv, NEW i \in Ids, NEW e \in Exits, WorkExit(i, e) PROVE IInv'
<1> USE DEF IInv
<1> DEFINE w == [work[i] EXCEPT !.phase = "exited",
                                !.exit = IF work[i].kind = "run" THEN e ELSE "none"]
<1>1. work[i].phase = "working" /\ work' = [work EXCEPT ![i] = w] /\ UNCHANGED <<state, ids, call>>
      /\ e # "none"
  BY DEF WorkExit
<1>2. /\ w \in Work /\ w.phase = "exited" /\ w.kind = work[i].kind /\ w.runner = work[i].runner
      /\ w.done = work[i].done /\ (w.kind = "run" => w.exit # "none")
  BY <1>1 DEF TypeOK, Work, Phases, Exits
<1>3. work[i].kind \in {"run", "shell"} /\ work[i].runner \in Runners /\ i <= ids BY <1>1, MadeHandle
<1> HIDE DEF w
<1>4. \A j \in Ids : j # i => work'[j] = work[j] BY <1>1 DEF TypeOK
<1>5. work'[i] = w BY <1>1 DEF TypeOK
<1>6. TypeOK' BY <1>1, <1>2 DEF TypeOK
<1>7. HandlesMade' BY <1>1, <1>2, <1>3, <1>4, <1>5, MaxIdsAssumption DEF HandlesMade, TypeOK, Ids
<1>8. HandlesOK' BY <1>1, <1>2, <1>3, <1>4, <1>5 DEF HandlesOK, LivePhases, At
<1>9. StateBacked' BY <1>1, <1>2, <1>4, <1>5 DEF StateBacked, IsLive
<1>10. CallsBacked' BY <1>1, <1>2, <1>4, <1>5 DEF CallsBacked, Current
<1>11. OneInLock' BY <1>1 DEF OneInLock, At
<1>12. LiveWorkIsCurrent'
  BY <1>1, <1>2, <1>4, <1>5 DEF LiveWorkIsCurrent, Alive, Doomed, CancelPending, Current, At
<1>13. ShellsLeft'
  <2>1. \A j \in Ids : Current(j)' => Current(j) BY <1>1, <1>2, <1>4, <1>5 DEF Current
  <2> QED BY <1>1, <2>1, StaysLeft DEF ShellsLeft
<1> QED BY <1>6, <1>7, <1>8, <1>9, <1>10, <1>11, <1>12, <1>13

\* A forked fiber begins.
LEMMA BeginWorkIInv == ASSUME IInv, NEW i \in Ids, BeginWork(i) PROVE IInv'
<1> USE DEF IInv
<1> DEFINE w == [work[i] EXCEPT !.phase = "working"]
<1>1. work[i].phase = "forked" /\ work' = [work EXCEPT ![i] = w] /\ UNCHANGED <<state, ids, call>>
  BY DEF BeginWork, Phase, TypeOK
<1>2. /\ w \in Work /\ w.phase = "working" /\ w.kind = work[i].kind /\ w.runner = work[i].runner
      /\ w.done = work[i].done /\ w.exit = work[i].exit /\ w.intr = work[i].intr
  BY <1>1 DEF TypeOK, Work, Phases
<1>3. work[i].kind \in {"run", "shell"} /\ work[i].runner \in Runners /\ i <= ids BY <1>1, MadeHandle
<1> HIDE DEF w
<1>4. \A j \in Ids : j # i => work'[j] = work[j] BY <1>1 DEF TypeOK
<1>5. work'[i] = w BY <1>1 DEF TypeOK
<1>6. TypeOK' BY <1>1, <1>2 DEF TypeOK
<1>7. HandlesMade' BY <1>1, <1>2, <1>3, <1>4, <1>5, MaxIdsAssumption DEF HandlesMade, TypeOK, Ids
<1>8. HandlesOK' BY <1>1, <1>2, <1>3, <1>4, <1>5 DEF HandlesOK, LivePhases, At
<1>9. StateBacked' BY <1>1, <1>2, <1>4, <1>5 DEF StateBacked, IsLive
<1>10. CallsBacked' BY <1>1, <1>2, <1>4, <1>5 DEF CallsBacked, Current
<1>11. OneInLock' BY <1>1 DEF OneInLock, At
<1>12. LiveWorkIsCurrent'
  BY <1>1, <1>2, <1>4, <1>5 DEF LiveWorkIsCurrent, Alive, Doomed, CancelPending, Current, At
<1>13. ShellsLeft'
  <2>1. \A j \in Ids : Current(j)' => Current(j) BY <1>1, <1>2, <1>4, <1>5 DEF Current
  <2> QED BY <1>1, <2>1, StaysLeft DEF ShellsLeft
<1> QED BY <1>6, <1>7, <1>8, <1>9, <1>10, <1>11, <1>12, <1>13

\* A shell's finisher starts the run that waited for it.
StartsQueued(s, i, r) ==
  /\ state' \in [Runners -> State] /\ work' \in [Ids -> Work]
  /\ \A q \in Runners : q # r => state'[q] = state[q]
  /\ state'[r].tag = "Running" /\ state'[r].run = i /\ state'[r].shell = NoId
  /\ \A j \in Ids : j # s /\ j # i => work'[j] = work[j]
  /\ work'[s].phase = "ended" /\ work'[s].kind = "shell" /\ work'[s].runner = r
  /\ work'[s].done = work[s].done
  /\ work'[i].phase = "forked" /\ work'[i].kind = "run" /\ work'[i].runner = r
  /\ work'[i].done = work[i].done

LEMMA StartQueuedIInv ==
  ASSUME IInv, NEW s \in Ids, NEW r \in Runners, NEW i \in Ids,
         work[s].kind = "shell", work[s].phase = "exited", work[s].runner = r,
         state[r].tag = "ShellThenRun", state[r].shell = s, state[r].run = i,
         work[i].kind = "run", work[i].runner = r, work[i].phase = "unborn", work[i].done = "open",
         StartsQueued(s, i, r), call' = call, ids' = ids
  PROVE  IInv'
<1> USE DEF IInv
<1>1. s <= ids /\ i <= ids /\ i # s BY MadeHandle
<1>5. /\ \A j \in Ids : work'[j].kind = work[j].kind /\ work'[j].runner = work[j].runner
                        /\ (j # i => (work'[j].phase = "unborn" <=> work[j].phase = "unborn"))
      /\ work'[i].phase # "unborn"
  BY DEF StartsQueued
<1>6. \A j \in Ids : work[j].kind = "run" => work[j].runner \in Runners BY MadeHandle
<1>7. \A j \in Ids : j # i /\ work[j].runner \in Runners /\ Current(j)' => Current(j)
  BY <1>5 DEF Current, StartsQueued
<1>9. TypeOK' BY DEF TypeOK, StartsQueued
<1>10. HandlesMade' BY <1>1, MaxIdsAssumption DEF HandlesMade, TypeOK, Ids, StartsQueued
<1>11. HandlesOK'
  <2>1. work'[s].done = "none" BY DEF HandlesOK, StartsQueued
  <2>2. \A j \in Ids : j # i /\ work[j].runner = r => ~ (state[r].run = j) OBVIOUS
  <2> QED BY <1>6, <2>1, <2>2 DEF HandlesOK, LivePhases, At, StartsQueued
<1>12. StateBacked'
  <2>1. \A q \in Runners : q # r =>
          /\ state[q].tag = "Running" => state[q].run \notin {i, s}
          /\ state[q].tag \in {"Shell", "ShellThenRun"} => state[q].shell \notin {i, s}
          /\ state[q].tag = "ShellThenRun" => state[q].run \notin {i, s}
    BY <1>1 DEF StateBacked, IsLive
  <2> QED BY <1>1, <2>1 DEF StateBacked, IsLive, StartsQueued
<1>13. CallsBacked'
  <2> SUFFICES ASSUME NEW d \in Callers
               PROVE  /\ call[d].pc \in {"interrupt", "awaitFiber", "awaitDone"} =>
                           /\ call[d].run \in Ids /\ work'[call[d].run].kind = "run"
                           /\ work'[call[d].run].phase # "unborn"
                           /\ call[d].pc = "interrupt" => ~ Current(call[d].run)'
                      /\ call[d].pc = "failPending" =>
                           /\ call[d].run \in Ids /\ work'[call[d].run].kind = "run"
                           /\ work'[call[d].run].phase = "unborn"
                           /\ state'[work'[call[d].run].runner].run # call[d].run
                      /\ call[d].pc \in {"failPending", "abort", "grace", "awaitStop"} =>
                           call[d].shell \in Ids /\ work'[call[d].shell].kind = "shell"
                      /\ call[d].pc = "onBusy" =>
                           call[d].runner \in Runners /\ state'[call[d].runner].tag = "Idle"
    BY DEF CallsBacked, Current
  <2>1. CASE call[d].pc \in {"interrupt", "awaitFiber", "awaitDone"}
    <3> DEFINE j == call[d].run
    <3>1. j \in Ids /\ work[j].kind = "run" /\ work[j].phase # "unborn"
          /\ (call[d].pc = "interrupt" => ~ Current(j))
      BY <2>1 DEF CallsBacked
    <3>2. work[j].runner \in Runners /\ j # i BY <1>6, <3>1
    <3>3. ~ Current(j) => ~ Current(call[d].run)'
      <4>1. j' = j OBVIOUS
      <4> QED BY <1>7, <3>1, <3>2, <4>1
    <3> QED BY <1>5, <2>1, <3>1, <3>2, <3>3
  <2>2. CASE call[d].pc = "failPending"
    <3>1. /\ call[d].run \in Ids /\ work[call[d].run].kind = "run"
          /\ work[call[d].run].phase = "unborn"
          /\ state[work[call[d].run].runner].run # call[d].run
          /\ call[d].shell \in Ids /\ work[call[d].shell].kind = "shell"
      BY <2>2 DEF CallsBacked
    <3>2. call[d].run # i BY <3>1
    <3> QED BY <1>5, <1>6, <2>2, <3>1, <3>2 DEF StartsQueued
  <2>3. CASE call[d].pc \in {"abort", "grace", "awaitStop"} BY <1>5, <2>3 DEF CallsBacked
  <2>4. CASE call[d].pc = "onBusy" BY <2>4 DEF CallsBacked, StartsQueued
  <2> QED BY <2>1, <2>2, <2>3, <2>4
<1>14. OneInLock' BY DEF OneInLock, At
<1>15. LiveWorkIsCurrent'
  <2>1. Current(i)' BY DEF Current, StartsQueued
  <2>2. \A j \in Ids : j # i /\ Alive(j)' => j # s /\ Alive(j)
    BY DEF Alive, StartsQueued
  <2>3. \A j \in Ids : Alive(j)' /\ j # i /\ Doomed(j) => Doomed(j)'
    BY <2>2 DEF Doomed, CancelPending, At, StartsQueued
  <2>4. \A j \in Ids : j # i /\ j # s /\ Alive(j) /\ Current(j) => Current(j)'
    <3>1. \A j \in Ids : j # i /\ j # s /\ Current(j) => work[j].runner # r BY DEF Current
    <3>2. \A j \in Ids : Alive(j) => work[j].runner \in Runners BY MadeHandle DEF Alive
    <3> QED BY <3>1, <3>2 DEF Current, StartsQueued
  <2> QED BY <2>1, <2>2, <2>3, <2>4 DEF LiveWorkIsCurrent
<1>16. ShellsLeft'
  <2>1. \A j \in Ids : work[j].kind # "none" /\ j # i /\ Current(j)' => Current(j)
    BY <1>7, MadeHandle
  <2>2. ASSUME NEW d \in Callers, call[d].pc \in {"failPending", "abort", "grace"}
        PROVE  ~ Current(call[d].shell)'
    <3>1. PICK j \in Ids : j = call[d].shell /\ work[j].kind = "shell" BY <2>2 DEF CallsBacked
    <3>2. ~ Current(j) BY <2>2, <3>1 DEF ShellsLeft, StoppedLeft
    <3>3. j # i BY <3>1
    <3>4. ~ Current(j)' BY <2>1, <3>1, <3>2, <3>3
    <3> QED BY <3>1, <3>4 DEF Current
  <2> QED BY <2>2 DEF ShellsLeft, StoppedLeft, Current
<1> QED BY <1>9, <1>10, <1>11, <1>12, <1>13, <1>14, <1>15, <1>16

\* The finisher of a shell that starts the run queued behind it.
LEMMA FinishForm ==
  ASSUME IInv, NEW s \in Ids, FinishShell(s),
         state[work[s].runner].tag = "ShellThenRun", state[work[s].runner].shell = s
  PROVE  \E i \in Ids : /\ StartsQueued(s, i, work[s].runner)
                        /\ work[s].runner \in Runners /\ i # s
                        /\ state[work[s].runner].run = i
                        /\ work[i].kind = "run" /\ work[i].runner = work[s].runner
                        /\ work[i].phase = "unborn" /\ work[i].done = "open"
                        /\ work[s].kind = "shell" /\ work[s].phase = "exited"
                        /\ work'[i].intr = work[i].intr /\ work'[s].intr = work[s].intr
                        /\ work'[i].exit = work[i].exit /\ work'[s].exit = work[s].exit
                        /\ UNCHANGED <<ids, call>>
<1> DEFINE r == work[s].runner
<1>1. work[s].kind = "shell" /\ work[s].phase = "exited" /\ UNCHANGED <<ids, call>>
  BY DEF FinishShell
<1>2. r \in Runners BY <1>1, MadeHandle
<1>3. /\ state' = [state EXCEPT ![r] = RunningState(state[r].run)]
      /\ work' = [work EXCEPT ![s].phase = "ended", ![state[r].run].phase = "forked"]
  BY DEF FinishShell
<1>4. PICK i \in Ids : /\ state[r].run = i /\ work[i].kind = "run" /\ work[i].runner = r
                       /\ work[i].phase = "unborn" /\ work[i].done = "open"
  BY <1>2 DEF IInv, StateBacked
<1>5. i # s BY <1>1, <1>4
<1>6. state' \in [Runners -> State] /\ state'[r] = RunningState(i)
  BY <1>2, <1>3, <1>4 DEF IInv, TypeOK, State, Tags, RunningState
<1>7. /\ work' \in [Ids -> Work]
      /\ work'[s] = [work[s] EXCEPT !.phase = "ended"]
      /\ work'[i] = [work[i] EXCEPT !.phase = "forked"]
  BY <1>3, <1>4, <1>5 DEF IInv, TypeOK, Work, Phases
<1>8. \A j \in Ids : j # s /\ j # i => work'[j] = work[j]
  BY <1>3, <1>4 DEF IInv, TypeOK
<1>9. /\ work'[s].phase = "ended" /\ work'[s].kind = "shell" /\ work'[s].runner = r
      /\ work'[s].done = work[s].done /\ work'[s].intr = work[s].intr
      /\ work'[s].exit = work[s].exit
      /\ work'[i].phase = "forked" /\ work'[i].kind = "run" /\ work'[i].runner = r
      /\ work'[i].done = work[i].done /\ work'[i].intr = work[i].intr
      /\ work'[i].exit = work[i].exit
  BY <1>1, <1>4, <1>7 DEF IInv, TypeOK, Work
<1>10. StartsQueued(s, i, r)
  BY <1>2, <1>3, <1>4, <1>6, <1>7, <1>8, <1>9 DEF StartsQueued, RunningState, IInv, TypeOK
<1> QED BY <1>1, <1>2, <1>4, <1>5, <1>9, <1>10

LEMMA FinishShellIInv == ASSUME IInv, NEW s \in Ids, FinishShell(s) PROVE IInv'
<1>1. work[s].kind = "shell" /\ work[s].phase = "exited" /\ Unlocked(work[s].runner)
      /\ UNCHANGED <<ids, call>>
  BY DEF FinishShell
<1>2. work[s].runner \in Runners BY <1>1, MadeHandle
<1>3. CASE state[work[s].runner].tag = "Shell" /\ state[work[s].runner].shell = s
  <2>1. Phase(s, "notify") /\ state' = [state EXCEPT ![work[s].runner] = IdleState]
    BY <1>3 DEF FinishShell
  <2>2. Current(s) BY <1>3 DEF Current
  <2> QED BY <1>1, <1>3, <2>1, <2>2, FinisherGivesBack
<1>4. CASE state[work[s].runner].tag = "ShellThenRun" /\ state[work[s].runner].shell = s
  BY <1>4, FinishForm, StartQueuedIInv
<1>5. CASE state[work[s].runner].tag \notin {"Shell", "ShellThenRun"} \/ state[work[s].runner].shell # s
  <2>1. Phase(s, "ended") /\ UNCHANGED state BY <1>5 DEF FinishShell
  <2>2. ~ Current(s) BY <1>1, <1>2, <1>5 DEF Current, IInv, StateBacked, IsLive
  <2> QED BY <1>1, <2>1, <2>2, PhaseMoves
<1> QED BY <1>3, <1>4, <1>5

\* A caller makes a handle and puts it in the runner's state.
Forks(c, r, i) ==
  /\ i = ids + 1 /\ ids' = i
  /\ state' \in [Runners -> State] /\ work' \in [Ids -> Work] /\ call' \in [Callers -> Call]
  /\ \A q \in Runners : q # r => state'[q] = state[q]
  /\ \A j \in Ids : j # i => work'[j] = work[j]
  /\ \A d \in Callers : d # c => call'[d] = call[d]
  /\ call[c].pc \in {"ready", "onBusy"} /\ call'[c].pc \in {"await", "awaitShell"}
  /\ \A d \in Callers : d # c /\ call[d].pc = "onBusy" => call[d].runner # r
  /\ work'[i].runner = r
  /\ \/ /\ state[r].tag = "Idle" /\ state'[r] = RunningState(i)
        /\ work'[i].kind = "run" /\ work'[i].phase = "forked" /\ work'[i].done = "open"
     \/ /\ state[r].tag = "Idle" /\ state'[r] = ShellState(i)
        /\ work'[i].kind = "shell" /\ work'[i].phase = "forked" /\ work'[i].done = "none"
     \/ /\ state[r].tag = "Shell" /\ state'[r] = ShellThenRunState(state[r].shell, i)
        /\ work'[i].kind = "run" /\ work'[i].phase = "unborn" /\ work'[i].done = "open"

LEMMA ForksIInv ==
  ASSUME IInv, NEW c \in Callers, NEW r \in Runners, NEW i \in Ids, Forks(c, r, i)
  PROVE  IInv'
<1> USE DEF IInv
<1>1. work[i] = NoWork BY MaxIdsAssumption DEF HandlesMade, Forks, TypeOK, Ids
<1>2. work[i].kind = "none" /\ work[i].phase = "unborn" BY <1>1 DEF NoWork
<1>3. \A j \in Ids : work[j].kind \in {"run", "shell"} => work[j].runner \in Runners /\ j # i
  BY <1>2, MadeHandle
<1>4. /\ state'[r].tag = "Running" => /\ state[r].tag = "Idle"
                                      /\ state'[r].run = i /\ state'[r].shell = NoId
                                      /\ work'[i].kind = "run" /\ work'[i].phase = "forked"
                                      /\ work'[i].done = "open"
      /\ state'[r].tag = "Shell" => /\ state[r].tag = "Idle"
                                    /\ state'[r].shell = i /\ state'[r].run = NoId
                                    /\ work'[i].kind = "shell" /\ work'[i].phase = "forked"
                                    /\ work'[i].done = "none"
      /\ state'[r].tag = "ShellThenRun" =>
           /\ state[r].tag = "Shell" /\ state'[r].run = i /\ state'[r].shell = state[r].shell
           /\ work'[i].kind = "run" /\ work'[i].phase = "unborn" /\ work'[i].done = "open"
      /\ state'[r].tag \in {"Running", "Shell", "ShellThenRun"}
  BY DEF Forks, RunningState, ShellState, ShellThenRunState
<1>5. TypeOK' BY MaxIdsAssumption DEF TypeOK, Forks, Ids
<1>6. HandlesMade' BY <1>3, <1>4, MaxIdsAssumption DEF HandlesMade, TypeOK, Forks, Ids
<1>7. HandlesOK'
  <2>1. \A j \in Ids : j # i /\ work[j].kind = "run" /\ work[j].runner = r
                       => state[r].tag # "ShellThenRun"
    BY <1>4
  <2>2. \A d \in Callers : At(d, "failPending") => At(d, "failPending")' /\ call'[d] = call[d]
    BY DEF At, Forks
  <2> QED BY <1>3, <1>4, <2>1, <2>2 DEF HandlesOK, LivePhases, Forks
<1>8. StateBacked'
  <2>1. \A q \in Runners : q # r =>
          /\ state[q].tag = "Running" => state[q].run # i
          /\ state[q].tag \in {"Shell", "ShellThenRun"} => state[q].shell # i
          /\ state[q].tag = "ShellThenRun" => state[q].run # i
    BY <1>2 DEF StateBacked, IsLive
  <2>2. state[r].tag = "Shell" => state[r].shell # i BY <1>2 DEF StateBacked, IsLive
  <2>3. \A q \in Runners : q # r => state'[q] = state[q] BY DEF Forks
  <2>4. \A j \in Ids : j # i => work'[j] = work[j] BY DEF Forks
  <2>5. work'[i].runner = r BY DEF Forks
  <2> QED BY <1>4, <2>1, <2>2, <2>3, <2>4, <2>5 DEF StateBacked, IsLive
<1>9. CallsBacked'
  <2> SUFFICES ASSUME NEW d \in Callers
               PROVE  /\ call'[d].pc \in {"interrupt", "awaitFiber", "awaitDone"} =>
                           /\ call'[d].run \in Ids /\ work'[call'[d].run].kind = "run"
                           /\ work'[call'[d].run].phase # "unborn"
                           /\ call'[d].pc = "interrupt" => ~ Current(call[d].run)'
                      /\ call'[d].pc = "failPending" =>
                           /\ call'[d].run \in Ids /\ work'[call'[d].run].kind = "run"
                           /\ work'[call'[d].run].phase = "unborn"
                           /\ state'[work'[call'[d].run].runner].run # call'[d].run
                      /\ call'[d].pc \in {"failPending", "abort", "grace", "awaitStop"} =>
                           call'[d].shell \in Ids /\ work'[call'[d].shell].kind = "shell"
                      /\ call'[d].pc = "onBusy" =>
                           call'[d].runner \in Runners /\ state'[call'[d].runner].tag = "Idle"
    BY DEF CallsBacked, Current
  <2>1. CASE d = c BY <2>1 DEF Forks
  <2>2. CASE d # c /\ call[d].pc \in {"interrupt", "awaitFiber", "awaitDone"}
    <3>1. call'[d] = call[d] BY <2>2 DEF Forks
    <3>2. /\ call[d].run \in Ids /\ work[call[d].run].kind = "run"
          /\ work[call[d].run].phase # "unborn"
          /\ call[d].pc = "interrupt" => ~ Current(call[d].run)
      BY <2>2 DEF CallsBacked
    <3>3. call[d].run # i /\ work'[call[d].run] = work[call[d].run]
          /\ work[call[d].run].runner \in Runners
      BY <1>3, <3>2 DEF Forks
    <3>4. ~ Current(call[d].run) => ~ Current(call[d].run)'
      BY <1>4, <3>1, <3>2, <3>3 DEF Current, Forks
    <3> QED BY <2>2, <3>1, <3>2, <3>3, <3>4
  <2>3. CASE d # c /\ call[d].pc = "failPending"
    <3>1. call'[d] = call[d] BY <2>3 DEF Forks
    <3>2. /\ call[d].run \in Ids /\ work[call[d].run].kind = "run"
          /\ work[call[d].run].phase = "unborn"
          /\ state[work[call[d].run].runner].run # call[d].run
          /\ call[d].shell \in Ids /\ work[call[d].shell].kind = "shell"
      BY <2>3 DEF CallsBacked
    <3>3. call[d].run # i /\ call[d].shell # i /\ work'[call[d].run] = work[call[d].run]
          /\ work'[call[d].shell] = work[call[d].shell]
          /\ work[call[d].run].runner \in Runners
      BY <1>3, <3>2 DEF Forks
    <3>4. state'[r].run \in {i, NoId} BY <1>4
    <3>5. state'[work[call[d].run].runner].run # call[d].run
      BY <3>2, <3>3, <3>4 DEF Forks, NoId, Ids
    <3> QED BY <2>3, <3>1, <3>2, <3>3, <3>5
  <2>4. CASE d # c /\ call[d].pc \in {"abort", "grace", "awaitStop"}
    BY <1>3, <2>4 DEF CallsBacked, Forks
  <2>5. CASE d # c /\ call[d].pc = "onBusy" BY <2>5 DEF CallsBacked, Forks
  <2>6. d # c => call'[d] = call[d] BY DEF Forks
  <2> QED BY <2>1, <2>2, <2>3, <2>4, <2>5, <2>6
<1>10. OneInLock' BY DEF OneInLock, At, Forks
<1>11. LiveWorkIsCurrent'
  <2>1. Alive(i)' => Current(i)' BY <1>4 DEF Alive, Current, Forks
  <2>2. \A j \in Ids : j # i /\ Alive(j)' => Alive(j) /\ work[j].runner \in Runners
    BY MadeHandle DEF Alive, Forks
  <2>3. \A j \in Ids : j # i /\ Doomed(j) => Doomed(j)'
    BY DEF Doomed, CancelPending, At, Forks
  <2>4. \A j \in Ids : j # i /\ work[j].runner \in Runners /\ Current(j) => Current(j)'
    <3>1. \A j \in Ids : j # i /\ Current(j) /\ work[j].runner = r =>
            state[r].tag = "Shell" /\ state[r].shell = j
      BY <1>4 DEF Current
    <3> QED BY <1>4, <3>1 DEF Current, Forks
  <2> QED BY <2>1, <2>2, <2>3, <2>4 DEF LiveWorkIsCurrent
<1>12. ShellsLeft'
  <2>1. ASSUME NEW j \in Ids, work[j].kind # "none", Current(j)' PROVE Current(j)
    <3>1. j # i /\ work'[j] = work[j] /\ work[j].runner \in Runners
      BY <1>2, <2>1, MadeHandle DEF Forks
    <3>2. CASE work[j].runner = r
      BY <1>4, <2>1, <3>1, <3>2 DEF Current
    <3>3. CASE work[j].runner # r
      BY <2>1, <3>1, <3>3 DEF Current, Forks
    <3> QED BY <3>2, <3>3
  <2>2. \A d \in Callers : call'[d].pc \in {"failPending", "abort", "grace"} =>
          call[d].pc \in {"failPending", "abort", "grace"} /\ call'[d].shell = call[d].shell
    BY DEF Forks
  <2> QED BY <2>1, <2>2, StaysLeft DEF ShellsLeft
<1> QED BY <1>5, <1>6, <1>7, <1>8, <1>9, <1>10, <1>11, <1>12

LEMMA StartersIInv ==
  ASSUME IInv, NEW c \in Callers, NEW r \in Runners,
         QueueRun(c, r) \/ StartRun(c, r) \/ ForkShell(c, r)
  PROVE  IInv'
<1> USE DEF IInv
<1>1. CASE QueueRun(c, r)
  <2>1. PICK i \in Ids : /\ NewId(i)
                         /\ state' = [state EXCEPT ![r] = ShellThenRunState(state[r].shell, i)]
                         /\ work' = [work EXCEPT ![i] = PendingRun(r)]
                         /\ AwaitRun(c, i)
    BY <1>1 DEF QueueRun
  <2>2. call[c].pc = "ready" /\ Unlocked(r) /\ state[r].tag = "Shell"
    BY <1>1 DEF QueueRun, Entering, At
  <2>3. ShellThenRunState(state[r].shell, i) \in State
    BY DEF ShellThenRunState, State, Tags, TypeOK
  <2>4. /\ PendingRun(r) \in Work /\ PendingRun(r).runner = r /\ PendingRun(r).kind = "run"
        /\ PendingRun(r).phase = "unborn" /\ PendingRun(r).done = "open"
    BY DEF PendingRun, NoWork, Work, Phases, Exits
  <2>5. /\ [call[c] EXCEPT !.pc = "await", !.run = i] \in Call
        /\ [call[c] EXCEPT !.pc = "await", !.run = i].pc = "await"
    BY DEF TypeOK, Call
  <2>6. Forks(c, r, i)
    BY <2>1, <2>2, <2>3, <2>4, <2>5 DEF Forks, TypeOK, NewId, AwaitRun, Unlocked
  <2> QED BY <2>6, ForksIInv
<1>2. CASE StartRun(c, r)
  <2>1. PICK i \in Ids : /\ NewId(i)
                         /\ state' = [state EXCEPT ![r] = RunningState(i)]
                         /\ work' = [work EXCEPT ![i] = ForkedRun(r)]
                         /\ AwaitRun(c, i)
    BY <1>2 DEF StartRun
  <2>2. call[c].pc = "ready" /\ Unlocked(r) /\ state[r].tag = "Idle"
    BY <1>2 DEF StartRun, Entering, At
  <2>3. RunningState(i) \in State BY DEF RunningState, State, Tags
  <2>4. /\ ForkedRun(r) \in Work /\ ForkedRun(r).runner = r /\ ForkedRun(r).kind = "run"
        /\ ForkedRun(r).phase = "forked" /\ ForkedRun(r).done = "open"
    BY DEF ForkedRun, NoWork, Work, Phases, Exits
  <2>5. /\ [call[c] EXCEPT !.pc = "await", !.run = i] \in Call
        /\ [call[c] EXCEPT !.pc = "await", !.run = i].pc = "await"
    BY DEF TypeOK, Call
  <2>6. Forks(c, r, i)
    BY <2>1, <2>2, <2>3, <2>4, <2>5 DEF Forks, TypeOK, NewId, AwaitRun, Unlocked
  <2> QED BY <2>6, ForksIInv
<1>3. CASE ForkShell(c, r)
  <2>1. PICK i \in Ids : /\ NewId(i)
                         /\ state' = [state EXCEPT ![r] = ShellState(i)]
                         /\ work' = [work EXCEPT ![i] = ForkedShell(r)]
                         /\ call' = [call EXCEPT ![c] = [@ EXCEPT !.pc = "awaitShell", !.shell = i]]
    BY <1>3 DEF ForkShell
  <2>2. call[c].pc = "onBusy" /\ call[c].runner = r BY <1>3 DEF ForkShell, At
  <2>3. state[r].tag = "Idle" /\ \A d \in Callers : d # c /\ call[d].pc = "onBusy" => call[d].runner # r
    BY <2>2 DEF CallsBacked, OneInLock, At
  <2>4. ShellState(i) \in State BY DEF ShellState, State, Tags
  <2>5. /\ ForkedShell(r) \in Work /\ ForkedShell(r).runner = r /\ ForkedShell(r).kind = "shell"
        /\ ForkedShell(r).phase = "forked" /\ ForkedShell(r).done = "none"
    BY DEF ForkedShell, NoWork, Work, Phases, Exits
  <2>6. /\ [call[c] EXCEPT !.pc = "awaitShell", !.shell = i] \in Call
        /\ [call[c] EXCEPT !.pc = "awaitShell", !.shell = i].pc = "awaitShell"
    BY DEF TypeOK, Call
  <2>7. Forks(c, r, i) BY <2>1, <2>2, <2>3, <2>4, <2>5, <2>6 DEF Forks, TypeOK, NewId
  <2> QED BY <2>7, ForksIInv
<1> QED BY <1>1, <1>2, <1>3

\* startShell takes the lock.
LEMMA ShellOnBusyIInv ==
  ASSUME IInv, NEW c \in Callers, NEW r \in Runners, ShellOnBusy(c, r) PROVE IInv'
<1> USE DEF IInv
<1> DEFINE v == [call[c] EXCEPT !.pc = "onBusy"]
<1>1. /\ call[c].pc = "ready" /\ call[c].runner = r /\ state[r].tag = "Idle"
      /\ \A d \in Callers : ~ (call[d].pc = "onBusy" /\ call[d].runner = r)
      /\ UNCHANGED <<state, ids, work>>
  BY DEF ShellOnBusy, Entering, At, Unlocked
<1>2. v \in Call /\ v.pc = "onBusy" /\ v.runner = r BY <1>1, CallPc
<1>3. call' = [call EXCEPT ![c] = v] BY GoIsUpdate DEF ShellOnBusy
<1> HIDE DEF v
<1>4. call'[c] = v /\ \A d \in Callers : d # c => call'[d] = call[d] BY <1>3 DEF TypeOK
<1>5. TypeOK' BY <1>1, <1>2, <1>3 DEF TypeOK
<1>6. HandlesMade' BY <1>1 DEF HandlesMade
<1>7. HandlesOK' BY <1>1, <1>2, <1>4 DEF HandlesOK, At
<1>8. StateBacked' BY <1>1 DEF StateBacked, IsLive
<1>9. CallsBacked' BY <1>1, <1>2, <1>4 DEF CallsBacked, Current
<1>10. OneInLock' BY <1>1, <1>2, <1>4 DEF OneInLock, At
<1>11. LiveWorkIsCurrent'
  <2>1. \A i \in Ids : CancelPending(i) => CancelPending(i)'
    BY <1>1, <1>4 DEF CancelPending, At
  <2> QED BY <1>1, <2>1 DEF LiveWorkIsCurrent, Doomed, Alive, Current
<1>12. ShellsLeft'
  <2>1. \A j \in Ids : Current(j)' => Current(j) BY <1>1 DEF Current
  <2> QED BY <1>2, <1>4, <2>1, StaysLeft DEF ShellsLeft
<1> QED BY <1>5, <1>6, <1>7, <1>8, <1>9, <1>10, <1>11, <1>12

\* cancel lets go of what the state held and remembers it.
LEMMA CancelBeginIInv ==
  ASSUME IInv, NEW c \in Callers, NEW r \in Runners, CancelBegin(c, r) PROVE IInv'
<1> USE DEF IInv
<1> DEFINE st == state[r]
           v == [call[c] EXCEPT !.pc = FirstEffect(st.tag), !.run = st.run, !.shell = st.shell]
<1>1. /\ call[c].pc = "ready" /\ call[c].runner = r /\ st.tag # "Idle"
      /\ \A d \in Callers : ~ (call[d].pc = "onBusy" /\ call[d].runner = r)
      /\ state' = [state EXCEPT ![r] = IdleState] /\ UNCHANGED <<ids, work>>
      /\ call' = [call EXCEPT ![c] = v]
  BY DEF CancelBegin, Entering, At, Unlocked
<1>2. /\ st.tag = "Running" => /\ FirstEffect(st.tag) = "interrupt" /\ IsLive(st.run, "run", r)
      /\ st.tag = "Shell" => /\ FirstEffect(st.tag) = "abort" /\ IsLive(st.shell, "shell", r)
      /\ st.tag = "ShellThenRun" =>
           /\ FirstEffect(st.tag) = "failPending" /\ IsLive(st.shell, "shell", r)
           /\ st.run \in Ids /\ work[st.run].kind = "run" /\ work[st.run].runner = r
           /\ work[st.run].phase = "unborn"
      /\ st.tag \in {"Running", "Shell", "ShellThenRun"}
      /\ st.run \in Ids \cup {NoId} /\ st.shell \in Ids \cup {NoId}
  BY <1>1 DEF StateBacked, FirstEffect, TypeOK, State, Tags
<1>3. /\ v \in Call /\ v.pc = FirstEffect(st.tag) /\ v.run = st.run /\ v.shell = st.shell
  BY <1>2 DEF TypeOK, Call, CancelPcs
<1> HIDE DEF v
<1>4. call'[c] = v /\ \A d \in Callers : d # c => call'[d] = call[d] BY <1>1 DEF TypeOK
<1>5. /\ state'[r].tag = "Idle" /\ state'[r].run = NoId /\ state'[r].shell = NoId
      /\ \A q \in Runners : q # r => state'[q] = state[q]
  BY <1>1 DEF TypeOK, IdleState
<1>6. \A j \in Ids : Current(j)' => Current(j) BY <1>1, <1>5 DEF Current
<1>7. TypeOK'
  <2>1. IdleState \in State BY DEF IdleState, State, Tags
  <2> QED BY <1>1, <1>3, <2>1 DEF TypeOK
<1>8. HandlesMade' BY <1>1 DEF HandlesMade
<1>9. HandlesOK'
  <2>1. \A j \in Ids : work[j].kind = "run" => work[j].runner \in Runners BY MadeHandle
  <2>2. \A d \in Callers : At(d, "failPending") => At(d, "failPending")' /\ call'[d].run = call[d].run
    BY <1>1, <1>4 DEF At
  <2>3. st.tag = "ShellThenRun" => At(c, "failPending")' /\ call'[c].run = st.run
    BY <1>2, <1>3, <1>4 DEF At
  <2> QED BY <1>1, <1>5, <2>1, <2>2, <2>3 DEF HandlesOK
<1>10. StateBacked' BY <1>1, <1>5 DEF StateBacked, IsLive
<1>11. CallsBacked'
  <2> SUFFICES ASSUME NEW d \in Callers
               PROVE  /\ call'[d].pc \in {"interrupt", "awaitFiber", "awaitDone"} =>
                           /\ call'[d].run \in Ids /\ work[call'[d].run].kind = "run"
                           /\ work[call'[d].run].phase # "unborn"
                           /\ call'[d].pc = "interrupt" => ~ Current(call[d].run)'
                      /\ call'[d].pc = "failPending" =>
                           /\ call'[d].run \in Ids /\ work[call'[d].run].kind = "run"
                           /\ work[call'[d].run].phase = "unborn"
                           /\ state'[work[call'[d].run].runner].run # call'[d].run
                      /\ call'[d].pc \in {"failPending", "abort", "grace", "awaitStop"} =>
                           call'[d].shell \in Ids /\ work[call'[d].shell].kind = "shell"
                      /\ call'[d].pc = "onBusy" =>
                           call'[d].runner \in Runners /\ state'[call'[d].runner].tag = "Idle"
    BY <1>1 DEF CallsBacked, Current
  <2>1. CASE d = c
    <3>1. call'[d].pc = "interrupt" => ~ Current(call[d].run)'
      BY <1>1, <1>2, <1>3, <1>4, <1>5, <2>1 DEF Current, IsLive
    <3>2. call'[d].pc = "failPending" => state'[work[call'[d].run].runner].run # call'[d].run
      BY <1>2, <1>3, <1>4, <1>5, <2>1 DEF NoId, Ids
    <3> QED BY <1>2, <1>3, <1>4, <2>1, <3>1, <3>2 DEF IsLive
  <2>2. CASE d # c /\ call[d].pc \in {"interrupt", "awaitFiber", "awaitDone"}
    <3>1. call'[d] = call[d] BY <1>4, <2>2
    <3>2. call[d].run \in Ids BY <2>2 DEF CallsBacked
    <3>3. ~ Current(call[d].run) => ~ Current(call[d].run)'
      BY <1>1, <1>5, <3>1 DEF Current
    <3> QED BY <2>2, <3>1, <3>2, <3>3 DEF CallsBacked
  <2>3. CASE d # c /\ call[d].pc = "failPending"
    <3>1. call'[d] = call[d] BY <1>4, <2>3
    <3>2. /\ call[d].run \in Ids /\ work[call[d].run].kind = "run"
          /\ work[call[d].run].phase = "unborn"
          /\ state[work[call[d].run].runner].run # call[d].run
          /\ call[d].shell \in Ids /\ work[call[d].shell].kind = "shell"
      BY <2>3 DEF CallsBacked
    <3>3. work[call[d].run].runner \in Runners BY <3>2, MadeHandle
    <3>4. state'[work[call[d].run].runner].run # call[d].run BY <1>5, <3>2, <3>3 DEF NoId, Ids
    <3> QED BY <2>3, <3>1, <3>2, <3>4
  <2>4. CASE d # c /\ call[d].pc \in {"abort", "grace", "awaitStop"}
    BY <1>4, <2>4 DEF CallsBacked
  <2>5. CASE d # c /\ call[d].pc = "onBusy" BY <1>1, <1>4, <1>5, <2>5 DEF CallsBacked
  <2> QED BY <1>4, <2>1, <2>2, <2>3, <2>4, <2>5
<1>12. OneInLock' BY <1>2, <1>3, <1>4 DEF OneInLock, At
<1>13. LiveWorkIsCurrent'
  <2>1. \A j \in Ids : Doomed(j) => Doomed(j)' BY <1>1, <1>4 DEF Doomed, CancelPending, At
  <2>2. \A j \in Ids : Alive(j) => work[j].runner \in Runners BY MadeHandle DEF Alive
  <2>3. \A j \in Ids : Alive(j) /\ Current(j) /\ work[j].runner = r => CancelPending(j)'
    <3>1. \A j \in Ids : Current(j) /\ work[j].runner = r =>
            \/ st.tag = "Running" /\ st.run = j
            \/ st.tag \in {"Shell", "ShellThenRun"} /\ st.shell = j
      BY DEF Current
    <3> QED BY <1>2, <1>3, <1>4, <3>1 DEF CancelPending, At
  <2>4. \A j \in Ids : Alive(j) /\ Current(j) /\ work[j].runner # r => Current(j)'
    BY <1>1, <1>5, <2>2 DEF Current
  <2> QED BY <1>1, <2>1, <2>3, <2>4 DEF LiveWorkIsCurrent, Doomed, Alive
<1>14. ShellsLeft'
  <2>1. ASSUME NEW d \in Callers, d # c PROVE StoppedLeft(d)'
    <3>1. call'[d] = call[d] BY <1>4, <2>1
    <3> QED BY <1>6, <3>1, StaysLeft
  <2>2. StoppedLeft(c)'
    BY <1>1, <1>2, <1>3, <1>4, <1>5 DEF StoppedLeft, Current, IsLive
  <2> QED BY <2>1, <2>2 DEF ShellsLeft
<1> QED BY <1>7, <1>8, <1>9, <1>10, <1>11, <1>12, <1>13, <1>14

\* cancel interrupts the fiber it took.
LEMMA InterruptMoves ==
  ASSUME IInv, NEW c \in Callers, NEW k \in Ids, NEW pc \in {"awaitFiber", "awaitStop"},
         Interrupt(k), Go(c, pc), UNCHANGED <<state, ids>>,
         \/ pc = "awaitFiber" /\ call[c].pc = "interrupt" /\ k = call[c].run
         \/ pc = "awaitStop" /\ call[c].pc = "grace" /\ k = call[c].shell
  PROVE  IInv'
<1> USE DEF IInv
<1> DEFINE v == [call[c] EXCEPT !.pc = pc]
           w == Interrupted(work[k])
<1>1. v \in Call /\ v.pc = pc /\ v.run = call[c].run /\ v.shell = call[c].shell
  BY CallPc DEF CancelPcs
<1>2. /\ w \in Work /\ w.kind = work[k].kind /\ w.runner = work[k].runner /\ w.exit = work[k].exit
      /\ w.done = work[k].done
      /\ work[k].phase # "forked" => w.phase = work[k].phase
      /\ work[k].phase = "forked" => w.phase = "discarded"
      /\ (work[k].phase = "working" => w.intr)
  BY DEF TypeOK, Work, Phases, Interrupted
<1>3. call' = [call EXCEPT ![c] = v] BY GoIsUpdate
<1>4. work' = [work EXCEPT ![k] = w] BY DEF Interrupt, TypeOK
<1>5. work[k].kind \in {"run", "shell"} /\ work[k].phase \in Phases
  BY DEF CallsBacked, TypeOK, Work
<1> HIDE DEF v, w
<1>6. call'[c] = v /\ \A d \in Callers : d # c => call'[d] = call[d] BY <1>3 DEF TypeOK
<1>7. work'[k] = w /\ \A j \in Ids : j # k => work'[j] = work[j] BY <1>4 DEF TypeOK
<1>8. \A j \in Ids : /\ work'[j].kind = work[j].kind /\ work'[j].runner = work[j].runner
                     /\ work'[j].exit = work[j].exit /\ work'[j].done = work[j].done
                     /\ \/ work'[j].phase = work[j].phase
                        \/ j = k /\ work[j].phase = "forked" /\ work'[j].phase = "discarded"
  BY <1>2, <1>7
<1>9. TypeOK' BY <1>1, <1>2, <1>3, <1>4 DEF TypeOK
<1>10. HandlesMade'
  <2>1. k <= ids /\ work[k].runner \in Runners BY <1>5, MadeHandle
  <2> QED BY <1>2, <1>5, <1>7, <2>1, MaxIdsAssumption DEF HandlesMade, TypeOK, Ids
<1>11. HandlesOK'
  <2>1. \A d \in Callers : At(d, "failPending") => At(d, "failPending")' /\ call'[d] = call[d]
    BY <1>6 DEF At
  <2>2. state' = state OBVIOUS
  <2> HIDE <1>4
  <2> QED BY <1>8, <2>1, <2>2 DEF HandlesOK, LivePhases
<1>12. StateBacked'
  <2>1. ~ Current(k) BY DEF CallsBacked, ShellsLeft, StoppedLeft
  <2>2. \A q \in Runners : /\ state[q].tag = "Running" => state[q].run # k
                           /\ state[q].tag \in {"Shell", "ShellThenRun"} => state[q].shell # k
    BY <2>1 DEF StateBacked, IsLive, Current
  <2>3. state' = state OBVIOUS
  <2> HIDE <1>4
  <2> QED BY <1>8, <2>2, <2>3 DEF StateBacked, IsLive
<1>13. CallsBacked'
  <2>1. \A j \in Ids : Current(j)' <=> Current(j) BY <1>8 DEF Current
  <2> SUFFICES ASSUME NEW d \in Callers
               PROVE  /\ call'[d].pc \in {"interrupt", "awaitFiber", "awaitDone"} =>
                           /\ call'[d].run \in Ids /\ work'[call'[d].run].kind = "run"
                           /\ work'[call'[d].run].phase # "unborn"
                           /\ call'[d].pc = "interrupt" => ~ Current(call[d].run)'
                      /\ call'[d].pc = "failPending" =>
                           /\ call'[d].run \in Ids /\ work'[call'[d].run].kind = "run"
                           /\ work'[call'[d].run].phase = "unborn"
                           /\ state[work'[call'[d].run].runner].run # call'[d].run
                      /\ call'[d].pc \in {"failPending", "abort", "grace", "awaitStop"} =>
                           call'[d].shell \in Ids /\ work'[call'[d].shell].kind = "shell"
                      /\ call'[d].pc = "onBusy" =>
                           call'[d].runner \in Runners /\ state[call'[d].runner].tag = "Idle"
    BY DEF CallsBacked, Current
  <2>2. CASE d = c BY <1>1, <1>6, <1>8, <2>2 DEF CallsBacked
  <2>3. CASE d # c
    <3>1. call'[d] = call[d] BY <1>6, <2>3
    <3>2. call[d].pc = "interrupt" => ~ Current(call[d].run)'
      BY <1>8, <3>1 DEF CallsBacked, Current
    <3> QED BY <1>8, <3>1, <3>2 DEF CallsBacked
  <2> QED BY <2>2, <2>3
<1>14. OneInLock' BY <1>1, <1>6 DEF OneInLock, At
<1>15. LiveWorkIsCurrent'
  <2>1. \A j \in Ids : Current(j)' <=> Current(j) BY <1>8 DEF Current
  <2>2. Alive(k)' => work'[k].intr BY <1>2, <1>7 DEF Alive
  <2>4. \A j \in Ids : Alive(j)' => Alive(j) BY <1>8 DEF Alive
  <2>3. \A j \in Ids : j # k /\ Doomed(j) => Doomed(j)'
    <3>1. \A j \in Ids : j # k /\ CancelPending(j) => CancelPending(j)'
      BY <1>6 DEF CancelPending, At
    <3> QED BY <1>7, <3>1 DEF Doomed
  <2> QED BY <2>1, <2>2, <2>3, <2>4 DEF LiveWorkIsCurrent, Doomed
<1>16. ShellsLeft'
  <2>1. \A j \in Ids : Current(j)' => Current(j) BY <1>8 DEF Current
  <2>2. \A d \in Callers : call'[d].pc \in {"failPending", "abort", "grace"} =>
          call[d].pc \in {"failPending", "abort", "grace"} /\ call'[d].shell = call[d].shell
    BY <1>1, <1>6
  <2> QED BY <2>1, <2>2, StaysLeft DEF ShellsLeft
<1> QED BY <1>9, <1>10, <1>11, <1>12, <1>13, <1>14, <1>15, <1>16

\* cancel fails the Deferred of a run that never started.
LEMMA FailPendingIInv == ASSUME IInv, NEW c \in Callers, CancelFailPending(c) PROVE IInv'
<1> USE DEF IInv
<1> DEFINE v == [call[c] EXCEPT !.pc = "abort"]
<1>1. /\ call[c].pc = "failPending" /\ UNCHANGED <<state, ids>>
      /\ work' = [work EXCEPT ![call[c].run].done = "cancelled"] /\ Go(c, "abort")
  BY DEF CancelFailPending, At
<1>2. PICK k \in Ids : /\ k = call[c].run /\ work[k].kind = "run" /\ work[k].phase = "unborn"
                       /\ state[work[k].runner].run # k
                       /\ call[c].shell \in Ids /\ work[call[c].shell].kind = "shell"
  BY <1>1 DEF CallsBacked
<1> DEFINE w == [work[k] EXCEPT !.done = "cancelled"]
<1>3. v \in Call /\ v.pc = "abort" /\ v.run = k /\ v.shell = call[c].shell
  BY <1>2, CallPc DEF CancelPcs
<1>4. /\ w \in Work /\ w.kind = "run" /\ w.runner = work[k].runner
      /\ w.phase = "unborn" /\ w.done = "cancelled" /\ w.intr = work[k].intr
  BY <1>2 DEF TypeOK, Work, Settled
<1>5. call' = [call EXCEPT ![c] = v] BY <1>1, GoIsUpdate
<1>6. work' = [work EXCEPT ![k] = w] BY <1>1, <1>2 DEF TypeOK
<1> HIDE DEF v, w
<1>7. call'[c] = v /\ \A d \in Callers : d # c => call'[d] = call[d] BY <1>5 DEF TypeOK
<1>8. work'[k] = w /\ \A j \in Ids : j # k => work'[j] = work[j] BY <1>6 DEF TypeOK
<1>9. \A j \in Ids : /\ work'[j].kind = work[j].kind /\ work'[j].runner = work[j].runner
                     /\ work'[j].phase = work[j].phase /\ work'[j].intr = work[j].intr
  BY <1>2, <1>4, <1>8
<1>10. TypeOK' BY <1>1, <1>3, <1>4, <1>5, <1>6 DEF TypeOK
<1>11. HandlesMade'
  <2>1. k <= ids /\ work[k].runner \in Runners BY <1>2, MadeHandle
  <2> QED BY <1>1, <1>2, <1>4, <1>8, <2>1, MaxIdsAssumption DEF HandlesMade, TypeOK, Ids
<1>12. HandlesOK'
  <2>1. \A d \in Callers, j \in Ids : j # k /\ At(d, "failPending") /\ call[d].run = j
                                      => At(d, "failPending")' /\ call'[d].run = j
    BY <1>2, <1>7 DEF At
  <2> QED BY <1>1, <1>2, <1>4, <1>8, <2>1 DEF HandlesOK, LivePhases
<1>13. StateBacked'
  <2>1. \A q \in Runners : /\ state[q].tag = "Running" => state[q].run # k
                           /\ state[q].tag \in {"Shell", "ShellThenRun"} => state[q].shell # k
                           /\ state[q].tag = "ShellThenRun" => state[q].run # k
    BY <1>2 DEF StateBacked, IsLive
  <2>2. \A j \in Ids : j # k => work'[j] = work[j] BY <1>8
  <2>3. state' = state BY <1>1
  <2> QED
    <3> HIDE <1>6
    <3> QED BY <2>1, <2>2, <2>3 DEF StateBacked, IsLive
<1>14. CallsBacked'
  <2> SUFFICES ASSUME NEW d \in Callers
               PROVE  /\ call'[d].pc \in {"interrupt", "awaitFiber", "awaitDone"} =>
                           /\ call'[d].run \in Ids /\ work'[call'[d].run].kind = "run"
                           /\ work'[call'[d].run].phase # "unborn"
                           /\ call'[d].pc = "interrupt" => ~ Current(call[d].run)'
                      /\ call'[d].pc = "failPending" =>
                           /\ call'[d].run \in Ids /\ work'[call'[d].run].kind = "run"
                           /\ work'[call'[d].run].phase = "unborn"
                           /\ state[work'[call'[d].run].runner].run # call'[d].run
                      /\ call'[d].pc \in {"failPending", "abort", "grace", "awaitStop"} =>
                           call'[d].shell \in Ids /\ work'[call'[d].shell].kind = "shell"
                      /\ call'[d].pc = "onBusy" =>
                           call'[d].runner \in Runners /\ state[call'[d].runner].tag = "Idle"
    BY <1>1 DEF CallsBacked, Current
  <2>1. CASE d = c BY <1>2, <1>3, <1>7, <1>9, <2>1
  <2>2. CASE d # c
    <3>1. call'[d] = call[d] BY <1>7, <2>2
    <3>2. call[d].pc = "interrupt" => ~ Current(call[d].run)'
      BY <1>1, <1>9, <3>1 DEF CallsBacked, Current
    <3> QED BY <1>9, <3>1, <3>2 DEF CallsBacked
  <2> QED BY <2>1, <2>2
<1>15. OneInLock' BY <1>3, <1>7 DEF OneInLock, At
<1>16. LiveWorkIsCurrent'
  <2>1. \A j \in Ids : Current(j) => Current(j)' BY <1>1, <1>9 DEF Current
  <2>2. \A j \in Ids : Alive(j) /\ CancelPending(j) => CancelPending(j)'
    BY <1>1, <1>2, <1>3, <1>7 DEF CancelPending, At, Alive
  <2> QED BY <1>9, <2>1, <2>2 DEF LiveWorkIsCurrent, Alive, Doomed
<1>17. ShellsLeft'
  <2>1. \A j \in Ids : Current(j)' => Current(j) BY <1>1, <1>9 DEF Current
  <2>2. \A d \in Callers : call'[d].pc \in {"failPending", "abort", "grace"} =>
          call[d].pc \in {"failPending", "abort", "grace"} /\ call'[d].shell = call[d].shell
    BY <1>1, <1>3, <1>7
  <2> QED BY <2>1, <2>2, StaysLeft DEF ShellsLeft
<1> QED BY <1>10, <1>11, <1>12, <1>13, <1>14, <1>15, <1>16, <1>17

LEMMA NextIInv == IInv /\ [Next]_runnerVars => IInv'
<1> SUFFICES ASSUME IInv, [Next]_runnerVars PROVE IInv'
  OBVIOUS
<1>1. ASSUME NEW c \in Callers, NEW r \in Runners, NEW op \in Ops, Obtain(c, r, op) PROVE IInv'
  BY <1>1, QuietCallers
<1>2. ASSUME NEW c \in Callers, NEW r \in Runners, Enter(c, r) PROVE IInv'
  BY <1>2, QuietCallers, StartersIInv, ShellOnBusyIInv, CancelBeginIInv DEF Enter
<1>3. ASSUME NEW c \in Callers, Stop(c) PROVE IInv'
  <2>1. CASE CancelInterrupt(c)
    <3>1. call[c].pc = "interrupt" BY <2>1 DEF CancelInterrupt, At
    <3>2. call[c].run \in Ids BY <3>1 DEF IInv, CallsBacked
    <3> QED BY <2>1, <3>1, <3>2, InterruptMoves DEF CancelInterrupt
  <2>2. CASE StopShellTimeout(c)
    <3>1. call[c].pc = "grace" BY <2>2 DEF StopShellTimeout, At
    <3>2. call[c].shell \in Ids BY <3>1 DEF IInv, CallsBacked
    <3> QED BY <2>2, <3>1, <3>2, InterruptMoves DEF StopShellTimeout
  <2>3. CASE CancelFailPending(c) BY <2>3, FailPendingIInv
  <2>4. CASE CancelAwaitFiber(c) \/ CancelAwaitDone(c) \/ StopShellAbort(c) \/ StopShellDone(c)
             \/ IdleIfCurrent(c) \/ CancelIdleBegin(c) \/ CancelIdleEnd(c)
    BY <2>4, QuietCallers
  <2> QED BY <1>3, <2>1, <2>2, <2>3, <2>4 DEF Stop
<1>4. ASSUME NEW c \in Callers, Await(c) PROVE IInv'
  BY <1>4, QuietCallers DEF Await
<1>5. ASSUME NEW i \in Ids, NEW e \in Exits, WorkExit(i, e) PROVE IInv'
  BY <1>5, WorkExitIInv
<1>8. ASSUME NEW i \in Ids, BeginWork(i) PROVE IInv'
  BY <1>8, BeginWorkIInv
<1>6. ASSUME NEW i \in Ids, Finish(i) PROVE IInv'
  BY <1>6, FinishRunIInv, FinishShellIInv, IdleCallbackIInv, CompleteIInv DEF Finish
<1>7. CASE UNCHANGED runnerVars
  BY <1>7 DEF runnerVars, IInv, TypeOK, HandlesMade, HandlesOK, StateBacked, IsLive, CallsBacked,
              OneInLock, ShellsLeft, StoppedLeft, LiveWorkIsCurrent, Alive, Doomed, CancelPending, Current, At
<1> QED BY <1>1, <1>2, <1>3, <1>4, <1>5, <1>6, <1>7, <1>8 DEF Next

-----------------------------------------------------------------------------
(* What a cancel captured *)

\* A step of the runners, also as the session takes it: a session's cancel that finds
\* nothing to do moves its caller, and some of the session's steps leave runners alone.
RunnerStep == Next \/ (\E c \in Callers : CancelIdle(c)) \/ UNCHANGED runnerVars

LEMMA StepIInv == IInv /\ RunnerStep => IInv'
<1> SUFFICES ASSUME IInv, RunnerStep PROVE IInv'
  OBVIOUS
<1>1. ASSUME NEW c \in Callers, CancelIdle(c) PROVE IInv'
  <2> DEFINE v == [NoCall EXCEPT !.pc = "notifying", !.op = "cancel"]
  <2>1. v \in Call /\ v.pc = "notifying" BY DEF NoCall, Call, CancelPcs, Ops
  <2>2. call[c].pc = "out" /\ call' = [call EXCEPT ![c] = v] /\ UNCHANGED <<state, ids, work>>
    BY <1>1 DEF CancelIdle, At
  <2> HIDE DEF v
  <2>3. Harmless(c, v) BY <2>1, <2>2 DEF Harmless
  <2> QED BY <2>1, <2>2, <2>3, CallerMoves
<1> QED BY <1>1, NextIInv DEF RunnerStep

\* A handle that is over: its fiber is gone and it has no Deferred that is open.
EndedWork(i) == i \in Ids /\ work[i].kind # "none" /\ Stopped(i)

\* What a cancel has captured and got behind it is over; a shell it captured is alone
\* or had the captured run queued behind it.
CaptureOK(c) ==
  /\ call[c].pc \in (CancelPcs \ {"notifying"}) \cup {"ready"} => call[c].runner \in Runners
  /\ call[c].pc \in {"interrupt", "awaitFiber", "awaitDone"} => call[c].shell = NoId
  /\ call[c].pc = "awaitDone" => HasExited(call[c].run)
  /\ call[c].pc \in {"abort", "grace", "awaitStop"} => call[c].run = NoId \/ EndedWork(call[c].run)
  /\ call[c].pc \in {"idleCheck", "notify", "notifying"} =>
       /\ call[c].run = NoId \/ EndedWork(call[c].run)
       /\ call[c].shell = NoId \/ EndedWork(call[c].shell)
Captures == \A c \in Callers : CaptureOK(c)

\* What is over stays over: a queued run that was failed is in no runner's state, and
\* the rest of the steps only touch fibers that still run.
LEMMA OverStays ==
  ASSUME IInv, RunnerStep, NEW i \in Ids, work[i].kind # "none",
         HasExited(i) \/ (work[i].phase = "unborn" /\ work[i].done # "open")
  PROVE  /\ work'[i].kind = work[i].kind /\ work'[i].phase = work[i].phase
         /\ work[i].done # "open" => work'[i].done # "open"
<1> USE DEF IInv
<1>1. i <= ids /\ work[i].kind # "none" /\ work[i].phase \in {"unborn", "ended", "discarded"}
      /\ (work[i].phase = "unborn" => work[i].done # "open")
  BY MadeHandle DEF HasExited
<1>2. SUFFICES /\ work'[i].kind = work[i].kind /\ work'[i].phase = work[i].phase
               /\ work[i].done # "open" => work'[i].done # "open"
  OBVIOUS
<1>3. CASE work' = work BY <1>1, <1>3
<1>4. ASSUME NEW c \in Callers, NEW r \in Runners, Enter(c, r)
      PROVE  work'[i] = work[i]
  <2>1. CASE QueueRun(c, r) \/ StartRun(c, r) \/ ForkShell(c, r)
    <3>1. PICK j \in Ids : NewId(j) /\ \E w : work' = [work EXCEPT ![j] = w]
      <4>1. CASE QueueRun(c, r) BY <4>1 DEF QueueRun
      <4>2. CASE StartRun(c, r) BY <4>2 DEF StartRun
      <4>3. CASE ForkShell(c, r) BY <4>3 DEF ForkShell
      <4> QED BY <2>1, <4>1, <4>2, <4>3
    <3>2. j # i BY <1>1, <3>1, MaxIdsAssumption DEF NewId, TypeOK, Ids
    <3> QED BY <3>1, <3>2 DEF TypeOK
  <2>2. CASE UNCHANGED work BY <2>2
  <2> QED BY <1>4, <2>1, <2>2 DEF Enter, JoinRun, RefuseShell, ShellOnBusy, CancelNothing, CancelBegin
<1>5. ASSUME NEW j \in Ids, NEW e \in Exits, WorkExit(j, e) PROVE work'[i] = work[i]
  BY <1>1, <1>5 DEF WorkExit, TypeOK
<1>6. ASSUME NEW j \in Ids, Finish(j) PROVE work'[i] = work[i]
  <2>1. CASE FinishRun(j) BY <1>1, <2>1 DEF FinishRun, Phase, TypeOK
  <2>2. CASE FinishShell(j)
    <3> DEFINE r == work[j].runner
    <3>1. work[j].phase = "exited" /\ r \in Runners BY <2>2, MadeHandle DEF FinishShell
    <3>2. CASE state[r].tag = "ShellThenRun" /\ state[r].shell = j
      <4>1. state[r].run \in Ids /\ work[state[r].run].done = "open" BY <3>1, <3>2 DEF StateBacked
      <4>2. i # state[r].run /\ i # j BY <1>1, <3>1, <3>2, <4>1 DEF StateBacked
      <4>3. work' = [work EXCEPT ![j].phase = "ended", ![state[r].run].phase = "forked"]
        BY <2>2, <3>2 DEF FinishShell
      <4> QED BY <4>2, <4>3 DEF TypeOK
    <3>3. CASE ~ (state[r].tag = "ShellThenRun" /\ state[r].shell = j)
      <4>1. \E p \in Phases : Phase(j, p) BY <2>2, <3>3 DEF FinishShell, Phases
      <4> QED BY <1>1, <3>1, <4>1 DEF Phase, TypeOK
    <3> QED BY <3>2, <3>3
  <2>3. CASE IdleBegin(j) \/ IdleEnd(j) BY <1>1, <2>3 DEF IdleBegin, IdleEnd, Phase, TypeOK
  <2>4. CASE Complete(j) BY <1>1, <2>4 DEF Complete, TypeOK
  <2> QED BY <1>6, <2>1, <2>2, <2>3, <2>4 DEF Finish
<1>7. ASSUME NEW c \in Callers, Stop(c)
      PROVE  /\ work'[i].kind = work[i].kind /\ work'[i].phase = work[i].phase
             /\ work[i].done # "open" => work'[i].done # "open"
  <2>1. ASSUME NEW j \in Ids, Interrupt(j)
        PROVE  /\ work'[i].kind = work[i].kind /\ work'[i].phase = work[i].phase
               /\ work'[i].done = work[i].done
    BY <1>1, <2>1 DEF Interrupt, Interrupted, TypeOK, Work
  <2>2. CASE CancelInterrupt(c) BY <1>1, <2>1, <2>2 DEF CancelInterrupt, CallsBacked, At
  <2>3. CASE StopShellTimeout(c) BY <1>1, <2>1, <2>3 DEF StopShellTimeout, CallsBacked, At
  <2>4. CASE CancelFailPending(c) BY <1>1, <2>4 DEF CancelFailPending, TypeOK, Work
  <2>5. CASE UNCHANGED work BY <1>1, <2>5
  <2> QED BY <1>7, <2>2, <2>3, <2>4, <2>5
       DEF Stop, CancelAwaitFiber, CancelAwaitDone, StopShellAbort, StopShellDone, IdleIfCurrent,
           CancelIdleBegin, CancelIdleEnd
<1>12. ASSUME NEW j \in Ids, BeginWork(j) PROVE work'[i] = work[i]
  BY <1>1, <1>12 DEF BeginWork, Phase, TypeOK
<1>8. ASSUME NEW c \in Callers, Await(c) PROVE work' = work
  BY <1>8 DEF Await, ReturnRun, ReturnShell
<1>10. ASSUME NEW c \in Callers, CancelIdle(c) PROVE work' = work
  BY <1>10 DEF CancelIdle
<1>11. ASSUME NEW c \in Callers, NEW r \in Runners, NEW op \in Ops, Obtain(c, r, op)
       PROVE  work' = work
  BY <1>11 DEF Obtain
<1>9. CASE UNCHANGED runnerVars BY <1>3, <1>9 DEF runnerVars
<1> QED BY <1>1, <1>3, <1>4, <1>5, <1>6, <1>7, <1>8, <1>9, <1>10, <1>11, <1>12 DEF RunnerStep, Next

LEMMA EndedStays ==
  ASSUME IInv, RunnerStep, NEW i \in Ids, EndedWork(i)
  PROVE  EndedWork(i)'
<1>1. work[i].kind # "none" /\ work[i].phase \in {"unborn", "ended", "discarded"}
      /\ work[i].done # "open"
  BY DEF EndedWork, Stopped
<1>2. HasExited(i) \/ (work[i].phase = "unborn" /\ work[i].done # "open") BY <1>1 DEF HasExited
<1> QED BY <1>1, <1>2, OverStays DEF EndedWork, Stopped

\* Moving a caller from one place to another leaves what it captured.
LEMMA GoFields ==
  ASSUME TypeOK, NEW c \in Callers,
         NEW pc \in {"out", "ready", "await", "awaitShell", "onBusy"} \cup CancelPcs, Go(c, pc)
  PROVE  /\ call'[c].pc = pc /\ call'[c].run = call[c].run
         /\ call'[c].shell = call[c].shell /\ call'[c].runner = call[c].runner
         /\ \A d \in Callers : d # c => call'[d] = call[d]
<1>1. call' = [call EXCEPT ![c] = [call[c] EXCEPT !.pc = pc]] BY GoIsUpdate
<1>2. call'[c] = [call[c] EXCEPT !.pc = pc] BY <1>1 DEF TypeOK
<1>3. \A d \in Callers : d # c => call'[d] = call[d] BY <1>1 DEF TypeOK
<1> QED BY <1>2, <1>3, CallPc

\* A caller that is between calls, entering one, or waiting for work has no capture to
\* answer for.
Light == {"out", "await", "awaitShell", "onBusy"}
LEMMA LightCapture ==
  ASSUME NEW c \in Callers, \/ call'[c].pc \in Light
                            \/ call'[c].pc = "ready" /\ call'[c].runner \in Runners
  PROVE  CaptureOK(c)'
  BY DEF CaptureOK, CancelPcs, Light

\* Callers change one at a time.
LEMMA EnterCaptures ==
  ASSUME IInv, Captures, NEW c \in Callers, NEW r \in Runners, Enter(c, r)
  PROVE  CaptureOK(c)' /\ \A d \in Callers : d # c => call'[d] = call[d]
<1> USE DEF IInv
<1>1. ASSUME NEW i, AwaitRun(c, i)
      PROVE  CaptureOK(c)' /\ \A d \in Callers : d # c => call'[d] = call[d]
  <2>1. call'[c].pc = "await" /\ \A d \in Callers : d # c => call'[d] = call[d]
    BY <1>1 DEF AwaitRun, TypeOK, Call
  <2> QED BY <2>1, LightCapture DEF Light
<1>2. ASSUME Return(c)
      PROVE  CaptureOK(c)' /\ \A d \in Callers : d # c => call'[d] = call[d]
  <2>1. call'[c].pc = "out" /\ \A d \in Callers : d # c => call'[d] = call[d]
    BY <1>2, NoCallType DEF Return, TypeOK
  <2> QED BY <2>1, LightCapture DEF Light
<1>3. CASE JoinRun(c, r) BY <1>1, <1>3 DEF JoinRun
<1>4. CASE QueueRun(c, r)
  <2> PICK i \in Ids : AwaitRun(c, i) BY <1>4 DEF QueueRun
  <2> QED BY <1>1
<1>5. CASE StartRun(c, r)
  <2> PICK i \in Ids : AwaitRun(c, i) BY <1>5 DEF StartRun
  <2> QED BY <1>1
<1>6. CASE RefuseShell(c, r) BY <1>2, <1>6 DEF RefuseShell
<1>7. CASE CancelNothing(c, r) BY <1>2, <1>7 DEF CancelNothing
<1>8. CASE ForkShell(c, r)
  <2> PICK s \in Ids : /\ NewId(s)
                       /\ state' = [state EXCEPT ![r] = ShellState(s)]
                       /\ work' = [work EXCEPT ![s] = ForkedShell(r)]
                       /\ call' = [call EXCEPT ![c] = [@ EXCEPT !.pc = "awaitShell", !.shell = s]]
    BY <1>8 DEF ForkShell
  <2> DEFINE v == [call[c] EXCEPT !.pc = "awaitShell", !.shell = s]
  <2>1. v.pc = "awaitShell" BY DEF TypeOK, Call
  <2>2. call' = [call EXCEPT ![c] = v] OBVIOUS
  <2> HIDE DEF v
  <2>3. call'[c].pc = "awaitShell" /\ \A d \in Callers : d # c => call'[d] = call[d]
    BY <2>1, <2>2 DEF TypeOK
  <2> QED BY <2>3, LightCapture DEF Light
<1>9. CASE ShellOnBusy(c, r)
  <2>1. call'[c].pc = "onBusy" /\ \A d \in Callers : d # c => call'[d] = call[d]
    BY <1>9, GoFields DEF ShellOnBusy
  <2> QED BY <2>1, LightCapture DEF Light
<1>10. CASE CancelBegin(c, r)
  <2> DEFINE st == state[r]
             v == [call[c] EXCEPT !.pc = FirstEffect(st.tag), !.run = st.run, !.shell = st.shell]
  <2>1. call[c].runner = r /\ st.tag # "Idle" /\ call' = [call EXCEPT ![c] = v]
    BY <1>10 DEF CancelBegin, Entering
  <2>2. /\ st.tag = "Running" => FirstEffect(st.tag) = "interrupt" /\ st.shell = NoId
        /\ st.tag = "Shell" => FirstEffect(st.tag) = "abort" /\ st.run = NoId
        /\ st.tag = "ShellThenRun" => FirstEffect(st.tag) = "failPending"
        /\ st.tag \in {"Running", "Shell", "ShellThenRun"}
    BY <2>1 DEF StateBacked, FirstEffect, TypeOK, State, Tags
  <2>3. v.pc = FirstEffect(st.tag) /\ v.run = st.run /\ v.shell = st.shell /\ v.runner = r
    BY <2>1 DEF TypeOK, Call
  <2> HIDE DEF v
  <2>4. call'[c] = v /\ \A d \in Callers : d # c => call'[d] = call[d] BY <2>1 DEF TypeOK
  <2> QED BY <2>2, <2>3, <2>4 DEF CaptureOK, CancelPcs
<1> QED BY <1>3, <1>4, <1>5, <1>6, <1>7, <1>8, <1>9, <1>10 DEF Enter

LEMMA StopCaptures ==
  ASSUME IInv, Captures, NEW c \in Callers, Stop(c),
         \A i \in Ids : EndedWork(i) => EndedWork(i)'
  PROVE  CaptureOK(c)' /\ \A d \in Callers : d # c => call'[d] = call[d]
<1> USE DEF IInv
<1> USE DEF CancelPcs, At, EndedWork, Stopped
<1>1. ASSUME NEW pc \in CancelPcs, Go(c, pc)
      PROVE  /\ call'[c].pc = pc /\ call'[c].run = call[c].run
             /\ call'[c].shell = call[c].shell /\ call'[c].runner = call[c].runner
             /\ \A d \in Callers : d # c => call'[d] = call[d]
  BY <1>1, GoFields
<1>2. CASE CancelInterrupt(c)
  BY <1>1, <1>2 DEF CancelInterrupt, Captures, CaptureOK
<1>3. CASE CancelAwaitFiber(c)
  <2>1. HasExited(call[c].run) /\ UNCHANGED work BY <1>3 DEF CancelAwaitFiber
  <2>2. work'[call'[c].run].phase \in {"ended", "discarded"}
    BY <1>1, <1>3, <2>1 DEF CancelAwaitFiber, HasExited
  <2> QED BY <1>1, <1>3, <2>2 DEF CancelAwaitFiber, Captures, CaptureOK, HasExited
<1>4. CASE CancelAwaitDone(c)
  <2>1. EndedWork(call[c].run) /\ UNCHANGED work
    BY <1>4 DEF CancelAwaitDone, CallsBacked, Captures, CaptureOK, HasExited, Settled
  <2> QED BY <1>1, <1>4, <2>1 DEF CancelAwaitDone, Captures, CaptureOK
<1>5. CASE CancelFailPending(c)
  <2>1. /\ call[c].run \in Ids /\ work[call[c].run].kind = "run"
        /\ work[call[c].run].phase = "unborn"
        /\ work' = [work EXCEPT ![call[c].run].done = "cancelled"]
    BY <1>5 DEF CancelFailPending, CallsBacked
  <2>2. /\ work'[call[c].run].kind = "run" /\ work'[call[c].run].phase = "unborn"
        /\ work'[call[c].run].done = "cancelled"
    BY <2>1 DEF TypeOK, Work
  <2> QED BY <1>1, <1>5, <2>1, <2>2 DEF CancelFailPending, Captures, CaptureOK
<1>6. CASE StopShellAbort(c)
  BY <1>1, <1>6 DEF StopShellAbort, Captures, CaptureOK
<1>7. CASE StopShellTimeout(c)
  BY <1>1, <1>7 DEF StopShellTimeout, Captures, CaptureOK
<1>8. CASE StopShellDone(c)
  <2>1. EndedWork(call[c].shell) /\ UNCHANGED work
    BY <1>8 DEF StopShellDone, CallsBacked, HandlesOK, HasExited
  <2> QED BY <1>1, <1>8, <2>1 DEF StopShellDone, Captures, CaptureOK
<1>9. ASSUME Return(c)
      PROVE  CaptureOK(c)' /\ \A d \in Callers : d # c => call'[d] = call[d]
  <2>1. call'[c].pc = "out" /\ \A d \in Callers : d # c => call'[d] = call[d]
    BY <1>9, NoCallType DEF Return, TypeOK
  <2> QED BY <2>1, LightCapture DEF Light
<1>10. CASE IdleIfCurrent(c)
  <2>1. CASE Go(c, "notify") BY <1>1, <1>10, <2>1 DEF IdleIfCurrent, Captures, CaptureOK
  <2> QED BY <1>9, <1>10, <2>1 DEF IdleIfCurrent
<1>11. CASE CancelIdleBegin(c)
  BY <1>1, <1>11 DEF CancelIdleBegin, Captures, CaptureOK
<1>12. CASE CancelIdleEnd(c)
  BY <1>9, <1>12 DEF CancelIdleEnd
<1> QED BY <1>2, <1>3, <1>4, <1>5, <1>6, <1>7, <1>8, <1>10, <1>11, <1>12 DEF Stop

LEMMA CapturesStay ==
  ASSUME IInv, Captures, RunnerStep
  PROVE  Captures'
<1> USE DEF IInv
<1>1. \A i \in Ids : EndedWork(i) => EndedWork(i)' BY EndedStays
<1>12. ASSUME NEW d \in Callers, call[d].pc = "awaitDone" PROVE work'[call[d].run].phase \in {"ended", "discarded"}
  <2>1. PICK j \in Ids : j = call[d].run /\ work[j].kind = "run" BY <1>12 DEF CallsBacked
  <2>2. HasExited(j) BY <1>12, <2>1 DEF Captures, CaptureOK, HasExited
  <2>3. work'[j].phase = work[j].phase BY <2>1, <2>2, OverStays
  <2> QED BY <2>1, <2>2, <2>3 DEF HasExited
<1>2. ASSUME NEW c \in Callers, CaptureOK(c)', \A d \in Callers : d # c => call'[d] = call[d]
      PROVE  Captures'
  <2> SUFFICES ASSUME NEW d \in Callers, d # c PROVE CaptureOK(d)'
    BY <1>2 DEF Captures
  <2>1. call'[d] = call[d] /\ CaptureOK(d) BY <1>2 DEF Captures
  <2>2. call'[d].pc = "awaitDone" => work'[call'[d].run].phase \in {"ended", "discarded"}
    BY <1>12, <2>1
  <2> QED BY <1>1, <2>1, <2>2 DEF CaptureOK, EndedWork, HasExited
<1>3. ASSUME call' = call PROVE Captures'
  BY <1>1, <1>3, <1>12 DEF Captures, CaptureOK, EndedWork, HasExited
<1>4. ASSUME NEW c \in Callers, NEW r \in Runners, NEW op \in Ops, Obtain(c, r, op)
      PROVE  Captures'
  <2> DEFINE v == [NoCall EXCEPT !.pc = "ready", !.op = op, !.runner = r]
  <2>1. v.pc = "ready" /\ v.runner = r BY DEF NoCall
  <2>2. call' = [call EXCEPT ![c] = v] BY <1>4 DEF Obtain
  <2> HIDE DEF v
  <2>3. call'[c] = v /\ \A d \in Callers : d # c => call'[d] = call[d] BY <2>2 DEF TypeOK
  <2> QED BY <1>2, <2>1, <2>3, LightCapture
<1>5. ASSUME NEW c \in Callers, CancelIdle(c) PROVE Captures'
  <2> DEFINE v == [NoCall EXCEPT !.pc = "notifying", !.op = "cancel"]
  <2>1. v.pc = "notifying" /\ v.run = NoId /\ v.shell = NoId BY DEF NoCall
  <2>2. call' = [call EXCEPT ![c] = v] BY <1>5 DEF CancelIdle
  <2> HIDE DEF v
  <2>3. call'[c] = v /\ \A d \in Callers : d # c => call'[d] = call[d] BY <2>2 DEF TypeOK
  <2>4. CaptureOK(c)' BY <2>1, <2>3 DEF CaptureOK
  <2> QED BY <1>2, <2>3, <2>4
<1>6. ASSUME NEW c \in Callers, Await(c) PROVE Captures'
  <2>1. Return(c) BY <1>6 DEF Await, ReturnRun, ReturnShell
  <2>2. call'[c].pc = "out" /\ \A d \in Callers : d # c => call'[d] = call[d]
    BY <2>1, NoCallType DEF Return, TypeOK
  <2> QED BY <1>2, <2>2, LightCapture DEF Light
<1>7. ASSUME NEW c \in Callers, NEW r \in Runners, Enter(c, r) PROVE Captures'
  BY <1>2, <1>7, EnterCaptures
<1>8. ASSUME NEW c \in Callers, Stop(c) PROVE Captures'
  BY <1>1, <1>2, <1>8, StopCaptures
<1>9. ASSUME NEW i \in Ids, NEW e \in Exits, WorkExit(i, e) PROVE Captures'
  BY <1>3, <1>9 DEF WorkExit
<1>10. ASSUME NEW i \in Ids, Finish(i) PROVE Captures'
  BY <1>3, <1>10 DEF Finish, FinishRun, FinishShell, IdleBegin, IdleEnd, Complete
<1>13. ASSUME NEW i \in Ids, BeginWork(i) PROVE Captures'
  BY <1>3, <1>13 DEF BeginWork
<1>11. CASE UNCHANGED runnerVars BY <1>3, <1>11 DEF runnerVars
<1> QED BY <1>4, <1>5, <1>6, <1>7, <1>8, <1>9, <1>10, <1>11, <1>13 DEF RunnerStep, Next

\* The two invariants together.
RInv == IInv /\ Captures

LEMMA InitRInv == Init => RInv
<1>1. Init => Captures BY DEF Init, Captures, CaptureOK, NoCall, CancelPcs
<1> QED BY <1>1, InitIInv DEF RInv

LEMMA StepRInv == RInv /\ RunnerStep => RInv'
  BY StepIInv, CapturesStay DEF RInv

-----------------------------------------------------------------------------
(* The session's status *)

\* Something that will still set the status to idle: a cancel that has not returned, a
\* startShell in its callback, work in a runner's state, or a finisher at its callback.
Underway ==
  \/ \E c \in Callers : call[c].pc \in CancelPcs \cup {"onBusy"}
  \/ \E r \in Runners : state[r].tag # "Idle"
  \/ \E i \in Ids : work[i].phase \in {"notify", "notifying"}
BusyBacked == status = "busy" => Underway

LEMMA EnterUnderway ==
  ASSUME IInv, Captures, Underway, NEW c \in Callers, NEW r \in Runners, Enter(c, r)
  PROVE  Underway'
<1> USE DEF IInv
<1>1. \A d \in Callers : d # c => call'[d] = call[d]
  BY EnterCaptures
<1>2. ASSUME state' = state, work' = work, call[c].pc = "ready"
      PROVE  Underway'
  BY <1>1, <1>2 DEF Underway, CancelPcs
<1>3. CASE JoinRun(c, r) BY <1>2, <1>3 DEF JoinRun, Entering, At
<1>4. CASE QueueRun(c, r)
  <2> PICK i \in Ids : NewId(i) /\ state' = [state EXCEPT ![r] = ShellThenRunState(state[r].shell, i)]
    BY <1>4 DEF QueueRun
  <2>1. state'[r].tag # "Idle" BY DEF TypeOK, ShellThenRunState
  <2> QED BY <2>1 DEF Underway
<1>5. CASE StartRun(c, r)
  <2> PICK i \in Ids : NewId(i) /\ state' = [state EXCEPT ![r] = RunningState(i)]
    BY <1>5 DEF StartRun
  <2>1. state'[r].tag # "Idle" BY DEF TypeOK, RunningState
  <2> QED BY <2>1 DEF Underway
<1>6. CASE ForkShell(c, r)
  <2> PICK i \in Ids : NewId(i) /\ state' = [state EXCEPT ![r] = ShellState(i)]
    BY <1>6 DEF ForkShell
  <2>1. state'[r].tag # "Idle" BY DEF TypeOK, ShellState
  <2> QED BY <2>1 DEF Underway
<1>7. CASE RefuseShell(c, r) BY <1>2, <1>7 DEF RefuseShell, Entering, At
<1>8. CASE CancelNothing(c, r) BY <1>2, <1>8 DEF CancelNothing, Entering, At
<1>9. CASE ShellOnBusy(c, r)
  <2>1. call'[c].pc = "onBusy" BY <1>9, GoFields DEF ShellOnBusy
  <2> QED BY <2>1 DEF Underway
<1>10. CASE CancelBegin(c, r)
  <2> DEFINE st == state[r]
             v == [call[c] EXCEPT !.pc = FirstEffect(st.tag), !.run = st.run, !.shell = st.shell]
  <2>1. st.tag # "Idle" /\ call' = [call EXCEPT ![c] = v]
    BY <1>10 DEF CancelBegin
  <2>2. FirstEffect(st.tag) \in CancelPcs
    BY <2>1 DEF FirstEffect, TypeOK, State, Tags, CancelPcs
  <2>3. v.pc = FirstEffect(st.tag)
    BY DEF TypeOK, Call
  <2> HIDE DEF v
  <2>4. call'[c] = v BY <2>1 DEF TypeOK
  <2> QED BY <2>2, <2>3, <2>4 DEF Underway
<1> QED BY <1>3, <1>4, <1>5, <1>6, <1>7, <1>8, <1>9, <1>10 DEF Enter

\* A cancel that finds its runner busy again returns, and leaves the status to what runs.
LEMMA StopUnderway ==
  ASSUME IInv, Captures, NEW c \in Callers, Stop(c), ~ CancelIdleEnd(c)
  PROVE  Underway'
<1> USE DEF IInv
<1>1. ASSUME NEW pc \in CancelPcs, Go(c, pc) PROVE Underway'
  BY <1>1, GoFields DEF Underway
<1>2. CASE IdleIfCurrent(c)
  <2>1. call[c].runner \in Runners BY <1>2 DEF IdleIfCurrent, At, Captures, CaptureOK, CancelPcs
  <2>2. CASE state[call[c].runner].tag = "Idle"
    BY <1>1, <1>2, <2>2 DEF IdleIfCurrent, CancelPcs
  <2>3. CASE state[call[c].runner].tag # "Idle"
    BY <1>2, <2>1, <2>3 DEF IdleIfCurrent, Underway
  <2> QED BY <2>2, <2>3
<1>3. CASE CancelInterrupt(c) BY <1>1, <1>3 DEF CancelInterrupt, CancelPcs
<1>4. CASE CancelAwaitFiber(c) BY <1>1, <1>4 DEF CancelAwaitFiber, CancelPcs
<1>5. CASE CancelAwaitDone(c) BY <1>1, <1>5 DEF CancelAwaitDone, CancelPcs
<1>6. CASE CancelFailPending(c) BY <1>1, <1>6 DEF CancelFailPending, CancelPcs
<1>7. CASE StopShellAbort(c) BY <1>1, <1>7 DEF StopShellAbort, CancelPcs
<1>8. CASE StopShellTimeout(c) BY <1>1, <1>8 DEF StopShellTimeout, CancelPcs
<1>9. CASE StopShellDone(c) BY <1>1, <1>9 DEF StopShellDone, CancelPcs
<1>10. CASE CancelIdleBegin(c) BY <1>1, <1>10 DEF CancelIdleBegin, CancelPcs
<1> QED BY <1>2, <1>3, <1>4, <1>5, <1>6, <1>7, <1>8, <1>9, <1>10 DEF Stop

\* A finisher that makes its runner idle is on its way to the callback.
LEMMA FinishUnderway ==
  ASSUME IInv, Underway, NEW i \in Ids, Finish(i), ~ IdleEnd(i)
  PROVE  Underway'
<1> USE DEF IInv
<1>1. ASSUME NEW p, Phase(i, p)
      PROVE  work'[i].phase = p /\ \A j \in Ids : j # i => work'[j] = work[j]
  BY <1>1 DEF Phase, TypeOK, Work
<1>2. ASSUME Phase(i, "notify") \/ Phase(i, "notifying") PROVE Underway'
  BY <1>1, <1>2 DEF Underway
<1>3. ASSUME NEW p, Phase(i, p), work[i].phase \notin {"notify", "notifying"},
             UNCHANGED <<state, call>>
      PROVE  Underway'
  BY <1>1, <1>3 DEF Underway
<1>4. CASE FinishRun(i) BY <1>2, <1>3, <1>4 DEF FinishRun
<1>5. CASE FinishShell(i)
  <2> DEFINE r == work[i].runner
  <2>1. r \in Runners BY <1>5, MadeHandle DEF FinishShell
  <2>2. CASE state[r].tag = "ShellThenRun" /\ state[r].shell = i
    <3>1. state' = [state EXCEPT ![r] = RunningState(state[r].run)]
      BY <1>5, <2>2 DEF FinishShell
    <3>2. state'[r].tag # "Idle" BY <2>1, <3>1 DEF TypeOK, RunningState
    <3> QED BY <2>1, <3>2 DEF Underway
  <2>3. CASE ~ (state[r].tag = "ShellThenRun" /\ state[r].shell = i)
    BY <1>2, <1>3, <1>5, <2>3 DEF FinishShell
  <2> QED BY <2>2, <2>3
<1>6. CASE IdleBegin(i) BY <1>2, <1>6 DEF IdleBegin
<1>7. CASE Complete(i)
  <2>1. work[i].phase = "settle" /\ UNCHANGED <<state, call>>
        /\ \A j \in Ids : j # i => work'[j] = work[j]
    BY <1>7 DEF Complete, TypeOK
  <2> QED BY <2>1 DEF Underway
<1> QED BY <1>4, <1>5, <1>6, <1>7 DEF Finish

\* The session takes the steps of its runners, or leaves them alone.
LEMMA SessionStep ==
  ASSUME SessionTypeOK, [SessionNext]_vars
  PROVE  RunnerStep
<1>1. ASSUME NEW c \in Callers, NEW op \in Ops, GetRunner(c, op)
      PROVE  \E r \in Runners : Obtain(c, r, op)
  BY <1>1 DEF GetRunner, SessionTypeOK
<1>2. ASSUME NEW c \in Callers, CancelSession(c)
      PROVE  CancelIdle(c) \/ \E r \in Runners : Obtain(c, r, "cancel")
  BY <1>2 DEF CancelSession, SessionTypeOK
<1>3. ASSUME NEW c \in Callers, NEW r \in Runners, OnBusy(c, r) \/ EnterQuietly(c, r)
      PROVE  Enter(c, r)
  BY <1>3 DEF OnBusy, EnterQuietly, Enter
<1>4. ASSUME NEW c \in Callers, CancelForgets(c) \/ CancelIdles(c) \/ StopQuietly(c)
      PROVE  Stop(c)
  BY <1>4 DEF CancelForgets, CancelIdles, StopQuietly, Stop
<1>5. ASSUME NEW c \in Callers, CallerStep(c) PROVE RunnerStep
  BY <1>1, <1>2, <1>3, <1>4, <1>5 DEF CallerStep, RunnerStep, Next, Ops
<1>6. ASSUME NEW i \in Ids, FiberStep(i) PROVE RunnerStep
  <2>1. CASE FinisherForgets(i) \/ FinisherIdles(i) \/ FinishQuietly(i)
    <3>1. Finish(i) BY <2>1 DEF FinisherForgets, FinisherIdles, FinishQuietly, Finish
    <3> QED BY <3>1 DEF RunnerStep, Next
  <2>2. CASE TurnBusy(i) \/ TurnHalted(i) BY <2>2 DEF TurnBusy, TurnHalted, RunnerStep
  <2>3. CASE \E e \in Exits : WorkExit(i, e) BY <2>3 DEF RunnerStep, Next
  <2>4. CASE BeginWork(i) BY <2>4 DEF RunnerStep, Next
  <2> QED BY <1>6, <2>1, <2>2, <2>3, <2>4 DEF FiberStep
<1>7. CASE UNCHANGED vars BY <1>7 DEF vars, runnerVars, RunnerStep
<1> QED BY <1>5, <1>6, <1>7 DEF SessionNext

SInv == RInv /\ SessionTypeOK /\ BusyBacked

\* The map and the status keep their types.
LEMMA SessionTypesStay ==
  ASSUME RInv, SessionTypeOK, [SessionNext]_vars
  PROVE  SessionTypeOK'
<1>1. TypeOK' BY SessionStep, StepRInv DEF RInv, IInv
<1>2. SUFFICES /\ runners' \in made' \cup {NoRunner} /\ made' \subseteq Runners
               /\ status' \in {"idle", "busy"}
  BY <1>1 DEF SessionTypeOK
<1>3. CASE UNCHANGED sessionVars BY <1>3 DEF sessionVars, SessionTypeOK
<1>4. ASSUME NEW s \in {"idle", "busy"}, SetStatus(s)
      PROVE  /\ runners' \in made' \cup {NoRunner} /\ made' \subseteq Runners
             /\ status' \in {"idle", "busy"}
  BY <1>4 DEF SetStatus, SessionTypeOK
<1>5. CASE DeleteEntry BY <1>5 DEF DeleteEntry, SessionTypeOK
<1>6. ASSUME NEW c \in Callers, NEW op \in Ops, GetRunner(c, op)
      PROVE  /\ runners' \in made' \cup {NoRunner} /\ made' \subseteq Runners
             /\ status' \in {"idle", "busy"}
  BY <1>3, <1>6 DEF GetRunner, SessionTypeOK
<1>7. ASSUME NEW c \in Callers, CallerStep(c)
      PROVE  /\ runners' \in made' \cup {NoRunner} /\ made' \subseteq Runners
             /\ status' \in {"idle", "busy"}
  BY <1>3, <1>4, <1>5, <1>6, <1>7
     DEF CallerStep, CancelSession, OnBusy, CancelForgets, CancelIdles
<1>8. ASSUME NEW i \in Ids, FiberStep(i)
      PROVE  /\ runners' \in made' \cup {NoRunner} /\ made' \subseteq Runners
             /\ status' \in {"idle", "busy"}
  BY <1>3, <1>4, <1>5, <1>8
     DEF FiberStep, FinisherForgets, FinisherIdles, TurnBusy, TurnHalted
<1>9. CASE UNCHANGED vars BY <1>3, <1>9 DEF vars, sessionVars
<1> QED BY <1>7, <1>8, <1>9 DEF SessionNext

\* A status of busy has someone who will take it back: a turn sets it only while its
\* run, which no interrupt has reached, is in the state or in the hands of a cancel.
LEMMA BusyStays ==
  ASSUME SInv, [SessionNext]_vars
  PROVE  BusyBacked'
<1> USE DEF SInv, RInv
<1>1. CASE status' = "idle" BY <1>1 DEF BusyBacked
<1>2. ASSUME status' = status, Underway => Underway' PROVE BusyBacked'
  BY <1>2 DEF BusyBacked
<1>3. ASSUME UNCHANGED runnerVars PROVE Underway => Underway'
  BY <1>3 DEF runnerVars, Underway
<1>4. ASSUME NEW c \in Callers, NEW r \in Runners, NEW op \in Ops, Obtain(c, r, op)
      PROVE  Underway => Underway'
  <2>1. /\ call[c].pc = "out" /\ UNCHANGED <<state, work>>
        /\ \A d \in Callers : d # c => call'[d] = call[d]
    BY <1>4 DEF Obtain, At, IInv, TypeOK
  <2> QED BY <2>1 DEF Underway, CancelPcs
<1>5. ASSUME NEW c \in Callers, CancelIdle(c) PROVE Underway'
  <2> DEFINE v == [NoCall EXCEPT !.pc = "notifying", !.op = "cancel"]
  <2>1. v.pc = "notifying" /\ call' = [call EXCEPT ![c] = v] BY <1>5 DEF NoCall, CancelIdle
  <2> HIDE DEF v
  <2>2. call'[c].pc = "notifying" BY <2>1 DEF IInv, TypeOK
  <2> QED BY <2>2 DEF Underway, CancelPcs
<1>6. ASSUME NEW c \in Callers, Await(c) PROVE Underway => Underway'
  <2>1. /\ call[c].pc \in {"await", "awaitShell"} /\ UNCHANGED <<state, work>>
        /\ \A d \in Callers : d # c => call'[d] = call[d]
    BY <1>6 DEF Await, ReturnRun, ReturnShell, At, Return, IInv, TypeOK
  <2> QED BY <2>1 DEF Underway, CancelPcs
<1>7. ASSUME NEW c \in Callers, CallerStep(c) PROVE BusyBacked'
  <2>1. CASE \E op \in Ops : GetRunner(c, op)
    <3>1. PICK op \in Ops, r \in Runners : Obtain(c, r, op)
      BY <2>1 DEF GetRunner, SessionTypeOK
    <3>2. status' = status BY <2>1 DEF GetRunner, sessionVars
    <3> QED BY <1>2, <1>4, <3>1, <3>2
  <2>2. CASE CancelSession(c)
    <3>1. status' = status BY <2>2 DEF CancelSession, sessionVars
    <3>2. CancelIdle(c) \/ \E r \in Runners : Obtain(c, r, "cancel")
      BY <2>2 DEF CancelSession, SessionTypeOK
    <3> QED BY <1>2, <1>4, <1>5, <3>1, <3>2 DEF Ops
  <2>3. ASSUME NEW r \in Runners, OnBusy(c, r) PROVE BusyBacked'
    <3>1. call'[c].pc = "onBusy" BY <2>3, GoFields DEF OnBusy, ShellOnBusy, IInv
    <3> QED BY <3>1 DEF BusyBacked, Underway
  <2>4. CASE CancelForgets(c)
    <3>1. Stop(c) /\ ~ CancelIdleEnd(c) /\ status' = status
      BY <2>4 DEF CancelForgets, DeleteEntry, Stop, CancelIdleBegin, CancelIdleEnd, At
    <3> QED BY <1>2, <3>1, StopUnderway
  <2>5. CASE CancelIdles(c) BY <1>1, <2>5 DEF CancelIdles, SetStatus
  <2>6. CASE UNCHANGED sessionVars /\ \E r \in Runners : EnterQuietly(c, r)
    <3>1. PICK r \in Runners : Enter(c, r) BY <2>6 DEF EnterQuietly, Enter
    <3> QED BY <1>2, <2>6, <3>1, EnterUnderway DEF sessionVars
  <2>7. CASE UNCHANGED sessionVars /\ Await(c) BY <1>2, <1>6, <2>7 DEF sessionVars
  <2>8. CASE UNCHANGED sessionVars /\ StopQuietly(c)
    <3>1. Stop(c) BY <2>8 DEF StopQuietly, Stop
    <3>2. ~ At(c, "notifying")
      BY <2>8 DEF StopQuietly, CancelInterrupt, CancelAwaitFiber, CancelAwaitDone, CancelFailPending,
                  StopShellAbort, StopShellTimeout, StopShellDone, IdleIfCurrent, At
    <3> QED BY <1>2, <2>8, <3>1, <3>2, StopUnderway DEF sessionVars, CancelIdleEnd
  <2> QED BY <1>7, <2>1, <2>2, <2>3, <2>4, <2>5, <2>6, <2>7, <2>8 DEF CallerStep
<1>8. ASSUME NEW i \in Ids, FiberStep(i) PROVE BusyBacked'
  <2>1. CASE FinisherForgets(i)
    <3>1. Finish(i) /\ ~ IdleEnd(i) /\ status' = status
      BY <2>1 DEF FinisherForgets, DeleteEntry, Finish, IdleBegin, IdleEnd
    <3> QED BY <1>2, <3>1, FinishUnderway
  <2>2. CASE FinisherIdles(i) \/ TurnHalted(i)
    BY <1>1, <2>2 DEF FinisherIdles, TurnHalted, SetStatus
  <2>3. CASE TurnBusy(i)
    <3>1. Alive(i) /\ work[i].intr = FALSE /\ UNCHANGED runnerVars
      BY <2>3 DEF TurnBusy, Working, Alive, IInv, TypeOK, Work
    <3>2. CancelPending(i) \/ Current(i) BY <3>1 DEF IInv, LiveWorkIsCurrent, Doomed
    <3>3. work[i].runner \in Runners BY <3>1, MadeHandle DEF Alive
    <3>4. Underway BY <3>2, <3>3 DEF Underway, CancelPending, Current, CancelPcs, At
    <3> QED BY <1>3, <3>1, <3>4 DEF BusyBacked
  <2>4. CASE UNCHANGED sessionVars /\ FinishQuietly(i)
    <3>1. Finish(i) BY <2>4 DEF FinishQuietly, Finish
    <3>2. ~ IdleEnd(i)
      BY <2>4 DEF FinishQuietly, FinishRun, FinishShell, Complete, IdleEnd
    <3> QED BY <1>2, <2>4, <3>1, <3>2, FinishUnderway DEF sessionVars
  <2>5. CASE UNCHANGED sessionVars /\ \E e \in Exits : WorkExit(i, e)
    <3>1. /\ work[i].phase = "working" /\ UNCHANGED <<state, call>>
          /\ \A j \in Ids : j # i => work'[j] = work[j]
      BY <2>5 DEF WorkExit, IInv, TypeOK
    <3>2. Underway => Underway' BY <3>1 DEF Underway
    <3> QED BY <1>2, <2>5, <3>2 DEF sessionVars
  <2>6. CASE UNCHANGED sessionVars /\ BeginWork(i)
    <3>1. /\ work[i].phase = "forked" /\ UNCHANGED <<state, call>>
          /\ \A j \in Ids : j # i => work'[j] = work[j]
      BY <2>6 DEF BeginWork, Phase, IInv, TypeOK
    <3>2. Underway => Underway' BY <3>1 DEF Underway
    <3> QED BY <1>2, <2>6, <3>2 DEF sessionVars
  <2> QED BY <1>8, <2>1, <2>2, <2>3, <2>4, <2>5, <2>6 DEF FiberStep
<1>9. CASE UNCHANGED vars BY <1>2, <1>3, <1>9 DEF vars, runnerVars
<1> QED BY <1>7, <1>8, <1>9 DEF SessionNext

LEMMA InitSInv == SessionInit => SInv
  BY InitRInv DEF SessionInit, SInv, SessionTypeOK, BusyBacked, RInv, IInv

LEMMA NextSInv == SInv /\ [SessionNext]_vars => SInv'
  BY SessionStep, StepRInv, SessionTypesStay, BusyStays DEF SInv

-----------------------------------------------------------------------------
(* Runner implements SingleFlight *)

\* Whatever a cancel took is in no runner's state and does not come back to one; only a
\* fiber that was interrupted ends as interrupted, and it does not succeed.
TakenGone ==
  /\ \A i \in Ids :
       /\ work[i].intr => work[i].phase # "unborn" /\ ~ Current(i)
       /\ work[i].phase \in {"unborn", "forked", "working"} => work[i].exit = "none"
       /\ work[i].exit = "interrupt" => work[i].intr
       /\ work[i].exit = "success" => ~ work[i].intr
  /\ \A c \in Callers : call[c].pc = "await" => call[c].run \in Ids

\* Callers that put a new handle into their runner's state.
NewHandle(c, r, i, w, st, v) ==
  /\ i = ids + 1 /\ work[i] = NoWork
  /\ work'[i] = w /\ \A j \in Ids : j # i => work'[j] = work[j]
  /\ state'[r] = st /\ \A q \in Runners : q # r => state'[q] = state[q]
  /\ call'[c] = v /\ \A d \in Callers : d # c => call'[d] = call[d]

LEMMA StartForm ==
  ASSUME IInv, NEW c \in Callers, NEW r \in Runners, StartRun(c, r)
  PROVE  \E i \in Ids, v \in Call :
           /\ NewHandle(c, r, i, ForkedRun(r), RunningState(i), v)
           /\ v.pc = "await" /\ v.run = i /\ call[c].pc = "ready" /\ state[r].tag = "Idle"
<1>1. PICK i \in Ids : /\ NewId(i)
                       /\ state' = [state EXCEPT ![r] = RunningState(i)]
                       /\ work' = [work EXCEPT ![i] = ForkedRun(r)]
                       /\ AwaitRun(c, i)
  BY DEF StartRun
<1> DEFINE v == [call[c] EXCEPT !.pc = "await", !.run = i]
<1>2. v \in Call /\ v.pc = "await" /\ v.run = i /\ call' = [call EXCEPT ![c] = v]
  BY <1>1 DEF IInv, TypeOK, Call, AwaitRun
<1>3. work[i] = NoWork /\ i = ids + 1
  BY <1>1, MaxIdsAssumption DEF NewId, IInv, HandlesMade, TypeOK, Ids
<1> HIDE DEF v
<1> QED BY <1>1, <1>2, <1>3 DEF NewHandle, IInv, TypeOK, StartRun, Entering, At

LEMMA QueueForm ==
  ASSUME IInv, NEW c \in Callers, NEW r \in Runners, QueueRun(c, r)
  PROVE  \E i \in Ids, v \in Call :
           /\ NewHandle(c, r, i, PendingRun(r), ShellThenRunState(state[r].shell, i), v)
           /\ v.pc = "await" /\ v.run = i /\ call[c].pc = "ready" /\ state[r].tag = "Shell"
<1>1. PICK i \in Ids : /\ NewId(i)
                       /\ state' = [state EXCEPT ![r] = ShellThenRunState(state[r].shell, i)]
                       /\ work' = [work EXCEPT ![i] = PendingRun(r)]
                       /\ AwaitRun(c, i)
  BY DEF QueueRun
<1> DEFINE v == [call[c] EXCEPT !.pc = "await", !.run = i]
<1>2. v \in Call /\ v.pc = "await" /\ v.run = i /\ call' = [call EXCEPT ![c] = v]
  BY <1>1 DEF IInv, TypeOK, Call, AwaitRun
<1>3. work[i] = NoWork /\ i = ids + 1
  BY <1>1, MaxIdsAssumption DEF NewId, IInv, HandlesMade, TypeOK, Ids
<1> HIDE DEF v
<1> QED BY <1>1, <1>2, <1>3 DEF NewHandle, IInv, TypeOK, QueueRun, Entering, At

LEMMA ForkForm ==
  ASSUME IInv, NEW c \in Callers, NEW r \in Runners, ForkShell(c, r)
  PROVE  \E i \in Ids, v \in Call :
           /\ NewHandle(c, r, i, ForkedShell(r), ShellState(i), v)
           /\ v.pc = "awaitShell" /\ call[c].pc = "onBusy" /\ state[r].tag = "Idle"
<1>1. PICK i \in Ids : /\ NewId(i)
                       /\ state' = [state EXCEPT ![r] = ShellState(i)]
                       /\ work' = [work EXCEPT ![i] = ForkedShell(r)]
                       /\ call' = [call EXCEPT ![c] = [@ EXCEPT !.pc = "awaitShell", !.shell = i]]
  BY DEF ForkShell
<1> DEFINE v == [call[c] EXCEPT !.pc = "awaitShell", !.shell = i]
<1>2. v \in Call /\ v.pc = "awaitShell" /\ call' = [call EXCEPT ![c] = v]
  BY <1>1 DEF IInv, TypeOK, Call
<1>3. work[i] = NoWork /\ i = ids + 1
  BY <1>1, MaxIdsAssumption DEF NewId, IInv, HandlesMade, TypeOK, Ids
<1>4. call[c].pc = "onBusy" /\ call[c].runner = r BY DEF ForkShell, At
<1>5. state[r].tag = "Idle" BY <1>4 DEF IInv, CallsBacked
<1> HIDE DEF v
<1> QED BY <1>1, <1>2, <1>3, <1>4, <1>5 DEF NewHandle, IInv, TypeOK

\* cancel's transition.
LEMMA CancelForm ==
  ASSUME IInv, NEW c \in Callers, NEW r \in Runners, CancelBegin(c, r)
  PROVE  \E v \in Call :
           /\ call'[c] = v /\ \A d \in Callers : d # c => call'[d] = call[d]
           /\ v.pc = FirstEffect(state[r].tag) /\ v.run = state[r].run /\ v.shell = state[r].shell
           /\ call[c].pc = "ready" /\ state[r].tag # "Idle"
           /\ state'[r] = IdleState /\ \A q \in Runners : q # r => state'[q] = state[q]
           /\ UNCHANGED <<ids, work>>
<1> DEFINE v == [call[c] EXCEPT !.pc = FirstEffect(state[r].tag), !.run = state[r].run,
                                !.shell = state[r].shell]
<1>1. state[r].tag \in {"Running", "Shell", "ShellThenRun"} /\ state[r] \in State
  BY DEF CancelBegin, IInv, TypeOK, State, Tags
<1>2. FirstEffect(state[r].tag) \in CancelPcs
  BY <1>1 DEF FirstEffect, CancelPcs
<1>3. v \in Call /\ v.pc = FirstEffect(state[r].tag) /\ v.run = state[r].run
      /\ v.shell = state[r].shell /\ call' = [call EXCEPT ![c] = v]
  BY <1>1, <1>2 DEF CancelBegin, IInv, TypeOK, Call, State
<1> HIDE DEF v
<1>4. call'[c] = v /\ \A d \in Callers : d # c => call'[d] = call[d]
  BY <1>3 DEF IInv, TypeOK
<1>5. /\ call[c].pc = "ready" /\ state[r].tag # "Idle"
      /\ state'[r] = IdleState /\ \A q \in Runners : q # r => state'[q] = state[q]
      /\ UNCHANGED <<ids, work>>
  BY DEF CancelBegin, Entering, At, IInv, TypeOK
<1> QED BY <1>3, <1>4, <1>5

\* Nothing but new handles and queued runs comes into a runner's state.
LEMMA NewlyCurrent ==
  ASSUME IInv, RunnerStep, NEW j \in Ids, work[j].phase # "unborn", Current(j)'
  PROVE  Current(j)
<1>0. work[j].runner \in Runners /\ work[j].kind \in {"run", "shell"} BY MadeHandle
<1>1. ASSUME state' = state, work'[j].runner = work[j].runner PROVE Current(j)
  BY <1>1 DEF Current
<1>2. ASSUME NEW r \in Runners, work'[j].runner = work[j].runner,
             \A q \in Runners : q # r => state'[q] = state[q], state'[r] = IdleState
      PROVE  Current(j)
  BY <1>0, <1>2 DEF Current, IdleState
<1>3. ASSUME NEW c \in Callers, NEW r \in Runners, Enter(c, r) PROVE Current(j)
  <2>1. CASE StartRun(c, r)
    <3> PICK i \in Ids, v \in Call : NewHandle(c, r, i, ForkedRun(r), RunningState(i), v)
      BY <2>1, StartForm
    <3>1. /\ j # i => work'[j] = work[j]
          /\ state'[r] = RunningState(i) /\ \A q \in Runners : q # r => state'[q] = state[q]
      BY DEF NewHandle
    <3>2. i # j BY DEF NewHandle, NoWork
    <3> QED BY <1>0, <3>1, <3>2 DEF Current, RunningState
  <2>2. CASE QueueRun(c, r)
    <3> PICK i \in Ids, v \in Call :
          /\ NewHandle(c, r, i, PendingRun(r), ShellThenRunState(state[r].shell, i), v)
          /\ state[r].tag = "Shell"
      BY <2>2, QueueForm
    <3>1. /\ j # i => work'[j] = work[j]
          /\ state'[r] = ShellThenRunState(state[r].shell, i)
          /\ \A q \in Runners : q # r => state'[q] = state[q]
      BY DEF NewHandle
    <3>2. i # j BY DEF NewHandle, NoWork
    <3> QED BY <1>0, <3>1, <3>2 DEF Current, ShellThenRunState
  <2>3. CASE ForkShell(c, r)
    <3> PICK i \in Ids, v \in Call : NewHandle(c, r, i, ForkedShell(r), ShellState(i), v)
      BY <2>3, ForkForm
    <3>1. /\ j # i => work'[j] = work[j]
          /\ state'[r] = ShellState(i) /\ \A q \in Runners : q # r => state'[q] = state[q]
      BY DEF NewHandle
    <3>2. i # j BY DEF NewHandle, NoWork
    <3> QED BY <1>0, <3>1, <3>2 DEF Current, ShellState
  <2>4. CASE CancelBegin(c, r) BY <1>2, <2>4, CancelForm
  <2>5. CASE JoinRun(c, r) \/ RefuseShell(c, r) \/ ShellOnBusy(c, r) \/ CancelNothing(c, r)
    BY <1>1, <2>5 DEF JoinRun, RefuseShell, ShellOnBusy, CancelNothing
  <2> QED BY <1>3, <2>1, <2>2, <2>3, <2>4, <2>5 DEF Enter
<1>4. ASSUME NEW c \in Callers, Stop(c) PROVE Current(j)
  <2>1. CASE CancelInterrupt(c)
    BY <1>1, <2>1 DEF CancelInterrupt, Interrupt, Interrupted, IInv, TypeOK, Work
  <2>2. CASE StopShellTimeout(c)
    BY <1>1, <2>2 DEF StopShellTimeout, Interrupt, Interrupted, IInv, TypeOK, Work
  <2>3. CASE CancelFailPending(c)
    BY <1>1, <2>3 DEF CancelFailPending, IInv, TypeOK, Work
  <2>4. CASE UNCHANGED <<state, work>> BY <1>1, <2>4
  <2> QED BY <1>4, <2>1, <2>2, <2>3, <2>4
       DEF Stop, CancelAwaitFiber, CancelAwaitDone, StopShellAbort, StopShellDone, IdleIfCurrent,
           CancelIdleBegin, CancelIdleEnd
<1>5. ASSUME NEW i \in Ids, NEW p, Phase(i, p) PROVE work'[j].runner = work[j].runner
  BY <1>5 DEF Phase, IInv, TypeOK, Work
<1>6. ASSUME NEW i \in Ids, NEW e \in Exits, WorkExit(i, e) PROVE Current(j)
  BY <1>1, <1>6 DEF WorkExit, IInv, TypeOK, Work
<1>9. ASSUME NEW i \in Ids, BeginWork(i) PROVE Current(j)
  BY <1>1, <1>5, <1>9 DEF BeginWork
<1>7. ASSUME NEW i \in Ids, Finish(i) PROVE Current(j)
  <2> DEFINE r == work[i].runner
  <2>1. CASE FinishRun(i)
    <3>1. r \in Runners BY <2>1, MadeHandle DEF FinishRun
    <3>2. work'[j].runner = work[j].runner BY <1>5, <2>1 DEF FinishRun
    <3>3. CASE UNCHANGED state BY <1>1, <3>2, <3>3
    <3>4. CASE state' = [state EXCEPT ![r] = IdleState] BY <1>2, <3>1, <3>2, <3>4 DEF IInv, TypeOK
    <3> QED BY <2>1, <3>3, <3>4 DEF FinishRun
  <2>2. CASE FinishShell(i) /\ state[r].tag = "ShellThenRun" /\ state[r].shell = i
    <3> PICK k \in Ids : StartsQueued(i, k, r) /\ work[k].phase = "unborn" /\ r \in Runners
                         /\ work'[i].runner = r
      BY <2>2, FinishForm DEF StartsQueued
    <3>1. k # j /\ work'[j].runner = work[j].runner BY DEF StartsQueued
    <3> QED BY <1>0, <3>1 DEF StartsQueued, Current
  <2>3. CASE FinishShell(i) /\ ~ (state[r].tag = "ShellThenRun" /\ state[r].shell = i)
    <3>1. r \in Runners BY <2>3, MadeHandle DEF FinishShell
    <3>2. work'[j].runner = work[j].runner BY <1>5, <2>3 DEF FinishShell
    <3>3. CASE UNCHANGED state BY <1>1, <3>2, <3>3
    <3>4. CASE state' = [state EXCEPT ![r] = IdleState] BY <1>2, <3>1, <3>2, <3>4 DEF IInv, TypeOK
    <3> QED BY <2>3, <3>3, <3>4 DEF FinishShell
  <2>4. CASE IdleBegin(i) \/ IdleEnd(i)
    BY <1>1, <1>5, <2>4 DEF IdleBegin, IdleEnd
  <2>5. CASE Complete(i) BY <1>1, <2>5 DEF Complete, IInv, TypeOK, Work
  <2> QED BY <1>7, <2>1, <2>2, <2>3, <2>4, <2>5 DEF Finish
<1>8. CASE state' = state /\ work' = work BY <1>1, <1>8
<1> QED BY <1>3, <1>4, <1>6, <1>7, <1>8, <1>9
     DEF RunnerStep, Next, Obtain, Await, ReturnRun, ReturnShell, CancelIdle, runnerVars

\* How a step may change a handle: only an interrupt sets its flag, before or while it
\* works and when it is in no state, and how it exits goes by the flag.
HandleMove(j) ==
  \/ /\ work'[j].intr = work[j].intr
     /\ \/ /\ work'[j].exit = work[j].exit
           /\ \/ work'[j].phase = work[j].phase
              \/ work[j].phase = "unborn" /\ work'[j].phase = "forked"
              \/ work[j].phase = "forked" /\ work'[j].phase = "working"
              \/ /\ work[j].phase # "unborn"
                 /\ work'[j].phase \notin {"unborn", "forked", "working"}
        \/ /\ work[j].phase = "working" /\ work'[j].phase = "exited"
           /\ work'[j].exit = "interrupt" => work[j].intr
           /\ work'[j].exit = "success" => ~ work[j].intr
  \/ /\ work'[j].intr = TRUE /\ work'[j].exit = work[j].exit /\ ~ Current(j)
     /\ \/ work[j].phase = "working" /\ work'[j].phase = "working"
        \/ work[j].phase = "forked" /\ work'[j].phase = "discarded"

LEMMA HandleMoves ==
  ASSUME IInv, TakenGone, RunnerStep, NEW j \in Ids
  PROVE  HandleMove(j)
<1>1. ASSUME work'[j] = work[j] PROVE HandleMove(j)
  BY <1>1 DEF HandleMove
<1>2. ASSUME NEW c \in Callers, NEW r \in Runners, Enter(c, r) PROVE HandleMove(j)
  <2>1. ASSUME NEW i \in Ids, NEW w \in {ForkedRun(r), PendingRun(r), ForkedShell(r)},
               work[i] = NoWork, work'[i] = w, \A k \in Ids : k # i => work'[k] = work[k]
        PROVE  HandleMove(j)
    <3>1. w.intr = FALSE /\ w.exit = "none" /\ w.phase \in {"unborn", "forked"}
      BY DEF ForkedRun, PendingRun, ForkedShell, NoWork
    <3>2. CASE j = i
      <4>1. work[j].intr = FALSE /\ work[j].exit = "none" /\ work[j].phase = "unborn"
        BY <2>1, <3>2 DEF NoWork
      <4>2. work'[j] = w BY <2>1, <3>2
      <4> QED BY <3>1, <4>1, <4>2 DEF HandleMove
    <3>3. CASE j # i BY <1>1, <2>1, <3>3
    <3> QED BY <3>2, <3>3
  <2>2. CASE StartRun(c, r) BY <2>1, <2>2, StartForm DEF NewHandle
  <2>3. CASE QueueRun(c, r) BY <2>1, <2>3, QueueForm DEF NewHandle
  <2>4. CASE ForkShell(c, r) BY <2>1, <2>4, ForkForm DEF NewHandle
  <2>5. CASE UNCHANGED work BY <1>1, <2>5
  <2> QED BY <1>2, <2>2, <2>3, <2>4, <2>5
       DEF Enter, JoinRun, RefuseShell, ShellOnBusy, CancelNothing, CancelBegin
<1>3. ASSUME NEW c \in Callers, Stop(c) PROVE HandleMove(j)
  <2>1. ASSUME NEW i \in Ids, Interrupt(i), ~ Current(i) PROVE HandleMove(j)
    <3> DEFINE w == Interrupted(work[i])
    <3>1. work' = [work EXCEPT ![i] = w] BY <2>1 DEF Interrupt, IInv, TypeOK
    <3>2. /\ w.exit = work[i].exit
          /\ work[i].phase = "working" => w.intr = TRUE /\ w.phase = "working"
          /\ work[i].phase = "forked" => w.intr = TRUE /\ w.phase = "discarded"
          /\ work[i].phase \notin {"working", "forked"} =>
               w.intr = work[i].intr /\ w.phase = work[i].phase
      BY DEF IInv, TypeOK, Work, Interrupted
    <3> HIDE DEF w
    <3>3. CASE j = i
      <4>1. work'[j] = w BY <3>1, <3>3 DEF IInv, TypeOK
      <4> QED BY <2>1, <3>2, <3>3, <4>1 DEF HandleMove
    <3>4. CASE j # i BY <1>1, <3>1, <3>4 DEF IInv, TypeOK
    <3> QED BY <3>3, <3>4
  <2>2. CASE CancelInterrupt(c)
    BY <2>1, <2>2 DEF CancelInterrupt, At, IInv, CallsBacked
  <2>3. CASE StopShellTimeout(c)
    BY <2>1, <2>3 DEF StopShellTimeout, At, IInv, CallsBacked, ShellsLeft, StoppedLeft
  <2>4. CASE CancelFailPending(c)
    BY <2>4 DEF CancelFailPending, HandleMove, IInv, TypeOK, Work
  <2>5. CASE UNCHANGED work BY <1>1, <2>5
  <2> QED BY <1>3, <2>2, <2>3, <2>4, <2>5
       DEF Stop, CancelAwaitFiber, CancelAwaitDone, StopShellAbort, StopShellDone, IdleIfCurrent,
           CancelIdleBegin, CancelIdleEnd
<1>4. ASSUME NEW i \in Ids, NEW p \in {"notify", "notifying", "settle", "ended"}, Phase(i, p),
             work[i].phase # "unborn"
      PROVE  HandleMove(j)
  BY <1>4 DEF Phase, HandleMove, IInv, TypeOK, Work
<1>5. ASSUME NEW i \in Ids, NEW e \in Exits, WorkExit(i, e) PROVE HandleMove(j)
  <2> DEFINE x == IF work[i].kind = "run" THEN e ELSE "none"
             w == [work[i] EXCEPT !.phase = "exited", !.exit = x]
  <2>1. work' = [work EXCEPT ![i] = w] /\ work[i].phase = "working" BY <1>5 DEF WorkExit
  <2>2. /\ x = "interrupt" => work[i].intr
        /\ x = "success" => ~ work[i].intr
    BY <1>5 DEF WorkExit
  <2>3. w.phase = "exited" /\ w.exit = x /\ w.intr = work[i].intr BY DEF IInv, TypeOK, Work
  <2> HIDE DEF w, x
  <2>4. CASE j = i
    <3>1. work'[j] = w BY <2>1, <2>4 DEF IInv, TypeOK
    <3> QED BY <2>1, <2>2, <2>3, <2>4, <3>1 DEF HandleMove
  <2>5. CASE j # i BY <1>1, <2>1, <2>5 DEF IInv, TypeOK
  <2> QED BY <2>4, <2>5
<1>8. ASSUME NEW i \in Ids, BeginWork(i) PROVE HandleMove(j)
  BY <1>8 DEF BeginWork, Phase, HandleMove, IInv, TypeOK, Work
<1>6. ASSUME NEW i \in Ids, Finish(i) PROVE HandleMove(j)
  <2>1. CASE FinishRun(i) BY <1>4, <2>1 DEF FinishRun
  <2>2. CASE FinishShell(i) /\ state[work[i].runner].tag = "ShellThenRun"
             /\ state[work[i].runner].shell = i
    <3> PICK k \in Ids : /\ StartsQueued(i, k, work[i].runner) /\ work[k].phase = "unborn"
                         /\ work[i].phase = "exited"
                         /\ work'[k].intr = work[k].intr /\ work'[i].intr = work[i].intr
                         /\ work'[k].exit = work[k].exit /\ work'[i].exit = work[i].exit
      BY <2>2, FinishForm
    <3> QED BY <1>1 DEF StartsQueued, HandleMove
  <2>3. CASE FinishShell(i) /\ ~ (state[work[i].runner].tag = "ShellThenRun"
                                  /\ state[work[i].runner].shell = i)
    BY <1>4, <2>3 DEF FinishShell
  <2>4. CASE IdleBegin(i) \/ IdleEnd(i) BY <1>4, <2>4 DEF IdleBegin, IdleEnd
  <2>5. CASE Complete(i) BY <2>5 DEF Complete, HandleMove, IInv, TypeOK, Work
  <2> QED BY <1>6, <2>1, <2>2, <2>3, <2>4, <2>5 DEF Finish
<1>7. CASE work' = work BY <1>1, <1>7
<1> QED BY <1>2, <1>3, <1>5, <1>6, <1>7, <1>8
     DEF RunnerStep, Next, Obtain, Await, ReturnRun, ReturnShell, CancelIdle, runnerVars


\* A caller that waits for a run was given a handle.
CallMove(c) == call'[c].pc = "await" => call'[c].run \in Ids

LEMMA CallMoves ==
  ASSUME IInv, Captures, TakenGone, RunnerStep, NEW c \in Callers
  PROVE  CallMove(c)
<1>1. ASSUME call'[c] = call[c] PROVE CallMove(c)
  BY <1>1 DEF CallMove, TakenGone
<1>2. ASSUME call'[c].pc # "await" PROVE CallMove(c)
  BY <1>2 DEF CallMove
<1>3. ASSUME NEW r \in Runners, Enter(c, r) PROVE CallMove(c)
  <2>1. CASE StartRun(c, r)
    <3>1. PICK i \in Ids, v \in Call : call'[c] = v /\ v.pc = "await" /\ v.run = i
      BY <2>1, StartForm DEF NewHandle
    <3> QED BY <3>1 DEF CallMove
  <2>2. CASE QueueRun(c, r)
    <3>1. PICK i \in Ids, v \in Call : call'[c] = v /\ v.pc = "await" /\ v.run = i
      BY <2>2, QueueForm DEF NewHandle
    <3> QED BY <3>1 DEF CallMove
  <2>3. CASE ForkShell(c, r)
    <3>1. call'[c].pc = "awaitShell" BY <2>3, ForkForm DEF NewHandle
    <3> QED BY <1>2, <3>1
  <2>4. CASE JoinRun(c, r)
    <3>1. state[r].run \in Ids BY <2>4 DEF JoinRun, IInv, StateBacked, IsLive
    <3> DEFINE v == [call[c] EXCEPT !.pc = "await", !.run = state[r].run]
    <3>2. call' = [call EXCEPT ![c] = v] /\ v.pc = "await" /\ v.run = state[r].run
      BY <2>4 DEF JoinRun, AwaitRun, IInv, TypeOK, Call
    <3> HIDE DEF v
    <3>3. call'[c] = v BY <3>2 DEF IInv, TypeOK
    <3> QED BY <3>1, <3>2, <3>3 DEF CallMove
  <2>5. CASE RefuseShell(c, r) \/ CancelNothing(c, r)
    <3>1. call'[c].pc = "out"
      BY <2>5, NoCallType DEF RefuseShell, CancelNothing, Return, IInv, TypeOK
    <3> QED BY <1>2, <3>1
  <2>6. CASE ShellOnBusy(c, r)
    <3>1. call'[c].pc = "onBusy" BY <2>6, GoFields DEF ShellOnBusy, IInv
    <3> QED BY <1>2, <3>1
  <2>7. CASE CancelBegin(c, r)
    <3>1. call'[c].pc = FirstEffect(state[r].tag) /\ state[r].tag \in {"Running", "Shell", "ShellThenRun"}
      BY <2>7, CancelForm DEF IInv, TypeOK, State, Tags
    <3>2. call'[c].pc # "await" BY <3>1 DEF FirstEffect
    <3> QED BY <2>7, <3>2 DEF CallMove
  <2> QED BY <1>3, <2>1, <2>2, <2>3, <2>4, <2>5, <2>6, <2>7 DEF Enter
<1>4. ASSUME Stop(c) PROVE CallMove(c)
  <2>1. ASSUME NEW pc \in CancelPcs, Go(c, pc)
        PROVE  CallMove(c)
    <3>1. call'[c].pc = pc /\ call'[c].shell = call[c].shell
      BY <2>1, GoFields DEF IInv
    <3> QED BY <2>1, <3>1 DEF CallMove, CancelPcs
  <2>2. ASSUME Return(c) PROVE CallMove(c)
    <3>1. call'[c].pc = "out" BY <2>2, NoCallType DEF Return, IInv, TypeOK
    <3> QED BY <1>2, <3>1
  <2>3. CASE CancelInterrupt(c) BY <2>1, <2>3 DEF CancelInterrupt, CancelPcs
  <2>4. CASE CancelAwaitFiber(c) BY <2>1, <2>4 DEF CancelAwaitFiber, CancelPcs
  <2>5. CASE CancelAwaitDone(c) BY <2>1, <2>5 DEF CancelAwaitDone, CancelPcs
  <2>6. CASE CancelFailPending(c) BY <2>1, <2>6 DEF CancelFailPending, CancelPcs, At
  <2>7. CASE StopShellAbort(c) BY <2>1, <2>7 DEF StopShellAbort, CancelPcs, At
  <2>8. CASE StopShellTimeout(c) BY <2>1, <2>8 DEF StopShellTimeout, CancelPcs
  <2>9. CASE StopShellDone(c) BY <2>1, <2>9 DEF StopShellDone, CancelPcs
  <2>10. CASE CancelIdleEnd(c) BY <2>2, <2>10 DEF CancelIdleEnd
  <2>11. CASE IdleIfCurrent(c) BY <2>1, <2>2, <2>11 DEF IdleIfCurrent, CancelPcs
  <2>12. CASE CancelIdleBegin(c) BY <2>1, <2>12 DEF CancelIdleBegin, CancelPcs
  <2> QED BY <1>4, <2>3, <2>4, <2>5, <2>6, <2>7, <2>8, <2>9, <2>10, <2>11, <2>12 DEF Stop
<1>5. ASSUME Await(c) PROVE CallMove(c)
  <2>1. call'[c].pc = "out"
    BY <1>5, NoCallType DEF Await, ReturnRun, ReturnShell, Return, IInv, TypeOK
  <2> QED BY <1>2, <2>1
<1>6. ASSUME NEW op \in Ops, NEW r \in Runners, Obtain(c, r, op) PROVE CallMove(c)
  <2> DEFINE v == [NoCall EXCEPT !.pc = "ready", !.op = op, !.runner = r]
  <2>1. v.pc = "ready" /\ call' = [call EXCEPT ![c] = v] BY <1>6 DEF NoCall, Obtain
  <2> HIDE DEF v
  <2>2. call'[c].pc = "ready" BY <2>1 DEF IInv, TypeOK
  <2> QED BY <1>2, <2>2
<1>7. ASSUME CancelIdle(c) PROVE CallMove(c)
  <2> DEFINE v == [NoCall EXCEPT !.pc = "notifying", !.op = "cancel"]
  <2>1. v.pc = "notifying" /\ call' = [call EXCEPT ![c] = v] BY <1>7 DEF NoCall, CancelIdle
  <2> HIDE DEF v
  <2>2. call'[c].pc = "notifying" BY <2>1 DEF IInv, TypeOK
  <2> QED BY <1>2, <2>2
<1>8. ASSUME NEW d \in Callers, d # c,
             \/ \E op \in Ops, r \in Runners : Obtain(d, r, op)
             \/ \E r \in Runners : Enter(d, r)
             \/ Stop(d) \/ Await(d) \/ CancelIdle(d)
      PROVE  call'[c] = call[c]
  <2>1. CASE \E op \in Ops, r \in Runners : Obtain(d, r, op) BY <1>8, <2>1 DEF Obtain, IInv, TypeOK
  <2>2. CASE \E r \in Runners : Enter(d, r) BY <1>8, <2>2, EnterCaptures
  <2>3. CASE Stop(d) BY <1>8, <2>3, StopCaptures, EndedStays
  <2>4. CASE Await(d) BY <1>8, <2>4 DEF Await, ReturnRun, ReturnShell, Return, IInv, TypeOK
  <2>5. CASE CancelIdle(d) BY <1>8, <2>5 DEF CancelIdle, IInv, TypeOK
  <2> QED BY <1>8, <2>1, <2>2, <2>3, <2>4, <2>5
<1>9. ASSUME NEW i \in Ids, Finish(i) PROVE call' = call
  BY <1>9 DEF Finish, FinishRun, FinishShell, IdleBegin, IdleEnd, Complete
<1>10. ASSUME NEW i \in Ids, NEW e \in Exits, WorkExit(i, e) PROVE call' = call
  BY <1>10 DEF WorkExit
<1>12. ASSUME NEW i \in Ids, BeginWork(i) PROVE call' = call
  BY <1>12 DEF BeginWork
<1>11. CASE UNCHANGED runnerVars BY <1>1, <1>11 DEF runnerVars
<1> QED BY <1>1, <1>3, <1>4, <1>5, <1>6, <1>7, <1>8, <1>9, <1>10, <1>11, <1>12 DEF RunnerStep, Next

LEMMA TakenStays ==
  ASSUME IInv, Captures, TakenGone, RunnerStep
  PROVE  TakenGone'
<1>1. \A j \in Ids : HandleMove(j) BY HandleMoves
<1>2. \A j \in Ids : work[j].phase # "unborn" /\ ~ Current(j) => ~ Current(j)'
  BY NewlyCurrent
<1>3. ASSUME NEW j \in Ids
      PROVE  /\ work'[j].intr => work'[j].phase # "unborn" /\ ~ Current(j)'
             /\ work'[j].phase \in {"unborn", "forked", "working"} => work'[j].exit = "none"
             /\ work'[j].exit = "interrupt" => work'[j].intr
             /\ work'[j].exit = "success" => ~ work'[j].intr
  <2>1. HandleMove(j) BY <1>1
  <2>2. /\ work[j].intr => work[j].phase # "unborn" /\ ~ Current(j)
        /\ work[j].phase \in {"unborn", "forked", "working"} => work[j].exit = "none"
        /\ work[j].exit = "interrupt" => work[j].intr
        /\ work[j].exit = "success" => ~ work[j].intr
    BY DEF TakenGone
  <2>3. work[j].phase # "unborn" => work'[j].phase # "unborn"
    BY <2>1 DEF HandleMove
  <2> QED BY <1>2, <2>1, <2>2, <2>3 DEF HandleMove
<1>5. \A c \in Callers : call'[c].pc = "await" => call'[c].run \in Ids
  BY CallMoves DEF CallMove
<1> QED BY <1>3, <1>5 DEF TakenGone

\* What a runner has to do is what its state holds.
LEMMA LivesInState ==
  ASSUME IInv, NEW j \in Ids
  PROVE  /\ Life(j) = "working" <=> Alive(j) /\ ~ Doomed(j) /\ work[j].kind # "none"
         /\ Life(j) = "working" => Current(j)
         /\ Life(j) = "queued" => /\ work[j].kind = "run" /\ work[j].runner \in Runners
                                  /\ state[work[j].runner].tag = "ShellThenRun"
                                  /\ state[work[j].runner].run = j
<1>1. Life(j) = "working" <=> Alive(j) /\ ~ Doomed(j) /\ work[j].kind # "none"
  BY DEF Life, Alive
<1>2. Life(j) = "working" => Current(j) BY <1>1 DEF IInv, LiveWorkIsCurrent
<1>3. ASSUME Life(j) = "queued"
      PROVE  /\ work[j].kind = "run" /\ work[j].runner \in Runners
             /\ state[work[j].runner].tag = "ShellThenRun" /\ state[work[j].runner].run = j
  <2>1. work[j].kind # "none" /\ work[j].phase = "unborn" /\ work[j].done = "open" /\ ~ Dropped(j)
    BY <1>3 DEF Life
  <2>2. work[j].kind = "run" /\ work[j].runner \in Runners
    BY <2>1, MadeHandle DEF IInv, HandlesOK
  <2> QED BY <2>1, <2>2 DEF IInv, HandlesOK, Dropped
<1> QED BY <1>1, <1>2, <1>3

LEMMA NothingToDo ==
  ASSUME IInv, NEW r \in Runners, state[r].tag = "Idle"
  PROVE  Flight!Of(r) = {}
<1>1. ASSUME NEW j \in Ids, work[j].runner = r PROVE Life(j) \notin {"queued", "working"}
  BY <1>1, LivesInState DEF Current
<1> QED BY <1>1 DEF Flight!Of

\* Steps seen through the mapping: nothing changes, or one handle is given.
Waits(c) == IF At(c, "await") THEN call[c].run ELSE NoId

LEMMA Stutters ==
  ASSUME \A j \in Ids : /\ work'[j].runner = work[j].runner /\ work'[j].done = work[j].done
                        /\ Life(j)' = Life(j),
         \A c \in Callers : Waits(c)' = Waits(c)
  PROVE  UNCHANGED Flight!flightVars
  BY DEF Flight!flightVars, Waits

LEMMA Gives ==
  ASSUME NEW i \in Ids, NEW r, NEW l, NEW o, Life(i) = "none", Life(i)' = l,
         work'[i].runner = r, work'[i].done = o,
         \A j \in Ids : j # i => /\ Life(j)' = Life(j) /\ work'[j].runner = work[j].runner
                                 /\ work'[j].done = work[j].done
  PROVE  Flight!Give(r, i, l, o)
  BY DEF Flight!Give, Flight!Become

LEMMA Awaits ==
  ASSUME NEW c \in Callers, NEW i, Waits(c) = NoId, Waits(c)' = i,
         \A d \in Callers : d # c => Waits(d)' = Waits(d)
  PROVE  Flight!Wait(c, i)
  BY DEF Flight!Wait, Waits

\* A caller that holds nothing to stop, before and after its step, changes no life.
Captors == {"interrupt", "failPending", "abort", "grace"}
LEMMA Aside ==
  ASSUME NEW c \in Callers, call[c].pc \notin Captors, call'[c].pc \notin Captors,
         \A d \in Callers : d # c => call'[d] = call[d]
  PROVE  \A j \in Ids : /\ CancelPending(j)' <=> CancelPending(j)
                        /\ Dropped(j)' <=> Dropped(j)
  BY DEF Captors, CancelPending, Dropped, At

LEMMA SameLife ==
  ASSUME NEW j \in Ids, work'[j].kind = work[j].kind, work'[j].phase = work[j].phase,
         work'[j].done = work[j].done, work'[j].intr = work[j].intr,
         Alive(j) => (CancelPending(j)' <=> CancelPending(j)),
         work[j].phase = "unborn" => (Dropped(j)' <=> Dropped(j))
  PROVE  Life(j)' = Life(j)
  BY DEF Life, Doomed, Alive

\* A handle nobody has made yet is in no cancel's hands.
LEMMA NewIsFree ==
  ASSUME IInv, NEW i \in Ids, work[i] = NoWork
  PROVE  ~ CancelPending(i) /\ ~ Dropped(i) /\ Life(i) = "none"
<1>1. work[i].kind = "none" BY DEF NoWork
<1>2. \A d \in Callers : /\ call[d].pc \in {"interrupt", "failPending"} => work[call[d].run].kind = "run"
                         /\ call[d].pc \in {"failPending", "abort", "grace"} =>
                              work[call[d].shell].kind = "shell"
  BY DEF IInv, CallsBacked
<1>3. \A d \in Callers : /\ call[d].pc \in {"interrupt", "failPending"} => call[d].run # i
                         /\ call[d].pc \in {"failPending", "abort", "grace"} => call[d].shell # i
  BY <1>1, <1>2
<1> QED BY <1>1, <1>3 DEF CancelPending, Dropped, At, Life

\* The step that makes a handle gives it to its runner and changes nothing else.
LEMMA NewIsGiven ==
  ASSUME IInv, NEW c \in Callers, NEW r \in Runners, NEW i \in Ids, NEW w, NEW st, NEW v \in Call,
         NewHandle(c, r, i, w, st, v), call[c].pc \in {"ready", "onBusy"},
         v.pc \in {"await", "awaitShell"}, w.kind \in {"run", "shell"}, w.runner = r, w.intr = FALSE
  PROVE  /\ w.phase = "forked" => Flight!Give(r, i, "working", w.done)
         /\ w.phase = "unborn" /\ w.done = "open" => Flight!Give(r, i, "queued", w.done)
<1>1. ~ CancelPending(i) /\ ~ Dropped(i) /\ Life(i) = "none"
  BY NewIsFree DEF NewHandle
<1>2. \A j \in Ids : (CancelPending(j)' <=> CancelPending(j)) /\ (Dropped(j)' <=> Dropped(j))
  BY Aside DEF NewHandle, Captors
<1>3. \A j \in Ids : j # i => Life(j)' = Life(j)
  BY <1>2, SameLife DEF NewHandle
<1>4. \A j \in Ids : j # i => work'[j].runner = work[j].runner /\ work'[j].done = work[j].done
  BY DEF NewHandle
<1>5. work'[i] = w BY DEF NewHandle
<1>6. CASE w.phase = "forked"
  <2>1. Life(i)' = "working" BY <1>1, <1>2, <1>5, <1>6 DEF Life, Doomed, Alive
  <2> QED BY <1>1, <1>3, <1>4, <1>5, <1>6, <2>1, Gives
<1>7. CASE w.phase = "unborn" /\ w.done = "open"
  <2>1. Life(i)' = "queued" BY <1>1, <1>2, <1>5, <1>7 DEF Life, Alive
  <2> QED BY <1>1, <1>3, <1>4, <1>5, <1>7, <2>1, Gives
<1> QED BY <1>6, <1>7

LEMMA StartIsStart ==
  ASSUME IInv, NEW c \in Callers, NEW r \in Runners, StartRun(c, r)
  PROVE  \E i \in Ids : Flight!Start(c, r, i)
<1>1. PICK i \in Ids, v \in Call :
        /\ NewHandle(c, r, i, ForkedRun(r), RunningState(i), v)
        /\ v.pc = "await" /\ v.run = i /\ call[c].pc = "ready" /\ state[r].tag = "Idle"
  BY StartForm
<1>2. /\ ForkedRun(r).kind = "run" /\ ForkedRun(r).runner = r /\ ForkedRun(r).intr = FALSE
      /\ ForkedRun(r).phase = "forked" /\ ForkedRun(r).done = "open"
  BY DEF ForkedRun, NoWork
<1>3. Flight!Give(r, i, "working", "open")
  BY <1>1, <1>2, NewIsGiven
<1>4. Waits(c) = NoId /\ Waits(c)' = i /\ \A d \in Callers : d # c => Waits(d)' = Waits(d)
  BY <1>1 DEF NewHandle, Waits, At
<1>5. Flight!Wait(c, i) BY <1>4, Awaits
<1> QED BY <1>1, <1>3, <1>5, NothingToDo DEF Flight!Start

LEMMA QueueIsQueue ==
  ASSUME IInv, NEW c \in Callers, NEW r \in Runners, QueueRun(c, r)
  PROVE  \E i \in Ids : Flight!Queue(c, r, i)
<1>1. PICK i \in Ids, v \in Call :
        /\ NewHandle(c, r, i, PendingRun(r), ShellThenRunState(state[r].shell, i), v)
        /\ v.pc = "await" /\ v.run = i /\ call[c].pc = "ready" /\ state[r].tag = "Shell"
  BY QueueForm
<1>2. /\ PendingRun(r).kind = "run" /\ PendingRun(r).runner = r /\ PendingRun(r).intr = FALSE
      /\ PendingRun(r).phase = "unborn" /\ PendingRun(r).done = "open"
  BY DEF PendingRun, NoWork
<1>3. Flight!Give(r, i, "queued", "open")
  BY <1>1, <1>2, NewIsGiven
<1>4. Waits(c) = NoId /\ Waits(c)' = i /\ \A d \in Callers : d # c => Waits(d)' = Waits(d)
  BY <1>1 DEF NewHandle, Waits, At
<1>5. Flight!Wait(c, i) BY <1>4, Awaits
<1>6. ASSUME NEW j \in Ids, work[j].runner = r, Life(j) \in {"queued", "working"}
      PROVE  work[j].done = "none"
  <2>1. Current(j) /\ state[r].shell = j BY <1>1, <1>6, LivesInState DEF Current
  <2> QED BY <1>1, <2>1 DEF IInv, StateBacked, IsLive, HandlesOK
<1>7. \A j \in Flight!Of(r) : ~ Flight!IsRun(j)
  BY <1>6 DEF Flight!Of, Flight!IsRun
<1> QED BY <1>3, <1>5, <1>7 DEF Flight!Queue

LEMMA ForkIsFork ==
  ASSUME IInv, NEW c \in Callers, NEW r \in Runners, ForkShell(c, r)
  PROVE  \E i \in Ids : Flight!Fork(r, i)
<1>1. PICK i \in Ids, v \in Call :
        /\ NewHandle(c, r, i, ForkedShell(r), ShellState(i), v)
        /\ v.pc = "awaitShell" /\ call[c].pc = "onBusy" /\ state[r].tag = "Idle"
  BY ForkForm
<1>2. /\ ForkedShell(r).kind = "shell" /\ ForkedShell(r).runner = r /\ ForkedShell(r).intr = FALSE
      /\ ForkedShell(r).phase = "forked" /\ ForkedShell(r).done = "none"
  BY DEF ForkedShell, NoWork
<1>3. Flight!Give(r, i, "working", "none")
  BY <1>1, <1>2, NewIsGiven
<1>4. \A d \in Callers : Waits(d)' = Waits(d)
  BY <1>1 DEF NewHandle, Waits, At
<1>5. UNCHANGED [d \in Callers |-> IF At(d, "await") THEN call[d].run ELSE NoId]
  BY <1>4 DEF Waits
<1> QED BY <1>1, <1>3, <1>5, NothingToDo DEF Flight!Fork

LEMMA JoinIsJoin ==
  ASSUME IInv, TakenGone, NEW c \in Callers, NEW r \in Runners, JoinRun(c, r)
  PROVE  \E i \in Ids : Flight!Join(c, i)
<1>1. /\ call[c].pc = "ready" /\ state[r].tag \in {"Running", "ShellThenRun"}
      /\ AwaitRun(c, state[r].run) /\ UNCHANGED <<state, ids, work>>
  BY DEF JoinRun, Entering, At
<1>2. PICK i \in Ids : /\ i = state[r].run /\ work[i].kind = "run" /\ work[i].runner = r
                       /\ state[r].tag = "Running" => work[i].phase \in {"forked", "working", "exited"}
                       /\ state[r].tag = "ShellThenRun" => work[i].phase = "unborn"
                       /\ work[i].done = "open"
  BY <1>1 DEF IInv, StateBacked, IsLive, HandlesOK, LivePhases
<1> DEFINE v == [call[c] EXCEPT !.pc = "await", !.run = i]
<1>3. call' = [call EXCEPT ![c] = v] /\ v.pc = "await" /\ v.run = i
  BY <1>1, <1>2 DEF AwaitRun, IInv, TypeOK, Call
<1> HIDE DEF v
<1>4. call'[c] = v /\ \A d \in Callers : d # c => call'[d] = call[d]
  BY <1>3 DEF IInv, TypeOK
<1>5. \A j \in Ids : Life(j)' = Life(j)
  <2>1. \A j \in Ids : (CancelPending(j)' <=> CancelPending(j)) /\ (Dropped(j)' <=> Dropped(j))
    BY <1>1, <1>3, <1>4, Aside DEF Captors
  <2> QED BY <1>1, <2>1, SameLife
<1>6. Waits(c) = NoId /\ Waits(c)' = i /\ \A d \in Callers : d # c => Waits(d)' = Waits(d)
  BY <1>1, <1>3, <1>4 DEF Waits, At
<1>7. Flight!Wait(c, i) BY <1>6, Awaits
<1>8. Life(i) \in {"queued", "working", "over"}
  <2>1. CASE state[r].tag = "ShellThenRun"
    <3>1. ~ Dropped(i)
      BY <1>2 DEF Dropped, At, IInv, CallsBacked
    <3> QED BY <1>2, <2>1, <3>1 DEF Life, Alive
  <2>2. CASE state[r].tag = "Running"
    <3>1. Current(i) BY <1>2, <2>2 DEF Current
    <3>2. ~ work[i].intr BY <3>1 DEF TakenGone
    <3>3. ~ CancelPending(i)
      BY <1>2, <3>1 DEF CancelPending, At, IInv, CallsBacked
    <3> QED BY <1>2, <2>2, <3>2, <3>3 DEF Life, Doomed, Alive
  <2> QED BY <1>1, <2>1, <2>2
<1>9. UNCHANGED <<[j \in Ids |-> work[j].runner], [j \in Ids |-> Life(j)],
                  [j \in Ids |-> work[j].done]>>
  BY <1>1, <1>5
<1> QED BY <1>2, <1>7, <1>8, <1>9 DEF Flight!Join

LEMMA ReturnIsAnswer ==
  ASSUME IInv, TakenGone, NEW c \in Callers, ReturnRun(c)
  PROVE  Flight!Answer(c)
<1>1. /\ call[c].pc = "await" /\ work[call[c].run].done \in Settled /\ Return(c)
      /\ UNCHANGED <<state, ids, work>>
  BY DEF ReturnRun, At
<1>2. call'[c].pc = "out" /\ \A d \in Callers : d # c => call'[d] = call[d]
  BY <1>1, NoCallType DEF Return, IInv, TypeOK
<1>3. \A j \in Ids : Life(j)' = Life(j)
  <2>1. \A j \in Ids : (CancelPending(j)' <=> CancelPending(j)) /\ (Dropped(j)' <=> Dropped(j))
    BY <1>1, <1>2, Aside DEF Captors
  <2> QED BY <1>1, <2>1, SameLife
<1>4. call[c].run \in Ids /\ call[c].run # NoId
  BY <1>1 DEF TakenGone, Ids, NoId
<1>5. UNCHANGED <<[j \in Ids |-> work[j].runner], [j \in Ids |-> Life(j)],
                  [j \in Ids |-> work[j].done]>>
  BY <1>1, <1>3
<1>6. Waits(c) = call[c].run /\ Waits(c)' = NoId /\ \A d \in Callers : d # c => Waits(d)' = Waits(d)
  BY <1>1, <1>2 DEF Waits, At
<1> DEFINE waits == [d \in Callers |-> Waits(d)]
<1>7. waits' = [waits EXCEPT ![c] = NoId]
  BY <1>6
<1>8. waits[c] # NoId /\ [j \in Ids |-> work[j].done][waits[c]] \in Settled
  BY <1>1, <1>4, <1>6
<1> QED BY <1>5, <1>7, <1>8 DEF Flight!Answer, Flight!Decided, Settled, Waits

\* cancel's transition takes what its runner's state held.
LEMMA CancelIsTake ==
  ASSUME IInv, NEW c \in Callers, NEW r \in Runners, CancelBegin(c, r)
  PROVE  Flight!Take(r)
<1>1. PICK v \in Call :
        /\ call'[c] = v /\ \A d \in Callers : d # c => call'[d] = call[d]
        /\ v.pc = FirstEffect(state[r].tag) /\ v.run = state[r].run /\ v.shell = state[r].shell
        /\ call[c].pc = "ready" /\ state[r].tag # "Idle"
        /\ state'[r] = IdleState /\ \A q \in Runners : q # r => state'[q] = state[q]
        /\ UNCHANGED <<ids, work>>
  BY CancelForm
<1>2. /\ state[r].tag = "Running" => v.pc = "interrupt" /\ v.run \in Ids /\ work[v.run].runner = r
      /\ state[r].tag = "Shell" => v.pc = "abort" /\ v.shell \in Ids /\ work[v.shell].runner = r
      /\ state[r].tag = "ShellThenRun" =>
           /\ v.pc = "failPending" /\ v.shell \in Ids /\ work[v.shell].runner = r
           /\ v.run \in Ids /\ work[v.run].runner = r
      /\ state[r].tag \in {"Running", "Shell", "ShellThenRun"}
  BY <1>1 DEF FirstEffect, IInv, StateBacked, IsLive, TypeOK, State, Tags
<1>3. /\ \A j \in Ids : CancelPending(j)' <=>
           (CancelPending(j) \/ (v.pc = "interrupt" /\ v.run = j)
                             \/ (v.pc \in {"failPending", "abort"} /\ v.shell = j))
      /\ \A j \in Ids : Dropped(j)' <=> (Dropped(j) \/ (v.pc = "failPending" /\ v.run = j))
  BY <1>1, <1>2 DEF CancelPending, Dropped, At
<1>4. ASSUME NEW j \in Ids, work[j].runner # r PROVE Life(j)' = Life(j)
  BY <1>1, <1>2, <1>3, <1>4, SameLife
<1>5. ASSUME NEW j \in Ids, work[j].runner = r, Life(j) = "working" PROVE Life(j)' = "stopping"
  <2>1. Alive(j) /\ Current(j) /\ work[j].kind # "none" BY <1>5, LivesInState
  <2>2. CancelPending(j)' BY <1>1, <1>2, <1>3, <1>5, <2>1 DEF Current
  <2> QED BY <1>1, <2>1, <2>2 DEF Life, Doomed, Alive
<1>6. ASSUME NEW j \in Ids, work[j].runner = r, Life(j) = "queued" PROVE Life(j)' = "dropped"
  <2>1. state[r].tag = "ShellThenRun" /\ state[r].run = j BY <1>6, LivesInState
  <2>2. Dropped(j)' BY <1>1, <1>2, <1>3, <2>1
  <2>3. work[j].kind # "none" /\ work[j].phase = "unborn" /\ work[j].done = "open"
    BY <1>6 DEF Life, Alive
  <2> QED BY <1>1, <2>2, <2>3 DEF Life, Alive
<1>7. ASSUME NEW j \in Ids, work[j].runner = r, Life(j) \notin {"queued", "working"}
      PROVE  Life(j)' = Life(j)
  BY <1>1, <1>3, <1>7 DEF Life, Doomed, Alive
<1>8. \A j \in Ids :
        Life(j)' = IF ~ (work[j].runner = r /\ Life(j) \in {"queued", "working"}) THEN Life(j)
                   ELSE IF Life(j) = "working" THEN "stopping" ELSE "dropped"
  BY <1>4, <1>5, <1>6, <1>7
<1>9. \A d \in Callers : Waits(d)' = Waits(d)
  BY <1>1, <1>2 DEF Waits, At
<1>10. UNCHANGED <<[j \in Ids |-> work[j].runner], [j \in Ids |-> work[j].done],
                   [d \in Callers |-> IF At(d, "await") THEN call[d].run ELSE NoId]>>
  BY <1>1, <1>9 DEF Waits
<1> QED BY <1>8, <1>10 DEF Flight!Take, Flight!Of

\* A step that touches one handle and no call.
LEMMA OneHandle ==
  ASSUME NEW i \in Ids, NEW w, work'[i] = w, \A j \in Ids : j # i => work'[j] = work[j],
         call' = call
  PROVE  /\ \A j \in Ids : (CancelPending(j)' <=> CancelPending(j)) /\ (Dropped(j)' <=> Dropped(j))
         /\ \A j \in Ids : j # i => Life(j)' = Life(j)
         /\ \A c \in Callers : Waits(c)' = Waits(c)
<1>1. \A j \in Ids : (CancelPending(j)' <=> CancelPending(j)) /\ (Dropped(j)' <=> Dropped(j))
  BY DEF CancelPending, Dropped, At
<1>2. \A j \in Ids : j # i => Life(j)' = Life(j) BY <1>1, SameLife
<1>3. \A c \in Callers : Waits(c)' = Waits(c) BY DEF Waits, At
<1> QED BY <1>1, <1>2, <1>3

LEMMA ExitIsEnd ==
  ASSUME IInv, NEW i \in Ids, NEW e \in Exits, WorkExit(i, e)
  PROVE  Flight!End(i)
<1> DEFINE w == [work[i] EXCEPT !.phase = "exited", !.exit = IF work[i].kind = "run" THEN e ELSE "none"]
<1>1. work[i].phase = "working" /\ work' = [work EXCEPT ![i] = w] /\ call' = call
  BY DEF WorkExit
<1>2. /\ w.phase = "exited" /\ w.kind = work[i].kind /\ w.runner = work[i].runner
      /\ w.intr = work[i].intr /\ w.done = work[i].done
  BY DEF IInv, TypeOK, Work
<1>3. work[i].kind # "none" BY <1>1, MadeHandle
<1> HIDE DEF w
<1>4. work'[i] = w /\ \A j \in Ids : j # i => work'[j] = work[j]
  BY <1>1 DEF IInv, TypeOK
<1>5. /\ \A j \in Ids : j # i => Life(j)' = Life(j)
      /\ \A c \in Callers : Waits(c)' = Waits(c)
  BY <1>1, <1>4, OneHandle
<1>6. \/ Life(i) \in {"working", "stopping"} /\ Life(i)' = "over"
      \/ Life(i) = "stopping" /\ Life(i)' = "stopped"
  BY <1>1, <1>2, <1>3, <1>4 DEF Life, Doomed, Alive
<1>7. UNCHANGED <<[j \in Ids |-> work[j].runner], [j \in Ids |-> work[j].done],
                  [d \in Callers |-> IF At(d, "await") THEN call[d].run ELSE NoId]>>
  BY <1>2, <1>4, <1>5 DEF Waits
<1> QED BY <1>5, <1>6, <1>7 DEF Flight!End, Flight!Become

LEMMA CompleteExits ==
  ASSUME IInv, TakenGone, NEW i \in Ids, Complete(i)
  PROVE  /\ work[i].kind = "run" /\ work[i].done = "open"
         /\ work[i].exit \in {"success", "failure", "interrupt"}
         /\ work[i].exit = "interrupt" => work[i].intr
         /\ work[i].exit = "success" => ~ work[i].intr
<1>1. work[i].phase = "settle" BY DEF Complete
<1>2. work[i].kind = "run" /\ work[i].done = "open"
  BY <1>1, PastIsNotCurrent DEF IInv, HandlesOK, LivePhases
<1> QED BY <1>1, <1>2 DEF IInv, HandlesOK, TypeOK, Work, Exits, TakenGone

LEMMA CompleteIsDecide ==
  ASSUME IInv, TakenGone, NEW i \in Ids, Complete(i)
  PROVE  \E e \in Flight!Decided : Flight!Decide(i, e)
<1>0. PICK e : e = Outcome(work[i].exit) OBVIOUS
<1> DEFINE w == [work[i] EXCEPT !.phase = "ended", !.done = e]
<1>1. work[i].phase = "settle" /\ work' = [work EXCEPT ![i] = w] /\ call' = call
  BY <1>0 DEF Complete
<1>2. work[i].kind = "run" /\ work[i].done = "open" BY CompleteExits
<1>3. /\ work[i].exit \in {"success", "failure", "interrupt"}
      /\ work[i].exit = "interrupt" => work[i].intr
      /\ work[i].exit = "success" => ~ work[i].intr
  BY CompleteExits
<1>4. /\ w.phase = "ended" /\ w.kind = work[i].kind /\ w.runner = work[i].runner
      /\ w.intr = work[i].intr /\ w.done = e
  BY DEF IInv, TypeOK, Work
<1> HIDE DEF w
<1>5. work'[i] = w /\ \A j \in Ids : j # i => work'[j] = work[j]
  BY <1>1 DEF IInv, TypeOK
<1>6. /\ \A j \in Ids : j # i => Life(j)' = Life(j)
      /\ \A c \in Callers : Waits(c)' = Waits(c)
  BY <1>1, <1>5, OneHandle
<1>7. Life(i) = (IF work[i].intr THEN "stopped" ELSE "over") /\ Life(i)' = Life(i)
  BY <1>1, <1>2, <1>4, <1>5 DEF Life, Alive
<1>8. \/ Life(i) = "over" /\ e \in {"success", "failure"}
      \/ Life(i) = "stopped" /\ e \in {"cancelled", "failure"}
  BY <1>0, <1>3, <1>7 DEF Outcome
<1>9. UNCHANGED <<[j \in Ids |-> work[j].runner], [j \in Ids |-> Life(j)],
                  [d \in Callers |-> IF At(d, "await") THEN call[d].run ELSE NoId]>>
  BY <1>4, <1>5, <1>6, <1>7 DEF Waits
<1>10. [j \in Ids |-> work[j].done]'
       = [[j \in Ids |-> work[j].done] EXCEPT ![i] = e]
  BY <1>4, <1>5
<1>11. e \in Flight!Decided BY <1>8 DEF Flight!Decided
<1>12. Flight!Decide(i, e) BY <1>2, <1>8, <1>9, <1>10 DEF Flight!Decide
<1> QED BY <1>11, <1>12

\* A run starts when the shell in front of it is over.
LEMMA FinishIsBegin ==
  ASSUME IInv, TakenGone, NEW s \in Ids, FinishShell(s),
         state[work[s].runner].tag = "ShellThenRun", state[work[s].runner].shell = s
  PROVE  \E i \in Ids : Flight!Begin(i)
<1> DEFINE r == work[s].runner
<1>1. PICK i \in Ids : /\ StartsQueued(s, i, r) /\ r \in Runners /\ i # s /\ state[r].run = i
                       /\ work[i].kind = "run" /\ work[i].runner = r
                       /\ work[i].phase = "unborn" /\ work[i].done = "open"
                       /\ work[s].kind = "shell" /\ work[s].phase = "exited"
                       /\ work'[i].intr = work[i].intr /\ work'[s].intr = work[s].intr
                       /\ UNCHANGED <<ids, call>>
  BY FinishForm
<1>2. \A j \in Ids : (CancelPending(j)' <=> CancelPending(j)) /\ (Dropped(j)' <=> Dropped(j))
  BY <1>1 DEF CancelPending, Dropped, At
<1>3. ~ work[i].intr /\ ~ Dropped(i) /\ ~ CancelPending(i)
  BY <1>1 DEF TakenGone, Dropped, CancelPending, At, IInv, CallsBacked
<1>4. Life(i) = "queued" /\ Life(i)' = "working"
  BY <1>1, <1>2, <1>3 DEF Life, Doomed, Alive, StartsQueued
<1>5. Life(s)' = Life(s)
  BY <1>1 DEF Life, Alive, StartsQueued
<1>6. \A j \in Ids : j # i /\ j # s => Life(j)' = Life(j)
  BY <1>1, <1>2, SameLife DEF StartsQueued
<1>7. \A j \in Ids : work[j].runner = r /\ Life(j) \in {"queued", "working"} => j = i
  <2> SUFFICES ASSUME NEW j \in Ids, work[j].runner = r, Life(j) \in {"queued", "working"}, j # i
               PROVE  FALSE
    OBVIOUS
  <2>1. Life(j) = "working" BY <1>1, LivesInState
  <2>2. Current(j) /\ work[j].phase \in {"forked", "working"} BY <2>1, LivesInState DEF Alive
  <2> QED BY <1>1, <2>2 DEF Current
<1>8. \A j \in Ids : work'[j].runner = work[j].runner /\ work'[j].done = work[j].done
  BY <1>1 DEF StartsQueued
<1>9. \A c \in Callers : Waits(c)' = Waits(c) BY <1>1 DEF Waits, At
<1>10. UNCHANGED <<[j \in Ids |-> work[j].runner], [j \in Ids |-> work[j].done],
                   [d \in Callers |-> IF At(d, "await") THEN call[d].run ELSE NoId]>>
  BY <1>8, <1>9 DEF Waits
<1>11. [j \in Ids |-> Life(j)]' = [[j \in Ids |-> Life(j)] EXCEPT ![i] = "working"]
  BY <1>4, <1>5, <1>6
<1>12. \A j \in Flight!Of(r) : j = i BY <1>7 DEF Flight!Of
<1>13. [j \in Ids |-> work[j].runner][i] = r /\ [j \in Ids |-> Life(j)][i] = "queued"
  BY <1>1, <1>4
<1>14. Flight!Become(i, "working") BY <1>11 DEF Flight!Become
<1> QED BY <1>1, <1>10, <1>12, <1>13, <1>14 DEF Flight!Begin

\* Steps of a caller that takes and waits for nothing are not seen.
LEMMA AsideStutters ==
  ASSUME NEW c \in Callers, call[c].pc \notin Captors \cup {"await"},
         call'[c].pc \notin Captors \cup {"await"},
         \A d \in Callers : d # c => call'[d] = call[d], work' = work
  PROVE  UNCHANGED Flight!flightVars
<1>1. \A j \in Ids : (CancelPending(j)' <=> CancelPending(j)) /\ (Dropped(j)' <=> Dropped(j))
  BY Aside
<1>2. \A j \in Ids : Life(j)' = Life(j) BY <1>1, SameLife
<1>3. \A d \in Callers : Waits(d)' = Waits(d) BY DEF Waits, At
<1> QED BY <1>2, <1>3, Stutters

\* Nor are the steps of a finisher, but for the last.
LEMMA PhaseStutters ==
  ASSUME IInv, NEW i \in Ids, NEW p, Phase(i, p), p \notin {"unborn", "forked", "working"},
         work[i].phase \notin {"unborn", "forked", "working"}, call' = call
  PROVE  UNCHANGED Flight!flightVars
<1> DEFINE w == [work[i] EXCEPT !.phase = p]
<1>1. work' = [work EXCEPT ![i] = w] BY DEF Phase, IInv, TypeOK
<1>2. /\ w.phase = p /\ w.kind = work[i].kind /\ w.runner = work[i].runner
      /\ w.intr = work[i].intr /\ w.done = work[i].done
  BY DEF IInv, TypeOK, Work
<1> HIDE DEF w
<1>3. work'[i] = w /\ \A j \in Ids : j # i => work'[j] = work[j]
  BY <1>1 DEF IInv, TypeOK
<1>4. /\ \A j \in Ids : j # i => Life(j)' = Life(j)
      /\ \A c \in Callers : Waits(c)' = Waits(c)
  BY <1>3, OneHandle
<1>5. Life(i)' = Life(i) BY <1>2, <1>3 DEF Life, Alive
<1>6. \A j \in Ids : work'[j].runner = work[j].runner /\ work'[j].done = work[j].done
  BY <1>2, <1>3
<1> QED BY <1>4, <1>5, <1>6, Stutters

\* A fiber that begins its work has been at work for those who wait.
LEMMA BeginStutters ==
  ASSUME IInv, NEW i \in Ids, BeginWork(i)
  PROVE  UNCHANGED Flight!flightVars
<1> DEFINE w == [work[i] EXCEPT !.phase = "working"]
<1>1. work[i].phase = "forked" /\ work' = [work EXCEPT ![i] = w] /\ call' = call
  BY DEF BeginWork, Phase, IInv, TypeOK
<1>2. /\ w.phase = "working" /\ w.kind = work[i].kind /\ w.runner = work[i].runner
      /\ w.intr = work[i].intr /\ w.done = work[i].done
  BY DEF IInv, TypeOK, Work
<1> HIDE DEF w
<1>3. work'[i] = w /\ \A j \in Ids : j # i => work'[j] = work[j]
  BY <1>1 DEF IInv, TypeOK
<1>4. /\ \A j \in Ids : (CancelPending(j)' <=> CancelPending(j)) /\ (Dropped(j)' <=> Dropped(j))
      /\ \A j \in Ids : j # i => Life(j)' = Life(j)
      /\ \A c \in Callers : Waits(c)' = Waits(c)
  BY <1>1, <1>3, OneHandle
<1>5. Life(i)' = Life(i) BY <1>1, <1>2, <1>3, <1>4 DEF Life, Doomed, Alive
<1>6. \A j \in Ids : work'[j].runner = work[j].runner /\ work'[j].done = work[j].done
  BY <1>2, <1>3
<1> QED BY <1>4, <1>5, <1>6, Stutters

\* An interrupt of what a cancel has captured: it was being stopped, and still is, or
\* had not begun and has stopped.
LEMMA InterruptIsEnd ==
  ASSUME IInv, NEW c \in Callers, NEW k \in Ids, NEW pc \in {"awaitFiber", "awaitStop"},
         \/ call[c].pc = "interrupt" /\ call[c].run = k
         \/ call[c].pc = "grace" /\ call[c].shell = k,
         Interrupt(k), Go(c, pc)
  PROVE  Flight!End(k) \/ UNCHANGED Flight!flightVars
<1> DEFINE w == Interrupted(work[k])
<1>1. work' = [work EXCEPT ![k] = w] BY DEF Interrupt, IInv, TypeOK
<1>2. /\ w.kind = work[k].kind /\ w.runner = work[k].runner /\ w.done = work[k].done
      /\ work[k].phase = "working" => w.phase = "working" /\ w.intr = TRUE
      /\ work[k].phase = "forked" => w.phase = "discarded" /\ w.intr = TRUE
      /\ work[k].phase \notin {"working", "forked"} =>
           w.phase = work[k].phase /\ w.intr = work[k].intr
  BY DEF IInv, TypeOK, Work, Interrupted
<1> HIDE DEF w
<1>3. work'[k] = w /\ \A j \in Ids : j # k => work'[j] = work[j]
  BY <1>1 DEF IInv, TypeOK
<1>4. call'[c].pc = pc /\ \A d \in Callers : d # c => call'[d] = call[d]
  BY GoFields DEF IInv, CancelPcs
<1>5. CancelPending(k) /\ work[k].kind # "none" BY DEF CancelPending, At, IInv, CallsBacked
<1>6. \A j \in Ids : j # k => (CancelPending(j)' <=> CancelPending(j))
  BY <1>4 DEF CancelPending, At
<1>7. \A j \in Ids : Dropped(j)' <=> Dropped(j)
  BY <1>4 DEF Dropped, At
<1>8. \A j \in Ids : j # k => Life(j)' = Life(j)
  BY <1>3, <1>6, <1>7, SameLife
<1>9. \A j \in Ids : work'[j].runner = work[j].runner /\ work'[j].done = work[j].done
  BY <1>2, <1>3
<1>10. \A d \in Callers : Waits(d)' = Waits(d) BY <1>4 DEF Waits, At
<1>11. CASE work[k].phase = "forked"
  <2>1. Life(k) = "stopping" BY <1>5, <1>11 DEF Life, Doomed, Alive
  <2>2. Life(k)' = "stopped" BY <1>2, <1>3, <1>5, <1>11 DEF Life, Alive
  <2>3. UNCHANGED <<[j \in Ids |-> work[j].runner], [j \in Ids |-> work[j].done],
                    [d \in Callers |-> IF At(d, "await") THEN call[d].run ELSE NoId]>>
    BY <1>9, <1>10 DEF Waits
  <2> QED BY <1>8, <2>1, <2>2, <2>3 DEF Flight!End, Flight!Become
<1>12. CASE work[k].phase # "forked"
  <2>1. CASE work[k].phase = "working"
    <3>1. Life(k)' = Life(k) BY <1>2, <1>3, <1>5, <2>1 DEF Life, Doomed, Alive
    <3> QED BY <1>8, <1>9, <1>10, <3>1, Stutters
  <2>2. CASE work[k].phase # "working"
    <3>1. Life(k)' = Life(k) BY <1>2, <1>3, <1>7, <1>12, <2>2, SameLife DEF Alive
    <3> QED BY <1>8, <1>9, <1>10, <3>1, Stutters
  <2> QED BY <2>1, <2>2
<1> QED BY <1>11, <1>12

\* The queued run that a cancel took is told so, once.
LEMMA FailIsDrop ==
  ASSUME IInv, TakenGone, NEW c \in Callers, CancelFailPending(c)
  PROVE  (\E i \in Ids : Flight!Drop(i)) \/ UNCHANGED Flight!flightVars
<1>1. PICK k \in Ids : /\ call[c].run = k /\ call[c].pc = "failPending"
                       /\ work[k].kind = "run" /\ work[k].phase = "unborn"
  BY DEF CancelFailPending, At, IInv, CallsBacked
<1> DEFINE w == [work[k] EXCEPT !.done = "cancelled"]
<1>2. work' = [work EXCEPT ![k] = w] /\ Go(c, "abort")
  BY <1>1 DEF CancelFailPending
<1>3. /\ w.phase = work[k].phase /\ w.kind = work[k].kind /\ w.runner = work[k].runner
      /\ w.done = "cancelled" /\ w.intr = work[k].intr
  BY DEF IInv, TypeOK, Work
<1> HIDE DEF w
<1>4. work'[k] = w /\ \A j \in Ids : j # k => work'[j] = work[j]
  BY <1>2 DEF IInv, TypeOK
<1>5. /\ call'[c].pc = "abort" /\ call'[c].shell = call[c].shell
      /\ \A d \in Callers : d # c => call'[d] = call[d]
  BY <1>2, GoFields DEF IInv, CancelPcs
<1>6. \A j \in Ids : CancelPending(j)' <=> CancelPending(j)
  BY <1>1, <1>5 DEF CancelPending, At
<1>7. \A j \in Ids : j # k => (Dropped(j)' <=> Dropped(j))
  BY <1>1, <1>5 DEF Dropped, At
<1>8. \A j \in Ids : j # k => Life(j)' = Life(j)
  BY <1>4, <1>6, <1>7, SameLife
<1>9. \A d \in Callers : Waits(d)' = Waits(d) BY <1>1, <1>5 DEF Waits, At
<1>10. ~ work[k].intr BY <1>1 DEF TakenGone
<1>11. Life(k)' = "over" BY <1>1, <1>3, <1>4, <1>10 DEF Life, Alive
<1>12. CASE work[k].done = "open"
  <2>1. Dropped(k) BY <1>1 DEF Dropped, At
  <2>2. Life(k) = "dropped" BY <1>1, <1>12, <2>1 DEF Life, Alive
  <2>3. UNCHANGED <<[j \in Ids |-> work[j].runner],
                    [d \in Callers |-> IF At(d, "await") THEN call[d].run ELSE NoId]>>
    BY <1>3, <1>4, <1>9 DEF Waits
  <2>4. [j \in Ids |-> work[j].done]' = [[j \in Ids |-> work[j].done] EXCEPT ![k] = "cancelled"]
    BY <1>3, <1>4
  <2>5. Flight!Become(k, "over") BY <1>8, <1>11 DEF Flight!Become
  <2>6. [j \in Ids |-> Life(j)][k] = "dropped" BY <2>2
  <2> QED BY <2>3, <2>4, <2>5, <2>6 DEF Flight!Drop
<1>13. CASE work[k].done = "cancelled"
  <2>1. Life(k) = "over" BY <1>1, <1>10, <1>13 DEF Life, Alive
  <2>2. \A j \in Ids : work'[j].runner = work[j].runner /\ work'[j].done = work[j].done
    BY <1>3, <1>4, <1>13
  <2> QED BY <1>8, <1>9, <1>11, <2>1, <2>2, Stutters
<1> QED BY <1>1, <1>12, <1>13 DEF IInv, HandlesOK

\* cancel's other effects, in order, show its callers nothing but the end of work that had not begun.
LEMMA StopIsEnd ==
  ASSUME IInv, NEW c \in Callers, Stop(c), ~ CancelFailPending(c)
  PROVE  (\E k \in Ids : Flight!End(k)) \/ UNCHANGED Flight!flightVars
<1>1. ASSUME NEW pc \in CancelPcs \ Captors, Go(c, pc), call[c].pc \notin Captors \cup {"await"},
             work' = work
      PROVE  UNCHANGED Flight!flightVars
  <2>1. call'[c].pc = pc /\ \A d \in Callers : d # c => call'[d] = call[d]
    BY <1>1, GoFields DEF IInv, CancelPcs
  <2> QED BY <1>1, <2>1, AsideStutters DEF CancelPcs
<1>2. ASSUME Return(c), call[c].pc \notin Captors \cup {"await"}, work' = work
      PROVE  UNCHANGED Flight!flightVars
  <2>1. call'[c].pc = "out" /\ \A d \in Callers : d # c => call'[d] = call[d]
    BY <1>2, NoCallType DEF Return, IInv, TypeOK
  <2> QED BY <1>2, <2>1, AsideStutters DEF Captors
<1> USE DEF CancelPcs, Captors, At
<1>3. CASE CancelInterrupt(c)
  <2>1. call[c].pc = "interrupt" /\ call[c].run \in Ids /\ Interrupt(call[c].run)
        /\ Go(c, "awaitFiber")
    BY <1>3 DEF CancelInterrupt, IInv, CallsBacked
  <2> QED BY <2>1, InterruptIsEnd
<1>4. CASE StopShellTimeout(c)
  <2>1. call[c].pc = "grace" /\ call[c].shell \in Ids /\ Interrupt(call[c].shell)
        /\ Go(c, "awaitStop")
    BY <1>4 DEF StopShellTimeout, IInv, CallsBacked
  <2> QED BY <2>1, InterruptIsEnd
<1>5. CASE CancelAwaitFiber(c) BY <1>1, <1>5 DEF CancelAwaitFiber
<1>6. CASE CancelAwaitDone(c) BY <1>1, <1>6 DEF CancelAwaitDone
<1>7. CASE CancelIdleBegin(c) BY <1>1, <1>7 DEF CancelIdleBegin
<1>8. CASE CancelIdleEnd(c) BY <1>2, <1>8 DEF CancelIdleEnd
<1>9. CASE IdleIfCurrent(c) BY <1>1, <1>2, <1>9 DEF IdleIfCurrent
<1>10. ASSUME NEW pc \in CancelPcs, Go(c, pc), work' = work,
              call[c].pc \in {"abort", "grace", "awaitStop"},
              \/ pc = "grace" /\ call[c].pc = "abort"
              \/ /\ pc = "idleCheck" /\ call[c].pc # "abort"
                 /\ HasExited(call[c].shell)
       PROVE  UNCHANGED Flight!flightVars
  <2>1. /\ call'[c].pc = pc /\ call'[c].shell = call[c].shell
        /\ \A d \in Callers : d # c => call'[d] = call[d]
    BY <1>10, GoFields DEF IInv
  <2>2. \A j \in Ids : Alive(j) => (CancelPending(j)' <=> CancelPending(j))
    BY <1>10, <2>1 DEF CancelPending, Alive, HasExited
  <2>3. \A j \in Ids : Dropped(j)' <=> Dropped(j) BY <1>10, <2>1 DEF Dropped
  <2>4. \A j \in Ids : Life(j)' = Life(j) BY <1>10, <2>2, <2>3, SameLife
  <2>5. \A d \in Callers : Waits(d)' = Waits(d) BY <1>10, <2>1 DEF Waits
  <2> QED BY <1>10, <2>4, <2>5, Stutters
<1>11. CASE StopShellAbort(c) BY <1>10, <1>11 DEF StopShellAbort
<1>12. CASE StopShellDone(c) BY <1>10, <1>12 DEF StopShellDone
<1> QED BY <1>3, <1>4, <1>5, <1>6, <1>7, <1>8, <1>9, <1>11, <1>12 DEF Stop

\* Each step of the runners is one of SingleFlight's, or none.
LEMMA FlightStep ==
  ASSUME IInv, TakenGone, RunnerStep
  PROVE  Flight!FlightNext \/ UNCHANGED Flight!flightVars
<1>1. ASSUME NEW c \in Callers, NEW r \in Runners, Enter(c, r)
      PROVE  Flight!FlightNext \/ UNCHANGED Flight!flightVars
  <2>1. CASE StartRun(c, r) BY <2>1, StartIsStart DEF Flight!FlightNext
  <2>2. CASE QueueRun(c, r) BY <2>2, QueueIsQueue DEF Flight!FlightNext
  <2>3. CASE ForkShell(c, r) BY <2>3, ForkIsFork DEF Flight!FlightNext
  <2>4. CASE JoinRun(c, r) BY <2>4, JoinIsJoin DEF Flight!FlightNext
  <2>5. CASE CancelBegin(c, r) BY <2>5, CancelIsTake DEF Flight!FlightNext
  <2>6. CASE RefuseShell(c, r) \/ CancelNothing(c, r)
    <3>1. call[c].pc = "ready" /\ Return(c) /\ work' = work
      BY <2>6 DEF RefuseShell, CancelNothing, Entering, At
    <3>2. call'[c].pc = "out" /\ \A d \in Callers : d # c => call'[d] = call[d]
      BY <3>1, NoCallType DEF Return, IInv, TypeOK
    <3> QED BY <3>1, <3>2, AsideStutters DEF Captors
  <2>7. CASE ShellOnBusy(c, r)
    <3>1. call[c].pc = "ready" /\ Go(c, "onBusy") /\ work' = work
      BY <2>7 DEF ShellOnBusy, Entering, At
    <3>2. call'[c].pc = "onBusy" /\ \A d \in Callers : d # c => call'[d] = call[d]
      BY <3>1, GoFields DEF IInv
    <3> QED BY <3>1, <3>2, AsideStutters DEF Captors
  <2> QED BY <1>1, <2>1, <2>2, <2>3, <2>4, <2>5, <2>6, <2>7 DEF Enter
<1>2. ASSUME NEW c \in Callers, Await(c)
      PROVE  Flight!FlightNext \/ UNCHANGED Flight!flightVars
  <2>1. CASE ReturnRun(c) BY <2>1, ReturnIsAnswer DEF Flight!FlightNext
  <2>2. CASE ReturnShell(c)
    <3>1. call[c].pc = "awaitShell" /\ Return(c) /\ work' = work
      BY <2>2 DEF ReturnShell, At
    <3>2. call'[c].pc = "out" /\ \A d \in Callers : d # c => call'[d] = call[d]
      BY <3>1, NoCallType DEF Return, IInv, TypeOK
    <3> QED BY <3>1, <3>2, AsideStutters DEF Captors
  <2> QED BY <1>2, <2>1, <2>2 DEF Await
<1>3. ASSUME NEW c \in Callers, Stop(c)
      PROVE  Flight!FlightNext \/ UNCHANGED Flight!flightVars
  BY <1>3, FailIsDrop, StopIsEnd DEF Flight!FlightNext
<1>4. ASSUME NEW c \in Callers, NEW w \in Call, call' = [call EXCEPT ![c] = w], work' = work,
             call[c].pc = "out", w.pc \in {"ready", "notifying"}
      PROVE  UNCHANGED Flight!flightVars
  <2>1. call'[c] = w /\ \A d \in Callers : d # c => call'[d] = call[d]
    BY <1>4 DEF IInv, TypeOK
  <2> QED BY <1>4, <2>1, AsideStutters DEF Captors
<1>5. ASSUME NEW c \in Callers, NEW r \in Runners, NEW op \in Ops, Obtain(c, r, op)
      PROVE  UNCHANGED Flight!flightVars
  <2> DEFINE w == [NoCall EXCEPT !.pc = "ready", !.op = op, !.runner = r]
  <2>1. w \in Call /\ w.pc = "ready" BY DEF NoCall, Call, NoId
  <2>2. call' = [call EXCEPT ![c] = w] /\ call[c].pc = "out" /\ work' = work
    BY <1>5 DEF Obtain, At
  <2> HIDE DEF w
  <2> QED BY <1>4, <2>1, <2>2
<1>6. ASSUME NEW c \in Callers, CancelIdle(c) PROVE UNCHANGED Flight!flightVars
  <2> DEFINE w == [NoCall EXCEPT !.pc = "notifying", !.op = "cancel"]
  <2>1. w \in Call /\ w.pc = "notifying" BY DEF NoCall, Call, NoId, CancelPcs, Ops
  <2>2. call' = [call EXCEPT ![c] = w] /\ call[c].pc = "out" /\ work' = work
    BY <1>6 DEF CancelIdle, At
  <2> HIDE DEF w
  <2> QED BY <1>4, <2>1, <2>2
<1>7. ASSUME NEW i \in Ids, NEW e \in Exits, WorkExit(i, e) PROVE Flight!FlightNext
  BY <1>7, ExitIsEnd DEF Flight!FlightNext
<1>8. ASSUME NEW i \in Ids, Finish(i)
      PROVE  Flight!FlightNext \/ UNCHANGED Flight!flightVars
  <2>1. CASE FinishRun(i) BY <2>1, PhaseStutters DEF FinishRun
  <2>2. CASE /\ FinishShell(i) /\ state[work[i].runner].tag = "ShellThenRun"
             /\ state[work[i].runner].shell = i
    BY <2>2, FinishIsBegin DEF Flight!FlightNext
  <2>3. CASE FinishShell(i) /\ ~ (/\ state[work[i].runner].tag = "ShellThenRun"
                                  /\ state[work[i].runner].shell = i)
    BY <2>3, PhaseStutters DEF FinishShell
  <2>4. CASE IdleBegin(i) BY <2>4, PhaseStutters DEF IdleBegin
  <2>5. CASE IdleEnd(i) BY <2>5, PhaseStutters DEF IdleEnd
  <2>6. CASE Complete(i) BY <2>6, CompleteIsDecide DEF Flight!FlightNext
  <2> QED BY <1>8, <2>1, <2>2, <2>3, <2>4, <2>5, <2>6 DEF Finish
<1>10. ASSUME NEW i \in Ids, BeginWork(i) PROVE UNCHANGED Flight!flightVars
  BY <1>10, BeginStutters
<1>9. CASE UNCHANGED runnerVars
  <2>1. \A j \in Ids : /\ work'[j] = work[j]
                       /\ CancelPending(j)' <=> CancelPending(j)
                       /\ Dropped(j)' <=> Dropped(j)
    BY <1>9 DEF runnerVars, CancelPending, Dropped, At
  <2>2. \A j \in Ids : Life(j)' = Life(j) BY <2>1, SameLife
  <2>3. \A d \in Callers : Waits(d)' = Waits(d) BY <1>9 DEF runnerVars, Waits, At
  <2> QED BY <2>1, <2>2, <2>3, Stutters
<1> QED BY <1>1, <1>2, <1>3, <1>5, <1>6, <1>7, <1>8, <1>9, <1>10 DEF RunnerStep, Next

LEMMA InitIsFlightInit == Init => Flight!FlightInit
<1> SUFFICES ASSUME Init PROVE Flight!FlightInit OBVIOUS
<1>1. \A j \in Ids : work[j].runner = NoRunner /\ work[j].done = "none" /\ Life(j) = "none"
  BY DEF Init, NoWork, Life
<1>2. \A d \in Callers : ~ At(d, "await") BY DEF Init, NoCall, At
<1> QED BY <1>1, <1>2 DEF Flight!FlightInit

LEMMA InitTakenGone == Init => TakenGone
  BY DEF Init, TakenGone, NoWork, NoCall

-----------------------------------------------------------------------------
(* What the invariant says *)

LEMMA SafeOneLive == IInv => OneLiveWork
<1> SUFFICES ASSUME IInv, NEW i \in Ids, NEW j \in Ids, Alive(i), Alive(j),
                    work[i].runner = work[j].runner, ~ Doomed(i), ~ Doomed(j)
             PROVE  i = j
  BY DEF OneLiveWork
<1>1. Current(i) /\ Current(j) BY DEF IInv, LiveWorkIsCurrent
<1> QED BY <1>1 DEF Current

LEMMA SafeWaiters == IInv => OnlyUnbegunStrand
<1> SUFFICES ASSUME IInv, NEW i \in Ids, work[i].done = "open",
                    work[i].phase \notin LivePhases \cup {"discarded"},
                    ~ \E c \in Callers : At(c, "failPending") /\ call[c].run = i
             PROVE  \E s \in Ids : QueuedBehind(i, s)
  BY DEF OnlyUnbegunStrand, LivePhases
<1>1. work[i].kind = "run"
  BY MaxIdsAssumption DEF IInv, HandlesMade, HandlesOK, NoWork, TypeOK, Ids
<1>2. work[i].runner \in Runners BY <1>1, MadeHandle
<1>3. work[i].phase = "unborn"
  BY <1>1 DEF IInv, HandlesOK, TypeOK, Work, Phases, LivePhases, Settled
<1>4. state[work[i].runner].tag = "ShellThenRun" /\ state[work[i].runner].run = i
  BY <1>1, <1>3 DEF IInv, HandlesOK
<1> DEFINE s == state[work[i].runner].shell
<1>5. s \in Ids /\ work[s].phase \in {"forked", "working", "exited"}
  BY <1>2, <1>4 DEF IInv, StateBacked, IsLive
<1>6. state[work[i].runner] = ShellThenRunState(s, i)
  BY <1>2, <1>4 DEF IInv, TypeOK, State, ShellThenRunState
<1> QED BY <1>5, <1>6 DEF QueuedBehind

LEMMA SafeSettle == IInv => SettleOnce
<1> SUFFICES ASSUME IInv, NEW i \in Ids, work[i].phase = "settle" PROVE work[i].done = "open"
  BY DEF SettleOnce
<1>1. work[i].kind = "run" BY PastIsNotCurrent DEF IInv, HandlesOK
<1> QED BY <1>1 DEF IInv, HandlesOK, LivePhases

LEMMA SafeCancelled == RInv => CancelledIsStopped
<1> USE DEF RInv, Stopped
<1>1. ASSUME IInv, NEW i \in Ids, work[i].done = "cancelled"
      PROVE  work[i].phase \in {"unborn", "ended", "discarded"}
  <2>1. work[i].kind = "run"
    BY <1>1, MaxIdsAssumption DEF IInv, HandlesMade, HandlesOK, NoWork, TypeOK, Ids
  <2> QED BY <1>1, <2>1 DEF IInv, HandlesOK, LivePhases, TypeOK, Work, Phases
<1>2. ASSUME Captures, NEW c \in Callers, call[c].pc \in {"idleCheck", "notify", "notifying"},
             NEW i \in {call[c].run, call[c].shell} \ {NoId}
      PROVE  Stopped(i)
  BY <1>2 DEF Captures, CaptureOK, EndedWork
<1> QED BY <1>1, <1>2 DEF CancelledIsStopped

\* When nothing is under way a runner's state, which would hold work that lives, is idle.
LEMMA SafeQuiet == SInv => QuietIsIdle
<1> SUFFICES ASSUME SInv, Quiet
             PROVE  status = "idle" /\ \A r \in Runners : state[r].tag = "Idle"
  BY DEF QuietIsIdle
<1>1. \A r \in Runners : state[r].tag = "Idle"
  BY DEF SInv, RInv, IInv, StateBacked, IsLive, Quiet, TypeOK, State, Tags
<1>2. ~ Underway
  BY <1>1 DEF Underway, Quiet, At, CancelPcs
<1> QED BY <1>1, <1>2 DEF SInv, BusyBacked, SessionTypeOK

-----------------------------------------------------------------------------
(* The runner by itself *)

THEOREM Invariance == Spec => []RInv
<1>1. RInv /\ [Next]_runnerVars => RInv' BY StepRInv DEF RunnerStep
<1> QED BY <1>1, InitRInv, PTL DEF Spec

\* Every state is well typed.
THEOREM TypeCorrect == Spec => []TypeOK
<1>1. RInv => TypeOK BY DEF RInv, IInv
<1> QED BY <1>1, Invariance, PTL

\* The work that runs, and that no cancel has taken, is the work in the runner's state:
\* however finishers, restarts and cancels interleave, none of them clears the state of
\* later work.
THEOREM LiveIsCurrent == Spec => []LiveWorkIsCurrent
<1>1. RInv => LiveWorkIsCurrent BY DEF RInv, IInv
<1> QED BY <1>1, Invariance, PTL

\* Hence a runner executes at most one piece of work that no cancel has taken.
THEOREM AtMostOneLive == Spec => []OneLiveWork
<1>1. RInv => OneLiveWork BY SafeOneLive DEF RInv
<1> QED BY <1>1, Invariance, PTL

\* Whoever waits for a run has someone who will answer: the run's fiber, the shell in
\* front of it, or a cancel.  The one exception is a run whose fiber a cancel interrupted
\* before it had begun, which is stranded for good (86, 178); there is no other.
THEOREM OnlyUnbegunAreStranded == Spec => []OnlyUnbegunStrand
<1>1. RInv => OnlyUnbegunStrand BY SafeWaiters DEF RInv
<1> QED BY <1>1, Invariance, PTL

\* A run's finisher is the only one that decides how the run ended.
THEOREM DecidedOnce == Spec => []SettleOnce
<1>1. RInv => SettleOnce BY SafeSettle DEF RInv
<1> QED BY <1>1, Invariance, PTL

\* A caller is told Cancelled only when the run is over or can never start, and a cancel
\* reports the session as idle only when all it took is over.
THEOREM CancelledMeansStopped == Spec => []CancelledIsStopped
<1> QED BY SafeCancelled, Invariance, PTL

\* To its callers a runner is a single flight: one thing at a time, shared by those who
\* ask for it while it lasts, decided once and when it is over, and decided as cancelled
\* only if a cancel took it.
THEOREM Refinement == Spec => ImplementsSingleFlight
<1> DEFINE FInv == RInv /\ TakenGone
<1>1. FInv /\ [Next]_runnerVars => FInv'
  BY StepRInv, TakenStays DEF RInv, RunnerStep
<1>2. Init => FInv BY InitRInv, InitTakenGone
<1>3. FInv /\ [Next]_runnerVars => [Flight!FlightNext]_(Flight!flightVars)
  BY FlightStep DEF RInv, RunnerStep
<1> HIDE DEF FInv
<1> QED BY <1>1, <1>2, <1>3, InitIsFlightInit, PTL
     DEF Spec, ImplementsSingleFlight, Flight!FlightSpec

-----------------------------------------------------------------------------
(* The session over its runners *)

THEOREM SessionInvariance == SessionSpec => []SInv
  BY InitSInv, NextSInv, PTL DEF SessionSpec

\* The runners, the map's entry and the status are well typed: the entry is a runner
\* that was made.
THEOREM SessionTypes == SessionSpec => []SessionTypeOK
<1>1. SInv => SessionTypeOK BY DEF SInv
<1> QED BY <1>1, SessionInvariance, PTL

\* What the runner promises, with the exception of OnlyUnbegunAreStranded, it keeps when
\* it is looked up in the map, used after its entry was deleted, and joined by runners
\* made after it.
THEOREM SessionKeepsRunners ==
  SessionSpec => [](LiveWorkIsCurrent /\ OneLiveWork /\ OnlyUnbegunStrand /\ SettleOnce
                    /\ CancelledIsStopped)
<1>1. SInv => LiveWorkIsCurrent /\ OneLiveWork /\ OnlyUnbegunStrand /\ SettleOnce
              /\ CancelledIsStopped
  BY SafeOneLive, SafeWaiters, SafeSettle, SafeCancelled DEF SInv, RInv, IInv
<1> QED BY <1>1, SessionInvariance, PTL

\* A session in which nothing runs and nobody is calling shows as idle, whatever order
\* turns, finishers and cancels set the status in, and none of its runners is left busy.
THEOREM QuietSessionIsIdle == SessionSpec => []QuietIsIdle
  BY SafeQuiet, SessionInvariance, PTL

\* So is each runner of a session, when the map forgets and remakes them.
THEOREM SessionRefinement == SessionSpec => ImplementsSingleFlight
<1> DEFINE FInv == SInv /\ TakenGone
<1>1. FInv /\ [SessionNext]_vars => FInv'
  BY NextSInv, SessionStep, TakenStays DEF SInv, RInv
<1>2. SessionInit => FInv BY InitSInv, InitTakenGone DEF SessionInit
<1>3. FInv /\ [SessionNext]_vars => [Flight!FlightNext]_(Flight!flightVars)
  BY SessionStep, FlightStep DEF SInv, RInv
<1>4. SessionInit => Flight!FlightInit BY InitIsFlightInit DEF SessionInit
<1> HIDE DEF FInv
<1> QED BY <1>1, <1>2, <1>3, <1>4, PTL
     DEF SessionSpec, ImplementsSingleFlight, Flight!FlightSpec

=============================================================================
