------------------------------- MODULE Runner -------------------------------
(***************************************************************************)
(* Runner<A, E> of effect/runner.ts: the object that lets one session run  *)
(* one thing at a time.  A runner owns a SynchronizedRef holding           *)
(*   Idle | Running(run) | Shell(shell) | ShellThenRun(shell, run)         *)
(* and every operation is one transition of that ref under its lock,       *)
(* followed, outside the lock, by the effect the transition returned       *)
(* (SynchronizedRef.modify(...).pipe(Effect.flatten)).                     *)
(*                                                                         *)
(* Two kinds of actor take steps: the callers of ensureRunning, startShell *)
(* and cancel, and the fibers that execute the work.  A caller may be      *)
(* suspended between any two effects, so each effect is a step here.       *)
(*                                                                         *)
(* Callers reach a runner object through Obtain, which SessionState        *)
(* replaces by the lookup in its map of runners.                           *)
(***************************************************************************)
EXTENDS Naturals, FiniteSets

CONSTANTS
  Callers,    \* concurrent callers of the runner's operations
  Runners,    \* runner objects
  Uses,       \* the operations each caller may issue
  MaxIds,     \* bound: run and shell handles ever made
  NoRunner    \* a caller that holds no runner object

ASSUME MaxIdsAssumption == MaxIds \in Nat
ASSUME NoRunnerAssumption == NoRunner \notin Runners

VARIABLES
  state,      \* the SynchronizedRef of each runner
  ids,        \* handles made so far (the counter `ids`, shared by all runners here)
  work,       \* the handle of each id: its fiber, its Deferred and its flags
  call        \* where each caller is

runnerVars == <<state, ids, work, call>>

(***************************************************************************)
(* Handles, states and calls.                                              *)
(***************************************************************************)
Ids  == 1..MaxIds
NoId == 0

\* A fiber of a handle.  unborn: not made (a PendingHandle has no fiber).  forked: made and
\* queued with the scheduler; it has evaluated nothing, so its finisher is not installed.
\* discarded: interrupted when it was only forked; it has exited and had no finisher.
\* exited: the work ended and its finisher (onExit / ensuring) waits for the lock.
\* notify, notifying: before and inside the onIdle callback.  settle: about to
\* complete `done`.  ended: the fiber's exit is observable by Fiber.await.
Phases  == {"unborn", "forked", "working", "exited", "notify", "notifying", "settle", "ended",
            "discarded"}
Exits   == {"none", "success", "failure", "interrupt"}
Settled == {"success", "failure", "cancelled"}

Work == [kind: {"none", "run", "shell"}, runner: Runners \cup {NoRunner},
         phase: Phases, exit: Exits, intr: BOOLEAN,
         done: {"none", "open"} \cup Settled]
NoWork == [kind |-> "none", runner |-> NoRunner, phase |-> "unborn",
           exit |-> "none", intr |-> FALSE, done |-> "none"]

Tags  == {"Idle", "Running", "Shell", "ShellThenRun"}
State == [tag: Tags, run: Ids \cup {NoId}, shell: Ids \cup {NoId}]

IdleState              == [tag |-> "Idle", run |-> NoId, shell |-> NoId]
RunningState(i)        == [tag |-> "Running", run |-> i, shell |-> NoId]
ShellState(s)          == [tag |-> "Shell", run |-> NoId, shell |-> s]
ShellThenRunState(s, i) == [tag |-> "ShellThenRun", run |-> i, shell |-> s]

Ops == {"ensureRunning", "startShell", "cancel"}
ASSUME UsesAssumption == Uses \in [Callers -> SUBSET Ops]

\* out: between calls.  ready: holds a runner object and is about to enter its op.
\* await, awaitShell: ensureRunning and startShell waiting for the work's outcome.
\* onBusy: startShell inside the lock, running the onBusy callback.
\* The others are the effects cancel runs after its transition, in order.
CancelPcs == {"interrupt", "awaitFiber", "awaitDone", "failPending", "abort", "grace",
              "awaitStop", "idleCheck", "notify", "notifying"}
Call == [pc: {"out", "ready", "await", "awaitShell", "onBusy"} \cup CancelPcs,
         op: Ops \cup {"none"}, runner: Runners \cup {NoRunner},
         run: Ids \cup {NoId}, shell: Ids \cup {NoId}]
NoCall == [pc |-> "out", op |-> "none", runner |-> NoRunner, run |-> NoId, shell |-> NoId]

TypeOK ==
  /\ state \in [Runners -> State]
  /\ ids \in 0..MaxIds
  /\ work \in [Ids -> Work]
  /\ call \in [Callers -> Call]

Init ==
  /\ state = [r \in Runners |-> IdleState]
  /\ ids = 0
  /\ work = [i \in Ids |-> NoWork]
  /\ call = [c \in Callers |-> NoCall]

\* The ref's lock is held across steps only by a startShell running onBusy.
Unlocked(r) == ~ \E c \in Callers : call[c].pc = "onBusy" /\ call[c].runner = r

At(c, pc)      == call[c].pc = pc
Go(c, pc)      == call' = [call EXCEPT ![c].pc = pc]
Return(c)      == call' = [call EXCEPT ![c] = NoCall]
Entering(c, r, op) == At(c, "ready") /\ call[c].op = op /\ call[c].runner = r

\* A fresh handle; the named bound MaxIds stands for the counter's range.
NewId(i)       == i = ids + 1 /\ i \in Ids /\ ids' = i
ForkedRun(r)   == [NoWork EXCEPT !.kind = "run", !.runner = r, !.phase = "forked", !.done = "open"]
PendingRun(r)  == [NoWork EXCEPT !.kind = "run", !.runner = r, !.done = "open"]
ForkedShell(r) == [NoWork EXCEPT !.kind = "shell", !.runner = r, !.phase = "forked"]

\* A fiber whose exit Fiber.await returns.
HasExited(i)   == work[i].phase \in {"ended", "discarded"}

Obtain(c, r, op) ==
  /\ At(c, "out") /\ op \in Uses[c]
  /\ call' = [call EXCEPT ![c] = [NoCall EXCEPT !.pc = "ready", !.op = op, !.runner = r]]
  /\ UNCHANGED <<state, ids, work>>

(***************************************************************************)
(* ensureRunning: join the run there is, queue one behind a shell, or      *)
(* start one; then await its Deferred.                                     *)
(***************************************************************************)
AwaitRun(c, i) == call' = [call EXCEPT ![c] = [@ EXCEPT !.pc = "await", !.run = i]]

JoinRun(c, r) ==
  /\ Entering(c, r, "ensureRunning") /\ Unlocked(r)
  /\ state[r].tag \in {"Running", "ShellThenRun"}
  /\ AwaitRun(c, state[r].run)
  /\ UNCHANGED <<state, ids, work>>

QueueRun(c, r) ==
  /\ Entering(c, r, "ensureRunning") /\ Unlocked(r)
  /\ state[r].tag = "Shell"
  /\ \E i \in Ids :
       /\ NewId(i)
       /\ state' = [state EXCEPT ![r] = ShellThenRunState(state[r].shell, i)]
       /\ work' = [work EXCEPT ![i] = PendingRun(r)]
       /\ AwaitRun(c, i)

StartRun(c, r) ==
  /\ Entering(c, r, "ensureRunning") /\ Unlocked(r)
  /\ state[r].tag = "Idle"
  /\ \E i \in Ids :
       /\ NewId(i)
       /\ state' = [state EXCEPT ![r] = RunningState(i)]
       /\ work' = [work EXCEPT ![i] = ForkedRun(r)]
       /\ AwaitRun(c, i)

\* Deferred.await returns; Cancelled is turned into onInterrupt's value.
ReturnRun(c) ==
  /\ At(c, "await")
  /\ work[call[c].run].done \in Settled
  /\ Return(c)
  /\ UNCHANGED <<state, ids, work>>

(***************************************************************************)
(* startShell: refuse unless Idle; otherwise onBusy, then fork the shell,  *)
(* both under the lock; then await its fiber.                              *)
(***************************************************************************)
RefuseShell(c, r) ==
  /\ Entering(c, r, "startShell") /\ Unlocked(r)
  /\ state[r].tag # "Idle"
  /\ Return(c)
  /\ UNCHANGED <<state, ids, work>>

ShellOnBusy(c, r) ==
  /\ Entering(c, r, "startShell") /\ Unlocked(r)
  /\ state[r].tag = "Idle" /\ ids < MaxIds
  /\ Go(c, "onBusy")
  /\ UNCHANGED <<state, ids, work>>

ForkShell(c, r) ==
  /\ At(c, "onBusy") /\ call[c].runner = r
  /\ \E s \in Ids :
       /\ NewId(s)
       /\ state' = [state EXCEPT ![r] = ShellState(s)]
       /\ work' = [work EXCEPT ![s] = ForkedShell(r)]
       /\ call' = [call EXCEPT ![c] = [@ EXCEPT !.pc = "awaitShell", !.shell = s]]

ReturnShell(c) ==
  /\ At(c, "awaitShell")
  /\ HasExited(call[c].shell)
  /\ Return(c)
  /\ UNCHANGED <<state, ids, work>>

(***************************************************************************)
(* The fibers.  forkIn and forkChild only schedule a fiber; its first      *)
(* evaluation installs the finisher around the work (onExit, ensuring).    *)
(* An interrupted work still runs its own cleanup before it exits; it may  *)
(* also have exited before the interrupt arrived.  How a shell exits only  *)
(* its caller learns, so it is not recorded.                               *)
(***************************************************************************)
Phase(i, p) == work' = [work EXCEPT ![i].phase = p]

BeginWork(i) ==
  /\ work[i].phase = "forked"
  /\ Phase(i, "working")
  /\ UNCHANGED <<state, ids, call>>

WorkExit(i, e) ==
  /\ work[i].phase = "working"
  /\ e \in (IF work[i].intr THEN {"interrupt", "failure"} ELSE {"success", "failure"})
  /\ work' = [work EXCEPT ![i] = [@ EXCEPT !.phase = "exited",
                                            !.exit = IF work[i].kind = "run" THEN e ELSE "none"]]
  /\ UNCHANGED <<state, ids, call>>

\* Variant: any run that ends makes the runner idle.
FinishRun_AnyRun(i) ==
  LET r       == work[i].runner
      current == state[r].tag = "Running"
  IN  /\ work[i].kind = "run" /\ work[i].phase = "exited" /\ Unlocked(r)
      /\ state' = IF current THEN [state EXCEPT ![r] = IdleState] ELSE state
      /\ Phase(i, IF current THEN "notify" ELSE "settle")
      /\ UNCHANGED <<ids, call>>

\* Variant: only a run that succeeds or is cancelled gives the runner back.
FinishRun_NotOnFailure(i) ==
  LET r       == work[i].runner
      current == state[r].tag = "Running" /\ state[r].run = i /\ work[i].exit # "failure"
  IN  /\ work[i].kind = "run" /\ work[i].phase = "exited" /\ Unlocked(r)
      /\ state' = IF current THEN [state EXCEPT ![r] = IdleState] ELSE state
      /\ Phase(i, IF current THEN "notify" ELSE "settle")
      /\ UNCHANGED <<ids, call>>

\* Variant: a run that is no longer current does not complete its Deferred.
FinishRun_OnlyCurrentSettles(i) ==
  LET r       == work[i].runner
      current == state[r].tag = "Running" /\ state[r].run = i
  IN  /\ work[i].kind = "run" /\ work[i].phase = "exited" /\ Unlocked(r)
      /\ state' = IF current THEN [state EXCEPT ![r] = IdleState] ELSE state
      /\ Phase(i, IF current THEN "notify" ELSE "ended")
      /\ UNCHANGED <<ids, call>>

\* finishRun: a run that is no longer the current one leaves the state alone.
FinishRun(i) ==
  LET r       == work[i].runner
      current == state[r].tag = "Running" /\ state[r].run = i
  IN  /\ work[i].kind = "run" /\ work[i].phase = "exited" /\ Unlocked(r)
      /\ state' = IF current THEN [state EXCEPT ![r] = IdleState] ELSE state
      /\ Phase(i, IF current THEN "notify" ELSE "settle")
      /\ UNCHANGED <<ids, call>>

\* Variant: a shell that ends makes the runner idle even with a run queued behind it.
FinishShell_DropsQueue(s) ==
  LET r       == work[s].runner
      current == state[r].tag \in {"Shell", "ShellThenRun"} /\ state[r].shell = s
  IN  /\ work[s].kind = "shell" /\ work[s].phase = "exited" /\ Unlocked(r)
      /\ state' = IF current THEN [state EXCEPT ![r] = IdleState] ELSE state
      /\ Phase(s, IF current THEN "notify" ELSE "ended")
      /\ UNCHANGED <<ids, call>>

\* finishShell: go idle, or start the run queued behind this shell.  The run keeps its
\* handle; that startRun gives it another number (line 82) nobody sees.
FinishShell(s) ==
  LET r == work[s].runner
  IN  /\ work[s].kind = "shell" /\ work[s].phase = "exited" /\ Unlocked(r)
      /\ CASE state[r].tag = "Shell" /\ state[r].shell = s ->
                /\ state' = [state EXCEPT ![r] = IdleState]
                /\ Phase(s, "notify")
           [] state[r].tag = "ShellThenRun" /\ state[r].shell = s ->
                /\ state' = [state EXCEPT ![r] = RunningState(state[r].run)]
                /\ work' = [work EXCEPT ![s].phase = "ended",
                                        ![state[r].run].phase = "forked"]
           [] OTHER ->
                /\ Phase(s, "ended")
                /\ UNCHANGED state
      /\ UNCHANGED <<ids, call>>

\* onIdle, as run by a finisher: its first and its last effect.
IdleBegin(i) ==
  /\ work[i].phase = "notify"
  /\ Phase(i, "notifying")
  /\ UNCHANGED <<state, ids, call>>

IdleEnd(i) ==
  /\ work[i].phase = "notifying"
  /\ Phase(i, IF work[i].kind = "run" THEN "settle" ELSE "ended")
  /\ UNCHANGED <<state, ids, call>>

\* Variant: an interrupt is passed on as it is.
Outcome_Raw(e) == e

\* complete(done, exit): a pure interrupt becomes Cancelled.
Outcome(e) == IF e = "interrupt" THEN "cancelled" ELSE e

Complete(i) ==
  /\ work[i].phase = "settle"
  /\ work' = [work EXCEPT ![i] = [@ EXCEPT !.phase = "ended", !.done = Outcome(work[i].exit)]]
  /\ UNCHANGED <<state, ids, call>>

(***************************************************************************)
(* cancel: the state becomes Idle first; what it held is stopped after.    *)
(***************************************************************************)
CancelNothing(c, r) ==
  /\ Entering(c, r, "cancel") /\ Unlocked(r)
  /\ state[r].tag = "Idle"
  /\ Return(c)
  /\ UNCHANGED <<state, ids, work>>

FirstEffect(tag) ==
  CASE tag = "Running"      -> "interrupt"
    [] tag = "Shell"        -> "abort"
    [] tag = "ShellThenRun" -> "failPending"

\* Variant: cancelling a shell leaves the run queued behind it in the state.
CancelBegin_KeepsQueue(c, r) ==
  /\ Entering(c, r, "cancel") /\ Unlocked(r)
  /\ state[r].tag # "Idle"
  /\ state' = IF state[r].tag = "ShellThenRun" THEN state ELSE [state EXCEPT ![r] = IdleState]
  /\ call' = [call EXCEPT ![c] = [@ EXCEPT !.pc = FirstEffect(state[r].tag),
                                          !.run = state[r].run, !.shell = state[r].shell]]
  /\ UNCHANGED <<ids, work>>

CancelBegin(c, r) ==
  /\ Entering(c, r, "cancel") /\ Unlocked(r)
  /\ state[r].tag # "Idle"
  /\ state' = [state EXCEPT ![r] = IdleState]
  /\ call' = [call EXCEPT ![c] = [@ EXCEPT !.pc = FirstEffect(state[r].tag),
                                          !.run = state[r].run, !.shell = state[r].shell]]
  /\ UNCHANGED <<ids, work>>

\* Fiber.interrupt: signal the work; a fiber that has not begun exits on the spot, without
\* a finisher; an interrupt of a fiber past its work changes nothing.
Interrupted(w) ==
  CASE w.phase = "forked"  -> [w EXCEPT !.intr = TRUE, !.phase = "discarded"]
    [] w.phase = "working" -> [w EXCEPT !.intr = TRUE]
    [] OTHER               -> w
Interrupt(i) == work' = [work EXCEPT ![i] = Interrupted(@)]

\* Variant: cancel fails the Deferred itself instead of leaving it to the finisher.
CancelInterrupt_Fails(c) ==
  /\ At(c, "interrupt")
  /\ work' = [work EXCEPT ![call[c].run] = [Interrupted(@) EXCEPT !.done = "cancelled"]]
  /\ Go(c, "awaitFiber")
  /\ UNCHANGED <<state, ids>>

CancelInterrupt(c) ==
  /\ At(c, "interrupt")
  /\ Interrupt(call[c].run)
  /\ Go(c, "awaitFiber")
  /\ UNCHANGED <<state, ids>>

CancelAwaitFiber(c) ==
  /\ At(c, "awaitFiber")
  /\ HasExited(call[c].run)
  /\ Go(c, "awaitDone")
  /\ UNCHANGED <<state, ids, work>>

CancelAwaitDone(c) ==
  /\ At(c, "awaitDone")
  /\ work[call[c].run].done \in Settled
  /\ Go(c, "idleCheck")
  /\ UNCHANGED <<state, ids, work>>

\* Variant: the queued run's Deferred is forgotten.
CancelFailPending_Forgets(c) ==
  /\ At(c, "failPending")
  /\ Go(c, "abort")
  /\ UNCHANGED <<state, ids, work>>

CancelFailPending(c) ==
  /\ At(c, "failPending")
  /\ work' = [work EXCEPT ![call[c].run].done = "cancelled"]
  /\ Go(c, "abort")
  /\ UNCHANGED <<state, ids>>

\* stopShell: abort the signal, give the work 100 ms, then interrupt its fiber.
StopShellAbort(c) ==
  /\ At(c, "abort")
  /\ Go(c, "grace")
  /\ UNCHANGED <<state, ids, work>>

StopShellTimeout(c) ==
  /\ At(c, "grace")
  /\ ~ HasExited(call[c].shell)
  /\ Interrupt(call[c].shell)
  /\ Go(c, "awaitStop")
  /\ UNCHANGED <<state, ids>>

StopShellDone(c) ==
  /\ call[c].pc \in {"grace", "awaitStop"}
  /\ HasExited(call[c].shell)
  /\ Go(c, "idleCheck")
  /\ UNCHANGED <<state, ids, work>>

IdleIfCurrent(c) ==
  LET r == call[c].runner
  IN  /\ At(c, "idleCheck") /\ Unlocked(r)
      /\ IF state[r].tag = "Idle" THEN Go(c, "notify") ELSE Return(c)
      /\ UNCHANGED <<state, ids, work>>

CancelIdleBegin(c) ==
  /\ At(c, "notify")
  /\ Go(c, "notifying")
  /\ UNCHANGED <<state, ids, work>>

CancelIdleEnd(c) ==
  /\ At(c, "notifying")
  /\ Return(c)
  /\ UNCHANGED <<state, ids, work>>

(***************************************************************************)
(* Specification.                                                          *)
(***************************************************************************)
Enter(c, r) ==
  \/ JoinRun(c, r) \/ QueueRun(c, r) \/ StartRun(c, r)
  \/ RefuseShell(c, r) \/ ShellOnBusy(c, r) \/ ForkShell(c, r)
  \/ CancelNothing(c, r) \/ CancelBegin(c, r)

Await(c) == ReturnRun(c) \/ ReturnShell(c)

\* cancel's effects after its transition
Stop(c) ==
  \/ CancelInterrupt(c) \/ CancelAwaitFiber(c) \/ CancelAwaitDone(c)
  \/ CancelFailPending(c) \/ StopShellAbort(c) \/ StopShellTimeout(c) \/ StopShellDone(c)
  \/ IdleIfCurrent(c) \/ CancelIdleBegin(c) \/ CancelIdleEnd(c)

\* a fiber's steps after its work has ended
Finish(i) ==
  \/ FinishRun(i) \/ FinishShell(i) \/ IdleBegin(i) \/ IdleEnd(i) \/ Complete(i)

Next ==
  \/ \E c \in Callers, r \in Runners, op \in Ops : Obtain(c, r, op)
  \/ \E c \in Callers, r \in Runners : Enter(c, r)
  \/ \E c \in Callers : Await(c)
  \/ \E c \in Callers : Stop(c)
  \/ \E i \in Ids : BeginWork(i)
  \/ \E i \in Ids, e \in Exits : WorkExit(i, e)
  \/ \E i \in Ids : Finish(i)

Spec == Init /\ [][Next]_runnerVars

\* The lock is a FIFO semaphore, a scheduled fiber begins, a suspended one is resumed,
\* and a timeout fires, so everything but the work itself is strongly fair; of the work only
\* an interrupted one is assumed to exit (its cleanup terminates).
Fairness ==
  /\ \A c \in Callers : /\ SF_runnerVars(Stop(c))
                        /\ WF_runnerVars(Await(c))
                        /\ \A r \in Runners : WF_runnerVars(ForkShell(c, r))
  /\ \A i \in Ids : /\ WF_runnerVars(BeginWork(i))
                    /\ SF_runnerVars(Finish(i))
                    /\ WF_runnerVars(work[i].intr /\ \E e \in Exits : WorkExit(i, e))

FairSpec == Spec /\ Fairness

(***************************************************************************)
(* Properties.                                                             *)
(***************************************************************************)
Working(i) == work[i].phase = "working"
Alive(i)   == work[i].phase \in {"forked", "working"}

\* Work some caller of cancel has captured and is about to stop, or has interrupted.
CancelPending(i) ==
  \E c \in Callers : \/ At(c, "interrupt") /\ call[c].run = i
                     \/ call[c].pc \in {"failPending", "abort", "grace"} /\ call[c].shell = i
Doomed(i) == work[i].intr \/ CancelPending(i)

\* The runner's state holds the work that runs: a fiber that no cancel has taken is
\* the one in the state, so busy reports it and a cancel reaches it.  A finisher of
\* earlier work never clears the state of later work (runner.ts 67-79, 92-104, 171-202).
Current(i) == LET st == state[work[i].runner]
              IN  \/ st.tag = "Running" /\ st.run = i
                  \/ st.tag \in {"Shell", "ShellThenRun"} /\ st.shell = i
LiveWorkIsCurrent == \A i \in Ids : Alive(i) /\ ~Doomed(i) => Current(i)

\* Hence a runner never has two fibers at once, except that work taken by a cancel may
\* still be cleaning up.
OneLiveWork ==
  \A i, j \in Ids :
    Alive(i) /\ Alive(j) /\ work[i].runner = work[j].runner /\ ~Doomed(i) /\ ~Doomed(j)
      => i = j

\* Whoever awaits a run's Deferred will be answered, with one exception: while it is
\* open, the run's fiber is still going to complete it, the run is queued behind a shell
\* whose finisher is still to come, or a cancel is about to fail it; or else a cancel
\* interrupted the fiber before it had begun (83-86, 178), and nobody will complete it.
QueuedBehind(i, s) ==
  state[work[i].runner] = ShellThenRunState(s, i) /\ work[s].phase \in {"forked", "working", "exited"}
OnlyUnbegunStrand ==
  \A i \in Ids :
    work[i].done = "open" =>
      \/ work[i].phase \in {"forked", "working", "exited", "notify", "notifying", "settle"}
      \/ \E s \in Ids : QueuedBehind(i, s)
      \/ \E c \in Callers : At(c, "failPending") /\ call[c].run = i
      \/ work[i].phase = "discarded"

\* A run's outcome is decided once: the finisher never finds the Deferred completed
\* by someone else, which would hide how the run really ended.
SettleOnce == \A i \in Ids : work[i].phase = "settle" => work[i].done = "open"

\* A caller is told Cancelled only of a run that is over or that will never start, and
\* a cancel that goes on to report the session as idle has ended all that it took: its
\* fibers are gone, and whoever waits for the run has an answer (runner.ts 171-202).
Stopped(i) == work[i].phase \in {"unborn", "ended", "discarded"} /\ work[i].done # "open"
CancelledIsStopped ==
  /\ \A i \in Ids : work[i].done = "cancelled" => Stopped(i)
  /\ \A c \in Callers : call[c].pc \in {"idleCheck", "notify", "notifying"} =>
       \A i \in {call[c].run, call[c].shell} \ {NoId} : Stopped(i)

\* cancel returns once what it stops has cleaned up, unless it stops a run that has not
\* begun, whose Deferred it awaits for ever (runner.ts 171-202).
CancelReturns ==
  \A c \in Callers : "cancel" \in Uses[c] =>
    (call[c].pc \in CancelPcs
       ~> \/ At(c, "out")
          \/ At(c, "awaitDone") /\ work[call[c].run].phase = "discarded")

\* Everyone who waits for a run when a cancel takes it gets an answer, also when the
\* run was only queued and never starts; except those of a run that has not begun.
TakenByCancel(i) == \E c \in Callers : call[c].pc \in {"interrupt", "failPending"} /\ call[c].run = i
BegunJoinersReleased ==
  \A c \in Callers : "ensureRunning" \in Uses[c] =>
    ((At(c, "await") /\ TakenByCancel(call[c].run))
       ~> \/ At(c, "out")
          \/ At(c, "await") /\ work[call[c].run].phase = "discarded")

\* The tests say so of all of them: "cancel with onInterrupt resolves callers gracefully"
\* and "cancel with queued callers resolves all" (test/effect/runner.test.ts 142, 158).
JoinersReleased ==
  \A c \in Callers : (At(c, "await") /\ TakenByCancel(call[c].run)) ~> At(c, "out")

\* What all of this is for (see SingleFlight): a runner does one thing at a time, callers
\* share the run there is, and each run is decided once, when it is over; as cancelled
\* only if a cancel took it.  A fiber that a cancel has captured or interrupted is one
\* that it took, and so is a queued run it is about to fail.
Dropped(i) == \E c \in Callers : At(c, "failPending") /\ call[c].run = i
Life(i) ==
  IF work[i].kind = "none" THEN "none"
  ELSE CASE work[i].phase = "unborn" /\ work[i].done = "open" ->
              IF Dropped(i) THEN "dropped" ELSE "queued"
         [] Alive(i) -> IF Doomed(i) THEN "stopping" ELSE "working"
         [] OTHER -> IF work[i].intr THEN "stopped" ELSE "over"

Flight == INSTANCE SingleFlight WITH
  Tasks   <- Ids,
  NoTask  <- NoId,
  owner   <- [i \in Ids |-> work[i].runner],
  life    <- [i \in Ids |-> Life(i)],
  outcome <- [i \in Ids |-> work[i].done],
  waits   <- [c \in Callers |-> IF At(c, "await") THEN call[c].run ELSE NoId]

ImplementsSingleFlight == Flight!FlightSpec

=============================================================================
