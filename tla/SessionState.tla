---------------------------- MODULE SessionState ----------------------------
(***************************************************************************)
(* SessionState (session/prompt/state.ts) over Runner, for one session:    *)
(* the map from a session to its runner, the callbacks the runners are     *)
(* made with, the session's status (session/status.ts), and the entry      *)
(* points of session/prompt.ts that look a runner up and then use it.      *)
(*                                                                         *)
(* A runner object outlives its map entry: whoever looked it up before     *)
(* onIdle deleted the entry still holds it.                                *)
(***************************************************************************)
EXTENDS Runner

VARIABLES
  runners,    \* the session's entry in the map, or NoRunner
  made,       \* runner objects Runner.make has returned
  status      \* SessionStatus of the session

sessionVars == <<runners, made, status>>
vars == <<state, ids, work, call, runners, made, status>>

SessionTypeOK ==
  /\ TypeOK
  /\ runners \in made \cup {NoRunner}
  /\ made \subseteq Runners
  /\ status \in {"idle", "busy"}

SessionInit ==
  /\ Init
  /\ runners = NoRunner
  /\ made = {}
  /\ status = "idle"

SetStatus(s)  == status' = s /\ UNCHANGED <<runners, made>>
DeleteEntry   == runners' = NoRunner /\ UNCHANGED <<made, status>>

(***************************************************************************)
(* Entry points: loop (prompt.ts 105-109), shell (131-135), cancel         *)
(* (state.ts 78-87).                                                       *)
(***************************************************************************)
\* getRunner: the session's runner, made on first use.
GetRunner(c, op) ==
  /\ op \in {"ensureRunning", "startShell"}
  /\ \/ /\ runners # NoRunner
        /\ Obtain(c, runners, op)
        /\ UNCHANGED sessionVars
     \/ /\ runners = NoRunner
        /\ \E r \in Runners \ made :
             /\ Obtain(c, r, op)
             /\ runners' = r
             /\ made' = made \cup {r}
        /\ UNCHANGED status

\* cancel with a busy runner goes on to runner.cancel; with none, or an idle one,
\* it only sets the status (the last effect of a cancel: CancelIdleEnd).
CancelIdle(c) ==
  /\ At(c, "out") /\ "cancel" \in Uses[c]
  /\ call' = [call EXCEPT ![c] = [NoCall EXCEPT !.pc = "notifying", !.op = "cancel"]]
  /\ UNCHANGED <<state, ids, work>>

CancelSession(c) ==
  /\ UNCHANGED sessionVars
  /\ IF runners # NoRunner /\ state[runners].tag # "Idle"
     THEN Obtain(c, runners, "cancel")
     ELSE CancelIdle(c)

(***************************************************************************)
(* The callbacks: onBusy sets the status; onIdle deletes the map entry of  *)
(* the session, then sets the status.                                      *)
(***************************************************************************)
OnBusy(c, r)        == ShellOnBusy(c, r) /\ SetStatus("busy")
FinisherForgets(i)  == IdleBegin(i) /\ DeleteEntry
FinisherIdles(i)    == IdleEnd(i) /\ SetStatus("idle")
CancelForgets(c)    == CancelIdleBegin(c) /\ DeleteEntry
CancelIdles(c)      == CancelIdleEnd(c) /\ SetStatus("idle")

\* What the run's loop does to the status: busy at the top of every turn
\* (engine.ts 283); idle when an interrupted turn is halted (processor.ts halt).
TurnBusy(i) ==
  /\ Working(i) /\ work[i].kind = "run" /\ ~work[i].intr
  /\ SetStatus("busy")
  /\ UNCHANGED runnerVars
TurnHalted(i) ==
  /\ Working(i) /\ work[i].kind = "run" /\ work[i].intr
  /\ SetStatus("idle")
  /\ UNCHANGED runnerVars

(***************************************************************************)
(* Specification.  Steps of Runner that run no callback leave the map and  *)
(* the status alone.                                                       *)
(***************************************************************************)
EnterQuietly(c, r) ==
  \/ JoinRun(c, r) \/ QueueRun(c, r) \/ StartRun(c, r)
  \/ RefuseShell(c, r) \/ ForkShell(c, r)
  \/ CancelNothing(c, r) \/ CancelBegin(c, r)

StopQuietly(c) ==
  \/ CancelInterrupt(c) \/ CancelAwaitFiber(c) \/ CancelAwaitDone(c)
  \/ CancelFailPending(c) \/ StopShellAbort(c) \/ StopShellTimeout(c) \/ StopShellDone(c)
  \/ IdleIfCurrent(c)

FinishQuietly(i) == FinishRun(i) \/ FinishShell(i) \/ Complete(i)

CallerStep(c) ==
  \/ \E op \in Ops : GetRunner(c, op)
  \/ CancelSession(c)
  \/ \E r \in Runners : OnBusy(c, r)
  \/ CancelForgets(c) \/ CancelIdles(c)
  \/ /\ \/ \E r \in Runners : EnterQuietly(c, r)
        \/ Await(c) \/ StopQuietly(c)
     /\ UNCHANGED sessionVars

FiberStep(i) ==
  \/ FinisherForgets(i) \/ FinisherIdles(i)
  \/ TurnBusy(i) \/ TurnHalted(i)
  \/ /\ FinishQuietly(i) \/ BeginWork(i) \/ \E e \in Exits : WorkExit(i, e)
     /\ UNCHANGED sessionVars

SessionNext == (\E c \in Callers : CallerStep(c)) \/ (\E i \in Ids : FiberStep(i))

SessionSpec == SessionInit /\ [][SessionNext]_vars

\* A call that has begun goes on, a forked fiber begins, and a fiber that is past its
\* work or was interrupted ends; of work that was not interrupted nothing is assumed.
\* The lock's semaphore is served in order, which gives more than weak fairness.
FiberEnds(i) ==
  \/ FinisherForgets(i) \/ FinisherIdles(i)
  \/ /\ \/ FinishQuietly(i) \/ BeginWork(i)
        \/ work[i].intr /\ \E e \in Exits : WorkExit(i, e)
     /\ UNCHANGED sessionVars
SessionFairness ==
  /\ \A c \in Callers : WF_vars(~ At(c, "out") /\ CallerStep(c))
  /\ \A i \in Ids : WF_vars(FiberEnds(i))

SessionFairSpec == SessionSpec /\ SessionFairness

\* Between two waits a fiber runs without being suspended.  CooperativeSpec keeps
\* only the behaviours in which it is never suspended earlier than that.
InStretch(c) == call[c].pc \in {"ready", "onBusy", "interrupt", "failPending", "abort",
                                "awaitDone", "idleCheck", "notify", "notifying"}
Finishing(i) == work[i].phase \in {"exited", "notify", "notifying", "settle"}
CooperativeNext ==
  /\ SessionNext
  /\ \A c \in Callers : InStretch(c) => call'[c] # call[c]
  /\ \A i \in Ids : Finishing(i) => work'[i].phase # work[i].phase
CooperativeSpec == SessionInit /\ [][CooperativeNext]_vars

(***************************************************************************)
(* Properties.                                                             *)
(***************************************************************************)
Quiet == /\ \A c \in Callers : At(c, "out")
         /\ \A i \in Ids : work[i].phase \in {"unborn", "ended", "discarded"}

\* When nothing runs and no call is in progress, the session shows as idle, whatever
\* order the finishers, cancels and restarts came in, and no runner is left believing
\* that something still runs, which would refuse shells and swallow prompts for good.
QuietIsIdle ==
  Quiet => status = "idle" /\ \A r \in Runners : state[r].tag = "Idle"

\* A session executes one run or shell at a time, over all its runner objects.
\* Callers that come while it runs share it.
OneRunPerSession ==
  \A i, j \in Ids : Working(i) /\ Working(j) /\ ~Doomed(i) /\ ~Doomed(j) => i = j

=============================================================================
