# Epoch CLI in TLA+

This directory is a verification project for `src/packages/epochcli`, the program of
this repository: TLA+ modules of its concurrent core, TLC configurations that check
them on small instances, and proofs that TLAPS checks for every value of the constants.
Paths below are relative to `src/packages/epochcli/src` unless they begin with `src/`,
`docs/` or `test/`. `PROJECT.json` has the tables: which lines each definition
translates, every run, mutant, finding, hazard and theorem.

## The system

Epoch CLI is a coding agent. A client (the TUI, the HTTP API, ACP, `cli run`) posts
prompts to a *session*; a loop calls a model, executes the tools it asks for, and goes
on until the model has answered. It is one TypeScript process on an `async` runtime
(Effect fibers and promises): every `await` or `yield*` is a place where another fiber
may run. Sessions, messages and parts are rows of an SQLite database.

| Part | State it keeps | Operations | What makes it correct |
|---|---|---|---|
| Runner, `effect/runner.ts` | Idle, Running, Shell, ShellThenRun; handles with a fiber and a Deferred | ensureRunning, startShell, cancel; finishers | one piece of work at a time; callers share a run; whoever waits is answered and cancel returns, save where a cancel catches a run that has not begun |
| Session state, `session/prompt/state.ts`; status, `session/status.ts` | map session → runner; map session → status | getRunner, cancel, onIdle, onBusy | one run per session; a quiet session shows as idle |
| Turn loop, `session/prompt/engine.ts` | step, stallScore, forceTransition, tool history; the session's messages; the intervention request | one pass of `runLoop` | warnings that end; epochs closed for a cause; prompts that are seen; finished subtasks that are not run again |
| Orchestrator, `session/prompt/orchestrator.ts` | – | resolveTools, handleSubtask | a subtask's message is finished, also when its tool is interrupted |
| Stream processor, `session/processor.ts`; `session/retry.ts` | the current message, tool parts, flags | handleEvent, cleanup, halt, abort, process | every tool part ends completed or in error; retries stop |
| Permission, `permission/index.ts`; Question, `question/index.ts` | pending requests with Deferreds, approvals | ask, reply, list, finalizer | nothing unasked goes ahead; nobody waits for an answer that cannot come |
| Lock, `util/lock.ts`; Flock, `util/flock.ts` | records of readers, writers and queues; lock directories with heartbeats | read, write, dispose; acquire, release | exclusion (`Flock`: with the exceptions below); nobody starved or forgotten; dead locks go |
| FileTime, `file/time.ts`; edit, write, apply_patch | stamps per session and file, a semaphore per file | read, assert, withLock | edits one after the other; a lone call passes over no change made since its session last looked |
| SyncEvent, `sync/index.ts`; projectors; `storage/db.ts` | event log, sequence numbers, projections | run, replay, remove | the projection is the fold of the log; no gaps, no event twice |
| Instance, `project/instance.ts`, `effect/instance-state.ts` | cache directory → context; state per directory | provide, reload, dispose, disposeAll | one live context per directory; its state is disposed once |
| Revert, `session/revert.ts`; Summary, `session/summary.ts` | revert record, snapshots; diffs | revert, unrevert, cleanup; summarize | not concurrent with a run; no stale message written back |
| OAuth, `mcp/oauth-callback.ts`, `mcp/auth.ts` | pending authorizations, reverse index, token file | waitForCallback, cancelPending, stop; set, update | each waiter ends once; no update lost |
| Bus, `bus/index.ts`; workspaces, `control-plane/` | subscriptions; an SSE stream | publish, subscribe; reconnect | order per publisher |
| Clerk, `session/worker.ts`; todo; compaction | report files; rows | execute; syncWithFile; isOverflow | – |

How they interact: a prompt (`session/prompt.ts`) writes a user message and calls
`loop`, which gets the session's runner and has it run `runLoop`. `runLoop` reads the
messages, may close the *epoch* (the Clerk writes reports, then a message with a
`transition` part cuts the history), and otherwise makes an assistant message which
the processor fills from the model's stream. Tools ask through Permission, on fibers of
their own. `cancel` interrupts the run's fiber; the finishers clean up, call
back into the session state, and answer those who wait. Clients learn all this from the
bus.

What is hard about it: the runner's transitions happen under a lock but the effects they
return do not, so a finisher or a cancel acts on a state that has moved on; the loop
reads the session once per pass and acts later, while prompts arrive; interruption can
come at any `yield*`; the loop's counters and scores interact with messages it writes
itself; two replies sweep one map of requests; disposal can come between any two steps.
Other parts add files to this: processes share lock directories and an SQLite file and may
die between any two system calls; tools run on promises that outlive the message they were
called from; several calls of one answer change one file at the same time.
`PROJECT.json` lists 40 such places with their lines.

## Modules

| Module | Models | State and actions |
|---|---|---|
| `Runner` | `effect/runner.ts` | `state` is the SynchronizedRef; `work` the handles (fiber phase, interrupt flag, Deferred); `call` where each caller of ensureRunning, startShell and cancel is. One action per transition under the lock and one per effect after it: `JoinRun QueueRun StartRun ReturnRun`, `RefuseShell ShellOnBusy ForkShell ReturnShell`, `CancelBegin CancelInterrupt …  IdleIfCurrent`, and of the fibers `BeginWork WorkExit FinishRun FinishShell IdleBegin IdleEnd Complete`. A fiber is `forked` until `BeginWork`; interrupted before, a run is `discarded`: it has no finisher yet. |
| `SessionState` | `session/prompt/state.ts`, `session/status.ts`, the entry points of `session/prompt.ts` | EXTENDS `Runner` with the map entry of one session (`runners`), the runner objects made, and its `status`. `GetRunner` replaces `Obtain`; the onIdle and onBusy callbacks are conjoined to the runner's steps. |
| `SingleFlight` | what `effect/runner.ts` promises its callers | the abstract specification: tasks with an owner, a life (`queued working stopping dropped over stopped`) and, for runs, an outcome; who waits for which. `Start Fork Queue Join Begin Take End Decide Drop Answer`. `Flight == INSTANCE SingleFlight WITH …` in `Runner` is the refinement mapping: a handle that a cancel has captured or interrupted is `stopping`, one interrupted before it began is `stopped` at once, a queued run it is about to fail is `dropped`. |
| `Engine` | `session/prompt/engine.ts`, `handleSubtask`, prompts posted meanwhile | `local` holds runLoop's variables, `epoch` the facts the loop derives from the messages of the current epoch, `snap` what the current pass has read. `ReadEpoch`, then one of `BeginTransition`/`CutEpoch`/`Handover`, `RequestIntervention`, `Nudge`, `NudgeToComplete`, `EndAnswered`, `StartSubtask`/`EndSubtask`/`StoreSubtask`, `StartTurn`/`Intervene`/`CallModel`/`EndTurn`; `Interrupted` at any step; `Post`, `JoinLoop`, `StartLoop` of the prompts. |
| `Permission` | `permission/index.ts` | `asks`, `deferred`, `pending`, `approved`, `replier` (each reply and where its sweep is). `Deny Allow Ask Asked Answered Cancel` (`Ask` makes the entry, `Asked` begins to wait once the event is out), `Reply Settle SweepOne SweepPast SettleOther SweepEnd`, `Dispose`. |
| `Lock` | `util/lock.ts`, one key | `locks` is the key's record in the map, `lock` the records by identity, `at`/`ref` the clients. `Read Write Dispose`; `PassOn` is `process`. |
| `ReadWriteLock` | what `util/lock.ts` promises | the abstract specification: what each client is doing and the writers that wait, in order; `AskToRead AskToWrite Leave ToWriter ToReaders`. `RW == INSTANCE ReadWriteLock WITH …` in `Lock` is the refinement mapping. |
| `Flock` | `util/flock.ts`, one key | `dir` and `breaker` are the two directories (who made them, ages of their files, the token), `pc` where each process is in acquire or release. One action per system call: `MakeDir FindDir Look Claim LookBreaker BreakBreaker Relook BeginRm EndRm Remake Unbreak WriteHeartbeat WriteMeta`, `Release CheckToken`; `Crash`; `Tick` ages the files and serves the heartbeat timers. |
| `Projection` | `session/projectors.ts` | operators: `Accepts` (the projector does not throw) and `Apply` (what it does to the session, message and part row) |
| `EventLog` | what `sync/README.md` promises | the abstract specification: a numbered log, its projection and a copy of a prefix; `Publish Forget Copy` |
| `SyncLog` | `sync/index.ts`, `storage/db.ts`, `Session.remove` | `db` and `copy` are the two SQLite files, `lock` the immediate transaction, `work` where each writer is. `Begin` (the transaction and the number), `Commit` or `Rollback`, `Emit` (the effects); `Find Begin … Erase` is `remove`; `Receive` and `Replay` are the two halves of `replay`; `Crash`. `Log == INSTANCE EventLog WITH …` is the refinement mapping. |
| `Processor` | `session/processor.ts`, `session/retry.ts`, the tools of `session/prompt/orchestrator.ts` | `ctx` is the processor's context in memory, `db` the stored message and tool parts, `tool` the executions. One action per event that changes something (`Begin End OverflowText Ramble InputStart ToolCall ToolResult ToolError FinishStep`), `StreamEnds StreamFails`, `Retry Resume`, `Halt Cleanup Return`, `Interrupt Abort`; the tools' `Execute Metadata ToolDone`. |
| `Editing` | `file/time.ts`, `tool/read.ts`, `tool/write.ts`, `tool/edit.ts`, `tool/apply_patch.ts`, one file | `file` is its content (the set of changes in it) and version, `stamp` FileTime's stamps, `lock` the file's semaphore, `call` where each tool call is, `offered` what was in the file when a call read it for the session's model. `Make`, `TakeLock`, `Look`/`Miss`, `AssertStamp`/`AutoRead` and then `Granted`/`Refused`, `Fail`/`Put`, `Format` (which may fail, and the call with it), `Stat` and `Stamp`, `Answer`; `Save` is a user's editor. |
| `MC*` | – | instances for TLC: values of constants and symmetry |
| `RunnerProofs`, `EngineProofs`, `PermissionProofs`, `LockProofs`, `FlockProofs`, `SyncLogProofs`, `ProcessorProofs`, `EditingProofs` | – | theorems about the module of the name; `RunnerProofs` has those about `SessionState` too |

A definition marked *Variant* is a plausible bug of the code next to it: replacing the
definition below it by the variant makes a checked property fail, which shows that the
property depends on that line.

Abstractions worth knowing. A runner's handle numbers are drawn from one counter shared
by all runner objects and bounded by `MaxIds`; a queued run keeps its number when it
starts. Callers are not interrupted (a client that disconnects does not stop its prompt).
In `Engine` a turn has at most one tool part, a message is written together with its
parts in one step (except the transition and the handover, which are two), a tool's
name stands for the tool and its input, scores above 20 are not told apart, and the
verdict of the overflow check is a free choice. In `Permission` a rule is what its
pattern matches; of the two kinds of rejection only that the request fails is kept.
`Lock` keeps the set of a record's readers where the code counts them.

In `Flock` time is the age of files in ticks: within one tick a process that is not late
ends what it is doing, sleeps excepted, and a holder's heartbeat timer is served (the
code's interval is a third of `staleMs`). A recursive `rm` is two steps, the unlinking of
one file, whichever, and the rest. Processes that crash come back under the same name; `by` in
`dir` tells who made it, for the properties. `spoiled` marks the behaviours in which one of
three things has happened that the lock does not withstand: a process crashed inside the
cleanup; a process was stopped while time went on; or the `rm` of a release unlinked
`heartbeat` first although `meta.json`, which is written once, was already older than
`staleMs`. In `SyncLog` a transaction's writes are seen at its
commit, so they are one step; sequence rows exist only with
`EPOCHCLI_EXPERIMENTAL_WORKSPACES`, which is assumed on; a session has no children, one
message and one part. `replay` has no caller in the sources yet; it is modelled as
`test/sync/index.test.ts` uses it. In `Processor` a tool call is begun, and goes on, in the
attempt that asked for it; which failures are retryable is a free choice, and delays are in
units in which three attempts meet both caps. In `Editing` a file is the set of changes it
holds, and the next answer of a model begins when the calls of the last are over. A read
shows a part of the file (`offset` and `limit`, 2000 lines, a cap on bytes) but stamps all of
it: the model is `offered` what was there, and a call that writes a whole file keeps any
subset of that (`Texts`). Every write makes a version of its own: that two states of a file
with the same mtime and size are taken for one (`file/time.ts:98`) is left out.

## Runs

Each run asks one question; `tlc -workers 2 -config X.cfg M` repeats it.

| Run | Shows | Bounds, and why they are enough |
|---|---|---|
| `session` | running work is current; a waiter is stranded by a run that had not begun only (`OnlyUnbegunStrand`); Cancelled only of what is over, and a cancel that goes on to report the session as idle has ended all it took (`CancelledIsStopped`); a quiet session is idle, and so are its runners (`QuietIsIdle`); the whole refines `SingleFlight`; with the same exception cancels return and those who wait for a run taken by a cancel are released (liveness) | three callers with a role each (waits for runs and shells, cancels, does anything), two runner objects, two handles: the interplay is between one piece of work being stopped and one being started, and with two runners the map entry can be lost and remade |
| `runner_unbegun` | **violation** of: whoever waits for a run that a cancel takes is released | three callers, one runner, two handles |
| `session_two_runs` | **violation** of one run per session | three runner objects and four handles, under `CooperativeSpec`, in which fibers are suspended at their waits only |
| `engine` | no empty epoch closed; finished subtasks not run again; the ladder ends (liveness) | a plain prompt whose text may ask for YOLO and a command, `MaxTurns` = 3 (50 in the code), which is enough for the warnings to climb to a hard reset before the turns run out; one tool that moves the project and one that is called wrongly; both modes. `EngineProofs` has the two safety properties for every bound |
| `engine_stall` | **violation**: a requested intervention is picked up | no subtasks, one tool; the lasso needs one earlier turn |
| `engine_prompt` | **violation**: a run that ends answered has shown every prompt | two prompts |
| `permission` | nobody stranded; nothing unasked; sweeps of reject and always complete | four requests: two tools and the loop check of one session with overlapping patterns, and a tool of another session, denied unless an approval covers it; the loop check can be interrupted, also between its entry and its wait; two replies at a time, since each reply leaves the map between its steps |
| `lock` | nobody forgotten; writers served (liveness); the whole refines `ReadWriteLock`, hence exclusion, writers first and in order | four clients: a holder, two writers that queue, a reader |
| `flock` | exclusion and no live owner's lock removed, until one of the three things above has happened; dead locks go, also after that (liveness) | three processes: one that died, two that clean up after it; `Stale` = 1 tick and two attempts per tick; two faults (crashes, and ticks in which `p3` was stopped), so that a cleanup is left behind, too; either order of unlinking |
| `sync` | announced means committed; rows are the fold of the log; the copy is a prefix; the whole refines `EventLog` | two writers, two replayers, two values, four events: creation, an update, removal and one more, with a gap and a duplicate possible at the copy |
| `processor` | stored message final; parts ended; rejections stop; interruptions end (liveness) | two tool calls, three attempts, a doom threshold of 2 (3 in the code); headers that ask for no delay and for more than the cap |
| `editing` | a lone call passes over no change made since its session last looked (`NoStaleWrite`); edits serialised; the lock is held inside withLock only | two calls of any kind of one session, one of another that changes the file whatever its stamp (`create`, `update` or `add`; what else it could do matters to its own session only), and a save: each pair of overlapping calls, and one change from outside between any two of their steps |

`CHECK_DEADLOCK FALSE` is set where the system may rightly stop: all handles of the
bound are used, all prompts are posted, all requests answered, the message or the calls are over.
`lock` and `flock` never stop and are checked for deadlock.

### Fairness

* `Runner!FairSpec` (`runner_unbegun`): the ref's lock is a FIFO semaphore, forked fibers
  begin and suspended ones are resumed, so the effects after a transition and the finishers
  are strongly fair; the work itself may run for ever, except that interrupted work exits (its
  cleanup terminates). `SessionState!SessionFairSpec` (`session`) says the same with weak
  fairness of each caller that is inside an operation and of each fiber, which is less.
* `Engine!EngineFairSpec`: the loop's own steps are weakly fair; the model, a subtask and
  the user owe nothing.
* `Lock!FairSpec`: who holds the lock disposes of it; its only user does so in an
  `Effect.ensuring` (`session/summary.ts:138`).
* `Flock!FairSpec`: processes take their steps unless they crash, who holds the lock
  releases it, and time goes on (strong fairness: a tick waits until nobody is in the middle
  of something, which is again and again the case). Whether a process acquires, gives up or
  crashes is not owed.
* `Processor!FairSpec`: the fiber is scheduled and its retry timer fires; the model, the
  user and the tools owe nothing.

### Findings

1. **A cancel that strands its waiters, and itself** (`effect/runner.ts:178`). `forkIn` only
   schedules the run's fiber, whose first evaluation installs the finisher (lines 83-86). A
   cancel that comes between the two, posted in the same tick as the prompt or just after a
   shell's finisher started a queued run, interrupts a fiber with nothing to clean up: nobody
   completes the Deferred, for which the cancel then waits (line 179), as all who joined do.
   `OnlyUnbegunStrand` says that this is the only way to strand a waiter.
2. **Two runs of one session** (`session/prompt/state.ts:57`). onIdle deletes the entry of
   the session, not of its runner. The `idleIfCurrent` at the end of a slow cancel finds its
   own old runner Idle and deletes the entry of a newer one that is executing.
3. **An intervention that is never picked up** (`engine.ts:611`). After a turn aborted for
   rambling every pass scores 15 anew, requests, and loops back; the handler is at line 859,
   behind the same test. The loop never ends by itself and `MAX_TURNS` does not stop it.
4. **A prompt that is taken for answered** (`engine.ts:661`). Messages are ordered by id; a
   prompt written between the reading of the messages and the creation of the answer is
   older than the answer that never saw it.

### Seen while modelling

Facts about the code that no run states, because the model has them but nothing in the code
is held to them, or because a doc or a test says otherwise in passing.

* *Turn loop.* Nudge and hard reset score the same turn twice: one text-only turn gets 10,
  is nudged, and gets 20 on the next pass (`engine.ts:591`), where
  `docs/doom_protection.md:80` has the reset for an agent that "ignores both nudges and
  technical directives". The reset does not clear the pending turn (one more turn is taken
  before the transition, and the request is lost if that turn stops the run). The
  intervention handler looks at the prompt's `yolo` argument but not at the session's (line
  859) and leaves the score as it was: with a request left over from an interrupted run two
  interventions in a row end in a hard reset, and an epoch is closed in which the model was
  not called. Two of the three nudge texts are not recognised as nudges afterwards (line 616). Of
  two commands posted during one turn only one runs. A subtask for an agent that does not
  exist fails every later run (`orchestrator.ts:252`). A subtask whose run is interrupted while
  a plugin's hook is called between the end of its tool and the storing of its message
  (`orchestrator.ts:328-336`, outside the `onInterrupt` of 299-319) is run again by the next
  run; `SubtaskRunsOnce` is about those whose message was finished. `docs/doom_protection.md:35`
  speaks of "a hard safety ceiling of 50 turns"; the counter is compared with `>` before it is
  raised (`engine.ts:279`), so that 51 are taken (`TurnsBounded`, stated of `MaxTurns + 1`
  and proved, but not among the runs' properties, as it is not what the document says). The
  document also gives +3 for an invalid call where the code adds 5.
* *Permission.* An "always" is pushed onto the instance's state only; nothing writes the
  table that the next instance reads (`permission/index.ts:236`), so that after a reload the
  user is asked again, where `test/permission/next.test.ts:722` says "Stored approval should
  allow without asking" (its second provide finds the same instance in the cache). An
  interrupted ask publishes no event, so that a client keeps showing it. The entry is made
  before the event is published and its finalizer is installed after that
  (`permission/index.ts:192-194`): an asker interrupted in between leaves an entry that nobody
  waits at, listed until it is replied to (`asks` = `"cut"`).
* *Processor.* A tool that reports progress after the cleanup turns its ended part back to
  "running", in a message that is completed (`orchestrator.ts:93-109`; `PartsEnd` excepts
  it as `late`). The status stays "retry" while the retried stream is answering. The text
  part of a failed attempt never gets its end time (line 557 forgets it). A rejection whose
  stream fails before it was delivered is retried like anything else. A compaction overrides
  a rejection (line 597). `halt` shows the session as idle before cleanup has run (line 533).
* *Flock.* `flock.ts:171` says "Breaker ownership ensures only one contender performs stale
  cleanup". After two crashes that leave a dead lock and a dead breaker, two contenders may
  both find the breaker old; one removes it and claims a new one, and the other removes that
  (line 157 looks, line 158 removes): two are then inside the cleanup, which is
  why a crash in there is among what `spoiled` excepts. And two may hold the lock without
  any crash or delay: the release of a lock held for longer than `staleMs` unlinks
  `heartbeat`, another process judges what is left by its old `meta.json`, becomes the breaker
  and finds the directory stale again (line 176); the release ends, a third process acquires,
  and the breaker removes its directory and makes its own. A recursive `rm` promises no order,
  so `BeginRm` takes either file; `Spoils` is the case, and without it in `spoiled` TLC
  finds `Exclusive` violated with no fault at all (26 states).
* *SyncEvent.* A crash between the commit and the effects loses the announcement, and a
  device that was to replay it waits for that number for ever; after a removal the log
  starts again at 0 and a copy ignores it.
* *Editing.* `NoStaleWrite` holds for a call that is alone in its session, and of changes
  that its session had not looked at; a look is enough, whatever it showed. A read with
  `offset` or `limit`, or of a long file, stamps all of the file (`tool/read.ts:180`), and so
  does the content in the error of a refused write (`write.ts:38`, `edit.ts:128`): what is
  beyond may be overwritten unseen, where `write.ts:44` says "You cannot overwrite a file
  you have not read". Two calls of one answer do it, too: both write a file never read; the
  first fails, and stamps it, the second then passes the assertion. A change made between
  the reading of the content and the stamp, or while the user is asked, is lost. The stamp is
  taken by an awaited `stat` and stored afterwards (`time.ts:81`), so that of two reads at once
  the older may be stored last. A formatter's lookup may throw after the file was written
  (`format/formatter.ts:72` reads `package.json`): the call fails, its file is written and not
  stamped, and the session's own next edit is refused. So it is after `apply_patch`, which
  leaves the stamps alone. `edit` with an empty `oldString` and the patch's "add" overwrite
  without any check.

## Proofs

Every safety property of every passing run is proved, for all values of the constants and
from the modules' named assumptions alone. Where an abstract
specification exists, the module is proved to implement it.

`RunnerProofs` proves of `Runner!Spec` and of `SessionState!SessionSpec`, for all sets of
callers and runner objects, all `Uses` and every `MaxIds`:

| Theorem | Of | Property |
|---|---|---|
| `TypeCorrect` | `Spec` | `TypeOK` |
| `LiveIsCurrent` | `Spec` | `LiveWorkIsCurrent` |
| `AtMostOneLive` | `Spec` | `OneLiveWork` |
| `OnlyUnbegunAreStranded` | `Spec` | `OnlyUnbegunStrand` |
| `DecidedOnce` | `Spec` | `SettleOnce` |
| `CancelledMeansStopped` | `Spec` | `CancelledIsStopped` |
| `Refinement` | `Spec` | `ImplementsSingleFlight` |
| `SessionTypes` | `SessionSpec` | `SessionTypeOK` |
| `SessionKeepsRunners` | `SessionSpec` | the invariants above |
| `QuietSessionIsIdle` | `SessionSpec` | `QuietIsIdle` |
| `SessionRefinement` | `SessionSpec` | `ImplementsSingleFlight` |

None of these is inductive alone. That a finisher of old work leaves the state of new work
alone needs to know that handles are made in order and never twice (`HandlesMade`), that
each handle's phase, Deferred and kind fit together (`HandlesOK`), that what the state
names exists and is at the stage its tag says (`StateBacked`), that what a caller has
captured was once the state's (`CallsBacked`) and a shell it is to stop no longer is
(`ShellsLeft`), and that at most one caller is inside the
lock (`OneInLock`). `IInv` is their conjunction with `TypeOK` and `LiveWorkIsCurrent`.
The second half of `CancelledIsStopped` is about a cancel's whole sequence of effects, so
`Captures` says for each place in it which of the captured handles are over already; that a
handle which is over stays so is `EndedStays`. The proof has a lemma per action for the
parts that action can disturb, one that collects them over `Next`, and each theorem then
follows from `Invariance`.

`SessionState` replaces `Obtain` by its map and gives cancel a short cut to its last effect.
`SessionStep` shows that its steps are steps of the runners (`RunnerStep`), so that the
invariant carries over. For `QuietIsIdle` it needs to know who will reset the status:
`BusyBacked` says that a busy status is `Underway`, that is, some runner is not idle, a
finisher is at its callback, or a caller is inside the lock or a cancel. The step on which it hinges is
`TurnBusy`: the loop sets busy without the lock, but only from a fiber that was not
interrupted, and such a fiber is in its runner's state or in the hands of a cancel.

The refinement of `SingleFlight` needs `TakenGone`: what a cancel took is in no runner's
state and does not come back to one, only an interrupted fiber ends as interrupted, and it
never ends as a success. It is kept by every step because only a new handle or a queued run
comes into a state (`NewlyCurrent`), an interrupt hits only what is in none
(`HandleMoves`), and who holds a shell to stop got it in its transition (`CallMoves`).
Then each action is one of the abstract specification: `StartIsStart`, `QueueIsQueue`,
`ForkIsFork`, `JoinIsJoin`, `CancelIsTake`, `ExitIsEnd`, `FinishIsBegin`,
`CompleteIsDecide`, `FailIsDrop`, `ReturnIsAnswer`; all others are stutters
(`BeginStutters`, `PhaseStutters`, `AsideStutters`), as are the interrupts of work that has
begun: it was `CancelBegin` that took it. One of work that has not ends it
(`InterruptIsEnd`, `StopIsEnd`). That what `Start` finds is a
runner with nothing to do, and what `Take` takes is all that it had, is `LivesInState`:
what is queued or works, and was not taken, is what the state holds.

`EngineProofs` proves of `Engine!EngineSpec`, for any prompts, tools, modes and every
`MaxTurns`, `EngineTypeOK`, `NoIdleTransition`, `SubtaskRunsOnce` (of a subtask whose
message was finished) and `TurnsBounded` (one turn more than the documented ceiling). None
is inductive: the loop's counter bounds the turns taken (`Counts`: it is cleared only where
there were none); as long as nothing has happened since a transition, the epoch is blank
and neither its size, a compaction nor the score asks for another (`Cuts`: for a
blank epoch the score does not grow, and below 20 it causes no reset); and the lists of
tasks hold what was posted and has not run, those after the last answer being others than
those before it, while the first task that a pass has read is still the first when it acts
(`Queue`). That the text "transition" is not the name of a prompt is assumed.

`PermissionProofs` proves all five invariants of `permission` of `Permission!Spec`, for any
requests, sessions, rules and number of replies at a time. What it adds is that a request
gets at most one reply and none before it is made (`AskedOnce`: also one whose asker was cut
before it waited); that approvals, what is
let through and what a reply is about to settle were said by a user or are covered by what
was (`Grants`); and that the reply whose sweep is still to come to a request is one of the
same instance (`StrikesEnd`): a disposal takes away the map together with what was to be
swept.

`LockProofs` proves of `Lock!Spec`, for any sets of callers and of records, its type
invariant with the agreement of the record and its clients (`LockTypes`), exclusion
(`Exclusion`), that whoever waits is at the record in the map and that somebody holds it
(`NoneForgotten`), that nobody starts to read while a writer waits
(`WritersPriority`), and that it implements `ReadWriteLock` (`Refinement`). None of the first three is inductive. The invariant `IInv` adds what
`process` relies on: everybody who refers to a record refers to the one in the map
(`OneRecord`), the map keeps no record that nobody holds (`Held`), a writer is alone
(`Alone`) and nobody is queued twice (`QueuedOnce`). `Got` and `LetGo` say what `get`
returns and what a record says after its holder has left; `Joins` and `Remains` rebuild
the invariant from them, and `dispose` has a lemma for each outcome of `process`
(`HeldStill`, `WriterNext`, `ReadersNext`). For the refinement `ReadImplements`,
`WriteImplements` and `DisposeImplements` map each handler to steps of the abstract lock:
what the record says of its holders is what the clients are doing (`Says`), the queue of
the record in the map is the order in which the writers asked, and the last holder's
dispose passes the lock on in the same step. The only assumption is that `NoRecord` is not
a record.

`FlockProofs` proves of `Flock!Spec`, for any finite set of processes, any `Stale`,
`MaxTries` and `MaxFaults`, and whichever file each recursive `rm` unlinks first, the types,
`Exclusive`, `HolderIntact` and `RemovesOwnOrDead`. Its invariant says, while nothing is
spoiled: whoever is between `mkdir` and the end of its release has a directory of its own, with
the files its step has reached, and fresh ages (`DirOwned`; in a release that has lost its
heartbeat the age that counts is that of `meta.json`, which `Spoils` keeps fresh); a breaker
belongs to the one process that is cleaning up and was made in this tick (`BreakerOwned`), so
that none is ever taken down as stale (`NoRepair`); and who is about to wipe the directory
finds nobody's (`WipesDead`). The interplay is that a live process ends its steps within a
tick, so that a stale directory has no live owner.

`SyncLogProofs` proves of `SyncLog!Spec`, for any sets of writers, replayers and values and
any bound on events, types, `OnlyCommittedAnnounced`, `CopyIsPrefix`, that the module
implements `EventLog` (`Refinement`: the initial state maps to the initial state, and each
step to a step of the log or a stutter, by one lemma per action), from it that the log
has no gaps (`Gapless`, which every step of the log keeps), and that the rows of both files
are what their logs project to (`RowsFromLog`, of `RowsAreProjection`). The invariant adds that the
sequence row has not passed `runs`, and bounds the numbers in the file, each given once
(`Numbered`); that the event of an open transaction has the next number, and effects not yet
run are of an event in the log (`Pending`); and that what a replayer holds was announced and
follows what it had (`Copying`). The projection is a recursive function, which no induction
theorem is needed for: `Complete` says that some replay of the file ends in its rows, a
commit or a replay extends it by one event (`CompleteGrows`), and there is only one
(`ReplaysOnce`, from the least number at which two would differ).

`ProcessorProofs` proves `ProcessorTypeOK`, `SavedIsFinal`, `PartsEnd` and `RejectionStops`
of `Processor!Spec` for any sets of calls and headers, any threshold and any number of attempts. The invariant
relates what is in memory to what is stored: once cleaned up the stored message is the one
in memory (`Saved`), an interruption leaves its mark (`Marked`), what is open in the file
was reported late (`Closed`), a completed part's tool is done (`Truthful`), and a rejection
sets `blocked` for good (`Blocking`). `ProcessorTypeOK` bounds the wait between two attempts
by what a timer takes: the delay grows by a factor with each attempt, a recursive function
that exists and has numbers as values (`BackoffExists`, `BackoffNat`), and the caps apply
whatever the headers ask for (`DelaysCapped`); that the parts are in `order` once each needs
that memory holds no call that is not stored (`Begun`).

`EditingProofs` proves `EditingTypeOK`, `EditsSerialised` and `NoStaleWrite` of
`Editing!Spec` for any sets of sessions, calls and tools of a call. The invariant says at
which place which kinds of call can be (`Placed`), that who wrote last has got past its
write (`Writer`), that what an edit is about to replace in is the file, or was changed by
somebody who takes no lock (`EditBase`), and what has been looked at (`Knows`): of the changes
made while a session had nothing under way all were in the file at an earlier look if the
session's stamp is of the file that is there, and of a call under way the same holds for what
it has read together with what was looked at before it.

Only model-checked: all liveness (`CancelReturns`, `BegunJoinersReleased`, `LadderEnds`,
`WritersServed`, `DeadLocksGo`, `InterruptEnds`), which with ENABLED is out of the prover's
reach, and the findings, which are counterexamples.

## Not modelled, and why

Code that only reads, formats or merges (configuration, prompts' texts, routes, message
conversion, LSP, git wrappers), external services (models, MCP servers, npm), and one-time
migrations: nothing there is concurrent or stateful enough for a model to say more than a
test. The parts that are, and are still to come, are in the plan.

## Plan

Done: `Runner`, `SessionState`, `Engine`, `Permission`, `Lock`, `Flock`, `SyncLog` with
`EventLog` and `Projection`, `Processor`, `Editing`, their runs, the refinements of
`SingleFlight`, `ReadWriteLock` and `EventLog`, and the proofs above.
What would come next, in this order:

1. `Instance` and its state: provide, reload and disposeAll against the cache
   (`project/instance.ts:132` deletes an entry it has awaited past).
2. `Revert` with the runner: revert and unrevert against a run that starts; the summary's
   stale write.
3. `OAuthCallback`: the pending table, the reverse index and the token file.
4. Composition: `Processor` under `Engine`'s turn; `SessionState` with `Permission`: a cancel
   with open requests.
5. Abstract specifications of `Permission` (each request is decided by what its user said)
   and of `Editing`, to be implemented as `Runner` implements `SingleFlight`.
