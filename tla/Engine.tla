------------------------------- MODULE Engine -------------------------------
(***************************************************************************)
(* The turn loop of a session: runLoop of session/prompt/engine.ts, and    *)
(* the prompts that arrive while it runs (session/prompt.ts).              *)
(*                                                                         *)
(* Each pass of the loop reads the messages of the current epoch, scores   *)
(* the last assistant turn for stalling, and then does one thing: closes   *)
(* the epoch, asks for an intervention, nudges, ends, or takes a turn.     *)
(* The reading and the acting are apart: a prompt may be posted between    *)
(* them.  SessionState's runner sees to it that one loop runs at a time.   *)
(*                                                                         *)
(* An epoch is kept as the facts the loop derives from its messages.       *)
(* A turn has at most one tool part, so toolHistory is its last entry.     *)
(***************************************************************************)
EXTENDS Naturals, Sequences

CONSTANTS
  Prompts,      \* user messages that will be posted
  Subtasks,     \* those that carry a subtask part (slash commands)
  Flagged,      \* those whose text says that YOLO mode is on (run --yolo)
  Tools,        \* tools the model uses
  MaxTurns,     \* MAX_TURNS, 50 in the code
  SessionYolo,  \* session.yolo
  Yolos,        \* values of the yolo argument a prompt may bring
  ColdStart     \* whether .epoch-continuity.toon exists

ASSUME MaxTurnsAssumption == MaxTurns \in Nat
ASSUME ModeAssumption == /\ SessionYolo \in BOOLEAN /\ Yolos \subseteq BOOLEAN
                         /\ ColdStart \in BOOLEAN /\ Subtasks \subseteq Prompts
                         /\ Flagged \subseteq Prompts
ASSUME PromptsAssumption == "transition" \notin Prompts

VARIABLES
  pc,         \* where the loop is
  local,      \* runLoop's variables
  epoch,      \* the messages of the current epoch, as facts
  snap,       \* what the current pass has read of them
  requested,  \* session.interventionRequested
  posted,     \* prompts written to the session
  calling,    \* posted prompts whose caller has yet to call loop
  served,     \* prompts that were part of a model's input, or run as a subtask
  due,        \* prompts posted before the loop last read the messages
  exit,       \* how the last run ended
  since       \* history: turns taken, transitions and subtasks, see the properties

vars == <<pc, local, epoch, snap, requested, posted, calling, served, due, exit, since>>

(***************************************************************************)
(* Turns, epochs and the loop's variables.                                 *)
(***************************************************************************)
\* Of the tools the names tell apart what the loop does: whether one moves the project,
\* is neutral, looks around ("ls"), or was called wrongly ("invalid").
Advancing  == {"edit", "task_complete"}
ToolNames  == Advancing \cup {"none", "read", "grep", "ls", "invalid", "task"}
ASSUME ToolsAssumption == Tools \subseteq ToolNames \ {"none", "task"}
\* A name stands for a tool together with its input: "read" and "grep" may be two reads.
\* answer: it finished, not for "tool-calls", and has no tool part.  rambled: it was
\* aborted for rambling; the loop looks at no other error.
Assistant  == [tools: ToolNames, answer: BOOLEAN, rambled: BOOLEAN]
NoTurn     == [tools |-> "none", answer |-> FALSE, rambled |-> FALSE]

\* last: the last assistant message, if spoke.  userNewer: a user message follows it.
\* before, after: transition and subtask parts that no finished turn follows, oldest
\* first, on either side of the last assistant message.  nudged, completed: a stall
\* nudge, a task_complete call is there.  full: over the model's usable context.
Task  == {"transition"} \cup Subtasks
Epoch == [last: Assistant, spoke: BOOLEAN, userNewer: BOOLEAN, nudged: BOOLEAN,
          completed: BOOLEAN, full: BOOLEAN, cut: BOOLEAN,
          before: Seq(Task), after: Seq(Task), view: SUBSET Prompts]
EmptyEpoch == [last |-> NoTurn, spoke |-> FALSE, userNewer |-> FALSE, nudged |-> FALSE,
               completed |-> FALSE, full |-> FALSE, cut |-> FALSE,
               before |-> <<>>, after |-> <<>>, view |-> {}]

\* Thresholds are 10, 15 and 20, so scores above 20 are not told apart.
ScoreCap == 20
Local == [step: 0..MaxTurns + 1, score: 0..ScoreCap, target: Advancing \cup {"none"},
          lastTool: ToolNames, force: BOOLEAN, yolo: BOOLEAN]
NewLocal(y) == [step |-> 0, score |-> 0, target |-> "none", lastTool |-> "none",
                force |-> FALSE, yolo |-> y]

Pcs   == {"idle", "top", "decide", "worker", "handover", "subtask", "hook", "prepare", "llm"}
Exits == {"none", "answered", "short"}

EngineTypeOK ==
  /\ pc \in Pcs /\ local \in Local /\ epoch \in Epoch /\ snap \in Epoch
  /\ requested \in BOOLEAN /\ exit \in Exits
  /\ posted \subseteq Prompts /\ calling \subseteq posted
  /\ served \subseteq posted /\ due \subseteq posted
  /\ since \in [turns: 0..MaxTurns + 1, cut: BOOLEAN, ran: SUBSET Subtasks]

EngineInit ==
  /\ pc = "idle" /\ local = NewLocal(FALSE)
  /\ epoch = EmptyEpoch /\ snap = EmptyEpoch
  /\ requested = FALSE /\ posted = {} /\ calling = {} /\ served = {} /\ due = {}
  /\ exit = "none" /\ since = [turns |-> 0, cut |-> FALSE, ran |-> {}]

Yolo == SessionYolo \/ local.yolo
MinOf(a, b) == IF a < b THEN a ELSE b

\* History: the epoch is no longer an idle one.
Happened == [since EXCEPT !.cut = FALSE]

\* A user message is appended to the epoch.
Told(e) == [e EXCEPT !.userNewer = TRUE]

(***************************************************************************)
(* Prompts: the message is written, then the caller calls loop, which      *)
(* joins the run in progress or starts one.                                *)
(***************************************************************************)
Post(p) ==
  /\ p \notin posted
  /\ posted' = posted \cup {p} /\ calling' = calling \cup {p}
  /\ \E f \in BOOLEAN :
       epoch' = [Told(epoch) EXCEPT
                  !.view = @ \cup {p}, !.full = @ \/ f,
                  !.after = IF p \in Subtasks THEN Append(@, p) ELSE @]
  /\ since' = Happened
  /\ UNCHANGED <<pc, local, snap, requested, served, due, exit>>

JoinLoop(p) ==
  /\ p \in calling /\ pc # "idle"
  /\ calling' = calling \ {p}
  /\ UNCHANGED <<pc, local, epoch, snap, requested, posted, served, due, exit, since>>

StartLoop(p) ==
  /\ p \in calling /\ pc = "idle"
  /\ calling' = calling \ {p}
  /\ \E y \in Yolos : local' = NewLocal(y)
  /\ pc' = "top" /\ exit' = "none"
  /\ since' = [since EXCEPT !.turns = 0]
  /\ UNCHANGED <<epoch, snap, requested, posted, served, due>>

(***************************************************************************)
(* The top of a pass.                                                      *)
(***************************************************************************)
\* A run's variables end with it, and what a pass has read ends with the pass.
Leave(how) == /\ pc' = "idle" /\ exit' = how
              /\ local' = NewLocal(FALSE) /\ snap' = EmptyEpoch
NextPass   == pc' = "top" /\ snap' = EmptyEpoch

\* Variant: one turn more.
Exceeded_Late == local.step > MaxTurns + 1

Exceeded == local.step > MaxTurns

TooManyTurns ==
  /\ pc = "top" /\ Exceeded
  /\ Leave("short")
  /\ UNCHANGED <<epoch, requested, posted, calling, served, due, since>>

ReadEpoch ==
  /\ pc = "top" /\ ~ Exceeded
  /\ pc' = "decide" /\ snap' = epoch /\ due' = posted
  /\ UNCHANGED <<local, epoch, requested, posted, calling, served, exit, since>>

(***************************************************************************)
(* Closing the epoch: the Clerk writes its reports, then the message with  *)
(* the transition part cuts the epoch, then the handover message follows.  *)
(***************************************************************************)
MustTransition == local.force \/ snap.full

\* Variant: the request for a transition outlives it.
BeginTransition_KeepsForce ==
  /\ pc = "decide" /\ MustTransition
  /\ pc' = "worker" /\ snap' = EmptyEpoch
  /\ UNCHANGED <<local, epoch, requested, posted, calling, served, due, exit, since>>

BeginTransition ==
  /\ pc = "decide" /\ MustTransition
  /\ pc' = "worker" /\ snap' = EmptyEpoch /\ local' = [local EXCEPT !.force = FALSE]
  /\ UNCHANGED <<epoch, requested, posted, calling, served, due, exit, since>>

CutEpoch ==
  /\ pc = "worker"
  /\ epoch' = [EmptyEpoch EXCEPT !.userNewer = TRUE, !.cut = TRUE, !.after = <<"transition">>]
  /\ pc' = "handover"
  /\ since' = [since EXCEPT !.cut = TRUE]
  /\ UNCHANGED <<local, snap, requested, posted, calling, served, due, exit>>

Handover ==
  /\ pc = "handover"
  /\ epoch' = Told(epoch) /\ pc' = "top"
  /\ UNCHANGED <<local, snap, requested, posted, calling, served, due, exit, since>>

(***************************************************************************)
(* Scoring the last assistant turn, once per pass over it.                 *)
(***************************************************************************)
Tool     == snap.last.tools
Advances == Tool \in Advancing /\ Tool # local.target
Repeats  == Tool # "none" /\ Tool = local.lastTool

Penalty ==
  CASE Repeats                            -> 5
    [] ~Repeats /\ Tool = "invalid"       -> 5
    [] ~Repeats /\ Tool = "ls"            -> 3
    [] ~Repeats /\ Tool \notin {"none", "invalid", "ls"} -> 1
    [] Tool = "none" -> IF snap.spoke /\ Yolo THEN 10 ELSE 0

Scored ==
  [local EXCEPT
    !.score = CASE snap.last.rambled -> 15
                [] ~snap.last.rambled /\ Advances -> 0
                [] OTHER -> MinOf(@ + Penalty, ScoreCap),
    !.step = IF Advances THEN 0 ELSE @,
    !.target = IF Advances THEN Tool ELSE @,
    !.lastTool = IF Tool # "none" THEN Tool ELSE @]

HardReset == Scored.score >= 20 /\ Yolo

\* Variant: a score of 20 is left to the intervention.
After_NoReset == Scored

\* The loop's variables once the score has been acted on.
After == IF HardReset THEN [Scored EXCEPT !.force = TRUE, !.score = 0] ELSE Scored

Deciding     == pc = "decide" /\ ~ MustTransition
MustRequest  == ~ After.force /\ After.score >= 15
MustNudge    == ~ After.force /\ After.score >= 10 /\ Yolo /\ ~ snap.nudged
MayEnd       == snap.last.answer /\ ~ snap.userNewer

\* No user message ever holds the text "Stall Reason:" that would stop this from
\* being asked for again (line 598).
RequestIntervention ==
  /\ Deciding /\ MustRequest
  /\ requested' = TRUE /\ local' = After /\ NextPass
  /\ UNCHANGED <<epoch, posted, calling, served, due, exit, since>>

\* Only the general wording is recognised as a nudge later on (line 616); orientation
\* loops and failed mcpx calls get another.
Nudge ==
  /\ Deciding /\ ~ MustRequest /\ MustNudge
  /\ \E general \in BOOLEAN :
       /\ Repeats \/ Tool \notin {"ls", "invalid"} => general
       /\ ~ Repeats /\ Tool = "ls" => ~ general
       /\ epoch' = [Told(epoch) EXCEPT !.nudged = @ \/ general]
  /\ local' = After /\ NextPass
  /\ UNCHANGED <<requested, posted, calling, served, due, exit, since>>

\* The mode of the session, of the run, or by the text of a message of the epoch.
IsYolo == Yolo \/ snap.view \cap Flagged # {}

NudgeToComplete ==
  /\ Deciding /\ ~ MustRequest /\ ~ MustNudge /\ MayEnd
  /\ IsYolo /\ ~ snap.completed
  /\ epoch' = Told(epoch) /\ local' = After /\ NextPass
  /\ UNCHANGED <<requested, posted, calling, served, due, exit, since>>

EndAnswered ==
  /\ Deciding /\ ~ MustRequest /\ ~ MustNudge /\ MayEnd
  /\ ~ IsYolo \/ snap.completed
  /\ Leave("answered")
  /\ UNCHANGED <<epoch, requested, posted, calling, served, due, since>>

(***************************************************************************)
(* A turn: a subtask, or a call of the model.                              *)
(***************************************************************************)
TakesTurn == Deciding /\ ~ MustRequest /\ ~ MustNudge /\ ~ MayEnd
Tasks     == snap.before \o snap.after
IsSubtask == Tasks # <<>> /\ Head(Tasks) \in Subtasks
Stepped   == [After EXCEPT !.step = @ + 1]
Counted   == [since EXCEPT !.turns = @ + 1]

\* A new assistant message is appended to the epoch.
Appended(a) == [epoch EXCEPT !.last = a, !.spoke = TRUE, !.userNewer = FALSE,
                             !.before = epoch.before \o epoch.after, !.after = <<>>]

StartSubtask ==
  /\ TakesTurn /\ IsSubtask
  /\ epoch' = Appended([NoTurn EXCEPT !.tools = "task"])
  /\ served' = served \cup {Head(Tasks)}
  /\ local' = Stepped /\ pc' = "subtask" /\ snap' = EmptyEpoch /\ since' = Counted
  /\ UNCHANGED <<requested, posted, calling, due, exit>>

\* Its tool ends; the plugins' hooks are called before anything is stored.
EndSubtask ==
  /\ pc = "subtask" /\ pc' = "hook"
  /\ UNCHANGED <<local, epoch, snap, requested, posted, calling, served, due, exit, since>>

Ran(s) == [s EXCEPT !.ran = @ \cup {Head(epoch.before)}]  \* history

\* Its last message finishes with "tool-calls"; a command adds a user message.
StoreSubtask ==
  /\ pc = "hook"
  /\ \E command, f \in BOOLEAN :
       epoch' = [epoch EXCEPT !.before = <<>>, !.userNewer = @ \/ command, !.full = @ \/ f]
  /\ pc' = "top" /\ since' = Ran(Happened)
  /\ UNCHANGED <<local, snap, requested, posted, calling, served, due, exit>>

StartTurn ==
  /\ TakesTurn /\ ~ IsSubtask
  /\ epoch' = Appended(NoTurn)
  /\ local' = Stepped /\ pc' = "prepare" /\ since' = Counted
  /\ UNCHANGED <<snap, requested, posted, calling, served, due, exit>>

\* The agent of the last user message, or of the subtask, does not exist, or a hook fails.
FailTurn ==
  /\ (TakesTurn /\ ~ IsSubtask) \/ pc \in {"subtask", "hook"}
  /\ Leave("short")
  /\ UNCHANGED <<epoch, requested, posted, calling, served, due, since>>

\* The intervention handler: the side model's text becomes a user message and the
\* turn ends without a call of the model.  With no text the turn goes on.
Intervene ==
  /\ pc = "prepare" /\ requested /\ local.yolo
  /\ epoch' = Told(epoch) /\ requested' = FALSE /\ NextPass
  /\ since' = Happened
  /\ UNCHANGED <<local, posted, calling, served, due, exit>>

\* On the first turn of a run a continuity report with any text in it is appended as
\* a user message, and the messages are read again.
CallModel ==
  /\ pc = "prepare"
  /\ \/ /\ local.step = 1 /\ ColdStart /\ ~ snap.cut
        /\ epoch' = Told(epoch) /\ served' = served \cup epoch.view
     \/ /\ served' = served \cup snap.view /\ UNCHANGED epoch
  /\ pc' = "llm" /\ snap' = EmptyEpoch /\ since' = Happened
  /\ UNCHANGED <<local, requested, posted, calling, due, exit>>

\* What process may leave behind.  An error, a refused permission or a structured
\* answer ends the run, a transition or an overflow the epoch.  A turn that finished
\* leaves no task behind it to be done.
Turns == {a \in [tools: Tools \cup {"none"}, answer: BOOLEAN, rambled: BOOLEAN] :
            a.answer => a.tools = "none"}
Outcomes(a) == {"stopped", "compact"} \cup (IF a.rambled THEN {} ELSE {"continue"})

\* The assistant message as its turn leaves it.
Became(a, finished, f) ==
  [epoch EXCEPT !.last = a, !.full = @ \/ f,
                !.completed = @ \/ a.tools = "task_complete",
                !.before = IF finished \/ a.answer THEN <<>> ELSE @]
Progressed(a) == IF a.tools \in Advancing THEN [since EXCEPT !.turns = 0] ELSE since

EndTurn(a, o) ==
  /\ pc = "llm" /\ o \in Outcomes(a)
  /\ \E finished, f \in BOOLEAN : epoch' = Became(a, finished, f)
  /\ since' = Progressed(a)
  /\ IF o = "stopped" THEN Leave("short")
     ELSE NextPass /\ local' = [local EXCEPT !.force = @ \/ o = "compact"] /\ UNCHANGED exit
  /\ UNCHANGED <<requested, posted, calling, served, due>>

(***************************************************************************)
(* The run's fiber is interrupted, at any step.                            *)
(***************************************************************************)
\* The message of a subtask is finished when its tool is interrupted; before and after
\* the tool it is not, except by what StoreSubtask had stored by then.
\* Variant: an interrupted tool leaves the message as it was.
Stopped_LeavesTask(finished) ==
  /\ UNCHANGED epoch
  /\ since' = IF finished THEN Ran(since) ELSE since

Stopped(finished) ==
  IF finished THEN epoch' = [epoch EXCEPT !.before = <<>>] /\ since' = Ran(since)
              ELSE UNCHANGED <<epoch, since>>

Interrupted ==
  /\ pc # "idle" /\ Leave("short")
  /\ \/ /\ pc = "llm" /\ UNCHANGED since
        /\ \E a \in Turns, finished, f \in BOOLEAN : epoch' = Became(a, finished, f)
     \/ pc \in {"subtask", "hook"} /\ \E finished \in BOOLEAN : Stopped(finished)
     \/ pc = "prepare" /\ UNCHANGED epoch /\ since' = Happened
     \/ pc \notin {"llm", "subtask", "hook", "prepare"} /\ UNCHANGED <<epoch, since>>
  /\ UNCHANGED <<requested, posted, calling, served, due>>

(***************************************************************************)
(* Specification.                                                          *)
(***************************************************************************)
Pass ==
  \/ TooManyTurns \/ ReadEpoch
  \/ BeginTransition \/ CutEpoch \/ Handover
  \/ RequestIntervention \/ Nudge \/ NudgeToComplete \/ EndAnswered
  \/ StartSubtask \/ StartTurn \/ FailTurn \/ Intervene \/ CallModel

EngineNext ==
  \/ \E p \in Prompts : Post(p) \/ JoinLoop(p) \/ StartLoop(p)
  \/ Pass
  \/ EndSubtask \/ StoreSubtask
  \/ \E a \in Turns, o \in {"stopped", "compact", "continue"} : EndTurn(a, o)
  \/ Interrupted

EngineSpec == EngineInit /\ [][EngineNext]_vars

\* The loop's own steps are taken; a model, a subtask and a user need not answer.
EngineFairSpec == EngineSpec /\ WF_vars(Pass)

(***************************************************************************)
(* Properties.                                                             *)
(***************************************************************************)
\* A run takes at most MAX_TURNS + 1 turns in a row without a tool of the advancing kind:
\* the counter is tested before it is raised (engine.ts 276, 738), so that one turn more is
\* taken than the ceiling of 50 that docs/doom_protection.md 35 speaks of.  Of edits that
\* repeat, which the document also counts, this says nothing.
TurnsBounded == since.turns <= MaxTurns + 1

\* Two transitions have a turn, an intervention or a prompt between them: the Clerk is
\* never asked to close an epoch in which nothing happened.
NoIdleTransition == pc = "worker" => ~ since.cut

\* A subtask whose message was finished, after its tool had ended or when the tool was
\* interrupted, is not run again by a later pass or a later run, whatever was posted in the
\* meantime (engine.ts 292-299, 748; orchestrator.ts 301-316, 333).  One that stopped
\* between the end of its tool and the finishing of its message, in a plugin's hook, is.
SubtaskRunsOnce == [][pc = "decide" /\ pc' = "subtask" => Head(Tasks) \notin since.ran]_vars

\* In YOLO mode the ladder of nudge, intervention and hard reset does not go round on
\* itself: below the intervention threshold the loop always gets on to a turn, a
\* transition or its end, unless it starts from a turn aborted for rambling.
LadderEnds ==
  (pc = "top" /\ Yolo /\ local.score < 15 /\ ~ epoch.last.rambled)
     ~> pc \in {"prepare", "subtask", "worker", "idle"}

\* Once an intervention is requested the loop "loops back to pick it up" (engine.ts
\* 611): it gets to a turn, closes the epoch or ends.
RequestPickedUp ==
  (requested /\ pc = "top") ~> pc \in {"prepare", "subtask", "worker", "idle"}

\* A prompt submitted during a run is included in the next input of the model
\* (prompt-effect.test.ts 763): a run that ends with an answer has shown the model
\* every prompt that was there when it last read the session.
AnsweredServesAll == pc = "idle" /\ exit = "answered" => due \subseteq served

=============================================================================
