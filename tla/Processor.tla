----------------------------- MODULE Processor -----------------------------
(***************************************************************************)
(* session/processor.ts: one assistant message filled from a model's       *)
(* stream, with the retries of session/retry.ts, and the tools that the    *)
(* AI SDK executes meanwhile on promises of their own                      *)
(* (session/prompt/orchestrator.ts, resolveTools).                         *)
(*                                                                         *)
(* ctx is the processor's context in memory, db the message and its tool   *)
(* parts as stored, tool the executions.  The handling of an event is one  *)
(* step (what it awaits is synchronous), except where it asks the user.    *)
(***************************************************************************)
EXTENDS Integers, Sequences

CONSTANTS Calls,          \* ids of tool calls
          Headers,        \* delays a server asks for (retry-after, retry-after-ms)
          DoomThreshold,  \* DOOM_LOOP_THRESHOLD
          ShouldBreak,    \* continue_loop_on_deny is not set
          MaxAttempts,    \* bound: attempts of one stream
          InitialDelay, Factor, MaxPlain, MaxDelay  \* RETRY_... in units of time

ASSUME BoundsAssumption == /\ DoomThreshold \in Nat \ {0}
                           /\ MaxAttempts \in Nat \ {0}
                           /\ ShouldBreak \in BOOLEAN
ASSUME DelayAssumption == /\ Headers \subseteq Nat
                          /\ {InitialDelay, Factor, MaxPlain, MaxDelay} \subseteq Nat \ {0}
                          /\ MaxPlain <= MaxDelay

VARIABLES
  phase,       \* where process() is
  failure,     \* the error of the attempt that failed
  ctx,         \* ProcessorContext
  db,          \* the stored message and tool parts
  tool,        \* executions of the tools
  order,       \* tool parts in the order of their ids
  attempt,     \* attempts made
  wait,        \* the delay before the next attempt, 0 when none is waited for
  status,      \* SessionStatus
  interrupted, \* the fiber was interrupted
  result,      \* what process() returned
  rejections,  \* history: the calls whose rejection the stream delivered
  late         \* history: the calls reported on after the message was completed

vars == <<phase, failure, ctx, db, tool, order, attempt, wait, status, interrupted, result,
          rejections, late>>

Ended == {"returned", "interrupted"}
Phases == {"stream", "asking", "failed", "waiting", "cleanup", "cleaned"} \cup Ended
Failures == {"none", "retryable", "overflow", "fatal"}
Errors == {"none", "rambling", "failed", "aborted"}
OpenStates == {"pending", "running"}
PartStates == {"none", "completed", "error"} \cup OpenStates
Outcomes == {"none", "ok", "transition", "error", "rejected"}

Context == [toolcalls : [Calls -> {"absent"} \cup OpenStates],
            open : SUBSET {"text", "reasoning"},
            compact : BOOLEAN, loop : BOOLEAN, blocked : BOOLEAN, transition : BOOLEAN,
            error : Errors, completed : BOOLEAN]
Stored == [part : [Calls -> PartStates], error : Errors, completed : BOOLEAN]
Tool == [run : {"no", "running", "done"}, of : 0 .. MaxAttempts, outcome : Outcomes]

ProcessorTypeOK ==
  /\ phase \in Phases
  /\ failure \in Failures
  /\ ctx \in Context
  /\ db \in Stored
  /\ tool \in [Calls -> Tool]
  /\ order \in Seq(Calls)
  /\ \A i, j \in DOMAIN order : order[i] = order[j] => i = j
  /\ attempt \in 1 .. MaxAttempts
  /\ wait \in 0 .. MaxDelay
  /\ status \in {"busy", "retry", "idle"}
  /\ interrupted \in BOOLEAN
  /\ result \in {"none", "compact", "stop", "continue"}
  /\ rejections \subseteq Calls /\ late \subseteq Calls
  \* what is in memory as pending or running is stored as begun
  /\ \A c \in Calls : ctx.toolcalls[c] # "absent" => db.part[c] # "none"

Init ==
  /\ phase = "stream"
  /\ failure = "none"
  /\ ctx = [toolcalls |-> [c \in Calls |-> "absent"], open |-> {}, compact |-> FALSE,
            loop |-> FALSE, blocked |-> FALSE, transition |-> FALSE,
            error |-> "none", completed |-> FALSE]
  /\ db = [part |-> [c \in Calls |-> "none"], error |-> "none", completed |-> FALSE]
  /\ tool = [c \in Calls |-> [run |-> "no", of |-> 0, outcome |-> "none"]]
  /\ order = <<>>
  /\ attempt = 1
  /\ wait = 0
  /\ status = "busy"
  /\ interrupted = FALSE
  /\ result = "none"
  /\ rejections = {}
  /\ late = {}

-----------------------------------------------------------------------------
(* handleEvent *)

\* Events are taken until one of these flags is set (Stream.takeUntil).
Reading == phase = "stream" /\ ~ctx.compact /\ ~ctx.loop

Memory(c, state) == [ctx EXCEPT !.toolcalls[c] = state]
Part(c, state) == [db EXCEPT !.part[c] = state]

Begin(kind) ==
  /\ Reading
  /\ ctx' = [ctx EXCEPT !.open = @ \cup {kind}]
  /\ UNCHANGED <<phase, failure, db, tool, order, attempt, wait, status, interrupted, result,
                 rejections, late>>

End(kind) ==
  /\ Reading
  /\ kind \in ctx.open
  /\ ctx' = [ctx EXCEPT !.open = @ \ {kind}]
  /\ UNCHANGED <<phase, failure, db, tool, order, attempt, wait, status, interrupted, result,
                 rejections, late>>

\* The model's side says in the text that the context is full.
OverflowText ==
  /\ Reading
  /\ ctx' = [ctx EXCEPT !.open = @ \cup {"text"}, !.compact = TRUE]
  /\ UNCHANGED <<phase, failure, db, tool, order, attempt, wait, status, interrupted, result,
                 rejections, late>>

\* The text repeats itself, or is long while no tool call is in memory.
Ramble ==
  /\ Reading
  /\ ctx' = [ctx EXCEPT !.open = @ \cup {"text"}, !.loop = TRUE, !.error = "rambling"]
  /\ UNCHANGED <<phase, failure, db, tool, order, attempt, wait, status, interrupted, result,
                 rejections, late>>

InputStart(c) ==
  /\ Reading
  /\ db.part[c] = "none"
  /\ ctx' = Memory(c, "pending")
  /\ db' = Part(c, "pending")
  /\ tool' = [tool EXCEPT ![c].of = attempt]
  /\ order' = Append(order, c)
  /\ UNCHANGED <<phase, failure, attempt, wait, status, interrupted, result, rejections,
                 late>>

\* The last parts are begun calls, which may be of the same tool with the same input.
MayDoom(part) ==
  /\ Len(order) >= DoomThreshold
  /\ \A i \in Len(order) - DoomThreshold + 1 .. Len(order) : part[order[i]] # "pending"

\* The call of the current attempt, which the loop check may have to ask about.
ToolCall(c) ==
  /\ Reading
  /\ tool[c].of = attempt
  /\ ctx.toolcalls[c] = "pending"
  /\ ctx' = Memory(c, "running")
  /\ db' = Part(c, "running")
  /\ phase' \in {"stream"} \cup (IF MayDoom(db'.part) THEN {"asking"} ELSE {})
  /\ UNCHANGED <<failure, tool, order, attempt, wait, status, interrupted, result, rejections,
                 late>>

Answered ==
  /\ phase = "asking"
  /\ phase' = "stream"
  /\ UNCHANGED <<failure, ctx, db, tool, order, attempt, wait, status, interrupted, result,
                 rejections, late>>

\* A rejection of the loop check fails the stream.
Refused ==
  /\ phase = "asking"
  /\ phase' = "failed"
  /\ failure' = "fatal"
  /\ UNCHANGED <<ctx, db, tool, order, attempt, wait, status, interrupted, result, rejections,
                 late>>

\* What the stream delivers of a tool that is done: only to the attempt that called it.
Delivered(c) ==
  /\ Reading
  /\ tool[c].of = attempt
  /\ tool[c].run = "done"
  /\ ctx.toolcalls[c] = "running"

ToolResult(c) ==
  /\ Delivered(c)
  /\ tool[c].outcome \in {"ok", "transition"}
  /\ db' = Part(c, "completed")
  /\ ctx' = [Memory(c, "absent") EXCEPT !.transition = @ \/ tool[c].outcome = "transition"]
  /\ UNCHANGED <<phase, failure, tool, order, attempt, wait, status, interrupted, result,
                 rejections, late>>

\* Variant: each failed tool decides anew whether the loop is blocked.
ToolError_LastCounts(c) ==
  /\ Delivered(c)
  /\ tool[c].outcome \in {"error", "rejected"}
  /\ db' = Part(c, "error")
  /\ ctx' = [Memory(c, "absent") EXCEPT
               !.blocked = tool[c].outcome = "rejected" /\ ShouldBreak]
  /\ rejections' = IF tool[c].outcome = "rejected" THEN rejections \cup {c} ELSE rejections
  /\ UNCHANGED <<phase, failure, tool, order, attempt, wait, status, interrupted, result, late>>

ToolError(c) ==
  /\ Delivered(c)
  /\ tool[c].outcome \in {"error", "rejected"}
  /\ db' = Part(c, "error")
  /\ ctx' = [Memory(c, "absent") EXCEPT
               !.blocked = IF tool[c].outcome = "rejected" THEN ShouldBreak ELSE @]
  /\ rejections' = IF tool[c].outcome = "rejected" THEN rejections \cup {c} ELSE rejections
  /\ UNCHANGED <<phase, failure, tool, order, attempt, wait, status, interrupted, result, late>>

\* finish-step stores the message; the tokens may overflow the context.
FinishStep ==
  /\ Reading
  /\ \E overflow \in BOOLEAN : ctx' = [ctx EXCEPT !.compact = overflow]
  /\ db' = [db EXCEPT !.error = ctx.error, !.completed = ctx.completed]
  /\ UNCHANGED <<phase, failure, tool, order, attempt, wait, status, interrupted, result,
                 rejections, late>>

\* The stream is cut by a flag, or ends once the SDK has the results it waits for.
StreamEnds ==
  /\ phase = "stream"
  /\ Reading => \A c \in Calls : tool[c].of = attempt =>
                   tool[c].run = "no" \/ ctx.toolcalls[c] = "absent"
  /\ phase' = "cleanup"
  /\ UNCHANGED <<failure, ctx, db, tool, order, attempt, wait, status, interrupted, result,
                 rejections, late>>

StreamFails ==
  /\ Reading
  /\ phase' = "failed"
  /\ failure' \in {"overflow", "fatal"} \cup (IF attempt < MaxAttempts THEN {"retryable"} ELSE {})
  /\ UNCHANGED <<ctx, db, tool, order, attempt, wait, status, interrupted, result, rejections,
                 late>>

-----------------------------------------------------------------------------
(* Retries, the end of process(), and its interruption *)

Least(a, b) == IF a < b THEN a ELSE b

\* The delay grows by the same factor from attempt to attempt.
Backoff[n \in 1 .. MaxAttempts] ==
  IF n = 1 THEN InitialDelay ELSE Factor * Backoff[n - 1]

\* Variant: only what a header asks for is capped.
Delays_Uncapped(n) == {Least(h, MaxDelay) : h \in Headers} \cup {Backoff[n]}

\* The delays before attempt n + 1: what a header asks for, the backoff of an
\* answer whose headers name no delay, and that of an error without headers.
Delays(n) == {Least(h, MaxDelay) : h \in Headers}
               \cup {Least(Backoff[n], MaxDelay), Least(Backoff[n], MaxPlain)}

Retry ==
  /\ phase = "failed"
  /\ failure = "retryable"
  /\ phase' = "waiting"
  /\ wait' \in Delays(attempt)
  /\ status' = "retry"
  /\ UNCHANGED <<failure, ctx, db, tool, order, attempt, interrupted, result, rejections, late>>

\* The next attempt forgets the open text and reasoning, and keeps the tool calls.
Resume ==
  /\ phase = "waiting"
  /\ phase' = "stream"
  /\ failure' = "none"
  /\ attempt' = attempt + 1
  /\ wait' = 0
  /\ ctx' = [ctx EXCEPT !.open = {}]
  /\ UNCHANGED <<db, tool, order, status, interrupted, result, rejections, late>>

\* halt: the session shows as idle before cleanup has run.
Halt ==
  /\ phase = "failed"
  /\ failure # "retryable"
  /\ IF failure = "overflow"
       THEN ctx' = [ctx EXCEPT !.compact = TRUE] /\ UNCHANGED status
       ELSE /\ ctx' = [ctx EXCEPT !.error = IF @ = "none" /\ ~ctx.loop THEN "failed" ELSE @]
            /\ status' = "idle"
  /\ phase' = "cleanup"
  /\ UNCHANGED <<failure, db, tool, order, attempt, wait, interrupted, result, rejections, late>>

\* Variant: only the calls that are in progress are ended.
Cleanup_RunningOnly ==
  /\ phase = "cleanup"
  /\ phase' = "cleaned"
  /\ ctx' = [ctx EXCEPT !.open = {}, !.completed = TRUE]
  /\ db' = [part |-> [c \in Calls |-> IF db.part[c] = "running" THEN "error" ELSE db.part[c]],
            error |-> ctx.error, completed |-> TRUE]
  /\ UNCHANGED <<failure, tool, order, attempt, wait, status, interrupted, result, rejections,
                 late>>

\* cleanup, once it has the patch: the stored parts that are not over are ended.
Cleanup ==
  /\ phase = "cleanup"
  /\ phase' = "cleaned"
  /\ ctx' = [ctx EXCEPT !.open = {}, !.completed = TRUE]
  /\ db' = [part |-> [c \in Calls |-> IF db.part[c] \in OpenStates THEN "error" ELSE db.part[c]],
            error |-> ctx.error, completed |-> TRUE]
  /\ UNCHANGED <<failure, tool, order, attempt, wait, status, interrupted, result, rejections,
                 late>>

Result == IF ctx.compact \/ ctx.transition THEN "compact"
          ELSE IF ctx.blocked \/ ctx.error # "none" \/ ctx.loop THEN "stop" ELSE "continue"

Return ==
  /\ phase = "cleaned"
  /\ ~interrupted
  /\ phase' = "returned"
  /\ result' = Result
  /\ UNCHANGED <<failure, ctx, db, tool, order, attempt, wait, status, interrupted, rejections,
                 late>>

\* Variant: the wait between two attempts takes no notice of an interruption.
Interrupt_Deaf ==
  /\ phase \notin Ended
  /\ ~interrupted
  /\ interrupted' = TRUE
  /\ phase' = IF phase \in {"waiting", "cleaned"} THEN phase ELSE "cleanup"
  /\ UNCHANGED <<failure, ctx, db, tool, order, attempt, wait, status, result, rejections, late>>

\* Whatever the fiber does, cleanup (Effect.ensuring) is run and not cut short.
Interrupt ==
  /\ phase \notin Ended
  /\ ~interrupted
  /\ interrupted' = TRUE
  /\ phase' = IF phase = "cleaned" THEN phase ELSE "cleanup"
  /\ wait' = 0
  /\ UNCHANGED <<failure, ctx, db, tool, order, attempt, status, result, rejections, late>>

\* Variant: the message is not stored again after the error was added.
Abort_Unsaved ==
  /\ phase = "cleaned"
  /\ interrupted
  /\ phase' = "interrupted"
  /\ ctx' = [ctx EXCEPT !.error = IF @ = "none" THEN "aborted" ELSE @]
  /\ status' = IF ctx.error = "none" THEN "idle" ELSE status
  /\ UNCHANGED <<failure, db, tool, order, attempt, wait, interrupted, result, rejections, late>>

\* abort, which onInterrupt runs after cleanup: halt unless an error is there, store.
Abort ==
  /\ phase = "cleaned"
  /\ interrupted
  /\ phase' = "interrupted"
  /\ ctx' = [ctx EXCEPT !.error = IF @ = "none" THEN "aborted" ELSE @]
  /\ db' = [db EXCEPT !.error = ctx'.error]
  /\ status' = IF ctx.error = "none" THEN "idle" ELSE status
  /\ UNCHANGED <<failure, tool, order, attempt, wait, interrupted, result, rejections, late>>

-----------------------------------------------------------------------------
(* The tools, which run beside the processor and may outlive it *)

\* The SDK starts a tool while it reads the attempt's stream ahead of the processor.
Execute(c) ==
  /\ phase \in {"stream", "asking"}
  /\ tool[c].of = attempt
  /\ tool[c].run = "no"
  /\ tool' = [tool EXCEPT ![c].run = "running"]
  /\ UNCHANGED <<phase, failure, ctx, db, order, attempt, wait, status, interrupted, result,
                 rejections, late>>

\* Tool.Context.metadata: stores the part as running, by what memory says of the call.
Metadata(c) ==
  /\ tool[c].run = "running"
  /\ ctx.toolcalls[c] \in OpenStates
  /\ db' = Part(c, "running")
  /\ late' = IF ctx.completed THEN late \cup {c} ELSE late
  /\ UNCHANGED <<phase, failure, ctx, tool, order, attempt, wait, status, interrupted, result,
                 rejections>>

ToolDone(c) ==
  /\ tool[c].run = "running"
  /\ \E o \in Outcomes \ {"none"} : tool' = [tool EXCEPT ![c].run = "done", ![c].outcome = o]
  /\ UNCHANGED <<phase, failure, ctx, db, order, attempt, wait, status, interrupted, result,
                 rejections, late>>

-----------------------------------------------------------------------------
Event == \/ \E kind \in {"text", "reasoning"} : Begin(kind) \/ End(kind)
         \/ OverflowText
         \/ Ramble
         \/ \E c \in Calls : InputStart(c) \/ ToolCall(c) \/ ToolResult(c) \/ ToolError(c)
         \/ FinishStep

\* What the processor does by itself once its stream is over.
Own == Retry \/ Resume \/ Halt \/ Cleanup \/ Return \/ Abort

Next == \/ Event
        \/ Answered
        \/ Refused
        \/ StreamEnds
        \/ StreamFails
        \/ Own
        \/ Interrupt
        \/ \E c \in Calls : Execute(c) \/ Metadata(c) \/ ToolDone(c)

Spec == Init /\ [][Next]_vars

\* The fiber is scheduled and its timer fires; nothing is owed by the model,
\* the user or a tool.
FairSpec == Spec /\ WF_vars(Own)

-----------------------------------------------------------------------------
(* Properties *)

\* When process() is over what is stored is the message in memory: completed,
\* with its error; an interrupted one always has an error, and one that the
\* interruption itself marked leaves the session idle.
SavedIsFinal ==
  phase \in Ended =>
    /\ db.completed
    /\ db.error = ctx.error
    /\ phase = "interrupted" => db.error # "none"
    /\ ctx.error = "aborted" => status = "idle"

\* When process() is over no tool part is left open in any attempt, save by a
\* tool that reports progress after the message was completed; and a part is
\* shown as completed only if its tool is done and did not fail.
PartsEnd ==
  \A c \in Calls :
    /\ phase \in Ended /\ db.part[c] \in OpenStates => c \in late
    /\ db.part[c] = "completed" =>
         tool[c].run = "done" /\ tool[c].outcome \in {"ok", "transition"}

\* A rejection that the stream delivered is not forgotten when other calls of
\* the message fail or succeed after it, nor by a retry: the loop does not
\* simply go on (unless it is configured to).
RejectionStops ==
  phase = "returned" /\ ShouldBreak /\ rejections # {} => result # "continue"

\* An interruption is carried out wherever it finds the processor.
InterruptEnds == interrupted ~> phase = "interrupted"
=============================================================================
