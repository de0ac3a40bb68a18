-------------------------- MODULE ProcessorProofs --------------------------
(***************************************************************************)
(* Proofs about Processor for any tool calls, any number of attempts and   *)
(* any delays: what process() leaves behind when it returns or has been    *)
(* interrupted.                                                            *)
(***************************************************************************)
EXTENDS Processor, SequenceTheorems, WellFoundedInduction, TLAPS

-----------------------------------------------------------------------------
(* The inductive invariant *)

\* The types of what the properties speak of; an attempt is retried only below the bound.
Types ==
  /\ phase \in Phases /\ failure \in Failures
  /\ ctx \in Context
  /\ db \in Stored
  /\ tool \in [Calls -> Tool]
  /\ attempt \in 1 .. MaxAttempts
  /\ failure = "retryable" /\ phase \in {"failed", "waiting"} => attempt < MaxAttempts
  /\ phase = "waiting" => failure = "retryable"
  /\ status \in {"busy", "retry", "idle"}
  /\ interrupted \in BOOLEAN
  /\ rejections \in SUBSET Calls /\ late \in SUBSET Calls

\* After cleanup.
Over == {"cleaned"} \cup Ended

\* After cleanup the stored message is the one in memory, and completed.
Saved == phase \in Over =>
           ctx.completed = TRUE /\ db.completed = TRUE /\ db.error = ctx.error

\* Only the end of an interruption marks a message as aborted, and it marks every one
\* that has no other error.
Marked == /\ phase = "interrupted" => ctx.error # "none"
          /\ ctx.error = "aborted" => phase = "interrupted" /\ status = "idle"

\* After cleanup a part is open only by a late report.
Closed == \A c \in Calls : phase \in Over /\ db.part[c] \in OpenStates => c \in late

\* A completed part's tool is done.
Truthful == \A c \in Calls :
              db.part[c] = "completed" =>
                tool[c].run = "done" /\ tool[c].outcome \in {"ok", "transition"}

\* A delivered rejection blocks, and the result is computed from what memory says.
Blocking == /\ ShouldBreak /\ rejections # {} => ctx.blocked = TRUE
            /\ phase = "returned" => result = Result

Inv == Saved /\ Marked /\ Closed /\ Truthful /\ Blocking

IInv == Types /\ Inv

-----------------------------------------------------------------------------
(* Types *)

LEMMA InitTypes == Init => Types
<1> SUFFICES ASSUME Init PROVE Types
  OBVIOUS
<1>1. ctx \in Context
  BY DEF Init, Context, Errors
<1>2. db \in Stored
  BY DEF Init, Stored, PartStates, Errors
<1>3. tool \in [Calls -> Tool]
  BY BoundsAssumption DEF Init, Tool, Outcomes
<1>4. /\ phase \in Phases /\ failure \in Failures /\ failure # "retryable"
      /\ phase # "waiting"
      /\ status \in {"busy", "retry", "idle"} /\ interrupted \in BOOLEAN
      /\ rejections \in SUBSET Calls /\ late \in SUBSET Calls
  BY DEF Init, Phases, Failures
<1>5. attempt \in 1 .. MaxAttempts
  BY BoundsAssumption DEF Init
<1> QED
  BY <1>1, <1>2, <1>3, <1>4, <1>5 DEF Types

\* Changes of one call in memory and in the store.
LEMMA CallTypes ==
  ASSUME Types, NEW c \in Calls
  PROVE  /\ \A s \in {"absent"} \cup OpenStates : Memory(c, s) \in Context
         /\ \A s \in PartStates : Part(c, s) \in Stored
  BY DEF Types, Memory, Part, Context, Stored

\* Events that concern no call.
LEMMA TypesText ==
  ASSUME Types,
         \/ \E kind \in {"text", "reasoning"} : Begin(kind) \/ End(kind)
         \/ OverflowText \/ Ramble \/ FinishStep
  PROVE  Types'
<1>1. ctx' \in Context
  <2>1. CASE \E kind \in {"text", "reasoning"} : Begin(kind) \/ End(kind)
    BY <2>1 DEF Types, Context, Begin, End
  <2>2. CASE OverflowText
    BY <2>2 DEF Types, Context, OverflowText
  <2>3. CASE Ramble
    BY <2>3 DEF Types, Context, Ramble, Errors
  <2>4. CASE FinishStep
    BY <2>4 DEF Types, Context, FinishStep
  <2> QED
    BY <2>1, <2>2, <2>3, <2>4
<1>2. db' \in Stored
  BY DEF Types, Context, Stored, Begin, End, OverflowText, Ramble, FinishStep
<1> QED
  BY <1>1, <1>2 DEF Types, Begin, End, OverflowText, Ramble, FinishStep

\* Events of one call.
LEMMA TypesCall ==
  ASSUME Types, NEW c \in Calls,
         InputStart(c) \/ ToolCall(c) \/ ToolResult(c) \/ ToolError(c)
  PROVE  Types'
<1>1. CASE InputStart(c)
  <2>1. ctx' \in Context /\ db' \in Stored
    BY <1>1, CallTypes DEF InputStart, OpenStates, PartStates
  <2>2. tool' \in [Calls -> Tool]
    <3> PICK t : t = [tool[c] EXCEPT !.of = attempt]
      OBVIOUS
    <3>1. tool' = [tool EXCEPT ![c] = t] /\ tool \in [Calls -> Tool]
      BY <1>1 DEF InputStart, Types
    <3>2. attempt \in 0 .. MaxAttempts
      BY BoundsAssumption DEF Types
    <3>3. t \in Tool
      BY <3>1, <3>2 DEF Tool
    <3> QED
      BY <3>1, <3>3
  <2> QED
    BY <1>1, <2>1, <2>2 DEF Types, InputStart
<1>2. CASE ToolCall(c)
  <2>1. ctx' \in Context /\ db' \in Stored /\ phase' \in {"stream", "asking"}
    BY <1>2, CallTypes DEF ToolCall, OpenStates, PartStates
  <2> QED
    BY <1>2, <2>1 DEF Types, ToolCall, Phases
<1>3. CASE ToolResult(c)
  <2>1. ctx' \in Context /\ db' \in Stored
    <3>1. Memory(c, "absent") \in Context
      BY CallTypes
    <3> PICK m : m = Memory(c, "absent")
      OBVIOUS
    <3> PICK b \in BOOLEAN : b = (m.transition \/ tool[c].outcome = "transition")
      OBVIOUS
    <3>2. ctx' = [m EXCEPT !.transition = b]
      BY <1>3 DEF ToolResult
    <3> QED
      BY <1>3, <3>1, <3>2, CallTypes DEF ToolResult, PartStates, Context
  <2> QED
    BY <1>3, <2>1 DEF Types, ToolResult
<1>4. CASE ToolError(c)
  <2>1. ctx' \in Context /\ db' \in Stored
    <3>1. Memory(c, "absent") \in Context
      BY CallTypes
    <3> PICK m : m = Memory(c, "absent")
      OBVIOUS
    <3> PICK b : b = IF tool[c].outcome = "rejected" THEN ShouldBreak ELSE m.blocked
      OBVIOUS
    <3>2. ctx' = [m EXCEPT !.blocked = b]
      BY <1>4 DEF ToolError
    <3>3. b \in BOOLEAN
      BY <3>1, BoundsAssumption DEF Context
    <3> QED
      BY <1>4, <3>1, <3>2, <3>3, CallTypes DEF ToolError, PartStates, Context
  <2>2. rejections' \in SUBSET Calls
    BY <1>4 DEF Types, ToolError
  <2> QED
    BY <1>4, <2>1, <2>2 DEF Types, ToolError
<1> QED
  BY <1>1, <1>2, <1>3, <1>4

\* The processor's other steps.
LEMMA TypesOwn ==
  ASSUME Types,
         Answered \/ Refused \/ StreamEnds \/ StreamFails \/ Own \/ Interrupt
  PROVE  Types'
<1>1. CASE Answered \/ Refused \/ StreamEnds
  BY <1>1 DEF Types, Answered, Refused, StreamEnds, Phases, Failures
<1>2. CASE StreamFails
  BY <1>2 DEF Types, StreamFails, Phases, Failures
<1>3. CASE Retry
  BY <1>3 DEF Types, Retry, Phases
<1>4. CASE Resume
  <2>1. attempt' \in 1 .. MaxAttempts
    BY <1>4, BoundsAssumption DEF Types, Resume
  <2>2. ctx' \in Context
    BY <1>4 DEF Types, Resume, Context
  <2> QED
    BY <1>4, <2>1, <2>2 DEF Types, Resume, Phases, Failures
<1>5. CASE Halt
  <2>1. ctx' \in Context
    <3>1. CASE failure = "overflow"
      BY <1>5, <3>1 DEF Types, Halt, Context
    <3>2. CASE failure # "overflow"
      <4> PICK e : e = IF ctx.error = "none" /\ ~ctx.loop THEN "failed" ELSE ctx.error
        OBVIOUS
      <4>1. ctx' = [ctx EXCEPT !.error = e]
        BY <1>5, <3>2 DEF Halt
      <4>2. e \in Errors /\ ctx \in Context
        BY DEF Types, Context, Errors
      <4> QED
        BY <4>1, <4>2 DEF Context
    <3> QED
      BY <3>1, <3>2
  <2>2. status' \in {"busy", "retry", "idle"}
    BY <1>5 DEF Types, Halt
  <2> QED
    BY <1>5, <2>1, <2>2 DEF Types, Halt, Phases
<1>6. CASE Cleanup
  <2>1. ctx' \in Context
    BY <1>6 DEF Types, Cleanup, Context
  <2>2. db' \in Stored
    <3> PICK f : f = [c \in Calls |-> IF db.part[c] \in OpenStates THEN "error" ELSE db.part[c]]
      OBVIOUS
    <3>1. f \in [Calls -> PartStates]
      BY DEF Types, Stored, PartStates
    <3>2. db' = [part |-> f, error |-> ctx.error, completed |-> TRUE] /\ ctx.error \in Errors
      BY <1>6 DEF Cleanup, Types, Context
    <3> QED
      BY <3>1, <3>2 DEF Stored
  <2> QED
    BY <1>6, <2>1, <2>2 DEF Types, Cleanup, Phases
<1>7. CASE Return
  BY <1>7 DEF Types, Return, Phases, Ended
<1>8. CASE Abort
  <2> PICK e : e = IF ctx.error = "none" THEN "aborted" ELSE ctx.error
    OBVIOUS
  <2>1. e \in Errors /\ ctx \in Context /\ db \in Stored
    BY DEF Types, Context, Errors
  <2>2. ctx' = [ctx EXCEPT !.error = e]
    BY <1>8 DEF Abort
  <2>3. ctx'.error = e
    BY <2>1, <2>2 DEF Context
  <2>4. db' = [db EXCEPT !.error = e]
    BY <1>8, <2>3 DEF Abort
  <2>5. ctx' \in Context /\ db' \in Stored
    BY <2>1, <2>2, <2>4 DEF Context, Stored
  <2>6. status' \in {"busy", "retry", "idle"}
    BY <1>8 DEF Types, Abort
  <2> QED
    BY <1>8, <2>5, <2>6 DEF Types, Abort, Phases, Ended
<1>9. CASE Interrupt
  BY <1>9 DEF Types, Interrupt, Phases
<1> QED
  BY <1>1, <1>2, <1>3, <1>4, <1>5, <1>6, <1>7, <1>8, <1>9 DEF Own

\* The tools' steps.
LEMMA TypesTool ==
  ASSUME Types, NEW c \in Calls, Execute(c) \/ Metadata(c) \/ ToolDone(c)
  PROVE  Types'
<1>1. CASE Execute(c)
  BY <1>1 DEF Types, Execute, Tool
<1>2. CASE Metadata(c)
  BY <1>2, CallTypes DEF Types, Metadata, PartStates, OpenStates
<1>3. CASE ToolDone(c)
  BY <1>3 DEF Types, ToolDone, Tool
<1> QED
  BY <1>1, <1>2, <1>3

LEMMA NextTypes == Types /\ [Next]_vars => Types'
<1> SUFFICES ASSUME Types, [Next]_vars PROVE Types'
  OBVIOUS
<1>1. CASE UNCHANGED vars
  BY <1>1 DEF vars, Types
<1>2. CASE Event
  BY <1>2, TypesText, TypesCall DEF Event
<1>3. CASE Answered \/ Refused \/ StreamEnds \/ StreamFails \/ Own \/ Interrupt
  BY <1>3, TypesOwn
<1>4. CASE \E c \in Calls : Execute(c) \/ Metadata(c) \/ ToolDone(c)
  BY <1>4, TypesTool
<1> QED
  BY <1>1, <1>2, <1>3, <1>4 DEF Next

-----------------------------------------------------------------------------
(* What process() leaves behind *)

LEMMA InitInv == Init => Inv
<1> SUFFICES ASSUME Init PROVE Inv
  OBVIOUS
<1>1. /\ phase = "stream" /\ ctx.error = "none" /\ rejections = {}
      /\ \A c \in Calls : db.part[c] = "none"
  BY DEF Init
<1> QED
  BY <1>1 DEF Inv, Saved, Marked, Closed, Truthful, Blocking, Over, Ended

\* Before cleanup only errors, completed parts and rejections matter.
LEMMA InvBefore ==
  ASSUME Types, Inv, phase' \notin Over,
         ctx'.error # "aborted",
         Truthful',
         ShouldBreak /\ rejections' # {} => ctx'.blocked = TRUE
  PROVE  Inv'
  BY DEF Inv, Saved, Marked, Closed, Blocking, Over, Ended

\* While the stream is read, nothing is marked as aborted and nothing is over.
LEMMA StreamFacts ==
  ASSUME Types, Inv, phase \notin Over
  PROVE  /\ ctx.error # "aborted"
         /\ ShouldBreak /\ rejections # {} => ctx.blocked = TRUE
         /\ Truthful
  BY DEF Inv, Marked, Blocking, Over, Ended

LEMMA InvText ==
  ASSUME Types, Inv,
         \/ \E kind \in {"text", "reasoning"} : Begin(kind) \/ End(kind)
         \/ OverflowText \/ Ramble \/ FinishStep
  PROVE  Inv'
<1>1. /\ phase = "stream" /\ phase' = phase
      /\ UNCHANGED <<tool, rejections>>
      /\ ctx \in Context /\ db \in Stored
  BY DEF Types, Reading, Begin, End, OverflowText, Ramble, FinishStep
<1>2. phase \notin Over
  BY <1>1 DEF Over, Ended
<1>3. ctx'.error \in {ctx.error, "rambling"} /\ ctx'.blocked = ctx.blocked
  <2>1. CASE \E kind \in {"text", "reasoning"} : Begin(kind) \/ End(kind)
    BY <1>1, <2>1 DEF Context, Begin, End
  <2>2. CASE OverflowText
    BY <1>1, <2>2 DEF Context, OverflowText
  <2>3. CASE Ramble
    BY <1>1, <2>3 DEF Context, Ramble
  <2>4. CASE FinishStep
    BY <1>1, <2>4 DEF Context, FinishStep
  <2> QED
    BY <2>1, <2>2, <2>3, <2>4
<1>4. db'.part = db.part
  BY <1>1 DEF Stored, Begin, End, OverflowText, Ramble, FinishStep
<1>5. Truthful'
  BY <1>1, <1>2, <1>4, StreamFacts DEF Truthful
<1> QED
  BY <1>1, <1>2, <1>3, <1>5, StreamFacts, InvBefore

\* What changing one call does to the others.
LEMMA CallFacts ==
  ASSUME Types, NEW c \in Calls, NEW s
  PROVE  /\ Memory(c, s).error = ctx.error /\ Memory(c, s).blocked = ctx.blocked
         /\ Memory(c, s).completed = ctx.completed
         /\ Part(c, s).part[c] = s
         /\ \A d \in Calls : d # c => Part(c, s).part[d] = db.part[d]
         /\ Part(c, s).error = db.error /\ Part(c, s).completed = db.completed
  BY DEF Types, Memory, Part, Context, Stored

LEMMA InvCall ==
  ASSUME Types, Inv, NEW c \in Calls,
         InputStart(c) \/ ToolCall(c) \/ ToolResult(c) \/ ToolError(c)
  PROVE  Inv'
<1>1. phase = "stream" /\ phase \notin Over
  BY DEF Reading, Delivered, InputStart, ToolCall, ToolResult, ToolError, Over, Ended
<1>2. /\ ctx.error # "aborted"
      /\ ShouldBreak /\ rejections # {} => ctx.blocked = TRUE
      /\ Truthful
  BY <1>1, StreamFacts
<1>3. CASE InputStart(c)
  <2>1. /\ phase' \notin Over /\ ctx' = Memory(c, "pending") /\ db' = Part(c, "pending")
        /\ rejections' = rejections
    BY <1>1, <1>3 DEF InputStart
  <2>2. \A d \in Calls : d # c => tool'[d] = tool[d]
    BY <1>3 DEF InputStart, Types
  <2>3. Truthful'
    BY <1>2, <2>1, <2>2, CallFacts DEF Truthful
  <2> QED
    BY <1>2, <2>1, <2>3, CallFacts, InvBefore
<1>4. CASE ToolCall(c)
  <2>1. /\ phase' \notin Over /\ ctx' = Memory(c, "running") /\ db' = Part(c, "running")
        /\ UNCHANGED <<tool, rejections>>
    BY <1>4 DEF ToolCall, Over, Ended
  <2>2. Truthful'
    BY <1>2, <2>1, CallFacts DEF Truthful
  <2> QED
    BY <1>2, <2>1, <2>2, CallFacts, InvBefore
<1>5. CASE ToolResult(c)
  <2> PICK m : m = Memory(c, "absent")
    OBVIOUS
  <2> PICK b : b = (m.transition \/ tool[c].outcome = "transition")
    OBVIOUS
  <2>1. /\ phase' \notin Over /\ ctx' = [m EXCEPT !.transition = b] /\ db' = Part(c, "completed")
        /\ UNCHANGED <<tool, rejections>>
    BY <1>1, <1>5 DEF ToolResult
  <2>2. m \in Context
    BY CallTypes
  <2>3. ctx'.error = ctx.error /\ ctx'.blocked = ctx.blocked
    BY <2>1, <2>2, CallFacts DEF Context
  <2>4. tool[c].run = "done" /\ tool[c].outcome \in {"ok", "transition"}
    BY <1>5 DEF ToolResult, Delivered
  <2>5. Truthful'
    BY <1>2, <2>1, <2>4, CallFacts DEF Truthful
  <2> QED
    BY <1>2, <2>1, <2>3, <2>5, InvBefore
<1>6. CASE ToolError(c)
  <2> PICK m : m = Memory(c, "absent")
    OBVIOUS
  <2> PICK b : b = IF tool[c].outcome = "rejected" THEN ShouldBreak ELSE m.blocked
    OBVIOUS
  <2>1. /\ phase' \notin Over /\ ctx' = [m EXCEPT !.blocked = b] /\ db' = Part(c, "error")
        /\ rejections' = IF tool[c].outcome = "rejected" THEN rejections \cup {c} ELSE rejections
        /\ UNCHANGED tool
    BY <1>1, <1>6 DEF ToolError
  <2>2. m \in Context
    BY CallTypes
  <2>3. ctx'.error = ctx.error /\ ctx'.blocked = b
    BY <2>1, <2>2, CallFacts DEF Context
  <2>4. ShouldBreak /\ rejections' # {} => ctx'.blocked = TRUE
    BY <1>2, <2>1, <2>3, CallFacts, BoundsAssumption
  <2>5. Truthful'
    BY <1>2, <2>1, CallFacts DEF Truthful
  <2> QED
    BY <1>2, <2>1, <2>3, <2>4, <2>5, InvBefore
<1> QED
  BY <1>3, <1>4, <1>5, <1>6

\* Steps up to cleanup.
LEMMA InvUntil ==
  ASSUME Types, Inv,
         \/ Answered \/ Refused \/ StreamEnds \/ StreamFails \/ Retry \/ Resume \/ Halt
  PROVE  Inv'
<1>1. /\ phase \notin Over /\ phase' \notin Over
      /\ UNCHANGED <<db, tool, rejections>>
      /\ ctx \in Context
  BY DEF Types, Reading, Answered, Refused, StreamEnds, StreamFails, Retry, Resume, Halt, Over,
         Ended
<1>2. /\ ctx.error # "aborted"
      /\ ShouldBreak /\ rejections # {} => ctx.blocked = TRUE
      /\ Truthful'
  BY <1>1, StreamFacts DEF Truthful
<1>3. ctx'.error \in {ctx.error, "failed"} /\ ctx'.blocked = ctx.blocked
  <2>1. CASE Answered \/ Refused \/ StreamEnds \/ StreamFails \/ Retry
    BY <2>1 DEF Answered, Refused, StreamEnds, StreamFails, Retry
  <2>2. CASE Resume
    BY <1>1, <2>2 DEF Context, Resume
  <2>3. CASE Halt
    <3>1. CASE failure = "overflow"
      BY <1>1, <2>3, <3>1 DEF Context, Halt
    <3>2. CASE failure # "overflow"
      <4> PICK e : e = IF ctx.error = "none" /\ ~ctx.loop THEN "failed" ELSE ctx.error
        OBVIOUS
      <4>1. ctx' = [ctx EXCEPT !.error = e] /\ e \in {ctx.error, "failed"}
        BY <2>3, <3>2 DEF Halt
      <4> QED
        BY <1>1, <4>1 DEF Context
    <3> QED
      BY <3>1, <3>2
  <2> QED
    BY <2>1, <2>2, <2>3
<1> QED
  BY <1>1, <1>2, <1>3, InvBefore

\* Cleanup ends every open part, of whatever attempt, and stores the message.
LEMMA InvCleanup ==
  ASSUME Types, Inv, Cleanup
  PROVE  Inv'
<1> PICK f : f = [c \in Calls |-> IF db.part[c] \in OpenStates THEN "error" ELSE db.part[c]]
  OBVIOUS
<1>1. /\ phase = "cleanup" /\ phase' = "cleaned"
      /\ ctx' = [ctx EXCEPT !.open = {}, !.completed = TRUE]
      /\ db' = [part |-> f, error |-> ctx.error, completed |-> TRUE]
      /\ UNCHANGED <<tool, rejections, late, result, status>>
      /\ ctx \in Context
  BY DEF Cleanup, Types
<1>2. /\ ctx.error # "aborted"
      /\ ShouldBreak /\ rejections # {} => ctx.blocked = TRUE
      /\ Truthful
  BY <1>1, StreamFacts DEF Over, Ended
<1>3. ctx'.error = ctx.error /\ ctx'.blocked = ctx.blocked /\ ctx'.completed = TRUE
  BY <1>1 DEF Context
<1>4. \A c \in Calls : f[c] \notin OpenStates /\ (f[c] = "completed" => db.part[c] = "completed")
  BY DEF OpenStates
<1>5. Saved' /\ Marked'
  BY <1>1, <1>2, <1>3 DEF Saved, Marked
<1>6. Closed' /\ Truthful'
  BY <1>1, <1>2, <1>4 DEF Closed, Truthful
<1>7. Blocking'
  BY <1>1, <1>2, <1>3 DEF Blocking
<1> QED
  BY <1>5, <1>6, <1>7 DEF Inv

LEMMA InvReturn ==
  ASSUME Types, Inv, Return
  PROVE  Inv'
<1>1. /\ phase = "cleaned" /\ phase' = "returned" /\ result' = Result
      /\ UNCHANGED <<ctx, db, tool, rejections, late, status>>
  BY DEF Return
<1>2. Result' = Result
  BY <1>1 DEF Result
<1>3. Saved' /\ Marked' /\ Closed' /\ Truthful'
  BY <1>1 DEF Inv, Saved, Marked, Closed, Truthful, Over, Ended
<1>4. Blocking'
  BY <1>1, <1>2 DEF Inv, Blocking
<1> QED
  BY <1>3, <1>4 DEF Inv

\* The end of an interruption stores the error it adds, and leaves the session idle.
LEMMA InvAbort ==
  ASSUME Types, Inv, Abort
  PROVE  Inv'
<1> PICK e : e = IF ctx.error = "none" THEN "aborted" ELSE ctx.error
  OBVIOUS
<1>1. /\ phase = "cleaned" /\ phase' = "interrupted"
      /\ ctx' = [ctx EXCEPT !.error = e]
      /\ status' = IF ctx.error = "none" THEN "idle" ELSE status
      /\ UNCHANGED <<tool, rejections, late, result>>
      /\ ctx \in Context /\ db \in Stored
  BY DEF Abort, Types
<1>2. ctx'.error = e /\ ctx'.blocked = ctx.blocked /\ ctx'.completed = ctx.completed
  BY <1>1 DEF Context
<1>3. db' = [db EXCEPT !.error = e]
  BY <1>2 DEF Abort
<1>4. db'.error = e /\ db'.completed = db.completed /\ db'.part = db.part
  BY <1>1, <1>3 DEF Stored
<1>5. ctx.error # "aborted" /\ ctx.completed = TRUE /\ db.completed = TRUE
  BY <1>1 DEF Inv, Saved, Marked, Over
<1>6. Saved' /\ Marked'
  BY <1>1, <1>2, <1>4, <1>5 DEF Saved, Marked
<1>7. Closed' /\ Truthful'
  BY <1>1, <1>4 DEF Inv, Closed, Truthful, Over
<1>8. Blocking'
  BY <1>1, <1>2 DEF Inv, Blocking
<1> QED
  BY <1>6, <1>7, <1>8 DEF Inv

LEMMA InvInterrupt ==
  ASSUME Types, Inv, Interrupt
  PROVE  Inv'
<1>1. /\ phase \notin Ended
      /\ phase' = IF phase = "cleaned" THEN phase ELSE "cleanup"
      /\ UNCHANGED <<ctx, db, tool, rejections, late, status, result>>
  BY DEF Interrupt
<1>2. CASE phase = "cleaned"
  BY <1>1, <1>2 DEF Inv, Saved, Marked, Closed, Truthful, Blocking
<1>3. CASE phase # "cleaned"
  <2>1. phase \notin Over /\ phase' \notin Over
    BY <1>1, <1>3 DEF Over, Ended
  <2>2. Truthful'
    BY <1>1, <2>1, StreamFacts DEF Truthful
  <2> QED
    BY <1>1, <2>1, <2>2, StreamFacts, InvBefore
<1> QED
  BY <1>2, <1>3

\* A tool's report after cleanup is a late one; a tool that is done stays done.
LEMMA InvTool ==
  ASSUME Types, Inv, NEW c \in Calls, Execute(c) \/ Metadata(c) \/ ToolDone(c)
  PROVE  Inv'
<1>1. UNCHANGED <<phase, ctx, status, rejections, result>>
  BY DEF Execute, Metadata, ToolDone
<1>2. Result' = Result
  BY <1>1 DEF Result
<1>3. Marked' /\ Blocking'
  BY <1>1, <1>2 DEF Inv, Marked, Blocking
<1>4. CASE Execute(c) \/ ToolDone(c)
  <2>1. tool[c].run # "done" /\ \A d \in Calls : d # c => tool'[d] = tool[d]
    BY <1>4 DEF Types, Execute, ToolDone
  <2>2. UNCHANGED <<db, late>>
    BY <1>4 DEF Execute, ToolDone
  <2> QED
    BY <1>1, <1>3, <2>1, <2>2 DEF Inv, Saved, Closed, Truthful
<1>5. CASE Metadata(c)
  <2>1. /\ db' = Part(c, "running") /\ tool' = tool
        /\ late' = IF ctx.completed THEN late \cup {c} ELSE late
    BY <1>5 DEF Metadata
  <2>2. Saved' /\ Truthful'
    BY <1>1, <2>1, CallFacts DEF Inv, Saved, Truthful
  <2>3. Closed'
    <3> SUFFICES ASSUME NEW d \in Calls, phase' \in Over, db'.part[d] \in OpenStates
                 PROVE  d \in late'
      BY DEF Closed
    <3>1. phase \in Over /\ ctx.completed = TRUE
      BY <1>1 DEF Inv, Saved
    <3>2. CASE d = c
      BY <2>1, <3>1, <3>2
    <3>3. CASE d # c
      BY <2>1, <3>1, <3>3, CallFacts DEF Inv, Closed
    <3> QED
      BY <3>2, <3>3
  <2> QED
    BY <1>3, <2>2, <2>3 DEF Inv
<1> QED
  BY <1>4, <1>5

\* Every step keeps the invariant.
LEMMA NextInv == IInv /\ [Next]_vars => IInv'
<1> SUFFICES ASSUME IInv, [Next]_vars PROVE IInv'
  OBVIOUS
<1>1. Types /\ Inv /\ Types'
  BY NextTypes DEF IInv
<1>2. CASE UNCHANGED vars
  BY <1>1, <1>2 DEF vars, IInv, Inv, Saved, Marked, Closed, Truthful, Blocking, Result
<1>3. CASE Event
  BY <1>1, <1>3, InvText, InvCall DEF Event, IInv
<1>4. CASE Answered \/ Refused \/ StreamEnds \/ StreamFails \/ Own \/ Interrupt
  BY <1>1, <1>4, InvUntil, InvCleanup, InvReturn, InvAbort, InvInterrupt DEF Own, IInv
<1>5. CASE \E c \in Calls : Execute(c) \/ Metadata(c) \/ ToolDone(c)
  BY <1>1, <1>5, InvTool DEF IInv
<1> QED
  BY <1>2, <1>3, <1>4, <1>5 DEF Next

LEMMA Invariance == Spec => []IInv
  BY InitTypes, InitInv, NextInv, PTL DEF Spec, IInv

-----------------------------------------------------------------------------
(* The delays between attempts *)

\* A set of numbers that is not empty has a least one.
LEMMA LeastElement ==
  ASSUME NEW T, T \subseteq Nat, T # {}
  PROVE  \E m \in T : \A k \in T : m <= k
<1>1. PICK m \in T : \A k \in T : ~ (<<k, m>> \in OpToRel(<, Nat))
  BY NatLessThanWellFounded, WFMin
<1>2. \A k \in T : ~ k < m
  <2> SUFFICES ASSUME NEW k \in T, k < m PROVE FALSE
    OBVIOUS
  <2>1. <<k, m>> \in Nat \X Nat
    OBVIOUS
  <2>2. <<k, m>> \in OpToRel(<, Nat)
    BY <2>1 DEF OpToRel
  <2> QED
    BY <1>1, <2>2
<1>3. m \in Nat /\ \A k \in T : k \in Nat
  OBVIOUS
<1>4. \A k \in T : m <= k
  BY <1>2, <1>3
<1> QED
  BY <1>4

\* The backoff of the first k attempts.
Grows(k, f) == f = [n \in 1 .. k |-> IF n = 1 THEN InitialDelay ELSE Factor * f[n - 1]]

\* The backoffs of the first attempts exist and are numbers; one more attempt has the
\* factor times the delay of the one before.
LEMMA BackoffExists ==
  \A k \in Nat \ {0} : \E f \in [1 .. k -> Nat] : Grows(k, f)
<1> DEFINE Fails == {k \in Nat \ {0} : ~ \E f \in [1 .. k -> Nat] : Grows(k, f)}
<1> Fails \subseteq Nat
  OBVIOUS
<1>1. ASSUME Fails # {} PROVE FALSE
  <2>1. PICK m \in Fails : \A k \in Fails : m <= k
    <3> HIDE DEF Fails
    <3> QED
      BY <1>1, LeastElement
  <2>2. m \in Nat \ {0} /\ ~ \E f \in [1 .. m -> Nat] : Grows(m, f)
    BY <2>1
  <2>3. InitialDelay \in Nat /\ Factor \in Nat
    BY DelayAssumption
  <2>4. CASE m = 1
    <3> PICK f : f = [n \in 1 .. 1 |-> InitialDelay]
      OBVIOUS
    <3>1. f \in [1 .. 1 -> Nat]
      BY <2>3
    <3>2. \A n \in 1 .. 1 : n = 1
      OBVIOUS
    <3>3. Grows(1, f)
      BY <3>2 DEF Grows
    <3> QED
      BY <3>1, <3>3, <2>2, <2>4
  <2>5. CASE m # 1
    <3>1. m - 1 \in Nat \ {0} /\ ~ m <= m - 1
      BY <2>2, <2>5
    <3>2. m - 1 \notin Fails
      BY <2>1, <3>1
    <3>3. PICK f \in [1 .. m - 1 -> Nat] : Grows(m - 1, f)
      BY <3>1, <3>2
    <3>4. \A n \in 1 .. m - 1 : f[n] = IF n = 1 THEN InitialDelay ELSE Factor * f[n - 1]
      BY <3>3 DEF Grows
    <3> PICK last \in Nat : last = Factor * f[m - 1]
      BY <2>3, <3>1, <3>3
    <3> DEFINE g == [n \in 1 .. m |-> IF n = m THEN last ELSE f[n]]
    <3>5. \A n \in 1 .. m - 1 : g[n] = f[n] /\ f[n] \in Nat
      BY <3>1, <3>3
    <3>6. g[m] = last
      BY <2>2
    <3>7. g \in [1 .. m -> Nat]
      <4>1. \A n \in 1 .. m : n = m \/ n \in 1 .. m - 1
        BY <2>2
      <4> QED
        BY <3>5, <4>1
    <3>8. \A n \in 1 .. m : g[n] = IF n = 1 THEN InitialDelay ELSE Factor * g[n - 1]
      <4> SUFFICES ASSUME NEW n \in 1 .. m
                   PROVE  g[n] = IF n = 1 THEN InitialDelay ELSE Factor * g[n - 1]
        OBVIOUS
      <4> HIDE DEF g
      <4>1. CASE n = m
        <5>1. g[m - 1] = f[m - 1]
          BY <3>1, <3>5
        <5> QED
          BY <4>1, <5>1, <3>6, <2>5
      <4>2. CASE n = 1
        <5>1. 1 \in 1 .. m - 1
          BY <3>1
        <5> QED
          BY <4>2, <5>1, <3>4, <3>5
      <4>3. CASE n \in 2 .. m - 1
        <5>1. n \in 1 .. m - 1 /\ n - 1 \in 1 .. m - 1 /\ n # 1
          BY <4>3, <2>2
        <5> QED
          BY <5>1, <3>4, <3>5
      <4> QED
        BY <4>1, <4>2, <4>3, <2>2
    <3>9. Grows(m, g)
      BY <3>8 DEF Grows
    <3> HIDE DEF g
    <3> QED
      BY <3>7, <3>9, <2>2
  <2> QED
    BY <2>4, <2>5
<1> QED
  BY <1>1

\* Backoff is the recursion that defines it, on every attempt.
LEMMA BackoffIs ==
  Backoff = [n \in 1 .. MaxAttempts |-> IF n = 1 THEN InitialDelay ELSE Factor * Backoff[n - 1]]
<1>1. PICK f : Grows(MaxAttempts, f)
  BY BackoffExists, BoundsAssumption
<1>2. Backoff = CHOOSE g : Grows(MaxAttempts, g)
  BY DEF Backoff, Grows
<1>3. Grows(MaxAttempts, Backoff)
  BY <1>1, <1>2
<1> QED
  BY <1>3 DEF Grows

\* Each delay is a number.
LEMMA BackoffNat == \A n \in 1 .. MaxAttempts : Backoff[n] \in Nat
<1> DEFINE Fails == {n \in 1 .. MaxAttempts : Backoff[n] \notin Nat}
<1> Fails \subseteq Nat
  OBVIOUS
<1> InitialDelay \in Nat /\ Factor \in Nat /\ MaxAttempts \in Nat
  BY DelayAssumption, BoundsAssumption
<1>1. \A n \in 1 .. MaxAttempts :
        Backoff[n] = IF n = 1 THEN InitialDelay ELSE Factor * Backoff[n - 1]
  BY BackoffIs
<1>2. ASSUME Fails # {} PROVE FALSE
  <2>1. PICK m \in Fails : \A k \in Fails : m <= k
    <3> HIDE DEF Fails
    <3> QED
      BY <1>2, LeastElement
  <2>2. m \in 1 .. MaxAttempts /\ Backoff[m] \notin Nat
    BY <2>1
  <2>3. m # 1
    BY <2>2, <1>1
  <2>4. m - 1 \in 1 .. MaxAttempts /\ ~ m <= m - 1
    BY <2>2, <2>3
  <2>5. Backoff[m - 1] \in Nat
    BY <2>1, <2>4
  <2>6. Factor * Backoff[m - 1] \in Nat
    BY <2>5
  <2> QED
    BY <1>1, <2>2, <2>3, <2>6
<1> QED
  BY <1>2

\* No wait is longer than a timer can be set to, whatever a server asks for and however
\* many attempts there were; without a header it is no longer than MaxPlain.
LEMMA DelaysCapped ==
  ASSUME NEW n \in 1 .. MaxAttempts
  PROVE  Delays(n) \subseteq 0 .. MaxDelay
<1>1. Backoff[n] \in Nat
  BY BackoffNat
<1>2. MaxDelay \in Nat /\ MaxPlain \in Nat /\ MaxPlain <= MaxDelay
  BY DelayAssumption
<1>3. \A h \in Headers : h \in Nat
  BY DelayAssumption
<1>4. \A x, y \in Nat : Least(x, y) \in 0 .. y
  BY DEF Least
<1> QED
  BY <1>1, <1>2, <1>3, <1>4 DEF Delays

-----------------------------------------------------------------------------
(* The parts in their order, and the wait *)

\* A call is in the order once it has a part, and once only.
Ordered ==
  /\ order \in Seq(Calls)
  /\ \A i, j \in DOMAIN order : order[i] = order[j] => i = j
  /\ \A i \in DOMAIN order : db.part[order[i]] # "none"

\* What memory holds as begun is stored as begun.
Begun == \A c \in Calls : ctx.toolcalls[c] # "absent" => db.part[c] # "none"

Waits == wait \in 0 .. MaxDelay /\ result \in {"none", "compact", "stop", "continue"}

Rest == Ordered /\ Begun /\ Waits

LEMMA InitRest == Init => Rest
<1> SUFFICES ASSUME Init PROVE Rest
  OBVIOUS
<1>1. order = <<>> /\ \A c \in Calls : ctx.toolcalls[c] = "absent"
  BY DEF Init
<1>2. wait = 0 /\ result = "none" /\ MaxDelay \in Nat
  BY DelayAssumption DEF Init
<1> QED
  BY <1>1, <1>2 DEF Rest, Ordered, Begun, Waits

\* A part, once stored, is never taken away: the order and what memory holds of the
\* calls then need no more than that they do not grow.
LEMMA RestKept ==
  ASSUME Types, Rest, order' = order,
         \A c \in Calls : db.part[c] # "none" => db'.part[c] # "none",
         \A c \in Calls : ctx'.toolcalls[c] # "absent" =>
                            ctx.toolcalls[c] # "absent" \/ db'.part[c] # "none"
  PROVE  Ordered' /\ Begun'
<1>1. order \in Seq(Calls) /\ \A i \in DOMAIN order : order[i] \in Calls
  BY DEF Rest, Ordered
<1>2. Ordered'
  BY <1>1 DEF Rest, Ordered
<1>3. Begun'
  BY DEF Rest, Begun
<1> QED
  BY <1>2, <1>3

\* Events of the stream.
LEMMA RestEvent ==
  ASSUME Types, Rest, Event
  PROVE  Rest'
<1>1. wait' = wait /\ result' = result
  BY DEF Event, Begin, End, OverflowText, Ramble, InputStart, ToolCall, ToolResult, ToolError,
         FinishStep
<1>2. Waits'
  BY <1>1 DEF Rest, Waits
<1>3. CASE \/ \E kind \in {"text", "reasoning"} : Begin(kind) \/ End(kind)
           \/ OverflowText \/ Ramble \/ FinishStep
  <2>1. /\ order' = order
        /\ ctx \in Context /\ db \in Stored
    BY <1>3 DEF Types, Begin, End, OverflowText, Ramble, FinishStep
  <2>2. ctx'.toolcalls = ctx.toolcalls
    <3>1. CASE \E kind \in {"text", "reasoning"} : Begin(kind) \/ End(kind)
      BY <2>1, <3>1 DEF Context, Begin, End
    <3>2. CASE OverflowText
      BY <2>1, <3>2 DEF Context, OverflowText
    <3>3. CASE Ramble
      BY <2>1, <3>3 DEF Context, Ramble
    <3>4. CASE FinishStep
      BY <2>1, <3>4 DEF Context, FinishStep
    <3> QED
      BY <1>3, <3>1, <3>2, <3>3, <3>4
  <2>3. db'.part = db.part
    BY <1>3, <2>1 DEF Stored, Begin, End, OverflowText, Ramble, FinishStep
  <2> QED
    BY <1>2, <2>1, <2>2, <2>3, RestKept DEF Rest
<1>4. ASSUME NEW c \in Calls, InputStart(c) PROVE Rest'
  <2>1. /\ db.part[c] = "none"
        /\ ctx' = Memory(c, "pending") /\ db' = Part(c, "pending")
        /\ order' = Append(order, c)
    BY <1>4 DEF InputStart
  <2>2. order \in Seq(Calls) /\ Len(order) \in Nat /\ DOMAIN order = 1 .. Len(order)
    BY DEF Rest, Ordered
  <2>3. \A i \in 1 .. Len(order) : order[i] # c /\ order[i] \in Calls
    BY <2>1, <2>2 DEF Rest, Ordered
  <2>4. /\ order' \in Seq(Calls)
        /\ Len(order') = Len(order) + 1
        /\ \A i \in 1 .. Len(order) : order'[i] = order[i]
        /\ order'[Len(order) + 1] = c
    BY <2>1, <2>2, AppendProperties
  <2>5. DOMAIN order' = 1 .. Len(order) + 1
    BY <2>4
  <2>6. \A d \in Calls : db.part[d] # "none" \/ d = c => db'.part[d] # "none"
    BY <2>1, CallFacts
  <2>7. Ordered'
    <3>1. ASSUME NEW i \in 1 .. Len(order) + 1, NEW j \in 1 .. Len(order) + 1,
                 order'[i] = order'[j]
          PROVE  i = j
      <4>1. CASE i \in 1 .. Len(order) /\ j \in 1 .. Len(order)
        BY <3>1, <4>1, <2>2, <2>4 DEF Rest, Ordered
      <4>2. CASE i = Len(order) + 1 \/ j = Len(order) + 1
        BY <3>1, <4>2, <2>2, <2>3, <2>4
      <4> QED
        BY <4>1, <4>2, <2>2
    <3>2. ASSUME NEW i \in 1 .. Len(order) + 1
          PROVE  db'.part[order'[i]] # "none"
      <4>1. CASE i \in 1 .. Len(order)
        <5>1. order'[i] = order[i] /\ order[i] \in Calls /\ db.part[order[i]] # "none"
          BY <4>1, <2>2, <2>3, <2>4 DEF Rest, Ordered
        <5> QED
          BY <5>1, <2>6
      <4>2. CASE i = Len(order) + 1
        BY <4>2, <2>4, <2>6
      <4> QED
        BY <4>1, <4>2, <2>2
    <3> QED
      BY <2>4, <2>5, <3>1, <3>2 DEF Ordered
  <2>8. \A d \in Calls : d # c => ctx'.toolcalls[d] = ctx.toolcalls[d]
    BY <2>1 DEF Types, Context, Memory
  <2>9. Begun'
    BY <2>6, <2>8 DEF Rest, Begun
  <2> QED
    BY <1>2, <2>7, <2>9 DEF Rest
<1>5. ASSUME NEW c \in Calls, ToolCall(c) \/ ToolResult(c) \/ ToolError(c) PROVE Rest'
  <2>1. \E s \in {"running", "completed", "error"} : db' = Part(c, s)
    BY <1>5 DEF ToolCall, ToolResult, ToolError
  <2>2. \A d \in Calls : db'.part[d] = db.part[d] \/ db'.part[d] # "none"
    BY <2>1, CallFacts
  <2>3. db'.part[c] # "none" /\ order' = order
    BY <1>5, <2>1, CallFacts DEF ToolCall, ToolResult, ToolError
  <2>4. \A d \in Calls : d # c => ctx'.toolcalls[d] = ctx.toolcalls[d]
    <3>1. ctx \in Context
      BY DEF Types
    <3>2. CASE ToolCall(c)
      BY <3>1, <3>2 DEF ToolCall, Memory, Context
    <3>3. CASE ToolResult(c)
      <4> PICK b : b = (Memory(c, "absent").transition \/ tool[c].outcome = "transition")
        OBVIOUS
      <4>1. ctx' = [Memory(c, "absent") EXCEPT !.transition = b]
        BY <3>3 DEF ToolResult
      <4> QED
        BY <3>1, <4>1 DEF Memory, Context
    <3>4. CASE ToolError(c)
      <4> PICK b : b = IF tool[c].outcome = "rejected" THEN ShouldBreak
                       ELSE Memory(c, "absent").blocked
        OBVIOUS
      <4>1. ctx' = [Memory(c, "absent") EXCEPT !.blocked = b]
        BY <3>4 DEF ToolError
      <4> QED
        BY <3>1, <4>1 DEF Memory, Context
    <3> QED
      BY <1>5, <3>2, <3>3, <3>4
  <2> QED
    BY <1>2, <2>2, <2>3, <2>4, RestKept DEF Rest
<1> QED
  BY <1>3, <1>4, <1>5 DEF Event

\* The processor's other steps and the tools'.
LEMMA RestOther ==
  ASSUME Types, Rest,
         \/ Answered \/ Refused \/ StreamEnds \/ StreamFails \/ Own \/ Interrupt
         \/ \E c \in Calls : Execute(c) \/ Metadata(c) \/ ToolDone(c)
  PROVE  Rest'
<1> USE DEF Types
<1>1. order' = order
  BY DEF Answered, Refused, StreamEnds, StreamFails, Own, Interrupt, Retry, Resume, Halt, Cleanup,
         Return, Abort, Execute, Metadata, ToolDone
<1>2. MaxDelay \in Nat
  BY DelayAssumption
<1>3. CASE Answered \/ Refused \/ StreamEnds \/ StreamFails \/ Interrupt
           \/ \E c \in Calls : Execute(c) \/ ToolDone(c)
  <2>1. UNCHANGED <<ctx, db, result>> /\ wait' \in {wait, 0}
    BY <1>3 DEF Answered, Refused, StreamEnds, StreamFails, Interrupt, Execute, ToolDone
  <2>2. Waits'
    BY <2>1, <1>2 DEF Rest, Waits
  <2> QED
    BY <1>1, <2>1, <2>2, RestKept DEF Rest
<1>4. CASE Retry
  <2>1. wait' \in Delays(attempt) /\ UNCHANGED <<ctx, db, result>>
    BY <1>4 DEF Retry
  <2>2. Waits'
    BY <2>1, DelaysCapped DEF Rest, Waits
  <2> QED
    BY <1>1, <2>1, <2>2, RestKept DEF Rest
<1>5. CASE Resume
  <2>1. wait' = 0 /\ ctx'.toolcalls = ctx.toolcalls /\ UNCHANGED <<db, result>>
    BY <1>5 DEF Resume, Context
  <2>2. Waits'
    BY <2>1, <1>2 DEF Rest, Waits
  <2> QED
    BY <1>1, <2>1, <2>2, RestKept DEF Rest
<1>6. CASE Halt
  <2>1. UNCHANGED <<db, wait, result>>
    BY <1>6 DEF Halt
  <2>2. ctx'.toolcalls = ctx.toolcalls
    <3>1. CASE failure = "overflow"
      BY <1>6, <3>1 DEF Halt, Context
    <3>2. CASE failure # "overflow"
      <4> PICK e : e = IF ctx.error = "none" /\ ~ctx.loop THEN "failed" ELSE ctx.error
        OBVIOUS
      <4>1. ctx' = [ctx EXCEPT !.error = e]
        BY <1>6, <3>2 DEF Halt
      <4> QED
        BY <4>1 DEF Context
    <3> QED
      BY <3>1, <3>2
  <2> QED
    BY <1>1, <2>1, <2>2, RestKept DEF Rest, Waits
<1>7. CASE Cleanup
  <2>1. UNCHANGED <<wait, result>> /\ ctx'.toolcalls = ctx.toolcalls
    BY <1>7 DEF Cleanup, Context
  <2>2. \A c \in Calls : db'.part[c] = db.part[c] \/ db'.part[c] = "error"
    BY <1>7 DEF Cleanup
  <2> QED
    BY <1>1, <2>1, <2>2, RestKept DEF Rest, Waits
<1>8. CASE Return
  <2>1. UNCHANGED <<ctx, db, wait>> /\ result' \in {"compact", "stop", "continue"}
    BY <1>8 DEF Return, Result
  <2> QED
    BY <1>1, <2>1, RestKept DEF Rest, Waits
<1>9. CASE Abort
  <2> PICK e : e = IF ctx.error = "none" THEN "aborted" ELSE ctx.error
    OBVIOUS
  <2>1. ctx' = [ctx EXCEPT !.error = e] /\ UNCHANGED <<wait, result>>
    BY <1>9 DEF Abort
  <2>2. ctx'.toolcalls = ctx.toolcalls
    BY <2>1 DEF Context
  <2>3. db'.part = db.part
    BY <1>9 DEF Abort, Stored
  <2> QED
    BY <1>1, <2>1, <2>2, <2>3, RestKept DEF Rest, Waits
<1>10. ASSUME NEW c \in Calls, Metadata(c) PROVE Rest'
  <2>1. db' = Part(c, "running") /\ UNCHANGED <<ctx, wait, result>>
    BY <1>10 DEF Metadata
  <2>2. \A d \in Calls : db'.part[d] = db.part[d] \/ db'.part[d] = "running"
    BY <2>1, CallFacts
  <2> QED
    BY <1>1, <2>1, <2>2, RestKept DEF Rest, Waits
<1> QED
  BY <1>3, <1>4, <1>5, <1>6, <1>7, <1>8, <1>9, <1>10 DEF Own

LEMMA NextRest == Types /\ Rest /\ [Next]_vars => Rest'
<1> SUFFICES ASSUME Types, Rest, [Next]_vars PROVE Rest'
  OBVIOUS
<1>1. CASE UNCHANGED vars
  BY <1>1 DEF vars, Rest, Ordered, Begun, Waits
<1>2. CASE Next
  BY <1>2, RestEvent, RestOther DEF Next
<1> QED
  BY <1>1, <1>2

-----------------------------------------------------------------------------
(* The theorems *)

\* However process() ends, the stored message is the one in memory: completed, with
\* its error; an interrupted one is marked, and the session then idle.
THEOREM FinalMessage == Spec => []SavedIsFinal
<1>1. IInv => SavedIsFinal
  BY DEF IInv, Inv, Saved, Marked, SavedIsFinal, Over, Ended
<1> QED
  BY <1>1, Invariance, PTL

\* However process() ends, no part of any attempt is open but by a late report.
THEOREM PartsAreEnded == Spec => []PartsEnd
<1>1. IInv => PartsEnd
  BY DEF IInv, Inv, Closed, Truthful, PartsEnd, Over
<1> QED
  BY <1>1, Invariance, PTL

\* A rejection is not forgotten by what the stream delivers after it.
THEOREM RejectionsCount == Spec => []RejectionStops
<1>1. IInv => RejectionStops
  <2> SUFFICES ASSUME IInv, phase = "returned", ShouldBreak, rejections # {}
               PROVE  result # "continue"
    BY DEF RejectionStops
  <2>1. ctx.blocked = TRUE /\ result = Result
    BY DEF IInv, Inv, Blocking
  <2> QED
    BY <2>1 DEF Result
<1> QED
  BY <1>1, Invariance, PTL

\* The variables keep their types for any calls and any number of attempts: no call has
\* two tool parts, whatever is retried; what memory holds as begun is stored as begun;
\* and no wait is longer than a timer can be set to.
THEOREM ProcessorTypes == Spec => []ProcessorTypeOK
<1>1. Types /\ Rest => ProcessorTypeOK
  BY DEF Types, Rest, Ordered, Begun, Waits, ProcessorTypeOK
<1> QED
  BY <1>1, InitRest, NextRest, Invariance, PTL DEF Spec, IInv
=============================================================================
