---------------------------- MODULE EngineProofs ----------------------------
(***************************************************************************)
(* Proofs about the turn loop for any set of prompts, any MAX_TURNS, any   *)
(* tools and any mix of modes: turns without progress are bounded, no      *)
(* empty epoch is closed, and a subtask runs once.                         *)
(***************************************************************************)
EXTENDS Engine, TLAPS

-----------------------------------------------------------------------------
(* The inductive invariant *)

\* Within a run the counter is not below the turns taken since a tool last moved the
\* project; where it is about to be cleared there were none.
Counts ==
  /\ TurnsBounded
  /\ pc # "idle" => since.turns <= local.step
  /\ pc # "idle" /\ epoch.last.tools \in Advancing /\ epoch.last.tools # local.target =>
       since.turns = 0
  /\ pc = "decide" => local.step <= MaxTurns /\ snap.last = epoch.last

\* An epoch that holds nothing but a transition and a handover.
Blank(e) == /\ e.last = NoTurn /\ e.spoke = FALSE /\ e.full = FALSE
            /\ e.before = <<>> /\ e.after = <<"transition">>

\* As long as nothing has happened since the last transition the epoch is blank and
\* nothing asks for another: neither its size, nor a compaction, nor the score.
Cuts ==
  /\ pc \in {"worker", "subtask", "hook", "llm"} => since.cut = FALSE
  /\ pc \in {"worker", "handover"} => local.force = FALSE
  /\ pc # "idle" /\ Yolo => local.score < 20
  /\ since.cut = TRUE /\ pc # "prepare" =>
       /\ Blank(epoch)
       /\ pc # "idle" => local.force = FALSE
       /\ pc = "decide" => Blank(snap)

\* What may be in a list of tasks: what was posted and has not run.
Left == {"transition"} \cup (posted \ since.ran)

\* The tasks are of this kind, and those that came after the last answer are others than
\* those before it.  A pass sees the oldest of them.
Queue ==
  /\ since.ran \subseteq posted /\ epoch.view \subseteq posted /\ snap.view \subseteq posted
  /\ \A i \in 1 .. Len(epoch.before) : epoch.before[i] \in Left
  /\ \A i \in 1 .. Len(epoch.after) : epoch.after[i] \in Left
  /\ \A i \in 1 .. Len(epoch.before), j \in 1 .. Len(epoch.after) :
       epoch.before[i] # epoch.after[j]
  /\ pc = "decide" => /\ snap.before = epoch.before
                      /\ Len(snap.after) <= Len(epoch.after)
                      /\ \A i \in 1 .. Len(snap.after) : snap.after[i] = epoch.after[i]
  /\ pc \in {"subtask", "hook"} => epoch.before # <<>> /\ Head(epoch.before) \in Subtasks

IInv == EngineTypeOK /\ Counts /\ Cuts /\ Queue

-----------------------------------------------------------------------------
(* Records *)

\* The fields of an epoch.
LEMMA EpochFields ==
  ASSUME NEW e \in Epoch
  PROVE  /\ e.last \in Assistant /\ e.spoke \in BOOLEAN /\ e.userNewer \in BOOLEAN
         /\ e.nudged \in BOOLEAN /\ e.completed \in BOOLEAN /\ e.full \in BOOLEAN
         /\ e.cut \in BOOLEAN /\ e.before \in Seq(Task) /\ e.after \in Seq(Task)
         /\ e.view \in SUBSET Prompts
BY DEF Epoch

LEMMA Empties ==
  /\ NoTurn \in Assistant /\ EmptyEpoch \in Epoch
  /\ \A y \in BOOLEAN : NewLocal(y) \in Local
<1>1. NoTurn \in Assistant
  BY DEF NoTurn, Assistant, ToolNames
<1>2. <<>> \in Seq(Task)
  OBVIOUS
<1>3. EmptyEpoch \in Epoch
  BY <1>1, <1>2 DEF EmptyEpoch, Epoch
<1>4. \A y \in BOOLEAN : NewLocal(y) \in Local
  BY MaxTurnsAssumption DEF NewLocal, Local, ToolNames, ScoreCap
<1> QED
  BY <1>1, <1>3, <1>4

\* A user message changes nothing of an epoch but what is newer.
LEMMA ToldFields ==
  ASSUME NEW e \in Epoch
  PROVE  /\ Told(e) \in Epoch
         /\ Told(e).last = e.last /\ Told(e).spoke = e.spoke /\ Told(e).full = e.full
         /\ Told(e).before = e.before /\ Told(e).after = e.after /\ Told(e).view = e.view
         /\ Told(e).nudged = e.nudged /\ Told(e).completed = e.completed
BY DEF Epoch, Told

\* The loop's variables after scoring.
LEMMA PenaltyRange == ASSUME local \in Local, snap \in Epoch
                      PROVE  Penalty \in 0 .. 10 /\ (Tool = "none" /\ snap.spoke = FALSE => Penalty = 0)
<1>1. CASE Tool # "none" /\ Repeats
  BY <1>1 DEF Penalty, Repeats
<1>2. CASE Tool # "none" /\ ~ Repeats
  BY <1>2 DEF Penalty, Repeats
<1>3. CASE Tool = "none"
  BY <1>3 DEF Penalty, Repeats
<1> QED
  BY <1>1, <1>2, <1>3

LEMMA ScoredFields ==
  ASSUME local \in Local, snap \in Epoch
  PROVE  /\ Scored \in Local
         /\ Scored.yolo = local.yolo /\ Scored.force = local.force
         /\ Scored.step = IF Advances THEN 0 ELSE local.step
         /\ Scored.target = IF Advances THEN Tool ELSE local.target
         /\ Blank(snap) => Scored.score = local.score
<1> DEFINE score == CASE snap.last.rambled -> 15
                      [] ~snap.last.rambled /\ Advances -> 0
                      [] OTHER -> MinOf(local.score + Penalty, ScoreCap)
           step == IF Advances THEN 0 ELSE local.step
           target == IF Advances THEN Tool ELSE local.target
           lastTool == IF Tool # "none" THEN Tool ELSE local.lastTool
<1>1. /\ local.step \in 0 .. MaxTurns + 1 /\ local.score \in 0 .. 20
      /\ local.target \in Advancing \cup {"none"} /\ local.lastTool \in ToolNames
  BY DEF Local, ScoreCap
<1>2. snap.last \in Assistant /\ snap.last.tools \in ToolNames
  BY EpochFields DEF Assistant
<1>3. Penalty \in 0 .. 10
  BY PenaltyRange
<1>4. MinOf(local.score + Penalty, ScoreCap) \in 0 .. 20
  BY <1>1, <1>3 DEF MinOf, ScoreCap
<1>5. score \in 0 .. 20
  BY <1>4
<1>6. step \in 0 .. MaxTurns + 1
  BY <1>1, MaxTurnsAssumption
<1>7. target \in Advancing \cup {"none"} /\ lastTool \in ToolNames
  BY <1>1, <1>2 DEF Advances, Tool
<1>8. Blank(snap) => score = local.score
  <2> SUFFICES ASSUME Blank(snap) PROVE score = local.score
    OBVIOUS
  <2>1. ~ snap.last.rambled /\ Tool = "none"
    BY DEF Blank, NoTurn, Tool
  <2>2. ~ Advances
    BY <2>1 DEF Advances, Advancing
  <2>3. Penalty = 0
    BY <2>1, PenaltyRange DEF Blank
  <2>4. MinOf(local.score + Penalty, ScoreCap) = local.score
    BY <2>3, <1>1 DEF MinOf, ScoreCap
  <2> QED
    BY <2>1, <2>2, <2>4
<1> HIDE DEF score, step, target, lastTool
<1>9. Scored = [local EXCEPT !.score = score, !.step = step, !.target = target,
                             !.lastTool = lastTool]
  BY DEF Scored, score, step, target, lastTool
<1>10. PICK l \in Local : l = local
  OBVIOUS
<1>11. PICK r : r = [l EXCEPT !.score = score, !.step = step, !.target = target,
                              !.lastTool = lastTool]
  OBVIOUS
<1>12. /\ r \in Local /\ r.yolo = l.yolo /\ r.force = l.force /\ r.step = step
       /\ r.target = target /\ r.score = score
  BY <1>5, <1>6, <1>7, <1>11 DEF Local, ScoreCap
<1>13. Scored = r
  BY <1>9, <1>10, <1>11
<1> QED
  BY <1>8, <1>10, <1>12, <1>13 DEF step, target

LEMMA AfterFields ==
  ASSUME local \in Local, snap \in Epoch
  PROVE  /\ After \in Local
         /\ After.yolo = local.yolo
         /\ After.step = IF Advances THEN 0 ELSE local.step
         /\ After.target = IF Advances THEN Tool ELSE local.target
         /\ Yolo => After.score < 20
         /\ Blank(snap) /\ local.force = FALSE /\ (Yolo => local.score < 20) =>
              After.force = FALSE
<1>1. PICK s \in Local : s = Scored
  BY ScoredFields
<1>2. s.score \in 0 .. 20
  BY DEF Local, ScoreCap
<1>3. CASE HardReset
  <2> DEFINE yes == TRUE
             none == 0
  <2>0. yes \in BOOLEAN /\ none \in 0 .. 20 /\ none = 0
    OBVIOUS
  <2> HIDE DEF yes, none
  <2>1. PICK r : r = [s EXCEPT !.force = yes, !.score = none]
    OBVIOUS
  <2>2. /\ r \in Local /\ r.yolo = s.yolo /\ r.step = s.step /\ r.target = s.target
        /\ r.score = 0
    BY <2>0, <2>1 DEF Local, ScoreCap
  <2>3. After = r
    BY <1>1, <1>3, <2>1 DEF After, yes, none
  <2>4. ~ (Blank(snap) /\ (Yolo => local.score < 20))
    BY <1>3, ScoredFields DEF HardReset, Local
  <2> QED
    BY <1>1, <2>2, <2>3, <2>4, ScoredFields
<1>4. CASE ~ HardReset
  <2>1. After = s
    BY <1>1, <1>4 DEF After
  <2>2. Yolo => s.score < 20
    BY <1>1, <1>2, <1>4 DEF HardReset
  <2> QED
    BY <1>1, <2>1, <2>2, ScoredFields
<1> QED
  BY <1>3, <1>4

-----------------------------------------------------------------------------
(* Initially *)

THEOREM InitInvariant == EngineInit => IInv
<1> SUFFICES ASSUME EngineInit PROVE IInv
  OBVIOUS
<1> USE DEF EngineInit
<1>1. epoch \in Epoch /\ snap \in Epoch /\ local \in Local
  BY Empties
<1>2. since.turns = 0 /\ since.cut = FALSE /\ since.ran = {}
  OBVIOUS
<1>3. since \in [turns: 0 .. MaxTurns + 1, cut: BOOLEAN, ran: SUBSET Subtasks]
  BY MaxTurnsAssumption
<1>4. EngineTypeOK
  BY <1>1, <1>3 DEF EngineTypeOK, Pcs, Exits
<1>5. Counts
  BY <1>2, MaxTurnsAssumption DEF Counts, TurnsBounded
<1>6. Cuts
  BY <1>2 DEF Cuts
<1>7. Queue
  BY <1>2 DEF Queue, EmptyEpoch
<1> QED
  BY <1>4, <1>5, <1>6, <1>7 DEF IInv

-----------------------------------------------------------------------------
(* The history *)

History == [turns: 0 .. MaxTurns + 1, cut: BOOLEAN, ran: SUBSET Subtasks]

LEMMA HappenedFields ==
  ASSUME since \in History
  PROVE  /\ Happened \in History /\ Happened.cut = FALSE
         /\ Happened.turns = since.turns /\ Happened.ran = since.ran
<1> DEFINE no == FALSE
<1>1. no \in BOOLEAN /\ no = FALSE
  OBVIOUS
<1> HIDE DEF no
<1>2. PICK h \in History : h = since
  OBVIOUS
<1>3. PICK r : r = [h EXCEPT !.cut = no]
  OBVIOUS
<1>4. r \in History /\ r.cut = no /\ r.turns = h.turns /\ r.ran = h.ran
  BY <1>1, <1>3 DEF History
<1>5. Happened = r
  BY <1>2, <1>3 DEF Happened, no
<1> QED
  BY <1>1, <1>2, <1>4, <1>5

LEMMA CountedFields ==
  ASSUME since \in History, since.turns <= MaxTurns
  PROVE  /\ Counted \in History /\ Counted.turns = since.turns + 1
         /\ Counted.cut = since.cut /\ Counted.ran = since.ran
<1>1. PICK h \in History : h = since
  OBVIOUS
<1>2. since.turns + 1 \in 0 .. MaxTurns + 1
  BY MaxTurnsAssumption DEF History
<1>3. PICK r : r = [h EXCEPT !.turns = since.turns + 1]
  OBVIOUS
<1>4. r \in History /\ r.turns = since.turns + 1 /\ r.cut = h.cut /\ r.ran = h.ran
  BY <1>2, <1>3 DEF History
<1>5. Counted = r
  BY <1>1, <1>3 DEF Counted
<1> QED
  BY <1>1, <1>4, <1>5

LEMMA RanFields ==
  ASSUME NEW h \in History, Head(epoch.before) \in Subtasks
  PROVE  /\ Ran(h) \in History /\ Ran(h).turns = h.turns /\ Ran(h).cut = h.cut
         /\ Ran(h).ran = h.ran \cup {Head(epoch.before)}
<1>1. h.ran \cup {Head(epoch.before)} \in SUBSET Subtasks
  BY DEF History
<1>2. PICK r : r = [h EXCEPT !.ran = h.ran \cup {Head(epoch.before)}]
  OBVIOUS
<1>3. /\ r \in History /\ r.turns = h.turns /\ r.cut = h.cut
      /\ r.ran = h.ran \cup {Head(epoch.before)}
  BY <1>1, <1>2 DEF History
<1>4. Ran(h) = r
  BY <1>2 DEF Ran
<1> QED
  BY <1>3, <1>4

LEMMA HistoryType == EngineTypeOK => since \in History
  BY DEF EngineTypeOK, History

-----------------------------------------------------------------------------
(* Steps that leave the epoch and the posted prompts alone *)

\* The run ends.
LEMMA Leaving ==
  ASSUME IInv, NEW how \in Exits, Leave(how), pc # "prepare",
         UNCHANGED <<epoch, requested, posted, calling, served, due, since>>
  PROVE  IInv'
<1> USE DEF IInv, Leave
<1>1. EngineTypeOK'
  BY Empties DEF EngineTypeOK, Pcs
<1>2. Counts'
  BY DEF Counts, TurnsBounded
<1>3. Cuts'
  BY DEF Cuts, Blank
<1>4. Queue'
  BY DEF Queue, Left, EmptyEpoch
<1> QED
  BY <1>1, <1>2, <1>3, <1>4

LEMMA JoinLoopStep == IInv /\ (\E p \in Prompts : JoinLoop(p)) => IInv'
<1> SUFFICES ASSUME IInv, NEW p \in Prompts, JoinLoop(p) PROVE IInv'
  OBVIOUS
<1> USE DEF IInv, JoinLoop
<1>1. EngineTypeOK'
  BY DEF EngineTypeOK
<1>2. Counts' /\ Cuts' /\ Queue'
  BY DEF Counts, TurnsBounded, Cuts, Blank, Yolo, Queue, Left
<1> QED
  BY <1>1, <1>2

LEMMA NewLocalFields ==
  ASSUME NEW y \in BOOLEAN
  PROVE  /\ NewLocal(y) \in Local /\ NewLocal(y).step = 0 /\ NewLocal(y).score = 0
         /\ NewLocal(y).force = FALSE /\ NewLocal(y).target = "none"
BY Empties DEF NewLocal

LEMMA StartLoopStep == IInv /\ (\E p \in Prompts : StartLoop(p)) => IInv'
<1> SUFFICES ASSUME IInv, NEW p \in Prompts, StartLoop(p) PROVE IInv'
  OBVIOUS
<1> USE DEF IInv
<1>1. PICK y \in BOOLEAN : local' = NewLocal(y)
  BY ModeAssumption DEF StartLoop
<1>2. /\ local' \in Local /\ local'.step = 0 /\ local'.score = 0 /\ local'.force = FALSE
      /\ local'.target = "none"
  BY <1>1, NewLocalFields
<1>3. PICK h \in History : h = since
  BY HistoryType
<1>4. PICK r : r = [h EXCEPT !.turns = 0]
  OBVIOUS
<1>5. r \in History /\ r.turns = 0 /\ r.cut = h.cut /\ r.ran = h.ran
  BY <1>4, MaxTurnsAssumption DEF History
<1>6. since' = r
  BY <1>3, <1>4 DEF StartLoop
<1>7. since' \in History /\ since'.turns = 0 /\ since'.cut = since.cut /\ since'.ran = since.ran
  BY <1>3, <1>5, <1>6
<1>8. /\ calling' = calling \ {p} /\ pc = "idle" /\ pc' = "top" /\ exit' = "none"
      /\ UNCHANGED <<epoch, snap, requested, posted, served, due>>
  BY DEF StartLoop
<1>9. EngineTypeOK'
  BY <1>2, <1>7, <1>8 DEF EngineTypeOK, History, Pcs, Exits
<1>10. Counts'
  BY <1>2, <1>7, <1>8, MaxTurnsAssumption DEF Counts, TurnsBounded
<1>11. Cuts'
  BY <1>2, <1>7, <1>8 DEF Cuts, Blank
<1>12. Queue'
  BY <1>7, <1>8 DEF Queue, Left
<1> QED
  BY <1>9, <1>10, <1>11, <1>12

LEMMA ReadEpochStep == IInv /\ ReadEpoch => IInv'
<1> SUFFICES ASSUME IInv, ReadEpoch PROVE IInv'
  OBVIOUS
<1> USE DEF IInv
<1>1. local.step \in Nat /\ MaxTurns \in Nat
  BY MaxTurnsAssumption DEF EngineTypeOK, Local
<1>2. /\ pc = "top" /\ local.step <= MaxTurns /\ pc' = "decide" /\ snap' = epoch
      /\ due' = posted
      /\ UNCHANGED <<local, epoch, requested, posted, calling, served, exit, since>>
  BY <1>1 DEF ReadEpoch, Exceeded
<1>3. EngineTypeOK'
  BY <1>2 DEF EngineTypeOK, Pcs
<1>4. Counts'
  BY <1>2 DEF Counts, TurnsBounded
<1>5. Cuts'
  BY <1>2 DEF Cuts, Blank, Yolo
<1>6. Len(epoch.after) <= Len(epoch.after)
  BY EpochFields DEF EngineTypeOK
<1>7. Queue'
  BY <1>2, <1>6 DEF Queue, Left
<1> QED
  BY <1>3, <1>4, <1>5, <1>7

LEMMA BeginTransitionStep == IInv /\ BeginTransition => IInv'
<1> SUFFICES ASSUME IInv, BeginTransition PROVE IInv'
  OBVIOUS
<1> USE DEF IInv
<1> DEFINE no == FALSE
<1>1. no \in BOOLEAN /\ no = FALSE
  OBVIOUS
<1> HIDE DEF no
<1>2. PICK l \in Local : l = local
  BY DEF EngineTypeOK
<1>3. PICK r : r = [l EXCEPT !.force = no]
  OBVIOUS
<1>4. /\ r \in Local /\ r.force = no /\ r.step = l.step /\ r.score = l.score
      /\ r.target = l.target /\ r.yolo = l.yolo
  BY <1>1, <1>3 DEF Local
<1>5. local' = r
  BY <1>2, <1>3 DEF BeginTransition, no
<1>6. /\ local' \in Local /\ local'.force = FALSE /\ local'.step = local.step
      /\ local'.score = local.score /\ local'.target = local.target
      /\ local'.yolo = local.yolo
  BY <1>1, <1>2, <1>4, <1>5
<1>7. /\ pc = "decide" /\ pc' = "worker" /\ snap' = EmptyEpoch /\ (local.force \/ snap.full)
      /\ UNCHANGED <<epoch, requested, posted, calling, served, due, exit, since>>
  BY DEF BeginTransition, MustTransition
<1>8. EngineTypeOK'
  BY <1>6, <1>7, Empties DEF EngineTypeOK, Pcs
<1>9. Counts'
  BY <1>6, <1>7 DEF Counts, TurnsBounded
<1>10. since.cut = FALSE
  BY <1>7, HistoryType DEF Cuts, Blank, History
<1>11. Cuts'
  BY <1>6, <1>7, <1>10 DEF Cuts, Yolo
<1>12. Queue'
  BY <1>7 DEF Queue, Left, EmptyEpoch
<1> QED
  BY <1>8, <1>9, <1>11, <1>12

-----------------------------------------------------------------------------
(* Steps that change the epoch *)

LEMMA CutEpochStep == IInv /\ CutEpoch => IInv'
<1> SUFFICES ASSUME IInv, CutEpoch PROVE IInv'
  OBVIOUS
<1> USE DEF IInv
<1> DEFINE yes == TRUE
           only == <<"transition">>
<1>1. yes \in BOOLEAN /\ yes = TRUE /\ only \in Seq(Task) /\ only = <<"transition">>
  BY DEF Task
<1> HIDE DEF yes, only
<1>2. PICK e \in Epoch : e = EmptyEpoch
  BY Empties
<1>3. PICK r : r = [e EXCEPT !.userNewer = yes, !.cut = yes, !.after = only]
  OBVIOUS
<1>4. /\ r \in Epoch /\ r.after = only /\ r.last = e.last /\ r.spoke = e.spoke
      /\ r.full = e.full /\ r.before = e.before /\ r.view = e.view
  BY <1>1, <1>3 DEF Epoch
<1>5. epoch' = r
  BY <1>2, <1>3 DEF CutEpoch, yes, only
<1>6. epoch' \in Epoch /\ Blank(epoch') /\ epoch'.view = {}
  BY <1>1, <1>2, <1>4, <1>5 DEF Blank, EmptyEpoch
<1>7. PICK h \in History : h = since
  BY HistoryType
<1>8. PICK k : k = [h EXCEPT !.cut = yes]
  OBVIOUS
<1>9. k \in History /\ k.turns = h.turns /\ k.ran = h.ran
  BY <1>1, <1>8 DEF History
<1>10. since' = k
  BY <1>7, <1>8 DEF CutEpoch, yes
<1>11. since' \in History /\ since'.turns = since.turns /\ since'.ran = since.ran
  BY <1>7, <1>9, <1>10
<1>12. /\ pc = "worker" /\ pc' = "handover"
       /\ UNCHANGED <<local, snap, requested, posted, calling, served, due, exit>>
  BY DEF CutEpoch
<1>13. EngineTypeOK'
  BY <1>6, <1>11, <1>12 DEF EngineTypeOK, History, Pcs
<1>14. Counts'
  BY <1>6, <1>11, <1>12 DEF Counts, TurnsBounded, Blank, NoTurn, Advancing
<1>15. Cuts'
  BY <1>6, <1>11, <1>12 DEF Cuts, Blank, Yolo
<1>16. Queue'
  BY <1>6, <1>11, <1>12 DEF Queue, Left, Blank
<1> QED
  BY <1>13, <1>14, <1>15, <1>16

\* What of an epoch a user message leaves as it was.
Same(e) == /\ e.last = epoch.last /\ e.spoke = epoch.spoke /\ e.full = epoch.full
           /\ e.before = epoch.before /\ e.after = epoch.after /\ e.view = epoch.view

LEMMA HandoverStep == IInv /\ Handover => IInv'
<1> SUFFICES ASSUME IInv, Handover PROVE IInv'
  OBVIOUS
<1> USE DEF IInv
<1>1. epoch' \in Epoch /\ Same(epoch')
  BY ToldFields DEF Handover, EngineTypeOK, Same
<1>2. /\ pc = "handover" /\ pc' = "top"
      /\ UNCHANGED <<local, snap, requested, posted, calling, served, due, exit, since>>
  BY DEF Handover
<1>3. EngineTypeOK'
  BY <1>1, <1>2 DEF EngineTypeOK, Pcs
<1>4. Counts'
  BY <1>1, <1>2 DEF Counts, TurnsBounded, Same
<1>5. Cuts'
  BY <1>1, <1>2 DEF Cuts, Blank, Yolo, Same
<1>6. Queue'
  BY <1>1, <1>2 DEF Queue, Left, Same
<1> QED
  BY <1>3, <1>4, <1>5, <1>6

\* What a pass finds when it decides.
LEMMA Decided ==
  ASSUME IInv, pc = "decide"
  PROVE  /\ local \in Local /\ snap \in Epoch /\ epoch \in Epoch
         /\ After \in Local /\ After.yolo = local.yolo
         /\ After.step \in 0 .. MaxTurns /\ since.turns <= After.step
         /\ Tool = epoch.last.tools
         /\ Tool \in Advancing => Tool = After.target
         /\ Yolo => After.score < 20
         /\ since.cut = TRUE => Blank(epoch) /\ Blank(snap) /\ After.force = FALSE
<1> USE DEF IInv
<1>1. local \in Local /\ snap \in Epoch /\ epoch \in Epoch
  BY DEF EngineTypeOK
<1>2. /\ After \in Local /\ After.yolo = local.yolo
      /\ After.step = IF Advances THEN 0 ELSE local.step
      /\ After.target = IF Advances THEN Tool ELSE local.target
      /\ Yolo => After.score < 20
      /\ Blank(snap) /\ local.force = FALSE /\ (Yolo => local.score < 20) =>
           After.force = FALSE
  BY <1>1, AfterFields
<1>3. local.step \in Nat /\ local.step <= MaxTurns /\ since.turns \in Nat /\ MaxTurns \in Nat
  BY <1>1, HistoryType, MaxTurnsAssumption DEF Local, History, Counts
<1>4. Tool = epoch.last.tools
  BY DEF Counts, Tool
<1>5. since.turns <= local.step /\ (Advances => since.turns = 0)
  BY <1>4 DEF Counts, Advances
<1>6. Tool \in Advancing => Tool = After.target
  BY <1>2 DEF Advances
<1>7. since.cut = TRUE => Blank(epoch) /\ Blank(snap) /\ After.force = FALSE
  BY <1>2 DEF Cuts
<1> QED
  BY <1>1, <1>2, <1>3, <1>4, <1>5, <1>6, <1>7

\* A pass that ends with a user message at most.
LEMMA Passing ==
  ASSUME IInv, pc = "decide", local' = After, NextPass, epoch' \in Epoch, Same(epoch'),
         requested' \in BOOLEAN, UNCHANGED <<posted, calling, served, due, exit, since>>
  PROVE  IInv'
<1> USE DEF IInv, NextPass
<1>1. EngineTypeOK'
  BY Decided, Empties DEF EngineTypeOK, Pcs
<1>2. Counts'
  BY Decided DEF Counts, TurnsBounded, Same
<1>3. Cuts'
  BY Decided DEF Cuts, Blank, Yolo, Same
<1>4. Queue'
  BY DEF Queue, Left, Same, EmptyEpoch
<1> QED
  BY <1>1, <1>2, <1>3, <1>4

LEMMA WarningStep == IInv /\ (RequestIntervention \/ Nudge \/ NudgeToComplete) => IInv'
<1> SUFFICES ASSUME IInv, RequestIntervention \/ Nudge \/ NudgeToComplete PROVE IInv'
  OBVIOUS
<1>1. epoch \in Epoch /\ requested \in BOOLEAN
  BY DEF IInv, EngineTypeOK
<1>2. CASE RequestIntervention
  <2>1. epoch' \in Epoch /\ Same(epoch') /\ requested' \in BOOLEAN
    BY <1>1, <1>2 DEF RequestIntervention, Same
  <2> QED
    BY <1>2, <2>1, Passing DEF RequestIntervention, Deciding
<1>3. CASE Nudge
  <2>1. PICK general \in BOOLEAN :
          epoch' = [Told(epoch) EXCEPT !.nudged = @ \/ general]
    BY <1>3 DEF Nudge
  <2>2. PICK e \in Epoch : e = Told(epoch)
    BY <1>1, ToldFields
  <2>3. PICK n \in BOOLEAN : n = (Told(epoch).nudged \/ general)
    OBVIOUS
  <2>4. PICK r : r = [e EXCEPT !.nudged = n]
    OBVIOUS
  <2>5. /\ r \in Epoch /\ r.last = e.last /\ r.spoke = e.spoke /\ r.full = e.full
        /\ r.before = e.before /\ r.after = e.after /\ r.view = e.view
    BY <2>4 DEF Epoch
  <2>6. epoch' = r
    BY <2>1, <2>2, <2>3, <2>4
  <2>7. epoch' \in Epoch /\ Same(epoch')
    BY <1>1, <2>2, <2>5, <2>6, ToldFields DEF Same
  <2> QED
    BY <1>1, <1>3, <2>7, Passing DEF Nudge, Deciding
<1>4. CASE NudgeToComplete
  <2>1. epoch' \in Epoch /\ Same(epoch')
    BY <1>1, <1>4, ToldFields DEF NudgeToComplete, Same
  <2> QED
    BY <1>1, <1>4, <2>1, Passing DEF NudgeToComplete, Deciding
<1> QED
  BY <1>2, <1>3, <1>4

LEMMA EndingStep == IInv /\ (TooManyTurns \/ EndAnswered \/ FailTurn) => IInv'
<1> SUFFICES ASSUME IInv, TooManyTurns \/ EndAnswered \/ FailTurn PROVE IInv'
  OBVIOUS
<1>1. "short" \in Exits /\ "answered" \in Exits
  BY DEF Exits
<1> QED
  BY <1>1, Leaving DEF TooManyTurns, EndAnswered, FailTurn, TakesTurn, Deciding

-----------------------------------------------------------------------------
(* Counts *)

LEMMA SteppedFields ==
  ASSUME IInv, pc = "decide"
  PROVE  /\ Stepped \in Local /\ Stepped.step = After.step + 1
         /\ Stepped.step \in 1 .. MaxTurns + 1
         /\ Stepped.score = After.score /\ Stepped.force = After.force
         /\ Stepped.target = After.target /\ Stepped.yolo = local.yolo
<1>1. PICK a \in Local : a = After
  BY Decided
<1>2. /\ a.step \in 0 .. MaxTurns /\ a.yolo = local.yolo /\ a.step + 1 \in 1 .. MaxTurns + 1
      /\ a.step + 1 \in 0 .. MaxTurns + 1
  BY <1>1, Decided, MaxTurnsAssumption
<1> DEFINE next == a.step + 1
<1> HIDE DEF next
<1>3. PICK r : r = [a EXCEPT !.step = next]
  OBVIOUS
<1>4. next \in 0 .. MaxTurns + 1
  BY <1>2 DEF next
<1>5. /\ r \in Local /\ r.step = next /\ r.score = a.score /\ r.force = a.force
      /\ r.target = a.target /\ r.yolo = a.yolo
  BY <1>3, <1>4 DEF Local
<1>6. Stepped = r
  BY <1>1, <1>3 DEF Stepped, next
<1> QED
  BY <1>1, <1>2, <1>5, <1>6 DEF next

LEMMA AppendedFields ==
  ASSUME NEW a \in Assistant, epoch \in Epoch
  PROVE  /\ Appended(a) \in Epoch /\ Appended(a).last = a
         /\ Appended(a).before = epoch.before \o epoch.after
         /\ Appended(a).after = <<>> /\ Appended(a).view = epoch.view
<1> DEFINE yes == TRUE
           no == FALSE
           all == epoch.before \o epoch.after
           none == <<>>
<1>1. yes \in BOOLEAN /\ no \in BOOLEAN /\ none \in Seq(Task)
  OBVIOUS
<1>2. all \in Seq(Task)
  BY EpochFields
<1> HIDE DEF yes, no, all, none
<1>3. PICK e \in Epoch : e = epoch
  OBVIOUS
<1>4. PICK r : r = [e EXCEPT !.last = a, !.spoke = yes, !.userNewer = no,
                             !.before = all, !.after = none]
  OBVIOUS
<1>5. /\ r \in Epoch /\ r.last = a /\ r.before = all /\ r.after = none /\ r.view = e.view
  BY <1>1, <1>2, <1>4 DEF Epoch
<1>6. Appended(a) = r
  BY <1>3, <1>4 DEF Appended, yes, no, all, none
<1> QED
  BY <1>3, <1>5, <1>6 DEF all, none

\* The lists of tasks in one.
LEMMA AllLeft ==
  ASSUME IInv
  PROVE  /\ \A i \in 1 .. Len(epoch.before \o epoch.after) :
              (epoch.before \o epoch.after)[i] \in Left
         /\ Len(<<>>) = 0
<1> DEFINE b == epoch.before
           a == epoch.after
<1>1. b \in Seq(Task) /\ a \in Seq(Task)
  BY EpochFields DEF IInv, EngineTypeOK
<1> SUFFICES ASSUME NEW i \in 1 .. Len(b \o a) PROVE (b \o a)[i] \in Left
  OBVIOUS
<1> HIDE DEF b, a
<1>2. Len(b) \in Nat /\ Len(a) \in Nat /\ Len(b \o a) = Len(b) + Len(a) /\ i \in Nat
  BY <1>1
<1>3. CASE i <= Len(b)
  <2>1. i \in 1 .. Len(b) /\ (b \o a)[i] = b[i]
    BY <1>1, <1>2, <1>3
  <2> QED
    BY <2>1 DEF IInv, Queue, b
<1>4. CASE ~ (i <= Len(b))
  <2>1. i - Len(b) \in 1 .. Len(a)
    BY <1>2, <1>4
  <2>2. (b \o a)[i] = a[i - Len(b)]
    BY <1>1, <1>2, <1>4
  <2> QED
    BY <2>1, <2>2 DEF IInv, Queue, a
<1> QED
  BY <1>3, <1>4

\* The lists of tasks after an assistant message was appended.
LEMMA AppendedQueue ==
  ASSUME IInv, epoch'.before = epoch.before \o epoch.after, epoch'.after = <<>>,
         epoch'.view = epoch.view, since'.ran = since.ran, posted' = posted,
         snap'.view \subseteq posted, pc' # "decide",
         pc' \in {"subtask", "hook"} => epoch'.before # <<>> /\ Head(epoch'.before) \in Subtasks
  PROVE  Queue'
<1>1. Left' = Left
  BY DEF Left
<1>2. \A i \in 1 .. Len(epoch'.before) : epoch'.before[i] \in Left
  BY AllLeft
<1>3. \A i \in 1 .. Len(epoch'.after) : FALSE
  BY AllLeft
<1>4. since.ran \subseteq posted /\ epoch.view \subseteq posted
  BY DEF IInv, Queue
<1> HIDE DEF Left
<1> QED
  BY <1>1, <1>2, <1>3, <1>4 DEF Queue

\* The first task a pass sees is still the first when it acts.
LEMMA FirstTask ==
  ASSUME IInv, pc = "decide", IsSubtask
  PROVE  /\ epoch.before \o epoch.after # <<>>
         /\ Head(epoch.before \o epoch.after) = Head(Tasks)
         /\ Head(Tasks) \in Subtasks /\ Head(Tasks) \in posted \ since.ran
<1> DEFINE b == epoch.before
           a == epoch.after
           sa == snap.after
<1>1. b \in Seq(Task) /\ a \in Seq(Task) /\ sa \in Seq(Task) /\ snap.before = b
  BY EpochFields DEF IInv, EngineTypeOK, Queue
<1>2. Len(sa) <= Len(a) /\ \A i \in 1 .. Len(sa) : sa[i] = a[i]
  BY DEF IInv, Queue
<1>3. Tasks = b \o sa
  BY <1>1 DEF Tasks
<1> HIDE DEF b, a, sa
<1>4. b \o sa # <<>>
  BY <1>3 DEF IsSubtask
<1>5. b \o a # <<>> /\ Head(b \o a) = Head(b \o sa)
  <2>1. CASE b = <<>>
    <3>1. sa # <<>> /\ b \o sa = sa /\ b \o a = a
      BY <1>1, <1>4, <2>1
    <3>2. Len(sa) \in Nat /\ Len(a) \in Nat /\ Len(sa) >= 1
      BY <1>1, <3>1
    <3>3. sa[1] = a[1] /\ Len(a) >= 1
      BY <1>2, <3>2
    <3> QED
      BY <1>1, <3>1, <3>3
  <2>2. CASE b # <<>>
    <3>1. Len(b) >= 1 /\ Len(b) \in Nat
      BY <1>1, <2>2
    <3>2. (b \o a)[1] = b[1] /\ (b \o sa)[1] = b[1]
      BY <1>1, <3>1
    <3>3. b \o a # <<>> /\ b \o sa # <<>>
      BY <1>1, <2>2
    <3> QED
      BY <1>1, <3>2, <3>3
  <2> QED
    BY <2>1, <2>2
<1>6. Head(Tasks) \in Subtasks
  BY DEF IsSubtask
<1>7. Head(b \o a) \in Left
  <2>1. b \o a \in Seq(Task) /\ 1 \in 1 .. Len(b \o a)
    BY <1>1, <1>5
  <2>2. (b \o a)[1] \in Left
    BY <2>1, AllLeft DEF b, a
  <2> QED
    BY <1>5, <2>1, <2>2
<1>8. Head(Tasks) \in posted \ since.ran
  BY <1>3, <1>5, <1>6, <1>7, ModeAssumption, PromptsAssumption DEF Left
<1> QED
  BY <1>3, <1>5, <1>6, <1>8 DEF b, a

LEMMA StartSubtaskStep == IInv /\ StartSubtask => IInv'
<1> SUFFICES ASSUME IInv, StartSubtask PROVE IInv'
  OBVIOUS
<1>1. /\ pc = "decide" /\ IsSubtask /\ local' = Stepped /\ pc' = "subtask"
      /\ snap' = EmptyEpoch /\ since' = Counted /\ served' = served \cup {Head(Tasks)}
      /\ UNCHANGED <<requested, posted, calling, due, exit>>
  BY DEF StartSubtask, TakesTurn, Deciding
<1>2. PICK a \in Assistant : a = [NoTurn EXCEPT !.tools = "task"]
  BY DEF NoTurn, Assistant, ToolNames
<1>3. a.tools = "task"
  BY <1>2 DEF NoTurn
<1>4. epoch' = Appended(a)
  BY <1>2 DEF StartSubtask
<1>5. /\ epoch' \in Epoch /\ epoch'.last = a /\ epoch'.before = epoch.before \o epoch.after
      /\ epoch'.after = <<>> /\ epoch'.view = epoch.view
  BY <1>4, AppendedFields DEF IInv, EngineTypeOK
<1>6. since.turns <= MaxTurns /\ since.turns \in Nat /\ MaxTurns \in Nat /\ since \in History
  BY <1>1, Decided, HistoryType, MaxTurnsAssumption DEF IInv, History
<1>7. /\ since' \in History /\ since'.turns = since.turns + 1 /\ since'.cut = since.cut
      /\ since'.ran = since.ran
  BY <1>1, <1>6, CountedFields
<1>8. EngineTypeOK'
  BY <1>1, <1>5, <1>7, SteppedFields, FirstTask, Empties
     DEF IInv, EngineTypeOK, History, Pcs
<1>9. Counts'
  BY <1>1, <1>3, <1>5, <1>6, <1>7, SteppedFields, Decided
     DEF Counts, TurnsBounded, Advancing
<1>10. since.cut = FALSE
  <2>1. since.cut = TRUE => Blank(snap)
    BY <1>1, Decided
  <2>2. Blank(snap) => Head(Tasks) = "transition"
    BY DEF Blank, Tasks
  <2>3. Head(Tasks) # "transition"
    BY <1>1, FirstTask, ModeAssumption, PromptsAssumption
  <2> QED
    BY <1>6, <2>1, <2>2, <2>3 DEF History
<1>11. Cuts'
  BY <1>1, <1>7, <1>10, SteppedFields, Decided DEF Cuts, Yolo
<1>12. Queue'
  BY <1>1, <1>5, <1>7, AppendedQueue, FirstTask DEF EmptyEpoch
<1> QED
  BY <1>8, <1>9, <1>11, <1>12 DEF IInv

LEMMA StartTurnStep == IInv /\ StartTurn => IInv'
<1> SUFFICES ASSUME IInv, StartTurn PROVE IInv'
  OBVIOUS
<1>1. /\ pc = "decide" /\ local' = Stepped /\ pc' = "prepare" /\ since' = Counted
      /\ epoch' = Appended(NoTurn)
      /\ UNCHANGED <<snap, requested, posted, calling, served, due, exit>>
  BY DEF StartTurn, TakesTurn, Deciding
<1>2. /\ epoch' \in Epoch /\ epoch'.last = NoTurn
      /\ epoch'.before = epoch.before \o epoch.after
      /\ epoch'.after = <<>> /\ epoch'.view = epoch.view
  BY <1>1, AppendedFields, Empties DEF IInv, EngineTypeOK
<1>3. since.turns <= MaxTurns /\ since.turns \in Nat /\ MaxTurns \in Nat /\ since \in History
  BY <1>1, Decided, HistoryType, MaxTurnsAssumption DEF IInv, History
<1>4. /\ since' \in History /\ since'.turns = since.turns + 1 /\ since'.cut = since.cut
      /\ since'.ran = since.ran
  BY <1>1, <1>3, CountedFields
<1>5. EngineTypeOK'
  BY <1>1, <1>2, <1>4, SteppedFields DEF IInv, EngineTypeOK, History, Pcs
<1>6. Counts'
  BY <1>1, <1>2, <1>3, <1>4, SteppedFields, Decided
     DEF Counts, TurnsBounded, Advancing, NoTurn
<1>7. Cuts'
  BY <1>1, SteppedFields, Decided DEF Cuts, Yolo
<1>8. Queue'
  BY <1>1, <1>2, <1>4, AppendedQueue DEF IInv, Queue
<1> QED
  BY <1>5, <1>6, <1>7, <1>8 DEF IInv

LEMMA InterveneStep == IInv /\ Intervene => IInv'
<1> SUFFICES ASSUME IInv, Intervene PROVE IInv'
  OBVIOUS
<1>1. /\ pc = "prepare" /\ pc' = "top" /\ requested' = FALSE /\ snap' = EmptyEpoch
      /\ since' = Happened /\ epoch' = Told(epoch)
      /\ UNCHANGED <<local, posted, calling, served, due, exit>>
  BY DEF Intervene, NextPass
<1>2. epoch' \in Epoch /\ Same(epoch')
  BY <1>1, ToldFields DEF IInv, EngineTypeOK, Same
<1>3. /\ since' \in History /\ since'.turns = since.turns /\ since'.cut = FALSE
      /\ since'.ran = since.ran
  BY <1>1, HappenedFields, HistoryType DEF IInv
<1>4. EngineTypeOK'
  BY <1>1, <1>2, <1>3, Empties DEF IInv, EngineTypeOK, History, Pcs
<1>5. Counts'
  BY <1>1, <1>2, <1>3 DEF IInv, Counts, TurnsBounded, Same
<1>6. Cuts'
  BY <1>1, <1>3 DEF IInv, Cuts, Yolo
<1>7. Queue'
  BY <1>1, <1>2, <1>3 DEF IInv, Queue, Left, Same, EmptyEpoch
<1> QED
  BY <1>4, <1>5, <1>6, <1>7 DEF IInv

LEMMA CallModelStep == IInv /\ CallModel => IInv'
<1> SUFFICES ASSUME IInv, CallModel PROVE IInv'
  OBVIOUS
<1>1. /\ pc = "prepare" /\ pc' = "llm" /\ snap' = EmptyEpoch /\ since' = Happened
      /\ UNCHANGED <<local, requested, posted, calling, due, exit>>
  BY DEF CallModel
<1>2. epoch' \in Epoch /\ Same(epoch')
  BY ToldFields DEF CallModel, IInv, EngineTypeOK, Same
<1>3. served' \subseteq posted
  BY DEF CallModel, IInv, EngineTypeOK, Queue
<1>4. /\ since' \in History /\ since'.turns = since.turns /\ since'.cut = FALSE
      /\ since'.ran = since.ran
  BY <1>1, HappenedFields, HistoryType DEF IInv
<1>5. EngineTypeOK'
  BY <1>1, <1>2, <1>3, <1>4, Empties DEF IInv, EngineTypeOK, History, Pcs
<1>6. Counts'
  BY <1>1, <1>2, <1>4 DEF IInv, Counts, TurnsBounded, Same
<1>7. Cuts'
  BY <1>1, <1>4 DEF IInv, Cuts, Yolo
<1>8. Queue'
  BY <1>1, <1>2, <1>4 DEF IInv, Queue, Left, Same, EmptyEpoch
<1> QED
  BY <1>5, <1>6, <1>7, <1>8 DEF IInv

\* What ran, or was marked as over, leaves the lists.
LEMMA RanQueue ==
  ASSUME IInv, pc \in {"subtask", "hook"}, epoch'.before = <<>>, epoch'.after = epoch.after,
         epoch'.view = epoch.view, since'.ran = since.ran \cup {Head(epoch.before)},
         posted' = posted, snap'.view \subseteq posted, pc' \notin {"decide", "subtask", "hook"}
  PROVE  Queue'
<1>1. epoch.before \in Seq(Task) /\ epoch.before # <<>> /\ Head(epoch.before) \in Subtasks
  BY EpochFields DEF IInv, EngineTypeOK, Queue
<1>2. 1 \in 1 .. Len(epoch.before) /\ Head(epoch.before) = epoch.before[1]
  BY <1>1
<1>3. Head(epoch.before) \in posted
  BY <1>1, <1>2, ModeAssumption, PromptsAssumption DEF IInv, Queue, Left
<1>4. \A i \in 1 .. Len(epoch.after) :
        epoch.after[i] \in Left /\ epoch.after[i] # Head(epoch.before)
  BY <1>2 DEF IInv, Queue
<1>5. \A i \in 1 .. Len(epoch'.after) : epoch'.after[i] \in Left'
  BY <1>4 DEF Left
<1>6. \A i \in 1 .. Len(epoch'.before) : FALSE
  BY AllLeft
<1>7. /\ since'.ran \subseteq posted' /\ epoch'.view \subseteq posted'
      /\ snap'.view \subseteq posted'
  BY <1>3 DEF IInv, Queue
<1> QED
  BY <1>5, <1>6, <1>7 DEF Queue

LEMMA EndSubtaskStep == IInv /\ EndSubtask => IInv'
<1> SUFFICES ASSUME IInv, EndSubtask PROVE IInv'
  OBVIOUS
<1>1. /\ pc = "subtask" /\ pc' = "hook"
      /\ UNCHANGED <<local, epoch, snap, requested, posted, calling, served, due, exit, since>>
  BY DEF EndSubtask
<1>2. EngineTypeOK'
  BY <1>1 DEF IInv, EngineTypeOK, Pcs
<1>3. Counts'
  BY <1>1 DEF IInv, Counts, TurnsBounded
<1>4. Cuts'
  BY <1>1 DEF IInv, Cuts, Blank, Yolo
<1>5. Queue'
  BY <1>1 DEF IInv, Queue, Left
<1> QED
  BY <1>2, <1>3, <1>4, <1>5 DEF IInv

LEMMA StoreSubtaskStep == IInv /\ StoreSubtask => IInv'
<1> SUFFICES ASSUME IInv, StoreSubtask PROVE IInv'
  OBVIOUS
<1>1. /\ pc = "hook" /\ pc' = "top" /\ since' = Ran(Happened)
      /\ UNCHANGED <<local, snap, requested, posted, calling, served, due, exit>>
  BY DEF StoreSubtask
<1>2. PICK command \in BOOLEAN, f \in BOOLEAN :
        epoch' = [epoch EXCEPT !.before = <<>>, !.userNewer = @ \/ command,
                               !.full = @ \/ f]
  BY DEF StoreSubtask
<1>3. PICK e \in Epoch : e = epoch
  BY DEF IInv, EngineTypeOK
<1>4. PICK n \in BOOLEAN : n = (epoch.userNewer \/ command)
  OBVIOUS
<1>5. PICK g \in BOOLEAN : g = (epoch.full \/ f)
  OBVIOUS
<1> DEFINE b == <<>>
<1>6. b \in Seq(Task)
  OBVIOUS
<1> HIDE DEF b
<1>7. PICK r : r = [e EXCEPT !.before = b, !.userNewer = n, !.full = g]
  OBVIOUS
<1>8. /\ r \in Epoch /\ r.last = e.last /\ r.before = b /\ r.after = e.after
      /\ r.view = e.view
  BY <1>6, <1>7 DEF Epoch
<1>9. epoch' = r
  BY <1>2, <1>3, <1>4, <1>5, <1>7 DEF b
<1>10. /\ epoch' \in Epoch /\ epoch'.last = epoch.last /\ epoch'.before = <<>>
       /\ epoch'.after = epoch.after /\ epoch'.view = epoch.view
  BY <1>3, <1>8, <1>9 DEF b
<1>11. PICK h \in History : h = Happened
  BY HappenedFields, HistoryType DEF IInv
<1>12. h.cut = FALSE /\ h.turns = since.turns /\ h.ran = since.ran
  BY <1>11, HappenedFields, HistoryType DEF IInv
<1>13. Head(epoch.before) \in Subtasks
  BY <1>1 DEF IInv, Queue
<1>14. /\ since' \in History /\ since'.turns = since.turns /\ since'.cut = FALSE
       /\ since'.ran = since.ran \cup {Head(epoch.before)}
  BY <1>1, <1>11, <1>12, <1>13, RanFields
<1>15. EngineTypeOK'
  BY <1>1, <1>10, <1>14 DEF IInv, EngineTypeOK, History, Pcs
<1>16. Counts'
  BY <1>1, <1>10, <1>14 DEF IInv, Counts, TurnsBounded
<1>17. Cuts'
  BY <1>1, <1>14 DEF IInv, Cuts, Yolo
<1>18. Queue'
  BY <1>1, <1>10, <1>14, RanQueue DEF IInv, Queue
<1> QED
  BY <1>15, <1>16, <1>17, <1>18 DEF IInv

\* The assistant message as its turn, or an interruption, leaves it.
LEMMA BecameFields ==
  ASSUME NEW a \in Assistant, NEW finished \in BOOLEAN, NEW f \in BOOLEAN, epoch \in Epoch
  PROVE  /\ Became(a, finished, f) \in Epoch
         /\ Became(a, finished, f).last = a
         /\ Became(a, finished, f).before \in {<<>>, epoch.before}
         /\ Became(a, finished, f).after = epoch.after
         /\ Became(a, finished, f).view = epoch.view
<1>1. PICK e \in Epoch : e = epoch
  OBVIOUS
<1>2. PICK g \in BOOLEAN : g = (epoch.full \/ f)
  OBVIOUS
<1>3. PICK c \in BOOLEAN : c = (epoch.completed \/ a.tools = "task_complete")
  OBVIOUS
<1> DEFINE b == IF finished \/ a.answer THEN <<>> ELSE epoch.before
<1>4. b \in {<<>>, epoch.before}
  OBVIOUS
<1>5. b \in Seq(Task)
  BY <1>4, EpochFields
<1> HIDE DEF b
<1>6. PICK r : r = [e EXCEPT !.last = a, !.full = g, !.completed = c, !.before = b]
  OBVIOUS
<1>7. /\ r \in Epoch /\ r.last = a /\ r.before = b /\ r.after = e.after /\ r.view = e.view
  BY <1>5, <1>6 DEF Epoch
<1>8. Became(a, finished, f) = r
  BY <1>1, <1>2, <1>3, <1>6 DEF Became, b
<1> QED
  BY <1>1, <1>4, <1>7, <1>8

\* Dropping the older tasks keeps what the queue says.
LEMMA DroppedQueue ==
  ASSUME IInv, epoch'.before \in {<<>>, epoch.before}, epoch'.after = epoch.after,
         epoch'.view = epoch.view, since'.ran = since.ran,
         posted' = posted, snap'.view \subseteq posted, pc' \notin {"decide", "subtask", "hook"}
  PROVE  Queue'
<1>1. Left' = Left
  BY DEF Left
<1>2. CASE epoch'.before = epoch.before
  BY <1>1, <1>2 DEF IInv, Queue
<1>3. CASE epoch'.before = <<>>
  <2>1. \A i \in 1 .. Len(epoch'.before) : FALSE
    BY <1>3, AllLeft
  <2> QED
    BY <1>1, <2>1 DEF IInv, Queue
<1> QED
  BY <1>2, <1>3

LEMMA TurnsAreMessages == Turns \subseteq Assistant
  BY ToolsAssumption DEF Turns, Assistant, ToolNames

LEMMA ProgressedFields ==
  ASSUME since \in History, NEW a
  PROVE  /\ Progressed(a) \in History /\ Progressed(a).cut = since.cut
         /\ Progressed(a).ran = since.ran /\ Progressed(a).turns \in {0, since.turns}
         /\ a.tools \in Advancing => Progressed(a).turns = 0
<1>1. PICK h \in History : h = since
  OBVIOUS
<1>2. PICK r : r = [h EXCEPT !.turns = 0]
  OBVIOUS
<1>3. r \in History /\ r.cut = h.cut /\ r.ran = h.ran /\ r.turns = 0
  BY <1>2, MaxTurnsAssumption DEF History
<1>4. Progressed(a) = IF a.tools \in Advancing THEN r ELSE h
  BY <1>1, <1>2 DEF Progressed
<1> QED
  BY <1>1, <1>3, <1>4

LEMMA EndTurnStep ==
  IInv /\ (\E a \in Turns, o \in {"stopped", "compact", "continue"} : EndTurn(a, o)) => IInv'
<1> SUFFICES ASSUME IInv, NEW a \in Turns, NEW o \in {"stopped", "compact", "continue"},
                    EndTurn(a, o)
             PROVE  IInv'
  OBVIOUS
<1>1. pc = "llm" /\ UNCHANGED <<requested, posted, calling, served, due>>
  BY DEF EndTurn
<1>2. PICK finished \in BOOLEAN, f \in BOOLEAN : epoch' = Became(a, finished, f)
  BY DEF EndTurn
<1>3. /\ epoch' \in Epoch /\ epoch'.last = a /\ epoch'.before \in {<<>>, epoch.before}
      /\ epoch'.after = epoch.after /\ epoch'.view = epoch.view
  BY <1>2, BecameFields, TurnsAreMessages DEF IInv, EngineTypeOK
<1>4. since' = Progressed(a)
  BY DEF EndTurn
<1>5. /\ since' \in History /\ since'.cut = FALSE /\ since'.ran = since.ran
      /\ since'.turns \in {0, since.turns} /\ (a.tools \in Advancing => since'.turns = 0)
  BY <1>1, <1>4, ProgressedFields, HistoryType DEF IInv, Cuts
<1>6. since.turns \in Nat /\ since.turns <= MaxTurns + 1 /\ MaxTurns \in Nat
  BY HistoryType, MaxTurnsAssumption DEF IInv, Counts, TurnsBounded, History
<1>7. CASE o = "stopped"
  <2>1. /\ pc' = "idle" /\ exit' = "short" /\ local' = NewLocal(FALSE) /\ snap' = EmptyEpoch
    BY <1>7 DEF EndTurn, Leave
  <2>2. EngineTypeOK'
    BY <1>1, <1>3, <1>5, <2>1, Empties DEF IInv, EngineTypeOK, History, Pcs, Exits
  <2>3. Counts'
    BY <1>5, <1>6, <2>1 DEF Counts, TurnsBounded
  <2>4. Cuts'
    BY <1>5, <2>1 DEF Cuts
  <2>5. Queue'
    BY <1>1, <1>3, <1>5, <2>1, DroppedQueue DEF EmptyEpoch
  <2> QED
    BY <2>2, <2>3, <2>4, <2>5 DEF IInv
<1>8. CASE o # "stopped"
  <2>1. pc' = "top" /\ snap' = EmptyEpoch /\ exit' = exit
    BY <1>8 DEF EndTurn, NextPass
  <2>2. PICK l \in Local : l = local
    BY DEF IInv, EngineTypeOK
  <2>3. PICK force \in BOOLEAN : force = (local.force \/ o = "compact")
    OBVIOUS
  <2>4. PICK r : r = [l EXCEPT !.force = force]
    OBVIOUS
  <2>5. /\ r \in Local /\ r.step = l.step /\ r.score = l.score /\ r.target = l.target
        /\ r.yolo = l.yolo
    BY <2>4 DEF Local
  <2>6. local' = r
    BY <1>8, <2>2, <2>3, <2>4 DEF EndTurn
  <2>7. /\ local' \in Local /\ local'.step = local.step /\ local'.score = local.score
        /\ local'.target = local.target /\ local'.yolo = local.yolo
    BY <2>2, <2>5, <2>6
  <2>8. local.step \in Nat /\ since.turns <= local.step
    BY <1>1, MaxTurnsAssumption DEF IInv, EngineTypeOK, Local, Counts
  <2>9. EngineTypeOK'
    BY <1>1, <1>3, <1>5, <2>1, <2>7, Empties DEF IInv, EngineTypeOK, History, Pcs
  <2>10. Counts'
    BY <1>3, <1>5, <1>6, <2>1, <2>7, <2>8 DEF Counts, TurnsBounded
  <2>11. Cuts'
    BY <1>1, <1>5, <2>1, <2>7 DEF IInv, Cuts, Yolo
  <2>12. Queue'
    BY <1>1, <1>3, <1>5, <2>1, DroppedQueue DEF EmptyEpoch
  <2> QED
    BY <2>9, <2>10, <2>11, <2>12 DEF IInv
<1> QED
  BY <1>7, <1>8

LEMMA InterruptedStep == IInv /\ Interrupted => IInv'
<1> SUFFICES ASSUME IInv, Interrupted PROVE IInv'
  OBVIOUS
<1>1. /\ pc' = "idle" /\ exit' = "short" /\ local' = NewLocal(FALSE) /\ snap' = EmptyEpoch
      /\ UNCHANGED <<requested, posted, calling, served, due>> /\ Leave("short")
  BY DEF Interrupted, Leave
<1>2. since \in History /\ since.turns <= MaxTurns + 1 /\ "short" \in Exits
  BY HistoryType DEF IInv, Counts, TurnsBounded, Exits
<1>3. CASE pc = "llm"
  <2>1. PICK a \in Turns, finished \in BOOLEAN, f \in BOOLEAN :
          epoch' = Became(a, finished, f) /\ since' = since
    BY <1>3 DEF Interrupted
  <2>2. /\ epoch' \in Epoch /\ epoch'.before \in {<<>>, epoch.before}
        /\ epoch'.after = epoch.after /\ epoch'.view = epoch.view
    BY <2>1, BecameFields, TurnsAreMessages DEF IInv, EngineTypeOK
  <2>3. EngineTypeOK'
    BY <1>1, <1>2, <2>1, <2>2, Empties DEF IInv, EngineTypeOK, History, Pcs
  <2>4. Counts'
    BY <1>1, <1>2, <2>1 DEF Counts, TurnsBounded
  <2>5. Cuts'
    BY <1>1, <1>3, <2>1 DEF IInv, Cuts
  <2>6. Queue'
    BY <1>1, <2>1, <2>2, DroppedQueue DEF EmptyEpoch
  <2> QED
    BY <2>3, <2>4, <2>5, <2>6 DEF IInv
<1>4. CASE pc \in {"subtask", "hook"} /\ Stopped(TRUE)
  <2> DEFINE b == <<>>
  <2>1. b \in Seq(Task)
    OBVIOUS
  <2> HIDE DEF b
  <2>2. PICK e \in Epoch : e = epoch
    BY DEF IInv, EngineTypeOK
  <2>3. PICK r : r = [e EXCEPT !.before = b]
    OBVIOUS
  <2>4. r \in Epoch /\ r.before = b /\ r.after = e.after /\ r.view = e.view
    BY <2>1, <2>3 DEF Epoch
  <2>5. epoch' = r
    BY <1>4, <2>2, <2>3 DEF Stopped, b
  <2>6. /\ epoch' \in Epoch /\ epoch'.before = <<>> /\ epoch'.after = epoch.after
        /\ epoch'.view = epoch.view
    BY <2>2, <2>4, <2>5 DEF b
  <2>7. since' = Ran(since) /\ Head(epoch.before) \in Subtasks
    BY <1>4 DEF Stopped, IInv, Queue
  <2>8. /\ since' \in History /\ since'.turns = since.turns /\ since'.cut = since.cut
        /\ since'.ran = since.ran \cup {Head(epoch.before)}
    BY <1>2, <2>7, RanFields
  <2>9. EngineTypeOK'
    BY <1>1, <1>2, <2>6, <2>8, Empties DEF IInv, EngineTypeOK, History, Pcs
  <2>10. Counts'
    BY <1>1, <1>2, <2>8 DEF Counts, TurnsBounded
  <2>11. Cuts'
    BY <1>1, <1>4, <2>8 DEF IInv, Cuts
  <2>12. Queue'
    BY <1>1, <1>4, <2>6, <2>8, RanQueue DEF EmptyEpoch
  <2> QED
    BY <2>9, <2>10, <2>11, <2>12 DEF IInv
<1>5. CASE pc = "prepare"
  <2>1. epoch' = epoch /\ since' = Happened
    BY <1>5 DEF Interrupted
  <2>2. /\ since' \in History /\ since'.turns = since.turns /\ since'.cut = FALSE
        /\ since'.ran = since.ran
    BY <1>2, <2>1, HappenedFields
  <2>3. EngineTypeOK'
    BY <1>1, <1>2, <2>1, <2>2, Empties DEF IInv, EngineTypeOK, History, Pcs
  <2>4. Counts'
    BY <1>1, <1>2, <2>2 DEF Counts, TurnsBounded
  <2>5. Cuts'
    BY <1>1, <2>2 DEF Cuts
  <2>6. Queue'
    BY <1>1, <2>1, <2>2, DroppedQueue DEF EmptyEpoch
  <2> QED
    BY <2>3, <2>4, <2>5, <2>6 DEF IInv
<1>6. CASE pc # "prepare" /\ UNCHANGED <<epoch, since>>
  BY <1>1, <1>2, <1>6, Leaving
<1>7. \/ pc = "llm" \/ pc = "prepare"
      \/ pc \in {"subtask", "hook"} /\ (Stopped(TRUE) \/ UNCHANGED <<epoch, since>>)
      \/ pc # "prepare" /\ UNCHANGED <<epoch, since>>
  <2>1. CASE pc \in {"subtask", "hook"}
    <3>1. PICK finished \in BOOLEAN : Stopped(finished)
      BY <2>1 DEF Interrupted
    <3>2. CASE finished = TRUE
      BY <2>1, <3>1, <3>2
    <3>3. CASE finished = FALSE
      BY <2>1, <3>1, <3>3 DEF Stopped
    <3> QED
      BY <3>2, <3>3
  <2>2. CASE pc \notin {"llm", "subtask", "hook", "prepare"}
    BY <2>2 DEF Interrupted
  <2> QED
    BY <2>1, <2>2
<1> QED
  BY <1>3, <1>4, <1>5, <1>6, <1>7

-----------------------------------------------------------------------------
(* Prompts *)

\* The epoch and the history after a prompt was posted.
LEMMA PostFields ==
  ASSUME IInv, NEW p \in Prompts, Post(p)
  PROVE  /\ epoch' \in Epoch /\ epoch'.last = epoch.last /\ epoch'.before = epoch.before
         /\ epoch'.after = (IF p \in Subtasks THEN Append(epoch.after, p) ELSE epoch.after)
         /\ epoch'.view = epoch.view \cup {p}
         /\ since' \in History /\ since'.turns = since.turns /\ since'.cut = FALSE
         /\ since'.ran = since.ran
<1>1. PICK f \in BOOLEAN :
        epoch' = [Told(epoch) EXCEPT
                   !.view = @ \cup {p}, !.full = @ \/ f,
                   !.after = IF p \in Subtasks THEN Append(@, p) ELSE @]
  BY DEF Post
<1>2. epoch \in Epoch
  BY DEF IInv, EngineTypeOK
<1>3. PICK e \in Epoch : e = Told(epoch)
  BY <1>2, ToldFields
<1>4. /\ e.last = epoch.last /\ e.before = epoch.before /\ e.after = epoch.after
      /\ e.view = epoch.view
  BY <1>2, <1>3, ToldFields
<1> DEFINE v == e.view \cup {p}
           a == IF p \in Subtasks THEN Append(e.after, p) ELSE e.after
<1>5. v \in SUBSET Prompts
  BY EpochFields
<1>6. a \in Seq(Task)
  BY EpochFields DEF Task
<1> HIDE DEF v, a
<1>7. PICK g \in BOOLEAN : g = (e.full \/ f)
  OBVIOUS
<1>8. PICK r : r = [e EXCEPT !.view = v, !.full = g, !.after = a]
  OBVIOUS
<1>9. /\ r \in Epoch /\ r.last = e.last /\ r.before = e.before /\ r.after = a /\ r.view = v
  BY <1>5, <1>6, <1>8 DEF Epoch
<1>10. epoch' = r
  BY <1>1, <1>3, <1>7, <1>8 DEF v, a
<1>11. /\ epoch' \in Epoch /\ epoch'.last = epoch.last /\ epoch'.before = epoch.before
       /\ epoch'.view = epoch.view \cup {p}
  BY <1>4, <1>9, <1>10 DEF v
<1>12. epoch'.after = (IF p \in Subtasks THEN Append(epoch.after, p) ELSE epoch.after)
  BY <1>4, <1>9, <1>10 DEF a
<1>13. since' = Happened
  BY DEF Post
<1> QED
  BY <1>11, <1>12, <1>13, HappenedFields, HistoryType DEF IInv

LEMMA PostQueue ==
  ASSUME IInv, NEW p \in Prompts, Post(p)
  PROVE  Queue'
<1> DEFINE b == epoch.before
           a == epoch.after
<1>1. /\ p \notin posted /\ posted' = posted \cup {p} /\ pc' = pc /\ snap' = snap
      /\ p # "transition"
  BY PromptsAssumption DEF Post
<1>2. a \in Seq(Task) /\ b \in Seq(Task) /\ snap.after \in Seq(Task)
  BY EpochFields DEF IInv, EngineTypeOK
<1>3. /\ epoch'.before = b /\ since'.ran = since.ran /\ epoch'.view = epoch.view \cup {p}
  BY PostFields
<1>4. epoch'.after = a \/ epoch'.after = Append(a, p)
  BY PostFields
<1>5. /\ \A i \in 1 .. Len(b) : b[i] \in Left
      /\ \A i \in 1 .. Len(a) : a[i] \in Left
      /\ \A i \in 1 .. Len(b), j \in 1 .. Len(a) : b[i] # a[j]
      /\ since.ran \subseteq posted /\ epoch.view \subseteq posted /\ snap.view \subseteq posted
      /\ pc = "decide" => /\ snap.before = b /\ Len(snap.after) <= Len(a)
                          /\ \A i \in 1 .. Len(snap.after) : snap.after[i] = a[i]
      /\ pc \in {"subtask", "hook"} => b # <<>> /\ Head(b) \in Subtasks
  BY DEF IInv, Queue
<1> HIDE DEF a, b
<1>6. Left \subseteq Left' /\ p \in Left' /\ p \notin Left
  BY <1>1, <1>3, <1>5 DEF Left
<1>7. CASE epoch'.after = a
  BY <1>1, <1>3, <1>5, <1>6, <1>7 DEF Queue
<1>8. CASE epoch'.after = Append(a, p)
  <2> DEFINE n == epoch'.after
  <2>1. /\ Len(n) = Len(a) + 1 /\ Len(a) \in Nat /\ n[Len(a) + 1] = p
        /\ \A i \in 1 .. Len(a) : n[i] = a[i]
    BY <1>2, <1>8
  <2> HIDE DEF n
  <2>2. \A i \in 1 .. Len(n) : i \in 1 .. Len(a) \/ i = Len(a) + 1
    BY <2>1
  <2>3. \A i \in 1 .. Len(n) : n[i] \in Left'
    BY <1>5, <1>6, <2>1, <2>2
  <2>4. \A i \in 1 .. Len(b), j \in 1 .. Len(n) : b[i] # n[j]
    BY <1>5, <1>6, <2>1, <2>2
  <2>5. Len(snap.after) \in Nat
    BY <1>2
  <2>6. pc = "decide" => /\ Len(snap.after) <= Len(n)
                         /\ \A i \in 1 .. Len(snap.after) : snap.after[i] = n[i]
    <3> SUFFICES ASSUME pc = "decide"
                 PROVE  /\ Len(snap.after) <= Len(n)
                        /\ \A i \in 1 .. Len(snap.after) : snap.after[i] = n[i]
      OBVIOUS
    <3>1. Len(snap.after) <= Len(a)
      BY <1>5
    <3>2. \A i \in 1 .. Len(snap.after) : i \in 1 .. Len(a)
      BY <2>1, <2>5, <3>1
    <3> QED
      BY <1>5, <2>1, <2>5, <3>1, <3>2
  <2> QED
    BY <1>1, <1>3, <1>5, <1>6, <2>3, <2>4, <2>6 DEF Queue, n
<1> QED
  BY <1>4, <1>7, <1>8

LEMMA PostStep == IInv /\ (\E p \in Prompts : Post(p)) => IInv'
<1> SUFFICES ASSUME IInv, NEW p \in Prompts, Post(p) PROVE IInv'
  OBVIOUS
<1>1. /\ posted' = posted \cup {p} /\ calling' = calling \cup {p}
      /\ UNCHANGED <<pc, local, snap, requested, served, due, exit>>
  BY DEF Post
<1>2. EngineTypeOK'
  BY <1>1, PostFields DEF IInv, EngineTypeOK, History
<1>3. Counts'
  BY <1>1, PostFields DEF IInv, Counts, TurnsBounded
<1>4. Cuts'
  BY <1>1, PostFields DEF IInv, Cuts, Yolo
<1>5. Queue'
  BY PostQueue
<1> QED
  BY <1>2, <1>3, <1>4, <1>5 DEF IInv

-----------------------------------------------------------------------------
(* Theorems *)

\* Every step of the loop and of the prompts keeps the invariant.
THEOREM NextInvariant == IInv /\ [EngineNext]_vars => IInv'
<1> SUFFICES ASSUME IInv, [EngineNext]_vars PROVE IInv'
  OBVIOUS
<1>1. CASE UNCHANGED vars
  BY <1>1 DEF vars, IInv, EngineTypeOK, Counts, TurnsBounded, Cuts, Blank, Yolo, Queue, Left
<1>2. CASE \E p \in Prompts : Post(p) \/ JoinLoop(p) \/ StartLoop(p)
  BY <1>2, PostStep, JoinLoopStep, StartLoopStep
<1>3. CASE Pass
  BY <1>3, EndingStep, ReadEpochStep, BeginTransitionStep, CutEpochStep, HandoverStep,
     WarningStep, StartSubtaskStep, StartTurnStep, InterveneStep, CallModelStep DEF Pass
<1>4. CASE EndSubtask \/ StoreSubtask
  BY <1>4, EndSubtaskStep, StoreSubtaskStep
<1>5. CASE \E a \in Turns, o \in {"stopped", "compact", "continue"} : EndTurn(a, o)
  BY <1>5, EndTurnStep
<1>6. CASE Interrupted
  BY <1>6, InterruptedStep
<1> QED
  BY <1>1, <1>2, <1>3, <1>4, <1>5, <1>6 DEF EngineNext

THEOREM Invariance == EngineSpec => []IInv
<1>1. EngineInit => IInv
  BY InitInvariant
<1>2. IInv /\ [EngineNext]_vars => IInv'
  BY NextInvariant
<1> QED
  BY <1>1, <1>2, PTL DEF EngineSpec

\* The loop's variables, the facts of its epoch and what is posted keep their types; in
\* particular the counter of turns stays within MAX_TURNS + 1.
THEOREM EngineTypes == EngineSpec => []EngineTypeOK
<1>1. IInv => EngineTypeOK
  BY DEF IInv
<1> QED
  BY <1>1, Invariance, PTL

\* No run takes more than MAX_TURNS + 1 turns in a row without a tool of the advancing
\* kind, whatever is posted, nudged, interrupted or reset in between (engine.ts 276): one
\* turn more than the document's ceiling.
THEOREM TurnsAreBounded == EngineSpec => []TurnsBounded
<1>1. IInv => TurnsBounded
  BY DEF IInv, Counts
<1> QED
  BY <1>1, Invariance, PTL

\* The Clerk is not asked to close an epoch in which nothing happened: neither a request
\* left over, nor the score, nor the size brings one transition right after another.
THEOREM TransitionsHaveCause == EngineSpec => []NoIdleTransition
<1>1. IInv => NoIdleTransition
  BY DEF IInv, Cuts, NoIdleTransition
<1> QED
  BY <1>1, Invariance, PTL

\* A subtask whose message was finished, by its end or by an interruption of its tool, is
\* never started again.
THEOREM SubtasksRunOnce == EngineSpec => SubtaskRunsOnce
<1>1. IInv /\ [EngineNext]_vars =>
        [pc = "decide" /\ pc' = "subtask" => Head(Tasks) \notin since.ran]_vars
  <2> SUFFICES ASSUME IInv, EngineNext, pc = "decide", pc' = "subtask"
               PROVE  Head(Tasks) \notin since.ran
    OBVIOUS
  <2>1. IsSubtask
    BY DEF EngineNext, Post, JoinLoop, StartLoop, Pass, TooManyTurns, ReadEpoch,
       BeginTransition, CutEpoch, Handover, RequestIntervention, Nudge, NudgeToComplete,
       EndAnswered, StartSubtask, StartTurn, FailTurn, Intervene, CallModel, EndSubtask,
       StoreSubtask, EndTurn, Interrupted, Leave, NextPass
  <2> QED
    BY <2>1, FirstTask
<1> QED
  BY <1>1, Invariance, PTL DEF EngineSpec, SubtaskRunsOnce

=============================================================================
