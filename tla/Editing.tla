------------------------------ MODULE Editing ------------------------------
(***************************************************************************)
(* file/time.ts and the tools that read and change a file: tool/read.ts,   *)
(* tool/write.ts, tool/edit.ts and tool/apply_patch.ts, for one file of    *)
(* one instance.                                                           *)
(*                                                                         *)
(* FileTime keeps for each session the stamp (mtime and size) of the file  *)
(* as it last was for that session, and a lock per file that only the edit *)
(* tool takes.  Sessions run the tool calls of one answer of the model at  *)
(* the same time, see their results together, and meanwhile others save    *)
(* the same file.                                                          *)
(*                                                                         *)
(* A file is what changes it contains.  Every write makes a version with a *)
(* stamp of its own.  A read shows the model only so many lines of a file  *)
(* but stamps all of it; so whoever writes a whole file keeps some of what *)
(* was there when its session last looked, and adds its change.            *)
(***************************************************************************)
EXTENDS Integers, FiniteSets

CONSTANTS Calls,      \* tool calls; a call stands for the change it makes, too
          Sessions,
          SessionOf,  \* the session of a call
          ToolsOf,    \* the tools that a call may be of: not every agent has them all
          Saves,      \* changes that a user makes in an editor
          Nobody

\* edit with an empty oldString and apply_patch's "add" write a whole file, too,
\* as does write; edit and apply_patch's "update" change what they read.
Kinds == {"read", "write", "edit", "create", "update", "add"}
Whole == {"write", "create", "add"}
Locking == {"edit", "create"}
Stamping == {"write", "edit", "create"}

ASSUME CallsAssumption ==
  /\ SessionOf \in [Calls -> Sessions]
  /\ ToolsOf \in [Calls -> SUBSET Kinds]
  /\ Calls \cap Saves = {} /\ Nobody \notin Calls
  /\ IsFiniteSet(Calls) /\ IsFiniteSet(Saves)

VARIABLES
  file,   \* the file
  lock,   \* the call that holds the file's semaphore
  stamp,  \* the version that each session's stamp is of
  call,   \* the tool calls
  offered, \* what was in the file when a call that has answered read it for the model
  quiet   \* history: what in the file was made while a session had no call under way

vars == <<file, lock, stamp, call, offered, quiet>>

Changes == Calls \cup Saves

NoStamp == -1
Versions == Nat

Places == {"idle", "lock", "look", "assert", "compare", "content", "ask", "format", "stamp",
           "set", "done", "over"}

\* knew: what had been offered to the model when it made the call; old: the content that
\* the call read or, once it wrote, its change; base: the version an edit read, or that
\* of a stamp which is to be compared or stored.
Call == [at : Places, kind : Kinds, knew : SUBSET Changes, old : SUBSET Changes, base : Versions]
Unmade == [at |-> "idle", kind |-> "read", knew |-> {}, old |-> {}, base |-> 0]

File == [content : SUBSET Changes, version : Versions, by : Calls \cup Saves \cup {Nobody}]

UnderWay(c) == call[c].at \notin {"idle", "over"}
AtWork(s) == \E c \in Calls : SessionOf[c] = s /\ UnderWay(c)

EditingTypeOK ==
  /\ file \in File
  /\ lock \in Calls \cup {Nobody}
  /\ stamp \in [Sessions -> Versions \cup {NoStamp}]
  /\ call \in [Calls -> Call]
  /\ offered \in [Sessions -> SUBSET Changes]
  /\ quiet \in [Sessions -> SUBSET Changes]
  \* no stamp is of a version that has not been
  /\ \A s \in Sessions : stamp[s] <= file.version
  /\ \A c \in Calls : call[c].base <= file.version
  \* the semaphore is held by a call that is inside withLock, and by nobody else
  /\ \A c \in Calls : lock = c <=> call[c].kind \in Locking
                                     /\ call[c].at \notin {"idle", "lock", "done", "over"}

\* The file may be there already, with what the users wrote before.
Init ==
  /\ \E there \in BOOLEAN :
       file = [content |-> {}, version |-> IF there THEN 1 ELSE 0, by |-> Nobody]
  /\ lock = Nobody
  /\ stamp = [s \in Sessions |-> NoStamp]
  /\ call = [c \in Calls |-> Unmade]
  /\ offered = [s \in Sessions |-> {}]
  /\ quiet = [s \in Sessions |-> {}]

-----------------------------------------------------------------------------
Exists == file.version > 0

Entry(kind) == CASE kind \in Locking -> "lock" [] kind = "add" -> "ask" [] OTHER -> "look"

\* The calls of an answer are made one after the other while it comes in; the next
\* answer comes when the calls of this one are over.
Make(c, kind) ==
  /\ call[c].at = "idle"
  /\ call' = [call EXCEPT ![c] = [Unmade EXCEPT !.at = Entry(kind), !.kind = kind,
                                                !.knew = IF kind \in Whole
                                                         THEN offered[SessionOf[c]] ELSE {}]]
  /\ UNCHANGED <<file, lock, stamp, offered, quiet>>

\* What is left of a call that needs its inputs no more.
Kept(c) == [Unmade EXCEPT !.kind = call[c].kind]

Goes(c, from, to) == call[c].at = from /\ call' = [call EXCEPT ![c].at = to]

\* c is over, with this to show, and lets go of the lock.
Ends(c, from, shows) ==
  /\ call[c].at = from
  /\ call' = [call EXCEPT ![c] = [Kept(c) EXCEPT !.at = "done", !.old = shows]]
  /\ lock' = IF lock = c THEN Nobody ELSE lock

\* The model is shown the results: of a file, as much as the tool shows.
Answer(s) ==
  LET mine == {c \in Calls : SessionOf[c] = s /\ call[c].at = "done"}
  IN  /\ mine # {}
      /\ \A c \in Calls : SessionOf[c] = s => call[c].at \in {"idle", "done", "over"}
      /\ offered' = [offered EXCEPT ![s] = @ \cup UNION {call[c].old : c \in mine}]
      /\ call' = [c \in Calls |-> IF c \in mine THEN [Kept(c) EXCEPT !.at = "over"] ELSE call[c]]
      /\ UNCHANGED <<file, lock, stamp, quiet>>

-----------------------------------------------------------------------------
(* FileTime *)

\* Variant: nobody waits.
TakeLock_Shared(c) ==
  /\ Goes(c, "lock", IF call[c].kind = "edit" THEN "assert" ELSE "ask")
  /\ lock' = c
  /\ UNCHANGED <<file, stamp, offered, quiet>>

\* withLock
TakeLock(c) ==
  /\ lock = Nobody
  /\ Goes(c, "lock", IF call[c].kind = "edit" THEN "assert" ELSE "ask")
  /\ lock' = c
  /\ UNCHANGED <<file, stamp, offered, quiet>>

\* read: the stamp is taken, and stored when the answer is there.
Stat(c) ==
  /\ call[c].at = "stamp"
  /\ call' = [call EXCEPT ![c].at = "set", ![c].base = file.version]
  /\ UNCHANGED <<file, lock, stamp, offered, quiet>>

Stamp(c) ==
  /\ stamp' = [stamp EXCEPT ![SessionOf[c]] = call[c].base]
  /\ Ends(c, "set", call[c].old)
  /\ UNCHANGED <<file, offered, quiet>>

\* assert, up to its question: what the session has of the file.
AssertStamp(c) ==
  /\ call[c].at = "assert" /\ Exists
  /\ stamp[SessionOf[c]] # NoStamp
  /\ call' = [call EXCEPT ![c].at = "compare", ![c].base = stamp[SessionOf[c]]]
  /\ UNCHANGED <<file, lock, stamp, offered, quiet>>

\* Variant: the lock is kept when what it guards throws.
Refused_KeepsLock(c) ==
  /\ call[c].base # file.version
  /\ Goes(c, "compare", "done")
  /\ UNCHANGED <<file, lock, stamp, offered, quiet>>

\* The stamps differ.
Refused(c) ==
  /\ call[c].base # file.version
  /\ Ends(c, "compare", {})
  /\ UNCHANGED <<file, stamp, offered, quiet>>

Accepted(c) ==
  /\ call[c].at = "compare"
  /\ call' = [call EXCEPT ![c].at = IF call[c].kind = "edit" THEN "content" ELSE "ask",
                          ![c].base = 0]
  /\ UNCHANGED <<file, lock, stamp, offered, quiet>>

\* Variant: only that the file was read at all is looked at.
Granted_AnyStamp(c) == Accepted(c)

Granted(c) == call[c].base = file.version /\ Accepted(c)

\* The session never read the file: the error shows its content, up to so many lines,
\* which a write read before the assertion, and the session counts as having read it.
AutoRead(c) ==
  /\ stamp[SessionOf[c]] = NoStamp /\ Exists
  /\ call[c].at = "assert"
  /\ call' = [call EXCEPT ![c].at = "stamp",
                          ![c].old = IF call[c].kind = "write" THEN @ ELSE file.content]
  /\ UNCHANGED <<file, lock, stamp, offered, quiet>>

-----------------------------------------------------------------------------
(* The tools *)

\* The content is read: by the read tool, which shows the lines it was asked for, by
\* write for the diff and the error, by edit and apply_patch to be changed.
Look(c) ==
  /\ call[c].at = "look" \/ call[c].at = "content"
  /\ Exists
  /\ call' = [call EXCEPT ![c].at = CASE call[c].kind = "read" -> "stamp"
                                      [] call[c].kind = "write" -> "assert"
                                      [] OTHER -> "ask",
                          ![c].old = file.content,
                          ![c].base = IF call[c].kind = "edit" THEN file.version ELSE 0]
  /\ UNCHANGED <<file, lock, stamp, offered, quiet>>

\* There is no file: a write makes one, the others fail.
Miss(c) ==
  /\ ~Exists
  /\ IF call[c].kind = "write" THEN Goes(c, "look", "ask") /\ UNCHANGED lock
                               ELSE Ends(c, "look", {}) \/ Ends(c, "assert", {})
  /\ UNCHANGED <<file, stamp, offered, quiet>>

\* The user says no, or what an edit or a patch is to replace is not in the file.
Fail(c) ==
  /\ Ends(c, "ask", {})
  /\ UNCHANGED <<file, stamp, offered, quiet>>

\* What c may leave in the file: of what its session had been offered a model keeps what
\* it was really shown, and wants; an edit keeps the rest of what it read.
Texts(c) == IF call[c].kind \in Whole THEN {{c} \cup kept : kept \in SUBSET call[c].knew}
                                      ELSE {{c} \cup call[c].old}

\* What is new in the file is news to the sessions that have nothing under way.
News(text) ==
  [s \in Sessions |-> {x \in text : IF x \in file.content THEN x \in quiet[s] ELSE ~AtWork(s)}]

\* The user has agreed, and the file is written.
Put(c) ==
  /\ call[c].at = "ask"
  /\ call' = [call EXCEPT ![c] = [Kept(c) EXCEPT !.at = "format", !.old = {c}]]
  /\ \E text \in Texts(c) :
       /\ file' = [content |-> text, version |-> file.version + 1, by |-> c]
       /\ quiet' = News(text)
  /\ UNCHANGED <<lock, stamp, offered>>

\* A formatter may rewrite the file; apply_patch leaves the stamps alone.  When the search
\* for a formatter throws, the tool fails with its file written and not stamped.
Format(c) ==
  /\ \/ call[c].kind \in Stamping /\ Goes(c, "format", "stamp") /\ UNCHANGED lock
     \/ Ends(c, "format", call[c].old)
  /\ \E more \in {0, 1} :
       file' = [file EXCEPT !.version = @ + more, !.by = IF more = 1 THEN c ELSE @]
  /\ UNCHANGED <<stamp, offered, quiet>>

\* Somebody saves the file in an editor.
Save(u) ==
  /\ u \notin file.content
  /\ file' = [content |-> file.content \cup {u}, version |-> file.version + 1, by |-> u]
  /\ quiet' = News(file.content \cup {u})
  /\ UNCHANGED <<lock, stamp, call, offered>>

-----------------------------------------------------------------------------
Step(c) ==
  \/ TakeLock(c) \/ Look(c) \/ Miss(c) \/ AssertStamp(c) \/ Refused(c) \/ Granted(c)
  \/ AutoRead(c) \/ Fail(c) \/ Put(c) \/ Format(c) \/ Stat(c) \/ Stamp(c)

Next ==
  \/ \E c \in Calls : (\E kind \in ToolsOf[c] : Make(c, kind)) \/ Step(c)
  \/ \E s \in Sessions : Answer(s)
  \/ \E u \in Saves : Save(u)

Spec == Init /\ [][Next]_vars

-----------------------------------------------------------------------------
(* Properties *)

\* While the session has no other call under way, a write, an edit or a patch does not
\* overwrite a change that was made while the session was waiting or idle, unless the
\* change was there when an earlier call read the file for the model (time.ts 89-104;
\* edit.test.ts 235 "throws error when file has been modified since read").  What was
\* there but beyond the lines that the call showed may be lost.
Alone(c) == \A d \in Calls \ {c} : SessionOf[d] = SessionOf[c] => ~UnderWay(d)
NoStaleWrite ==
  [][\A c \in Calls :
       /\ Put(c) /\ Alone(c) /\ call[c].kind \in {"write", "edit", "update"}
       => file.content \cap quiet[SessionOf[c]] \subseteq UNION Texts(c)]_vars

\* What an edit replaces in is what it read, unless somebody who takes no lock wrote in
\* between: edits, also failing ones, come one after the other (edit.test.ts 640).
EditsSerialised ==
  [][\A c \in Calls :
       Put(c) /\ call[c].kind = "edit" /\ file.version # call[c].base =>
         file.by \notin {d \in Calls : call[d].kind \in Locking}]_vars
=============================================================================
