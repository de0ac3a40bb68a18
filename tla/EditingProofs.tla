--------------------------- MODULE EditingProofs ---------------------------
(***************************************************************************)
(* Proofs about Editing: for any calls of any sessions and any saves, the  *)
(* types and the lock, that edits come one after the other, and that the   *)
(* tools that are meant to do not overwrite what was made since their      *)
(* session's last look at the file.                                        *)
(***************************************************************************)
EXTENDS Editing, TLAPS

-----------------------------------------------------------------------------
(* What a step does to the calls, spelled out *)

LEMMA CallShape ==
  ASSUME EditingTypeOK, NEW c \in Calls
  PROVE  /\ call[c] \in Call
         /\ call[c].at \in Places /\ call[c].kind \in Kinds /\ call[c].knew \subseteq Changes
         /\ call[c].old \subseteq Changes /\ call[c].base \in Nat
BY DEF EditingTypeOK, Call, Versions

LEMMA FileShape ==
  ASSUME EditingTypeOK
  PROVE  /\ file.content \subseteq Changes /\ file.version \in Nat
         /\ file.by \in Calls \cup Saves \cup {Nobody}
BY DEF EditingTypeOK, File, Versions

\* A call that goes from one place to another keeps everything else.
LEMMA GoesEffect ==
  ASSUME EditingTypeOK, NEW c \in Calls, NEW from, NEW to \in Places, Goes(c, from, to)
  PROVE  /\ call' \in [Calls -> Call]
         /\ call[c].at = from /\ call'[c].at = to
         /\ call'[c].kind = call[c].kind /\ call'[c].knew = call[c].knew
         /\ call'[c].old = call[c].old /\ call'[c].base = call[c].base
         /\ \A d \in Calls \ {c} : call'[d] = call[d]
<1>1. PICK k \in Call : k = call[c]
  BY CallShape
<1>2. [k EXCEPT !.at = to] =
        [at |-> to, kind |-> k.kind, knew |-> k.knew, old |-> k.old, base |-> k.base]
  BY DEF Call
<1>3. [k EXCEPT !.at = to] \in Call
  BY <1>2 DEF Call
<1>4. call' = [call EXCEPT ![c] = [k EXCEPT !.at = to]]
  BY <1>1 DEF Goes
<1>5. call'[c] =
        [at |-> to, kind |-> k.kind, knew |-> k.knew, old |-> k.old, base |-> k.base]
  BY <1>2, <1>4 DEF EditingTypeOK
<1> QED
  BY <1>1, <1>3, <1>4, <1>5 DEF Goes, EditingTypeOK

LEMMA UnmadeIsCall == Unmade \in Call
BY DEF Call, Places, Kinds, Versions, Unmade

LEMMA KeptIs ==
  ASSUME EditingTypeOK, NEW c \in Calls
  PROVE  Kept(c) \in Call /\ Kept(c).kind = call[c].kind /\ Kept(c).base = 0
<1>1. PICK k \in Call : k = Unmade
  BY UnmadeIsCall
<1>2. PICK y \in Kinds : y = call[c].kind
  BY CallShape
<1>3. k.base = 0
  BY <1>1 DEF Unmade
<1>4. PICK r : r = [k EXCEPT !.kind = y]
  OBVIOUS
<1>5. r \in Call /\ r.kind = y /\ r.base = 0
  BY <1>3, <1>4 DEF Call
<1> QED
  BY <1>1, <1>2, <1>4, <1>5 DEF Kept

LEMMA EndsEffect ==
  ASSUME EditingTypeOK, NEW c \in Calls, NEW from, NEW shows \in SUBSET Changes,
         Ends(c, from, shows)
  PROVE  /\ call' \in [Calls -> Call]
         /\ call[c].at = from /\ call'[c].at = "done" /\ call'[c].base = 0
         /\ call'[c].kind = call[c].kind /\ call'[c].old = shows
         /\ \A d \in Calls \ {c} : call'[d] = call[d]
<1>1. PICK k \in Call : k = Kept(c)
  BY KeptIs
<1>2. PICK r : r = [k EXCEPT !.at = "done", !.old = shows]
  OBVIOUS
<1>3. r \in Call /\ r.at = "done" /\ r.kind = call[c].kind /\ r.old = shows /\ r.base = 0
  <2>1. k.kind = call[c].kind /\ k.base = 0 /\ "done" \in Places
    BY <1>1, KeptIs DEF Places
  <2>2. r \in Call /\ r.at = "done" /\ r.kind = k.kind /\ r.old = shows /\ r.base = k.base
    BY <1>2, <2>1 DEF Call
  <2> QED
    BY <2>1, <2>2
<1>4. call[c].at = from /\ call' = [call EXCEPT ![c] = [Kept(c) EXCEPT !.at = "done", !.old = shows]]
  BY DEF Ends
<1>5. call' = [call EXCEPT ![c] = r]
  BY <1>1, <1>2, <1>4
<1> QED
  BY <1>3, <1>4, <1>5 DEF EditingTypeOK

LEMMA MakeEffect ==
  ASSUME EditingTypeOK, NEW c \in Calls, NEW kind \in Kinds, Make(c, kind)
  PROVE  /\ call' \in [Calls -> Call]
         /\ call[c].at = "idle"
         /\ call'[c].at = Entry(kind) /\ call'[c].kind = kind /\ call'[c].base = 0
         /\ kind \in Whole => call'[c].knew = offered[SessionOf[c]]
         /\ \A d \in Calls \ {c} : call'[d] = call[d]
<1>1. PICK k \in Call : k = Unmade
  BY UnmadeIsCall
<1>2. PICK knew : knew = IF kind \in Whole THEN offered[SessionOf[c]] ELSE {}
  OBVIOUS
<1>3. PICK r : r = [k EXCEPT !.at = Entry(kind), !.kind = kind, !.knew = knew]
  OBVIOUS
<1>4. knew \subseteq Changes
  BY <1>2, CallsAssumption DEF EditingTypeOK
<1>5. Entry(kind) \in Places
  BY DEF Entry, Places
<1>6. r \in Call /\ r.at = Entry(kind) /\ r.kind = kind /\ r.knew = knew /\ r.base = 0
  <2>1. k.base = 0
    BY <1>1 DEF Unmade
  <2>2. r \in Call /\ r.at = Entry(kind) /\ r.kind = kind /\ r.knew = knew /\ r.base = k.base
    BY <1>3, <1>4, <1>5 DEF Call
  <2> QED
    BY <2>1, <2>2
<1>7. /\ call[c].at = "idle"
      /\ call' = [call EXCEPT ![c] = [Unmade EXCEPT !.at = Entry(kind), !.kind = kind,
                                                    !.knew = IF kind \in Whole
                                                             THEN offered[SessionOf[c]] ELSE {}]]
  BY DEF Make
<1>8. call' = [call EXCEPT ![c] = r]
  BY <1>1, <1>2, <1>3, <1>7
<1> QED
  BY <1>2, <1>6, <1>7, <1>8 DEF EditingTypeOK

LEMMA AnswerEffect ==
  ASSUME EditingTypeOK, NEW s \in Sessions, Answer(s)
  PROVE  /\ call' \in [Calls -> Call]
         /\ \A c \in Calls :
              IF SessionOf[c] = s /\ call[c].at = "done"
              THEN call'[c].at = "over" /\ call'[c].kind = call[c].kind /\ call'[c].base = 0
              ELSE call'[c] = call[c]
<1>1. ASSUME NEW c \in Calls, SessionOf[c] = s, call[c].at = "done"
      PROVE  /\ call'[c] \in Call /\ call'[c].at = "over" /\ call'[c].kind = call[c].kind
             /\ call'[c].base = 0
  <2>1. PICK k \in Call : k = Kept(c)
    BY KeptIs
  <2>2. k.kind = call[c].kind /\ k.base = 0
    BY <2>1, KeptIs
  <2>3. call'[c] = [k EXCEPT !.at = "over"]
    BY <1>1, <2>1 DEF Answer
  <2> QED
    BY <2>2, <2>3 DEF Call, Places
<1>2. ASSUME NEW c \in Calls, ~(SessionOf[c] = s /\ call[c].at = "done")
      PROVE  call'[c] = call[c]
  BY <1>2 DEF Answer
<1>3. \A c \in Calls : call'[c] \in Call
  BY <1>1, <1>2, CallShape
<1>4. call' \in [Calls -> Call]
  BY <1>3 DEF Answer
<1> QED
  BY <1>1, <1>2, <1>4

LEMMA LookEffect ==
  ASSUME EditingTypeOK, NEW c \in Calls, Look(c)
  PROVE  /\ call' \in [Calls -> Call]
         /\ call[c].at \in {"look", "content"}
         /\ call'[c].at = CASE call[c].kind = "read" -> "stamp"
                            [] call[c].kind = "write" -> "assert"
                            [] OTHER -> "ask"
         /\ call'[c].kind = call[c].kind /\ call'[c].knew = call[c].knew
         /\ call'[c].old = file.content
         /\ call'[c].base = IF call[c].kind = "edit" THEN file.version ELSE 0
         /\ \A d \in Calls \ {c} : call'[d] = call[d]
<1>1. PICK k \in Call : k = call[c]
  BY CallShape
<1>2. PICK to : to = CASE call[c].kind = "read" -> "stamp"
                       [] call[c].kind = "write" -> "assert"
                       [] OTHER -> "ask"
  OBVIOUS
<1>3. PICK base : base = IF call[c].kind = "edit" THEN file.version ELSE 0
  OBVIOUS
<1>4. PICK r : r = [k EXCEPT !.at = to, !.old = file.content, !.base = base]
  OBVIOUS
<1>5. to \in Places /\ base \in Nat /\ file.content \subseteq Changes
  BY <1>2, <1>3, FileShape DEF Places
<1>6. /\ r \in Call /\ r.at = to /\ r.old = file.content /\ r.base = base
      /\ r.kind = call[c].kind /\ r.knew = call[c].knew
  <2>1. /\ r \in Call /\ r.at = to /\ r.old = file.content /\ r.base = base
        /\ r.kind = k.kind /\ r.knew = k.knew
    BY <1>4, <1>5 DEF Call, Versions
  <2> QED
    BY <1>1, <2>1
<1>7. /\ call[c].at \in {"look", "content"}
      /\ call' = [call EXCEPT ![c] = [k EXCEPT !.at = to, !.old = file.content, !.base = base]]
  BY <1>1, <1>2, <1>3 DEF Look
<1>8. /\ call' \in [Calls -> Call] /\ call'[c] = r
      /\ \A d \in Calls \ {c} : call'[d] = call[d]
  BY <1>4, <1>6, <1>7 DEF EditingTypeOK
<1> QED
  BY <1>2, <1>3, <1>6, <1>7, <1>8

LEMMA AutoReadEffect ==
  ASSUME EditingTypeOK, NEW c \in Calls, AutoRead(c)
  PROVE  /\ call' \in [Calls -> Call]
         /\ call[c].at = "assert" /\ call'[c].at = "stamp"
         /\ call'[c].kind = call[c].kind /\ call'[c].knew = call[c].knew
         /\ call'[c].old = (IF call[c].kind = "write" THEN call[c].old ELSE file.content)
         /\ call'[c].base = call[c].base
         /\ \A d \in Calls \ {c} : call'[d] = call[d]
<1>1. PICK k \in Call : k = call[c]
  BY CallShape
<1>2. PICK old : old = IF call[c].kind = "write" THEN call[c].old ELSE file.content
  OBVIOUS
<1>3. PICK r : r = [k EXCEPT !.at = "stamp", !.old = old]
  OBVIOUS
<1>4. old \subseteq Changes
  BY <1>2, CallShape, FileShape
<1>5. /\ r \in Call /\ r.at = "stamp" /\ r.old = old
      /\ r.kind = call[c].kind /\ r.knew = call[c].knew /\ r.base = call[c].base
  <2>1. "stamp" \in Places
    BY DEF Places
  <2>2. /\ r \in Call /\ r.at = "stamp" /\ r.old = old /\ r.kind = k.kind /\ r.knew = k.knew
        /\ r.base = k.base
    BY <1>3, <1>4, <2>1 DEF Call
  <2> QED
    BY <1>1, <2>2
<1>6. /\ call[c].at = "assert"
      /\ call' = [call EXCEPT ![c] = [k EXCEPT !.at = "stamp", !.old = old]]
  BY <1>1, <1>2 DEF AutoRead
<1>7. /\ call' \in [Calls -> Call] /\ call'[c] = r
      /\ \A d \in Calls \ {c} : call'[d] = call[d]
  BY <1>3, <1>5, <1>6 DEF EditingTypeOK
<1> QED
  BY <1>2, <1>5, <1>6, <1>7

LEMMA PutEffect ==
  ASSUME EditingTypeOK, NEW c \in Calls, Put(c)
  PROVE  /\ call' \in [Calls -> Call]
         /\ call[c].at = "ask" /\ call'[c].at = "format" /\ call'[c].base = 0
         /\ call'[c].kind = call[c].kind /\ call'[c].old = {c}
         /\ \A d \in Calls \ {c} : call'[d] = call[d]
<1>1. PICK k \in Call : k = Kept(c)
  BY KeptIs
<1>2. PICK r : r = [k EXCEPT !.at = "format", !.old = {c}]
  OBVIOUS
<1>3. r \in Call /\ r.at = "format" /\ r.kind = call[c].kind /\ r.old = {c} /\ r.base = 0
  <2>1. k.kind = call[c].kind /\ k.base = 0 /\ "format" \in Places /\ {c} \subseteq Changes
    BY <1>1, KeptIs DEF Places, Changes
  <2>2. r \in Call /\ r.at = "format" /\ r.kind = k.kind /\ r.old = {c} /\ r.base = k.base
    BY <1>2, <2>1 DEF Call
  <2> QED
    BY <2>1, <2>2
<1>4. /\ call[c].at = "ask"
      /\ call' = [call EXCEPT ![c] = [Kept(c) EXCEPT !.at = "format", !.old = {c}]]
  BY DEF Put
<1>5. call' = [call EXCEPT ![c] = r]
  BY <1>1, <1>2, <1>4
<1> QED
  BY <1>3, <1>4, <1>5 DEF EditingTypeOK

\* A call goes on with this version in hand.
LEMMA WithBase ==
  ASSUME EditingTypeOK, NEW c \in Calls, NEW to \in Places, NEW base \in Nat,
         call' = [call EXCEPT ![c].at = to, ![c].base = base]
  PROVE  /\ call' \in [Calls -> Call]
         /\ call'[c].at = to /\ call'[c].base = base
         /\ call'[c].kind = call[c].kind /\ call'[c].knew = call[c].knew
         /\ call'[c].old = call[c].old
         /\ \A d \in Calls \ {c} : call'[d] = call[d]
<1>1. PICK k \in Call : k = call[c]
  BY CallShape
<1>2. PICK r : r = [k EXCEPT !.at = to, !.base = base]
  OBVIOUS
<1>3. /\ r \in Call /\ r.at = to /\ r.base = base
      /\ r.kind = k.kind /\ r.knew = k.knew /\ r.old = k.old
  BY <1>2 DEF Call, Versions
<1>4. call' = [call EXCEPT ![c] = [k EXCEPT !.at = to, !.base = base]]
  BY <1>1
<1>5. call' \in [Calls -> Call] /\ call'[c] = r /\ \A d \in Calls \ {c} : call'[d] = call[d]
  BY <1>2, <1>3, <1>4 DEF EditingTypeOK
<1> QED
  BY <1>1, <1>3, <1>5

LEMMA StatEffect ==
  ASSUME EditingTypeOK, NEW c \in Calls, Stat(c)
  PROVE  /\ call' \in [Calls -> Call]
         /\ call[c].at = "stamp" /\ call'[c].at = "set" /\ call'[c].base = file.version
         /\ call'[c].kind = call[c].kind /\ call'[c].knew = call[c].knew
         /\ call'[c].old = call[c].old
         /\ \A d \in Calls \ {c} : call'[d] = call[d]
<1>1. file.version \in Nat /\ "set" \in Places
  BY FileShape DEF Places
<1>2. /\ call[c].at = "stamp"
      /\ call' = [call EXCEPT ![c].at = "set", ![c].base = file.version]
  BY DEF Stat
<1> QED
  BY <1>1, <1>2, WithBase

LEMMA AssertEffect ==
  ASSUME EditingTypeOK, NEW c \in Calls, AssertStamp(c)
  PROVE  /\ call' \in [Calls -> Call]
         /\ call[c].at = "assert" /\ call'[c].at = "compare"
         /\ call'[c].base = stamp[SessionOf[c]] /\ call'[c].base <= file.version
         /\ call'[c].kind = call[c].kind /\ call'[c].knew = call[c].knew
         /\ call'[c].old = call[c].old
         /\ \A d \in Calls \ {c} : call'[d] = call[d]
<1>1. PICK s \in Sessions : s = SessionOf[c]
  BY CallsAssumption
<1>2. PICK base \in Nat : base = stamp[s] /\ base <= file.version /\ "compare" \in Places
  BY <1>1 DEF AssertStamp, EditingTypeOK, Versions, Places
<1>3. /\ call[c].at = "assert"
      /\ call' = [call EXCEPT ![c].at = "compare", ![c].base = base]
  BY <1>1, <1>2 DEF AssertStamp
<1>4. /\ call' \in [Calls -> Call]
      /\ call'[c].at = "compare" /\ call'[c].base = base
      /\ call'[c].kind = call[c].kind /\ call'[c].knew = call[c].knew
      /\ call'[c].old = call[c].old
      /\ \A d \in Calls \ {c} : call'[d] = call[d]
  BY <1>2, <1>3, WithBase
<1> QED
  BY <1>1, <1>2, <1>3, <1>4

LEMMA GrantedEffect ==
  ASSUME EditingTypeOK, NEW c \in Calls, Granted(c)
  PROVE  /\ call' \in [Calls -> Call]
         /\ call[c].at = "compare" /\ call[c].base = file.version /\ call'[c].base = 0
         /\ call'[c].at = IF call[c].kind = "edit" THEN "content" ELSE "ask"
         /\ call'[c].kind = call[c].kind /\ call'[c].knew = call[c].knew
         /\ call'[c].old = call[c].old
         /\ \A d \in Calls \ {c} : call'[d] = call[d]
<1>1. PICK to \in Places : to = IF call[c].kind = "edit" THEN "content" ELSE "ask"
  BY DEF Places
<1>2. PICK base \in Nat : base = 0
  OBVIOUS
<1>3. /\ call[c].at = "compare" /\ call[c].base = file.version
      /\ call' = [call EXCEPT ![c].at = to, ![c].base = base]
  BY <1>1, <1>2 DEF Granted, Accepted
<1>4. /\ call' \in [Calls -> Call]
      /\ call'[c].at = to /\ call'[c].base = base
      /\ call'[c].kind = call[c].kind /\ call'[c].knew = call[c].knew
      /\ call'[c].old = call[c].old
      /\ \A d \in Calls \ {c} : call'[d] = call[d]
  BY <1>3, WithBase
<1>5. call'[c].at = (IF call[c].kind = "edit" THEN "content" ELSE "ask") /\ call'[c].base = 0
  BY <1>1, <1>2, <1>4
<1> QED
  BY <1>3, <1>4, <1>5

\* The steps, with the tools taken together.
LEMMA NextCases ==
  ASSUME [Next]_vars
  PROVE  \/ \E c \in Calls : Step(c) \/ \E kind \in Kinds : Make(c, kind)
         \/ \E s \in Sessions : Answer(s)
         \/ \E u \in Saves : Save(u)
         \/ UNCHANGED vars
<1>1. \A c \in Calls : \A kind \in ToolsOf[c] : kind \in Kinds
  BY CallsAssumption
<1> QED
  BY <1>1 DEF Next

\* Only an answer offers something, and only Stamp sets a stamp.
LEMMA WhoSets ==
  ASSUME [Next]_vars
  PROVE  /\ (\A s \in Sessions : ~Answer(s)) => offered' = offered
         /\ (\A c \in Calls : ~Stamp(c)) => stamp' = stamp
BY DEF Next, Step, Make, TakeLock, Look, Miss, AssertStamp, Refused, Granted, Accepted,
       AutoRead, Fail, Put, Format, Stat, Stamp, Answer, Save, vars

-----------------------------------------------------------------------------
(* Types and the lock *)

\* Where a call is says what it may be.
PlacedAt(c) ==
  /\ call[c].at = "lock" => call[c].kind \in Locking
  /\ call[c].at = "look" => call[c].kind \in {"read", "write", "update"}
  /\ call[c].at \in {"assert", "compare"} => call[c].kind \in {"write", "edit"}
  /\ call[c].at = "content" => call[c].kind = "edit"
  /\ call[c].at \in {"ask", "format"} => call[c].kind # "read"
  /\ call[c].at \in {"stamp", "set"} => call[c].kind \in Stamping \cup {"read"}
Placed == \A c \in Calls : PlacedAt(c)

\* The call is inside withLock.
Inside(c) == call[c].kind \in Locking /\ call[c].at \notin {"idle", "lock", "done", "over"}

LEMMA SameCall ==
  ASSUME NEW c \in Calls, call'[c] = call[c]
  PROVE  /\ PlacedAt(c) => PlacedAt(c)'
         /\ Inside(c)' <=> Inside(c)
BY DEF PlacedAt, Inside

LEMMA LockIs ==
  ASSUME EditingTypeOK, NEW c \in Calls
  PROVE  lock = c <=> Inside(c)
BY DEF EditingTypeOK, Inside

\* What a call's own step does to its place and to the lock.
LEMMA OwnStep ==
  ASSUME EditingTypeOK, Placed, NEW c \in Calls,
         Step(c) \/ \E kind \in Kinds : Make(c, kind)
  PROVE  /\ call' \in [Calls -> Call]
         /\ \A d \in Calls \ {c} : call'[d] = call[d]
         /\ PlacedAt(c)' /\ call'[c].base <= file.version
         /\ \/ lock' = lock /\ (Inside(c)' <=> Inside(c))
            \/ lock = Nobody /\ lock' = c /\ Inside(c)'
            \/ lock' = (IF lock = c THEN Nobody ELSE lock) /\ ~Inside(c)'
<1> DEFINE Goal == /\ call' \in [Calls -> Call]
                   /\ \A d \in Calls \ {c} : call'[d] = call[d]
                   /\ PlacedAt(c)' /\ call'[c].base <= file.version
                   /\ \/ lock' = lock /\ (Inside(c)' <=> Inside(c))
                      \/ lock = Nobody /\ lock' = c /\ Inside(c)'
                      \/ lock' = (IF lock = c THEN Nobody ELSE lock) /\ ~Inside(c)'
<1>0. PlacedAt(c) /\ 0 <= file.version /\ file.version <= file.version /\ call[c].base <= file.version
  BY FileShape DEF Placed, EditingTypeOK
<1>1. ASSUME NEW kind \in Kinds, Make(c, kind)
      PROVE  Goal
  <2>1. /\ call' \in [Calls -> Call] /\ call'[c].base = 0
        /\ call[c].at = "idle" /\ call'[c].at = Entry(kind) /\ call'[c].kind = kind
        /\ \A d \in Calls \ {c} : call'[d] = call[d]
    BY <1>1, MakeEffect
  <2>2. /\ kind \in Locking => Entry(kind) = "lock"
        /\ kind = "add" => Entry(kind) = "ask"
        /\ kind \in {"read", "write", "update"} => Entry(kind) = "look"
        /\ kind \in Locking \/ kind = "add" \/ kind \in {"read", "write", "update"}
    BY DEF Entry, Kinds, Locking
  <2>3. PlacedAt(c)'
    BY <2>1, <2>2 DEF PlacedAt
  <2>4. lock' = lock /\ ~Inside(c) /\ ~Inside(c)'
    BY <1>1, <2>1, <2>2 DEF Make, Inside, Locking
  <2>5. call'[c].base <= file.version
    BY <1>0, <2>1
  <2>6. lock' = lock /\ (Inside(c)' <=> Inside(c))
    BY <2>4
  <2>7. call' \in [Calls -> Call] /\ \A d \in Calls \ {c} : call'[d] = call[d]
    BY <2>1
  <2> QED
    BY <2>3, <2>5, <2>6, <2>7
<1>2. ASSUME NEW shows \in SUBSET Changes, NEW from, Ends(c, from, shows)
      PROVE  Goal
  <2>1. /\ call' \in [Calls -> Call]
        /\ call'[c].at = "done" /\ call'[c].base = 0
        /\ \A d \in Calls \ {c} : call'[d] = call[d]
    BY <1>2, EndsEffect
  <2>2. PlacedAt(c)' /\ ~Inside(c)'
    BY <2>1 DEF PlacedAt, Inside
  <2> QED
    BY <1>0, <1>2, <2>1, <2>2 DEF Ends
<1>3. ASSUME NEW from, NEW to \in Places, Goes(c, from, to)
      PROVE  /\ call' \in [Calls -> Call]
             /\ \A d \in Calls \ {c} : call'[d] = call[d]
             /\ call[c].at = from /\ call'[c].at = to /\ call'[c].kind = call[c].kind
             /\ call'[c].base <= file.version
  BY <1>0, <1>3, GoesEffect
<1>4. CASE TakeLock(c)
  <2>1. call[c].at = "lock" /\ call[c].kind \in Locking
    BY <1>0, <1>4 DEF TakeLock, Goes, PlacedAt
  <2>2. PICK to \in {"assert", "ask"} :
          /\ to = IF call[c].kind = "edit" THEN "assert" ELSE "ask"
          /\ Goes(c, "lock", to)
    BY <1>4 DEF TakeLock
  <2>3. /\ call' \in [Calls -> Call]
        /\ \A d \in Calls \ {c} : call'[d] = call[d]
        /\ call'[c].at = to /\ call'[c].kind = call[c].kind
        /\ call'[c].base <= file.version
    BY <1>3, <2>2 DEF Places
  <2>4. PlacedAt(c)' /\ Inside(c)'
    BY <2>1, <2>2, <2>3 DEF PlacedAt, Inside, Locking
  <2> QED
    BY <1>4, <2>3, <2>4 DEF TakeLock
<1>5. CASE Look(c)
  <2>1. /\ call' \in [Calls -> Call]
        /\ call[c].at \in {"look", "content"}
        /\ call'[c].at = CASE call[c].kind = "read" -> "stamp"
                           [] call[c].kind = "write" -> "assert"
                           [] OTHER -> "ask"
        /\ call'[c].kind = call[c].kind /\ call'[c].base \in {0, file.version}
        /\ \A d \in Calls \ {c} : call'[d] = call[d]
    BY <1>5, LookEffect
  <2>2. /\ call'[c].at \in {"stamp", "assert", "ask"}
        /\ call'[c].at = "stamp" <=> call[c].kind = "read"
        /\ call'[c].at = "assert" <=> call[c].kind = "write"
    BY <2>1
  <2>3. PlacedAt(c)' /\ (Inside(c)' <=> Inside(c))
    BY <1>0, <2>1, <2>2 DEF PlacedAt, Inside
  <2> QED
    BY <1>0, <1>5, <2>1, <2>3 DEF Look
<1>6. CASE Miss(c)
  <2>1. CASE call[c].kind = "write" /\ Goes(c, "look", "ask") /\ lock' = lock
    <3>1. /\ call' \in [Calls -> Call]
          /\ \A d \in Calls \ {c} : call'[d] = call[d]
          /\ call'[c].at = "ask" /\ call'[c].kind = "write"
          /\ call'[c].base <= file.version
      BY <1>3, <2>1 DEF Places
    <3>2. PlacedAt(c)' /\ ~Inside(c)' /\ ~Inside(c)
      BY <2>1, <3>1 DEF PlacedAt, Inside, Locking
    <3> QED
      BY <2>1, <3>1, <3>2
  <2>2. CASE Ends(c, "look", {}) \/ Ends(c, "assert", {})
    BY <1>2, <2>2
  <2> QED
    BY <1>6, <2>1, <2>2 DEF Miss
<1>7. CASE Refused(c) \/ Fail(c)
  BY <1>2, <1>7 DEF Refused, Fail
<1>8. CASE Granted(c)
  <2>1. /\ call' \in [Calls -> Call]
        /\ call[c].at = "compare" /\ call'[c].base = 0 /\ call'[c].kind = call[c].kind
        /\ call'[c].at = IF call[c].kind = "edit" THEN "content" ELSE "ask"
        /\ \A d \in Calls \ {c} : call'[d] = call[d]
    BY <1>8, GrantedEffect
  <2>2. PlacedAt(c)' /\ (Inside(c)' <=> Inside(c))
    BY <1>0, <2>1 DEF PlacedAt, Inside, Locking
  <2> QED
    BY <1>0, <1>8, <2>1, <2>2 DEF Granted, Accepted
<1>13. CASE Stat(c)
  <2>1. /\ call' \in [Calls -> Call] /\ call'[c].base = file.version
        /\ call[c].at = "stamp" /\ call'[c].at = "set" /\ call'[c].kind = call[c].kind
        /\ \A d \in Calls \ {c} : call'[d] = call[d]
    BY <1>13, StatEffect
  <2>2. PlacedAt(c)' /\ (Inside(c)' <=> Inside(c))
    BY <1>0, <2>1 DEF PlacedAt, Inside
  <2> QED
    BY <1>0, <1>13, <2>1, <2>2 DEF Stat
<1>14. CASE AssertStamp(c)
  <2>1. /\ call' \in [Calls -> Call] /\ call'[c].base <= file.version
        /\ call[c].at = "assert" /\ call'[c].at = "compare" /\ call'[c].kind = call[c].kind
        /\ \A d \in Calls \ {c} : call'[d] = call[d]
    BY <1>14, AssertEffect
  <2>2. PlacedAt(c)' /\ (Inside(c)' <=> Inside(c))
    BY <1>0, <2>1 DEF PlacedAt, Inside
  <2> QED
    BY <1>14, <2>1, <2>2 DEF AssertStamp
<1>9. CASE AutoRead(c)
  <2>1. /\ call' \in [Calls -> Call]
        /\ call[c].at = "assert" /\ call'[c].at = "stamp" /\ call'[c].kind = call[c].kind
        /\ call'[c].base = call[c].base
        /\ \A d \in Calls \ {c} : call'[d] = call[d]
    BY <1>9, AutoReadEffect
  <2>2. PlacedAt(c)' /\ (Inside(c)' <=> Inside(c))
    BY <1>0, <2>1 DEF PlacedAt, Inside, Stamping
  <2> QED
    BY <1>0, <1>9, <2>1, <2>2 DEF AutoRead
<1>10. CASE Put(c)
  <2>1. /\ call' \in [Calls -> Call]
        /\ call[c].at = "ask" /\ call'[c].at = "format" /\ call'[c].kind = call[c].kind
        /\ call'[c].base = 0
        /\ \A d \in Calls \ {c} : call'[d] = call[d]
    BY <1>10, PutEffect
  <2>2. PlacedAt(c)' /\ (Inside(c)' <=> Inside(c))
    BY <1>0, <2>1 DEF PlacedAt, Inside
  <2> QED
    BY <1>0, <1>10, <2>1, <2>2 DEF Put
<1>11. CASE Format(c)
  <2>1. CASE call[c].kind \in Stamping /\ Goes(c, "format", "stamp") /\ lock' = lock
    <3>1. /\ call' \in [Calls -> Call]
          /\ \A d \in Calls \ {c} : call'[d] = call[d]
          /\ call[c].at = "format" /\ call'[c].at = "stamp" /\ call'[c].kind = call[c].kind
          /\ call'[c].base <= file.version
      BY <1>3, <2>1 DEF Places
    <3>2. PlacedAt(c)' /\ (Inside(c)' <=> Inside(c))
      BY <2>1, <3>1 DEF PlacedAt, Inside
    <3> QED
      BY <2>1, <3>1, <3>2
  <2>2. CASE Ends(c, "format", call[c].old)
    BY <1>2, <2>2, CallShape
  <2> QED
    BY <1>11, <2>1, <2>2 DEF Format
<1>12. CASE Stamp(c)
  BY <1>2, <1>12, CallShape DEF Stamp
<1> QED
  BY <1>1, <1>4, <1>5, <1>6, <1>7, <1>8, <1>9, <1>10, <1>11, <1>12, <1>13, <1>14 DEF Step

LEMMA TextShape ==
  ASSUME EditingTypeOK, NEW c \in Calls, NEW text \in Texts(c)
  PROVE  /\ text \subseteq Changes
         /\ call[c].kind \in Whole => text \subseteq {c} \cup call[c].knew
         /\ call[c].kind \notin Whole => text = {c} \cup call[c].old
<1>1. CASE call[c].kind \in Whole
  <2>1. PICK kept \in SUBSET call[c].knew : text = {c} \cup kept
    BY <1>1 DEF Texts
  <2> QED
    BY <1>1, <2>1, CallShape DEF Changes
<1>2. CASE call[c].kind \notin Whole
  BY <1>2, CallShape DEF Texts, Changes
<1> QED
  BY <1>1, <1>2

LEMMA NewsShape ==
  ASSUME NEW text \in SUBSET Changes
  PROVE  /\ News(text) \in [Sessions -> SUBSET Changes]
         /\ \A s \in Sessions : News(text)[s] \subseteq text
         /\ \A s \in Sessions : AtWork(s) => News(text)[s] \subseteq quiet[s]
BY DEF News

\* The file is written, with this content.
Written(text, x) ==
  /\ file' \in File
  /\ file'.content = text /\ file'.version = file.version + 1 /\ file'.by = x

\* What a step does to the file and to what is quiet.
LEMMA FileStep ==
  ASSUME EditingTypeOK, [Next]_vars
  PROVE  \/ file' = file /\ quiet' = quiet
         \/ \E c \in Calls : \E text \in Texts(c) :
              Put(c) /\ quiet' = News(text) /\ Written(text, c)
         \/ \E c \in Calls : /\ Format(c) /\ quiet' = quiet
                             /\ file'.content = file.content /\ file' \in File
                             /\ \/ file'.version = file.version /\ file'.by = file.by
                                \/ file'.version = file.version + 1 /\ file'.by = c
         \/ \E u \in Saves : /\ Save(u) /\ quiet' = News(file.content \cup {u})
                             /\ Written(file.content \cup {u}, u)
<1>1. ASSUME NEW c \in Calls, Format(c)
      PROVE  /\ file'.content = file.content /\ file' \in File
             /\ \/ file'.version = file.version /\ file'.by = file.by
                \/ file'.version = file.version + 1 /\ file'.by = c
  <2>0. PICK k \in File : k = file
    BY DEF EditingTypeOK
  <2>1. PICK more \in {0, 1} :
          file' = [file EXCEPT !.version = @ + more, !.by = IF more = 1 THEN c ELSE @]
    BY <1>1 DEF Format
  <2>2. CASE more = 0
    <3>0. PICK v : v = k.version + more
      OBVIOUS
    <3>1. file' = [k EXCEPT !.version = v, !.by = k.by]
      BY <2>0, <2>1, <2>2, <3>0
    <3>2. v = k.version /\ v \in Nat /\ k.by \in Calls \cup Saves \cup {Nobody}
      BY <2>2, <3>0 DEF File, Versions
    <3>3. /\ file' \in File /\ file'.content = k.content
          /\ file'.version = k.version /\ file'.by = k.by
      BY <3>1, <3>2 DEF File, Versions
    <3> QED
      BY <2>0, <3>3
  <2>3. CASE more = 1
    <3>1. file' = [k EXCEPT !.version = k.version + 1, !.by = c]
      BY <2>0, <2>1, <2>3
    <3>2. k.version + 1 \in Nat
      BY DEF File, Versions
    <3>3. /\ file' \in File /\ file'.content = k.content
          /\ file'.version = k.version + 1 /\ file'.by = c
      BY <3>1, <3>2 DEF File, Versions
    <3> QED
      BY <2>0, <3>3
  <2> QED
    BY <2>2, <2>3
<1>2. ASSUME NEW c \in Calls, Step(c)
      PROVE  \/ file' = file /\ quiet' = quiet
             \/ Put(c) \/ Format(c)
  BY <1>2 DEF Step, TakeLock, Look, Miss, AssertStamp, Refused, Granted, Accepted, AutoRead,
          Fail, Stat, Stamp
<1>3. ASSUME NEW c \in Calls, Put(c)
      PROVE  \E text \in Texts(c) : quiet' = News(text) /\ Written(text, c)
  <2>1. PICK text \in Texts(c) :
          /\ file' = [content |-> text, version |-> file.version + 1, by |-> c]
          /\ quiet' = News(text)
    BY <1>3 DEF Put
  <2> QED
    BY <2>1, FileShape, TextShape DEF Written, File, Versions
<1>4. ASSUME NEW u \in Saves, Save(u)
      PROVE  quiet' = News(file.content \cup {u}) /\ Written(file.content \cup {u}, u)
  <2>1. file' = [content |-> file.content \cup {u}, version |-> file.version + 1, by |-> u]
    BY <1>4 DEF Save
  <2> QED
    BY <1>4, <2>1, FileShape DEF Save, Written, File, Versions, Changes
<1>5. ASSUME NEW c \in Calls, Format(c)
      PROVE  quiet' = quiet
  BY <1>5 DEF Format
<1>6. CASE (\E s \in Sessions : Answer(s)) \/ UNCHANGED vars
             \/ \E c \in Calls, kind \in Kinds : Make(c, kind)
  BY <1>6 DEF Answer, Make, vars
<1> QED
  BY <1>1, <1>2, <1>3, <1>4, <1>5, <1>6, NextCases

LEMMA InitTypes == Init => EditingTypeOK /\ Placed
<1> SUFFICES ASSUME Init PROVE EditingTypeOK /\ Placed
  OBVIOUS
<1>1. file \in File
  BY DEF Init, File, Versions
<1>2. call \in [Calls -> Call] /\ \A c \in Calls : call[c].at = "idle"
  BY UnmadeIsCall DEF Init, Unmade
<1>3. \A s \in Sessions : stamp[s] <= file.version
  BY <1>1 DEF Init, NoStamp, File, Versions
<1>4. Placed
  BY <1>2 DEF Placed, PlacedAt
<1>5. /\ stamp \in [Sessions -> Versions \cup {NoStamp}]
      /\ \A c \in Calls : call[c].base <= file.version
  BY <1>1 DEF Init, Unmade, File, Versions
<1>6. \A c \in Calls : lock # c
  BY CallsAssumption DEF Init
<1> QED
  BY <1>1, <1>2, <1>3, <1>4, <1>5, <1>6 DEF Init, EditingTypeOK

LEMMA TypesKept ==
  ASSUME EditingTypeOK, Placed, [Next]_vars
  PROVE  EditingTypeOK' /\ Placed'
<1>1. file' \in File /\ quiet' \in [Sessions -> SUBSET Changes] /\ file'.version >= file.version
  <2>0. file \in File /\ quiet \in [Sessions -> SUBSET Changes] /\ file.version \in Nat
    BY FileShape DEF EditingTypeOK
  <2>1. ASSUME NEW text \in SUBSET Changes, NEW x, quiet' = News(text), Written(text, x)
        PROVE  /\ file' \in File /\ file'.version >= file.version
               /\ quiet' \in [Sessions -> SUBSET Changes]
    BY <2>0, <2>1, NewsShape DEF Written
  <2>2. \A u \in Saves : file.content \cup {u} \subseteq Changes
    BY FileShape DEF Changes
  <2>5. CASE file' = file /\ quiet' = quiet
    BY <2>0, <2>5
  <2>6. ASSUME NEW c \in Calls, quiet' = quiet, file' \in File,
               \/ file'.version = file.version
               \/ file'.version = file.version + 1
        PROVE  /\ file' \in File /\ file'.version >= file.version
               /\ quiet' \in [Sessions -> SUBSET Changes]
    BY <2>0, <2>6
  <2> QED
    BY <2>1, <2>2, <2>5, <2>6, FileStep, TextShape
<1>2. /\ offered' \in [Sessions -> SUBSET Changes]
  <2>1. ASSUME NEW s \in Sessions, Answer(s)
        PROVE  offered' \in [Sessions -> SUBSET Changes]
    <3>1. UNION {call[c].old : c \in {c \in Calls : SessionOf[c] = s /\ call[c].at = "done"}}
            \subseteq Changes
      BY CallShape
    <3> QED
      BY <2>1, <3>1 DEF Answer, EditingTypeOK
  <2>2. (\A s \in Sessions : ~Answer(s)) => offered' = offered
    BY WhoSets
  <2> QED
    BY <2>1, <2>2 DEF EditingTypeOK
<1>3. /\ stamp' \in [Sessions -> Versions \cup {NoStamp}]
      /\ \A s \in Sessions : stamp'[s] <= file'.version
  <2>1. CASE stamp' = stamp
    BY <1>1, <2>1, FileShape DEF EditingTypeOK, Versions, NoStamp, File
  <2>2. ASSUME NEW c \in Calls, Stamp(c)
        PROVE  /\ stamp' \in [Sessions -> Versions \cup {NoStamp}]
               /\ \A s \in Sessions : stamp'[s] <= file'.version
    <3>1. PICK s \in Sessions : s = SessionOf[c]
      BY CallsAssumption
    <3>2. /\ file' = file \/ file'.version >= file.version
          /\ stamp' = [stamp EXCEPT ![s] = call[c].base]
      BY <1>1, <2>2, <3>1 DEF Stamp
    <3>3. call[c].base \in Nat /\ call[c].base <= file.version
      BY CallShape DEF EditingTypeOK
    <3>4. file.version \in Nat /\ file'.version \in Nat
      BY <1>1, FileShape DEF File, Versions
    <3>5. \A r \in Sessions : stamp[r] \in Versions \cup {NoStamp} /\ stamp[r] <= file.version
      BY DEF EditingTypeOK
    <3>6. \A r \in Sessions : stamp'[r] = IF r = s THEN call[c].base ELSE stamp[r]
      BY <3>2 DEF EditingTypeOK
    <3>7. \A r \in Sessions : stamp'[r] <= file'.version
      BY <1>1, <3>3, <3>4, <3>5, <3>6 DEF Versions, NoStamp
    <3> QED
      BY <3>2, <3>3, <3>7 DEF EditingTypeOK, Versions
  <2>3. (\A c \in Calls : ~Stamp(c)) => stamp' = stamp
    BY WhoSets
  <2> QED
    BY <2>1, <2>2, <2>3
<1>4. /\ call' \in [Calls -> Call] /\ Placed'
      /\ lock' \in Calls \cup {Nobody} /\ \A c \in Calls : lock' = c <=> Inside(c)'
      /\ \A c \in Calls : call'[c].base <= file.version
  <2>0. 0 <= file.version /\ \A c \in Calls : call[c].base <= file.version
    BY FileShape DEF EditingTypeOK
  <2>1. ASSUME NEW c \in Calls, Step(c) \/ \E kind \in Kinds : Make(c, kind)
        PROVE  /\ call' \in [Calls -> Call] /\ Placed'
               /\ lock' \in Calls \cup {Nobody} /\ \A d \in Calls : lock' = d <=> Inside(d)'
               /\ \A d \in Calls : call'[d].base <= file.version
    <3>1. /\ call' \in [Calls -> Call]
          /\ \A d \in Calls \ {c} : call'[d] = call[d]
          /\ PlacedAt(c)' /\ call'[c].base <= file.version
          /\ \/ lock' = lock /\ (Inside(c)' <=> Inside(c))
             \/ lock = Nobody /\ lock' = c /\ Inside(c)'
             \/ lock' = (IF lock = c THEN Nobody ELSE lock) /\ ~Inside(c)'
      BY <2>1, OwnStep
    <3>2. \A d \in Calls \ {c} : PlacedAt(d)' /\ (Inside(d)' <=> Inside(d))
      BY <3>1, SameCall DEF Placed
    <3>3. lock' \in Calls \cup {Nobody}
      BY <3>1 DEF EditingTypeOK
    <3>4. \A d \in Calls : lock' = d <=> Inside(d)'
      BY <3>1, <3>2, LockIs, CallsAssumption
    <3> QED
      BY <2>0, <3>1, <3>2, <3>3, <3>4 DEF Placed
  <2>2. ASSUME NEW s \in Sessions, Answer(s)
        PROVE  /\ call' \in [Calls -> Call] /\ Placed'
               /\ lock' \in Calls \cup {Nobody} /\ \A d \in Calls : lock' = d <=> Inside(d)'
               /\ \A d \in Calls : call'[d].base <= file.version
    <3>1. /\ call' \in [Calls -> Call]
          /\ \A d \in Calls : \/ call'[d] = call[d]
                              \/ call'[d].at = "over" /\ call[d].at = "done" /\ call'[d].base = 0
      BY <2>2, AnswerEffect
    <3>2. ASSUME NEW d \in Calls
          PROVE  PlacedAt(d)' /\ (Inside(d)' <=> Inside(d))
      <4>1. CASE call'[d] = call[d]
        BY <4>1, SameCall DEF Placed
      <4>2. CASE call'[d].at = "over" /\ call[d].at = "done"
        BY <4>2 DEF PlacedAt, Inside
      <4> QED
        BY <3>1, <4>1, <4>2
    <3>3. lock' = lock
      BY <2>2 DEF Answer
    <3> QED
      BY <2>0, <3>1, <3>2, <3>3, LockIs DEF Placed, EditingTypeOK
  <2>3. ASSUME (\E u \in Saves : Save(u)) \/ UNCHANGED vars
        PROVE  /\ call' \in [Calls -> Call] /\ Placed'
               /\ lock' \in Calls \cup {Nobody} /\ \A d \in Calls : lock' = d <=> Inside(d)'
               /\ \A d \in Calls : call'[d].base <= file.version
    <3>1. call' = call /\ lock' = lock
      BY <2>3 DEF Save, vars
    <3> QED
      BY <2>0, <3>1, SameCall, LockIs DEF Placed, EditingTypeOK
  <2> QED
    BY <2>1, <2>2, <2>3, NextCases
<1>5. \A c \in Calls : Inside(c)' <=> call'[c].kind \in Locking
                                        /\ call'[c].at \notin {"idle", "lock", "done", "over"}
  BY DEF Inside
<1>6. \A c \in Calls : call'[c].base <= file'.version
  <2>1. file'.version \in Nat /\ file.version \in Nat
    BY <1>1, FileShape DEF File, Versions
  <2>2. \A c \in Calls : call'[c].base \in Nat
    BY <1>4 DEF Call, Versions
  <2> QED
    BY <1>1, <1>4, <2>1, <2>2
<1> QED
  BY <1>1, <1>2, <1>3, <1>4, <1>5, <1>6 DEF EditingTypeOK

-----------------------------------------------------------------------------
(* Who wrote the file *)

After == {"format", "stamp", "set", "done", "over"}

\* Who wrote the file last has got past its write.
Writer == \A c \in Calls : file.by = c => call[c].at \in After

\* What is in the file was read by the edit that is about to write, or comes from a call
\* that takes no lock, or from a save.
EditBase ==
  \A c \in Calls : call[c].at = "ask" /\ call[c].kind = "edit" =>
    \/ file.version = call[c].base
    \/ file.by \notin {d \in Calls : call[d].kind \in Locking}

\* Which steps of its own take a call from where it is.
LEMMA Moves ==
  ASSUME EditingTypeOK, Placed, [Next]_vars, NEW c \in Calls, call'[c] # call[c]
  PROVE  /\ \/ \E kind \in Kinds : Make(c, kind)
            \/ Step(c)
            \/ call[c].at = "done" /\ call'[c].at = "over" /\ call'[c].kind = call[c].kind
         /\ call'[c].at # "idle"
         /\ call[c].at # "idle" => call'[c].kind = call[c].kind
         /\ call[c].at \in After => call'[c].at \in After
         /\ call[c].at = "ask" => call'[c].at \in After
         /\ call'[c].at = "ask" /\ call'[c].kind = "edit" => Look(c)
<1>1. ASSUME NEW d \in Calls, Step(d) \/ \E kind \in Kinds : Make(d, kind)
      PROVE  d = c
  BY <1>1, OwnStep
<1>2. ASSUME NEW s \in Sessions, Answer(s)
      PROVE  call[c].at = "done" /\ call'[c].at = "over" /\ call'[c].kind = call[c].kind
  BY <1>2, AnswerEffect
<1>3. ASSUME NEW kind \in Kinds, Make(c, kind)
      PROVE  /\ call[c].at = "idle" /\ call'[c].at # "idle"
             /\ call'[c].at = "ask" => call'[c].kind # "edit"
  BY <1>3, MakeEffect DEF Entry, Locking
<1>4. ASSUME Step(c)
      PROVE  /\ call'[c].at # "idle" /\ call[c].at # "idle"
             /\ call'[c].kind = call[c].kind
             /\ call[c].at \in After => call'[c].at \in After
             /\ call[c].at = "ask" => call'[c].at \in After
             /\ call'[c].at = "ask" /\ call'[c].kind = "edit" => Look(c)
  <2>0. PlacedAt(c)
    BY DEF Placed
  <2>1. ASSUME NEW from, NEW to \in Places, Goes(c, from, to)
        PROVE  call[c].at = from /\ call'[c].at = to /\ call'[c].kind = call[c].kind
    BY <2>1, GoesEffect
  <2>2. ASSUME NEW from, NEW shows \in SUBSET Changes, Ends(c, from, shows)
        PROVE  call[c].at = from /\ call'[c].at = "done" /\ call'[c].kind = call[c].kind
    BY <2>2, EndsEffect
  <2>3. CASE TakeLock(c)
    <3>1. PICK to \in {"assert", "ask"} :
            /\ to = IF call[c].kind = "edit" THEN "assert" ELSE "ask"
            /\ Goes(c, "lock", to)
      BY <2>3 DEF TakeLock
    <3>2. call[c].at = "lock" /\ call'[c].at = to /\ call'[c].kind = call[c].kind
      BY <2>1, <3>1 DEF Places
    <3> QED
      BY <3>1, <3>2 DEF After
  <2>4. CASE Look(c)
    <3>1. /\ call[c].at \in {"look", "content"} /\ call'[c].kind = call[c].kind
          /\ call'[c].at = CASE call[c].kind = "read" -> "stamp"
                             [] call[c].kind = "write" -> "assert"
                             [] OTHER -> "ask"
      BY <2>4, LookEffect
    <3> QED
      BY <2>4, <3>1 DEF After
  <2>5. CASE Miss(c)
    <3>1. CASE call[c].kind = "write" /\ Goes(c, "look", "ask")
      <4>1. call[c].at = "look" /\ call'[c].at = "ask" /\ call'[c].kind = "write"
        BY <2>1, <3>1 DEF Places
      <4> QED
        BY <3>1, <4>1 DEF After
    <3>2. CASE Ends(c, "look", {}) \/ Ends(c, "assert", {})
      <4>1. /\ call[c].at \in {"look", "assert"} /\ call'[c].at = "done"
            /\ call'[c].kind = call[c].kind
        BY <2>2, <3>2
      <4> QED
        BY <4>1 DEF After
    <3> QED
      BY <2>5, <3>1, <3>2 DEF Miss
  <2>6. CASE Refused(c) \/ Fail(c)
    <3>1. /\ call[c].at \in {"compare", "ask"} /\ call'[c].at = "done"
          /\ call'[c].kind = call[c].kind
      BY <2>2, <2>6 DEF Refused, Fail
    <3> QED
      BY <3>1 DEF After
  <2>7. CASE Granted(c)
    <3>1. /\ call[c].at = "compare" /\ call'[c].kind = call[c].kind
          /\ call'[c].at = IF call[c].kind = "edit" THEN "content" ELSE "ask"
      BY <2>7, GrantedEffect
    <3> QED
      BY <3>1 DEF After
  <2>12. CASE Stat(c) \/ AssertStamp(c)
    <3>1. /\ \/ call[c].at = "stamp" /\ call'[c].at = "set"
             \/ call[c].at = "assert" /\ call'[c].at = "compare"
          /\ call'[c].kind = call[c].kind
      BY <2>12, StatEffect, AssertEffect
    <3> QED
      BY <3>1 DEF After
  <2>8. CASE AutoRead(c)
    <3>1. call[c].at = "assert" /\ call'[c].at = "stamp" /\ call'[c].kind = call[c].kind
      BY <2>8, AutoReadEffect
    <3> QED
      BY <3>1 DEF After
  <2>9. CASE Put(c)
    <3>1. call[c].at = "ask" /\ call'[c].at = "format" /\ call'[c].kind = call[c].kind
      BY <2>9, PutEffect
    <3> QED
      BY <3>1 DEF After
  <2>10. CASE Format(c)
    <3>1. /\ call[c].at = "format" /\ call'[c].at \in {"stamp", "done"}
          /\ call'[c].kind = call[c].kind
      BY <2>1, <2>2, <2>10, CallShape DEF Format, Places
    <3> QED
      BY <2>10, <3>1 DEF After
  <2>11. CASE Stamp(c)
    <3>1. call[c].at = "set" /\ call'[c].at = "done" /\ call'[c].kind = call[c].kind
      BY <2>2, <2>11, CallShape DEF Stamp
    <3> QED
      BY <2>11, <3>1 DEF After
  <2> QED
    BY <1>4, <2>3, <2>4, <2>5, <2>6, <2>7, <2>8, <2>9, <2>10, <2>11, <2>12 DEF Step
<1>5. \/ \E kind \in Kinds : Make(c, kind)
      \/ Step(c)
      \/ \E s \in Sessions : Answer(s)
  BY <1>1, NextCases DEF Save, vars
<1> QED
  BY <1>2, <1>3, <1>4, <1>5 DEF After

LEMMA WrittenBy ==
  ASSUME EditingTypeOK, [Next]_vars
  PROVE  \/ file'.version = file.version /\ file'.by = file.by
         \/ \E c \in Calls : (Put(c) \/ Format(c)) /\ file'.by = c
         \/ file'.by \notin Calls
BY FileStep, CallsAssumption DEF Written

LEMMA WriterKept ==
  ASSUME EditingTypeOK, Placed, Writer, [Next]_vars
  PROVE  Writer'
<1> SUFFICES ASSUME NEW c \in Calls, file'.by = c
             PROVE  call'[c].at \in After
  BY DEF Writer
<1>1. CASE file.by = c
  BY <1>1, Moves DEF Writer
<1>2. CASE file.by # c
  <2>1. Put(c) \/ Format(c)
    BY <1>2, WrittenBy
  <2>2. CASE Put(c)
    BY <2>2, PutEffect DEF After
  <2>3. CASE Format(c)
    <3>1. call[c].at = "format"
      BY <2>3 DEF Format, Goes, Ends
    <3> QED
      BY <3>1, Moves DEF After
  <2> QED
    BY <2>1, <2>2, <2>3
<1> QED
  BY <1>1, <1>2

LEMMA EditBaseKept ==
  ASSUME EditingTypeOK, Placed, Writer, EditBase, [Next]_vars
  PROVE  EditBase'
<1> SUFFICES ASSUME NEW c \in Calls, call'[c].at = "ask", call'[c].kind = "edit"
             PROVE  \/ file'.version = call'[c].base
                    \/ file'.by \notin {d \in Calls : call'[d].kind \in Locking}
  BY DEF EditBase
<1>1. CASE call'[c] # call[c]
  <2>1. Look(c)
    BY <1>1, Moves
  <2>2. /\ call'[c].kind = call[c].kind
        /\ call'[c].base = IF call[c].kind = "edit" THEN file.version ELSE 0
    BY <2>1, LookEffect
  <2> QED
    BY <2>1, <2>2 DEF Look
<1>2. CASE call'[c] = call[c]
  <2>1. lock = c
    BY <1>2, LockIs DEF Inside, Locking
  <2>2. ASSUME NEW d \in Calls, Put(d) \/ Format(d)
        PROVE  call'[d].kind \notin Locking
    <3>1. call[d].at \in {"ask", "format"}
      BY <2>2 DEF Put, Format, Goes, Ends
    <3>2. d # c
      <4>1. CASE d = c
        <5>1. Put(c)
          BY <1>2, <2>2, <4>1 DEF Format, Goes, Ends
        <5> QED
          BY <1>2, <5>1, PutEffect
      <4> QED
        BY <4>1
    <3>3. call[d].kind \notin Locking
      BY <2>1, <3>1, <3>2, LockIs DEF Inside
    <3> QED
      BY <3>1, <3>3, Moves
  <2>3. CASE file'.version = file.version /\ file'.by = file.by
    <3>1. ASSUME file.by \in Calls, call'[file.by].kind \in Locking
          PROVE  call[file.by].kind \in Locking
      <4>1. PICK d \in Calls : d = file.by
        BY <3>1
      <4>2. call[d].at # "idle"
        BY <4>1 DEF Writer, After
      <4> QED
        BY <3>1, <4>1, <4>2, Moves
    <3> QED
      BY <1>2, <2>3, <3>1 DEF EditBase
  <2> QED
    BY <2>2, <2>3, WrittenBy
<1> QED
  BY <1>1, <1>2

-----------------------------------------------------------------------------
(* What a session has looked at *)

\* What was offered to its model, and what the calls that are over are going to offer.
Known(s) ==
  offered[s] \cup UNION {call[d].old : d \in {d \in Calls : SessionOf[d] = s /\ call[d].at = "done"}}

\* Of what was made while the session had nothing under way, all has been looked at if the
\* session's stamp is of the file that is there; a call under way has, from the place named.
SessionKnows(s) ==
  /\ quiet[s] \subseteq file.content
  /\ stamp[s] = file.version => quiet[s] \subseteq Known(s)

CallKnows(c) ==
  /\ call[c].at \in {"format", "stamp", "set"} /\ call[c].kind \in Stamping \cup {"read"} =>
       quiet[SessionOf[c]] \subseteq call[c].old \cup Known(SessionOf[c])
  /\ call[c].at \in {"assert", "compare"} /\ call[c].kind = "write" =>
       quiet[SessionOf[c]] \subseteq call[c].old
  /\ call[c].at = "compare" /\ call[c].base = file.version =>
       quiet[SessionOf[c]] \subseteq Known(SessionOf[c])
  /\ call[c].at = "ask" /\ call[c].kind \in {"edit", "update"} =>
       quiet[SessionOf[c]] \subseteq call[c].old
  /\ call[c].at \in {"content", "ask"} /\ call[c].kind = "edit" =>
       quiet[SessionOf[c]] \subseteq Known(SessionOf[c])
  /\ call[c].at = "ask" /\ call[c].kind = "write" =>
       quiet[SessionOf[c]] \subseteq Known(SessionOf[c])
  /\ call[c].at \in {"lock", "look", "assert", "compare", "content", "ask"}
       /\ call[c].kind \in Whole =>
       call[c].knew = offered[SessionOf[c]]

Knows ==
  /\ \A s \in Sessions : SessionKnows(s)
  /\ \A c \in Calls : CallKnows(c)
  /\ file.version = 0 => file.content = {}

\* While a session has a call under way, nothing new is quiet for it.
LEMMA QuietFalls ==
  ASSUME EditingTypeOK, [Next]_vars, NEW c \in Calls, UnderWay(c)
  PROVE  quiet'[SessionOf[c]] \subseteq quiet[SessionOf[c]]
<1>1. AtWork(SessionOf[c]) /\ SessionOf[c] \in Sessions
  BY CallsAssumption DEF AtWork
<1>2. \A d \in Calls : \A text \in Texts(d) : text \subseteq Changes
  BY TextShape
<1>3. \A u \in Saves : file.content \cup {u} \subseteq Changes
  BY FileShape DEF Changes
<1>4. \A text \in SUBSET Changes :
        News(text)[SessionOf[c]] \subseteq quiet[SessionOf[c]]
  BY <1>1, NewsShape
<1> QED
  BY <1>2, <1>3, <1>4, FileStep

\* The next answer waits for the calls of this one.
LEMMA OfferedSame ==
  ASSUME EditingTypeOK, [Next]_vars, NEW c \in Calls, UnderWay(c), call[c].at # "done"
  PROVE  offered'[SessionOf[c]] = offered[SessionOf[c]]
<1>1. ASSUME NEW s \in Sessions, Answer(s)
      PROVE  offered'[SessionOf[c]] = offered[SessionOf[c]]
  <2>1. s # SessionOf[c]
    BY <1>1 DEF Answer, UnderWay
  <2> QED
    BY <1>1, <2>1 DEF Answer
<1>2. (\A s \in Sessions : ~Answer(s)) => offered' = offered
  BY WhoSets
<1> QED
  BY <1>1, <1>2

\* A call makes its steps while it is under way, and before it is over.
LEMMA StepPlaces ==
  ASSUME NEW c \in Calls, Step(c)
  PROVE  call[c].at \notin {"idle", "done", "over"}
BY DEF Step, TakeLock, Look, Miss, AssertStamp, Refused, Granted, Accepted, AutoRead, Fail,
       Put, Format, Stat, Stamp, Goes, Ends

\* What has been looked at stays so.
LEMMA KnownGrows ==
  ASSUME EditingTypeOK, Placed, [Next]_vars, NEW s \in Sessions
  PROVE  Known(s) \subseteq Known(s)'
<1>1. ASSUME NEW r \in Sessions, Answer(r)
      PROVE  Known(s) \subseteq Known(s)'
  <2>1. offered[s] \subseteq offered'[s]
    BY <1>1 DEF Answer, EditingTypeOK
  <2>2. ASSUME NEW d \in Calls, SessionOf[d] = s, call[d].at = "done"
        PROVE  call[d].old \subseteq Known(s)'
    <3>1. CASE r = s
      <4>1. offered'[s] = offered[s] \cup
              UNION {call[e].old : e \in {e \in Calls : SessionOf[e] = s /\ call[e].at = "done"}}
        BY <1>1, <3>1 DEF Answer, EditingTypeOK
      <4> QED
        BY <2>2, <4>1 DEF Known
    <3>2. CASE r # s
      <4>1. call'[d] = call[d]
        BY <1>1, <2>2, <3>2, AnswerEffect
      <4> QED
        BY <2>2, <4>1 DEF Known
    <3> QED
      BY <3>1, <3>2
  <2> QED
    BY <2>1, <2>2 DEF Known
<1>2. CASE \A r \in Sessions : ~Answer(r)
  <2>1. offered' = offered
    BY <1>2, WhoSets
  <2>2. ASSUME NEW d \in Calls, call[d].at = "done"
        PROVE  call'[d] = call[d]
    <3>1. ~Step(d) /\ \A kind \in Kinds : ~Make(d, kind)
      BY <2>2, StepPlaces DEF Make
    <3>2. ASSUME NEW e \in Calls, Step(e) \/ \E kind \in Kinds : Make(e, kind)
          PROVE  call'[d] = call[d]
      BY <3>1, <3>2, OwnStep
    <3> QED
      BY <1>2, <3>2, NextCases DEF Save, vars
  <2> QED
    BY <2>1, <2>2 DEF Known
<1> QED
  BY <1>1, <1>2

LEMMA InitKnows == Init => Knows
<1> SUFFICES ASSUME Init PROVE Knows
  OBVIOUS
<1>1. \A s \in Sessions : SessionKnows(s)
  BY DEF Init, SessionKnows
<1>2. \A c \in Calls : CallKnows(c)
  BY DEF Init, CallKnows, Unmade
<1>3. file.content = {}
  BY DEF Init
<1> QED
  BY <1>1, <1>2, <1>3 DEF Knows

LEMMA SessionKnowsKept ==
  ASSUME EditingTypeOK, Placed, Knows, [Next]_vars, NEW s \in Sessions
  PROVE  SessionKnows(s)'
<1>0. SessionKnows(s)
  BY DEF Knows
<1>1. quiet'[s] \subseteq file'.content
  <2>1. \A d \in Calls : \A text \in Texts(d) : News(text)[s] \subseteq text
    BY TextShape, NewsShape
  <2>2. \A u \in Saves : News(file.content \cup {u})[s] \subseteq file.content \cup {u}
    <3>1. \A u \in Saves : file.content \cup {u} \subseteq Changes
      BY FileShape DEF Changes
    <3> QED
      BY <3>1, NewsShape
  <2> QED
    BY <1>0, <2>1, <2>2, FileStep DEF SessionKnows, Written
<1>2. ASSUME stamp'[s] = file'.version
      PROVE  quiet'[s] \subseteq Known(s)'
  <2>0. Known(s) \subseteq Known(s)'
    BY KnownGrows
  <2>1. ASSUME NEW c \in Calls, Stamp(c), SessionOf[c] = s
        PROVE  quiet'[s] \subseteq Known(s)'
    <3>1. call[c].at = "set" /\ quiet' = quiet /\ Ends(c, "set", call[c].old)
      BY <2>1 DEF Stamp, Ends
    <3>2. quiet[s] \subseteq call[c].old \cup Known(s)
      <4>1. call[c].kind \in Stamping \cup {"read"}
        BY <3>1 DEF Placed, PlacedAt
      <4>2. CallKnows(c)
        BY DEF Knows
      <4> QED
        BY <2>1, <3>1, <4>1, <4>2 DEF CallKnows
    <3>3. call'[c].at = "done" /\ call'[c].old = call[c].old
      BY <3>1, EndsEffect, CallShape
    <3>4. call[c].old \subseteq Known(s)'
      BY <2>1, <3>3 DEF Known
    <3> QED
      BY <2>0, <3>1, <3>2, <3>4
  <2>2. ASSUME NEW c \in Calls, Stamp(c), SessionOf[c] # s
        PROVE  quiet'[s] \subseteq Known(s)'
    <3>1. stamp'[s] = stamp[s] /\ file' = file /\ quiet' = quiet
      BY <2>2 DEF Stamp, EditingTypeOK
    <3> QED
      BY <1>0, <1>2, <2>0, <3>1 DEF SessionKnows
  <2>3. CASE \A c \in Calls : ~Stamp(c)
    <3>1. stamp' = stamp
      BY <2>3, WhoSets
    <3>2. stamp[s] <= file.version /\ stamp[s] \in Nat \cup {NoStamp} /\ file.version \in Nat
      BY FileShape DEF EditingTypeOK, Versions
    <3>3. file'.version # file.version + 1
      BY <1>2, <3>1, <3>2 DEF NoStamp
    <3>4. file'.version = file.version /\ quiet' = quiet
      BY <3>3, FileStep DEF Written
    <3> QED
      BY <1>0, <1>2, <2>0, <3>1, <3>4 DEF SessionKnows
  <2> QED
    BY <2>1, <2>2, <2>3
<1> QED
  BY <1>1, <1>2 DEF SessionKnows

LEMMA CallKnowsKept ==
  ASSUME EditingTypeOK, Placed, Knows, [Next]_vars, NEW c \in Calls
  PROVE  CallKnows(c)'
<1>1. PICK s \in Sessions : s = SessionOf[c]
  BY CallsAssumption
<1>2. Known(s) \subseteq Known(s)' /\ offered[s] \subseteq Known(s)
  BY KnownGrows DEF Known
<1>3. SessionKnows(s) /\ CallKnows(c) /\ PlacedAt(c)
  BY DEF Knows, Placed
<1>4. CASE call[c].at \in {"idle", "done", "over"}
  <2>1. \/ call'[c].at \in {"idle", "done", "over"}
        \/ \E kind \in Kinds : Make(c, kind)
    BY <1>4, Moves, StepPlaces
  <2>2. ASSUME NEW kind \in Kinds, Make(c, kind)
        PROVE  CallKnows(c)'
    <3>1. /\ call'[c].at = Entry(kind) /\ call'[c].kind = kind
          /\ kind \in Whole => call'[c].knew = offered[s]
          /\ offered' = offered
      BY <1>1, <2>2, MakeEffect DEF Make
    <3>2. /\ Entry(kind) \in {"lock", "look", "ask"}
          /\ Entry(kind) = "ask" => kind = "add"
      BY DEF Entry
    <3> QED
      BY <1>1, <3>1, <3>2 DEF CallKnows
  <2>3. CASE call'[c].at \in {"idle", "done", "over"}
    BY <2>3 DEF CallKnows
  <2> QED
    BY <2>1, <2>2, <2>3
<1>5. CASE call[c].at \notin {"idle", "done", "over"}
  <2>1. quiet'[s] \subseteq quiet[s] /\ offered'[s] = offered[s]
    <3>1. UnderWay(c) /\ call[c].at # "done"
      BY <1>5 DEF UnderWay
    <3> QED
      BY <1>1, <3>1, QuietFalls, OfferedSame
  <2>2. CASE call'[c] = call[c]
    <3>1. call'[c].base = file'.version => file.version = call[c].base
      <4>1. /\ file.version \in Nat /\ call[c].base <= file.version /\ call[c].base \in Nat
            /\ file'.version \in {file.version, file.version + 1}
        BY FileShape, CallShape, FileStep DEF EditingTypeOK, Written
      <4> QED
        BY <2>2, <4>1
    <3> QED
      BY <1>1, <1>2, <1>3, <2>1, <2>2, <3>1 DEF CallKnows
  <2>3. CASE call'[c] # call[c]
    <3>1. Step(c)
      <4>1. ~\E kind \in Kinds : Make(c, kind)
        BY <1>5 DEF Make
      <4> QED
        BY <1>5, <2>3, <4>1, Moves
    <3>2. ASSUME NEW from, NEW shows \in SUBSET Changes, Ends(c, from, shows)
          PROVE  CallKnows(c)'
      <4>1. call'[c].at = "done"
        BY <3>2, EndsEffect
      <4> QED
        BY <4>1 DEF CallKnows
    <3>3. ASSUME NEW from, NEW to \in Places, Goes(c, from, to)
          PROVE  /\ call[c].at = from /\ call'[c].at = to /\ call'[c].kind = call[c].kind
                 /\ call'[c].knew = call[c].knew /\ call'[c].old = call[c].old
      BY <3>3, GoesEffect
    <3>4. CASE TakeLock(c)
      <4>1. PICK to \in {"assert", "ask"} :
              /\ to = IF call[c].kind = "edit" THEN "assert" ELSE "ask"
              /\ Goes(c, "lock", to)
        BY <3>4 DEF TakeLock
      <4>2. /\ call[c].at = "lock" /\ call'[c].at = to /\ call'[c].kind = call[c].kind
            /\ call'[c].knew = call[c].knew
        BY <3>3, <4>1 DEF Places
      <4>3. call[c].kind \in {"edit", "create"}
        BY <1>3, <4>2 DEF PlacedAt, Locking
      <4> QED
        BY <1>1, <1>3, <2>1, <4>1, <4>2, <4>3 DEF CallKnows, Whole
    <3>5. CASE Look(c)
      <4>1. /\ call[c].at \in {"look", "content"}
            /\ call'[c].at = CASE call[c].kind = "read" -> "stamp"
                               [] call[c].kind = "write" -> "assert"
                               [] OTHER -> "ask"
            /\ call'[c].kind = call[c].kind /\ call'[c].knew = call[c].knew
            /\ call'[c].old = file.content
        BY <3>5, LookEffect
      <4>2. /\ call'[c].at \in {"stamp", "assert", "ask"}
            /\ call'[c].at = "ask" => call[c].kind # "write"
            /\ call'[c].at = "ask" /\ call[c].kind = "edit" => call[c].at = "content"
        BY <1>3, <4>1 DEF PlacedAt
      <4>3. quiet'[s] \subseteq file.content
        BY <1>3, <2>1 DEF SessionKnows
      <4> QED
        BY <1>1, <1>2, <1>3, <2>1, <4>1, <4>2, <4>3 DEF CallKnows
    <3>6. CASE Miss(c)
      <4>1. CASE call[c].kind = "write" /\ Goes(c, "look", "ask")
        <5>1. /\ call[c].at = "look" /\ call'[c].at = "ask" /\ call'[c].kind = "write"
              /\ call'[c].knew = call[c].knew
          BY <3>3, <4>1 DEF Places
        <5>2. quiet'[s] = {}
          <6>1. file.version = 0
            BY <3>6, FileShape DEF Miss, Exists
          <6> QED
            BY <1>3, <2>1, <6>1 DEF Knows, SessionKnows
        <5> QED
          BY <1>1, <1>3, <2>1, <4>1, <5>1, <5>2 DEF CallKnows
      <4>2. CASE Ends(c, "look", {}) \/ Ends(c, "assert", {})
        BY <3>2, <4>2
      <4> QED
        BY <3>6, <4>1, <4>2 DEF Miss
    <3>7. CASE Refused(c) \/ Fail(c)
      BY <3>2, <3>7 DEF Refused, Fail
    <3>8. CASE Granted(c)
      <4>1. /\ call[c].at = "compare" /\ call[c].base = file.version
            /\ call'[c].at = IF call[c].kind = "edit" THEN "content" ELSE "ask"
            /\ call'[c].kind = call[c].kind /\ call'[c].knew = call[c].knew
        BY <3>8, GrantedEffect
      <4>2. call[c].kind \in {"write", "edit"}
        BY <1>3, <4>1 DEF PlacedAt
      <4>3. quiet'[s] \subseteq Known(s)'
        BY <1>1, <1>2, <1>3, <2>1, <4>1 DEF CallKnows
      <4> QED
        BY <1>1, <1>3, <2>1, <4>1, <4>2, <4>3 DEF CallKnows, Whole
    <3>13. CASE AssertStamp(c)
      <4>1. /\ call[c].at = "assert" /\ call'[c].at = "compare" /\ call'[c].base = stamp[s]
            /\ call'[c].kind = call[c].kind /\ call'[c].knew = call[c].knew
            /\ call'[c].old = call[c].old
        BY <1>1, <3>13, AssertEffect
      <4>2. file' = file
        BY <3>13 DEF AssertStamp
      <4>3. stamp[s] = file.version => quiet'[s] \subseteq Known(s)'
        BY <1>2, <1>3, <2>1 DEF SessionKnows
      <4> QED
        BY <1>1, <1>3, <2>1, <4>1, <4>2, <4>3 DEF CallKnows
    <3>14. CASE Stat(c)
      <4>1. /\ call[c].at = "stamp" /\ call'[c].at = "set" /\ call'[c].kind = call[c].kind
            /\ call'[c].old = call[c].old
        BY <3>14, StatEffect
      <4> QED
        BY <1>1, <1>2, <1>3, <2>1, <4>1 DEF CallKnows
    <3>9. CASE AutoRead(c)
      <4>1. /\ call[c].at = "assert" /\ call'[c].at = "stamp" /\ call'[c].kind = call[c].kind
            /\ call'[c].old = IF call[c].kind = "write" THEN call[c].old ELSE file.content
        BY <3>9, AutoReadEffect
      <4>2. quiet[s] \subseteq call'[c].old
        BY <1>1, <1>3, <4>1 DEF CallKnows, SessionKnows
      <4> QED
        BY <1>1, <2>1, <4>1, <4>2 DEF CallKnows
    <3>10. CASE Put(c)
      <4>1. /\ call[c].at = "ask" /\ call'[c].at = "format" /\ call'[c].kind = call[c].kind
            /\ call'[c].old = {c}
        BY <3>10, PutEffect
      <4>2. ASSUME call[c].kind \in Stamping \cup {"read"}
            PROVE  quiet'[s] \subseteq {c} \cup Known(s)'
        <5>1. PICK text \in Texts(c) :
                /\ file' = [content |-> text, version |-> file.version + 1, by |-> c]
                /\ quiet' = News(text)
          BY <3>10 DEF Put
        <5>2. quiet'[s] \subseteq text
          BY <5>1, TextShape, NewsShape
        <5>3. CASE call[c].kind = "edit"
          BY <1>1, <1>2, <1>3, <2>1, <4>1, <5>3 DEF CallKnows
        <5>4. CASE call[c].kind \in Whole
          <6>1. text \subseteq {c} \cup call[c].knew /\ call[c].knew = offered[s]
            BY <1>1, <1>3, <4>1, <5>4, TextShape DEF CallKnows
          <6> QED
            BY <1>2, <5>2, <6>1
        <5> QED
          BY <1>3, <4>1, <4>2, <5>3, <5>4 DEF PlacedAt, Stamping, Whole
      <4> QED
        BY <1>1, <4>1, <4>2 DEF CallKnows
    <3>11. CASE Format(c)
      <4>1. CASE call[c].kind \in Stamping /\ Goes(c, "format", "stamp")
        <5>1. /\ call[c].at = "format" /\ call'[c].at = "stamp" /\ call'[c].kind = call[c].kind
              /\ call'[c].old = call[c].old
          BY <3>3, <4>1 DEF Places
        <5> QED
          BY <1>1, <1>2, <1>3, <2>1, <4>1, <5>1 DEF CallKnows
      <4>2. CASE Ends(c, "format", call[c].old)
        BY <3>2, <4>2, CallShape
      <4> QED
        BY <3>11, <4>1, <4>2 DEF Format
    <3>12. CASE Stamp(c)
      BY <3>2, <3>12, CallShape DEF Stamp
    <3> QED
      BY <3>1, <3>4, <3>5, <3>6, <3>7, <3>8, <3>9, <3>10, <3>11, <3>12, <3>13, <3>14 DEF Step
  <2> QED
    BY <2>2, <2>3
<1> QED
  BY <1>4, <1>5

LEMMA KnowsKept ==
  ASSUME EditingTypeOK, Placed, Knows, [Next]_vars
  PROVE  Knows'
<1>1. file'.version = 0 => file'.content = {}
  <2>1. file.version \in Nat
    BY FileShape
  <2>2. \/ file'.version = file.version + 1
        \/ file'.version = file.version /\ file'.content = file.content
    BY FileStep DEF Written
  <2> QED
    BY <2>1, <2>2 DEF Knows
<1> QED
  BY <1>1, SessionKnowsKept, CallKnowsKept DEF Knows

-----------------------------------------------------------------------------
(* The theorems *)

IInv == EditingTypeOK /\ Placed /\ Writer /\ EditBase /\ Knows

LEMMA InitInv == Init => IInv
<1> SUFFICES ASSUME Init PROVE IInv
  OBVIOUS
<1>1. file.by = Nobody /\ \A c \in Calls : call[c].at = "idle"
  BY DEF Init, Unmade
<1>2. Writer /\ EditBase
  BY <1>1, CallsAssumption DEF Writer, EditBase
<1> QED
  BY <1>2, InitTypes, InitKnows DEF IInv

LEMMA Invariance == Spec => []IInv
<1>1. IInv /\ [Next]_vars => IInv'
  BY TypesKept, WriterKept, EditBaseKept, KnowsKept DEF IInv
<1> QED
  BY <1>1, InitInv, PTL DEF Spec

\* Files, stamps and calls keep their types, no stamp is ahead of the file, and the
\* semaphore is held by the call that is inside withLock and by nobody else.
THEOREM EditingTypes == Spec => []EditingTypeOK
<1>1. IInv => EditingTypeOK
  BY DEF IInv
<1> QED
  BY <1>1, Invariance, PTL

\* Edits come one after the other, for any number of calls.
THEOREM EditsInOrder == Spec => EditsSerialised
<1> DEFINE Serial ==
      \A c \in Calls :
        Put(c) /\ call[c].kind = "edit" /\ file.version # call[c].base =>
          file.by \notin {d \in Calls : call[d].kind \in Locking}
<1>1. IInv /\ [Next]_vars => [Serial]_vars
  <2> SUFFICES ASSUME IInv, NEW c \in Calls, Put(c), call[c].kind = "edit",
                      file.version # call[c].base
               PROVE  file.by \notin {d \in Calls : call[d].kind \in Locking}
    OBVIOUS
  <2>1. call[c].at = "ask"
    BY DEF Put
  <2> QED
    BY <2>1 DEF IInv, EditBase
<1> QED
  BY <1>1, Invariance, PTL DEF Spec, EditsSerialised

\* A write, an edit or a patch that is alone in its session does not overwrite what was
\* made while its session had nothing under way, unless an earlier call of the session
\* read the file with it in: the stamps see to it for any calls, saves and sessions,
\* also when a tool fails between its write and its stamp.
THEOREM NothingNewLost == Spec => NoStaleWrite
<1> DEFINE Seen ==
      \A c \in Calls :
        /\ Put(c) /\ Alone(c) /\ call[c].kind \in {"write", "edit", "update"}
        => file.content \cap quiet[SessionOf[c]] \subseteq UNION Texts(c)
<1>1. IInv /\ [Next]_vars => [Seen]_vars
  <2> SUFFICES ASSUME IInv, NEW c \in Calls, Put(c), Alone(c),
                      call[c].kind \in {"write", "edit", "update"}
               PROVE  quiet[SessionOf[c]] \subseteq UNION Texts(c)
    OBVIOUS
  <2>1. call[c].at = "ask" /\ CallKnows(c)
    BY DEF Put, IInv, Knows
  <2>2. CASE call[c].kind \in {"edit", "update"}
    <3>1. {c} \cup call[c].old \in Texts(c)
      BY <2>2 DEF Texts, Whole
    <3> QED
      BY <2>1, <2>2, <3>1 DEF CallKnows
  <2>3. CASE call[c].kind = "write"
    <3>1. \A d \in Calls : SessionOf[d] = SessionOf[c] => call[d].at # "done"
      BY <2>1 DEF Alone, UnderWay
    <3>2. Known(SessionOf[c]) = offered[SessionOf[c]]
      BY <3>1 DEF Known
    <3>3. {c} \cup call[c].knew \in Texts(c)
      BY <2>3 DEF Texts, Whole
    <3>4. quiet[SessionOf[c]] \subseteq call[c].knew
      BY <2>1, <2>3, <3>2 DEF CallKnows, Whole
    <3> QED
      BY <3>3, <3>4
  <2> QED
    BY <2>2, <2>3
<1> QED
  BY <1>1, Invariance, PTL DEF Spec, NoStaleWrite

=============================================================================
