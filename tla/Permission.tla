----------------------------- MODULE Permission -----------------------------
(***************************************************************************)
(* Asking the user before a tool goes ahead: permission/index.ts.          *)
(*                                                                         *)
(* ask waits on a deferred kept in a map of pending requests; reply        *)
(* settles it, and then sweeps the map for other requests of the session.  *)
(* A reply runs on a fiber of its own, which may be suspended between the  *)
(* removal of a request from the map and the settling of its deferred; an  *)
(* ask may be between its entry in the map and its wait.                   *)
(***************************************************************************)
CONSTANTS
  Requests,    \* calls of ask
  Sessions,
  Repliers,    \* fibers that run reply
  Patterns,    \* patterns, and the rules' patterns that may match them
  Covers,      \* the patterns that a rule's pattern matches
  SessionOf,   \* the session of a request
  PatternsOf,  \* what a request is for
  AlwaysOf,    \* what an "always" reply to it approves
  RuleOf,      \* what the rules passed to ask say of a pattern
  Detached,    \* requests of tools, which ask on a fiber of their own
  Stored       \* the approvals in the project's row of the database

Actions == {"allow", "deny", "ask"}
Replies == {"once", "always", "reject"}

ASSUME RequestsAssumption ==
  /\ SessionOf \in [Requests -> Sessions]
  /\ PatternsOf \in [Requests -> SUBSET Patterns]
  /\ AlwaysOf \in [Requests -> SUBSET Patterns]
  /\ RuleOf \in [Requests -> [Patterns -> Actions]]
  /\ Covers \in [Patterns -> SUBSET Patterns]
  /\ Detached \subseteq Requests /\ Stored \subseteq Patterns

VARIABLES
  asks,      \* how far each ask is
  deferred,  \* the state of each request's deferred
  pending,   \* state.pending
  approved,  \* state.approved
  replier,   \* the local state of each reply
  said,      \* history: the reply each request got from a user
  struck,    \* history: the requests a "reject" found pending in its session
  pushed     \* history: the requests an "always" to which the instance remembers

vars == <<asks, deferred, pending, approved, replier, said, struck, pushed>>

\* "asking": its entry is made and its event is being published; only then does it wait,
\* with a finalizer that removes the entry.  "cut": it was interrupted before it waited.
AskStates == {"new", "asking", "waiting", "allowed", "failed", "cut"}

\* stale: the instance was disposed of, and with it the map this reply works on.
NoReply == [at |-> "idle"]
Replying == [at: {"settle", "sweep"}, req: Requests, reply: Replies,
             seen: SUBSET Requests, stale: BOOLEAN]
SettlingOther == [at: {"settleOther"}, req: Requests, reply: Replies,
                  seen: SUBSET Requests, stale: BOOLEAN, item: Requests]

PermissionTypeOK ==
  /\ asks \in [Requests -> AskStates]
  /\ deferred \in [Requests -> {"open", "succeeded", "failed"}]
  \* No entry outlives its asker, but for one that was cut.
  /\ pending \subseteq {r \in Requests : asks[r] \in {"asking", "waiting", "cut"}}
  /\ approved \subseteq Patterns
  /\ replier \in [Repliers -> {NoReply} \cup Replying \cup SettlingOther]
  /\ said \in [Requests -> {"none"} \cup Replies]
  /\ struck \subseteq Requests /\ pushed \subseteq Requests

Init ==
  /\ asks = [r \in Requests |-> "new"] /\ deferred = [r \in Requests |-> "open"]
  /\ pending = {} /\ approved = Stored
  /\ replier = [f \in Repliers |-> NoReply]
  /\ said = [r \in Requests |-> "none"] /\ struck = {} /\ pushed = {}

Matched(rules, p) == \E a \in rules : p \in Covers[a]

\* The last rule that matches decides, and the approvals come last.
Evaluate(r, p) == IF Matched(approved, p) THEN "allow" ELSE RuleOf[r][p]
Verdicts(r)    == {Evaluate(r, p) : p \in PatternsOf[r]}

(***************************************************************************)
(* ask                                                                     *)
(***************************************************************************)
Deny(r) ==
  /\ asks[r] = "new" /\ "deny" \in Verdicts(r)
  /\ asks' = [asks EXCEPT ![r] = "failed"]
  /\ UNCHANGED <<deferred, pending, approved, replier, said, struck, pushed>>

Allow(r) ==
  /\ asks[r] = "new" /\ Verdicts(r) \subseteq {"allow"}
  /\ asks' = [asks EXCEPT ![r] = "allowed"]
  /\ UNCHANGED <<deferred, pending, approved, replier, said, struck, pushed>>

\* Variant: whatever is not denied is not asked about if a part of it is allowed.
Ask_Any(r) ==
  /\ asks[r] = "new" /\ "deny" \notin Verdicts(r) /\ Verdicts(r) # {}
  /\ IF "allow" \in Verdicts(r)
     THEN /\ asks' = [asks EXCEPT ![r] = "allowed"]
          /\ UNCHANGED pending
     ELSE /\ asks' = [asks EXCEPT ![r] = "asking"]
          /\ pending' = pending \cup {r}
  /\ UNCHANGED <<deferred, approved, replier, said, struck, pushed>>

Ask(r) ==
  /\ asks[r] = "new" /\ "deny" \notin Verdicts(r) /\ "ask" \in Verdicts(r)
  /\ asks' = [asks EXCEPT ![r] = "asking"]
  /\ pending' = pending \cup {r}
  /\ UNCHANGED <<deferred, approved, replier, said, struck, pushed>>

\* The event is out, and the asker waits.
Asked(r) ==
  /\ asks[r] = "asking"
  /\ asks' = [asks EXCEPT ![r] = "waiting"]
  /\ UNCHANGED <<deferred, pending, approved, replier, said, struck, pushed>>

\* The asking fiber resumes once its deferred is settled.
Answered(r) ==
  /\ asks[r] = "waiting" /\ deferred[r] # "open"
  /\ asks' = [asks EXCEPT ![r] = IF deferred[r] = "succeeded" THEN "allowed" ELSE "failed"]
  /\ pending' = pending \ {r}
  /\ UNCHANGED <<deferred, approved, replier, said, struck, pushed>>

Interruptible(s, at) == {r \in Requests \ Detached : SessionOf[r] = s /\ asks[r] = at}
Interrupted(s) == [r \in Requests |-> IF r \in Interruptible(s, "asking") THEN "cut"
                                      ELSE IF r \in Interruptible(s, "waiting") THEN "failed"
                                      ELSE asks[r]]

\* Variant: an interrupted asker leaves its request behind.
Cancel_Leaks(s) ==
  /\ Interrupted(s) # asks
  /\ asks' = Interrupted(s)
  /\ UNCHANGED <<deferred, pending, approved, replier, said, struck, pushed>>

\* The session's run is interrupted.  Only the run's own fiber is: a tool asks on a
\* fiber that runPromise started for it.
Cancel(s) ==
  /\ Interrupted(s) # asks
  /\ asks' = Interrupted(s)
  /\ pending' = pending \ Interruptible(s, "waiting")
  /\ UNCHANGED <<deferred, approved, replier, said, struck, pushed>>

(***************************************************************************)
(* reply                                                                   *)
(***************************************************************************)
Peers(S, r) == {q \in S : SessionOf[q] = SessionOf[r]}

\* A reply to a request that is not pending does nothing.
Reply(f, r, v) ==
  /\ replier[f] = NoReply /\ r \in pending
  /\ pending' = pending \ {r}
  /\ replier' = [replier EXCEPT ![f] =
                   [at |-> "settle", req |-> r, reply |-> v, seen |-> {}, stale |-> FALSE]]
  /\ said' = [said EXCEPT ![r] = v]
  /\ struck' = IF v = "reject" THEN struck \cup Peers(pending, r) ELSE struck
  /\ UNCHANGED <<asks, deferred, approved, pushed>>

Outcome(v)   == IF v = "reject" THEN "failed" ELSE "succeeded"
Settled(r, v) == [deferred EXCEPT ![r] = IF @ = "open" THEN Outcome(v) ELSE @]

\* An "always" is pushed onto the approvals of the instance the reply began in.
Pushes(me) ==
  IF me.reply = "always" /\ ~ me.stale
  THEN approved' = approved \cup AlwaysOf[me.req] /\ pushed' = pushed \cup {me.req}
  ELSE UNCHANGED <<approved, pushed>>

Settle(f) ==
  LET me == replier[f]
  IN  /\ me.at = "settle"
      /\ deferred' = Settled(me.req, me.reply)
      /\ replier' = [replier EXCEPT ![f] =
                       IF me.reply = "once" THEN NoReply ELSE [me EXCEPT !.at = "sweep"]]
      /\ Pushes(me)
      /\ UNCHANGED <<asks, pending, said, struck>>

\* What the sweep has yet to look at: the loop is over the live map, so that a request
\* added while it runs is looked at, too.
Unseen(f) == IF replier[f].stale THEN {} ELSE Peers(pending, replier[f].req) \ replier[f].seen

\* Variant: the sweep looks at what this reply approved only.
Swept_Own(f, i) ==
  \/ replier[f].reply = "reject"
  \/ \A p \in PatternsOf[i] : Matched(AlwaysOf[replier[f].req], p)

\* Variant: a "reject" is for its own request only.
Swept_NoCascade(f, i) ==
  /\ replier[f].reply = "always"
  /\ \A p \in PatternsOf[i] : Matched(approved, p)

\* A "reject" takes the whole session with it, an "always" what it now allows; the
\* rules the request came with are not looked at again.
Swept(f, i) ==
  \/ replier[f].reply = "reject"
  \/ \A p \in PatternsOf[i] : Matched(approved, p)

SweepOne(f, i) ==
  LET me == replier[f]
  IN  /\ me.at = "sweep" /\ i \in Unseen(f) /\ Swept(f, i)
      /\ pending' = pending \ {i}
      /\ replier' = [replier EXCEPT ![f] =
                       [at |-> "settleOther", req |-> me.req, reply |-> me.reply,
                        seen |-> me.seen \cup {i}, stale |-> me.stale, item |-> i]]
      /\ UNCHANGED <<asks, deferred, approved, said, struck, pushed>>

SweepPast(f, i) ==
  /\ replier[f].at = "sweep" /\ i \in Unseen(f) /\ ~ Swept(f, i)
  /\ replier' = [replier EXCEPT ![f].seen = @ \cup {i}]
  /\ UNCHANGED <<asks, deferred, pending, approved, said, struck, pushed>>

SettleOther(f) ==
  LET me == replier[f]
  IN  /\ me.at = "settleOther"
      /\ deferred' = Settled(me.item, me.reply)
      /\ replier' = [replier EXCEPT ![f] =
                       [at |-> "sweep", req |-> me.req, reply |-> me.reply,
                        seen |-> me.seen, stale |-> me.stale]]
      /\ UNCHANGED <<asks, pending, approved, said, struck, pushed>>

SweepEnd(f) ==
  /\ replier[f].at = "sweep" /\ Unseen(f) = {}
  /\ replier' = [replier EXCEPT ![f] = NoReply]
  /\ UNCHANGED <<asks, deferred, pending, approved, said, struck, pushed>>

(***************************************************************************)
(* The instance is disposed of or reloaded: pending requests are rejected, *)
(* and the next use reads the approvals from the database.                 *)
(***************************************************************************)
\* Variant: the pending requests are dropped.
Rejected_None == deferred

Rejected == [r \in Requests |->
               IF r \in pending /\ deferred[r] = "open" THEN "failed" ELSE deferred[r]]

Dispose ==
  /\ deferred' = Rejected /\ pending' = {} /\ approved' = Stored /\ pushed' = {}
  /\ replier' = [f \in Repliers |-> IF replier[f] = NoReply THEN NoReply
                                    ELSE [replier[f] EXCEPT !.stale = TRUE]]
  /\ UNCHANGED <<asks, said, struck>>

Next ==
  \/ \E r \in Requests : Deny(r) \/ Allow(r) \/ Ask(r) \/ Asked(r) \/ Answered(r)
  \/ \E s \in Sessions : Cancel(s)
  \/ \E f \in Repliers :
       \/ \E r \in Requests, v \in Replies : Reply(f, r, v)
       \/ Settle(f) \/ SettleOther(f) \/ SweepEnd(f)
       \/ \E i \in Requests : SweepOne(f, i) \/ SweepPast(f, i)
  \/ Dispose

Spec == Init /\ [][Next]_vars

(***************************************************************************)
(* Properties.                                                             *)
(***************************************************************************)
Settles(f, r) == \/ replier[f].at = "settle" /\ replier[f].req = r
                 \/ replier[f].at = "settleOther" /\ replier[f].item = r

\* No tool waits for an answer that cannot come: a request whose asker is there, its
\* deferred open, can be replied to, or a reply is about to settle it (index.ts 203-257).
WaiterAnswerable ==
  \A r \in Requests : asks[r] \in {"asking", "waiting"} /\ deferred[r] = "open" =>
    r \in pending \/ \E f \in Repliers : Settles(f, r)

\* A tool goes ahead only if its user said so, to this request or, for each of its
\* patterns, by a rule or by an earlier "always" (index.ts 165-200, 244-257).
Always == Stored \cup UNION {AlwaysOf[q] : q \in {q \in Requests : said[q] = "always"}}
NothingUnasked ==
  \A r \in Requests : asks[r] = "allowed" =>
    \/ said[r] \in {"once", "always"}
    \/ \A p \in PatternsOf[r] : RuleOf[r][p] = "allow" \/ Matched(Always, p)

\* A request that a "reject" found pending in its session does not outlive it: while it
\* is pending that reply, or another one, has yet to get to it (index.ts 214-231).
RejectStopsSession ==
  \A r \in struck \cap pending : \E f \in Repliers :
    /\ replier[f].at # "idle" /\ replier[f].reply = "reject"
    /\ \/ replier[f].at = "settle" /\ SessionOf[replier[f].req] = SessionOf[r]
       \/ r \in Unseen(f)

\* No user is asked what the same session has an approval for: a request stays pending
\* next to approvals of its session that cover it only while a sweep has yet to get to
\* it (index.ts 236-257).
ApprovedIn(s) == UNION {AlwaysOf[q] : q \in {q \in pushed : SessionOf[q] = s}}
CoveredIsResolved ==
  \A r \in pending :
    (\A p \in PatternsOf[r] : Matched(ApprovedIn(SessionOf[r]), p)) =>
       \E f \in Repliers : /\ replier[f].at # "idle" /\ replier[f].reply = "always"
                           /\ r \in Unseen(f)

=============================================================================
