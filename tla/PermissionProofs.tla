-------------------------- MODULE PermissionProofs --------------------------
(***************************************************************************)
(* Proofs about Permission: for any requests, sessions and repliers, any   *)
(* patterns and rules, the types, that nobody waits for an answer that     *)
(* cannot come, that nothing goes ahead unasked, and what a "reject" and   *)
(* an "always" do to the other requests of the session.                    *)
(***************************************************************************)
EXTENDS Permission, TLAPS

-----------------------------------------------------------------------------
(* What an action does to the reply that takes it, spelled out              *)

\* The shape of a reply follows from where it is.
LEMMA Shapes ==
  ASSUME PermissionTypeOK, NEW f \in Repliers
  PROVE  /\ replier[f] = NoReply \/ replier[f] \in Replying \/ replier[f] \in SettlingOther
         /\ replier[f].at = "idle" => replier[f] = NoReply
         /\ replier[f].at \in {"settle", "sweep"} => replier[f] \in Replying
         /\ replier[f].at = "settleOther" => replier[f] \in SettlingOther
BY DEF PermissionTypeOK, NoReply, Replying, SettlingOther

LEMMA ReplyEffect ==
  ASSUME PermissionTypeOK, NEW f \in Repliers, NEW r \in Requests, NEW v \in Replies,
         Reply(f, r, v)
  PROVE  /\ replier' \in [Repliers -> {NoReply} \cup Replying \cup SettlingOther]
         /\ replier'[f] = [at |-> "settle", req |-> r, reply |-> v, seen |-> {}, stale |-> FALSE]
         /\ \A g \in Repliers \ {f} : replier'[g] = replier[g]
BY DEF PermissionTypeOK, Reply, Replying

LEMMA SettleEffect ==
  ASSUME PermissionTypeOK, NEW f \in Repliers, Settle(f)
  PROVE  /\ replier' \in [Repliers -> {NoReply} \cup Replying \cup SettlingOther]
         /\ replier[f] \in Replying
         /\ replier[f].reply = "once" => replier'[f] = NoReply
         /\ replier[f].reply # "once" =>
              replier'[f] = [at |-> "sweep", req |-> replier[f].req, reply |-> replier[f].reply,
                             seen |-> replier[f].seen, stale |-> replier[f].stale]
         /\ \A g \in Repliers \ {f} : replier'[g] = replier[g]
<1>1. replier[f] \in Replying
  BY Shapes DEF Settle
<1>2. [replier[f] EXCEPT !.at = "sweep"] =
        [at |-> "sweep", req |-> replier[f].req, reply |-> replier[f].reply,
         seen |-> replier[f].seen, stale |-> replier[f].stale]
  BY <1>1 DEF Replying
<1>3. [replier[f] EXCEPT !.at = "sweep"] \in Replying
  BY <1>1 DEF Replying
<1> QED
  BY <1>1, <1>2, <1>3 DEF PermissionTypeOK, Settle

LEMMA SweepOneEffect ==
  ASSUME PermissionTypeOK, NEW f \in Repliers, NEW i \in Requests, SweepOne(f, i)
  PROVE  /\ replier' \in [Repliers -> {NoReply} \cup Replying \cup SettlingOther]
         /\ replier[f] \in Replying
         /\ replier'[f] = [at |-> "settleOther", req |-> replier[f].req,
                           reply |-> replier[f].reply, seen |-> replier[f].seen \cup {i},
                           stale |-> replier[f].stale, item |-> i]
         /\ \A g \in Repliers \ {f} : replier'[g] = replier[g]
<1>1. replier[f] \in Replying
  BY Shapes DEF SweepOne
<1>2. [at |-> "settleOther", req |-> replier[f].req, reply |-> replier[f].reply,
       seen |-> replier[f].seen \cup {i}, stale |-> replier[f].stale, item |-> i]
        \in SettlingOther
  BY <1>1 DEF Replying, SettlingOther
<1> QED
  BY <1>1, <1>2 DEF PermissionTypeOK, SweepOne

LEMMA SweepPastEffect ==
  ASSUME PermissionTypeOK, NEW f \in Repliers, NEW i \in Requests, SweepPast(f, i)
  PROVE  /\ replier' \in [Repliers -> {NoReply} \cup Replying \cup SettlingOther]
         /\ replier[f] \in Replying
         /\ replier'[f] = [at |-> "sweep", req |-> replier[f].req, reply |-> replier[f].reply,
                           seen |-> replier[f].seen \cup {i}, stale |-> replier[f].stale]
         /\ \A g \in Repliers \ {f} : replier'[g] = replier[g]
<1>1. replier[f] \in Replying /\ replier[f].at = "sweep"
  BY Shapes DEF SweepPast
<1>2. [replier[f] EXCEPT !.seen = replier[f].seen \cup {i}] =
        [at |-> "sweep", req |-> replier[f].req, reply |-> replier[f].reply,
         seen |-> replier[f].seen \cup {i}, stale |-> replier[f].stale]
  BY <1>1 DEF Replying
<1>3. [at |-> "sweep", req |-> replier[f].req, reply |-> replier[f].reply,
       seen |-> replier[f].seen \cup {i}, stale |-> replier[f].stale] \in Replying
  BY <1>1 DEF Replying
<1>4. replier' = [replier EXCEPT ![f] = [replier[f] EXCEPT !.seen = replier[f].seen \cup {i}]]
  BY DEF SweepPast
<1> QED
  BY <1>1, <1>2, <1>3, <1>4 DEF PermissionTypeOK

LEMMA SettleOtherEffect ==
  ASSUME PermissionTypeOK, NEW f \in Repliers, SettleOther(f)
  PROVE  /\ replier' \in [Repliers -> {NoReply} \cup Replying \cup SettlingOther]
         /\ replier[f] \in SettlingOther
         /\ replier'[f] = [at |-> "sweep", req |-> replier[f].req, reply |-> replier[f].reply,
                           seen |-> replier[f].seen, stale |-> replier[f].stale]
         /\ \A g \in Repliers \ {f} : replier'[g] = replier[g]
<1>1. replier[f] \in SettlingOther
  BY Shapes DEF SettleOther
<1>2. [at |-> "sweep", req |-> replier[f].req, reply |-> replier[f].reply,
       seen |-> replier[f].seen, stale |-> replier[f].stale] \in Replying
  BY <1>1 DEF Replying, SettlingOther
<1> QED
  BY <1>1, <1>2 DEF PermissionTypeOK, SettleOther

LEMMA SweepEndEffect ==
  ASSUME PermissionTypeOK, NEW f \in Repliers, SweepEnd(f)
  PROVE  /\ replier' \in [Repliers -> {NoReply} \cup Replying \cup SettlingOther]
         /\ replier'[f] = NoReply
         /\ \A g \in Repliers \ {f} : replier'[g] = replier[g]
BY DEF PermissionTypeOK, SweepEnd

\* A reply that outlives its instance stays where it is.
LEMMA DisposeEffect ==
  ASSUME PermissionTypeOK, Dispose
  PROVE  /\ replier' \in [Repliers -> {NoReply} \cup Replying \cup SettlingOther]
         /\ \A g \in Repliers :
              /\ replier[g] = NoReply => replier'[g] = NoReply
              /\ replier[g] # NoReply =>
                   /\ replier'[g].at = replier[g].at /\ replier'[g].req = replier[g].req
                   /\ replier'[g].reply = replier[g].reply /\ replier'[g].seen = replier[g].seen
              /\ replier[g] \in SettlingOther => replier'[g].item = replier[g].item
<1>1. ASSUME NEW g \in Repliers
      PROVE  /\ replier[g] \in Replying => [replier[g] EXCEPT !.stale = TRUE] \in Replying
             /\ replier[g] \in SettlingOther =>
                  [replier[g] EXCEPT !.stale = TRUE] \in SettlingOther
  BY DEF Replying, SettlingOther
<1>2. ASSUME NEW g \in Repliers
      PROVE  replier'[g] = IF replier[g] = NoReply THEN NoReply
                           ELSE [replier[g] EXCEPT !.stale = TRUE]
  BY DEF Dispose
<1>3. replier' \in [Repliers -> {NoReply} \cup Replying \cup SettlingOther]
  <2>1. ASSUME NEW g \in Repliers
        PROVE  replier'[g] \in {NoReply} \cup Replying \cup SettlingOther
    BY <1>1, <1>2, Shapes
  <2> QED
    BY <2>1 DEF Dispose
<1>4. ASSUME NEW g \in Repliers, replier[g] # NoReply
      PROVE  /\ replier'[g].at = replier[g].at /\ replier'[g].req = replier[g].req
             /\ replier'[g].reply = replier[g].reply /\ replier'[g].seen = replier[g].seen
  <2>1. CASE replier[g] \in Replying
    BY <1>2, <1>4, <2>1 DEF Replying
  <2>2. CASE replier[g] \in SettlingOther
    BY <1>2, <1>4, <2>2 DEF SettlingOther
  <2> QED
    BY <1>4, <2>1, <2>2, Shapes
<1>5. ASSUME NEW g \in Repliers, replier[g] \in SettlingOther
      PROVE  replier'[g].item = replier[g].item
  <2>1. replier[g] # NoReply
    BY <1>5 DEF NoReply, SettlingOther
  <2> QED
    BY <1>2, <1>5, <2>1 DEF SettlingOther
<1> QED
  BY <1>2, <1>3, <1>4, <1>5

-----------------------------------------------------------------------------
(* The inductive invariant *)

\* The pieces of reply that a user's answer to r, the approvals or a rule give.
Agreed(r) ==
  \/ said[r] \in {"once", "always"}
  \/ \A p \in PatternsOf[r] : RuleOf[r][p] = "allow" \/ Matched(Always, p)

\* A request gets at most one reply from a user, and no reply before it is made.
AskedOnce ==
  \A r \in Requests :
    /\ asks[r] = "new" => said[r] = "none" /\ r \notin struck
    /\ said[r] # "none" => r \notin pending

\* What is approved, and whatever has been let through or is about to be, was agreed to.
Grants ==
  /\ approved \subseteq Always
  /\ \A q \in pushed : AlwaysOf[q] \subseteq approved
  /\ \A r \in Requests : deferred[r] = "succeeded" => Agreed(r)
  /\ \A f \in Repliers :
       /\ replier[f].at = "settle" =>
            said[replier[f].req] = replier[f].reply /\ replier[f].seen = {}
       /\ replier[f].at = "settleOther" /\ replier[f].reply # "reject" =>
            Agreed(replier[f].item)

\* What a "reject" has struck, a reply to the same instance has yet to get to.
StrikesOn(f, r) ==
  /\ replier[f].at # "idle" /\ replier[f].reply = "reject"
  /\ \/ replier[f].at = "settle" /\ SessionOf[replier[f].req] = SessionOf[r]
                                /\ replier[f].stale = FALSE
     \/ r \in Unseen(f)
StrikesEnd == \A r \in struck \cap pending : \E f \in Repliers : StrikesOn(f, r)

IInv ==
  PermissionTypeOK /\ WaiterAnswerable /\ AskedOnce /\ Grants /\ NothingUnasked
    /\ StrikesEnd /\ CoveredIsResolved

LEMMA InitInv == Init => IInv
<1> SUFFICES ASSUME Init PROVE IInv
  OBVIOUS
<1>1. PermissionTypeOK
  BY RequestsAssumption DEF Init, PermissionTypeOK, AskStates
<1>2. \A f \in Repliers : replier[f].at = "idle"
  BY DEF Init, NoReply
<1>3. WaiterAnswerable /\ AskedOnce /\ NothingUnasked
  BY DEF Init, WaiterAnswerable, AskedOnce, NothingUnasked
<1>4. Grants
  BY <1>2 DEF Init, Grants, Always
<1>5. StrikesEnd /\ CoveredIsResolved
  BY DEF Init, StrikesEnd, CoveredIsResolved
<1> QED
  BY <1>1, <1>3, <1>4, <1>5 DEF IInv

-----------------------------------------------------------------------------
(* Types *)

LEMMA TypesKept ==
  ASSUME PermissionTypeOK, [Next]_vars
  PROVE  PermissionTypeOK'
<1>1. ASSUME NEW r \in Requests, Deny(r) \/ Allow(r) \/ Ask(r) \/ Asked(r) \/ Answered(r)
      PROVE  PermissionTypeOK'
  BY <1>1 DEF PermissionTypeOK, AskStates, Deny, Allow, Ask, Asked, Answered
<1>2. ASSUME NEW s \in Sessions, Cancel(s)
      PROVE  PermissionTypeOK'
  BY <1>2 DEF PermissionTypeOK, AskStates, Cancel, Interrupted, Interruptible
<1>3. ASSUME NEW f \in Repliers, NEW r \in Requests, NEW v \in Replies, Reply(f, r, v)
      PROVE  PermissionTypeOK'
  <2>1. replier' \in [Repliers -> {NoReply} \cup Replying \cup SettlingOther]
    BY <1>3, ReplyEffect
  <2> QED
    BY <1>3, <2>1 DEF PermissionTypeOK, Reply, Peers
<1>4. ASSUME NEW f \in Repliers, Settle(f)
      PROVE  PermissionTypeOK'
  <2>1. /\ replier' \in [Repliers -> {NoReply} \cup Replying \cup SettlingOther]
        /\ replier[f] \in Replying
    BY <1>4, SettleEffect
  <2>2. replier[f].req \in Requests
    BY <2>1 DEF Replying
  <2>3. approved' \subseteq Patterns /\ pushed' \subseteq Requests
    BY <1>4, <2>2, RequestsAssumption DEF PermissionTypeOK, Settle, Pushes
  <2>4. deferred' \in [Requests -> {"open", "succeeded", "failed"}]
    BY <1>4 DEF PermissionTypeOK, Settle, Settled, Outcome
  <2> QED
    BY <1>4, <2>1, <2>3, <2>4 DEF PermissionTypeOK, Settle
<1>5. ASSUME NEW f \in Repliers, SettleOther(f)
      PROVE  PermissionTypeOK'
  <2>1. replier' \in [Repliers -> {NoReply} \cup Replying \cup SettlingOther]
    BY <1>5, SettleOtherEffect
  <2>2. deferred' \in [Requests -> {"open", "succeeded", "failed"}]
    BY <1>5 DEF PermissionTypeOK, SettleOther, Settled, Outcome
  <2> QED
    BY <1>5, <2>1, <2>2 DEF PermissionTypeOK, SettleOther
<1>6. ASSUME NEW f \in Repliers, NEW i \in Requests, SweepOne(f, i)
      PROVE  PermissionTypeOK'
  <2>1. replier' \in [Repliers -> {NoReply} \cup Replying \cup SettlingOther]
    BY <1>6, SweepOneEffect
  <2> QED
    BY <1>6, <2>1 DEF PermissionTypeOK, SweepOne
<1>7. ASSUME NEW f \in Repliers, NEW i \in Requests, SweepPast(f, i)
      PROVE  PermissionTypeOK'
  <2>1. replier' \in [Repliers -> {NoReply} \cup Replying \cup SettlingOther]
    BY <1>7, SweepPastEffect
  <2> QED
    BY <1>7, <2>1 DEF PermissionTypeOK, SweepPast
<1>8. ASSUME NEW f \in Repliers, SweepEnd(f)
      PROVE  PermissionTypeOK'
  <2>1. replier' \in [Repliers -> {NoReply} \cup Replying \cup SettlingOther]
    BY <1>8, SweepEndEffect
  <2> QED
    BY <1>8, <2>1 DEF PermissionTypeOK, SweepEnd
<1>9. CASE Dispose
  <2>1. replier' \in [Repliers -> {NoReply} \cup Replying \cup SettlingOther]
    BY <1>9, DisposeEffect
  <2> QED
    BY <1>9, <2>1, RequestsAssumption DEF PermissionTypeOK, Dispose, Rejected
<1>10. CASE UNCHANGED vars
  BY <1>10 DEF PermissionTypeOK, vars
<1> QED
  BY <1>1, <1>2, <1>3, <1>4, <1>5, <1>6, <1>7, <1>8, <1>9, <1>10 DEF Next

-----------------------------------------------------------------------------
(* Waiters *)

\* What Settled does, request by request.
LEMMA SettledAt ==
  ASSUME PermissionTypeOK, NEW r, NEW v, NEW q \in Requests
  PROVE  /\ q # r => Settled(r, v)[q] = deferred[q]
         /\ q = r => Settled(r, v)[q] # "open"
         /\ Settled(r, v)[q] = "succeeded" =>
              deferred[q] = "succeeded" \/ (q = r /\ v # "reject")
BY DEF PermissionTypeOK, Settled, Outcome

LEMMA AnswerableKept ==
  ASSUME PermissionTypeOK, WaiterAnswerable, [Next]_vars
  PROVE  WaiterAnswerable'
<1> SUFFICES ASSUME NEW q \in Requests, asks'[q] \in {"asking", "waiting"}, deferred'[q] = "open"
             PROVE  q \in pending' \/ \E g \in Repliers : Settles(g, q)'
  BY DEF WaiterAnswerable
<1>a. asks[q] \in {"asking", "waiting"} /\ deferred[q] = "open" =>
        q \in pending \/ \E g \in Repliers : Settles(g, q)
  BY DEF WaiterAnswerable
<1>1. ASSUME NEW r \in Requests, Deny(r) \/ Allow(r) \/ Ask(r) \/ Asked(r) \/ Answered(r)
      PROVE  q \in pending' \/ \E g \in Repliers : Settles(g, q)'
  <2>1. replier' = replier /\ deferred' = deferred
    BY <1>1 DEF Deny, Allow, Ask, Asked, Answered
  <2>2. q \in pending' \/ (asks[q] \in {"asking", "waiting"} /\ (q \in pending => q \in pending'))
    BY <1>1 DEF PermissionTypeOK, AskStates, Deny, Allow, Ask, Asked, Answered
  <2> QED
    BY <1>a, <2>1, <2>2 DEF Settles
<1>2. ASSUME NEW s \in Sessions, Cancel(s)
      PROVE  q \in pending' \/ \E g \in Repliers : Settles(g, q)'
  BY <1>2, <1>a DEF PermissionTypeOK, Cancel, Interrupted, Interruptible, Settles
<1>3. ASSUME NEW f \in Repliers, NEW r \in Requests, NEW v \in Replies, Reply(f, r, v)
      PROVE  q \in pending' \/ \E g \in Repliers : Settles(g, q)'
  <2>0. /\ replier'[f] = [at |-> "settle", req |-> r, reply |-> v, seen |-> {}, stale |-> FALSE]
        /\ \A g \in Repliers \ {f} : replier'[g] = replier[g]
    BY <1>3, ReplyEffect
  <2>1. /\ replier'[f].at = "settle" /\ replier'[f].req = r
        /\ \A g \in Repliers \ {f} : replier'[g] = replier[g]
    BY <2>0
  <2>2. \A x : ~Settles(f, x)
    BY <1>3 DEF Reply, Settles, NoReply
  <2>3. asks' = asks /\ deferred' = deferred /\ pending' = pending \ {r}
    BY <1>3 DEF Reply
  <2> QED
    BY <1>a, <2>1, <2>2, <2>3 DEF Settles
<1>4. ASSUME NEW f \in Repliers, Settle(f)
      PROVE  q \in pending' \/ \E g \in Repliers : Settles(g, q)'
  <2>1. \A g \in Repliers \ {f} : replier'[g] = replier[g]
    BY <1>4, SettleEffect
  <2>2. /\ replier[f].at = "settle" /\ asks' = asks /\ pending' = pending
        /\ deferred' = Settled(replier[f].req, replier[f].reply)
    BY <1>4 DEF Settle
  <2>3. q # replier[f].req /\ deferred[q] = "open"
    BY <2>2, SettledAt
  <2> QED
    BY <1>a, <2>1, <2>2, <2>3 DEF Settles
<1>5. ASSUME NEW f \in Repliers, SettleOther(f)
      PROVE  q \in pending' \/ \E g \in Repliers : Settles(g, q)'
  <2>1. \A g \in Repliers \ {f} : replier'[g] = replier[g]
    BY <1>5, SettleOtherEffect
  <2>2. /\ replier[f].at = "settleOther" /\ asks' = asks /\ pending' = pending
        /\ deferred' = Settled(replier[f].item, replier[f].reply)
    BY <1>5 DEF SettleOther
  <2>3. q # replier[f].item /\ deferred[q] = "open"
    BY <2>2, SettledAt
  <2> QED
    BY <1>a, <2>1, <2>2, <2>3 DEF Settles
<1>6. ASSUME NEW f \in Repliers, NEW i \in Requests, SweepOne(f, i)
      PROVE  q \in pending' \/ \E g \in Repliers : Settles(g, q)'
  <2>0. /\ replier'[f] = [at |-> "settleOther", req |-> replier[f].req,
                          reply |-> replier[f].reply, seen |-> replier[f].seen \cup {i},
                          stale |-> replier[f].stale, item |-> i]
        /\ \A g \in Repliers \ {f} : replier'[g] = replier[g]
    BY <1>6, SweepOneEffect
  <2>1. /\ replier'[f].at = "settleOther" /\ replier'[f].item = i
        /\ \A g \in Repliers \ {f} : replier'[g] = replier[g]
    BY <2>0
  <2>2. /\ replier[f].at = "sweep"
        /\ asks' = asks /\ deferred' = deferred /\ pending' = pending \ {i}
    BY <1>6 DEF SweepOne
  <2>3. Settles(f, i)' /\ ~Settles(f, q)
    BY <2>1, <2>2 DEF Settles
  <2>4. \A g \in Repliers \ {f} : Settles(g, q) => Settles(g, q)'
    BY <2>1 DEF Settles
  <2> QED
    BY <1>a, <2>2, <2>3, <2>4
<1>7. ASSUME NEW f \in Repliers, NEW i \in Requests, SweepPast(f, i) \/ SweepEnd(f)
      PROVE  q \in pending' \/ \E g \in Repliers : Settles(g, q)'
  <2>1. \A g \in Repliers \ {f} : replier'[g] = replier[g]
    BY <1>7, SweepPastEffect, SweepEndEffect
  <2>2. /\ replier[f].at = "sweep"
        /\ asks' = asks /\ deferred' = deferred /\ pending' = pending
    BY <1>7 DEF SweepPast, SweepEnd
  <2> QED
    BY <1>a, <2>1, <2>2 DEF Settles
<1>8. CASE Dispose
  <2>1. ASSUME NEW g \in Repliers, Settles(g, q)
        PROVE  Settles(g, q)'
    <3>1. replier[g] # NoReply
      BY <2>1 DEF Settles, NoReply
    <3>2. /\ replier'[g].at = replier[g].at /\ replier'[g].req = replier[g].req
          /\ replier[g] \in SettlingOther => replier'[g].item = replier[g].item
      BY <1>8, <3>1, DisposeEffect
    <3> QED
      BY <2>1, <3>2, Shapes DEF Settles
  <2>2. asks' = asks /\ deferred[q] = "open" /\ q \notin pending
    BY <1>8 DEF PermissionTypeOK, Dispose, Rejected
  <2> QED
    BY <1>a, <2>1, <2>2
<1>9. CASE UNCHANGED vars
  BY <1>9, <1>a DEF vars, Settles
<1> QED
  BY <1>1, <1>2, <1>3, <1>4, <1>5, <1>6, <1>7, <1>8, <1>9 DEF Next

-----------------------------------------------------------------------------
(* What is let through *)

\* A request is pending at most once, and gets at most one reply from a user.
LEMMA AskedOnceKept ==
  ASSUME PermissionTypeOK, AskedOnce, [Next]_vars
  PROVE  AskedOnce'
<1>1. ASSUME NEW r \in Requests, Deny(r) \/ Allow(r) \/ Ask(r) \/ Asked(r) \/ Answered(r)
      PROVE  AskedOnce'
  BY <1>1 DEF PermissionTypeOK, AskedOnce, Deny, Allow, Ask, Asked, Answered
<1>2. ASSUME NEW s \in Sessions, Cancel(s)
      PROVE  AskedOnce'
  BY <1>2 DEF PermissionTypeOK, AskedOnce, Cancel, Interrupted, Interruptible
<1>3. ASSUME NEW f \in Repliers, NEW r \in Requests, NEW v \in Replies, Reply(f, r, v)
      PROVE  AskedOnce'
  BY <1>3 DEF PermissionTypeOK, AskedOnce, Reply, Peers
<1>4. ASSUME NEW f \in Repliers, Settle(f) \/ SettleOther(f) \/ SweepEnd(f)
      PROVE  AskedOnce'
  BY <1>4 DEF AskedOnce, Settle, SettleOther, SweepEnd
<1>5. ASSUME NEW f \in Repliers, NEW i \in Requests, SweepOne(f, i) \/ SweepPast(f, i)
      PROVE  AskedOnce'
  BY <1>5 DEF AskedOnce, SweepOne, SweepPast
<1>6. CASE Dispose \/ UNCHANGED vars
  BY <1>6 DEF AskedOnce, Dispose, vars
<1> QED
  BY <1>1, <1>2, <1>3, <1>4, <1>5, <1>6 DEF Next

\* What was agreed to stays so: no reply of a user is taken back.
LEMMA AgreedStays ==
  ASSUME PermissionTypeOK, AskedOnce, [Next]_vars
  PROVE  /\ Always \subseteq Always'
         /\ \A r \in Requests : Agreed(r) => Agreed(r)'
<1>1. \A r \in Requests : said[r] # "none" => said'[r] = said[r]
  <2>1. ASSUME NEW f \in Repliers, NEW r \in Requests, NEW v \in Replies, Reply(f, r, v)
        PROVE  \A q \in Requests : said[q] # "none" => said'[q] = said[q]
    BY <2>1 DEF PermissionTypeOK, AskedOnce, Reply
  <2>2. (\A f \in Repliers, r \in Requests, v \in Replies : ~Reply(f, r, v)) => said' = said
    BY DEF Next, Deny, Allow, Ask, Asked, Answered, Cancel, Settle, SettleOther, SweepOne,
           SweepPast, SweepEnd, Dispose, vars
  <2> QED
    BY <2>1, <2>2
<1>2. Always \subseteq Always'
  BY <1>1 DEF Always
<1>3. ASSUME NEW r \in Requests, NEW p, Matched(Always, p)
      PROVE  Matched(Always', p)
  BY <1>2, <1>3 DEF Matched
<1>4. ASSUME NEW r \in Requests, Agreed(r)
      PROVE  Agreed(r)'
  BY <1>1, <1>3, <1>4 DEF Agreed
<1> QED
  BY <1>2, <1>4

\* The approvals grow by what a user said "always" to, and are forgotten with the instance.
LEMMA ApprovalsKept ==
  ASSUME PermissionTypeOK, AskedOnce, Grants, [Next]_vars
  PROVE  /\ approved' \subseteq Always'
         /\ \A q \in pushed' : AlwaysOf[q] \subseteq approved'
<1>1. Always \subseteq Always'
  BY AgreedStays
<1>2. CASE UNCHANGED <<approved, pushed>>
  BY <1>1, <1>2 DEF Grants
<1>3. ASSUME NEW f \in Repliers, Settle(f)
      PROVE  /\ approved' \subseteq Always'
             /\ \A q \in pushed' : AlwaysOf[q] \subseteq approved'
  <2>1. CASE UNCHANGED <<approved, pushed>>
    BY <1>2, <2>1
  <2>2. CASE /\ replier[f].reply = "always"
             /\ approved' = approved \cup AlwaysOf[replier[f].req]
             /\ pushed' = pushed \cup {replier[f].req}
    <3>1. said[replier[f].req] = "always" /\ replier[f].req \in Requests
      BY <1>3, <2>2, SettleEffect DEF Grants, Settle, Replying
    <3>2. AlwaysOf[replier[f].req] \subseteq Always
      BY <3>1 DEF Always
    <3> QED
      BY <1>1, <2>2, <3>2 DEF Grants
  <2> QED
    BY <1>3, <2>1, <2>2 DEF Settle, Pushes
<1>4. CASE Dispose
  BY <1>4 DEF Dispose, Always
<1> QED
  BY <1>2, <1>3, <1>4
  DEF Next, Deny, Allow, Ask, Asked, Answered, Cancel, Reply, SettleOther, SweepOne, SweepPast,
      SweepEnd, vars

\* A deferred succeeds only for what was agreed to.
LEMMA SucceededKept ==
  ASSUME PermissionTypeOK, AskedOnce, Grants, [Next]_vars,
         NEW r \in Requests, deferred'[r] = "succeeded"
  PROVE  Agreed(r)'
<1>1. Agreed(r) => Agreed(r)'
  BY AgreedStays
<1>2. CASE deferred[r] = "succeeded"
  BY <1>1, <1>2 DEF Grants
<1>3. ASSUME NEW f \in Repliers, Settle(f)
      PROVE  Agreed(r)'
  <2>1. /\ replier[f].at = "settle" /\ said[replier[f].req] = replier[f].reply
        /\ deferred' = Settled(replier[f].req, replier[f].reply)
    BY <1>3 DEF Settle, Grants
  <2>2. replier[f].reply \in Replies
    BY <1>3, SettleEffect DEF Replying
  <2>3. CASE r = replier[f].req /\ replier[f].reply # "reject"
    BY <1>1, <2>1, <2>2, <2>3 DEF Agreed, Replies
  <2> QED
    BY <1>2, <2>1, <2>3, SettledAt
<1>4. ASSUME NEW f \in Repliers, SettleOther(f)
      PROVE  Agreed(r)'
  <2>1. /\ replier[f].at = "settleOther"
        /\ deferred' = Settled(replier[f].item, replier[f].reply)
    BY <1>4 DEF SettleOther
  <2>2. CASE r = replier[f].item /\ replier[f].reply # "reject"
    BY <1>1, <2>1, <2>2 DEF Grants
  <2> QED
    BY <1>2, <2>1, <2>2, SettledAt
<1>5. CASE Dispose
  BY <1>2, <1>5 DEF PermissionTypeOK, Dispose, Rejected
<1> QED
  BY <1>2, <1>3, <1>4, <1>5
  DEF Next, Deny, Allow, Ask, Asked, Answered, Cancel, Reply, SweepOne, SweepPast, SweepEnd, vars

\* A reply settles its own request with what its user said, and others with a success
\* only if the approvals cover them.
Settling(f) ==
  /\ replier[f].at = "settle" =>
       said[replier[f].req] = replier[f].reply /\ replier[f].seen = {}
  /\ replier[f].at = "settleOther" /\ replier[f].reply # "reject" => Agreed(replier[f].item)

LEMMA SettlingStays ==
  ASSUME PermissionTypeOK, AskedOnce, Grants, [Next]_vars, NEW g \in Repliers,
         replier'[g] = replier[g]
  PROVE  Settling(g)'
<1>1. CASE replier[g].at = "settle"
  <2>1. replier[g].req \in Requests /\ replier[g].reply \in Replies
    BY <1>1, Shapes DEF Replying
  <2>2. said[replier[g].req] = replier[g].reply /\ replier[g].seen = {}
    BY <1>1 DEF Grants
  <2>3. said'[replier[g].req] = replier[g].reply
    <3>1. ASSUME NEW f \in Repliers, NEW r \in Requests, NEW v \in Replies, Reply(f, r, v)
          PROVE  said'[replier[g].req] = replier[g].reply
      <4>1. said[replier[g].req] # "none"
        BY <2>1, <2>2 DEF Replies
      <4> QED
        BY <2>1, <2>2, <3>1, <4>1 DEF PermissionTypeOK, AskedOnce, Reply
    <3>2. (\A f \in Repliers, r \in Requests, v \in Replies : ~Reply(f, r, v)) => said' = said
      BY DEF Next, Deny, Allow, Ask, Asked, Answered, Cancel, Settle, SettleOther, SweepOne,
             SweepPast, SweepEnd, Dispose, vars
    <3> QED
      BY <2>2, <3>1, <3>2
  <2> QED
    BY <1>1, <2>2, <2>3 DEF Settling
<1>2. CASE replier[g].at = "settleOther" /\ replier[g].reply # "reject"
  <2>1. replier[g].item \in Requests
    BY <1>2, Shapes DEF SettlingOther
  <2>2. Agreed(replier[g].item)
    BY <1>2 DEF Grants
  <2>3. Agreed(replier[g].item)'
    BY <2>1, <2>2, AgreedStays
  <2> QED
    BY <1>2, <2>3 DEF Settling
<1> QED
  BY <1>1, <1>2 DEF Settling

LEMMA SettlingKept ==
  ASSUME PermissionTypeOK, AskedOnce, Grants, [Next]_vars, NEW g \in Repliers
  PROVE  Settling(g)'
<1>0. CASE replier'[g] = replier[g]
  BY <1>0, SettlingStays
<1>1. CASE replier'[g].at \in {"idle", "sweep"}
  BY <1>1 DEF Settling
<1>2. ASSUME NEW f \in Repliers, NEW r \in Requests, NEW v \in Replies, Reply(f, r, v)
      PROVE  Settling(g)'
  <2>1. CASE g = f
    <3>1. replier'[g] = [at |-> "settle", req |-> r, reply |-> v, seen |-> {}, stale |-> FALSE]
      BY <1>2, <2>1, ReplyEffect
    <3>2. said'[r] = v
      BY <1>2 DEF PermissionTypeOK, Reply
    <3> QED
      BY <3>1, <3>2 DEF Settling
  <2> QED
    BY <1>0, <1>2, <2>1, ReplyEffect
<1>3. ASSUME NEW f \in Repliers, Settle(f)
      PROVE  Settling(g)'
  <2>1. CASE g = f
    <3>1. \/ replier'[g] = NoReply
          \/ replier'[g] = [at |-> "sweep", req |-> replier[f].req, reply |-> replier[f].reply,
                            seen |-> replier[f].seen, stale |-> replier[f].stale]
      BY <1>3, <2>1, SettleEffect
    <3> QED
      BY <1>1, <3>1 DEF NoReply
  <2> QED
    BY <1>0, <1>3, <2>1, SettleEffect
<1>4. ASSUME NEW f \in Repliers, SettleOther(f)
      PROVE  Settling(g)'
  <2>1. CASE g = f
    <3>1. replier'[g] = [at |-> "sweep", req |-> replier[f].req, reply |-> replier[f].reply,
                         seen |-> replier[f].seen, stale |-> replier[f].stale]
      BY <1>4, <2>1, SettleOtherEffect
    <3> QED
      BY <1>1, <3>1
  <2> QED
    BY <1>0, <1>4, <2>1, SettleOtherEffect
<1>5. ASSUME NEW f \in Repliers, NEW i \in Requests, SweepOne(f, i)
      PROVE  Settling(g)'
  <2>1. CASE g = f
    <3>1. replier'[g] = [at |-> "settleOther", req |-> replier[f].req,
                         reply |-> replier[f].reply, seen |-> replier[f].seen \cup {i},
                         stale |-> replier[f].stale, item |-> i]
      BY <1>5, <2>1, SweepOneEffect
    <3>2. replier[f].reply # "reject" => Agreed(i)
      <4>1. ASSUME NEW p, Matched(approved, p)
            PROVE  Matched(Always, p)
        BY <4>1 DEF Matched, Grants
      <4> QED
        BY <1>5, <4>1 DEF SweepOne, Swept, Agreed
    <3>3. Agreed(i) => Agreed(i)'
      BY AgreedStays
    <3> QED
      BY <3>1, <3>2, <3>3 DEF Settling
  <2> QED
    BY <1>0, <1>5, <2>1, SweepOneEffect
<1>6. ASSUME NEW f \in Repliers, NEW i \in Requests, SweepPast(f, i)
      PROVE  Settling(g)'
  <2>1. CASE g = f
    <3>1. replier'[g] = [at |-> "sweep", req |-> replier[f].req, reply |-> replier[f].reply,
                         seen |-> replier[f].seen \cup {i}, stale |-> replier[f].stale]
      BY <1>6, <2>1, SweepPastEffect
    <3> QED
      BY <1>1, <3>1
  <2> QED
    BY <1>0, <1>6, <2>1, SweepPastEffect
<1>7. ASSUME NEW f \in Repliers, SweepEnd(f)
      PROVE  Settling(g)'
  BY <1>0, <1>1, <1>7, SweepEndEffect DEF NoReply
<1>8. CASE Dispose
  <2>1. CASE replier[g] = NoReply
    BY <1>1, <1>8, <2>1, DisposeEffect DEF NoReply
  <2>2. CASE replier[g] \in Replying
    <3>1. /\ replier'[g].at = replier[g].at /\ replier'[g].req = replier[g].req
          /\ replier'[g].reply = replier[g].reply /\ replier'[g].seen = replier[g].seen
      BY <1>8, <2>2, DisposeEffect DEF Replying, NoReply
    <3>2. said' = said /\ replier[g].at # "settleOther"
      BY <1>8, <2>2 DEF Dispose, Replying
    <3> QED
      BY <3>1, <3>2 DEF Grants, Settling
  <2>3. CASE replier[g] \in SettlingOther
    <3>1. /\ replier'[g].at = replier[g].at
          /\ replier'[g].reply = replier[g].reply /\ replier'[g].item = replier[g].item
      BY <1>8, <2>3, DisposeEffect DEF SettlingOther, NoReply
    <3>2. replier[g].at # "settle" /\ replier[g].at = "settleOther" /\ replier[g].item \in Requests
      BY <2>3 DEF SettlingOther
    <3>3. replier[g].reply # "reject" => Agreed(replier[g].item)
      BY <3>2 DEF Grants
    <3>4. PICK i : i = replier[g].item
      OBVIOUS
    <3>5. Agreed(i) => Agreed(i)'
      BY <3>2, <3>4, AgreedStays
    <3> QED
      BY <3>1, <3>2, <3>3, <3>4, <3>5 DEF Settling
  <2> QED
    BY <2>1, <2>2, <2>3, Shapes
<1> QED
  BY <1>0, <1>2, <1>3, <1>4, <1>5, <1>6, <1>7, <1>8
  DEF Next, Deny, Allow, Ask, Asked, Answered, Cancel, vars

LEMMA GrantsKept ==
  ASSUME PermissionTypeOK, AskedOnce, Grants, [Next]_vars
  PROVE  Grants'
<1>1. /\ approved' \subseteq Always'
      /\ \A q \in pushed' : AlwaysOf[q] \subseteq approved'
  BY ApprovalsKept
<1>2. \A r \in Requests : deferred'[r] = "succeeded" => Agreed(r)'
  BY SucceededKept
<1>3. \A f \in Repliers : Settling(f)'
  BY SettlingKept
<1> QED
  BY <1>1, <1>2, <1>3 DEF Grants, Settling

LEMMA NothingUnaskedKept ==
  ASSUME PermissionTypeOK, AskedOnce, Grants, NothingUnasked, [Next]_vars
  PROVE  NothingUnasked'
<1> SUFFICES ASSUME NEW r \in Requests, asks'[r] = "allowed"
             PROVE  Agreed(r)'
  BY DEF NothingUnasked, Agreed
<1>0. Agreed(r) => Agreed(r)'
  BY AgreedStays
<1>1. CASE asks[r] = "allowed"
  BY <1>0, <1>1 DEF NothingUnasked, Agreed
<1>2. CASE Allow(r)
  <2>1. ASSUME NEW p \in PatternsOf[r]
        PROVE  RuleOf[r][p] = "allow" \/ Matched(Always, p)
    <3>1. Matched(approved, p) => Matched(Always, p)
      BY DEF Matched, Grants
    <3> QED
      BY <1>2, <3>1 DEF Allow, Verdicts, Evaluate
  <2> QED
    BY <1>0, <2>1 DEF Agreed
<1>3. CASE Answered(r)
  <2>1. deferred[r] = "succeeded"
    BY <1>3 DEF PermissionTypeOK, Answered
  <2> QED
    BY <1>0, <2>1 DEF Grants
<1>4. asks[r] = "allowed" \/ Allow(r) \/ Answered(r)
  <2>1. ASSUME NEW q \in Requests, Deny(q) \/ Allow(q) \/ Ask(q) \/ Asked(q) \/ Answered(q)
        PROVE  asks[r] = "allowed" \/ Allow(r) \/ Answered(r)
    BY <2>1 DEF PermissionTypeOK, AskStates, Deny, Allow, Ask, Asked, Answered
  <2>2. ASSUME NEW s \in Sessions, Cancel(s)
        PROVE  asks[r] = "allowed"
    BY <2>2 DEF PermissionTypeOK, Cancel, Interrupted, Interruptible
  <2> QED
    BY <2>1, <2>2 DEF Next, Reply, Settle, SettleOther, SweepOne, SweepPast, SweepEnd, Dispose, vars
<1> QED
  BY <1>1, <1>2, <1>3, <1>4

-----------------------------------------------------------------------------
(* What a reply does to the rest of its session *)

\* What a sweep has yet to look at.
LEMMA UnseenIs ==
  ASSUME PermissionTypeOK, NEW g \in Repliers, replier[g] # NoReply, NEW r \in pending
  PROVE  r \in Unseen(g) <=> /\ replier[g].stale = FALSE
                             /\ SessionOf[r] = SessionOf[replier[g].req]
                             /\ r \notin replier[g].seen
<1>1. replier[g].stale \in BOOLEAN
  BY Shapes DEF Replying, SettlingOther
<1> QED
  BY <1>1 DEF Unseen, Peers

\* A reply that takes no step keeps what it has yet to look at, as long as that is pending.
LEMMA UnseenStays ==
  ASSUME NEW g \in Repliers, replier'[g] = replier[g], NEW r \in pending', r \in Unseen(g)
  PROVE  r \in Unseen(g)'
BY DEF Unseen, Peers

\* A sweep goes past a request only to take it out, or because the approvals do not cover it.
LEMMA UnseenSwept ==
  ASSUME PermissionTypeOK, NEW f \in Repliers, NEW i \in Requests,
         SweepOne(f, i) \/ SweepPast(f, i), NEW r \in pending', r \in Unseen(f), r # i
  PROVE  /\ r \in Unseen(f)'
         /\ replier'[f].at # "idle" /\ replier'[f].reply = replier[f].reply
<1>1. replier[f] \in Replying
  BY SweepOneEffect, SweepPastEffect
<1>2. /\ replier'[f].req = replier[f].req /\ replier'[f].reply = replier[f].reply
      /\ replier'[f].seen = replier[f].seen \cup {i} /\ replier'[f].stale = replier[f].stale
      /\ replier'[f].at # "idle"
  <2>1. CASE SweepOne(f, i)
    <3>1. replier'[f] = [at |-> "settleOther", req |-> replier[f].req,
                         reply |-> replier[f].reply, seen |-> replier[f].seen \cup {i},
                         stale |-> replier[f].stale, item |-> i]
      BY <2>1, SweepOneEffect
    <3> QED
      BY <3>1
  <2>2. CASE SweepPast(f, i)
    <3>1. replier'[f] = [at |-> "sweep", req |-> replier[f].req, reply |-> replier[f].reply,
                         seen |-> replier[f].seen \cup {i}, stale |-> replier[f].stale]
      BY <2>2, SweepPastEffect
    <3> QED
      BY <3>1
  <2> QED
    BY <2>1, <2>2
<1> QED
  BY <1>2 DEF Unseen, Peers

\* A reply that settles its own request, or another, has the rest of its sweep before it.
LEMMA UnseenSettled ==
  ASSUME PermissionTypeOK, NEW f \in Repliers, Settle(f) \/ SettleOther(f),
         replier[f].reply # "once" \/ SettleOther(f), NEW r \in pending', r \in Unseen(f)
  PROVE  /\ r \in Unseen(f)'
         /\ replier'[f].at # "idle" /\ replier'[f].reply = replier[f].reply
<1>1. replier'[f] = [at |-> "sweep", req |-> replier[f].req, reply |-> replier[f].reply,
                     seen |-> replier[f].seen, stale |-> replier[f].stale]
  BY SettleEffect, SettleOtherEffect
<1>2. /\ replier'[f].req = replier[f].req /\ replier'[f].reply = replier[f].reply
      /\ replier'[f].seen = replier[f].seen /\ replier'[f].stale = replier[f].stale
      /\ replier'[f].at # "idle"
  BY <1>1
<1> QED
  BY <1>2 DEF Unseen, Peers

\* A request that a "reject" struck stays within reach of a reply until it is taken out.
LEMMA StrikesKept ==
  ASSUME PermissionTypeOK, PermissionTypeOK', AskedOnce, Grants, StrikesEnd, [Next]_vars
  PROVE  StrikesEnd'
<1> SUFFICES ASSUME NEW r \in Requests, r \in struck', r \in pending'
             PROVE  \E g \in Repliers : StrikesOn(g, r)'
  BY DEF StrikesEnd, PermissionTypeOK
<1>0. ASSUME NEW g \in Repliers, StrikesOn(g, r), replier'[g] = replier[g]
      PROVE  StrikesOn(g, r)'
  BY <1>0, UnseenStays DEF StrikesOn
<1>1. ASSUME r \in struck, r \in pending
      PROVE  \E g \in Repliers : StrikesOn(g, r)
  BY <1>1 DEF StrikesEnd
<1>2. ASSUME NEW q \in Requests, Deny(q) \/ Allow(q) \/ Ask(q) \/ Asked(q) \/ Answered(q)
      PROVE  \E g \in Repliers : StrikesOn(g, r)'
  BY <1>2, <1>0, <1>1 DEF AskedOnce, Deny, Allow, Ask, Asked, Answered
<1>3. ASSUME NEW s \in Sessions, Cancel(s)
      PROVE  \E g \in Repliers : StrikesOn(g, r)'
  BY <1>3, <1>0, <1>1 DEF Cancel
<1>4. ASSUME NEW f \in Repliers, NEW q \in Requests, NEW v \in Replies, Reply(f, q, v)
      PROVE  \E g \in Repliers : StrikesOn(g, r)'
  <2>1. replier'[f] = [at |-> "settle", req |-> q, reply |-> v, seen |-> {}, stale |-> FALSE]
    BY <1>4, ReplyEffect
  <2>2. r \in pending
    BY <1>4 DEF Reply
  <2>3. CASE r \in struck
    <3>1. PICK g \in Repliers : StrikesOn(g, r)
      BY <1>1, <2>2, <2>3
    <3>2. g # f
      BY <1>4, <3>1 DEF Reply, StrikesOn, NoReply
    <3> QED
      BY <1>0, <1>4, <3>1, <3>2, ReplyEffect
  <2>4. CASE r \notin struck
    <3>1. v = "reject" /\ SessionOf[r] = SessionOf[q]
      BY <1>4, <2>4 DEF Reply, Peers
    <3>2. StrikesOn(f, r)'
      BY <2>1, <3>1 DEF StrikesOn
    <3> QED
      BY <3>2
  <2> QED
    BY <2>3, <2>4
<1>5. ASSUME NEW f \in Repliers, Settle(f)
      PROVE  \E g \in Repliers : StrikesOn(g, r)'
  <2>1. PICK g \in Repliers : StrikesOn(g, r)
    BY <1>1, <1>5 DEF Settle
  <2>2. CASE g = f
    <3>1. replier[f] # NoReply /\ replier[f].reply = "reject" /\ replier[f].seen = {}
      BY <1>5, <2>1, <2>2 DEF StrikesOn, NoReply, Grants, Settle
    <3>2. r \in pending
      BY <1>5 DEF Settle
    <3>3. r \in Unseen(f)
      BY <2>1, <2>2, <3>1, <3>2, UnseenIs DEF StrikesOn
    <3>4. r \in Unseen(f)' /\ replier'[f].at # "idle" /\ replier'[f].reply = "reject"
      BY <1>5, <3>1, <3>3, UnseenSettled
    <3> QED
      BY <3>4 DEF StrikesOn
  <2> QED
    BY <1>0, <1>5, <2>1, <2>2, SettleEffect
<1>6. ASSUME NEW f \in Repliers, SettleOther(f)
      PROVE  \E g \in Repliers : StrikesOn(g, r)'
  <2>1. PICK g \in Repliers : StrikesOn(g, r)
    BY <1>1, <1>6 DEF SettleOther
  <2>2. CASE g = f
    <3>1. r \in Unseen(f) /\ replier[f].reply = "reject"
      BY <1>6, <2>1, <2>2 DEF StrikesOn, SettleOther
    <3>2. r \in Unseen(f)' /\ replier'[f].at # "idle" /\ replier'[f].reply = "reject"
      BY <1>6, <3>1, UnseenSettled
    <3> QED
      BY <3>2 DEF StrikesOn
  <2> QED
    BY <1>0, <1>6, <2>1, <2>2, SettleOtherEffect
<1>7. ASSUME NEW f \in Repliers, NEW i \in Requests, SweepOne(f, i) \/ SweepPast(f, i)
      PROVE  \E g \in Repliers : StrikesOn(g, r)'
  <2>1. PICK g \in Repliers : StrikesOn(g, r)
    BY <1>1, <1>7 DEF SweepOne, SweepPast
  <2>2. CASE g = f
    <3>1. r \in Unseen(f) /\ replier[f].reply = "reject"
      BY <1>7, <2>1, <2>2 DEF StrikesOn, SweepOne, SweepPast
    <3>2. SweepOne(f, i) /\ r # i
      BY <1>7, <3>1 DEF SweepOne, SweepPast, Swept
    <3>3. r \in Unseen(f)' /\ replier'[f].at # "idle" /\ replier'[f].reply = "reject"
      BY <3>1, <3>2, UnseenSwept
    <3> QED
      BY <3>3 DEF StrikesOn
  <2> QED
    BY <1>0, <1>7, <2>1, <2>2, SweepOneEffect, SweepPastEffect
<1>8. ASSUME NEW f \in Repliers, SweepEnd(f)
      PROVE  \E g \in Repliers : StrikesOn(g, r)'
  <2>1. PICK g \in Repliers : StrikesOn(g, r)
    BY <1>1, <1>8 DEF SweepEnd
  <2>2. g # f
    BY <1>8, <2>1 DEF SweepEnd, StrikesOn
  <2> QED
    BY <1>0, <1>8, <2>1, <2>2, SweepEndEffect
<1>9. CASE Dispose
  BY <1>9 DEF Dispose
<1>10. CASE UNCHANGED vars
  BY <1>0, <1>1, <1>10 DEF vars
<1> QED
  BY <1>2, <1>3, <1>4, <1>5, <1>6, <1>7, <1>8, <1>9, <1>10 DEF Next

\* The approvals of its session cover a request.
Covered(r) == \A p \in PatternsOf[r] : Matched(ApprovedIn(SessionOf[r]), p)

\* A sweep for an "always" has yet to get to it.
Resolves(f, r) ==
  replier[f].at # "idle" /\ replier[f].reply = "always" /\ r \in Unseen(f)

LEMMA CoveredMeans ==
  ASSUME Grants, NEW r \in Requests, Covered(r)
  PROVE  \A p \in PatternsOf[r] : Matched(approved, p)
<1>1. ApprovedIn(SessionOf[r]) \subseteq approved
  BY DEF ApprovedIn, Grants
<1> QED
  BY <1>1 DEF Covered, Matched

LEMMA CoveredKept ==
  ASSUME PermissionTypeOK, PermissionTypeOK', Grants, CoveredIsResolved, [Next]_vars
  PROVE  CoveredIsResolved'
<1> SUFFICES ASSUME NEW r \in Requests, r \in pending', Covered(r)'
             PROVE  \E g \in Repliers : Resolves(g, r)'
  BY DEF CoveredIsResolved, Covered, Resolves, PermissionTypeOK
<1>0. ASSUME NEW g \in Repliers, Resolves(g, r), replier'[g] = replier[g]
      PROVE  Resolves(g, r)'
  BY <1>0, UnseenStays DEF Resolves
<1>1. ASSUME r \in pending, Covered(r)
      PROVE  \E g \in Repliers : Resolves(g, r)
  BY <1>1 DEF CoveredIsResolved, Covered, Resolves
<1>a. pushed' = pushed => Covered(r)
  BY DEF Covered, ApprovedIn
<1>2. ASSUME NEW q \in Requests, Deny(q) \/ Allow(q) \/ Ask(q) \/ Asked(q) \/ Answered(q)
      PROVE  \E g \in Repliers : Resolves(g, r)'
  <2>1. Covered(r) /\ replier' = replier
    BY <1>2, <1>a DEF Deny, Allow, Ask, Asked, Answered
  <2>2. r \in pending
    <3>1. CASE Ask(q) /\ r = q
      <4>1. PICK p \in PatternsOf[r] : Evaluate(r, p) = "ask"
        BY <3>1 DEF Ask, Verdicts
      <4>2. ~Matched(approved, p)
        BY <4>1 DEF Evaluate
      <4> QED
        BY <2>1, <4>2, CoveredMeans
    <3> QED
      BY <1>2, <3>1 DEF Deny, Allow, Ask, Asked, Answered
  <2> QED
    BY <1>0, <1>1, <2>1, <2>2
<1>3. ASSUME NEW s \in Sessions, Cancel(s)
      PROVE  \E g \in Repliers : Resolves(g, r)'
  BY <1>3, <1>0, <1>1, <1>a DEF Cancel
<1>4. ASSUME NEW f \in Repliers, NEW q \in Requests, NEW v \in Replies, Reply(f, q, v)
      PROVE  \E g \in Repliers : Resolves(g, r)'
  <2>1. PICK g \in Repliers : Resolves(g, r)
    BY <1>1, <1>4, <1>a DEF Reply
  <2>2. g # f
    BY <1>4, <2>1 DEF Reply, Resolves, NoReply
  <2> QED
    BY <1>0, <1>4, <2>1, <2>2, ReplyEffect
<1>5. ASSUME NEW f \in Repliers, Settle(f)
      PROVE  \E g \in Repliers : Resolves(g, r)'
  <2>0. r \in pending
    BY <1>5 DEF Settle
  <2>1. CASE Covered(r)
    <3>1. PICK g \in Repliers : Resolves(g, r)
      BY <1>1, <2>0, <2>1
    <3>2. CASE g = f
      BY <1>5, <3>1, <3>2, UnseenSettled DEF Resolves
    <3> QED
      BY <1>0, <1>5, <3>1, <3>2, SettleEffect
  <2>2. CASE ~Covered(r)
    <3>1. /\ replier[f].reply = "always" /\ pushed' = pushed \cup {replier[f].req}
          /\ replier[f].stale = FALSE
      BY <1>5, <1>a, <2>2, SettleEffect DEF Settle, Pushes, Replying
    <3>2. SessionOf[r] = SessionOf[replier[f].req]
      <4>1. CASE SessionOf[r] # SessionOf[replier[f].req]
        <5>1. ApprovedIn(SessionOf[r])' = ApprovedIn(SessionOf[r])
          BY <3>1, <4>1 DEF ApprovedIn
        <5> QED
          BY <2>2, <5>1 DEF Covered
      <4> QED
        BY <4>1
    <3>3. replier[f].seen = {} /\ replier[f] # NoReply
      BY <1>5 DEF Grants, Settle, NoReply
    <3>4. r \in Unseen(f)
      BY <2>0, <3>1, <3>2, <3>3, UnseenIs
    <3>5. r \in Unseen(f)' /\ replier'[f].at # "idle" /\ replier'[f].reply = "always"
      BY <1>5, <3>1, <3>4, UnseenSettled
    <3> QED
      BY <3>5 DEF Resolves
  <2> QED
    BY <2>1, <2>2
<1>6. ASSUME NEW f \in Repliers, SettleOther(f)
      PROVE  \E g \in Repliers : Resolves(g, r)'
  <2>1. PICK g \in Repliers : Resolves(g, r)
    BY <1>1, <1>6, <1>a DEF SettleOther
  <2>2. CASE g = f
    BY <1>6, <2>1, <2>2, UnseenSettled DEF Resolves
  <2> QED
    BY <1>0, <1>6, <2>1, <2>2, SettleOtherEffect
<1>7. ASSUME NEW f \in Repliers, NEW i \in Requests, SweepOne(f, i) \/ SweepPast(f, i)
      PROVE  \E g \in Repliers : Resolves(g, r)'
  <2>1. Covered(r) /\ r \in pending
    BY <1>7, <1>a DEF SweepOne, SweepPast
  <2>2. PICK g \in Repliers : Resolves(g, r)
    BY <1>1, <2>1
  <2>3. CASE g = f
    <3>1. r # i
      <4>1. \A p \in PatternsOf[r] : Matched(approved, p)
        BY <2>1, CoveredMeans
      <4> QED
        BY <1>7, <4>1 DEF SweepOne, SweepPast, Swept
    <3> QED
      BY <1>7, <2>2, <2>3, <3>1, UnseenSwept DEF Resolves
  <2> QED
    BY <1>0, <1>7, <2>2, <2>3, SweepOneEffect, SweepPastEffect
<1>8. ASSUME NEW f \in Repliers, SweepEnd(f)
      PROVE  \E g \in Repliers : Resolves(g, r)'
  <2>1. PICK g \in Repliers : Resolves(g, r)
    BY <1>1, <1>8, <1>a DEF SweepEnd
  <2>2. g # f
    BY <1>8, <2>1 DEF SweepEnd, Resolves
  <2> QED
    BY <1>0, <1>8, <2>1, <2>2, SweepEndEffect
<1>9. CASE Dispose
  BY <1>9 DEF Dispose
<1>10. CASE UNCHANGED vars
  BY <1>0, <1>1, <1>a, <1>10 DEF vars
<1> QED
  BY <1>2, <1>3, <1>4, <1>5, <1>6, <1>7, <1>8, <1>9, <1>10 DEF Next

-----------------------------------------------------------------------------
(* The theorems *)

LEMMA Step == IInv /\ [Next]_vars => IInv'
<1> SUFFICES ASSUME IInv, [Next]_vars PROVE IInv'
  OBVIOUS
<1>1. PermissionTypeOK'
  BY TypesKept DEF IInv
<1>2. WaiterAnswerable'
  BY AnswerableKept DEF IInv
<1>3. AskedOnce' /\ Grants' /\ NothingUnasked'
  BY AskedOnceKept, GrantsKept, NothingUnaskedKept DEF IInv
<1>4. StrikesEnd' /\ CoveredIsResolved'
  BY <1>1, StrikesKept, CoveredKept DEF IInv
<1> QED
  BY <1>1, <1>2, <1>3, <1>4 DEF IInv

LEMMA Invariance == Spec => []IInv
BY InitInv, Step, PTL DEF Spec

\* A pending request is one that is waited for, and each reply is where its fields say.
THEOREM PermissionTypes == Spec => []PermissionTypeOK
<1>1. IInv => PermissionTypeOK
  BY DEF IInv
<1> QED
  BY <1>1, Invariance, PTL

\* Nobody waits for an answer that cannot come.
THEOREM Answerable == Spec => []WaiterAnswerable
<1>1. IInv => WaiterAnswerable
  BY DEF IInv
<1> QED
  BY <1>1, Invariance, PTL

\* A tool goes ahead only with its user's consent, or a rule's.
THEOREM Consent == Spec => []NothingUnasked
<1>1. IInv => NothingUnasked
  BY DEF IInv
<1> QED
  BY <1>1, Invariance, PTL

\* A "reject" gets to every request that it found pending in its session.
THEOREM RejectionSpreads == Spec => []RejectStopsSession
<1>1. StrikesEnd => RejectStopsSession
  BY DEF StrikesEnd, StrikesOn, RejectStopsSession
<1>2. IInv => RejectStopsSession
  BY <1>1 DEF IInv
<1> QED
  BY <1>2, Invariance, PTL

\* An "always" gets to every request of its session that the approvals cover.
THEOREM ApprovalSpreads == Spec => []CoveredIsResolved
<1>1. IInv => CoveredIsResolved
  BY DEF IInv
<1> QED
  BY <1>1, Invariance, PTL

=============================================================================
