---------------------------- MODULE MCPermission ----------------------------
(* Permission for TLC: two tools and the doom loop check of one session ask *)
(* for overlapping patterns, and a tool of another session does.           *)
EXTENDS Permission, TLC

CONSTANTS edit, shell, loop, other, s1, s2, f1, f2, all, src, doc

MCRequests  == {edit, shell, loop, other}
MCSessionOf == [r \in MCRequests |-> IF r = other THEN s2 ELSE s1]
MCPatterns  == {all, src, doc}
MCCovers    == [p \in MCPatterns |-> IF p = all THEN {src, doc} ELSE {p}]
MCPatternsOf == [r \in MCRequests |->
                   CASE r = edit -> {src} [] r = loop -> {doc} [] OTHER -> {src, doc}]
MCAlwaysOf  == [r \in MCRequests |->
                   CASE r = edit -> {src} [] r = shell -> {all} [] OTHER -> {doc}]
\* shell has a rule for doc; the other session is let near it by an approval at most.
MCRuleOf    == [r \in MCRequests |-> [p \in MCPatterns |->
                   CASE r = shell /\ p = doc -> "allow"
                     [] r = other /\ p = doc -> "deny"
                     [] OTHER -> "ask"]]
MCSymmetry  == Permutations({f1, f2})

=============================================================================
