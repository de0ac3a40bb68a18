----------------------------- MODULE Projection -----------------------------
(***************************************************************************)
(* session/projectors.ts: what the events of one session do to its rows.   *)
(* A view is the session row (its title), one message and one part of that *)
(* message; a row that is not there is None.  The foreign keys cascade     *)
(* from the session to the message to the part.                            *)
(***************************************************************************)
CONSTANTS Values,   \* titles and contents
          None      \* no such row

ASSUME NoneAssumption == None \notin Values

Views == [session : Values \cup {None}, message : Values \cup {None}, part : Values \cup {None}]

NoRows == [session |-> None, message |-> None, part |-> None]

\* The events of a session by what the projectors do with them.
Written == {"created", "updated", "message", "part"}
Erased == {"deleted", "messageRemoved", "partRemoved"}
Data == [kind : Written, value : Values] \cup [kind : Erased, value : {None}]

\* An insert of a row that is there and an update of one that is not throw;
\* everything else succeeds, a late update of a message or part by doing nothing.
Accepts(view, data) ==
  /\ data.kind = "created" => view.session = None
  /\ data.kind = "updated" => view.session # None

Apply(view, data) ==
  CASE data.kind \in {"created", "updated"} -> [view EXCEPT !.session = data.value]
    [] data.kind = "deleted" -> NoRows
    [] data.kind = "message" ->
         IF view.session # None THEN [view EXCEPT !.message = data.value] ELSE view
    [] data.kind = "messageRemoved" -> [view EXCEPT !.message = None, !.part = None]
    [] data.kind = "part" ->
         IF view.message # None THEN [view EXCEPT !.part = data.value] ELSE view
    [] data.kind = "partRemoved" -> [view EXCEPT !.part = None]
=============================================================================
