----------------------------- MODULE RowMutation -----------------------------
(***************************************************************************)
(* What create, update, delete and upsert do to the row of one identity.   *)
(*                                                                         *)
(* A call is [op, predicate, values, fields]: it proposes values, a whole  *)
(* row, of which update and upsert overwrite only the fields named.  Its   *)
(* predicate is the caller's complete condition: path, scope, soft delete, *)
(* version, and the adapter's native row predicate.                        *)
(***************************************************************************)
CONSTANTS
    Rows,               \* what can be stored for the identity, or else Gone
    Gone,
    Selects(_, _)       \* Selects(predicate, row)

Answer(kind, record) == [kind |-> kind, record |-> record]
Pending == Answer("pending", Gone)
Missing == Answer("missing", Gone)
Conflict == Answer("conflict", Gone)
Failed == Answer("failed", Gone)

Overwritten(call, r) ==
    [f \in DOMAIN r |-> IF f \in call.fields THEN call.values[f] ELSE r[f]]
Selected(call, r) == r # Gone /\ Selects(call.predicate, r)
Inserts(call, r) == call.op \in {"create", "upsert"} /\ r = Gone
Overwrites(call, r) == call.op \in {"update", "upsert"} /\ Selected(call, r)
Removes(call, r) == call.op = "delete" /\ Selected(call, r)
Writes(call, r) == Inserts(call, r) \/ Overwrites(call, r) \/ Removes(call, r)

After(call, r) ==
    CASE Inserts(call, r) -> call.values
      [] Overwrites(call, r) -> Overwritten(call, r)
      [] Removes(call, r) -> Gone
      [] OTHER -> r

Outcome(call, r) ==
    CASE Inserts(call, r) \/ Overwrites(call, r) ->
            Answer("written", After(call, r))
      [] Removes(call, r) -> Answer("written", r)
      [] call.op = "create" /\ r # Gone -> Conflict
      [] OTHER -> Missing
==============================================================================
