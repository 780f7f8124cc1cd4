------------------------------ MODULE CrudRows ------------------------------
(***************************************************************************)
(* One stored row as the mutations of CrudService see it: which rows a     *)
(* request selects, and what its adapter call makes of the row.  The one   *)
(* field of a row that matters is the one that scopes compare, its tenant. *)
(* A request names an operation, an identity, the tenant that its scopes'  *)
(* predicate selects, what it writes into that field (the mapped input     *)
(* overlaid by the scopes' createValues or updateValues) and whether that  *)
(* goes over the field of a row that is there: an update whose values have *)
(* the field, an upsert whose overwriteFields have it, which they may as   *)
(* long as it is no scope-owned create field.  Nothing in the code ties    *)
(* what is written to what is selected: a create may make a row for        *)
(* another tenant, and an update may move one there.                       *)
(* The soft-delete field is taken to be written by delete and restore      *)
(* only, which leave every other field alone.                              *)
(***************************************************************************)
CONSTANTS
    Requests,   \* mutation requests
    Tenants,    \* values a scope predicate compares rows with
    NoTenant,   \* the field is null
    Ids,        \* identities
    Init0,      \* writer of the rows that were there from the start
    NoRow       \* no row has this identity

Ops == {"create", "update", "upsert", "delete", "restore"}

Owners == Tenants \cup {NoTenant}

Request ==
    {q \in [op : Ops, id : Ids, tenant : Tenants,
            writes : Owners, overwrites : BOOLEAN] :
        /\ q.overwrites => q.op \in {"update", "upsert"}
        /\ q.op \in {"delete", "restore"} => q.writes = NoTenant}

\* `by` is the request that wrote the row last: every write gives a new row.
Row == [tenant : Owners, deleted : BOOLEAN, by : Requests \cup {Init0}]

ASSUME NoRowAssumption == NoRow \notin Row
ASSUME NoTenantAssumption == NoTenant \notin Tenants
ASSUME Init0Assumption == Init0 \notin Requests

\* idPredicate /\ normalRowsPredicate or deletedOnlyPredicate /\ the scopes'
\* predicate: restore selects deleted rows, every other operation live ones.
Matches(q, row) ==
    /\ row # NoRow
    /\ row.tenant = q.tenant
    /\ row.deleted = (q.op = "restore")

\* The rows on which the adapter call of q does something.
Accepts(q, row) ==
    CASE q.op = "create" -> row = NoRow
      [] q.op = "upsert" -> row = NoRow \/ Matches(q, row)
      [] OTHER -> Matches(q, row)

\* The tenant of a row that is written over.
Overwritten(q, row) == IF q.overwrites THEN q.writes ELSE row.tenant

\* What it does.
Written(q, row, r, softDelete) ==
    CASE row = NoRow -> [tenant |-> q.writes, deleted |-> FALSE, by |-> r]
      [] q.op = "delete" /\ ~ softDelete -> NoRow
      [] q.op = "delete" /\ softDelete ->
            [row EXCEPT !.deleted = TRUE, !.by = r]
      [] q.op = "restore" -> [row EXCEPT !.deleted = FALSE, !.by = r]
      [] OTHER -> [row EXCEPT !.tenant = Overwritten(q, row), !.by = r]
=============================================================================
