------------------------ MODULE MCAdapterStatements ------------------------
(***************************************************************************)
(* Rows of two fields, rank and deletedAt.  Some worlds have three clients *)
(* that write the row at once, with the conditions CrudService composes;   *)
(* in the others one client asks with one of many predicates.              *)
(***************************************************************************)
EXTENDS AdapterStatements, SqlPredicates, TLC

Fields == {"rank", "deletedAt"}
MCClients == {"a", "b", "c"}
MCRows == [Fields -> {1, 2, Null}]
MCIncludes == {<<1, 1>>, <<2, 2>>, <<2, 1>>}
MCIncludesInsensitive == MCIncludes \cup {<<1, 2>>}

(***************************************************************************)
(* Predicates                                                              *)
(***************************************************************************)
Lists == {<<>>, <<1>>, <<2, 1>>}
PlainOf(f, values, lists) ==
    {Comparison(f, op, v) : op \in {"eq", "ne"}, v \in values}
    \cup {Comparison(f, op, v) :
            op \in {"gt", "gte", "lt", "lte", "contains", "icontains"},
            v \in {1, 2}}
    \cup {Comparison(f, op, v) : op \in {"in", "nin"}, v \in lists}
    \cup {Comparison(f, "isnull", b) : b \in BOOLEAN}
    \cup {Comparison(f, "between", v) : v \in {<<1, 1>>, <<1, 2>>, <<2, 1>>}}
Ranks(adapter) ==
    IF adapter = "prisma" THEN PlainOf("rank", {1, 2}, Lists)
    ELSE PlainOf("rank", {1, 2, Null}, Lists \cup {<<Null>>, <<1, Null>>})
Deletions == PlainOf("deletedAt", {1, 2, Null}, Lists)
Both(kind, p, q) == [kind |-> kind, predicates |-> <<p, q>>]
Not(p) == [kind |-> "not", predicate |-> p]
NotDeleted == Comparison("deletedAt", "isnull", TRUE)

WithoutNot(ranks) ==
    ranks \cup Deletions
    \cup {[kind |-> kind, predicates |-> <<>>] : kind \in {"and", "or"}}
    \cup {Both(kind, p, NotDeleted) : kind \in {"and", "or"}, p \in ranks}
    \cup {Both("or", p, Comparison("deletedAt", "gt", 1)) : p \in ranks}
Negated(predicates) == predicates \cup {Not(p) : p \in predicates}
Asked(adapter) == Negated(WithoutNot(Ranks(adapter)))

\* What is asked is what CompiledPredicates takes predicates to be.
Nodes == UNION {Asked(adapter) : adapter \in {"selected", "prisma"}}
Depth(p) == CASE p.kind = "comparison" -> 0
              [] p.kind \in {"and", "or"} -> 1
              [] p.kind = "not" -> 2
ASSUME AskedArePredicates == ArePredicates(Nodes, [p \in Nodes |-> Depth(p)])

(***************************************************************************)
(* Rows.  Of the Prisma schema rank is a required column.                  *)
(***************************************************************************)
MCSelects(p, r) == Matches(r, p)

MCNonNullable == {"rank"}
RowsOf(adapter) ==
    IF adapter = "prisma" THEN {r \in MCRows : r["rank"] # Null} ELSE MCRows
Row(rank, deletedAt) ==
    [f \in Fields |-> IF f = "rank" THEN rank ELSE deletedAt]
FewRows == {Row(1, Null), Row(2, Null), Row(1, 1)}

(***************************************************************************)
(* Calls                                                                   *)
(***************************************************************************)
CallOf(op, predicate, values, fields) ==
    [op |-> op, predicate |-> predicate, values |-> values, fields |-> fields]
OfRank(rank) == Both("and", Comparison("rank", "eq", rank), NotDeleted)

New == CallOf("create", NotDeleted, Row(1, Null), {})
Raise == CallOf("update", OfRank(1), Row(2, Null), {"rank"})
SoftDelete == CallOf("update", NotDeleted, Row(1, 1), {"deletedAt"})
SetNothing == CallOf("update", OfRank(1), Row(1, Null), {})
Delete == CallOf("delete", OfRank(1), Row(1, Null), {})
Put == CallOf("upsert", NotDeleted, Row(2, Null), {"rank"})

\* Drizzle refuses to compile an UPDATE that sets nothing.
CallsOf(adapter) ==
    {New, Raise, SoftDelete, Delete}
    \cup (IF adapter = "drizzle" THEN {} ELSE {SetNothing})
    \cup (IF adapter \in {"typeorm", "selected"} THEN {Put} ELSE {})
SingleCalls(adapter) ==
    {CallOf("update", p, Row(2, 2), {"rank"}) : p \in Asked(adapter)}

(***************************************************************************)
(* Worlds                                                                  *)
(***************************************************************************)
Adapters == {"drizzle", "prisma", "typeorm", "selected"}
Isolations(adapter) ==
    IF adapter = "prisma" THEN {"read committed"}
    ELSE {"read committed", "repeatable read"}
World(adapter, isolation, calls, rows) ==
    [adapter |-> adapter, isolation |-> isolation, calls |-> calls,
     rows |-> rows]
\* Every two calls, and every call among one that inserts and one that
\* deletes.
Crowds(calls) ==
    {("a" :> p) @@ ("b" :> q) : p, q \in calls}
    \cup {("a" :> New) @@ ("b" :> Delete) @@ ("c" :> p) : p \in calls}
Crowded ==
    UNION {{World(adapter, isolation, calls, FewRows) :
               isolation \in Isolations(adapter),
               calls \in Crowds(CallsOf(adapter))} :
           adapter \in Adapters}
Single ==
    UNION {{World(adapter, "read committed", ("a" :> call), RowsOf(adapter)) :
               call \in SingleCalls(adapter)} :
           adapter \in {"selected", "prisma"}}
MCWorlds == Crowded \cup Single
=============================================================================
