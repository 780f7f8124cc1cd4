------------------------- MODULE CompiledPredicates -------------------------
(***************************************************************************)
(* What the database adapters compile a CrudPredicate to: the truth of the *)
(* SQL condition, which like every SQL condition may be unknown.  A row is *)
(* selected where the condition is true.                                   *)
(*                                                                         *)
(* The compilers call themselves on the parts of a predicate, too: one of  *)
(* their calls is SqlNodeTruth, the whole is Compilation, known by         *)
(* IsCompilation.  SqlPredicates defines it by recursion.                  *)
(***************************************************************************)
EXTENDS Predicates

CONSTANTS
    NonNullable,            \* the nonNullableFields of the Prisma adapter
    Compilation(_, _, _)    \* the truth of an adapter's condition for a row

(***************************************************************************)
(* SQL's own operators: unknown as soon as an operand is NULL.             *)
(***************************************************************************)
SqlCompares(operator, a, b) ==
    CASE Null \in {a, b} -> Unknown
      [] Null \notin {a, b} /\ operator = "eq" -> Truth(a = b)
      [] OTHER -> Truth(Holds(operator, a, b))

SqlOperator(operator, a, v) ==
    CASE operator \in {"eq", "gt", "gte", "lt", "lte"} ->
            SqlCompares(operator, a, v)
      [] operator = "ne" -> Not3(SqlCompares("eq", a, v))
      [] operator = "in" -> Or3({SqlCompares("eq", a, w) : w \in Listed(v)})
      [] operator = "nin" ->
            Not3(Or3({SqlCompares("eq", a, w) : w \in Listed(v)}))
      [] operator = "between" ->
            And3({SqlCompares("gte", a, v[1]), SqlCompares("lte", a, v[2])})
      [] operator = "contains" ->
            IF a = Null THEN Unknown ELSE Truth(<<a, v>> \in Includes)
      [] operator = "icontains" ->
            IF a = Null THEN Unknown ELSE Truth(<<a, v>> \in IncludesInsensitive)

(***************************************************************************)
(* The translation.  null is compared with IS NULL, an empty list is a     *)
(* constant (SQL has no empty IN), and so are an empty and and an empty or.*)
(***************************************************************************)
ListTest(operator, a, values) ==
    IF values = <<>> THEN Truth(operator = "nin")
                     ELSE SqlOperator(operator, a, values)

\* Mutant: null is compared with =.
ComparisonByEquality(operator, a, v) ==
    CASE operator = "isnull" -> Truth((a = Null) = v)
      [] operator \in {"in", "nin"} -> ListTest(operator, a, v)
      [] OTHER -> SqlOperator(operator, a, v)

NativeComparison(operator, a, v) ==
    CASE operator = "isnull" -> Truth((a = Null) = v)
      [] operator \in {"in", "nin"} -> ListTest(operator, a, v)
      [] operator = "eq" /\ v = Null -> Truth(a = Null)
      [] operator = "ne" /\ v = Null -> Truth(a # Null)
      [] OTHER -> SqlOperator(operator, a, v)

\* Prisma refuses null for a required field: there isnull is a constant.
PrismaComparison(field, operator, a, v) ==
    IF operator = "isnull" /\ field \in NonNullable
    THEN Truth(~v)
    ELSE NativeComparison(operator, a, v)

Junction(kind, truths) ==
    CASE truths = {} -> Truth(kind = "and")
      [] truths # {} /\ kind = "and" -> And3(truths)
      [] truths # {} /\ kind = "or" -> Or3(truths)

\* A node, where truth is what the recursive calls on its parts return.
SqlNodeTruth(truth(_, _, _), adapter, row, p) ==
    CASE p.kind = "comparison" ->
            IF adapter = "prisma"
            THEN PrismaComparison(p.field, p.operator, row[p.field], p.value)
            ELSE NativeComparison(p.operator, row[p.field], p.value)
      [] p.kind \in {"and", "or"} ->
            Junction(p.kind, {truth(adapter, row, p.predicates[i]) :
                                 i \in DOMAIN p.predicates})
      [] p.kind = "not" -> Not3(truth(adapter, row, p.predicate))

IsCompilation ==
    \A adapter, row, p :
        Compilation(adapter, row, p) = SqlNodeTruth(Compilation, adapter, row, p)

CompiledMatches(adapter, p, row) == Compilation(adapter, row, p) = "true"

(***************************************************************************)
(* The predicates that requests bring: the operand of a comparison has the *)
(* form its operator takes, and a predicate is made of lesser ones.  A     *)
(* list that is not empty has a first value; isnull takes a boolean; the   *)
(* bounds of between are values.                                           *)
(***************************************************************************)
IsComparison(p) ==
    /\ p.kind = "comparison"
    /\ p.operator \in {"eq", "ne", "gt", "gte", "lt", "lte", "in", "nin",
                       "contains", "icontains", "isnull", "between"}
    /\ p.operator \in {"in", "nin"} => p.value = <<>> \/ 1 \in DOMAIN p.value
    /\ p.operator = "isnull" => p.value \in BOOLEAN
    /\ p.operator = "between" => Null \notin {p.value[1], p.value[2]}

ArePredicates(nodes, depth) ==
    /\ depth \in [nodes -> Nat]
    /\ \A p \in nodes :
          \/ IsComparison(p)
          \/ /\ p.kind \in {"and", "or"}
             /\ \A i \in DOMAIN p.predicates :
                   /\ p.predicates[i] \in nodes
                   /\ depth[p.predicates[i]] < depth[p]
          \/ /\ p.kind = "not"
             /\ p.predicate \in nodes /\ depth[p.predicate] < depth[p]
=============================================================================
