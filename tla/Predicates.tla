----------------------------- MODULE Predicates -----------------------------
(***************************************************************************)
(* CrudPredicate: what its four kinds of nodes select, in the memory       *)
(* adapter and in the SQL that the three database adapters compile it to.  *)
(*                                                                         *)
(* A predicate is a record                                                 *)
(*   [kind |-> "comparison", field, operator, value],                      *)
(*   [kind |-> "and" or "or", predicates]  (a sequence), or                *)
(*   [kind |-> "not", predicate].                                          *)
(* A row is a function of its fields.  Values are integers, or Null for    *)
(* null and for a missing property.  The text that contains looks for is   *)
(* abstracted to a relation between values, Includes, and its closure      *)
(* under upper and lower case, IncludesInsensitive.                        *)
(*                                                                         *)
(* predicateTruth calls itself on the parts of a predicate.  One of its    *)
(* calls is NodeTruth; Evaluation is the whole of it, known here only by   *)
(* IsEvaluation.  MemoryPredicates defines it by recursion.                *)
(***************************************************************************)
EXTENDS Integers, Sequences

CONSTANTS
    Null,
    Includes,               \* pairs <<text, what it contains>>
    IncludesInsensitive,
    Evaluation(_, _)        \* the truth of a predicate for a row

Unknown == "unknown"
Truth(b) == IF b THEN "true" ELSE "false"
And3(truths) == IF "false" \in truths THEN "false"
                ELSE IF Unknown \in truths THEN Unknown ELSE "true"
Or3(truths) == IF "true" \in truths THEN "true"
               ELSE IF Unknown \in truths THEN Unknown ELSE "false"
Not3(truth) == CASE truth = "true" -> "false"
                 [] truth = "false" -> "true"
                 [] OTHER -> truth

Listed(values) == {values[i] : i \in DOMAIN values}
Holds(operator, a, b) ==
    CASE operator = "gt" -> a > b [] operator = "gte" -> a >= b
      [] operator = "lt" -> a < b [] operator = "lte" -> a <= b

(***************************************************************************)
(* andCrudPredicates and orCrudPredicates: a single predicate stays        *)
(* itself, and no predicate at all is nothing.                             *)
(***************************************************************************)
Combine(kind, predicates, nothing) ==
    CASE predicates = <<>> -> nothing
      [] Len(predicates) = 1 -> predicates[1]
      [] OTHER -> [kind |-> kind, predicates |-> predicates]

Comparison(field, operator, value) ==
    [kind |-> "comparison", field |-> field, operator |-> operator,
     value |-> value]

(***************************************************************************)
(* The memory adapter                                                      *)
(***************************************************************************)
\* relationalCompare is undefined when either side is null.
MemoryCompares(operator, actual, expected) ==
    IF Null \in {actual, expected} THEN Unknown
    ELSE Truth(Holds(operator, actual, expected))

MemoryMember(actual, values, found, absent) ==
    CASE values = <<>> -> absent
      [] values # <<>> /\ actual = Null -> Unknown
      [] values # <<>> /\ actual # Null /\ actual \in Listed(values) -> found
      [] OTHER -> IF Null \in Listed(values) THEN Unknown ELSE absent

MemoryBetween(actual, values) ==
    LET lower == MemoryCompares("gte", actual, values[1])
        upper == MemoryCompares("lte", actual, values[2])
    IN  IF Unknown \in {lower, upper} THEN Unknown ELSE And3({lower, upper})

\* comparisonTruth
MemoryComparison(operator, actual, expected) ==
    CASE operator \in {"eq", "ne"} ->
            LET same == IF Null \in {actual, expected}
                        THEN IF expected = Null THEN Truth(actual = Null)
                                                ELSE Unknown
                        ELSE Truth(actual = expected)
            IN  IF operator = "eq" THEN same ELSE Not3(same)
      [] operator \in {"gt", "gte", "lt", "lte"} ->
            MemoryCompares(operator, actual, expected)
      [] operator = "in" -> MemoryMember(actual, expected, "true", "false")
      [] operator = "nin" -> MemoryMember(actual, expected, "false", "true")
      [] operator = "contains" ->
            IF actual = Null THEN Unknown
            ELSE Truth(<<actual, expected>> \in Includes)
      [] operator = "icontains" ->
            IF actual = Null THEN Unknown
            ELSE Truth(<<actual, expected>> \in IncludesInsensitive)
      [] operator = "isnull" -> Truth((actual = Null) = expected)
      [] operator = "between" -> MemoryBetween(actual, expected)

\* predicateTruth, where truth is what its recursive calls return
NodeTruth(truth(_, _), row, p) ==
    CASE p.kind = "comparison" ->
            MemoryComparison(p.operator, row[p.field], p.value)
      [] p.kind = "and" ->
            And3({truth(row, p.predicates[i]) : i \in DOMAIN p.predicates})
      [] p.kind = "or" ->
            Or3({truth(row, p.predicates[i]) : i \in DOMAIN p.predicates})
      [] p.kind = "not" -> Not3(truth(row, p.predicate))

IsEvaluation == \A row, p : Evaluation(row, p) = NodeTruth(Evaluation, row, p)

\* predicateMatches; a query without a predicate selects every row.
Matches(row, p) == p = Null \/ Evaluation(row, p) = "true"

(***************************************************************************)
(* The order of rows: null sorts last, and first when descending.          *)
(***************************************************************************)
CompareNullable(left, right) ==
    CASE left = right -> 0
      [] left # right /\ left = Null -> 1
      [] left # right /\ right = Null -> -1
      [] OTHER -> IF left < right THEN -1 ELSE 1

\* compareRecords: the first item of the order that tells them apart decides.
ComesBefore(left, right, order) ==
    \E i \in DOMAIN order :
        /\ \A j \in 1..(i - 1) :
              CompareNullable(left[order[j].field], right[order[j].field]) = 0
        /\ CompareNullable(left[order[i].field], right[order[i].field])
              = (IF order[i].direction = "asc" THEN -1 ELSE 1)
=============================================================================
