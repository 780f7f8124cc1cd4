---------------------------- MODULE KeysetCursor ----------------------------
(***************************************************************************)
(* Cursor tokens and the predicate they stand for.                         *)
(*                                                                         *)
(* A token that the HMAC codec signed is the cursor it carries; its bytes  *)
(* and its signature are left out, and everything the codec refuses to     *)
(* decode is the token Malformed.  A binding is what a request fixes: the  *)
(* name of its resource, its order, and the values of the collection's     *)
(* path parameters.  CRUD_CURSOR_VERSION has one value.                    *)
(***************************************************************************)
EXTENDS Predicates, FiniteSets

CONSTANTS
    Malformed,      \* a token that the codec does not decode
    NoToken         \* the request has no token, or none can be made

FieldsInOrder(order) == [i \in DOMAIN order |-> order[i].field]
PlacesOf(order, field) == {i \in DOMAIN order : order[i].field = field}

\* assertFixedValues
FixedValuesAgree(binding, values) ==
    \A field \in DOMAIN binding.fixed :
        /\ Cardinality(PlacesOf(binding.order, field)) = 1
        /\ \A i \in PlacesOf(binding.order, field) :
              i \in DOMAIN values /\ values[i] = binding.fixed[field]

\* assertCursorShape
ShapeIsSound(cursor) ==
    /\ cursor.order # <<>> /\ Len(cursor.values) = Len(cursor.order)
    /\ Null \notin Listed(cursor.values)
    /\ \A i, j \in DOMAIN cursor.order :
          cursor.order[i].field = cursor.order[j].field => i = j

\* HmacSha256CrudCursorCodec.encode and decode check a cursor's shape.
Sealed(cursor) == IF ShapeIsSound(cursor) THEN cursor ELSE NoToken
Decodes(token) == token # Malformed /\ ShapeIsSound(token)

\* encodeCrudCursor
Encode(binding, values) ==
    IF FixedValuesAgree(binding, values)
    THEN Sealed([resource |-> binding.resource, order |-> binding.order,
                 values |-> values])
    ELSE NoToken

\* decodeCrudCursor accepts a token of this very resource, order and parent.
IsBoundTo(token, binding) ==
    /\ Decodes(token)
    /\ token.resource = binding.resource
    /\ token.order = binding.order
    /\ Len(token.values) = Len(binding.order)
    /\ FixedValuesAgree(binding, token.values)

(***************************************************************************)
(* (a > A) OR (a = A AND b > B) ..., with < where the order descends       *)
(***************************************************************************)
Advances(item, value) ==
    Comparison(item.field, IF item.direction = "asc" THEN "gt" ELSE "lt", value)

\* Mutant: a branch forgets that the fields before its own are equal.
BranchWithoutPrefix(order, values, i) == Advances(order[i], values[i])
Branch(order, values, i) ==
    Combine("and",
            [j \in 1..i |-> IF j < i
                            THEN Comparison(order[j].field, "eq", values[j])
                            ELSE Advances(order[i], values[i])],
            Null)

CursorPredicate(order, values) ==
    Combine("or", [i \in DOMAIN order |-> Branch(order, values, i)], Null)
=============================================================================
