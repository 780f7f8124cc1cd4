------------------------- MODULE ResourceDefinition -------------------------
(***************************************************************************)
(* What defineCrudResource and defineCrudRelation accept.                  *)
(*                                                                         *)
(* A definition is a record of what the code reads of the resource         *)
(* definition.  Names are members of small sets; a path is a sequence of   *)
(* segments, each a parameter or a literal; a sort item "-field" is the    *)
(* record [field, desc]; a number is safe up to MaxSafe, which stands for  *)
(* Number.MAX_SAFE_INTEGER.  What is undefined in the code is None.        *)
(* Freezing the copies that a definition keeps is left out: nothing in the *)
(* model could write to them.                                              *)
(***************************************************************************)
EXTENDS Integers, Sequences, FiniteSets

CONSTANTS
    None,       \* undefined
    MaxSafe     \* Number.MAX_SAFE_INTEGER

ASSUME MaxSafeAssumption == MaxSafe \in Nat /\ MaxSafe > 2

Operations == {"create", "list", "read", "update", "delete", "restore",
               "upsert"}
Mutations == Operations \ {"list", "read"}

FilterOperators == {"eq", "ne", "gt", "gte", "lt", "lte", "in", "nin",
                    "contains", "icontains", "isnull", "between"}

Members(s) == {s[i] : i \in DOMAIN s}
Unique(s) == Cardinality(Members(s)) = Len(s)
Given(value, default) == IF value = None THEN default ELSE value
FieldsOf(mapping) == {mapping[p] : p \in DOMAIN mapping}
Injective(mapping) == \A p, q \in DOMAIN mapping :
                         mapping[p] = mapping[q] => p = q

(***************************************************************************)
(* Paths                                                                   *)
(***************************************************************************)
IsParameter(segment) == segment.parameter
ParametersOf(path) ==
    LET parameters == SelectSeq(path, IsParameter)
    IN  [i \in DOMAIN parameters |-> parameters[i].text]

RouteParametersAreSound(d) ==
    LET parent == ParametersOf(d.path)
        item == ParametersOf(d.itemPath)
    IN  /\ d.path # <<>> /\ d.itemPath # <<>>
        /\ Unique(parent) /\ Unique(item)
        /\ Members(parent) \cap Members(item) = {}
        /\ Members(parent) \cup Members(item) = DOMAIN d.idFields

PathParamsAreSound(d) ==
    LET parent == Members(ParametersOf(d.path))
    IN  IF parent = {} THEN d.pathParams = None
        ELSE /\ d.pathParams # None
             /\ DOMAIN d.pathParams = parent
             /\ FieldsOf(d.pathParams) \subseteq Members(d.fields)
             /\ Injective(d.pathParams)
             /\ \A p \in parent \cap DOMAIN d.idFields :
                   d.pathParams[p] = d.idFields[p]

(***************************************************************************)
(* Operations, contracts, fields and identity                              *)
(***************************************************************************)
OperationsAreSound(d) ==
    /\ d.operations # {} /\ d.operations \subseteq Operations
    /\ d.missing # None => /\ d.missing.on = "delete"
                           /\ d.missing.is \in {"not-found", "ignore"}
    /\ {"id", "create", "update", "response"} \subseteq d.contracts
    /\ "upsert" \in d.operations => "upsert" \in d.contracts
    /\ "restore" \in d.operations => d.softDelete # None

FieldsAreSound(d) ==
    /\ d.fields # <<>> /\ Unique(d.fields)
    /\ DOMAIN d.idFields # {}
    /\ FieldsOf(d.idFields) \subseteq Members(d.fields)
    /\ Injective(d.idFields)
    /\ d.softDelete # None => d.softDelete \in Members(d.fields)

(***************************************************************************)
(* Queries                                                                 *)
(***************************************************************************)
PositiveOrNone(n) == n = None \/ n \in 1..MaxSafe

Filters(d) == DOMAIN d.filters
FiltersAreSound(d) ==
    /\ Filters(d) \subseteq Members(d.fields)
    /\ \A field \in Filters(d) :
          /\ d.filters[field] # <<>> /\ Unique(d.filters[field])
          /\ Members(d.filters[field]) \subseteq FilterOperators

SortFields(d) == IF d.sort = None THEN {} ELSE Members(d.sort.fields)
CursorFields(d) == IF d.sort = None THEN {} ELSE Members(d.sort.cursor)
DefaultSort(d) == IF d.sort = None THEN None ELSE d.sort.default
FieldsIn(items) == [i \in DOMAIN items |-> items[i].field]

SortIsSound(d) ==
    d.sort # None =>
        /\ SortFields(d) \subseteq Members(d.fields) /\ Unique(d.sort.fields)
        /\ DefaultSort(d) # None =>
              /\ Unique(FieldsIn(DefaultSort(d)))
              /\ Members(FieldsIn(DefaultSort(d))) \subseteq SortFields(d)
        /\ Unique(d.sort.cursor)
        /\ CursorFields(d) \subseteq SortFields(d)

\* resolveCrudPaginationModes
CursorMode(d) == d.pagination # None /\ d.pagination.cursor = TRUE
OffsetMode(d) == IF d.pagination = None THEN TRUE
                 ELSE Given(d.pagination.offset, ~CursorMode(d))
OwnLimit(d) == IF d.pagination = None THEN None ELSE d.pagination.defaultLimit
OwnMaximum(d) == IF d.pagination = None THEN None ELSE d.pagination.maxLimit

LimitsAreSound(d) ==
    /\ PositiveOrNone(OwnLimit(d)) /\ PositiveOrNone(OwnMaximum(d))
    /\ OwnLimit(d) # None /\ OwnMaximum(d) # None
          => OwnMaximum(d) >= OwnLimit(d)

CursorSafe(d) == CursorFields(d) \cup FieldsOf(d.idFields)
\* Mutant: the default sort of a cursor resource is not looked at.
CursorModeWithAnyDefault(d) ==
    CursorMode(d) => OwnMaximum(d) # MaxSafe /\ CursorFields(d) # {}
CursorModeIsSound(d) ==
    CursorMode(d) =>
        /\ OwnMaximum(d) # MaxSafe
        /\ CursorFields(d) # {}
        /\ DefaultSort(d) # None =>
              Members(FieldsIn(DefaultSort(d))) \subseteq CursorSafe(d)

SearchIsSound(d) ==
    d.search # None =>
        /\ d.search.fields # <<>> /\ Unique(d.search.fields)
        /\ Members(d.search.fields) \subseteq Members(d.fields)
        /\ PositiveOrNone(d.search.minLength)
        /\ PositiveOrNone(d.search.maxLength)
        /\ Given(d.search.maxLength, 200) >= Given(d.search.minLength, 1)

QueryIsSound(d) ==
    /\ FiltersAreSound(d) /\ SortIsSound(d)
    /\ OffsetMode(d) \/ CursorMode(d)
    /\ LimitsAreSound(d) /\ CursorModeIsSound(d) /\ SearchIsSound(d)

(***************************************************************************)
(* Relations and versions                                                  *)
(***************************************************************************)
RelationIsSound(relation) ==
    /\ relation.type \in {"belongsTo", "hasOne", "hasMany"}
    /\ relation.local # <<>> /\ Len(relation.local) = Len(relation.foreign)
    /\ Unique(relation.local) /\ Unique(relation.foreign)
    /\ PositiveOrNone(relation.maxItems) /\ relation.maxItems # MaxSafe
    /\ relation.type # "hasMany" => relation.maxItems = None

RelationsAreSound(d) ==
    \A name \in DOMAIN d.relations :
        /\ RelationIsSound(d.relations[name])
        /\ Members(d.relations[name].local) \subseteq Members(d.fields)

VersionsAreSound(d) ==
    d.versions # None => d.versions # <<>> /\ Unique(d.versions)

Accepted(d) ==
    /\ RouteParametersAreSound(d) /\ PathParamsAreSound(d)
    /\ OperationsAreSound(d) /\ FieldsAreSound(d)
    /\ QueryIsSound(d) /\ RelationsAreSound(d) /\ VersionsAreSound(d)
=============================================================================
