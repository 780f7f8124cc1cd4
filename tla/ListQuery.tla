----------------------------- MODULE ListQuery -----------------------------
(***************************************************************************)
(* parseCrudListQuery: what a list request asks for, or why it is refused. *)
(*                                                                         *)
(* A raw query is a sequence of entries                                    *)
(*   [filter, name, operator, value]                                       *)
(* where filter tells filter[name][operator] (written with brackets or as  *)
(* nested objects, which the code merges) from an ordinary parameter, and  *)
(* value is [array, items]: a string, or an array of them.  A string is    *)
(* the sequence of its comma-separated parts; NotText is a value of        *)
(* another type, Empty a part without text, Bad a part no schema accepts.  *)
(* A part of `sort` is [field, desc], of `page`, `limit` and of filters a  *)
(* number, of `search` its length; `after` holds the token.                *)
(***************************************************************************)
EXTENDS ResourceDefinition, KeysetCursor, Arrangements

CONSTANTS NotText, Empty, Bad

Refused == [kind |-> "refused"]             \* CrudQueryValidationError, 400
Misconfigured == [kind |-> "error"]         \* TypeError, 500

\* What a raw query is: the parts of a string are never none.
IsSequence(s) == Len(s) \in Nat /\ s = [i \in 1..Len(s) |-> s[i]]
IsItem(item) == item # NotText => IsSequence(item) /\ item # <<>>
IsEntry(entry) ==
    /\ entry.filter \in BOOLEAN /\ entry.value.array \in BOOLEAN
    /\ IsSequence(entry.value.items)
    /\ ~entry.value.array => Len(entry.value.items) = 1
    /\ \A i \in DOMAIN entry.value.items :
          LET item == entry.value.items[i]
          IN  /\ IsItem(item)
              /\ entry.filter /\ item # NotText
                    => Members(item) \subseteq Int \cup {Empty, Bad}
IsRawQuery(raw) == IsSequence(raw) /\ \A i \in DOMAIN raw : IsEntry(raw[i])

RootParameters == {"sort", "search", "include", "deleted", "page", "limit",
                   "after"}
Modes == {"exclude", "include", "only"}

(***************************************************************************)
(* normalizeQuery and the readers of single parameters                     *)
(***************************************************************************)
ParametersAreKnown(raw) ==
    \A i \in DOMAIN raw :
        IF raw[i].filter THEN raw[i].name # NotText
                         ELSE raw[i].name \in RootParameters

Occurrences(raw, name) ==
    {i \in DOMAIN raw : ~raw[i].filter /\ raw[i].name = name}
Occurs(raw, name) == Occurrences(raw, name) # {}
OccursOnce(raw, name) ==
    \E i \in DOMAIN raw : Occurrences(raw, name) = {i} /\ ~raw[i].value.array
Scalar(raw, name) ==
    raw[CHOOSE i \in Occurrences(raw, name) : TRUE].value.items[1]
IsText(raw, name) == OccursOnce(raw, name) /\ Scalar(raw, name) # NotText
IsItems(raw, name) == IsText(raw, name) /\ Empty \notin Members(Scalar(raw, name))
IsNumber(raw, name, maximum) ==
    /\ IsItems(raw, name) /\ Len(Scalar(raw, name)) = 1
    /\ Scalar(raw, name)[1] # Bad /\ Scalar(raw, name)[1] \in 1..maximum

(***************************************************************************)
(* resolvePagination                                                       *)
(***************************************************************************)
ConfiguredLimit(d, options) == Given(OwnLimit(d), options.limit)
ConfiguredMaximum(d, options) == Given(OwnMaximum(d), options.maximum)

Limit(d, raw, options) ==
    IF Occurs(raw, "limit") THEN Scalar(raw, "limit")[1]
                            ELSE ConfiguredLimit(d, options)
Page(raw) == IF Occurs(raw, "page") THEN Scalar(raw, "page")[1] ELSE 1
Token(raw) == IF Occurs(raw, "after") THEN Scalar(raw, "after")[1] ELSE NoToken
OffsetIsSafe(page, limit) == (page - 1) * limit <= MaxSafe

Mode(d, raw) ==
    IF Occurs(raw, "after") \/ (~Occurs(raw, "page") /\ CursorMode(d))
    THEN "cursor" ELSE "offset"

CursorPage(d, raw, limit) ==
    IF ~CursorMode(d) \/ (Occurs(raw, "after") /\ ~IsItems(raw, "after"))
    THEN Refused
    ELSE IF limit = MaxSafe THEN Misconfigured
    ELSE [kind |-> "query", mode |-> "cursor", limit |-> limit,
          after |-> Token(raw)]

OffsetPage(d, raw, limit) ==
    IF \/ ~OffsetMode(d)
       \/ Occurs(raw, "page") /\ ~IsNumber(raw, "page", MaxSafe)
       \/ ~OffsetIsSafe(Page(raw), limit)
    THEN Refused
    ELSE [kind |-> "query", mode |-> "offset", limit |-> limit,
          page |-> Page(raw)]

Pagination(d, raw, options) ==
    IF Occurs(raw, "page") /\ Occurs(raw, "after") THEN Refused
    ELSE IF ~(/\ ConfiguredLimit(d, options) \in 1..MaxSafe
              /\ ConfiguredMaximum(d, options)
                    \in ConfiguredLimit(d, options)..MaxSafe)
    THEN Misconfigured
    ELSE IF /\ Occurs(raw, "limit")
            /\ ~IsNumber(raw, "limit", ConfiguredMaximum(d, options))
    THEN Refused
    ELSE IF Mode(d, raw) = "cursor"
    THEN CursorPage(d, raw, Limit(d, raw, options))
    ELSE OffsetPage(d, raw, Limit(d, raw, options))

(***************************************************************************)
(* buildCrudOrder: the sort items, then every id field not among them; the *)
(* id fields are taken in the order the definition lists its fields in.    *)
(***************************************************************************)
Ascending(fields) == [i \in DOMAIN fields |-> [field |-> fields[i],
                                              desc |-> FALSE]]
SortItems(d, raw, mode) ==
    CASE Occurs(raw, "sort") -> Scalar(raw, "sort")
      [] ~Occurs(raw, "sort") /\ DefaultSort(d) # None -> DefaultSort(d)
      [] OTHER -> IF mode = "cursor" /\ d.sort # None
                  THEN Ascending(d.sort.cursor) ELSE <<>>

SortIsAllowed(d, raw, mode) ==
    LET items == SortItems(d, raw, mode)
    IN  /\ Occurs(raw, "sort") => IsItems(raw, "sort")
        /\ Members(FieldsIn(items)) \subseteq SortFields(d)
        /\ Unique(FieldsIn(items))
        /\ mode = "cursor" => Members(FieldsIn(items)) \subseteq CursorSafe(d)

RemainingIds(d, items) ==
    LET places == InSequence({i \in DOMAIN d.fields : d.fields[i] \in
                                FieldsOf(d.idFields) \ Members(FieldsIn(items))})
    IN  [i \in DOMAIN places |-> d.fields[places[i]]]

BuildOrder(d, items) ==
    LET all == items \o Ascending(RemainingIds(d, items))
    IN  [i \in DOMAIN all |->
            [field |-> all[i].field,
             direction |-> IF all[i].desc THEN "desc" ELSE "asc"]]

(***************************************************************************)
(* parseFilters, one predicate for each field and operator                 *)
(***************************************************************************)
SameFilter(a, b) ==
    a.filter /\ b.filter /\ a.name = b.name /\ a.operator = b.operator
FirstFilters(raw) ==
    InSequence({i \in DOMAIN raw : raw[i].filter
                  /\ \A j \in 1..(i - 1) : ~SameFilter(raw[j], raw[i])})
Operands(raw, i) ==
    LET entries == InSequence({j \in DOMAIN raw : SameFilter(raw[j], raw[i])})
    IN  [k \in DOMAIN entries |-> raw[entries[k]].value]

\* The parts of an item, each at a place <<value, item, part>>.
Parts(item) ==
    CASE item = NotText -> <<Bad>>
      [] item # NotText /\ Len(item) = 1 /\ item[1] = Empty -> <<Bad>>
      [] OTHER -> item
PartPlaces(values) ==
    UNION {UNION {{<<i, j, k>> : k \in DOMAIN Parts(values[i].items[j])} :
                     j \in DOMAIN values[i].items} : i \in DOMAIN values}
ReadsBefore(p, q) ==
    \E i \in 1..3 : p[i] < q[i] /\ \A j \in 1..(i - 1) : p[j] = q[j]
Expanded(values) ==
    LET places == PartPlaces(values)
        written == Arranged(places, {pair \in places \X places :
                                        ReadsBefore(pair[1], pair[2])})
    IN  [n \in DOMAIN written |->
            Parts(values[written[n][1]].items[written[n][2]])[written[n][3]]]

\* A scalar operator hands its text whole to the field's schema (or to
\* parseBoolean), commas and all. The schemas of the model take one number, so
\* that a text of several parts, or of none, is one they refuse.
ExpandedAreSound(operator, expanded) ==
    /\ {Empty, Bad} \cap Members(expanded) = {}
    /\ CASE operator \in {"in", "nin"} -> expanded # <<>>
         [] operator = "between" -> Len(expanded) = 2
         [] OTHER -> Len(expanded) = 1
    /\ operator = "isnull" => expanded[1] \in 0..1

OperandIsSound(operator, values) ==
    /\ operator \notin {"in", "nin", "between"} =>
          Len(values) = 1 /\ ~values[1].array
    /\ ExpandedAreSound(operator, Expanded(values))

Operand(operator, values) ==
    LET expanded == Expanded(values)
    IN  CASE operator \in {"in", "nin", "between"} -> expanded
          [] operator = "isnull" -> expanded[1] = 1
          [] OTHER -> expanded[1]

FiltersAreAllowed(d, raw) ==
    \A k \in Members(FirstFilters(raw)) :
        /\ raw[k].name \in Filters(d)
        /\ raw[k].operator \in Members(d.filters[raw[k].name])
        /\ OperandIsSound(raw[k].operator, Operands(raw, k))

FilterPredicate(raw, k) ==
    Comparison(raw[k].name, raw[k].operator,
               Operand(raw[k].operator, Operands(raw, k)))
FilterPredicates(raw) ==
    LET first == FirstFilters(raw)
    IN  [i \in DOMAIN first |-> FilterPredicate(raw, first[i])]

(***************************************************************************)
(* parseSearch, parseIncludes and parseDeleted                             *)
(***************************************************************************)
SearchIsAllowed(d, raw) ==
    Occurs(raw, "search") =>
        /\ IsText(raw, "search") /\ d.search # None
        /\ Scalar(raw, "search")[1]
              \in Given(d.search.minLength, 1)..Given(d.search.maxLength, 200)

IncludesAreAllowed(d, raw) ==
    Occurs(raw, "include") =>
        /\ IsItems(raw, "include") /\ Unique(Scalar(raw, "include"))
        /\ Members(Scalar(raw, "include")) \subseteq DOMAIN d.relations

DeletedIsAllowed(d, raw) ==
    Occurs(raw, "deleted") =>
        /\ IsText(raw, "deleted")
        /\ Scalar(raw, "deleted")[1] \in Modes \ {"exclude"}
        /\ d.softDelete # None /\ d.queryDeleted

OptionalText(raw, name, default) ==
    IF Occurs(raw, name) THEN Scalar(raw, name)[1] ELSE default

(***************************************************************************)
(* parseCrudListQuery                                                      *)
(***************************************************************************)
IsAllowed(d, raw, mode) ==
    /\ SortIsAllowed(d, raw, mode) /\ FiltersAreAllowed(d, raw)
    /\ SearchIsAllowed(d, raw)
    /\ Occurs(raw, "search") /\ d.search.fullText => mode = "offset"
    /\ IncludesAreAllowed(d, raw) /\ DeletedIsAllowed(d, raw)

Continues(page) == page.mode = "cursor" /\ page.after # NoToken
CursorIsValid(d, page, order, options) ==
    Continues(page) =>
        /\ options.codec
        /\ IsBoundTo(page.after, [resource |-> d.name, order |-> order,
                                  fixed |-> options.fixed])

ListQueryOf(raw, page, order) ==
    [kind |-> "query", page |-> page, order |-> order,
     filters |-> FilterPredicates(raw)
                    \o IF Continues(page)
                       THEN <<CursorPredicate(order, page.after.values)>>
                       ELSE <<>>,
     search |-> OptionalText(raw, "search", None),
     deleted |-> OptionalText(raw, "deleted", "exclude")]

ParsePage(d, raw, options, page, order) ==
    IF IsAllowed(d, raw, page.mode) /\ CursorIsValid(d, page, order, options)
    THEN ListQueryOf(raw, page, order) ELSE Refused

ParseKnown(d, raw, options, page) ==
    IF page.kind # "query" THEN page
    ELSE ParsePage(d, raw, options, page,
                   BuildOrder(d, SortItems(d, raw, page.mode)))

ParseList(d, raw, options) ==
    IF ParametersAreKnown(raw)
    THEN ParseKnown(d, raw, options, Pagination(d, raw, options))
    ELSE Refused
=============================================================================
