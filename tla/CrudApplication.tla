--------------------------- MODULE CrudApplication ---------------------------
(***************************************************************************)
(* An application that has started answers list requests.                  *)
(*                                                                         *)
(* CrudBootstrap decides what may start; what follows composes it with the *)
(* query parser, the cursors and CrudService.list over a table.  A client  *)
(* sends one request, or walks: it repeats a request with the nextCursor   *)
(* of the page before, while others write rows.  Nothing is kept between   *)
(* two requests but the table and the client's token.                      *)
(*                                                                         *)
(* Rows are told apart by their field "id"; a resource with other id       *)
(* fields has them unique.  Every statement is one snapshot of the table,  *)
(* as a list's transaction provides (TransactionSession).                  *)
(***************************************************************************)
EXTENDS CrudBootstrap, ListQuery, SequencesExt

CONSTANTS
    Keys,           \* the identities of rows
    Records,        \* the rows that may be stored
    Gone,           \* no row is stored
    Requests,       \* raw queries sent once
    Walks,          \* raw queries that a client continues with nextCursor
    Parents,        \* what a parameter of the collection's path may be
    MaxWrites,      \* a bound of the model: writes during a walk
    Absent, Start   \* of KeysetWalk: no position, the first cursor

ASSUME KeysAssumption == IsFiniteSet(Keys) /\ Cardinality(Keys) <= MaxSafe

\* The rows that an application may find or meet.
Stored(a) ==
    (Records \cup {table[k] : table \in a.tables, k \in Keys}) \ {Gone}

ASSUME TablesAssumption ==
    \A a \in Applications : \A table \in a.tables :
        /\ table = [k \in Keys |-> table[k]]
        /\ \A k \in Keys : table[k] # Gone => table[k].id = k

\* Fields that a cursor may stand for are never null, and the id fields
\* tell two rows apart.
IsStorage(d, stored) ==
    /\ \A row \in stored, field \in Members(d.fields) :
          row[field] \in Int \cup {Null}
    /\ CursorMode(d) => \A row \in stored, field \in CursorSafe(d) :
          row[field] # Null
    /\ \A x, y \in stored : x.id # y.id =>
          \E field \in FieldsOf(d.idFields) : x[field] # y[field]
ASSUME RowsAssumption ==
    /\ Null \notin Int
    /\ \A a \in Applications, r \in Resources :
          Accepted(a.definition[r]) => IsStorage(a.definition[r], Stored(a))

\* The lists of a definition are lists.
HasSequences(d) ==
    /\ IsSequence(d.fields)
    /\ d.sort # None =>
          /\ IsSequence(d.sort.cursor)
          /\ d.sort.default # None => IsSequence(d.sort.default)
    /\ d.search # None => IsSequence(d.search.fields)
ASSUME DefinitionsAssumption ==
    \A a \in Applications, r \in Resources : HasSequences(a.definition[r])

ASSUME RequestsAssumption ==
    /\ \A raw \in Requests \cup Walks : IsRawQuery(raw)
    /\ \A raw \in Walks : ~Occurs(raw, "after")

\* A scope is a predicate: it has a truth for every row.
ASSUME ScopesAssumption ==
    \A a \in Applications, r \in Resources :
        LET scope == a.binding[r].scope
        IN  scope # None => /\ scope # Null
                            /\ \A row \in Stored(a) :
                                  Evaluation(row, scope)
                                     \in {"true", "false", Unknown}
ASSUME TextsAssumption ==
    Includes \cup IncludesInsensitive \subseteq Int \X Int

\* The markers of KeysetWalk are no positions.
ASSUME PlacesAssumption ==
    Absent \notin Seq(Int) /\ Start \notin Seq(Int) /\ Absent # Start

VARIABLES
    rows,           \* the table: rows[k] is the row of identity k, or Gone
    answer,         \* what the single request was answered
    walk,           \* the client's walk
    writes          \* how many writes there were

appVars == <<app, phase, defined, imported, resolved, services, entries,
             routes, controllers, rows, answer, walk, writes>>

(***************************************************************************)
(* CrudService.list                                                        *)
(***************************************************************************)
\* pathFixedValues, for the parameters of the collection's path
Fixed(d, parent) ==
    IF d.pathParams = None THEN <<>>
    ELSE [field \in FieldsOf(d.pathParams) |->
            parent[CHOOSE p \in DOMAIN d.pathParams : d.pathParams[p] = field]]

ParserOptions(d, parent) ==
    [limit |-> ModuleLimit, maximum |-> ModuleMaximum, codec |-> HasCodec,
     fixed |-> Fixed(d, parent)]

SearchPredicate(d, q) ==
    IF q.search = None \/ HasFullText(d) THEN <<>>
    ELSE <<Combine("or", [i \in DOMAIN d.search.fields |->
                            Comparison(d.search.fields[i], "icontains",
                                       q.search)], Null)>>

DeletedPredicate(d, q) ==
    IF d.softDelete = None \/ q.deleted = "include" THEN <<>>
    ELSE <<Comparison(d.softDelete, "isnull", q.deleted = "exclude")>>

Equalities(fixed, fields) ==
    [i \in DOMAIN fields |-> Comparison(fields[i], "eq", fixed[fields[i]])]
PathParamsPredicate(d, parent) ==
    Equalities(Fixed(d, parent), SetToSeq(DOMAIN Fixed(d, parent)))

ScopePredicate(r) ==
    IF Binding(r).scope = None THEN <<>> ELSE <<Binding(r).scope>>

ListPredicate(r, q, parent) ==
    LET d == Definition(r)
    IN  Combine("and", q.filters \o SearchPredicate(d, q)
                        \o DeletedPredicate(d, q)
                        \o PathParamsPredicate(d, parent)
                        \o ScopePredicate(r), Null)

Selected(predicate) ==
    {k \in Keys : rows[k] # Gone /\ Matches(rows[k], predicate)}
InOrder(keys, order) ==
    Arranged(keys, {pair \in keys \X keys :
                       ComesBefore(rows[pair[1]], rows[pair[2]], order)})
Slice(found, offset, limit) ==
    LET rest == Len(found) - offset
    IN  [i \in 1..(IF rest < limit THEN rest ELSE limit) |-> found[offset + i]]
FindMany(predicate, order, offset, limit) ==
    Slice(InOrder(Selected(predicate), order), offset, limit)

OrderValues(row, order) == [i \in DOMAIN order |-> row[order[i].field]]

\* Mutant: the last page that is not full is forgotten.
FullPages(total, limit) == total \div limit
TotalPages(total, limit) == (total + limit - 1) \div limit

OffsetPageOf(q, total, totalPages, data) ==
    [kind |-> "page", mode |-> "offset", data |-> data, page |-> q.page.page,
     limit |-> q.page.limit, total |-> total, totalPages |-> totalPages,
     hasNextPage |-> q.page.page < totalPages,
     hasPreviousPage |-> q.page.page > 1]

OffsetAnswer(q, predicate) ==
    LET total == Cardinality(Selected(predicate))
    IN  OffsetPageOf(q, total, TotalPages(total, q.page.limit),
                     FindMany(predicate, q.order,
                              (q.page.page - 1) * q.page.limit, q.page.limit))

NextCursor(binding, last) == Encode(binding, OrderValues(last, binding.order))
CursorPageOf(q, data, hasNextPage, nextCursor) ==
    IF hasNextPage /\ HasCodec /\ nextCursor = NoToken
    THEN Misconfigured
    ELSE [kind |-> "page", mode |-> "cursor", data |-> data,
          limit |-> q.page.limit, hasNextPage |-> hasNextPage, nextCursor |-> nextCursor]

CursorAnswer(q, binding, found) ==
    IF Len(found) > q.page.limit
    THEN CursorPageOf(q, SubSeq(found, 1, q.page.limit), TRUE,
                      IF HasCodec
                      THEN NextCursor(binding, rows[found[q.page.limit]])
                      ELSE NoToken)
    ELSE CursorPageOf(q, found, FALSE, NoToken)

Query(r, raw, parent) ==
    ParseList(Definition(r), raw, ParserOptions(Definition(r), parent))

Answered(d, q, parent, predicate) ==
    IF q.page.mode = "offset" THEN OffsetAnswer(q, predicate)
    ELSE CursorAnswer(q, [resource |-> d.name, order |-> q.order,
                          fixed |-> Fixed(d, parent)],
                      FindMany(predicate, q.order, 0, q.page.limit + 1))

ListFor(r, q, parent) ==
    IF q.kind # "query" THEN q
    ELSE Answered(Definition(r), q, parent, ListPredicate(r, q, parent))

List(r, raw, parent) == ListFor(r, Query(r, raw, parent), parent)

(***************************************************************************)
(* What the controller's OpenAPI document says of the list, and the schema *)
(* that its answers are serialized with                                    *)
(***************************************************************************)
Reads(d) == IF d.softDelete = None THEN FALSE ELSE d.queryDeleted
\* Mutant: only the modes that the resource names are documented.
DocumentsNamedModes(d, entry) ==
    entry.name = "page" => IF d.pagination = None THEN FALSE
                           ELSE d.pagination.offset = TRUE
Documents(d, entry) ==
    IF entry.filter
    THEN /\ entry.name \in Filters(d)
         /\ entry.operator \in Members(d.filters[entry.name])
    ELSE CASE entry.name = "sort" -> SortFields(d) # {}
           [] entry.name = "search" -> SearchFields(d) # {}
           [] entry.name = "include" -> DOMAIN d.relations # {}
           [] entry.name = "after" -> CursorMode(d)
           [] entry.name = "deleted" -> Reads(d)
           [] entry.name = "page" -> OffsetMode(d)
           [] entry.name = "limit" -> OffsetMode(d) \/ CursorMode(d)
           [] OTHER -> FALSE

IsPageMeta(page) ==
    /\ page.limit \in 1..MaxSafe
    /\ page.mode = "offset" =>
          page.page \in 1..MaxSafe /\ {page.total, page.totalPages} \subseteq 0..MaxSafe
\* The validator of createCrudPageSchema; the items' schema is the resource's.
PageSchemaAccepts(d, page) ==
    /\ IsPageMeta(page)
    /\ IF page.mode = "offset" THEN OffsetMode(d) ELSE CursorMode(d)

(***************************************************************************)
(* The client and its competitors                                          *)
(***************************************************************************)
Nothing == [page |-> [kind |-> "none"]]
NoWalk == [status |-> "none", shown |-> {}, again |-> {}, steady |-> Keys]

AppInit ==
    /\ Init
    /\ rows \in app.tables
    /\ answer = Nothing /\ walk = NoWalk /\ writes = 0

ParentsOf(d) ==
    IF d.pathParams = None THEN {<<>>} ELSE [DOMAIN d.pathParams -> Parents]

IsIdle == phase = "ready" /\ answer = Nothing /\ walk = NoWalk

Ask(r, raw, parent) ==
    /\ IsIdle
    /\ answer' = [page |-> List(r, raw, parent), resource |-> r, raw |-> raw,
                  parent |-> parent]
    /\ UNCHANGED <<bootVars, rows, walk, writes>>

WalkOf(r, raw, parent, q) ==
    [status |-> "going", resource |-> r, raw |-> raw, parent |-> parent,
     order |-> q.order, selects |-> ListPredicate(r, q, parent),
     token |-> NoToken, last |-> <<>>,
     shown |-> {}, again |-> {}, steady |-> Keys]

IsCursorQuery(q) == q.kind = "query" /\ q.page.mode = "cursor"

StartWalk(r, raw, parent) ==
    /\ IsIdle
    /\ \E q \in {Query(r, raw, parent)} :
          IsCursorQuery(q) /\ walk' = WalkOf(r, raw, parent, q)
    /\ UNCHANGED <<bootVars, rows, answer, writes>>

After(token) ==
    [filter |-> FALSE, name |-> "after", operator |-> "",
     value |-> [array |-> FALSE, items |-> <<<<token>>>>]]

Shown(page) ==
    [walk EXCEPT
        !.status = IF page.nextCursor = NoToken THEN "ended" ELSE @,
        !.token = page.nextCursor,
        !.last = IF page.data = <<>> THEN @
                 ELSE OrderValues(rows[Last(page.data)], walk.order),
        !.shown = @ \cup Members(page.data),
        !.again = @ \cup (walk.shown \cap Members(page.data))]
Continued == IF walk.token = NoToken THEN walk.raw
             ELSE Append(walk.raw, After(walk.token))

NextPage ==
    /\ walk.status = "going"
    /\ \E page \in {List(walk.resource, Continued, walk.parent)} :
          walk' = IF page.kind = "page" THEN Shown(page)
                  ELSE [walk EXCEPT !.status = page.kind]
    /\ UNCHANGED <<bootVars, rows, answer, writes>>

Write(k, row) ==
    /\ walk.status = "going" /\ writes < MaxWrites
    /\ row # Gone => row.id = k
    /\ rows' = [rows EXCEPT ![k] = row]
    /\ writes' = writes + 1
    /\ walk' = [walk EXCEPT !.steady = @ \ {k}]
    /\ UNCHANGED <<bootVars, answer>>

Next ==
    \/ Boot /\ UNCHANGED <<rows, answer, walk, writes>>
    \/ \E r \in Bound : \E parent \in ParentsOf(Definition(r)) :
          \/ \E raw \in Requests : Ask(r, raw, parent)
          \/ \E raw \in Walks : StartWalk(r, raw, parent)
    \/ NextPage
    \/ \E k \in Keys, row \in Records \cup {Gone} : Write(k, row)

Spec == AppInit /\ [][Next]_appVars

(***************************************************************************)
(* Properties                                                              *)
(***************************************************************************)
(* What the bootstrap accepted never turns out misconfigured in a request: *)
(* no limit, cursor or order that a list needs at run time is refused with *)
(* a TypeError or cannot be encoded as a cursor (a 500).                   *)
NoRequestMeetsMisconfiguration ==
    answer.page.kind # "error" /\ walk.status # "error"

(* The requests an application makes of itself are answered: a list        *)
(* without parameters, and the continuation of an answered list with the   *)
(* token that came with it, whatever was written in between.               *)
OwnRequestsAreAnswered ==
    /\ answer.page.kind = "refused" => answer.raw # <<>>
    /\ walk.status # "refused"

\* What a list request selects, read off the request itself.
Satisfies(value, operator, operand) ==
    CASE operator = "isnull" -> (value = Null) = operand
      [] operator = "ne" -> value # Null /\ value # operand
      [] operator = "eq" -> value = operand
      [] operator = "in" -> value \in Members(operand)
      [] operator = "nin" -> value # Null /\ value \notin Members(operand)
      [] operator = "between" -> /\ value # Null
                                 /\ value \in operand[1]..operand[2]
      [] operator \in {"contains", "icontains"} ->
            <<value, operand>> \in IF operator = "contains"
                                   THEN Includes ELSE IncludesInsensitive
      [] OTHER -> value # Null /\ Holds(operator, value, operand)

IsAskedFor(row, d, q, fixed) ==
    /\ \A i \in DOMAIN q.filters :
          Satisfies(row[q.filters[i].field], q.filters[i].operator,
                    q.filters[i].value)
    /\ q.search # None => \E field \in SearchFields(d) :
          Satisfies(row[field], "icontains", q.search)
    /\ d.softDelete # None /\ q.deleted # "include"
          => (row[d.softDelete] # Null) = (q.deleted = "only")
    /\ \A field \in DOMAIN fixed : row[field] = fixed[field]

AskedFor(d, q, fixed, scope) ==
    {k \in Keys : /\ rows[k] # Gone /\ IsAskedFor(rows[k], d, q, fixed)
                  /\ scope # None => Matches(rows[k], scope)}

Rank(k, asked, order) ==
    Cardinality({l \in asked : ComesBefore(rows[l], rows[k], order)})

IsTruePage(page, limit, order, offset, asked) ==
    /\ offset <= MaxSafe
    /\ page.total = Cardinality(asked)
    /\ Members(page.data) \subseteq asked
    /\ \A k \in asked, i \in 1..limit :
          Rank(k, asked, order) = offset + i - 1
             <=> i \in DOMAIN page.data /\ page.data[i] = k
    /\ page.hasNextPage <=>
          \E k \in asked : Rank(k, asked, order) >= offset + limit

IsTrueFor(q, r, parent) ==
    IsTruePage(answer.page, q.page.limit, q.order, (q.page.page - 1) * q.page.limit,
               AskedFor(Definition(r), q, Fixed(Definition(r), parent),
                        Binding(r).scope))

(* An offset page is true: its offset is a safe integer, its i-th row is   *)
(* the one with offset + i - 1 requested rows before it, it is full unless *)
(* the rows end, the total counts all of them, and hasNextPage says        *)
(* whether a requested row lies beyond the page.  What a full-text search  *)
(* finds is the database's affair.                                         *)
IsFullText(raw, d) == Occurs(raw, "search") /\ HasFullText(d)
OffsetPagesAreTrue ==
    /\ answer.page.kind = "page" /\ answer.page.mode = "offset"
    /\ ~IsFullText(answer.raw, Definition(answer.resource))
    => IsTrueFor(Query(answer.resource, answer.raw, answer.parent),
                 answer.resource, answer.parent)

(* A list is answered as its OpenAPI document says: every parameter that   *)
(* the parser took is documented, and the page passes the response schema  *)
(* of the modes that the document shows.                                   *)
ListsAreAsDocumented ==
    answer.page.kind = "page" =>
        /\ \A i \in DOMAIN answer.raw :
              Documents(Definition(answer.resource), answer.raw[i])
        /\ PageSchemaAccepts(Definition(answer.resource), answer.page)

\* The position of a row in the order of a walk: its values in that order,
\* negated where it descends.  A shorter position lies before a longer one,
\* so all of them are ordered, though those of one walk have one length.
Position(values, order) ==
    [i \in DOMAIN order |-> IF order[i].direction = "asc" THEN values[i]
                                                         ELSE -values[i]]
LiesBefore(p, q) ==
    \/ Len(p) < Len(q)
    \/ /\ Len(p) = Len(q)
       /\ \E i \in DOMAIN p : p[i] < q[i] /\ \A j \in 1..(i - 1) : p[j] = q[j]

WalkPosition(k) ==
    IF \/ walk.status = "none" \/ rows[k] = Gone
       \/ ~Matches(rows[k], walk.selects)
    THEN Absent ELSE Position(OrderValues(rows[k], walk.order), walk.order)

Promise == INSTANCE KeysetWalk WITH
    Rows <- Keys, Positions <- Seq(Int),
    Before <- LiesBefore, Absent <- Absent, Start <- Start,
    at <- [k \in Keys |-> WalkPosition(k)],
    walk <- walk.status,
    cursor <- IF walk.status = "none" \/ walk.last = <<>> THEN Start
              ELSE Position(walk.last, walk.order),
    shown <- walk.shown, again <- walk.again, steady <- walk.steady

(* A client that follows nextCursor walks as KeysetWalk promises: each     *)
(* page is the run of requested rows after the last one it saw, and the    *)
(* walk ends with the page that nothing follows, while rows are inserted,  *)
(* deleted, moved in the order, or move in and out of the selection.       *)
WalksKeepThePromise == Promise!Spec
=============================================================================
