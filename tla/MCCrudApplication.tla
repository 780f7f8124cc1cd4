-------------------------- MODULE MCCrudApplication --------------------------
(***************************************************************************)
(* A catalogue of applications of two resources: a plain one, the edits of *)
(* it that some check looks for, and those whose lists are asked.          *)
(***************************************************************************)
EXTENDS CrudApplication, MemoryPredicates

MCKeys == 1..3
MCResources == {"notes", "tags"}
MCFeatures == {"one", "two"}
MCParents == 1..2
MCIncludes == {<<1, 1>>, <<2, 2>>, <<2, 1>>}
MCIncludesInsensitive == MCIncludes \cup {<<1, 2>>}

Row(k, rank, note, deleted) ==
    [id |-> k, rank |-> rank, note |-> note, deleted |-> deleted,
     parent |-> IF k = 3 THEN 2 ELSE 1, slot |-> IF k = 2 THEN 2 ELSE 1]
MCRecords == {Row(k, rank, Null, deleted) :
                 k \in Keys, rank \in 1..2, deleted \in {Null, 1}}
Table(ranks, notes, deleted) ==
    [k \in Keys |-> IF ranks[k] = 0 THEN Gone
                    ELSE Row(k, ranks[k], notes[k], deleted[k])]
None3 == <<Null, Null, Null>>
NoRows == Table(<<0, 0, 0>>, None3, None3)

(***************************************************************************)
(* Resource definitions                                                    *)
(***************************************************************************)
Param(text) == [parameter |-> TRUE, text |-> text]
Named(word, style) == [words |-> <<word>>, style |-> style]
Plain(word) ==
    [name |-> Named(word, "kebab"), path |-> <<Literal(word)>>,
     itemPath |-> <<Param("id")>>, operations |-> {"list", "read"},
     missing |-> None, contracts |-> {"id", "create", "update", "response"},
     fields |-> <<"id", "rank", "note", "deleted", "parent", "slot">>,
     idFields |-> [id |-> "id"], pathParams |-> None, softDelete |-> None,
     queryDeleted |-> FALSE, filters |-> <<>>, sort |-> None,
     pagination |-> None, search |-> None, relations |-> <<>>,
     versions |-> None]

Desc(field) == [field |-> field, desc |-> TRUE]
Asc(field) == [field |-> field, desc |-> FALSE]
Sorting(fields, default, cursor) ==
    [fields |-> fields, default |-> default, cursor |-> cursor]
Paging(offset, cursor, limit, maximum) ==
    [offset |-> offset, cursor |-> cursor, defaultLimit |-> limit,
     maxLimit |-> maximum]
Searching(fullText, least, most) ==
    [fields |-> <<"note", "rank">>, fullText |-> fullText,
     minLength |-> least, maxLength |-> most]
Leading(type, target, foreign, items) ==
    [tagsOf |-> [type |-> type, target |-> target, local |-> <<"id">>,
                 foreign |-> foreign, maxItems |-> items]]
Versioned(kind, text) == [kind |-> kind, text |-> text]

ByRank == Sorting(<<"rank">>, <<Desc("rank")>>, <<"rank">>)
Parented ==
    [Plain("notes") EXCEPT
        !.path = <<Literal("boxes"), Param("box"), Literal("notes")>>,
        !.itemPath = <<Param("slot")>>,
        !.idFields = [box |-> "parent", slot |-> "slot"],
        !.pathParams = [box |-> "parent"]]

\* Edits <<property, value>> of a definition; the first ones are refused by
\* defineCrudResource, those of Capability by the service's constructor.
DefinitionEdits ==
    {<<"path", <<>>>>, <<"path", <<Param("id")>>>>,
     <<"itemPath", <<Param("id"), Param("id")>>>>,
     <<"itemPath", <<Param("other")>>>>, <<"pathParams", [id |-> "id"]>>,
     <<"operations", {}>>, <<"operations", {"upsert"}>>,
     <<"operations", {"restore"}>>,
     <<"missing", [on |-> "delete", is |-> "succeed"]>>,
     <<"contracts", {"id", "response"}>>, <<"fields", <<"id", "id">>>>,
     <<"idFields", [id |-> "key"]>>, <<"softDelete", "gone">>,
     <<"filters", [rank |-> <<>>]>>, <<"filters", [rank |-> <<"like">>]>>,
     <<"sort", Sorting(<<"rank">>, <<Asc("note")>>, <<>>)>>,
     <<"sort", Sorting(<<"rank">>, None, <<"id">>)>>,
     <<"pagination", Paging(FALSE, FALSE, None, None)>>,
     <<"pagination", Paging(None, TRUE, None, None)>>,
     <<"pagination", Paging(None, FALSE, 3, 2)>>,
     <<"pagination", Paging(None, FALSE, 0, None)>>,
     <<"search", Searching(FALSE, 201, None)>>,
     <<"relations", Leading("hasOne", "tags", <<"id">>, 2)>>,
     <<"relations", Leading("hasMany", "tags", <<>>, None)>>,
     <<"versions", <<>>>>}
CapabilityEdits ==
    {<<"operations", {"create"}>>,
     <<"softDelete", "deleted">>,
     <<"search", Searching(FALSE, None, None)>>,
     <<"search", Searching(TRUE, None, None)>>,
     <<"filters", [note |-> <<"icontains">>]>>,
     <<"relations", Leading("hasMany", "tags", <<"id">>, MaxSafe \div 50)>>,
     <<"pagination", Paging(None, FALSE, 101, None)>>,
     <<"pagination", Paging(TRUE, None, None, 19)>>}
Edited(d, edits) ==
    [property \in DOMAIN d |->
        IF \E e \in edits : e[1] = property
        THEN (CHOOSE e \in edits : e[1] = property)[2] ELSE d[property]]

(***************************************************************************)
(* Applications                                                            *)
(***************************************************************************)
Poor == {"transactions", "compositeIds"}
Rich == Poor \cup {"returning", "containsInsensitive", "upsert"}
Bare == [capabilities |-> Poor, mappings |-> {}, scopeCreateFields |-> {},
         upsert |-> None, scope |-> None]
Full == [capabilities |-> Rich, mappings |-> {"persistence", "upsert"},
         scopeCreateFields |-> {"parent"}, scope |-> None,
         upsert |-> [conflict |-> <<"id">>, overwrite |-> <<"rank">>]]
Scoped == [Full EXCEPT !.scope =
              [kind |-> "not", predicate |-> Comparison("rank", "eq", 1)]]
Defaults == [defaultLimit |-> None, maxLimit |-> None, maxRelatedRows |-> None,
             secret |-> None]
Application(d, tagsFeature) ==
    [definition |-> [notes |-> d, tags |-> Plain("tags")],
     binding |-> [notes |-> Bare, tags |-> Bare],
     feature |-> [notes |-> "one", tags |-> tagsFeature],
     generated |-> [one |-> TRUE, two |-> TRUE],
     options |-> Defaults,
     runtime |-> {"validation", "serialization"}, tables |-> {NoRows}]
Alone(d) == Application(d, "nowhere")
Both(d, tags) ==
    [Application(d, "two") EXCEPT !.definition = [notes |-> d, tags |-> tags]]

Edits == {Alone(Edited(Plain("notes"), {e})) :
             e \in DefinitionEdits \cup CapabilityEdits}

Upserting == Edited(Plain("notes"),
    {<<"operations", {"upsert", "create"}>>,
     <<"contracts", {"id", "create", "update", "response", "upsert"}>>})
Bindings ==
    {[Alone(Upserting) EXCEPT !.binding.notes = b] :
        b \in {Full, [Full EXCEPT !.upsert = None],
               [Full EXCEPT !.upsert.overwrite = <<"id">>],
               [Full EXCEPT !.capabilities = Poor \cup {"returning"}]}}
        \cup {[Alone(Edited(Parented, {<<"operations", {"create"}>>})) EXCEPT
                !.binding.notes = [Full EXCEPT !.scopeCreateFields = {}]]}

Neutral == <<Versioned("symbol", "1")>>
FirstVersion == <<Versioned("string", "1")>>
Pairs ==
    LET Same(edits) == Edited(Plain("tags"), edits)
        Relating(relation) == Edited(Plain("notes"), {<<"relations", relation>>})
    IN  {Both(Plain("notes"), Same({<<"name", Named("notes", "kebab")>>})),
         Both(Plain("notes"), Same({<<"name", Named("notes", "camel")>>})),
         Both(Plain("notes"), Same({<<"path", <<Literal("notes")>>>>,
                                    <<"itemPath", <<Param("id")>>>>})),
         Both(Edited(Plain("notes"), {<<"versions", Neutral>>}),
              Same({<<"path", <<Literal("notes")>>>>})),
         Both(Edited(Plain("notes"), {<<"versions", FirstVersion>>}),
              Same({<<"path", <<Literal("notes")>>>>})),
         Both(Relating(Leading("hasMany", "tags", <<"rank">>, 2)), Same({})),
         Both(Relating(Leading("hasMany", "tags", <<"size">>, 2)), Same({})),
         Both(Plain("tags"), Edited(Parented, {<<"relations",
              Leading("belongsTo", "notes", <<"id">>, None)>>})),
         Both(Relating(Leading("belongsTo", "tags", <<"slot">>, None)),
              Edited(Parented, {<<"name", Named("tags", "kebab")>>})),
         Alone(Relating(Leading("belongsTo", "tags", <<"id">>, None)))}
Together == {[a EXCEPT !.feature.tags = "one"] : a \in Pairs}
                \cup {[a EXCEPT !.generated.two = FALSE] : a \in Pairs}

Settings ==
    {[Alone(Plain("notes")) EXCEPT !.runtime = {"validation"}],
     [Alone(Plain("notes")) EXCEPT !.feature.notes = "nowhere", !.runtime = {}]}
        \cup {[Alone(Plain("notes")) EXCEPT !.options = o] :
                o \in {[Defaults EXCEPT !.secret = "short"],
                       [Defaults EXCEPT !.defaultLimit = 101],
                       [Defaults EXCEPT !.maxLimit = 19],
                       [Defaults EXCEPT !.maxRelatedRows = MaxSafe]}}

(***************************************************************************)
(* Applications whose lists are asked                                      *)
(***************************************************************************)
Ranked(limit, maximum) ==
    {<<"sort", ByRank>>, <<"pagination", Paging(None, TRUE, limit, maximum)>>}
Queried == Edited(Plain("notes"),
    {<<"softDelete", "deleted">>, <<"queryDeleted", TRUE>>,
     <<"filters", [rank |-> <<"eq", "ne", "gt", "gte", "lt", "lte", "in",
                              "nin", "between">>,
                   note |-> <<"eq", "ne", "nin", "contains", "icontains",
                              "isnull">>]>>,
     <<"search", Searching(FALSE, None, 2)>>,
     <<"sort", Sorting(<<"rank", "note", "id">>, None, <<"rank">>)>>,
     <<"pagination", Paging(TRUE, TRUE, 2, 3)>>})
MixedTables ==
    {Table(<<2, 1, 1>>, <<Null, 2, 1>>, <<Null, Null, 1>>),
     Table(<<1, 2, 0>>, <<2, 1, Null>>, None3),
     Table(<<1, 1, 2>>, None3, <<Null, 1, Null>>), NoRows}
RankTables ==
    {Table(<<1, 2, 1>>, None3, None3), Table(<<2, 2, 2>>, None3, None3),
     Table(<<1, 0, 2>>, None3, <<1, Null, Null>>)}

WithSecret(d, b) ==
    [Alone(d) EXCEPT !.options.secret = "long", !.binding.notes = b]
Over(tables, applications) ==
    {[a EXCEPT !.tables = tables] : a \in applications}
NotesRanked(limit, maximum) == Edited(Plain("notes"), Ranked(limit, maximum))
Asked ==
    Over(MixedTables, {WithSecret(Queried, Full), WithSecret(Queried, Scoped)})
    \cup Over(RankTables,
        {WithSecret(NotesRanked(1, None), Full),
         WithSecret(Edited(Plain("notes"), Ranked(1, 2)
                        \cup {<<"softDelete", "deleted">>}), Full),
         WithSecret(NotesRanked(MaxSafe - 1, MaxSafe - 1), Full),
         WithSecret(Edited(Parented, Ranked(1, 1)), Scoped),
         WithSecret(Edited(Parented, Ranked(1, 1)), Full)})
    \cup Over({Table(<<1, 2, 1>>, None3, None3)},
        {Alone(NotesRanked(1, None)),
         WithSecret(NotesRanked(None, MaxSafe), Full),
         WithSecret(Edited(Plain("notes"),
            {<<"pagination", Paging(None, TRUE, 1, None)>>,
             <<"sort", Sorting(<<"rank", "note">>, <<Asc("note")>>,
                               <<"rank">>)>>}), Full),
         Alone(Edited(Plain("notes"),
            {<<"pagination", Paging(TRUE, None, None, 19)>>})),
         [Alone(Plain("notes")) EXCEPT !.options.maxLimit = MaxSafe]})

MCApplications == Edits \cup Bindings \cup Pairs \cup Together \cup Settings
                    \cup Asked

(***************************************************************************)
(* Raw queries                                                             *)
(***************************************************************************)
One(parts) == [array |-> FALSE, items |-> <<parts>>]
P(name, parts) ==
    [filter |-> FALSE, name |-> name, operator |-> "", value |-> One(parts)]
F(field, operator, parts) ==
    [filter |-> TRUE, name |-> field, operator |-> operator,
     value |-> One(parts)]
Signed(words, order, values) ==
    [resource |-> Named(words, "kebab"), order |-> order, values |-> values]
Up(field) == [field |-> field, direction |-> "asc"]
Down(field) == [field |-> field, direction |-> "desc"]

Tokens ==
    {Malformed, Signed("notes", <<Down("rank"), Up("id")>>, <<2, 1>>),
     Signed("notes", <<Up("rank"), Up("id")>>, <<1, 2>>),
     Signed("tags", <<Up("rank"), Up("id")>>, <<1, 2>>),
     Signed("notes", <<Down("rank"), Up("parent"), Up("slot")>>, <<2, 1, 1>>)}
Pages ==
    {<<>>, <<P("page", <<2>>)>>, <<P("page", <<MaxSafe>>), P("limit", <<1>>)>>,
     <<P("page", <<MaxSafe>>), P("limit", <<3>>)>>, <<P("page", <<0>>)>>,
     <<P("page", <<1>>), P("limit", <<1>>)>>, <<P("limit", <<4>>)>>,
     <<P("page", <<3>>), P("limit", <<1>>)>>, <<P("limit", <<MaxSafe>>)>>,
     <<P("page", <<1>>), P("page", <<1>>)>>, <<P("page", <<Bad>>)>>,
     <<P("page", <<1>>), P("after", <<Malformed>>)>>, <<P("size", <<1>>)>>}
Filtered ==
    {<<P("page", <<1>>), F("rank", operator, <<1>>)>> :
        operator \in {"eq", "ne", "gt", "gte", "lt", "lte", "in", "nin", "like"}}
    \cup {<<P("page", <<1>>), F("note", operator, <<2>>)>> :
        operator \in {"eq", "ne", "nin", "contains", "icontains"}}
    \cup {<<P("page", <<1>>), f>> :
        f \in {F("rank", "between", <<1, 2>>), F("rank", "between", <<1>>),
               F("rank", "in", <<1, Empty>>), F("rank", "eq", <<Bad>>),
               F("note", "isnull", <<0>>), F("note", "isnull", <<1>>),
               F("note", "isnull", <<2>>)}}
    \cup {<<P("page", <<1>>), F("rank", "gte", <<1>>), F("rank", "lt", <<2>>)>>,
          <<P("page", <<1>>), F("rank", "in", <<1>>), F("rank", "in", <<2>>)>>}
Selecting ==
    {<<P("page", <<1>>), p>> :
        p \in {P("sort", <<Desc("note"), Asc("rank")>>), P("sort", <<Asc("slot")>>),
               P("sort", <<Asc("rank"), Desc("rank")>>),
               P("search", <<2>>), P("search", <<3>>), P("search", NotText),
               P("include", <<"tagsOf">>), P("deleted", <<"only">>),
               P("deleted", <<"include">>), P("deleted", <<"exclude">>)}}
    \cup {<<P("sort", <<Asc("note")>>)>>}
MCRequests == Pages \cup Filtered \cup Selecting
                \cup {<<P("after", <<t>>)>> : t \in Tokens}
                \cup {<<P("sort", <<Asc("rank")>>), P("after", <<t>>)>> :
                        t \in Tokens}
MCWalks ==
    {<<>>, <<P("sort", <<Asc("rank")>>)>>,
     <<F("rank", "gte", <<2>>), P("limit", <<1>>)>>}
=============================================================================
