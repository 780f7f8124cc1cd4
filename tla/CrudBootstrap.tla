--------------------------- MODULE CrudBootstrap ---------------------------
(***************************************************************************)
(* From resource definitions to a running application.                     *)
(*                                                                         *)
(* Loading the program's modules defines the resources and evaluates       *)
(* CrudModule.forRoot and forFeature.  Nest then instantiates providers in *)
(* an order that only respects what they inject: the resolved options and  *)
(* the cursor codec before every service, a resource's service before its  *)
(* registration.  When all of them exist, the registry's                   *)
(* onApplicationBootstrap looks at the relations.  The first error ends    *)
(* the start of the application.                                           *)
(*                                                                         *)
(* An application is a record: the definitions, what each binding and its  *)
(* adapter offer, the features the resources are bound in, the options of  *)
(* the root module and the global pipes and interceptors.                  *)
(***************************************************************************)
EXTENDS ResourceDefinition

CONSTANTS
    Resources,      \* the resource definitions of the program
    Features,       \* its calls of CrudModule.forFeature
    Applications    \* the applications to consider

VARIABLES
    app,            \* the application
    phase,          \* "loading", "instantiating", "ready" or "failed"
    defined,        \* resources that defineCrudResource has returned
    imported,       \* features that forFeature has returned
    resolved,       \* the resolved options and the cursor codec exist
    services,       \* resources whose CrudService exists
    entries,        \* CrudRegistry.#entries, as the resources in it
    routes,         \* CrudRegistry.#routes
    controllers     \* CrudRegistry.#controllers

bootVars == <<app, phase, defined, imported, resolved, services, entries,
              routes, controllers>>

Definition(r) == app.definition[r]
Binding(r) == app.binding[r]
IsBound(r) == app.feature[r] \in Features
Bound == {r \in Resources : IsBound(r)}
IsGenerated(r) == app.generated[app.feature[r]]
Generated == {r \in Bound : IsGenerated(r)}

(***************************************************************************)
(* Names and routes                                                        *)
(***************************************************************************)
\* A name is a sequence of words and the way they are written; the
\* controller's name keeps the words.
ControllerName(d) == d.name.words

\* The method of each operation, and what follows the collection's path.
Route(operation) ==
    CASE operation = "create"  -> <<"POST", "">>
      [] operation = "list"    -> <<"GET", "">>
      [] operation = "read"    -> <<"GET", "item">>
      [] operation = "update"  -> <<"PATCH", "item">>
      [] operation = "delete"  -> <<"DELETE", "item">>
      [] operation = "restore" -> <<"POST", "restore">>
      [] operation = "upsert"  -> <<"PUT", "item">>

Literal(text) == [parameter |-> FALSE, text |-> text]
IsNotEmpty(segment) == segment.parameter \/ segment.text # ""
NormalizePath(path) ==
    LET segments == SelectSeq(path, IsNotEmpty)
    IN  [i \in DOMAIN segments |->
            IF segments[i].parameter
            THEN [parameter |-> TRUE, text |-> "parameter"] ELSE segments[i]]

RoutePath(d, suffix) ==
    CASE suffix = ""        -> NormalizePath(d.path)
      [] suffix = "item"    -> NormalizePath(d.path \o d.itemPath)
      [] suffix = "restore" -> NormalizePath(d.path \o d.itemPath)
                                  \o <<Literal("restore")>>

\* A version is a number or a string, written alike, or VERSION_NEUTRAL.
VersionKeys(d) ==
    IF d.versions = None THEN {"neutral"}
    ELSE {IF v.kind = "symbol" THEN "neutral" ELSE v.text
            : v \in Members(d.versions)}

Signatures(d) ==
    {[version |-> v, method |-> Route(o)[1], path |-> RoutePath(d, Route(o)[2])]
        : v \in VersionKeys(d), o \in d.operations}

(***************************************************************************)
(* The options of the root module and the cursor codec                     *)
(***************************************************************************)
\* resolveCrudModuleOptions
ModuleLimit == Given(app.options.defaultLimit, 20)
ModuleMaximum == Given(app.options.maxLimit, 100)
MaxRelatedRows == Given(app.options.maxRelatedRows, 100)

OptionsAreSound ==
    /\ ModuleLimit \in 1..MaxSafe
    /\ ModuleMaximum \in ModuleLimit..MaxSafe
    /\ MaxRelatedRows \in 1..(MaxSafe - 1)

\* HmacSha256CrudCursorCodec: a secret has at least 32 bytes.
HasCodec == app.options.secret # None
SecretIsSound == HasCodec => app.options.secret = "long"

(***************************************************************************)
(* CrudService.assertCapabilities                                          *)
(***************************************************************************)
EffectiveLimit(d) == Given(OwnLimit(d), ModuleLimit)
EffectiveMaximum(d) == Given(OwnMaximum(d), ModuleMaximum)
HasFullText(d) == d.search # None /\ d.search.fullText
SearchFields(d) == IF d.search = None THEN {} ELSE Members(d.search.fields)

NeedsInsensitive(d) ==
    \/ ~HasFullText(d) /\ SearchFields(d) # {}
    \/ \E field \in Filters(d) : "icontains" \in Members(d.filters[field])

AdapterIsCapable(d, capabilities) ==
    /\ "transactions" \in capabilities
    /\ Cardinality(DOMAIN d.idFields) > 1 => "compositeIds" \in capabilities
    /\ d.operations \cap Mutations # {} => "returning" \in capabilities
    /\ "upsert" \in d.operations => "upsert" \in capabilities
    /\ HasFullText(d) => "fullTextSearch" \in capabilities
    /\ NeedsInsensitive(d) => "containsInsensitive" \in capabilities

BindingIsComplete(d, b) ==
    /\ d.softDelete # None => "persistence" \in b.mappings
    /\ d.pathParams # None /\ d.operations \cap {"create", "upsert"} # {}
          => b.scopeCreateFields # {}
    /\ "upsert" \in d.operations =>
          /\ "upsert" \in b.mappings /\ b.upsert # None
          /\ b.upsert.conflict # <<>> /\ Unique(b.upsert.conflict)
          /\ b.upsert.overwrite # <<>> /\ Unique(b.upsert.overwrite)
          /\ Members(b.upsert.overwrite) \cap
                (Members(b.upsert.conflict) \cup b.scopeCreateFields) = {}

FetchIsBounded(d) ==
    \A name \in DOMAIN d.relations :
        LET relation == d.relations[name]
            perSource == IF relation.type = "hasMany"
                         THEN Given(relation.maxItems, MaxRelatedRows) + 1
                         ELSE 2
        IN  perSource * EffectiveMaximum(d) <= MaxSafe

\* Mutant: a resource's own maximum is not compared with the default limit.
PagesWithoutMaximum(d) ==
    CursorMode(d) => HasCodec /\ EffectiveMaximum(d) # MaxSafe
PagesAreConfigured(d) ==
    /\ EffectiveMaximum(d) >= EffectiveLimit(d)
    /\ CursorMode(d) => HasCodec /\ EffectiveMaximum(d) # MaxSafe

IsCapable(r) ==
    LET d == Definition(r)
    IN  /\ AdapterIsCapable(d, Binding(r).capabilities)
        /\ BindingIsComplete(d, Binding(r))
        /\ FetchIsBounded(d) /\ PagesAreConfigured(d)

(***************************************************************************)
(* The steps of the start                                                  *)
(***************************************************************************)
Init ==
    /\ app \in Applications
    /\ phase = "loading"
    /\ defined = {} /\ imported = {} /\ services = {}
    /\ resolved = FALSE
    /\ entries = {} /\ routes = {} /\ controllers = {}

Throw ==
    /\ phase' = "failed"
    /\ UNCHANGED <<app, defined, imported, resolved, services, entries,
                   routes, controllers>>

Define(r) ==
    /\ phase = "loading" /\ r \notin defined
    /\ Accepted(Definition(r))
    /\ defined' = defined \cup {r}
    /\ UNCHANGED <<app, phase, imported, resolved, services, entries, routes,
                   controllers>>

DefineThrows(r) ==
    /\ phase = "loading" /\ r \notin defined
    /\ ~Accepted(Definition(r))
    /\ Throw

\* assertFeatureBindings
FeatureIsSound(f) ==
    \A r, s \in Resources :
        app.feature[r] = f /\ app.feature[s] = f /\ r # s =>
            /\ Definition(r).name # Definition(s).name
            /\ app.generated[f] => ControllerName(Definition(r))
                                      # ControllerName(Definition(s))

CanImport(f) ==
    /\ phase = "loading" /\ f \notin imported
    /\ \A r \in Resources : app.feature[r] = f => r \in defined

ForFeature(f) ==
    /\ CanImport(f) /\ FeatureIsSound(f)
    /\ imported' = imported \cup {f}
    /\ UNCHANGED <<app, phase, defined, resolved, services, entries, routes,
                   controllers>>

ForFeatureThrows(f) == CanImport(f) /\ ~FeatureIsSound(f) /\ Throw

StartInstantiation ==
    /\ phase = "loading" /\ defined = Resources /\ imported = Features
    /\ phase' = "instantiating"
    /\ UNCHANGED <<app, defined, imported, resolved, services, entries,
                   routes, controllers>>

ResolveOptions ==
    /\ phase = "instantiating" /\ ~resolved
    /\ OptionsAreSound /\ SecretIsSound
    /\ resolved' = TRUE
    /\ UNCHANGED <<app, phase, defined, imported, services, entries, routes,
                   controllers>>

ResolveOptionsThrows ==
    /\ phase = "instantiating" /\ ~resolved
    /\ ~(OptionsAreSound /\ SecretIsSound)
    /\ Throw

CanConstruct(r) ==
    phase = "instantiating" /\ resolved /\ r \in Bound \ services

ConstructService(r) ==
    /\ CanConstruct(r) /\ IsCapable(r)
    /\ services' = services \cup {r}
    /\ UNCHANGED <<app, phase, defined, imported, resolved, entries, routes,
                   controllers>>

ConstructServiceThrows(r) == CanConstruct(r) /\ ~IsCapable(r) /\ Throw

EntriesNamed(name) == {e \in entries : Definition(e).name = name}

NameIsFree(d) == EntriesNamed(d.name) = {}
ControllerIsFree(d) == ControllerName(d) \notin controllers
RoutesAreFree(d) == Signatures(d) \cap routes = {}

\* Mutant: relations are looked up when their resource registers.
RegistryAdmitsKnownTargets(r) ==
    LET d == Definition(r)
    IN  /\ NameIsFree(d)
        /\ r \in Generated => ControllerIsFree(d) /\ RoutesAreFree(d)
        /\ \A name \in DOMAIN d.relations :
              d.relations[name].target \in entries \cup {r}

RegistryAdmits(r) ==
    LET d == Definition(r)
    IN  /\ NameIsFree(d)
        /\ r \in Generated => ControllerIsFree(d) /\ RoutesAreFree(d)

CanRegister(r) == phase = "instantiating" /\ r \in services \ entries

Register(r) ==
    /\ CanRegister(r) /\ RegistryAdmits(r)
    /\ entries' = entries \cup {r}
    /\ IF r \in Generated
       THEN /\ routes' = routes \cup Signatures(Definition(r))
            /\ controllers' = controllers \cup {ControllerName(Definition(r))}
       ELSE UNCHANGED <<routes, controllers>>
    /\ UNCHANGED <<app, phase, defined, imported, resolved, services>>

RegisterThrows(r) == CanRegister(r) /\ ~RegistryAdmits(r) /\ Throw

\* onApplicationBootstrap. Nest provides the registry with its ApplicationConfig:
\* a registry made without one, by hand, skips this test and is not modelled.
RuntimeIsInstalled ==
    entries # {} => {"validation", "serialization"} \subseteq app.runtime

RelationLeads(relation) ==
    LET t == relation.target
    IN  /\ t \in Resources
        /\ EntriesNamed(Definition(t).name) # {}
        /\ \A e \in EntriesNamed(Definition(t).name) :
              /\ Definition(e).pathParams = None
              /\ e = t
              /\ Members(relation.foreign) \subseteq Members(Definition(e).fields)

RelationsLead ==
    \A r \in entries : \A name \in DOMAIN Definition(r).relations :
        RelationLeads(Definition(r).relations[name])

CanBootstrap ==
    phase = "instantiating" /\ resolved /\ services = Bound /\ entries = Bound

OnApplicationBootstrap ==
    /\ CanBootstrap /\ RuntimeIsInstalled /\ RelationsLead
    /\ phase' = "ready"
    /\ UNCHANGED <<app, defined, imported, resolved, services, entries,
                   routes, controllers>>

OnApplicationBootstrapThrows ==
    CanBootstrap /\ ~(RuntimeIsInstalled /\ RelationsLead) /\ Throw

Boot ==
    \/ \E r \in Resources : \/ Define(r) \/ DefineThrows(r)
                            \/ ConstructService(r) \/ ConstructServiceThrows(r)
                            \/ Register(r) \/ RegisterThrows(r)
    \/ \E f \in Features : ForFeature(f) \/ ForFeatureThrows(f)
    \/ StartInstantiation
    \/ ResolveOptions \/ ResolveOptionsThrows
    \/ OnApplicationBootstrap \/ OnApplicationBootstrapThrows

BootSpec == Init /\ [][Boot]_bootVars

(***************************************************************************)
(* Properties                                                              *)
(***************************************************************************)
\* What makes a set of bound resources one application: said of all of them
\* at once, without an order.
NamesDiffer ==
    \A r, s \in Bound : r # s => Definition(r).name # Definition(s).name
RoutesDiffer ==
    \A r, s \in Generated : r # s =>
        /\ ControllerName(Definition(r)) # ControllerName(Definition(s))
        /\ Signatures(Definition(r)) \cap Signatures(Definition(s)) = {}
TargetsAreBound ==
    \A r \in Bound : \A name \in DOMAIN Definition(r).relations :
        LET relation == Definition(r).relations[name]
            t == relation.target
        IN  /\ t \in Bound /\ Definition(t).pathParams = None
            /\ Members(relation.foreign) \subseteq Members(Definition(t).fields)

IsCoherent ==
    /\ \A r \in Resources : Accepted(Definition(r))
    /\ OptionsAreSound /\ SecretIsSound
    /\ \A r \in Bound : IsCapable(r)
    /\ NamesDiffer /\ RoutesDiffer /\ TargetsAreBound
    /\ Bound # {} => {"validation", "serialization"} \subseteq app.runtime

(* Whether the application starts is a fact of the set of its resources:   *)
(* it is ready only when they are coherent, and it fails only when they    *)
(* are not, in whatever order the features are loaded and the providers    *)
(* instantiated; a relation may point to a resource that registers later.  *)
VerdictHasNoOrder ==
    /\ phase = "ready" => IsCoherent
    /\ phase = "failed" => ~IsCoherent
=============================================================================
