# Verification of @nestm/crud

TLA+ models of the packages under `packages/`, checked with TLC on small
instances and, where a theorem is listed, proved with TLAPS for every instance.

## The system

`@nestm/crud` generates REST resources for NestJS over a persistence adapter.

| Part | State it keeps | Operations | Correct when |
|---|---|---|---|
| **CrudService** (`crud/src/runtime/crud.service.ts`), mutations | none across requests; per request `prior` and `committed` | create, update, upsert, delete, restore, then `emitAfterCommit` | a mutation takes effect once, on a row its predicate selects *at that moment*, together with what hooks wrote; `afterCommit` hears of exactly the committed ones |
| CrudService, reads | none | list, read, `loadRelations` → the target service's `readForRelation` | every request is answered; an include is complete or refused; pages are consistent |
| **Memory adapter** (`crud-memory`) | committed records, promise chain `#writeTail`, `#activeTransactions` | transaction, create, findOne, findMany, update, delete | transactions run as if one after another, whole or not at all |
| TypeORM and Drizzle adapters | active sessions | the same, over application runners or an own transaction | an operation runs only in a transaction strong enough for it; connections are returned |
| Prisma adapter | none | the same, over `$transaction` | counted pages agree with their total |
| Predicates (memory, TypeORM, Drizzle, Prisma) | none | evaluation or compilation | every adapter selects the same rows |
| Cursors | none | keyset predicate, signing codec | an unchanged row is shown exactly once |
| Query parser, pagination | none | parsing of list parameters | bounds hold, unsupported combinations are refused |
| Resource definitions, registry, module, controllers, page schema, facts, Swagger UI plugin | configuration | start-up validation and wiring | invalid configuration is refused |

How they interact: a controller calls `CrudService`; the service calls
`adapter.transaction(work)` and, inside `work`, scopes, hooks, validators and
the adapter's statements, passing the *session* along; hooks may write through
that session. When `transaction` has resolved the service tells `afterCommit`
hooks. `list` and `read` call *other services* while their own transaction is
open. Everything is asynchronous: requests interleave at every `await`, and any
step before the commit may throw.

At start-up `defineCrudResource` judges each definition, `forFeature` the resources of
a feature, a service's constructor what its adapter can do, `CrudRegistry` names and
routes, and `onApplicationBootstrap` the relations between resources. A list request
passes the query parser, the cursor codec, the service's predicate and the adapter's
reading of it, and leaves through a page schema; the controller documents all of that.

The hard behaviours are therefore: the lock of promises in the memory adapter;
sessions used after their transaction; state read before hooks run and used
after them; the commit that fails after `committed` was set; statements of
several requests on one row under three isolation regimes; transactions that
wait for a second transaction; a condition tested by one statement and relied upon by
the next; null in a predicate, which four evaluators must read alike; a cursor that
outlives the rows it was made from; configuration judged in five places and in no fixed
order. `PROJECT.json` lists them as hazards, each at its
line and with the properties that cover it.

## Modules

| Module | What it models |
|---|---|
| `SerialStore` | abstract: a table, at most one open transaction with a private copy |
| `MemoryAdapter` | `MemoryCrudAdapter` and `MemoryCrudStore`, refines `SerialStore` |
| `MemoryAdapterProofs` | its theorems |
| `CrudRows` | what a request selects and what its statement makes of a row |
| `CrudContract` | abstract: what a mutation promises its caller |
| `CrudLifecycle` | the five mutations of `CrudService`, refines `CrudContract` |
| `CrudLifecycleProofs` | its theorems |
| `RelationInclude` | `list` and `read` with relations over pools of transactions |
| `RelationIncludeProofs` | its theorems |
| `TransactionSession` | transactions and sessions of the TypeORM and Drizzle adapters |
| `TransactionSessionProofs` | its theorems |
| `ResourceDefinition` | what `defineCrudResource` and `defineCrudRelation` accept |
| `CrudBootstrap` | from definitions to a running application: imports, options, constructors, registry, relation checks |
| `CrudBootstrapProofs` | its theorem |
| `Predicates` | predicates with three-valued logic, node by node as the memory adapter evaluates them, and the order of lists |
| `MemoryPredicates` | the recursion of that evaluation |
| `Arrangements` | a finite set in an order, as a sequence |
| `KeysetCursor` | cursor tokens, their binding to a request, the keyset predicate |
| `ListQuery` | `parseCrudListQuery` |
| `KeysetWalk` | abstract: what a client that follows `nextCursor` is promised |
| `KeysetWalkProofs` | what that promise amounts to, as a theorem |
| `CrudApplication` | composes `CrudBootstrap`, `ListQuery`, `KeysetCursor` and `Predicates`: an application that starts and answers lists; its walks refine `KeysetWalk` |
| `CrudApplicationProofs` | its theorems |
| `RowMutation` | what one call makes of one row |
| `ConditionalStatement` | abstract: each call happens at one moment, on the row of that moment |
| `CompiledPredicates` | what TypeORM, Drizzle and Prisma compile a predicate's nodes to, as SQL's truth values |
| `SqlPredicates` | the recursion of the compilers |
| `AdapterStatements` | the statements of the three database adapters, refines `ConditionalStatement` |
| `AdapterStatementsProofs` | its theorems |
| `MCMemoryAdapter`, `MCCrudLifecycle`, `MCRelationInclude`, `MCTransactionSession`, `MCCrudApplication`, `MCAdapterStatements` | values of the constants for TLC |

Definitions called *seeded faults* change one definition the way a plausible
bug would. No specification uses them; each exists to show that a property
notices the bug.

### MemoryAdapter

`resolved` and `call` are the promise chain of `#withWriteLock`: `TakePlace` is
its synchronous half (remember the tail, append a promise), `Admitted` its
`await previous`, `Release` its `finally`. `BeginTransaction`,
`CommitTransaction` and `AbortTransaction` are the three parts of
`transaction()` around `work`; `SessionCreate`, `SessionUpdate` and
`SessionDelete` are calls with a session, by whomever, for as long as
`#transactionFrom` accepts it; `DirectMutation` is a mutation without a session,
which runs in one turn of the event loop. `txn[c]` is the `records` array of the
transaction. `initial`, `base`, `told` and `landed` are history variables that state
properties and guard nothing.

The adapter may start with any records: the constructor takes `initialRecords`, or a
`store` that has some, without asking `#assertUnique` about them. So it cannot promise
that unique tuples hold, only what `UniqueHolds` says: the committed records and every
open copy hold no duplicate that was not `initial`. `Edits` of the refinement says the
same of each step: one mutation adds no duplicate.

Abstractions: the array is a function of slots (order dropped, any matching
record may be picked where the code picks the first); predicates and
`updateRecord` are arbitrary (`Predicates` has what they mean); a joined transaction is more steps of the same
session. Not covered: two adapters around one store.

### CrudLifecycle

`phase[r]` follows the code of `create` … `restore`; `hook[r]` counts hooks and
validators of the current kind; `prior[r]` and `committed[r]` are the variables
of those names. `Fail` is a rejection of `work` as `runAdapter` translates it,
`Missing` the two places that decide about an absent row. `Mutate` is the one
conditional statement of the adapter call: it waits for the row's lock,
re-evaluates the predicate on the committed row and fails with a conflict on a
taken identity or, at REPEATABLE READ, on a row changed since the snapshot. This
is the database's part and is marked external; that the adapters' statements come
to it is what `AdapterStatements` shows. The isolation regimes are
`serial` (the memory adapter, justified by `MemoryAdapter`'s refinement; it has
no upsert), `readCommitted` and `repeatableRead`. `audit` is a table of the
hooks' own.

A request selects rows by the tenant of its scopes' predicate, and writes a tenant of
its own: `writes` is what the mapped input overlaid by `createValues` or `updateValues`
comes to, any tenant or null, and `overwrites` says whether it goes over the field of a row
that is there (an upsert inserts the value in any case). Nothing in the code ties the
two together. A create may make a row that its own request could not select, and an
update may move one out of scope; so may an upsert, if the field is not one of the
binding's `scopeCreateFields`, which the constructor keeps out of `overwriteFields`. The
application prevents that with scope values, not the service. What the service owes is
`ScopesHoldAtTheWrite`: the row that a request changes is one that its scopes select when it
is written, even if another request moved it in or out since it was read. The soft-delete field is
assumed to be written by delete and restore only. `request` is part of `CrudContract`,
so the refinement says that what takes effect is the operation that was requested, on a row
that this request selects.

Left out: values of fields, projections and mappings (part of the phase they can
fail in), the retry an application runner may do around `work`.

### RelationInclude

A *pool* is the set of transactions an adapter can have open: one for each
memory adapter, the connection pool for a database. A request takes a slot for
its source, and while it keeps it, one for each included relation in turn.
What one unordered query with the common limit may return is a set of records, each a
pair of its key tuple and a number; `Group` sorts them by key tuple as
`loadRelations` does, `Matching` gives a source record those of its own, and `Exceeds` is
the two checks of `readForRelation`.

### TransactionSession

A request is an operation of `CrudService` (which calls `transaction()`) or a bare
call of the adapter. `config` is what `transaction.isolationLevel`, the runner and
`rowPredicate` are set to; both adapters decide alike, and differ in how they open a
transaction: Drizzle in one call (`DrizzleBegins`), TypeORM through a query runner
(`Connect`, `StartTransaction`, `SetReadOnly`, `Release`), either through the
application's runner (`RunnerBegins`), which may give any transaction. `txn[r]` is what
the database really gave, `session[r]` what the adapter believes; `Enter` is
`resolveEffectiveTransaction` and the registration of the session, `WorkEnds` its
`finally`, which comes before the commit. `Ask` is any call with the session, by the
service, a hook or a validator, of the own or of another adapter, or of TypeORM's
reference checker; only admitted calls are steps, because a refused one changes nothing.
A joined `transaction()` is more of the same session. `ResolvePredicate` and `Execute`
separate what the row predicate was resolved from and what the statement sees.

Assumed: a runner that gives something else than was asked for says so (the interface
demands it), commits when the work succeeds, and calls the work once; the work awaits
its calls; PostgreSQL's snapshots at REPEATABLE READ. Left out: the statements' own
effect on rows (`CrudLifecycle` has it), and errors of single statements beyond that the
work may fail at any point.

### CrudBootstrap and ResourceDefinition

A resource definition is a record of what the code reads of it, and an application one of
its definitions, bindings, features and options. `Accepted` is `defineCrudResource`:
one conjunct per check, `None` for what is undefined. A step is a call: `Define` and
`ForFeature` while the program's modules load, `ResolveOptions`, `ConstructService` and
`Register` while Nest instantiates providers, in every order that injection allows, then
`OnApplicationBootstrap`. Each has a twin that throws where the code does; the first
error ends the start, whatever bookkeeping came before it. `entries`, `routes` and
`controllers` are the registry's tables.

Numbers are safe up to `MaxSafe`, which stands for `Number.MAX_SAFE_INTEGER`. Route
paths are compared as the registry does: parameters alike, literals as written. What it
does not see, such as a literal of one route that a parameter of another also matches, is
not looked for here either. Nest gives the registry an `ApplicationConfig`; one constructed
without it skips the check of the runtime and is not modelled. The order of a composite identity's fields follows the
order of the fields.

### ListQuery, KeysetCursor, Predicates and CrudApplication

A raw query is a sequence of parameters as Express hands them over, values already
split at commas; `ParseList` is the parser with its refusals (400), its
configuration errors (500) and its defaults. `ListPredicate` joins filters, search, soft
delete, path parameters and scope as `CrudService.list` does, `OffsetAnswer` and
`CursorAnswer` make the page, `NextCursor` the token. A signed token *is* the cursor it
carries, and whatever the codec refuses is `Malformed`: signatures are assumed to do
what they are for. `Documents` and `PageSchemaAccepts` are what the controller tells
OpenAPI and the serializer. The schemas of filters take one number: a scalar operator, which
the code hands its text whole, commas included, has one operand, and any other text is
what its schema refuses.

`Predicates` evaluates to true, false or unknown, as the memory adapter does. `Includes`
says which texts contain which; the order is that of numbers, null last. Evaluation is a
recursion over the parts of a predicate; the prover cannot use a recursive operator.
So `Predicates` has one call of it, `NodeTruth`, and takes the whole as a constant
operator `Evaluation`, of which `IsEvaluation` says that it is `NodeTruth` of itself. Such
an operator exists: and, or and not only get more definite when their parts do, so the
recursion has a least solution also where it would not end. TLC is given the
recursion itself (`MemoryTruth`). `Compilation` and `SqlTruth` are the same for the
compilers.

In `CrudApplication` a client sends one request, or walks: it repeats a request with the
`nextCursor` it was given, while others write any row (`Write`). Nothing survives
between two requests but the table and the token, so a walk that
refines `KeysetWalk` owes it to the predicate alone. Every statement reads one snapshot,
which `TransactionSession` shows of the statements of a list. A row's position is the
sequence of its values in the fields of the order, of any length and any integers, the
shorter before the longer, else the first difference deciding; a descending field counts negatively.

Its assumptions are what the code asks of an application or types by its schemas: fields that a cursor may carry are never null
(`crud/README.md:44`), the id fields tell rows apart, a stored row is at its own identity,
a scope is a predicate and so has a truth value for each row, values are integers or null, and there
are no more rows than `MaxSafe`. What a full-text search finds is ranked by the
database (`crud.service.ts:222-230`) and said nothing of by `OffsetPagesAreTrue`.

### AdapterStatements

The calls of several clients on the row of one identity, inside the transactions of
`CrudService`, and the writes of other programs. `client[c].at` says between which statements a
transaction is: `found` (Prisma's unlocked `findFirst`), `waiting` for the row's lock,
`holding` it (TypeORM's `FOR UPDATE`), `written`. `Locate` and `SendInsert` send a statement,
`Grant`, `Create` and `Upsert` are its getting the row, `Save` and `SelectedMutation`
TypeORM's second statement. The database is PostgreSQL and external: a statement sees
the committed row when it is sent, waits, and then tests its condition on the newest version
(READ COMMITTED) or fails if there is one (REPEATABLE READ).

Choices made explicit: `Failed` is told apart from create's conflict, though
callers see a conflict for both; a call whose row is deleted while it waits has missed it,
even if one is inserted again before it knows (`HasMissed`); the lock of a call that
misses is released at once; at REPEATABLE READ the snapshot is that of the call's
statement; Prisma's nested `where` is one conditional statement at READ COMMITTED;
Drizzle's refusal to update nothing is left out of the calls.

`CompiledPredicates` is kept apart, and `AdapterStatements` takes it as the constant
operator `Compiled`, so that the proof can say what it needs of it: `PredicatesAgree`.
`ArePredicates` says which predicates requests bring: finite, with operands in the form
that the operator takes.

## Runs

| Run | Instance | Shows |
|---|---|---|
| `memory_adapter` | 2 clients, 2 slots, 4 lock calls | exclusion, no duplicate added to any initial records, no lost update, no acknowledged write lost, whole transactions, refinement of `SerialStore` |
| `memory_adapter_live` | 3 clients, 1 slot | service in order of call; every waiter is served |
| `lifecycle` | 2 requests on one identity, 2 tenants to select and to write, 2 hooks, all operations and adapters | the eight properties of `CrudLifecycle`, refinement of `CrudContract` |
| `lifecycle_live` | the same with 1 tenant and rows without one, 1 hook, hard delete, 404 for missing rows | every mutation ends |
| `lifecycle_ignored_delete` | READ COMMITTED | **violation**, see findings |
| `include_bounds` | 1 request, pages of 2 sources, 2 keys, up to 3 related rows, one foreign write | includes are complete or refused, and refused only over the bound |
| `include_live` | 3 requests on a chain users → posts → teams, one slot each | nobody waits forever without a cycle |
| `include_deadlock` | 2 requests, a relation and its inverse | **violation**, see findings |
| `sql_session` | 1 request, every configuration, operation and bare call, 3 statements, 2 commits of others, a second adapter | statements covered, sessions truthful, no refusal of the service's own calls, durable answers, reads without effect, one snapshot per counted page, connections released |
| `sql_session_policy` | the same, 2 statements, 1 commit | **violation**, see findings |
| `application_lists` | 86 applications of two resources in two features; of 12 of them lists: 57 requests, 3 walks, 3 rows, 3 writes | the start's verdict is the application's own, no request of a started application meets a misconfiguration, offset pages are true, lists are as documented, walks refine `KeysetWalk` |
| `adapter_statements` | up to 3 clients on one row and 1 write of another program, 4 kinds of adapter, 2 isolation levels; and one client with each of about 300 predicates | writes are conditional until they commit, predicates agree, refinement of `ConditionalStatement` |

Why the bounds are enough. Exclusion, lost updates and stale sessions need two
clients; order of service needs two waiting behind one inside, hence three. Four
lock calls let each client have two transactions, so a session of the first can
be used during the second. Two requests on one identity produce every race of
two mutations (requests on different identities share no row, lock or event);
two tenants are a visible and a hidden row, and a third owner, `NoTenant`, a row that no
scope selects (with one tenant, as in `lifecycle_live`, rows are visible or that); two hooks separate "stops at the
first" from "tells all". Two sources with two keys produce shared, different and
null keys, and three rows exceed the common limit of a query for one source.
Three requests fill a chain of three resources. Requests of `TransactionSession` share
nothing but the commits of others, so one shows what any number do (the proofs make this
precise); three statements are a counted page and one more, and a commit fits before,
between and after its two statements.

`application_lists` is a catalogue: a plain application, one edit of it for each check of
a definition, a binding, the options or a pair of resources, and those whose lists are
asked. Two resources are what a name, a route or a relation needs; with two features
they are loaded in either order. `MaxSafe` is 1000: larger than what the plain
applications multiply, so only those that aim at the bound reach it. Three rows are a page of one, a next page and a
row that overtakes it; three writes let every row move during a walk. Ranks repeat,
so ties of the sort field are broken by the identity.
An application that failed to start, a request answered and a walk ended are ends:
the run does not check for deadlock.

`adapter_statements` has every pair of calls, and every call between one that inserts and
one that deletes, which is what a row re-inserted during a wait takes. The conditions of
those are `CrudService`'s (identity, soft delete, a version). Rows have two fields of three values, one of them null:
predicates are every comparison on either, alone, negated, and within `and` and `or`
with the soft-delete condition. For Prisma `rank` is required and never null.

Fairness: weak fairness of a step that is merely the resumption of an awaited
promise (the engine runs every settled promise's continuations) and of the
application's own work settling. Nothing obliges a client to call, a step to
throw, or a hook to write. `CommitTransaction \/ AbortTransaction` are fair
together: `work` settles, one way or the other. A pool hands a free slot to the
first in line (the promise chain; a first-in-first-out connection pool).

## Proofs

`MemoryAdapterProofs` proves all safety properties of `MemoryAdapter` for
every number of clients, slots, fields, calls and every set of unique tuples, and
that it implements `SerialStore`. The assumptions are those `MemoryAdapter` states:
no unique tuple is empty (the constructor refuses one) and the placeholders are
distinct values.

- `LockInv` strengthens exclusion. Exclusion alone is not inductive: one must know
  that promises are numbered uniquely, that the promise of whoever is waiting or
  inside is not yet resolved, and that every resolved promise is preceded by
  resolved ones only. From it, two calls inside would have the same number.
- `DataInv` relates data to the lock: a session is active only while its client is
  inside, so the committed table cannot move under it (`base[c] = store`), what was
  acknowledged is what the copy holds (`told[c] = txn[c]`), and neither table has a
  duplicate that `initial` has not; `OutcomesAddNoDuplicate` shows each mutation adds none.
  Nothing is assumed of the initial records. `NoDuplicatesEver` is the usual case:
  an adapter that starts without duplicates never has one.
- `StepsAreSerial` maps every step to a step of `SerialStore` or a stutter, using
  that at most one transaction is active (`OwnerIsTheActiveClient`).

`CrudLifecycleProofs` proves all safety properties of `CrudLifecycle` but none of
its liveness, for every number of requests, identities, tenants and hooks, over all
three adapters and both settings of soft delete and of `missing`, and that it
implements `CrudContract`. It assumes what `CrudRows` and `CrudLifecycle` assume of
their constants: at least one hook, and placeholders distinct from rows and events.

- `StepKinds` first sorts the actions by what they come to, because refusing and
  skipping a missing row are shared by several.
- `StageInv` relates the phase of a request to its answer, to the hooks told and to the
  event; with it, delivery is exact.
- `OwnInv` is the core: a request that wrote its row holds the lock, so the committed
  row is still the one its statement accepted and `own` is what that statement makes of
  it. It is what makes a commit one atomic step of the contract although other requests
  commit between the statement and the commit. `WrittenRow` says what a statement that
  accepts a row leaves, and `SelectedRowsChange` that a commit changes a row only if its
  request selects it: from these follow that scopes hold at the write, that only a
  restore revives, and that the writes of a refused request are never found.
- `EventInv` relates the remembered event to the row that is, or was, committed.
- `PriorInv` is why the prior state is the replaced one: over a serial adapter nobody
  else is at work; at REPEATABLE READ what was read is the snapshot, and the statement
  fails unless the snapshot is still what is committed.

`TransactionSessionProofs` proves all safety properties of `TransactionSession` for every
number of requests and adapters and every set of configurations, from the assumption that
the placeholders are distinct from transactions, calls and numbers.

- `Fresh` says what the transaction is before work begins: for the adapter's own, what was
  asked for, TypeORM's read only mode still to come. It makes `Enter` believe the truth.
- `InSession` adds that the transaction honours the request's needs, or that a bare call
  runs without one because nothing forced it (`StandaloneIsCovered`).
- `CallsCovered` carries the admission of a call to its statement; `Writes` and `OnePage`
  follow from it: a mutation was covered, hence owns its commit; a count was covered,
  hence its two statements share the snapshot.
- `StillGood` and `OnlyItself` reduce the induction to the request that takes the step.

`CrudBootstrapProofs` proves that the start's verdict has no order, for every set of
resources, features and applications.

- `IInv` says of each stage what has passed it: defined resources are accepted,
  imported features are sound, constructed services capable; registered resources differ
  pairwise in name, controller and routes, and the registry's tables are exactly theirs.
- `CollisionIsIncoherent` is why a registration that throws convicts the application and
  not the order; `RelationsMeanTargets` why the lookup by name at the end
  finds the target itself.

`RelationIncludeProofs` proves all safety properties of `RelationInclude` for every set of
requests, resources, relations, pools, keys and every bound.

- `IInv`: a queue holds exactly the requests that wait for its pool, each once. Without it
  a grant could be counted for another pool than the one whose queue it comes from.
- `Progressing` has the hypothesis `NoCycle`: no cycle of pools is closed by relations. The
  run `include_deadlock` shows that it is needed. Were everybody waiting, each pool waited for would be
  full, its holders waiting for a further one, and some pool leads to no other.
- `Complete`: a query that returned fewer records than its limit returned all that match, so a
  source's group is what is stored for its key tuple (`GroupSize`). `RefusedRightly`: there are no
  more key tuples than sources (`FewKeys`), so records that all keep to their bound lie, as
  pairs of key tuple and number, in a product smaller than the limit.

`KeysetWalkProofs` proves, for every set of rows and every strict total order of positions,
that a walk shows each untouched row exactly once. The invariant is `CursorDivides`: an
untouched row has been shown if it lies at or before the cursor, and not otherwise.

`CrudApplicationProofs` proves all properties of `CrudApplication`, its refinement of
`KeysetWalk` included, for every set of applications, requests, walks and rows and any
writes. Beyond the module's assumptions, the theorems about pages and walks have two
hypotheses: `IsEvaluation`, and `MarkersAreApart`, that no predicate or token is one of the
values that stand for their absence.

- `AppInv` adds to the start's `IInv` that each row is stored at its own identity (`RowsOK`),
  that the answer is what the list answers to the rows as they are (`AnswerOK`), and that a
  walk's token is one of its own query (`WalkOK`); a write would
  falsify the second, and only a walk admits writes. Request properties then are
  statements about one call of the parser and of the list.
- `PagesAreTrue`: the rank of a row, the number of rows before it, is its place in the
  arrangement (`Ranks`), so slices are pages; the list's predicate is a conjunction of
  parts, and holds where each of its parts does (`ListsSelect`).
- `CursorsSelect`: the predicate of a cursor, a disjunction with one branch per field of the order,
  selects the rows whose position is after the cursor's. It needs that the cursor's
  values are numbers, hence the assumption on null.
- `WalkFollows` says that a walk's query is still the one it began with and its token
  carries the values of the last row shown. From it `NextPagesFetch`: the continued
  list is what lies ahead, and a page, a prefix of its arrangement (`PrefixesAreRuns`), is a run.
- `WalksShowUntouchedRowsOnce` composes the refinement with `KeysetWalkProofs`, given
  `PositionsAreOrdered`: lexicographic order of integer sequences is strict and total.

`AdapterStatementsProofs` proves that writes are conditional and that the statements
implement `ConditionalStatement`, for every number of clients, rows, calls and writes of
others, first under the hypothesis `[]PredicatesAgree` (`Conditional`, `Atomic`), then
without it (`AdaptersKeepTheirContract`). The assumptions on worlds say that calls propose rows and leave rows.

- `Inv`: who holds or has written the row owns its lock, what it loaded is
  still the committed row, and its call selects that row. This makes TypeORM's save by
  identity as good as a conditional statement.
- `SeesWhatItSent`: a statement not yet sent has seen no other version.
- `OwnStepRefuses` and `CommitMaps` sort the steps into those that end a call without
  a write, which may be refused at that moment, and the commit, which is the one
  moment of the call, and the end of the wait for those whose row it removes.

- `Agreement` discharges the hypothesis for the compilers. Node by node the three-valued
  results are the same (`ComparisonsAgree`, `NodesAgree`). The library's induction
  theorems cannot be instantiated, but its theorem that a set of numbers has a least element can: of
  the predicates with different results one would be smallest, and its parts agree
  (`TruthsAgree`). `ReadsPredicates` and `WorldsAsk` say of what: predicates that
  are `ArePredicates`, and for Prisma rows that have what the schema requires. The
  first is evaluated for the predicates of the run (`AskedArePredicates`).

Only model-checked: liveness (`memory_adapter_live`, `lifecycle_live`, `include_live`),
which is out of the prover's reach. The runs that find a violation have no theorem, and
neither has that `MemoryTruth` and `SqlTruth` satisfy `IsEvaluation` and
`IsCompilation`: it is what TLA+ takes a recursive definition to mean.

## Findings

1. `lifecycle_ignored_delete`. The package README promises that an ignored delete of
   a row that is not visible runs no mutation hooks. The code checks visibility, runs
   the hooks, then deletes; at READ COMMITTED the row can disappear in between and the
   delete is ignored with its hooks run and their writes committed.
2. `include_deadlock`. A list holds its source's transaction while it opens the
   target's. Over memory adapters two requests including a relation and its inverse
   block each other for good, and a relation of a resource to itself blocks alone.
   With a database pool, as many concurrent includes as there are connections do the
   same.

3. `sql_session_policy`. `rowPredicate.transaction` is documented as what is needed "while
   resolving and applying this predicate", but TypeORM's predicate is handed the pool's
   repository, not the one of the session's manager. A predicate that loads its policy
   through it reads outside the transaction, and rows are selected by a policy of another
   commit. A predicate that reads through the session in its context is not affected; a
   unit test pins the repository handed over.

## Plan

Done: all of the modules above, with their proofs.

1. Bare calls of the TypeORM adapter, whose read and save are two statements without a
   transaction, in `AdapterStatements`; joined transactions of the memory adapter.
2. Read hooks of `CrudService` and the retry of an application's runner, once it is
   said what either promises.

## Not modelled

- Configuration that is only data: freezing, the text of JSON schemas and of OpenAPI
  documents (but not which parameters they name), decorators, NestJS's provider wiring,
  the type-level code, and the adapters' reading of ORM metadata at construction.
- The Swagger UI plugin, which builds queries in a browser; facts, an immutable collection;
  the conformance suite, which is tests.
- Cryptography and bytes of cursors: signature, base64, JSON, and the length limit
  of a token.
- Values below the granularity of the models: `-0` and `NaN` in a keyset, the precision
  a driver drops from a timestamp before it becomes part of a cursor, collations.
- `between` with a null bound under `not`, which `PredicatesAgree` does not cover and where the memory adapter answers unknown
  and SQL may answer false: only a filter schema that turns text into null could ask for it.
- Bare calls of an adapter on single rows, outside any transaction (their admission is
  in `TransactionSession`); two memory adapters around one store; full-text search.
- Prisma's counted lists: page and total are two statements, and nothing is promised of them together.
- A commit whose acknowledgement is lost, and calls that a hook does not await: what
  happens is the driver's.
