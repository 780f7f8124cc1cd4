-------------------------- MODULE RelationInclude --------------------------
(***************************************************************************)
(* list() and read() of CrudService with included relations.               *)
(*                                                                         *)
(* The request reads its source records in a transaction of the source's   *)
(* adapter.  With that transaction still open, it has the service of each  *)
(* relation's target open a transaction of its own (readForRelation is     *)
(* given no session), read the target records of all sources in one query  *)
(* with a fetch limit, and check the relation's bound.                     *)
(*                                                                         *)
(* A transaction needs a slot of the adapter's pool: the memory adapter    *)
(* has one slot and admits first come, first served (see MemoryAdapter); a *)
(* database has as many as its connection pool, shared by the resources.   *)
(***************************************************************************)
EXTENDS Naturals, Sequences, FiniteSets, Functions

CONSTANTS
    Requests,
    Kinds,          \* the kinds of request to consider
    Resources,
    Relations,      \* [from : Resources, to : Resources, many : BOOLEAN]
    Pools,
    PoolOf,         \* the pool of a resource's adapter
    Capacity,       \* slots of a pool
    Keys,           \* key tuples of relations
    Null,           \* a source record without a complete key tuple
    PageSize,       \* bound: source records of a request
    MaxItems,       \* maxItems of the hasMany relations
    MaxRows,        \* bound: target records with one key tuple
    MaxWrites       \* bound: writes by others

ASSUME RelationAssumption ==
    Relations \subseteq [from : Resources, to : Resources, many : BOOLEAN]
ASSUME KindAssumption == Kinds \subseteq {"list", "read"}
ASSUME PoolAssumption ==
    PoolOf \in [Resources -> Pools] /\ Capacity \in [Pools -> Nat \ {0}]
ASSUME BoundAssumption ==
    /\ {PageSize, MaxItems} \subseteq Nat \ {0}
    /\ {MaxRows, MaxWrites} \subseteq Nat

VARIABLES
    request,    \* request[r]: kind, source resource, included relations
    phase,      \* phase[r]: where r stands
    sources,    \* sources[r]: the key tuples of the source records
    maps,       \* maps[r]: for each relation loaded, the matches per source
    outcome,    \* outcome[r]: what r will answer once its transaction closes
    queue,      \* queue[p]: requests waiting for a slot of p, in order
    rows,       \* rows[t][k]: visible records of t with foreign key tuple k
    writes      \* writes by others so far

vars == <<request, phase, sources, maps, outcome, queue, rows, writes>>

\* What the client asks for: parseIncludes keeps the order, refuses doubles.
IncludesOf(s) ==
    {<<>>} \cup {<<a>> : a \in {x \in Relations : x.from = s}}
           \cup {<<a, b>> : a, b \in {x \in Relations : x.from = s}}

Request ==
    {q \in [kind : Kinds, source : Resources,
            include : UNION {IncludesOf(s) : s \in Resources}] :
        q.include \in IncludesOf(q.source) /\ IsInjective(q.include)}

Phases == {"idle", "waitSource", "reading", "loading", "waitTarget",
           "readTarget", "closing", "done"}
Outcomes == {"none", "ok", "404", "422", "500"}

Init ==
    /\ request \in [Requests -> Request]
    /\ phase = [r \in Requests |-> "idle"]
    /\ sources = [r \in Requests |-> <<>>]
    /\ maps = [r \in Requests |-> <<>>]
    /\ outcome = [r \in Requests |-> "none"]
    /\ queue = [p \in Pools |-> <<>>]
    /\ rows \in {f \in [Resources -> [Keys -> 0 .. MaxRows]] :
                    \A t \in Resources \ {x.to : x \in Relations} :
                        \A k \in Keys : f[t][k] = 0}
    /\ writes = 0

-----------------------------------------------------------------------------
SourcePool(r) == PoolOf[request[r].source]

\* The relation r loads now, or loads next.
Current(r) == request[r].include[Len(maps[r]) + 1]
TargetPool(r) == PoolOf[Current(r).to]

HoldsSource(r) ==
    phase[r] \in {"reading", "loading", "waitTarget", "readTarget", "closing"}
HoldsTarget(r) == phase[r] = "readTarget"

Used(p) ==
    Cardinality({r \in Requests : HoldsSource(r) /\ SourcePool(r) = p})
    + Cardinality({r \in Requests : HoldsTarget(r) /\ TargetPool(r) = p})

\* Everything r does moves its phase; o is its outcome so far.
Advance(r, p, o) ==
    /\ phase' = [phase EXCEPT ![r] = p]
    /\ outcome' = [outcome EXCEPT ![r] = o]
    /\ UNCHANGED <<request, rows, writes>>

WaitFor(r, p) == queue' = [queue EXCEPT ![p] = Append(@, r)]

\* adapter.transaction() of the source, called by runAdapter.
Ask(r) ==
    /\ phase[r] = "idle"
    /\ Advance(r, "waitSource", "none")
    /\ WaitFor(r, SourcePool(r))
    /\ UNCHANGED <<sources, maps>>

\* Seeded fault: the pool is not bounded.
GrantAtOnce(p) ==
    /\ queue[p] # <<>>
    /\ LET r == Head(queue[p])
       IN Advance(r, IF phase[r] = "waitSource" THEN "reading"
                     ELSE "readTarget", outcome[r])
    /\ queue' = [queue EXCEPT ![p] = Tail(@)]
    /\ UNCHANGED <<sources, maps>>

\* A slot is free: the first in the queue goes on.
Grant(p) ==
    /\ queue[p] # <<>>
    /\ Used(p) < Capacity[p]
    /\ LET r == Head(queue[p])
       IN Advance(r, IF phase[r] = "waitSource" THEN "reading"
                     ELSE "readTarget", outcome[r])
    /\ queue' = [queue EXCEPT ![p] = Tail(@)]
    /\ UNCHANGED <<sources, maps>>

\* After a relation is loaded, the next one, or the response.
Continue(r, loaded, o) ==
    IF loaded < Len(request[r].include)
    THEN Advance(r, "loading", o)
    ELSE Advance(r, "closing", "ok")

\* findMany or findOne of the source; relations need source records.
ReadSource(r) ==
    /\ phase[r] = "reading"
    /\ \E n \in 0 .. IF request[r].kind = "read" THEN 1 ELSE PageSize :
        /\ sources' \in {[sources EXCEPT ![r] = s] :
                            s \in [1 .. n -> Keys \cup {Null}]}
        /\ CASE n > 0 -> Continue(r, 0, "none")
             [] n = 0 /\ request[r].kind = "list" -> Advance(r, "closing", "ok")
             [] OTHER -> Advance(r, "closing", "404")
    /\ UNCHANGED <<maps, queue>>

\* Seeded fault: the target's transaction is asked of the source's adapter.
OpenTargetAtSource(r) ==
    /\ phase[r] = "loading"
    /\ Advance(r, "waitTarget", outcome[r])
    /\ WaitFor(r, SourcePool(r))
    /\ UNCHANGED <<sources, maps>>

\* loadRelation calls readForRelation, which opens the target's transaction.
OpenTarget(r) ==
    /\ phase[r] = "loading"
    /\ Advance(r, "waitTarget", outcome[r])
    /\ WaitFor(r, TargetPool(r))
    /\ UNCHANGED <<sources, maps>>

\* What a source record may have at most.
Bound(relation) == IF relation.many THEN MaxItems ELSE 1

QueryKeys(r) == Range(sources[r]) \ {Null}

\* Seeded fault: one limit for all sources together.
LimitOfOneSource(r) == Bound(Current(r)) + 1

\* The fetch limit of the one query for all sources.
Limit(r) == (Bound(Current(r)) + 1) * Len(sources[r])

\* The records the query of r matches: <<k, i>> is the i-th with key tuple k.
Matching(r) ==
    {x \in QueryKeys(r) \X (1 .. MaxRows) : x[2] <= rows[Current(r).to][x[1]]}

\* What the query with that limit and no order may return: all that match,
\* or any selection of so many of them.
Fetched(r) ==
    {found \in SUBSET Matching(r) :
        IF Cardinality(Matching(r)) <= Limit(r)
        THEN found = Matching(r)
        ELSE Cardinality(found) = Limit(r)}

\* Seeded fault: only a result beyond the limit of the query is an excess.
ExceedsBeyondLimit(r, found) == Cardinality(found) > Limit(r)

\* The records grouped by key tuple.
Group(found, k) == {x \in found : x[1] = k}

\* The limit is reached, or assertRelationGroupBounds objects to a group.
Exceeds(r, found) ==
    \/ Cardinality(found) >= Limit(r)
    \/ \E k \in QueryKeys(r) :
            Cardinality(Group(found, k)) > Bound(Current(r))

\* findMany of the target, its bounds, and the matches of every source; the
\* target's transaction ends here, the source's only after a refusal.
ReadTarget(r) ==
    /\ phase[r] = "readTarget"
    /\ \E found \in Fetched(r) :
        IF Exceeds(r, found)
        THEN Advance(r, "closing", "422") /\ UNCHANGED maps
        ELSE /\ Continue(r, Len(maps[r]) + 1, outcome[r])
             /\ maps' = [maps EXCEPT ![r] = Append(@,
                    [i \in DOMAIN sources[r] |->
                        IF sources[r][i] = Null THEN 0
                        ELSE Cardinality(Group(found, sources[r][i]))])]
    /\ UNCHANGED <<sources, queue>>

\* The source's transaction ends, and the request is answered.
Close(r) ==
    /\ phase[r] = "closing"
    /\ Advance(r, "done", outcome[r])
    /\ UNCHANGED <<sources, maps, queue>>

\* Seeded fault: a relation that cannot be read is tried again.
ThrowRetrying(r) ==
    /\ phase[r] = "readTarget"
    /\ Advance(r, "loading", outcome[r])
    /\ UNCHANGED <<sources, maps, queue>>

\* A scope, statement, projection or mapping throws in either transaction.
Throw(r) ==
    /\ phase[r] \in {"reading", "readTarget"}
    /\ Advance(r, "closing", "500")
    /\ UNCHANGED <<sources, maps, queue>>

\* Somebody else's mutation: one transaction, when nobody is in the way.
Write(t, k) ==
    /\ writes < MaxWrites
    /\ queue[PoolOf[t]] = <<>>
    /\ Used(PoolOf[t]) < Capacity[PoolOf[t]]
    /\ \E n \in 0 .. MaxRows : rows' = [rows EXCEPT ![t][k] = n]
    /\ writes' = writes + 1
    /\ UNCHANGED <<request, phase, sources, maps, outcome, queue>>

AllDone ==
    /\ \A r \in Requests : phase[r] = "done"
    /\ UNCHANGED vars

Progress(r) == ReadSource(r) \/ OpenTarget(r) \/ ReadTarget(r) \/ Close(r)

Next ==
    \/ \E r \in Requests : Ask(r) \/ Progress(r) \/ Throw(r)
    \/ \E p \in Pools : Grant(p)
    \/ \E t \in Resources, k \in Keys : Write(t, k)
    \/ AllDone

Spec == Init /\ [][Next]_vars

\* Reads settle, and a pool gives a free slot to whoever is first.
FairSpec ==
    /\ Spec
    /\ \A r \in Requests : WF_vars(Progress(r))
    /\ \A p \in Pools : WF_vars(Grant(p))

-----------------------------------------------------------------------------
TypeOK ==
    /\ request \in [Requests -> Request]
    /\ phase \in [Requests -> Phases]
    /\ \A r \in Requests :
        /\ Len(sources[r]) <= PageSize
        /\ QueryKeys(r) \subseteq Keys
        /\ Len(maps[r]) <= Len(request[r].include)
        /\ \A i \in DOMAIN maps[r] :
            maps[r][i] \in [DOMAIN sources[r] -> 0 .. MaxRows]
    /\ outcome \in [Requests -> Outcomes]
    /\ \A p \in Pools :
        queue[p] \in Seq(Requests) /\ Used(p) <= Capacity[p]
    /\ rows \in [Resources -> [Keys -> 0 .. MaxRows]]
    /\ writes \in 0 .. MaxWrites

(* README.md: "data is never silently truncated".  What a relation shows   *)
(* of a source record is all there is of it when the relation is read,     *)
(* although the one query for all sources has a fetch limit in common.     *)
NeverTruncated ==
    [][\A r \in Requests : maps'[r] # maps[r] =>
        \A i \in DOMAIN sources[r] :
            maps'[r][Len(maps'[r])][i] =
                IF sources[r][i] = Null THEN 0
                ELSE rows[Current(r).to][sources[r][i]]]_vars

(* A request is refused as unprocessable only if one of its source records *)
(* really has more related records than the bound: many records of many    *)
(* sources that keep the bound are not mistaken for an excess.             *)
RefusedOnlyOverBound ==
    [][\A r \in Requests :
        (outcome'[r] = "422" /\ outcome[r] # "422") =>
            \E k \in QueryKeys(r) :
                rows[Current(r).to][k] > Bound(Current(r))]_vars

\* The relations lead around no cycle of pools: of any pools, one leads to
\* none of them.
NoCycle ==
    \A some \in SUBSET Pools : some # {} =>
        \E p \in some : \A x \in Relations :
            PoolOf[x.from] = p => PoolOf[x.to] \notin some

(* A request waits for a slot only behind requests that can finish: while  *)
(* any request is under way, one of them is not waiting, or is first in    *)
(* line for a free slot.                                                   *)
SomebodyCanMove ==
    (\E r \in Requests : phase[r] \notin {"idle", "done"}) =>
        \/ \E r \in Requests : phase[r] \in {"reading", "loading",
                                             "readTarget", "closing"}
        \/ \E p \in Pools : queue[p] # <<>> /\ Used(p) < Capacity[p]

(* Every request with includes is answered.                                *)
EveryRequestIsAnswered ==
    \A r \in Requests : phase[r] = "waitSource" ~> phase[r] = "done"
=============================================================================
